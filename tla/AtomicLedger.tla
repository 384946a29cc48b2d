---------------------------- MODULE AtomicLedger ----------------------------
(***************************************************************************)
(* What the services rely on when they call InventoryService inside their  *)
(* own transaction: a document's lines apply all together, to the stock of *)
(* that very moment, or not at all.  InventoryLedger implements this with  *)
(* row locks; the modules of the documents are written on top of it.       *)
(***************************************************************************)
EXTENDS StockPosting

CONSTANTS Rows, Txns, Docs, OpeningLevel

VARIABLES stock,    \* the level of every row
          outcome,  \* of every transaction
          applied   \* the document it applied

vars == <<stock, outcome, applied>>

Init == /\ stock = OpeningLevel
        /\ outcome = [t \in Txns |-> "open"]
        /\ applied = [t \in Txns |-> << >>]

Apply(t) ==
    /\ outcome[t] = "open"
    /\ \E d \in Docs :
          /\ DocumentPasses(stock, d)
          /\ stock' = AfterDocument(stock, d)
          /\ applied' = [applied EXCEPT ![t] = d]
    /\ outcome' = [outcome EXCEPT ![t] = "applied"]

Reject(t) ==
    /\ outcome[t] = "open"
    /\ outcome' = [outcome EXCEPT ![t] = "rejected"]
    /\ UNCHANGED <<stock, applied>>

Next == \E t \in Txns : Apply(t) \/ Reject(t)

Spec == Init /\ [][Next]_vars
=============================================================================
