---------------------------- MODULE StockPosting ----------------------------
(***************************************************************************)
(* A document as the services post it: a function from the rows it touches *)
(* to a line, which is a batch of movements (applyMovements) or a counted  *)
(* value for on_hand (adjustOnHandTo).  These operators say what a whole   *)
(* document does to the stock, as AtomicLedger promises it.                *)
(***************************************************************************)
EXTENDS InventoryLevel

\* The levels a batch goes through, one movement after the other.
LevelsAfter(l, moves) ==
    LET after[i \in 0..Len(moves)] ==
            IF i = 0 THEN l ELSE Moved(after[i - 1], moves[i])
    IN  after

\* The level after a whole batch, and whether each of its movements passes.
AfterLine(l, line) ==
    IF line.kind = "set" THEN [l EXCEPT !["on_hand"] = line.target]
                         ELSE LevelsAfter(l, line.moves)[Len(line.moves)]

LinePasses(l, line) ==
    IF line.kind = "set"
    THEN line.target # l["on_hand"] =>
            ~Refused(l, [bucket |-> "on_hand", type |-> "adjust",
                         change |-> line.target - l["on_hand"]])
    ELSE \A i \in 1..Len(line.moves) :
            ~Refused(LevelsAfter(l, line.moves)[i - 1], line.moves[i])

AfterDocument(s, d) ==
    [r \in DOMAIN s |-> IF r \in DOMAIN d THEN AfterLine(s[r], d[r]) ELSE s[r]]

DocumentPasses(s, d) == \A r \in DOMAIN d : LinePasses(s[r], d[r])

\* Ways to write a document down.
Entry(bucket, change, type) == [bucket |-> bucket, change |-> change, type |-> type]
PostLine(entries) == [kind |-> "post", moves |-> entries]
=============================================================================
