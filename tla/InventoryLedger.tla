--------------------------- MODULE InventoryLedger ---------------------------
(***************************************************************************)
(* InventoryService: the one entry point that changes stock.  A service    *)
(* opens a database transaction, sorts the lines of its document with      *)
(* sortForLocking and posts them one row after the other.  For each row    *)
(* the code locks it (SELECT ... FOR UPDATE, inserting a zero row first    *)
(* when there is none), reads it, checks each movement, writes the level   *)
(* and inserts the movement; a throw rolls everything back.                *)
(*                                                                         *)
(* PostgreSQL runs at READ COMMITTED: what a transaction wrote is private  *)
(* (work, workAvailable, posted) until it commits, and a row lock is kept  *)
(* to the end of the transaction.  `ledger' is the inventory_movements     *)
(* table as reconciliation reads it: the sum of the committed movements of *)
(* each row and bucket.                                                    *)
(***************************************************************************)
EXTENDS InventoryLevel

CONSTANTS
    MaxId,                \* the largest database id (they are BIGINTs)
    Variants, Locations,  \* the ids of the variants and warehouses
    Txns,                 \* transactions, each runs one document once
    Docs,                 \* documents they may run: row |-> line
    OpeningRows,          \* the rows of inventory_levels at the start
    OpeningLevel          \* and what they hold

Rows == Variants \X Locations

\* A line posts a batch of movements (applyMovements), or sets on_hand to a
\* counted value (adjustOnHandTo).
Line == [kind : {"post"}, moves : Seq(Movement)]
            \union [kind : {"set"}, target : Nat]

ASSUME IdsAssumption ==
    /\ MaxId \in Nat
    /\ Variants \subseteq 0..MaxId
    /\ Locations \subseteq 0..MaxId

ASSUME DocsAssumption ==
    \A d \in Docs : DOMAIN d \subseteq Rows /\ \A r \in DOMAIN d : d[r] \in Line

ASSUME OpeningAssumption ==
    /\ OpeningRows \subseteq Rows
    /\ OpeningLevel \in [Rows -> [Buckets -> Nat]]
    /\ \A r \in Rows \ OpeningRows : OpeningLevel[r] = ZeroLevel

VARIABLES
    exists,         \* rows of inventory_levels, committed
    level,          \* their buckets (zero where there is no row)
    available,      \* their stored column `available'
    ledger,         \* per row and bucket, the sum of the committed movements
    pc,             \* where each transaction is
    doc,            \* the document it runs
    todo,           \* the rows it has still to post
    moves,          \* the movements it has still to post to the current row
    held,           \* the rows it has locked or inserted
    work,           \* its own version of the rows it holds
    workAvailable,
    posted          \* the sum of its own movements

stored == <<exists, level, available, ledger>>
private == <<work, workAvailable, posted>>
vars == <<stored, pc, doc, todo, moves, held, private>>

Running == {"lock", "create", "relock", "post", "commit"}
Ended(t) == pc[t] \in {"committed", "aborted"}

-----------------------------------------------------------------------------
(* sortForLocking: every transaction takes the rows of its document in     *)
(* the order of (variant, location).                                       *)

Before(r, s) == r[1] < s[1] \/ (r[1] = s[1] /\ r[2] < s[2])

\* Mutant: the lines are taken in the order the document lists them.
AnyRowNext(t, r) == r \in todo[t]

IsNextRow(t, r) ==
    /\ r \in todo[t]
    /\ \A s \in todo[t] \ {r} : Before(r, s)

Free(t, r) == \A u \in Txns \ {t} : r \notin held[u]

\* Mutant: a count posts a movement type of its own, unknown to the schema.
MovesOfCount(line, l) ==
    IF line.kind = "post" THEN line.moves
    ELSE << [bucket |-> "on_hand", change |-> line.target - l["on_hand"],
             type |-> "stocktake"] >>

\* adjustOnHandTo computes its change from the level it has just locked.
MovesOf(line, l) ==
    IF line.kind = "post" THEN line.moves
    ELSE IF line.target = l["on_hand"] THEN <<>>
    ELSE << [bucket |-> "on_hand", change |-> line.target - l["on_hand"],
             type |-> "adjust"] >>

-----------------------------------------------------------------------------
Init ==
    /\ exists = OpeningRows
    /\ level = OpeningLevel
    /\ available = [r \in Rows |-> ComputeAvailable(OpeningLevel[r])]
    /\ ledger = OpeningLevel
    /\ pc = [t \in Txns |-> "idle"]
    /\ doc = [t \in Txns |-> << >>]
    /\ todo = [t \in Txns |-> {}]
    /\ moves = [t \in Txns |-> << >>]
    /\ held = [t \in Txns |-> {}]
    /\ work = [t \in Txns |-> [r \in Rows |-> ZeroLevel]]
    /\ workAvailable = [t \in Txns |-> [r \in Rows |-> 0]]
    /\ posted = [t \in Txns |-> [r \in Rows |-> ZeroLevel]]

\* A service opens a transaction for a document.
Begin(t) ==
    /\ pc[t] = "idle"
    /\ \E d \in Docs :
          /\ doc' = [doc EXCEPT ![t] = d]
          /\ todo' = [todo EXCEPT ![t] = DOMAIN d]
    /\ pc' = [pc EXCEPT ![t] = "lock"]
    /\ UNCHANGED <<stored, moves, held, private>>

\* The transaction sees its own version of a row it holds, else the stored one.
TakeRow(t, r) ==
    LET fresh == r \notin held[t]
        seen == IF fresh THEN level[r] ELSE work[t][r]
    IN  /\ held' = [held EXCEPT ![t] = @ \union {r}]
        /\ work' = [work EXCEPT ![t][r] = seen]
        /\ workAvailable' = [workAvailable EXCEPT
                ![t][r] = IF fresh THEN available[r] ELSE @]
        /\ posted' = [posted EXCEPT ![t][r] = IF fresh THEN ZeroLevel ELSE @]
        /\ moves' = [moves EXCEPT ![t] = MovesOf(doc[t][r], seen)]
        /\ pc' = [pc EXCEPT ![t] = "post"]

\* Mutant: the row is read without FOR UPDATE.
LockByReading(t, r) ==
    /\ pc[t] = "lock" /\ IsNextRow(t, r)
    /\ r \in exists
    /\ TakeRow(t, r)
    /\ UNCHANGED <<stored, doc, todo>>

\* lockLevel finds the row and waits for whoever holds it.
Lock(t, r) ==
    /\ pc[t] = "lock" /\ IsNextRow(t, r)
    /\ r \in exists /\ Free(t, r)
    /\ TakeRow(t, r)
    /\ UNCHANGED <<stored, doc, todo>>

\* lockLevel finds no row: one another transaction has inserted and not
\* committed is not there either.
LockFindsNone(t, r) ==
    /\ pc[t] = "lock" /\ IsNextRow(t, r)
    /\ r \notin exists
    /\ pc' = [pc EXCEPT ![t] = "create"]
    /\ UNCHANGED <<stored, doc, todo, moves, held, private>>

\* createLevel: INSERT ... ON CONFLICT DO NOTHING waits for an uncommitted
\* insertion of the same key, then inserts a zero row or does nothing.
Create(t, r) ==
    /\ pc[t] = "create" /\ IsNextRow(t, r)
    /\ IF r \in exists
       THEN /\ pc' = [pc EXCEPT ![t] = "relock"]
            /\ UNCHANGED <<moves, held, private>>
       ELSE Free(t, r) /\ TakeRow(t, r)
    /\ UNCHANGED <<stored, doc, todo>>

\* The second lockLevel, after an insertion that did nothing.
Relock(t, r) ==
    /\ pc[t] = "relock" /\ IsNextRow(t, r)
    /\ r \in exists /\ Free(t, r)
    /\ TakeRow(t, r)
    /\ UNCHANGED <<stored, doc, todo>>

\* Mutant: available is computed before the bucket is set.
PostAvailableFirst(t, r) ==
    /\ pc[t] = "post" /\ IsNextRow(t, r)
    /\ moves[t] # << >>
    /\ LET m == Head(moves[t])
       IN  /\ ~Refused(work[t][r], m)
           /\ work' = [work EXCEPT ![t][r] = Moved(@, m)]
           /\ workAvailable' = [workAvailable EXCEPT ![t][r] = ComputeAvailable(work[t][r])]
           /\ posted' = [posted EXCEPT ![t][r] = Moved(@, m)]
    /\ moves' = [moves EXCEPT ![t] = Tail(@)]
    /\ UNCHANGED <<stored, pc, doc, todo, held>>

\* One turn of applyMovementsInternal's loop that passes its checks.
Post(t, r) ==
    /\ pc[t] = "post" /\ IsNextRow(t, r)
    /\ moves[t] # << >>
    /\ LET m == Head(moves[t])
           next == Moved(work[t][r], m)
       IN  /\ ~Refused(work[t][r], m)
           /\ work' = [work EXCEPT ![t][r] = next]
           /\ workAvailable' = [workAvailable EXCEPT ![t][r] = ComputeAvailable(next)]
           /\ posted' = [posted EXCEPT ![t][r] = Moved(@, m)]
    /\ moves' = [moves EXCEPT ![t] = Tail(@)]
    /\ UNCHANGED <<stored, pc, doc, todo, held>>

\* Rolled back: nothing the transaction wrote stays, its locks are released.
Rollback(t) ==
    /\ pc' = [pc EXCEPT ![t] = "aborted"]
    /\ held' = [held EXCEPT ![t] = {}]
    /\ UNCHANGED <<stored, doc, todo, moves, private>>

\* Mutant: the exception is swallowed and the transaction commits what it has.
RefuseAndCommit(t, r) ==
    /\ pc[t] = "post" /\ IsNextRow(t, r)
    /\ moves[t] # << >>
    /\ Refused(work[t][r], Head(moves[t]))
    /\ pc' = [pc EXCEPT ![t] = "commit"]
    /\ UNCHANGED <<stored, doc, todo, moves, held, private>>

\* Mutant: the movement is retried for ever.
RefuseAndRetry(t, r) ==
    /\ pc[t] = "post" /\ IsNextRow(t, r)
    /\ moves[t] # << >>
    /\ Refused(work[t][r], Head(moves[t]))
    /\ UNCHANGED vars

\* INSUFFICIENT_STOCK is thrown.
Refuse(t, r) ==
    /\ pc[t] = "post" /\ IsNextRow(t, r)
    /\ moves[t] # << >>
    /\ Refused(work[t][r], Head(moves[t]))
    /\ Rollback(t)

\* The row is done: on to the next one, or to the end of the transaction.
EndRow(t, r) ==
    /\ pc[t] = "post" /\ IsNextRow(t, r)
    /\ moves[t] = << >>
    /\ todo' = [todo EXCEPT ![t] = @ \ {r}]
    /\ pc' = [pc EXCEPT ![t] = IF todo[t] = {r} THEN "commit" ELSE "lock"]
    /\ UNCHANGED <<stored, doc, moves, held, private>>

Commit(t) ==
    /\ pc[t] = "commit"
    /\ exists' = exists \union held[t]
    /\ level' = [r \in Rows |-> IF r \in held[t] THEN work[t][r] ELSE level[r]]
    /\ available' = [r \in Rows |->
                        IF r \in held[t] THEN workAvailable[t][r] ELSE available[r]]
    /\ ledger' = [r \in Rows |->
            IF r \in held[t] THEN [b \in Buckets |-> ledger[r][b] + posted[t][r][b]]
                             ELSE ledger[r]]
    /\ held' = [held EXCEPT ![t] = {}]
    /\ pc' = [pc EXCEPT ![t] = "committed"]
    /\ UNCHANGED <<doc, todo, moves, private>>

\* The transaction's timeout (MOVEMENT_TX_OPTIONS, P2028), a lost connection
\* or a crash of the server process ends it at any point before COMMIT.
Timeout(t) ==
    /\ pc[t] \in Running
    /\ Rollback(t)

Step(t) ==
    \/ Commit(t)
    \/ \E r \in Rows :
          \/ Lock(t, r) \/ LockFindsNone(t, r) \/ Create(t, r) \/ Relock(t, r)
          \/ Post(t, r) \/ Refuse(t, r) \/ EndRow(t, r)

\* Every transaction has ended; the model stops here.
Finished == (\A t \in Txns : Ended(t)) /\ UNCHANGED vars

Next ==
    \/ \E t \in Txns : Begin(t) \/ Step(t) \/ Timeout(t)
    \/ Finished

Spec == Init /\ [][Next]_vars

-----------------------------------------------------------------------------
\* The types of the tables and of the transactions' own state.
TypeOK ==
    /\ exists \subseteq Rows
    /\ level \in [Rows -> Level]
    /\ available \in [Rows -> Int]
    /\ ledger \in [Rows -> Level]
    /\ pc \in [Txns -> Running \union {"idle", "committed", "aborted"}]
    /\ doc \in [Txns -> Docs \union {<< >>}]
    /\ todo \in [Txns -> SUBSET Rows]
    /\ moves \in [Txns -> Seq(Movement)]
    /\ held \in [Txns -> SUBSET Rows]
    /\ work \in [Txns -> [Rows -> Level]]
    /\ workAvailable \in [Txns -> [Rows -> Int]]
    /\ posted \in [Txns -> [Rows -> Level]]

\* INV-2 (reconcile): every bucket of every row is the sum of its movements,
\* whatever transactions interleave, roll back or first create the row.
LedgerMatchesLevel == level = ledger

\* INV-1 (reconcile): the stored column `available' is the formula's value.
AvailableFormula == \A r \in Rows : available[r] = ComputeAvailable(level[r])

\* "Physical stock (on_hand) itself never goes negative", and neither does a
\* reservation: no order of documents ends below zero in any bucket.
NoNegativeBucket == \A r \in Rows, b \in Buckets : level[r][b] >= 0

\* Transaction t is waiting for a row that u holds.
WaitsFor(t, u) ==
    \E r \in held[u] :
        /\ IsNextRow(t, r)
        /\ r \notin held[t]
        /\ \/ pc[t] \in {"lock", "relock"} /\ r \in exists
           \/ pc[t] = "create" /\ r \notin exists

\* sortForLocking's purpose: no set of transactions waits for one another.
NoWaitCycle ==
    \A S \in SUBSET Txns : S # {} => \E t \in S : \A u \in S : ~WaitsFor(t, u)

\* Only a document with a step of an order's lifecycle (or one that sets
\* stock aside as unavailable) makes a shortage, or makes it worse: receipts,
\* transfers, returns and counts never do, even after many of their lines.
OversellsIn(d, r) ==
    /\ r \in DOMAIN d
    /\ d[r].kind = "post"
    /\ \E i \in 1..Len(d[r].moves) : MayOversell(d[r].moves[i])

OnlyOrdersOversell ==
    [][\A r \in Rows :
          available'[r] < 0 /\ available'[r] < available[r]
            => \E t \in Txns : pc[t] = "commit" /\ OversellsIn(doc[t], r)]_vars

\* Every transaction that has begun comes to an end, though others hold the
\* rows it needs.
EveryTransactionEnds == \A t \in Txns : pc[t] = "lock" ~> Ended(t)

\* Serializability: the transactions' commits are steps of AtomicLedger.
Atomic == INSTANCE AtomicLedger WITH
    stock <- level,
    outcome <- [t \in Txns |-> CASE pc[t] = "committed" -> "applied"
                                 [] pc[t] = "aborted" -> "rejected"
                                 [] OTHER -> "open"],
    applied <- [t \in Txns |-> IF pc[t] = "committed" THEN doc[t] ELSE << >>]

\* Row locks make each document all-or-nothing on the stock of one moment,
\* so it passes or fails by that stock alone (the promise of AtomicLedger).
ImplementsAtomicLedger == Atomic!Spec
=============================================================================
