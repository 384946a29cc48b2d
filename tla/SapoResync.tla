----------------------------- MODULE SapoResync -----------------------------
(***************************************************************************)
(* SapoInventorySyncService beside the services of InventoryLedger.  One   *)
(* resync reads every inventory level, asks Sapo for its figures (minutes  *)
(* of paced HTTP calls), and then overwrites the levels that differ and    *)
(* inserts the compensating movements, statement by statement and without  *)
(* a transaction.  The columns incoming_owned, incoming_not_owned and      *)
(* reserved, which nothing else reads, are left out; so is the splitting   *)
(* of the statements in chunks of WRITE_CHUNK rows.                        *)
(***************************************************************************)
EXTENDS InventoryLedger

CONSTANT SapoAnswers    \* what Sapo may answer: row |-> level, for some rows

ASSUME SapoAnswersAssumption ==
    \A a \in SapoAnswers :
        DOMAIN a \subseteq Rows /\ \A r \in DOMAIN a : a[r] \in Level

VARIABLES
    syncPc,         \* where the resync is
    beforeExists,   \* the rows it read,
    beforeLevel,    \* their buckets
    beforeAvailable,
    after,          \* what Sapo answered
    touched         \* history: rows committed by others before it overwrote them

syncVars == <<syncPc, beforeExists, beforeLevel, beforeAvailable, after, touched>>
allVars == <<vars, syncVars>>

\* The rows whose figures differ from those read at the start.
Changed == {r \in DOMAIN after : \/ after[r] # beforeLevel[r]
                                 \/ ComputeAvailable(after[r]) # beforeAvailable[r]}
Inserts == Changed \ beforeExists
Updates == Changed \intersect beforeExists

SyncInit ==
    /\ Init
    /\ syncPc = "idle"
    /\ beforeExists = {}
    /\ beforeLevel = [r \in Rows |-> ZeroLevel]
    /\ beforeAvailable = [r \in Rows |-> 0]
    /\ after = << >>
    /\ touched = {}

\* inventoryLevel.findMany: the committed rows.
SyncRead ==
    /\ syncPc = "idle"
    /\ syncPc' = "fetching"
    /\ beforeExists' = exists
    /\ beforeLevel' = level
    /\ beforeAvailable' = available
    /\ UNCHANGED <<vars, after, touched>>

\* Sapo has answered every page; rows it does not return are left alone.
SyncFetch ==
    /\ syncPc = "fetching"
    /\ after' \in SapoAnswers
    /\ syncPc' = "insert"
    /\ UNCHANGED <<vars, beforeExists, beforeLevel, beforeAvailable, touched>>

Overwrite(S) ==
    /\ level' = [r \in Rows |-> IF r \in S THEN after[r] ELSE level[r]]
    /\ available' = [r \in Rows |->
                        IF r \in S THEN ComputeAvailable(after[r]) ELSE available[r]]

\* INSERT of the new rows: it waits for an uncommitted insertion of one of
\* them, and fails as a whole when one of them exists by now.
SyncInsert ==
    /\ syncPc = "insert"
    /\ Inserts \intersect exists = {} =>
           \A t \in Txns : held[t] \intersect Inserts = {}
    /\ IF Inserts \intersect exists = {}
       THEN /\ exists' = exists \union Inserts
            /\ Overwrite(Inserts)
            /\ syncPc' = "update"
       ELSE /\ syncPc' = "failed"
            /\ UNCHANGED <<exists, level, available>>
    /\ UNCHANGED <<ledger, pc, doc, todo, moves, held, private>>
    /\ UNCHANGED <<beforeExists, beforeLevel, beforeAvailable, after, touched>>

\* UPDATE ... FROM VALUES: waits for the rows' locks, then sets the figures.
SyncUpdate ==
    /\ syncPc = "update"
    /\ \A t \in Txns : held[t] \intersect Updates = {}
    /\ Overwrite(Updates)
    /\ syncPc' = "moves"
    /\ UNCHANGED <<exists, ledger, pc, doc, todo, moves, held, private>>
    /\ UNCHANGED <<beforeExists, beforeLevel, beforeAvailable, after, touched>>

\* Mutant: movements for the buckets of the available formula only.
SyncMovesWithoutIncoming ==
    /\ syncPc = "moves"
    /\ ledger' = [r \in Rows |->
            IF r \in Changed
            THEN [b \in Buckets |-> IF b = "incoming" THEN ledger[r][b]
                    ELSE ledger[r][b] + (after[r][b] - beforeLevel[r][b])]
            ELSE ledger[r]]
    /\ syncPc' = "done"
    /\ UNCHANGED <<exists, level, available, pc, doc, todo, moves, held, private>>
    /\ UNCHANGED <<beforeExists, beforeLevel, beforeAvailable, after, touched>>

\* The compensating movements: the difference from the figures read at first.
SyncMoves ==
    /\ syncPc = "moves"
    /\ ledger' = [r \in Rows |->
            IF r \in Changed
            THEN [b \in Buckets |-> ledger[r][b] + (after[r][b] - beforeLevel[r][b])]
            ELSE ledger[r]]
    /\ syncPc' = "done"
    /\ UNCHANGED <<exists, level, available, pc, doc, todo, moves, held, private>>
    /\ UNCHANGED <<beforeExists, beforeLevel, beforeAvailable, after, touched>>

\* Sapo answers with an error, a statement fails, or the process dies.
SyncFail ==
    /\ syncPc \in {"fetching", "insert", "update", "moves"}
    /\ syncPc' = "failed"
    /\ UNCHANGED <<vars, beforeExists, beforeLevel, beforeAvailable, after, touched>>

\* The history notes what the other services commit to rows the resync has read
\* and not yet overwritten.
Watched ==
    /\ touched' = IF syncPc \in {"fetching", "insert", "update"}
                  THEN touched \union UNION {held[t] : t \in {u \in Txns :
                                        pc[u] = "commit" /\ pc'[u] = "committed"}}
                  ELSE touched
    /\ UNCHANGED <<syncPc, beforeExists, beforeLevel, beforeAvailable, after>>

ServiceStep == (\E t \in Txns : Begin(t) \/ Step(t) \/ Timeout(t)) /\ Watched

SyncNext ==
    \/ SyncRead \/ SyncFetch \/ SyncInsert \/ SyncUpdate \/ SyncMoves \/ SyncFail
    \/ ServiceStep

SyncSpec == SyncInit /\ [][SyncNext]_allVars

\* The event loop runs every pending continuation and the database grants a lock
\* that is free; nothing obliges a transaction to begin or to time out, nor the
\* resync to go on.
LiveSyncSpec == SyncSpec /\ \A t \in Txns : WF_allVars(Step(t) /\ Watched)

-----------------------------------------------------------------------------
\* A row the services left alone while the resync was reading is in its
\* ledger again once the resync has ended, whatever they commit to it later,
\* and a resync that fails on a new row has written nothing.
ResyncBalancesUntouched ==
    syncPc \in {"idle", "fetching", "insert", "done"}
        => \A r \in Rows \ touched : level[r] = ledger[r]

\* "Every change produces a compensating movement", so that on_hand stays the
\* sum of the movements (comment of the service): INV-2 after every resync.
ResyncKeepsLedger == syncPc = "done" => LedgerMatchesLevel
=============================================================================
