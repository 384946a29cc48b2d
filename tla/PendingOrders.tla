----------------------------- MODULE PendingOrders -----------------------------
(***************************************************************************)
(* ChannelSyncService.syncPendingOrders: orders that wait in a queue file  *)
(* are made one by one, and the file is written back with the others.  The *)
(* hourly job and somebody's request may work on the file at once.         *)
(***************************************************************************)
EXTENDS Integers

CONSTANTS
    Entries, Runs,
    MaxMade     \* bound: how often an entry is made an order

VARIABLES
    file,       \* the queue file
    run,        \* the runs over it
    made,       \* orders made of each entry
    put         \* history: entries that were put into the file

vars == <<file, run, made, put>>

Idle == [pc |-> "idle"]

Init ==
    /\ file = {} /\ put = {}
    /\ run = [r \in Runs |-> Idle]
    /\ made = [e \in Entries |-> 0]

\* External: somebody writes an entry, while no run is under way.
Put(e) ==
    /\ \A r \in Runs : run[r] = Idle
    /\ e \notin put
    /\ file' = file \union {e} /\ put' = put \union {e}
    /\ UNCHANGED <<run, made>>

\* loadPendingOrders
Load(r) ==
    /\ run[r] = Idle /\ file # {}
    /\ run' = [run EXCEPT ![r] = [pc |-> "make", work |-> file, remaining |-> {}]]
    /\ UNCHANGED <<file, made, put>>

\* handleWebhook makes the order; nothing asks whether it has been made before.
MakeOrder(r, e) ==
    /\ run[r].pc = "make" /\ e \in run[r].work
    /\ made[e] < MaxMade
    /\ made' = [made EXCEPT ![e] = @ + 1]
    /\ run' = [run EXCEPT ![r].work = @ \ {e}]
    /\ UNCHANGED <<file, put>>

\* Or it fails, and the entry remains.
KeepEntry(r, e) ==
    /\ run[r].pc = "make" /\ e \in run[r].work
    /\ run' = [run EXCEPT ![r].work = @ \ {e}, ![r].remaining = @ \union {e}]
    /\ UNCHANGED <<file, made, put>>

\* savePendingOrders, when all have been tried.
Save(r) ==
    /\ run[r].pc = "make" /\ run[r].work = {}
    /\ file' = run[r].remaining
    /\ run' = [run EXCEPT ![r] = Idle]
    /\ UNCHANGED <<made, put>>

\* The process dies: what it made is still in the file.
Crash ==
    /\ run' = [r \in Runs |-> Idle]
    /\ UNCHANGED <<file, made, put>>

Next ==
    \/ \E e \in Entries : Put(e)
    \/ \E r \in Runs : \/ Load(r) \/ Save(r)
                       \/ \E e \in Entries : MakeOrder(r, e) \/ KeepEntry(r, e)
    \/ Crash

Spec == Init /\ [][Next]_vars

-----------------------------------------------------------------------------
\* The types of the file and the runs.
TypeOK ==
    /\ file \subseteq put /\ put \subseteq Entries
    /\ \A r \in Runs : run[r] # Idle => run[r].work \union run[r].remaining \subseteq put

\* An entry is in the file or has been made an order: a crash or a second run may make
\* it twice, never lose it.
NoEntryLost == \A e \in put : made[e] > 0 \/ e \in file
=============================================================================
