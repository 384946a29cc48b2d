------------------------------ MODULE ShopProofs ------------------------------
(***************************************************************************)
(* Theorems about the shop for every value of the constants.  As in        *)
(* BackOfficeProofs what an area keeps is proved of its component.         *)
(***************************************************************************)
EXTENDS Shop, SharedLemmas

-----------------------------------------------------------------------------
(* Orders in the queue file (PendingOrders).                               *)

\* The queue fares in the shop as it does by itself.
LEMMA QueueAsAlone == Spec => Q!Spec
<1>1. Init => Q!Init
  BY DEF Init
<1>2. [Next]_vars => [Q!Next]_(Q!vars)
  BY DEF Next, vars, qVars, Q!vars
<1> QED
  BY <1>1, <1>2, PTL DEF Spec, Q!Spec

\* A run's entries are those it has still to try and those that failed.
QueueRun == [pc : {"make"}, work : SUBSET put, remaining : SUBSET put]

\* What a run will write back covers what it has not made: nothing is put into the file
\* beside a run, and an order that was made stays made.
QInv ==
    /\ file \subseteq put /\ put \subseteq Entries
    /\ ordered \in [Entries -> Nat]
    /\ queueRun \in [Reqs -> {Q!Idle} \union QueueRun]
    /\ Q!NoEntryLost
    /\ \A r \in Reqs : queueRun[r] # Q!Idle =>
          \A e \in put : ordered[e] > 0 \/ e \in queueRun[r].work \union queueRun[r].remaining

\* A run of the queue file at work has a run's fields.
LEMMA BusyRun ==
    ASSUME QInv, NEW r \in Reqs, queueRun[r].pc = "make"
    PROVE  queueRun[r] \in QueueRun /\ queueRun[r] # Q!Idle
BY DEF QInv, Q!Idle, QueueRun

\* At the start nothing is taken.
LEMMA QueueInit == Q!Init => QInv
BY DEF Q!Init, QInv, Q!NoEntryLost, Q!Idle

\* Every step of the queue file keeps its entries in the file or made.
LEMMA QueueStep == QInv /\ [Q!Next]_(Q!vars) => QInv'
<1> SUFFICES ASSUME QInv, [Q!Next]_(Q!vars) PROVE QInv'
  OBVIOUS
<1>1. CASE UNCHANGED Q!vars
  BY <1>1 DEF QInv, Q!vars, Q!NoEntryLost, QueueRun
<1>2. ASSUME NEW e \in Entries, Q!Put(e) PROVE QInv'
  <2>1. \A r \in Reqs : queueRun'[r] = Q!Idle
    BY <1>2 DEF Q!Put
  <2>2. Q!NoEntryLost'
    BY <1>2 DEF Q!Put, QInv, Q!NoEntryLost
  <2> QED
    BY <1>2, <2>1, <2>2 DEF Q!Put, QInv
<1>3. ASSUME NEW r \in Reqs, Q!Load(r) PROVE QInv'
  <2>1. queueRun' = [queueRun EXCEPT ![r] = [pc |-> "make", work |-> file, remaining |-> {}]]
    BY <1>3 DEF Q!Load
  <2>2. [pc |-> "make", work |-> file, remaining |-> {}] \in QueueRun
    BY DEF QInv, QueueRun
  <2>3. queueRun' \in [Reqs -> {Q!Idle} \union QueueRun]
    BY <2>1, <2>2 DEF QInv
  <2>4. UNCHANGED <<file, ordered, put>>
    BY <1>3 DEF Q!Load
  <2>5. ASSUME NEW p \in Reqs, queueRun'[p] # Q!Idle, NEW e \in put
        PROVE  ordered[e] > 0 \/ e \in queueRun'[p].work \union queueRun'[p].remaining
    <3>1. CASE p = r
      BY <3>1, <2>1 DEF QInv, Q!NoEntryLost
    <3>2. CASE p # r
      BY <3>2, <2>1, <2>5 DEF QInv
    <3> QED
      BY <3>1, <3>2
  <2> QED
    BY <2>3, <2>4, <2>5 DEF QInv, Q!NoEntryLost, QueueRun
<1>4. ASSUME NEW r \in Reqs, NEW e \in Entries, Q!MakeOrder(r, e) PROVE QInv'
  <2>1. queueRun[r] \in QueueRun /\ queueRun[r] # Q!Idle
    BY <1>4, BusyRun DEF Q!MakeOrder
  <2>2. /\ queueRun' = [queueRun EXCEPT ![r].work = @ \ {e}]
        /\ ordered' = [ordered EXCEPT ![e] = @ + 1]
        /\ UNCHANGED <<file, put>>
    BY <1>4 DEF Q!MakeOrder
  <2>3. /\ queueRun'[r] \in QueueRun /\ queueRun'[r].remaining = queueRun[r].remaining
        /\ queueRun'[r].work = queueRun[r].work \ {e}
    BY <2>1, <2>2 DEF QInv, QueueRun
  <2>4. queueRun' \in [Reqs -> {Q!Idle} \union QueueRun]
    BY <2>2, <2>3 DEF QInv
  <2>5. /\ ordered' \in [Entries -> Nat] /\ ordered'[e] > 0
        /\ \A x \in Entries : ordered[x] > 0 => ordered'[x] > 0
    BY <2>2 DEF QInv
  <2>6. ASSUME NEW p \in Reqs, queueRun'[p] # Q!Idle, NEW x \in put
        PROVE  ordered'[x] > 0 \/ x \in queueRun'[p].work \union queueRun'[p].remaining
    <3>1. CASE p = r
      BY <3>1, <2>1, <2>3, <2>5 DEF QInv
    <3>2. CASE p # r
      BY <3>2, <2>2, <2>5, <2>6 DEF QInv
    <3> QED
      BY <3>1, <3>2
  <2>7. Q!NoEntryLost'
    BY <2>2, <2>5 DEF QInv, Q!NoEntryLost
  <2> QED
    BY <2>2, <2>4, <2>5, <2>6, <2>7 DEF QInv, QueueRun
<1>5. ASSUME NEW r \in Reqs, NEW e \in Entries, Q!KeepEntry(r, e) PROVE QInv'
  <2>1. queueRun[r] \in QueueRun /\ queueRun[r] # Q!Idle /\ e \in queueRun[r].work
    BY <1>5, BusyRun DEF Q!KeepEntry
  <2>2. /\ queueRun' = [queueRun EXCEPT ![r].work = @ \ {e}, ![r].remaining = @ \union {e}]
        /\ UNCHANGED <<file, ordered, put>>
    BY <1>5 DEF Q!KeepEntry
  <2>3. /\ queueRun'[r] \in QueueRun
        /\ queueRun'[r].work \union queueRun'[r].remaining = queueRun[r].work \union queueRun[r].remaining
    BY <2>1, <2>2 DEF QInv, QueueRun
  <2>4. queueRun' \in [Reqs -> {Q!Idle} \union QueueRun]
    BY <2>2, <2>3 DEF QInv
  <2>5. ASSUME NEW p \in Reqs, queueRun'[p] # Q!Idle, NEW x \in put
        PROVE  ordered[x] > 0 \/ x \in queueRun'[p].work \union queueRun'[p].remaining
    <3>1. CASE p = r
      BY <3>1, <2>1, <2>3 DEF QInv
    <3>2. CASE p # r
      BY <3>2, <2>2, <2>5 DEF QInv
    <3> QED
      BY <3>1, <3>2
  <2> QED
    BY <2>2, <2>4, <2>5 DEF QInv, Q!NoEntryLost, QueueRun
<1>6. ASSUME NEW r \in Reqs, Q!Save(r) PROVE QInv'
  <2>1. queueRun[r] \in QueueRun /\ queueRun[r] # Q!Idle /\ queueRun[r].work = {}
    BY <1>6, BusyRun DEF Q!Save
  <2>2. /\ file' = queueRun[r].remaining
        /\ queueRun' = [queueRun EXCEPT ![r] = Q!Idle]
        /\ UNCHANGED <<ordered, put>>
    BY <1>6 DEF Q!Save
  <2>3. Q!NoEntryLost'
    BY <2>1, <2>2 DEF QInv, Q!NoEntryLost
  <2>4. file' \subseteq put
    BY <2>1, <2>2 DEF QueueRun
  <2> QED
    BY <2>2, <2>3, <2>4 DEF QInv, QueueRun
<1>7. CASE Q!Crash
  BY <1>7 DEF Q!Crash, QInv, Q!NoEntryLost, QueueRun
<1> QED
  BY <1>1, <1>2, <1>3, <1>4, <1>5, <1>6, <1>7 DEF Q!Next

\* The invariant holds the types.
LEMMA QInvTypes == QInv => Q!TypeOK
BY DEF QInv, Q!TypeOK, QueueRun, Q!Idle

\* An entry of the queue file is in the file or has been made an order, however many runs
\* of syncPendingOrders work on the file at once, whichever orders fail and wherever the
\* process dies (savePendingOrders is the last step of a run).
THEOREM QueueLosesNothing == Q!Spec => [](Q!TypeOK /\ Q!NoEntryLost)
<1>1. QInv => Q!TypeOK /\ Q!NoEntryLost
  BY QInvTypes DEF QInv
<1> QED
  BY QueueInit, QueueStep, <1>1, PTL DEF Q!Spec

-----------------------------------------------------------------------------
(* Notices (Notifications).                                                *)

\* The notices fare in the shop as they do by themselves.
LEMMA NoticesAsAlone == Spec => N!Spec
<1>1. Init => N!Init
  BY DEF Init
<1>2. [Next]_vars => [N!Next]_(N!vars)
  BY DEF Next, vars, nVars, N!vars
<1> QED
  BY <1>1, <1>2, PTL DEF Spec, N!Spec

\* A row that is in use was the topic's at that moment or later.
HadSince(row, moment) == row \in Rows /\ (row = setting \/ left[row] >= moment)

SettingTypes ==
    /\ clock \in Nat /\ lag \in Int
    /\ setting \in Rows
    /\ left \in [Rows -> Nat]
    /\ \A r \in Rows : left[r] <= clock

\* What the cache holds, and since when.
CacheKnown ==
    cache # N!NoCache => /\ cache.at \in Nat /\ cache.at <= clock
                       /\ HadSince(cache.row, cache.at)

\* A read of the table is over in the tick it began in.
ReadIsNew(q) ==
    /\ q.pc = "query" => q.now = clock
    /\ q.pc = "load" => q.now = clock /\ HadSince(q.row, clock)

ReadsKnown ==
    /\ DOMAIN sender = N!Senders
    /\ \A s \in N!Senders : ReadIsNew(sender[s])

NInv == SettingTypes /\ CacheKnown /\ ReadsKnown /\ N!SettingsObeyedInTime

USE DEF N!SettingsObeyedInTime

-----------------------------------------------------------------------------
\* A sender that is given a row the topic had TTL ago or later learns nothing older.
LEMMA GivenIsYoung ==
    ASSUME N!NotificationsAssumption, NInv, NEW s \in N!Senders, NEW next, NEW row \in Rows,
           NEW moment \in Nat, HadSince(row, moment), clock - moment <= TTL, moment <= clock,
           N!Given(s, next, row)
    PROVE  /\ lag' \in Int /\ lag' <= TTL
           /\ DOMAIN sender' = N!Senders
           /\ sender'[s].pc \in {"idle", "items", "users"}
           /\ \A r \in N!Senders \ {s} : sender'[r] = sender[r]
  <1>1. TTL \in Nat  BY DEF N!NotificationsAssumption
  <1>2. N!LastHad(row) \in Nat /\ clock - N!LastHad(row) <= TTL
    BY <1>1 DEF NInv, SettingTypes, HadSince, N!LastHad
  <1>3. lag' \in Int /\ lag' <= TTL
    BY <1>1, <1>2 DEF NInv, SettingTypes, N!Given
  <1>4. DOMAIN sender' = N!Senders /\ \A r \in N!Senders \ {s} : sender'[r] = sender[r]
    BY DEF NInv, ReadsKnown, N!Given
  <1>5. sender'[s].pc \in {"idle", "items", "users"}
    <2> DEFINE v == CASE ~row.on \/ s = "event" -> N!Idle
                      [] next = "items" -> [pc |-> "items"]
                      [] OTHER -> [pc |-> "users", items |-> sender[s].items, to |-> row.to]
    <2>1. sender'[s] = v  BY DEF NInv, ReadsKnown, N!Given
    <2>2. v.pc \in {"idle", "items", "users"}  BY DEF N!Idle
    <2>3. QED  BY <2>1, <2>2
  <1>6. QED  BY <1>3, <1>4, <1>5

\* A step that leaves the settings, the cache and the time, and begins no read,
\* leaves what is known of them.
LEMMA OthersUnread ==
    ASSUME NInv, NEW s \in N!Senders,
           UNCHANGED <<setting, left, clock>>,
           DOMAIN sender' = N!Senders,
           \A r \in N!Senders \ {s} : sender'[r] = sender[r],
           ReadIsNew(sender[s])'
    PROVE  ReadsKnown'
  BY DEF NInv, ReadsKnown, ReadIsNew, HadSince

\* A setting asked for is put into the cache with a stamp from before it was read.
LEMMA AskIsYoung ==
    ASSUME N!NotificationsAssumption, NInv, NEW s \in N!Senders, NEW next, NEW items,
           N!Ask(s, next, items), UNCHANGED <<setting, cache, clock, left>>
    PROVE  NInv'
  <1>1. TTL \in Nat  BY DEF N!NotificationsAssumption
  <1>2. CASE N!Fresh(cache, clock)
    <2>1. /\ cache # N!NoCache /\ clock - cache.at <= TTL /\ N!Given(s, next, cache.row)
      BY <1>2 DEF N!Ask, N!Fresh
    <2>2. /\ lag' \in Int /\ lag' <= TTL
          /\ DOMAIN sender' = N!Senders
          /\ sender'[s].pc \in {"idle", "items", "users"}
          /\ \A r \in N!Senders \ {s} : sender'[r] = sender[r]
      BY <2>1, GivenIsYoung DEF NInv, CacheKnown, HadSince
    <2>3. ReadIsNew(sender[s])'  BY <2>2 DEF ReadIsNew
    <2>4. ReadsKnown'  BY <2>2, <2>3, OthersUnread
    <2>5. SettingTypes' /\ CacheKnown'
      BY <2>2 DEF NInv, SettingTypes, CacheKnown, HadSince
    <2>6. QED  BY <2>2, <2>4, <2>5 DEF NInv
  <1>3. CASE ~N!Fresh(cache, clock)
    <2> DEFINE q == [pc |-> "query", next |-> next, now |-> clock, items |-> items]
    <2>1. sender' = [sender EXCEPT ![s] = q] /\ UNCHANGED lag  BY <1>3 DEF N!Ask
    <2>2. /\ DOMAIN sender' = N!Senders /\ sender'[s] = q
          /\ \A r \in N!Senders \ {s} : sender'[r] = sender[r]
      <3> HIDE DEF q
      <3> QED  BY <2>1 DEF NInv, ReadsKnown
    <2>3. ReadIsNew(sender[s])'  BY <2>2 DEF ReadIsNew
    <2>4. ReadsKnown'  BY <2>2, <2>3, OthersUnread
    <2>5. SettingTypes' /\ CacheKnown' /\ N!SettingsObeyedInTime'
      BY <2>1 DEF NInv, SettingTypes, CacheKnown, HadSince
    <2>6. QED  BY <2>4, <2>5 DEF NInv
  <1>4. QED  BY <1>2, <1>3

\* A sender that goes on to something other than a read.
LEMMA MovesOn ==
    ASSUME NInv, NEW s \in N!Senders, NEW q, q.pc \notin {"query", "load"},
           sender' = [sender EXCEPT ![s] = q],
           UNCHANGED <<setting, cache, clock, left, lag>>
    PROVE  NInv'
  <1>1. /\ DOMAIN sender' = N!Senders /\ sender'[s] = q
        /\ \A r \in N!Senders \ {s} : sender'[r] = sender[r]
    BY DEF NInv, ReadsKnown
  <1>2. ReadIsNew(sender[s])'  BY <1>1 DEF ReadIsNew
  <1>3. ReadsKnown'  BY <1>1, <1>2, OthersUnread
  <1>4. SettingTypes' /\ CacheKnown' /\ N!SettingsObeyedInTime'
    BY DEF NInv, SettingTypes, CacheKnown, HadSince
  <1>5. QED  BY <1>3, <1>4 DEF NInv

\* The invariant does not speak of notices.
LEMMA NothingRead ==
    ASSUME NInv, UNCHANGED <<setting, cache, sender, clock, left, lag>>
    PROVE  NInv'
  BY DEF NInv, SettingTypes, CacheKnown, ReadsKnown, ReadIsNew, HadSince

-----------------------------------------------------------------------------
\* At the start the cache is empty.
LEMMA NoticesInit == N!NotificationsAssumption /\ N!Init => NInv
  <1> SUFFICES ASSUME N!NotificationsAssumption, N!Init PROVE NInv
    OBVIOUS
  <1>1. SettingTypes  BY DEF N!Init, SettingTypes
  <1>2. CacheKnown  BY DEF N!Init, CacheKnown
  <1>3. ReadsKnown  BY DEF N!Init, ReadsKnown, ReadIsNew, N!Idle
  <1>4. lag <= TTL  BY DEF N!Init, N!NotificationsAssumption
  <1>5. QED  BY <1>1, <1>2, <1>3, <1>4 DEF NInv

\* Every step keeps each cached setting one that held after its stamp.
LEMMA NoticesStep == N!NotificationsAssumption /\ NInv /\ [N!Next]_(N!vars) => NInv'
  <1> SUFFICES ASSUME N!NotificationsAssumption, NInv, [N!Next]_(N!vars) PROVE NInv'
    OBVIOUS
  <1>1. CASE N!BeginScan
    BY <1>1, AskIsYoung DEF N!BeginScan, N!Senders
  <1>2. CASE N!Event
    BY <1>2, AskIsYoung DEF N!Event, N!Senders
  <1>3. CASE N!ReadItems
    <2> DEFINE q == IF wrong = {} THEN N!Idle ELSE [pc |-> "last", items |-> wrong]
    <2>1. q.pc \notin {"query", "load"}  BY DEF N!Idle
    <2>2. sender' = [sender EXCEPT !["scan"] = q] /\ UNCHANGED <<setting, cache, clock, left, lag>>
      BY <1>3 DEF N!ReadItems
    <2> HIDE DEF q
    <2>3. QED  BY <2>1, <2>2, MovesOn DEF N!Senders
  <1>4. CASE N!CompareWithLast
    <2>1. CASE N!SameNumberUnread(sender["scan"].items)
      <3>1. N!Idle.pc \notin {"query", "load"}  BY DEF N!Idle
      <3>2. /\ sender' = [sender EXCEPT !["scan"] = N!Idle]
            /\ UNCHANGED <<setting, cache, clock, left, lag>>
        BY <1>4, <2>1 DEF N!CompareWithLast
      <3>3. QED  BY <3>1, <3>2, MovesOn DEF N!Senders
    <2>2. CASE ~N!SameNumberUnread(sender["scan"].items)
      BY <1>4, <2>2, AskIsYoung DEF N!CompareWithLast, N!Senders
    <2>3. QED  BY <2>1, <2>2
  <1>5. CASE N!Create
    <2>1. N!Idle.pc \notin {"query", "load"}  BY DEF N!Idle
    <2>2. /\ sender' = [sender EXCEPT !["scan"] = N!Idle]
          /\ UNCHANGED <<setting, cache, clock, left, lag>>
      BY <1>5 DEF N!Create
    <2>3. QED  BY <2>1, <2>2, MovesOn DEF N!Senders
  <1>6. ASSUME NEW s \in N!Senders, N!Query(s) PROVE NInv'
    <2> DEFINE q == [pc |-> "load", next |-> sender[s].next, now |-> sender[s].now,
                     items |-> sender[s].items, row |-> setting]
    <2>1. sender' = [sender EXCEPT ![s] = q] /\ UNCHANGED <<setting, cache, clock, left, lag>>
      BY <1>6 DEF N!Query
    <2>2. sender[s].now = clock
      BY <1>6 DEF N!Query, NInv, ReadsKnown, ReadIsNew
    <2>3. q.pc = "load" /\ q.now = clock /\ q.row = setting
      BY <2>2
    <2> HIDE DEF q
    <2>4. /\ DOMAIN sender' = N!Senders /\ sender'[s] = q
          /\ \A r \in N!Senders \ {s} : sender'[r] = sender[r]
      BY <2>1 DEF NInv, ReadsKnown
    <2>5. ReadIsNew(sender[s])'
      BY <2>1, <2>3, <2>4 DEF ReadIsNew, HadSince, NInv, SettingTypes
    <2>6. ReadsKnown'  BY <2>1, <2>4, <2>5, OthersUnread
    <2>7. SettingTypes' /\ CacheKnown' /\ N!SettingsObeyedInTime'
      BY <2>1 DEF NInv, SettingTypes, CacheKnown, HadSince
    <2>8. QED  BY <2>6, <2>7 DEF NInv
  <1>7. ASSUME NEW s \in N!Senders, N!Load(s) PROVE NInv'
    <2>1. sender[s].now = clock /\ HadSince(sender[s].row, clock)
      BY <1>7 DEF N!Load, NInv, ReadsKnown, ReadIsNew
    <2>2. /\ cache' = [st |-> "there", row |-> sender[s].row, at |-> clock]
          /\ N!Given(s, sender[s].next, sender[s].row)
          /\ UNCHANGED <<setting, clock, left>>
      BY <1>7, <2>1 DEF N!Load
    <2>3. clock \in Nat /\ clock - clock <= TTL /\ clock <= clock
      BY DEF NInv, SettingTypes, N!NotificationsAssumption
    <2>4. /\ lag' \in Int /\ lag' <= TTL
          /\ DOMAIN sender' = N!Senders
          /\ sender'[s].pc \in {"idle", "items", "users"}
          /\ \A r \in N!Senders \ {s} : sender'[r] = sender[r]
      BY <2>1, <2>2, <2>3, GivenIsYoung DEF HadSince
    <2>5. ReadIsNew(sender[s])'  BY <2>4 DEF ReadIsNew
    <2>6. ReadsKnown'  BY <2>2, <2>4, <2>5, OthersUnread
    <2>7. SettingTypes' /\ CacheKnown'
      BY <2>1, <2>2, <2>4 DEF NInv, SettingTypes, CacheKnown, HadSince
    <2>8. QED  BY <2>4, <2>6, <2>7 DEF NInv
  <1>8. ASSUME NEW s \in N!Senders, N!Fail(s) PROVE NInv'
    <2>1. N!Idle.pc \notin {"query", "load"}  BY DEF N!Idle
    <2>2. QED  BY <1>8, <2>1, MovesOn DEF N!Fail
  <1>9. ASSUME NEW row \in Rows, N!UpdateSetting(row) PROVE NInv'
    <2>1. /\ setting' = row /\ left' = [left EXCEPT ![setting] = clock]
          /\ UNCHANGED <<cache, sender, clock, lag>>
      BY <1>9 DEF N!UpdateSetting
    <2>2. SettingTypes'  BY <2>1 DEF NInv, SettingTypes
    <2>3. ASSUME NEW r, NEW m \in Nat, HadSince(r, m), m <= clock PROVE HadSince(r, m)'
      BY <2>1, <2>3 DEF NInv, SettingTypes, HadSince
    <2>4. CacheKnown'
      <3>1. CASE cache = N!NoCache  BY <2>1, <3>1 DEF CacheKnown
      <3>2. CASE cache # N!NoCache
        <4>1. cache.at \in Nat /\ cache.at <= clock /\ HadSince(cache.row, cache.at)
          BY <3>2 DEF NInv, CacheKnown
        <4>2. HadSince(cache.row, cache.at)'  BY <2>1, <2>3, <4>1
        <4>3. QED  BY <2>1, <4>1, <4>2 DEF CacheKnown
      <3>3. QED  BY <3>1, <3>2
    <2>5. ReadsKnown'
      <3>1. ASSUME NEW s \in N!Senders PROVE ReadIsNew(sender[s])'
        <4>1. ReadIsNew(sender[s])  BY DEF NInv, ReadsKnown
        <4>2. clock \in Nat /\ clock <= clock  BY DEF NInv, SettingTypes
        <4>3. HadSince(sender[s].row, clock) => HadSince(sender[s].row, clock)'
          BY <2>3, <4>2, <2>1
        <4>4. QED  BY <2>1, <4>1, <4>3 DEF ReadIsNew
      <3>2. QED  BY <2>1, <3>1 DEF NInv, ReadsKnown
    <2>6. QED  BY <2>1, <2>2, <2>4, <2>5 DEF NInv
  <1>10. CASE N!Invalidate
    <2>1. SettingTypes' /\ ReadsKnown' /\ N!SettingsObeyedInTime'
      BY <1>10 DEF N!Invalidate, NInv, SettingTypes, ReadsKnown, ReadIsNew, HadSince
    <2>2. CacheKnown'  BY <1>10 DEF N!Invalidate, CacheKnown
    <2>3. QED  BY <2>1, <2>2 DEF NInv
  <1>11. ASSUME NEW u \in Users, NEW ids, N!MarkRead(u, ids) PROVE NInv'
    BY <1>11, NothingRead DEF N!MarkRead
  <1>12. ASSUME NEW i \in Items, N!Change(i) PROVE NInv'
    BY <1>12, NothingRead DEF N!Change
  <1>13. CASE N!Tick
    <2>1. /\ clock' = clock + 1 /\ UNCHANGED <<setting, cache, sender, left, lag>>
          /\ \A s \in N!Senders : sender[s].pc \notin {"query", "load"}
      BY <1>13 DEF N!Tick
    <2>2. SettingTypes'  BY <2>1 DEF NInv, SettingTypes
    <2>3. CacheKnown'  BY <2>1 DEF NInv, SettingTypes, CacheKnown, HadSince
    <2>4. ReadsKnown'  BY <2>1 DEF NInv, ReadsKnown, ReadIsNew
    <2>5. QED  BY <2>1, <2>2, <2>3, <2>4 DEF NInv
  <1>14. CASE UNCHANGED N!vars
    BY <1>14, NothingRead DEF N!vars
  <1>15. QED
    BY <1>1, <1>2, <1>3, <1>4, <1>5, <1>6, <1>7, <1>8, <1>9, <1>10, <1>11, <1>12, <1>13, <1>14
    DEF N!Next, N!MarkAllRead

\* A topic that was switched, or whose recipients were changed, is served as it was for
\* SETTINGS_TTL_MS at most, whoever reads the table while updateSetting writes it and
\* takes its rows over after the cache was dropped (getSetting, loadSettings).
THEOREM SettingsHeeded ==
    N!Spec => []N!SettingsObeyedInTime
  <1>1. N!Init => NInv  BY NoticesInit, ShopAssumption
  <1>2. NInv /\ [N!Next]_(N!vars) => NInv'  BY NoticesStep, ShopAssumption
  <1>3. NInv => N!SettingsObeyedInTime  BY DEF NInv
  <1>4. QED  BY <1>1, <1>2, <1>3, PTL DEF N!Spec
-----------------------------------------------------------------------------
(* The digests.                                                            *)

Counts == {N!Cardinality(items) : items \in SUBSET Items}
Digest == [count : Counts, unread : SUBSET Users, again : {FALSE}]

\* The comparison is behind a scan: what it found, it is about to tell.
Compared(q) == q.pc = "users" \/ (q.pc \in {"query", "load"} /\ q.next # "items")

\* What a scan has compared with the last digest is still news when it tells it: it alone
\* sends digests, and reading one only makes more news of what is found.
ScanKnows(q) ==
    /\ q.pc = "last" => q.items \subseteq Items
    /\ Compared(q) => q.items \subseteq Items /\ ~N!SameNumberUnread(q.items)

\* What holds of the row a read has found.
LEMMA RowReachesUsers ==
    ASSUME N!NotificationsAssumption, NEW row \in Rows
    PROVE  row.to \subseteq Users
  BY DEF N!NotificationsAssumption

SenderKnown ==
    /\ DOMAIN sender = N!Senders
    /\ sender["scan"].pc = "users" => sender["scan"].to \subseteq Users
    /\ sender["scan"].pc = "load" => sender["scan"].row \in Rows
    /\ ScanKnows(sender["scan"])

\* A scan that is given the settings tells what it has compared, or nothing.
LEMMA GivenKnows ==
    ASSUME N!NotificationsAssumption, SenderKnown, NEW next, NEW row \in Rows,
           N!Given("scan", next, row), notices' = notices,
           next # "items" =>
               /\ sender["scan"].items \subseteq Items
               /\ ~N!SameNumberUnread(sender["scan"].items)
    PROVE  SenderKnown'
  <1> DEFINE items == sender["scan"].items
             v == CASE ~row.on \/ "scan" = "event" -> N!Idle
                    [] next = "items" -> [pc |-> "items"]
                    [] OTHER -> [pc |-> "users", items |-> items, to |-> row.to]
  <1>1. DOMAIN sender' = N!Senders /\ sender'["scan"] = v
    BY DEF N!Given, SenderKnown, N!Senders
  <1>2. v.pc \in {"idle", "items", "users"}
    BY DEF N!Idle
  <1>3. v.pc = "users" => next # "items" /\ v.items = items /\ v.to = row.to
    BY DEF N!Idle
  <1> HIDE DEF v
  <1>4. v.pc = "users" => v.to \subseteq Users
    BY <1>3, RowReachesUsers
  <1>5. N!SameNumberUnread(items)' <=> N!SameNumberUnread(items')
    BY DEF N!SameNumberUnread
  <1>6. v.pc = "users" => v.items \subseteq Items /\ ~N!SameNumberUnread(v.items)
    BY <1>3
  <1>7. ScanKnows(sender["scan"])'
    BY <1>1, <1>2, <1>6 DEF ScanKnows, Compared, N!SameNumberUnread, N!Last
  <1> QED
    BY <1>1, <1>2, <1>4, <1>7 DEF SenderKnown

\* A scan that asks for the settings keeps what it has compared.
LEMMA AskKnows ==
    ASSUME N!NotificationsAssumption, SenderKnown, NEW next, NEW items, notices' = notices,
           cache # N!NoCache => cache.row \in Rows,
           N!Ask("scan", next, items),
           next # "items" => /\ items \subseteq Items /\ ~N!SameNumberUnread(items)
                             /\ sender["scan"].items = items
    PROVE  SenderKnown'
  <1>1. CASE N!Fresh(cache, clock)
    BY <1>1, GivenKnows DEF N!Ask, N!Fresh
  <1>2. CASE ~N!Fresh(cache, clock)
    <2> DEFINE q == [pc |-> "query", next |-> next, now |-> clock, items |-> items]
    <2>1. DOMAIN sender' = N!Senders /\ sender'["scan"] = q
      BY <1>2 DEF N!Ask, SenderKnown, N!Senders
    <2>2. q.pc = "query" /\ q.next = next /\ q.items = items
      OBVIOUS
    <2> HIDE DEF q
    <2>3. ScanKnows(sender["scan"])'
      BY <2>1, <2>2 DEF ScanKnows, Compared, N!SameNumberUnread, N!Last
    <2> QED
      BY <2>1, <2>2, <2>3 DEF SenderKnown
  <1> QED
    BY <1>1, <1>2

\* A scan that goes on to something else than telling or asking.
LEMMA GoesOn ==
    ASSUME SenderKnown, NEW q, q.pc \notin {"users", "query", "load"},
           q.pc = "last" => q.items \subseteq Items,
           sender' = [sender EXCEPT !["scan"] = q]
    PROVE  SenderKnown'
  <1>1. DOMAIN sender' = N!Senders /\ sender'["scan"] = q
    BY DEF SenderKnown, N!Senders
  <1> QED
    BY <1>1 DEF SenderKnown, ScanKnows, Compared

\* A scan that ends has the fields of one at rest.
LEMMA ScanStops ==
    ASSUME SenderKnown, sender' = [sender EXCEPT !["scan"] = N!Idle]
    PROVE  SenderKnown'
  BY GoesOn DEF N!Idle

\* Another sender leaves the scan as it is.
LEMMA OtherSender ==
    ASSUME SenderKnown, DOMAIN sender' = N!Senders, sender'["scan"] = sender["scan"],
           notices' = notices
    PROVE  SenderKnown'
  BY DEF SenderKnown, ScanKnows, Compared, N!SameNumberUnread, N!Last

\* An event's reading of the settings, and what it does then, is not the scan's.
LEMMA EventApart ==
    ASSUME SenderKnown, NEW next, NEW row, N!Given("event", next, row), notices' = notices
    PROVE  SenderKnown'
  BY OtherSender DEF SenderKnown, N!Given, N!Senders

-----------------------------------------------------------------------------
\* Reading takes names off the digests' unread and leaves their numbers.
LEMMA ReadingKeeps ==
    ASSUME SenderKnown, notices \in Seq(Digest), NEW u \in Users, NEW ids, N!MarkRead(u, ids)
    PROVE  notices' \in Seq(Digest) /\ SenderKnown'
  <1> DEFINE read(n) == [n EXCEPT !.unread = @ \ {u}]
  <1>1. notices' = [i \in 1..Len(notices) |-> IF i \in ids THEN read(notices[i]) ELSE notices[i]]
    BY DEF N!MarkRead
  <1>2. \A n \in Digest : /\ read(n) \in Digest /\ read(n).count = n.count
                          /\ read(n).unread = n.unread \ {u}
    BY DEF Digest
  <1> HIDE DEF read
  <1>3. \A i \in 1..Len(notices) : notices[i] \in Digest
    OBVIOUS
  <1>4. Len(notices) \in Nat
    OBVIOUS
  <1>5. notices' \in Seq(Digest) /\ Len(notices') = Len(notices)
    BY <1>1, <1>2, <1>3, <1>4
  <1>6. \A i \in 1..Len(notices) : /\ notices'[i].count = notices[i].count
                                   /\ notices'[i].unread \subseteq notices[i].unread
    BY <1>1, <1>2, <1>3
  <1>7. ASSUME NEW items, notices' # <<>>, N!Last(notices').unread # {},
               N!Last(notices').count = N!Cardinality(items)
        PROVE  N!SameNumberUnread(items)
    <2>1. Len(notices) \in 1..Len(notices)
      BY <1>4, <1>5, <1>7
    <2>2. notices # <<>>
      BY <2>1
    <2> DEFINE k == Len(notices)
    <2>3. N!Last(notices') = notices'[k] /\ N!Last(notices) = notices[k]
      BY <1>5 DEF N!Last
    <2>4. notices[k].unread # {} /\ notices[k].count = N!Cardinality(items)
      BY <1>6, <1>7, <2>1, <2>3
    <2> QED
      BY <2>2, <2>3, <2>4 DEF N!SameNumberUnread
  <1>8. sender' = sender
    BY DEF N!MarkRead
  <1>9. ASSUME NEW items, ~N!SameNumberUnread(items)
        PROVE  ~(/\ notices' # <<>> /\ N!Last(notices').unread # {}
                 /\ N!Last(notices').count = N!Cardinality(items))
    BY <1>7, <1>9
  <1>10. ScanKnows(sender["scan"])'
    <2> DEFINE q == sender["scan"]
    <2>1. ScanKnows(q) /\ sender'["scan"] = q
      BY <1>8 DEF SenderKnown
    <2>2. Compared(q) => ~(/\ notices' # <<>> /\ N!Last(notices').unread # {}
                           /\ N!Last(notices').count = N!Cardinality(q.items))
      BY <1>9, <2>1 DEF ScanKnows
    <2> QED
      BY <1>8, <2>1, <2>2 DEF ScanKnows, Compared, N!SameNumberUnread, N!Last
  <1> QED
    BY <1>5, <1>8, <1>10 DEF SenderKnown

\* The digest a scan sends is not one that was told already.
LEMMA CreateTellsNews ==
    ASSUME N!NotificationsAssumption, SenderKnown, notices \in Seq(Digest), N!Create
    PROVE  notices' \in Seq(Digest)
  <1> DEFINE sent == sender["scan"]
             before == IF notices = <<>> THEN [count |-> 0, unread |-> {}]
                                         ELSE N!Last(notices)
             count == N!Cardinality(sent.items)
             digest == [count |-> count, unread |-> sent.to,
                        again |-> before.unread # {} /\ before.count = count]
  <1>1. /\ sent.items \subseteq Items /\ ~N!SameNumberUnread(sent.items)
        /\ sent.to \subseteq Users
    BY DEF N!Create, SenderKnown, ScanKnows, Compared
  <1>2. ~(before.unread # {} /\ before.count = count)
    <2>1. CASE notices = <<>>
      <3>1. before = [count |-> 0, unread |-> {}]
        BY <2>1
      <3> QED
        BY <3>1
    <2>2. CASE notices # <<>>
      <3>1. before = N!Last(notices)
        BY <2>2
      <3> QED
        BY <1>1, <2>2, <3>1 DEF N!SameNumberUnread
    <2> QED
      BY <2>1, <2>2
  <1>3. notices' = notices \/ notices' = Append(notices, digest)
    BY DEF N!Create, N!Last
  <1>4. (before.unread # {} /\ before.count = count) = FALSE
    BY <1>2
  <1> HIDE DEF before
  <1>5. digest = [count |-> count, unread |-> sent.to, again |-> FALSE]
    BY <1>4
  <1>6. digest \in Digest
    BY <1>1, <1>5 DEF Digest, Counts
  <1> HIDE DEF digest
  <1> QED
    BY <1>3, <1>6

-----------------------------------------------------------------------------
DInv ==
    /\ wrong \subseteq Items
    /\ notices \in Seq(Digest)
    /\ SenderKnown

\* At the start there are no notices.
LEMMA DigestsInit == N!Init => DInv
  BY DEF N!Init, DInv, SenderKnown, ScanKnows, Compared, N!Idle, N!Senders

\* Every step keeps unread digests apart by their numbers.
LEMMA DigestsStep ==
    N!NotificationsAssumption /\ NInv /\ DInv /\ [N!Next]_(N!vars) => DInv'
  <1> SUFFICES ASSUME N!NotificationsAssumption, NInv, DInv, [N!Next]_(N!vars) PROVE DInv'
    OBVIOUS
  <1> USE DEF DInv
  <1>0. /\ cache # N!NoCache => cache.row \in Rows
        /\ setting \in Rows
    BY DEF NInv, CacheKnown, HadSince, SettingTypes
  <1>1. CASE N!BeginScan
    BY <1>0, <1>1, AskKnows DEF N!BeginScan
  <1>2. CASE N!Event
    <2>1. /\ N!Ask("event", "users", {}) /\ UNCHANGED <<wrong, notices>>
      BY <1>2 DEF N!Event
    <2>2. CASE N!Fresh(cache, clock)
      BY <2>1, <2>2, EventApart DEF N!Ask
    <2>3. CASE ~N!Fresh(cache, clock)
      BY <2>1, <2>3, OtherSender DEF N!Ask, SenderKnown, N!Senders
    <2> QED
      BY <2>2, <2>3
  <1>3. CASE N!ReadItems
    <2> DEFINE q == IF wrong = {} THEN N!Idle ELSE [pc |-> "last", items |-> wrong]
    <2>1. q.pc \notin {"users", "query", "load"} /\ (q.pc = "last" => q.items \subseteq Items)
      BY DEF N!Idle
    <2>2. sender' = [sender EXCEPT !["scan"] = q] /\ UNCHANGED <<wrong, notices>>
      BY <1>3 DEF N!ReadItems
    <2> HIDE DEF q
    <2>3. SenderKnown'
      BY <2>1, <2>2, GoesOn
    <2> QED
      BY <2>2, <2>3
  <1>4. CASE N!CompareWithLast
    <2> DEFINE items == sender["scan"].items
    <2>1. items \subseteq Items /\ UNCHANGED <<wrong, notices>>
      BY <1>4 DEF N!CompareWithLast, SenderKnown, ScanKnows
    <2>2. CASE N!SameNumberUnread(items)
      <3>1. N!Idle.pc = "idle" /\ sender' = [sender EXCEPT !["scan"] = N!Idle]
        BY <1>4, <2>2 DEF N!CompareWithLast, N!Idle
      <3>2. SenderKnown'
        BY <3>1, ScanStops
      <3> QED
        BY <2>1, <3>2
    <2>3. CASE ~N!SameNumberUnread(items)
      BY <1>0, <1>4, <2>1, <2>3, AskKnows DEF N!CompareWithLast
    <2> QED
      BY <2>2, <2>3
  <1>5. CASE N!Create
    <2>1. sender' = [sender EXCEPT !["scan"] = N!Idle] /\ wrong' = wrong
      BY <1>5 DEF N!Create
    <2>2. SenderKnown'
      BY <2>1, ScanStops
    <2>3. notices' \in Seq(Digest)
      BY <1>5, CreateTellsNews
    <2> QED
      BY <2>1, <2>2, <2>3
  <1>6. ASSUME NEW s \in N!Senders, N!Query(s) PROVE DInv'
    <2> DEFINE q == [pc |-> "load", next |-> sender[s].next, now |-> sender[s].now,
                     items |-> sender[s].items, row |-> setting]
    <2>1. /\ sender' = [sender EXCEPT ![s] = q] /\ UNCHANGED <<wrong, notices>>
          /\ sender[s].pc = "query"
      BY <1>6 DEF N!Query
    <2>2. /\ q.pc = "load" /\ q.next = sender[s].next /\ q.items = sender[s].items
          /\ q.row = setting
      OBVIOUS
    <2> HIDE DEF q
    <2>3. CASE s = "scan"
      <3>1. DOMAIN sender' = N!Senders /\ sender'["scan"] = q
        BY <2>1, <2>3 DEF SenderKnown, N!Senders
      <3>2. ScanKnows(sender["scan"])'
        BY <2>1, <2>2, <2>3, <3>1 DEF SenderKnown, ScanKnows, Compared, N!SameNumberUnread, N!Last
      <3> QED
        BY <1>0, <2>1, <2>2, <3>1, <3>2 DEF SenderKnown
    <2>4. CASE s # "scan"
      BY <2>1, <2>4, OtherSender DEF SenderKnown, N!Senders
    <2> QED
      BY <2>3, <2>4
  <1>7. ASSUME NEW s \in N!Senders, N!Load(s) PROVE DInv'
    <2>1. /\ N!Given(s, sender[s].next, sender[s].row) /\ UNCHANGED <<wrong, notices>>
          /\ sender[s].pc = "load"
      BY <1>7 DEF N!Load
    <2>2. CASE s = "scan"
      BY <2>1, <2>2, GivenKnows DEF SenderKnown, ScanKnows, Compared
    <2>3. CASE s = "event"
      BY <2>1, <2>3, EventApart
    <2> QED
      BY <2>2, <2>3 DEF N!Senders
  <1>8. ASSUME NEW s \in N!Senders, N!Fail(s) PROVE DInv'
    <2>1. /\ sender' = [sender EXCEPT ![s] = N!Idle] /\ UNCHANGED <<wrong, notices>>
      BY <1>8 DEF N!Fail
    <2>2. CASE s = "scan"
      <3>1. SenderKnown'
        BY <2>1, <2>2, ScanStops
      <3> QED
        BY <2>1, <3>1
    <2>3. CASE s = "event"
      BY <2>1, <2>3, OtherSender DEF SenderKnown, N!Senders
    <2> QED
      BY <2>2, <2>3 DEF N!Senders
  <1>9. ASSUME NEW u \in Users, NEW ids, N!MarkRead(u, ids) PROVE DInv'
    BY <1>9, ReadingKeeps DEF N!MarkRead
  <1>10. ASSUME NEW i \in Items, N!Change(i) PROVE DInv'
    BY <1>10, OtherSender DEF N!Change, SenderKnown
  <1>11. CASE \/ N!Invalidate \/ N!Tick \/ UNCHANGED N!vars
              \/ \E row \in Rows : N!UpdateSetting(row)
    <2>1. UNCHANGED <<wrong, notices, sender>>
      BY <1>11 DEF N!Invalidate, N!Tick, N!UpdateSetting, N!vars
    <2> QED
      BY <2>1, OtherSender DEF SenderKnown
  <1> QED
    BY <1>1, <1>2, <1>3, <1>4, <1>5, <1>6, <1>7, <1>8, <1>9, <1>10, <1>11
    DEF N!Next, N!MarkAllRead

\* In the whole shop: no digest tells a number the last one told while somebody has not
\* read that (isDuplicateOfUnread), though settings are read between the comparison and
\* the digest, and readers, switches and failures come between; and the settings that
\* are obeyed are those of SETTINGS_TTL_MS ago at the oldest.
THEOREM NoticesAreNews == Spec => []NoticesFollowSettings
  <1>1. N!Init => NInv  BY NoticesInit, ShopAssumption
  <1>2. NInv /\ [N!Next]_(N!vars) => NInv'  BY NoticesStep, ShopAssumption
  <1>3. NInv /\ DInv /\ [N!Next]_(N!vars) => DInv'  BY DigestsStep, ShopAssumption
  <1>4. NInv /\ DInv => NoticesFollowSettings
    <2>1. ASSUME notices \in Seq(Digest), NEW i \in DOMAIN notices PROVE ~notices[i].again
      <3>1. notices[i] \in Digest
        BY <2>1
      <3> QED
        BY <3>1 DEF Digest
    <2> QED
      BY <2>1 DEF NInv, DInv, NoticesFollowSettings, N!DigestsTellNews
  <1>5. N!Spec => []NoticesFollowSettings
    BY <1>1, <1>2, <1>3, <1>4, DigestsInit, PTL DEF N!Spec
  <1> QED
    BY <1>5, NoticesAsAlone, PTL
-----------------------------------------------------------------------------
(* Orders from Sapo (OrderIntake).                                         *)

\* The intake fares in the shop as it does by itself.
LEMMA IntakeAsAlone == Spec => I!Spec
<1>1. Init => I!Init
  BY DEF Init
<1>2. [Next]_vars => [I!Next]_(I!vars)
  BY DEF Next, vars, iVars, I!vars
<1> QED
  BY <1>1, <1>2, PTL DEF Spec, I!Spec

\* Newest is what it says.
LEMMA NewestIs ==
    ASSUME I!IntakeAssumption, NEW S, S \subseteq I!Orders
    PROVE  /\ I!Newest(S) \in Nat /\ I!Newest(S) \in S \union {0}
           /\ \A o \in S : o <= I!Newest(S)
<1> DEFINE more == S \union {0}
<1>1. MaxOrder \in Nat /\ more \subseteq 0..MaxOrder /\ more # {}
  BY DEF I!IntakeAssumption, I!Orders
<1>2. \E x \in more : \A y \in more : x >= y
  <2>1. PICK x \in more : \A y \in more : y <= x
    BY <1>1, GreatestUpTo
  <2>2. \A y \in more : y \in Int /\ x \in Int
    BY <1>1
  <2> QED
    BY <2>1, <2>2
<1>3. I!Newest(S) = CHOOSE x \in more : \A y \in more : x >= y
  BY DEF I!Newest, I!Max
<1> DEFINE m == I!Newest(S)
<1>4. m \in more /\ \A y \in more : m >= y
  BY <1>2, <1>3
<1> HIDE DEF m
<1>5. \A y \in more : y \in Nat
  BY <1>1
<1> QED
  BY <1>4, <1>5 DEF m

\* Of larger sets the newest is no older.
LEMMA NewestGrows ==
    ASSUME I!IntakeAssumption, NEW S, NEW more, S \subseteq more, more \subseteq I!Orders
    PROVE  I!Newest(S) <= I!Newest(more)
<1>1. S \subseteq I!Orders
  OBVIOUS
<1>2. /\ I!Newest(S) \in Nat /\ I!Newest(S) \in S \union {0} /\ I!Newest(more) \in Nat
      /\ \A o \in more : o <= I!Newest(more)
  BY <1>1, NewestIs
<1> QED
  BY <1>2

-----------------------------------------------------------------------------
(* Pages of a list.                                                        *)

\* So many of the orders of S come before o, when the newest come first.
Rank(S, o) == Cardinality({n \in S : n > o})

\* A rank in a finite set of orders is a natural.
LEMMA RankIsNat ==
    ASSUME NEW S, IsFiniteSet(S), NEW o
    PROVE  Rank(S, o) \in Nat /\ IsFiniteSet({n \in S : n > o})
<1>1. {n \in S : n > o} \subseteq S
  OBVIOUS
<1>2. IsFiniteSet({n \in S : n > o})
  BY <1>1, FS_Subset
<1> QED
  BY <1>2, FS_CardinalityType DEF Rank

\* Older orders have a greater rank.
LEMMA RankOrder ==
    ASSUME NEW S, IsFiniteSet(S), S \subseteq Nat, NEW a \in S, NEW b \in S, a < b
    PROVE  Rank(S, b) < Rank(S, a)
<1> DEFINE A == {n \in S : n > a}
           B == {n \in S : n > b}
<1>1. a \in Nat /\ b \in Nat /\ \A n \in S : n \in Nat
  <2>1. \A n \in S : n \in Nat
    OBVIOUS
  <2> QED
    BY <2>1
<1>2. B \subseteq A /\ b \in A /\ b \notin B
  <2>1. \A n \in S : n > b => n > a
    BY <1>1
  <2>2. b > a /\ ~(b > b)
    BY <1>1
  <2> QED
    BY <2>1, <2>2
<1>3. IsFiniteSet(A) /\ IsFiniteSet(B)
  BY RankIsNat
<1> HIDE DEF A, B
<1>4. Cardinality(B) \in Nat /\ Cardinality(A) \in Nat /\ Cardinality(B) <= Cardinality(A)
  BY <1>2, <1>3, FS_Subset, FS_CardinalityType
<1>5. Cardinality(B) # Cardinality(A)
  BY <1>2, <1>3, FS_Subset
<1> QED
  BY <1>4, <1>5 DEF Rank, A, B

\* Of the orders there are k with a rank below k, if any has a greater one.
LEMMA RanksAreDense ==
    ASSUME NEW bound \in Nat, NEW S, S \subseteq 0..bound, IsFiniteSet(S), NEW k \in Nat,
           NEW o \in S, Rank(S, o) >= k
    PROVE  Cardinality({n \in S : Rank(S, n) < k}) = k
<1> DEFINE U == {n \in S : Rank(S, n) < k}
           V == {n \in S : Rank(S, n) >= k}
<1>1. S \subseteq Nat /\ U \subseteq S /\ \A n \in S : Rank(S, n) \in Nat
  <2>1. \A n \in S : Rank(S, n) \in Nat
    BY RankIsNat
  <2>2. S \subseteq Nat
    OBVIOUS
  <2> QED
    BY <2>1, <2>2
<1>2. PICK m \in V : \A n \in V : n <= m
  <2>1. o \in V /\ V \subseteq 0..bound
    OBVIOUS
  <2> HIDE DEF V
  <2> QED
    BY <2>1, GreatestUpTo
<1>3. U = {n \in S : n > m}
  <2>1. ASSUME NEW n \in S, n > m PROVE n \in U
    BY <1>1, <1>2, <2>1
  <2>2. ASSUME NEW n \in U PROVE n > m
    <3>1. n # m /\ n \in Nat /\ m \in Nat
      BY <1>1, <1>2, <2>2
    <3>2. ~(n < m)
      <4>1. SUFFICES ASSUME n < m PROVE FALSE
        OBVIOUS
      <4>2. Rank(S, m) < Rank(S, n)
        BY <1>1, <1>2, <2>2, <4>1, RankOrder
      <4> QED
        BY <1>1, <1>2, <2>2, <4>2
    <3> QED
      BY <3>1, <3>2
  <2> HIDE DEF U
  <2> QED
    BY <1>1, <2>1, <2>2
<1>4. Cardinality(U) = Rank(S, m) /\ IsFiniteSet(U)
  BY <1>3, RankIsNat DEF Rank
<1>5. Cardinality(U) \in Nat /\ Cardinality(U) >= k
  BY <1>1, <1>2, <1>4
<1>6. Cardinality(U) <= k
  <2>1. CASE U = {}
    BY <2>1, FS_EmptySet
  <2>2. CASE U # {}
    <3>1. PICK x \in U : \A y \in U : x <= y
      <4>1. U \subseteq Nat
        BY <1>1
      <4> HIDE DEF U
      <4> QED
        BY <2>2, <4>1, LeastNatural
    <3>2. {n \in S : n > x} = U \ {x}
      <4>1. ASSUME NEW n \in S, n > x PROVE n \in U \ {x}
        <5>1. x > m /\ n \in Nat /\ x \in Nat /\ m \in Nat
          BY <1>1, <1>2, <1>3, <3>1, <4>1
        <5> QED
          BY <1>3, <4>1, <5>1
      <4>2. ASSUME NEW n \in U \ {x} PROVE n \in S /\ n > x
        BY <1>1, <3>1, <4>2
      <4> HIDE DEF U
      <4> QED
        BY <4>1, <4>2
    <3>3. Rank(S, x) = Cardinality(U) - 1
      <4> HIDE DEF U
      <4> QED
        BY <1>4, <3>1, <3>2, FS_RemoveElement DEF Rank
    <3>4. Rank(S, x) < k
      BY <3>1
    <3> QED
      BY <1>1, <1>5, <3>1, <3>3, <3>4
  <2> QED
    BY <2>1, <2>2
<1> QED
  BY <1>5, <1>6

\* A page that is not full is the last one.
LEMMA LastPage ==
    ASSUME NEW bound \in Nat, NEW S, S \subseteq 0..bound, IsFiniteSet(S),
           NEW a \in Nat, NEW size \in Nat, NEW o \in S, Rank(S, o) >= a + size
    PROVE  Cardinality({n \in S : Rank(S, n) >= a /\ Rank(S, n) < a + size}) = size
<1> DEFINE A == {n \in S : Rank(S, n) < a}
           B == {n \in S : Rank(S, n) < a + size}
<1>1. \A n \in S : Rank(S, n) \in Nat
  BY RankIsNat
<1>2. Cardinality(A) = a /\ Cardinality(B) = a + size
  <2>1. Rank(S, o) >= a /\ a + size \in Nat
    BY <1>1
  <2>2. Cardinality(A) = a
    BY <2>1, RanksAreDense
  <2>3. Cardinality(B) = a + size
    <3> DEFINE k == a + size
    <3>1. k \in Nat /\ Rank(S, o) >= k
      BY <2>1
    <3> HIDE DEF k
    <3>2. Cardinality({n \in S : Rank(S, n) < k}) = k
      BY <3>1, RanksAreDense
    <3> QED
      BY <3>2 DEF k
  <2> QED
    BY <2>2, <2>3
<1>3. A \subseteq B /\ B \subseteq S /\ {n \in S : Rank(S, n) >= a /\ Rank(S, n) < a + size} = B \ A
  <2>1. \A n \in S : /\ (Rank(S, n) < a => Rank(S, n) < a + size)
                     /\ (Rank(S, n) >= a <=> ~(Rank(S, n) < a))
    BY <1>1
  <2>2. A \subseteq B /\ B \subseteq S
    BY <2>1
  <2>3. \A n \in S : /\ (n \in A <=> Rank(S, n) < a)
                     /\ (n \in B <=> Rank(S, n) < a + size)
    OBVIOUS
  <2> HIDE DEF A, B
  <2> QED
    BY <2>1, <2>2, <2>3
<1> HIDE DEF A, B
<1>4. IsFiniteSet(A) /\ IsFiniteSet(B) /\ B \intersect A = A
  BY <1>3, FS_Subset
<1>5. Cardinality(B \ A) = Cardinality(B) - Cardinality(B \intersect A)
  BY <1>4, FS_Difference
<1> QED
  BY <1>2, <1>3, <1>4, <1>5


-----------------------------------------------------------------------------
(* What a run has not come to.                                             *)

\* Cardinalities are the same in the component.
LEMMA SameCardinality == \A S : I!Cardinality(S) = Cardinality(S)
BY DEF I!Cardinality, Cardinality

CopyEntry == [o : I!Orders, st : {"open", "fulfilled"}]
IntakeRun == [pc : {"list", "copy", "record"}, since : Int, page : Nat,
              work : SUBSET CopyEntry, gaps : SUBSET I!Orders]

\* From, with the ranks spelled out.
Beyond(since, a) == {o \in I!Listed : o >= since /\ Rank(I!Listed, o) >= a}

\* Ahead, of a run rather than of its name.
AheadOf(r) ==
    IF r.pc \notin {"list", "copy"} THEN {}
    ELSE {w.o : w \in r.work} \union (IF r.page = 0 THEN {} ELSE I!From(r.since, r.page))

\* Listed at Sapo, and up to some run to copy.
Missing == I!Listed \ (I!Copied \union passedBy)

\* A run starts within reach of everything missing, or has been told to leave it out.
Reaches(r) == r.since <= I!Since \/ \A o \in I!Orders : o < r.since => o \in passedBy

\* What is missing and no longer ahead is hardly older than what a run is about to copy:
\* it came before that in Sapo's list, or it has shown up since, late.
HardlyOlder(r) ==
    \A w \in r.work, o \in Missing :
        o >= r.since /\ o \notin AheadOf(r) => o >= w.o - Lag

RunKnown(r) ==
    /\ \A w \in r.work : w.o \in I!Listed
    /\ r.pc = "list" => r.work = {} /\ r.page # 0
    /\ r.pc = "copy" => Reaches(r) /\ HardlyOlder(r)
    /\ r.pc = "list" => Reaches(r)

KnownRuns == {r \in IntakeRun : RunKnown(r)}

IntakeTypes ==
    /\ remote \in [I!Orders -> {"hidden", "open", "fulfilled"}]
    /\ DOMAIN copy = I!Orders
    /\ I!Copied \subseteq I!Listed
    /\ pass \in [Passes -> {I!Idle} \union KnownRuns]

WithinReach ==
    \A o \in Missing : o >= I!Since \/ \E p \in Passes : o \in AheadOf(pass[p])

IntakeInv == IntakeTypes /\ WithinReach

\* What a run has ahead of it is the page at hand and the pages to come.
LEMMA AheadIs == \A p : I!Ahead(p) = AheadOf(pass[p])
BY DEF I!Ahead, AheadOf

\* A run at rest has nothing ahead of it.
LEMMA IdleHasNothing == AheadOf(I!Idle) = {} /\ I!Idle \notin IntakeRun
BY DEF AheadOf, I!Idle, IntakeRun

\* Numbers, sets of orders and ranks have their types.
LEMMA IntakeNumbers ==
    ASSUME I!IntakeAssumption
    PROVE  /\ MaxOrder \in Nat /\ Window \in Nat /\ Lag \in Nat /\ PageSize \in Nat
           /\ PageSize > 0 /\ Lag <= Window
           /\ I!Orders \subseteq 0..MaxOrder
           /\ I!Listed \subseteq I!Orders /\ IsFiniteSet(I!Listed)
           /\ I!Copied \subseteq I!Orders
<1>1. I!Orders \subseteq 0..MaxOrder /\ IsFiniteSet(I!Orders) /\ MaxOrder \in Nat
  <2>1. MaxOrder \in Nat
    BY DEF I!IntakeAssumption
  <2>2. IsFiniteSet(1..MaxOrder)
    BY <2>1, FS_Interval
  <2> QED
    BY <2>1, <2>2 DEF I!Orders
<1>2. I!Listed \subseteq I!Orders /\ I!Copied \subseteq I!Orders
  BY DEF I!Listed, I!Copied
<1>3. IsFiniteSet(I!Listed)
  BY <1>1, <1>2, FS_Subset
<1> QED
  BY <1>1, <1>2, <1>3 DEF I!IntakeAssumption

\* What is from a page on, by rank; and that a page that is not full is the last.
LEMMA PagesOfList ==
    ASSUME I!IntakeAssumption, NEW since \in Int, NEW page \in Nat, page # 0
    PROVE  /\ I!From(since, page) = Beyond(since, (page - 1) * PageSize)
           /\ I!From(since, page + 1) = Beyond(since, page * PageSize)
           /\ I!From(since, page) \subseteq I!Page(since, page) \union I!From(since, page + 1)
           /\ I!Page(since, page) \subseteq I!From(since, page)
           /\ Cardinality(I!Page(since, page)) < PageSize => I!From(since, page + 1) = {}
           /\ \A x \in I!Page(since, page), o \in I!Listed :
                  o >= since /\ o \notin I!From(since, page) => o >= x
<1> DEFINE L == I!Listed
           a == (page - 1) * PageSize
           b == page * PageSize
<1>1. /\ L \subseteq I!Orders /\ IsFiniteSet(L) /\ L \subseteq 0..MaxOrder /\ MaxOrder \in Nat
      /\ PageSize \in Nat /\ PageSize > 0 /\ \A o \in L : o \in Nat
  BY IntakeNumbers
<1>2. a \in Nat /\ b \in Nat /\ b = a + PageSize /\ (page + 1) - 1 = page
  <2>1. page - 1 \in Nat
    OBVIOUS
  <2>2. \A i, j \in Nat : i * j \in Nat
    OBVIOUS
  <2>3. page * PageSize = (page - 1) * PageSize + PageSize
    BY <1>1, <2>1
  <2> QED
    BY <1>1, <2>1, <2>2, <2>3
<1>3. \A o : I!Newer(o) = Rank(L, o)
  BY SameCardinality DEF I!Newer, Rank
<1>4. \A o \in L : Rank(L, o) \in Nat
  BY <1>1, RankIsNat
<1>5. /\ I!From(since, page) = {o \in L : o >= since /\ Rank(L, o) >= a}
      /\ I!From(since, page + 1) = {o \in L : o >= since /\ Rank(L, o) >= b}
      /\ I!Page(since, page) =
            {o \in L : o >= since /\ Rank(L, o) >= a /\ Rank(L, o) < b}
  BY <1>2, <1>3 DEF I!From, I!Page
<1> HIDE DEF a, b
<1>6. I!From(since, page) \subseteq I!Page(since, page) \union I!From(since, page + 1)
  BY <1>2, <1>4, <1>5
<1>7. I!Page(since, page) \subseteq I!From(since, page)
  BY <1>5
<1>8. ASSUME NEW o \in I!From(since, page + 1)
      PROVE  ~(Cardinality(I!Page(since, page)) < PageSize)
  <2>1. o \in L /\ o >= since /\ Rank(L, o) >= a + PageSize /\ o \in Nat
    BY <1>1, <1>2, <1>5, <1>8
  <2>2. Cardinality({n \in L : Rank(L, n) >= a /\ Rank(L, n) < a + PageSize}) = PageSize
    <3> HIDE DEF L
    <3> QED
      BY <1>1, <1>2, <2>1, LastPage
  <2>3. ASSUME NEW n \in L, Rank(L, n) < b PROVE n >= since
    <3>1. n \in Nat /\ Rank(L, n) \in Nat /\ Rank(L, o) \in Nat /\ Rank(L, n) < Rank(L, o)
      BY <1>1, <1>2, <1>4, <2>1, <2>3
    <3>2. ~(n < o)
      <4>1. SUFFICES ASSUME n < o PROVE FALSE
        OBVIOUS
      <4>2. L \subseteq Nat
        BY <1>1
      <4>3. Rank(L, o) < Rank(L, n)
        BY <1>1, <2>1, <4>1, <4>2, RankOrder
      <4> QED
        BY <3>1, <4>3
    <3> QED
      BY <2>1, <3>1, <3>2
  <2>4. I!Page(since, page) = {n \in L : Rank(L, n) >= a /\ Rank(L, n) < a + PageSize}
    BY <1>2, <1>5, <2>3
  <2> QED
    BY <1>1, <2>2, <2>4
<1>9. ASSUME NEW x \in I!Page(since, page), NEW o \in L, o >= since, o \notin I!From(since, page)
      PROVE  o >= x
  <2>1. x \in L /\ Rank(L, x) >= a /\ ~(Rank(L, o) >= a)
    BY <1>5, <1>9
  <2>2. Rank(L, x) \in Nat /\ Rank(L, o) \in Nat /\ Rank(L, o) < Rank(L, x) /\ x \in Nat /\ o \in Nat
    BY <1>1, <1>2, <1>4, <2>1
  <2>3. ~(o < x)
    <3>1. SUFFICES ASSUME o < x PROVE FALSE
      OBVIOUS
    <3>2. L \subseteq Nat
      BY <1>1
    <3>3. Rank(L, x) < Rank(L, o)
      BY <1>1, <2>1, <3>1, <3>2, RankOrder
    <3> QED
      BY <2>2, <3>3
  <2> QED
    BY <2>2, <2>3
<1> QED
  BY <1>5, <1>6, <1>7, <1>8, <1>9 DEF Beyond, a, b

-----------------------------------------------------------------------------
(* The steps of the intake.                                                *)

\* A run that stands still knows as much while Sapo's list, our copies and what was
\* passed by grow, and nothing shows up later than the lag allows.
LEMMA RunKeeps ==
    ASSUME I!IntakeAssumption, NEW r \in IntakeRun, RunKnown(r),
           I!Copied \subseteq I!Listed, I!Copied \subseteq I!Copied',
           I!Listed \subseteq I!Listed', I!Copied' \subseteq I!Orders,
           I!Listed' \subseteq I!Orders, passedBy \subseteq passedBy',
           \A o \in I!Listed' \ I!Listed : o >= I!Newest(I!Listed) - Lag
    PROVE  RunKnown(r)' /\ AheadOf(r) \subseteq AheadOf(r)'
<1>1. /\ I!Listed \subseteq I!Orders /\ Window \in Nat /\ Lag \in Nat
      /\ \A o \in I!Orders : o \in Nat
  BY IntakeNumbers DEF I!Orders
<1>2. I!Newest(I!Copied) <= I!Newest(I!Copied') /\ I!Newest(I!Copied) \in Nat
      /\ I!Newest(I!Copied') \in Nat
  <2>1. I!Copied \subseteq I!Orders
    BY IntakeNumbers
  <2> QED
    BY <2>1, NewestGrows, NewestIs
<1>3. I!Since \in Int /\ I!Since' \in Int /\ I!Since <= I!Since'
  <2>1. I!Since' = I!Newest(I!Copied') - Window /\ I!Since = I!Newest(I!Copied) - Window
    BY DEF I!Since, I!Newest, I!Max
  <2> QED
    BY <1>1, <1>2, <2>1
<1>4. r.since \in Int /\ r.page \in Nat /\ r.work \subseteq CopyEntry
  BY DEF IntakeRun
<1>5. Reaches(r) => Reaches(r)'
  BY <1>3, <1>4 DEF Reaches, I!Orders
<1>6. AheadOf(r) \subseteq AheadOf(r)'
  <2>1. ASSUME NEW o, o \in I!From(r.since, r.page) PROVE o \in I!From(r.since, r.page)'
    <3>1. {n \in I!Listed : n > o} \subseteq {n \in I!Listed' : n > o}
      OBVIOUS
    <3>2. IsFiniteSet({n \in I!Listed' : n > o})
      <4>1. {n \in I!Listed' : n > o} \subseteq I!Listed'
        OBVIOUS
      <4>2. IsFiniteSet(I!Orders)
        BY FS_Interval DEF I!Orders, I!IntakeAssumption
      <4> QED
        BY <4>1, <4>2, FS_Subset
    <3>3. /\ Cardinality({n \in I!Listed : n > o}) <= Cardinality({n \in I!Listed' : n > o})
          /\ Cardinality({n \in I!Listed : n > o}) \in Nat
          /\ Cardinality({n \in I!Listed' : n > o}) \in Nat
      BY <3>1, <3>2, FS_Subset, FS_CardinalityType
    <3>4. I!Newer(o) \in Nat /\ I!Newer(o)' \in Nat /\ I!Newer(o) <= I!Newer(o)'
      BY <3>3, SameCardinality DEF I!Newer
    <3>5. (r.page - 1) * PageSize \in Int
      BY <1>4, IntakeNumbers
    <3> QED
      BY <2>1, <3>4, <3>5 DEF I!From
  <2> QED
    BY <2>1 DEF AheadOf
<1>7. HardlyOlder(r) => HardlyOlder(r)'
  <2>1. SUFFICES ASSUME HardlyOlder(r), NEW w \in r.work, NEW o \in Missing',
                        o >= r.since, o \notin AheadOf(r)'
                 PROVE  o >= w.o - Lag
    BY DEF HardlyOlder
  <2>2. w.o \in I!Listed /\ w.o \in Nat
    BY <1>1 DEF RunKnown
  <2>3. CASE o \in I!Listed
    <3>1. o \in Missing /\ o \notin AheadOf(r)
      BY <1>6, <2>1, <2>3 DEF Missing
    <3> QED
      BY <2>1, <3>1 DEF HardlyOlder
  <2>4. CASE o \notin I!Listed
    <3>1. o \in I!Listed' /\ o \in Nat
      BY <1>1, <2>1 DEF Missing
    <3>2. o >= I!Newest(I!Listed) - Lag
      BY <2>4, <3>1
    <3>3. I!Newest(I!Listed) \in Nat /\ w.o <= I!Newest(I!Listed)
      BY <1>1, <2>2, NewestIs
    <3> QED
      BY <1>1, <2>2, <3>1, <3>2, <3>3
  <2> QED
    BY <2>3, <2>4
<1> QED
  BY <1>5, <1>6, <1>7 DEF RunKnown

\* A step of one run, that copies nothing.
LEMMA RunMoves ==
    ASSUME I!IntakeAssumption, IntakeInv, NEW p \in Passes, NEW r,
           pass' = [pass EXCEPT ![p] = r],
           r \in {I!Idle} \union KnownRuns',
           UNCHANGED <<remote, copy>>, passedBy \subseteq passedBy',
           \A o \in AheadOf(pass[p]) : o \in AheadOf(r) \union passedBy' \union I!Copied
    PROVE  IntakeInv'
<1>1. I!Listed' = I!Listed /\ I!Copied' = I!Copied /\ I!Since' = I!Since
  BY DEF I!Listed, I!Copied, I!Since, I!Newest, I!Max
<1>2. \A q : AheadOf(q)' = AheadOf(q)
  BY <1>1 DEF AheadOf, I!From, I!Newer
<1>3. /\ I!Copied \subseteq I!Listed /\ I!Listed \subseteq I!Orders
      /\ I!Copied \subseteq I!Orders
  BY IntakeNumbers DEF IntakeInv, IntakeTypes
<1>4. pass'[p] = r /\ \A q \in Passes \ {p} : pass'[q] = pass[q]
  BY DEF IntakeInv, IntakeTypes
<1>5. KnownRuns \subseteq KnownRuns'
  <2>1. ASSUME NEW s \in IntakeRun, RunKnown(s) PROVE RunKnown(s)'
    BY <1>1, <1>3, <2>1, RunKeeps
  <2>2. IntakeRun' = IntakeRun
    BY DEF IntakeRun, CopyEntry, I!Orders
  <2> QED
    BY <2>1, <2>2 DEF KnownRuns
<1>7. IntakeTypes'
  <2>1. pass' \in [Passes -> {I!Idle} \union KnownRuns']
    BY <1>5 DEF IntakeInv, IntakeTypes
  <2> QED
    BY <1>1, <2>1 DEF IntakeInv, IntakeTypes, I!Orders, I!Idle
<1>6. WithinReach'
  <2>1. SUFFICES ASSUME NEW o \in Missing', ~(o >= I!Since)
                 PROVE  \E q \in Passes : o \in AheadOf(pass'[q])
    BY <1>1, <1>2 DEF WithinReach
  <2>2. o \in Missing /\ o \notin passedBy' /\ o \notin I!Copied
    BY <1>1, <2>1 DEF Missing
  <2>3. PICK q \in Passes : o \in AheadOf(pass[q])
    BY <2>1, <2>2 DEF IntakeInv, WithinReach
  <2> QED
    BY <1>4, <2>2, <2>3
<1> QED
  BY <1>6, <1>7 DEF IntakeInv

\* A run in the middle of its work.
LEMMA BusyPass ==
    ASSUME IntakeInv, NEW p \in Passes, pass[p].pc # "idle"
    PROVE  pass[p] \in IntakeRun /\ RunKnown(pass[p])
BY DEF IntakeInv, IntakeTypes, KnownRuns, I!Idle

\* A run begins, from where nothing missing is left behind.
LEMMA BeginKeeps ==
    ASSUME I!IntakeAssumption, IntakeInv, NEW p \in Passes, NEW since \in Int,
           I!Begin(p, since), passedBy \subseteq passedBy',
           since <= I!Since \/ \A o \in I!Orders : o < since => o \in passedBy'
    PROVE  IntakeInv'
<1> DEFINE r == [pc |-> "list", since |-> since, page |-> 1, work |-> {}, gaps |-> {}]
<1>1. r \in IntakeRun
  BY DEF IntakeRun
<1>2. UNCHANGED <<remote, copy>> /\ pass' = [pass EXCEPT ![p] = r] /\ pass[p] = I!Idle
  BY DEF I!Begin
<1>3. I!Since' = I!Since
  BY <1>2 DEF I!Since, I!Copied, I!Newest, I!Max
<1>4. r.work = {} /\ r.pc = "list" /\ r.page = 1 /\ r.since = since
  OBVIOUS
<1> HIDE DEF r
<1>5. RunKnown(r)'
  BY <1>3, <1>4 DEF RunKnown, Reaches, I!Orders
<1>6. r \in KnownRuns'
  <2>1. IntakeRun' = IntakeRun
    BY DEF IntakeRun, CopyEntry, I!Orders
  <2> QED
    BY <1>1, <1>5, <2>1 DEF KnownRuns
<1> QED
  BY <1>2, <1>6, IdleHasNothing, RunMoves

\* The next page is read, and what is not to be copied of it is there or passed by.
LEMMA ReadPageKeeps ==
    ASSUME I!IntakeAssumption, IntakeInv, NEW p \in Passes, I!ReadPage(p)
    PROVE  IntakeInv'
<1> DEFINE r == pass[p]
           orders == I!Page(r.since, r.page)
           fresh == orders \ I!Copied
<1>1. /\ UNCHANGED <<remote, copy>> /\ r.pc = "list" /\ IntakeRun' = IntakeRun
      /\ I!Listed' = I!Listed /\ I!Copied' = I!Copied /\ I!Since' = I!Since
  BY DEF I!ReadPage, IntakeRun, CopyEntry, I!Orders, I!Listed, I!Copied, I!Since, I!Newest,
         I!Max
<1>2. r \in IntakeRun /\ RunKnown(r)
  BY <1>1, BusyPass
<1>3. /\ r = [pc |-> "list", since |-> r.since, page |-> r.page, work |-> {}, gaps |-> r.gaps]
      /\ r.since \in Int /\ r.page \in Nat /\ r.page # 0 /\ r.gaps \subseteq I!Orders
      /\ Reaches(r)
  BY <1>1, <1>2 DEF RunKnown, IntakeRun
<1>4. AheadOf(r) = I!From(r.since, r.page)
  <2>1. r.pc = "list" /\ r.work = {} /\ r.page # 0
    BY <1>1, <1>3
  <2>2. {w.o : w \in r.work} = {}
    BY <2>1
  <2> HIDE DEF r
  <2> QED
    BY <2>1, <2>2 DEF AheadOf
<1>5. /\ I!From(r.since, r.page) \subseteq orders \union I!From(r.since, r.page + 1)
      /\ orders \subseteq I!From(r.since, r.page) /\ orders \subseteq I!Listed
      /\ Cardinality(orders) < PageSize => I!From(r.since, r.page + 1) = {}
      /\ \A x \in orders, o \in I!Listed :
             o >= r.since /\ o \notin I!From(r.since, r.page) => o >= x
  <2>1. orders \subseteq I!Listed
    BY DEF I!Page, I!From
  <2> QED
    BY <1>3, <2>1, PagesOfList
<1>6. I!Listed \subseteq I!Orders /\ PageSize > 0 /\ PageSize \in Nat /\ Lag \in Nat
      /\ \A o \in I!Listed : o \in Nat
  BY IntakeNumbers DEF I!Orders
<1>7. CASE orders = {}
  <2> DEFINE s == [pc |-> "record", since |-> r.since, page |-> r.page, work |-> {},
                   gaps |-> r.gaps]
  <2>1. pass' = [pass EXCEPT ![p] = [r EXCEPT !.pc = "record"]] /\ UNCHANGED passedBy
    BY <1>7 DEF I!ReadPage
  <2>2. [r EXCEPT !.pc = "record"] = s
    BY <1>3
  <2>3. s.pc = "record" /\ s.work = {} /\ s \in IntakeRun
    BY <1>3 DEF IntakeRun
  <2>4. pass' = [pass EXCEPT ![p] = s]
    BY <2>1, <2>2
  <2> HIDE DEF s
  <2>5. s \in KnownRuns'
    BY <1>1, <2>3 DEF KnownRuns, RunKnown
  <2>6. AheadOf(r) = {}
    <3>1. Cardinality(orders) = 0
      BY <1>7, FS_EmptySet
    <3> QED
      BY <1>4, <1>5, <1>6, <1>7, <3>1
  <2>7. \A o \in AheadOf(pass[p]) : o \in AheadOf(s) \union passedBy' \union I!Copied
    BY <2>6
  <2> HIDE DEF r, orders, fresh
  <2> QED
    BY <1>1, <2>1, <2>4, <2>5, <2>7, RunMoves
<1>8. CASE orders # {}
  <2> DEFINE work == {[o |-> o, st |-> remote[o]] : o \in fresh \intersect known}
             page == IF Cardinality(orders) < PageSize \/ r.page = MaxPages
                     THEN 0 ELSE r.page + 1
             gone == r.gaps \union (fresh \ known)
  <2>1. /\ pass' = [pass EXCEPT ![p] = [r EXCEPT !.pc = "copy", !.work = work,
                                                 !.gaps = gone, !.page = page]]
        /\ passedBy' = passedBy \union (fresh \ known) \union
              (IF r.page = MaxPages THEN I!From(r.since, MaxPages + 1) ELSE {})
    BY <1>8, SameCardinality DEF I!ReadPage
  <2>2. work \subseteq CopyEntry /\ {w.o : w \in work} = fresh \intersect known
    <3>1. \A o \in fresh \intersect known : o \in I!Orders /\ remote[o] \in {"open", "fulfilled"}
      BY <1>5, <1>6 DEF IntakeInv, IntakeTypes, I!Listed
    <3> DEFINE mine == fresh \intersect known
    <3> HIDE DEF fresh, mine
    <3>2. \A o \in mine : o \in I!Orders /\ remote[o] \in {"open", "fulfilled"}
      BY <3>1 DEF mine
    <3>3. work = {[o |-> o, st |-> remote[o]] : o \in mine}
      BY DEF mine
    <3> HIDE DEF work
    <3>4. work \subseteq CopyEntry
      BY <3>2, <3>3 DEF CopyEntry
    <3>5. {w.o : w \in work} = mine
      <4>1. \A w \in work : w.o \in mine
        BY <3>3
      <4>2. ASSUME NEW o \in mine PROVE \E w \in work : w.o = o
        <5>1. [o |-> o, st |-> remote[o]] \in work
          BY <3>3
        <5> QED
          BY <5>1
      <4> QED
        BY <4>1, <4>2
    <3> QED
      BY <3>4, <3>5 DEF mine
  <2>3. page \in Nat /\ gone \subseteq I!Orders
    BY <1>3, <1>5, <1>6
  <2>4. (page = 0 /\ r.page # MaxPages => I!From(r.since, r.page + 1) = {})
        /\ (page # 0 => page = r.page + 1)
    BY <1>3, <1>5
  <2> HIDE DEF work, page, gone
  <2>5. PICK s : s = [pc |-> "copy", since |-> r.since, page |-> page, work |-> work,
                      gaps |-> gone]
    OBVIOUS
  <2>6. /\ s.pc = "copy" /\ s.work = work /\ s.page = page /\ s.since = r.since
        /\ s \in IntakeRun
    BY <1>3, <2>2, <2>3, <2>5 DEF IntakeRun
  <2>7. pass' = [pass EXCEPT ![p] = s]
    <3> HIDE DEF r
    <3>1. PICK since : since = r.since
      OBVIOUS
    <3>2. PICK a : a = [r EXCEPT !.pc = "copy"]
      OBVIOUS
    <3>3. a = [pc |-> "copy", since |-> since, page |-> r.page, work |-> {}, gaps |-> r.gaps]
      BY <1>3, <3>1, <3>2
    <3>4. PICK b : b = [a EXCEPT !.work = work]
      OBVIOUS
    <3>5. b = [pc |-> "copy", since |-> since, page |-> r.page, work |-> work, gaps |-> r.gaps]
      BY <3>3, <3>4
    <3>6. PICK c : c = [b EXCEPT !.gaps = gone]
      OBVIOUS
    <3>7. c = [pc |-> "copy", since |-> since, page |-> r.page, work |-> work, gaps |-> gone]
      BY <3>5, <3>6
    <3>8. [c EXCEPT !.page = page] = s
      BY <2>5, <3>1, <3>7
    <3> QED
      BY <2>1, <3>2, <3>4, <3>6, <3>8
  <2>8. AheadOf(s) = (fresh \intersect known)
                       \union (IF page = 0 THEN {} ELSE I!From(r.since, page))
    BY <2>2, <2>6 DEF AheadOf
  <2>9. \A o \in AheadOf(r) : o \in AheadOf(s) \union passedBy' \union I!Copied
    <3>1. SUFFICES ASSUME NEW o \in I!From(r.since, r.page) \ I!Copied
                   PROVE  o \in AheadOf(s) \union passedBy'
      BY <1>4
    <3>2. CASE o \in orders
      BY <2>1, <2>8, <3>1, <3>2
    <3>3. CASE o \in I!From(r.since, r.page + 1)
      BY <2>1, <2>4, <2>8, <3>3
    <3> QED
      BY <1>5, <3>1, <3>2, <3>3
  <2>10. AheadOf(s)' = AheadOf(s)
    BY <1>1 DEF AheadOf, I!From, I!Newer
  <2>11. Reaches(s)'
    BY <1>1, <1>3, <2>1, <2>6 DEF Reaches, I!Orders
  <2>12. HardlyOlder(s)'
    <3>1. SUFFICES ASSUME NEW w \in s.work, NEW o \in Missing',
                          o >= s.since, o \notin AheadOf(s)
                   PROVE  o >= w.o - Lag
      BY <2>10 DEF HardlyOlder
    <3>2. o \in I!Listed /\ o \notin I!Copied /\ o \notin passedBy' /\ o \notin passedBy
      BY <1>1, <2>1, <3>1 DEF Missing
    <3>3. o \notin AheadOf(r)
      BY <2>9, <3>1, <3>2
    <3>4. w.o \in orders /\ w.o \in I!Listed /\ o >= r.since
      BY <1>5, <2>2, <2>6, <3>1
    <3>5. o >= w.o
      BY <1>4, <1>5, <3>2, <3>3, <3>4
    <3> QED
      BY <1>6, <3>2, <3>4, <3>5
  <2>13. \A w \in s.work : w.o \in I!Listed
    BY <1>5, <2>2, <2>6
  <2>14. s \in KnownRuns'
    BY <1>1, <2>6, <2>11, <2>12, <2>13 DEF KnownRuns, RunKnown
  <2>15. passedBy \subseteq passedBy'
    BY <2>1
  <2> HIDE DEF r, orders, fresh
  <2> QED
    BY <1>1, <2>7, <2>9, <2>14, <2>15, RunMoves DEF r
<1> QED
  BY <1>7, <1>8

\* A transaction of a page fails, and its order is passed by.
LEMMA SkipKeeps ==
    ASSUME I!IntakeAssumption, IntakeInv, NEW p \in Passes, NEW w \in I!Turn(p),
           I!SkipOrder(p, w)
    PROVE  IntakeInv'
<1> DEFINE r == pass[p]
<1>1. /\ r.pc = "copy" /\ w \in r.work /\ UNCHANGED <<remote, copy>>
      /\ pass' = [pass EXCEPT ![p] = [r EXCEPT !.work = @ \ {w}]]
      /\ passedBy' = passedBy \union {w.o}
  BY DEF I!Turn, I!SkipOrder
<1>2. r \in IntakeRun /\ RunKnown(r)
  BY <1>1, BusyPass
<1>3. PICK s : s = [r EXCEPT !.work = r.work \ {w}]
  OBVIOUS
<1>4. /\ s.pc = "copy" /\ s.work = r.work \ {w} /\ s.page = r.page /\ s.since = r.since
      /\ s \in IntakeRun /\ IntakeRun' = IntakeRun
  BY <1>1, <1>2, <1>3 DEF IntakeRun, CopyEntry, I!Orders
<1>5. /\ I!Listed' = I!Listed /\ I!Copied' = I!Copied /\ I!Since' = I!Since
      /\ AheadOf(s)' = AheadOf(s)
  BY <1>1 DEF I!Listed, I!Copied, I!Since, I!Newest, I!Max, AheadOf, I!From, I!Newer
<1>6. pass' = [pass EXCEPT ![p] = s] /\ passedBy \subseteq passedBy'
  BY <1>1, <1>3
<1>7. AheadOf(r) \subseteq AheadOf(s) \union {w.o}
  BY <1>1, <1>4 DEF AheadOf
<1>8. Reaches(s)'
  BY <1>1, <1>2, <1>4, <1>5, <1>6 DEF RunKnown, Reaches, I!Orders
<1>9. HardlyOlder(s)'
  <2>1. SUFFICES ASSUME NEW v \in s.work, NEW o \in Missing', o >= s.since, o \notin AheadOf(s)
                 PROVE  o >= v.o - Lag
    BY <1>5 DEF HardlyOlder
  <2>2. v \in r.work /\ o >= r.since /\ o \in Missing /\ o \notin AheadOf(r)
    BY <1>1, <1>4, <1>5, <1>7, <2>1 DEF Missing
  <2> QED
    BY <1>1, <1>2, <2>2 DEF RunKnown, HardlyOlder
<1>10. s \in KnownRuns'
  BY <1>1, <1>2, <1>4, <1>5, <1>8, <1>9 DEF KnownRuns, RunKnown
<1>11. \A o \in AheadOf(pass[p]) : o \in AheadOf(s) \union passedBy' \union I!Copied
  BY <1>1, <1>7
<1> HIDE DEF r
<1> QED
  BY <1>1, <1>6, <1>10, <1>11, RunMoves

\* The page is through, and the next is asked for unless it was the last.
LEMMA NextPageKeeps ==
    ASSUME I!IntakeAssumption, IntakeInv, NEW p \in Passes, I!NextPage(p)
    PROVE  IntakeInv'
<1> DEFINE r == pass[p]
           pc == IF r.page = 0 THEN "record" ELSE "list"
<1>1. /\ r.pc = "copy" /\ r.work = {} /\ UNCHANGED <<remote, copy, passedBy>>
      /\ pass' = [pass EXCEPT ![p] = [r EXCEPT !.pc = pc]]
  BY DEF I!NextPage
<1>2. r \in IntakeRun /\ RunKnown(r)
  BY <1>1, BusyPass
<1>3. pc \in {"record", "list"} /\ (pc = "list" <=> r.page # 0)
  OBVIOUS
<1> HIDE DEF pc
<1>4. PICK s : s = [r EXCEPT !.pc = pc]
  OBVIOUS
<1>5. /\ s.pc = pc /\ s.work = {} /\ s.page = r.page /\ s.since = r.since
      /\ s \in IntakeRun /\ IntakeRun' = IntakeRun
  BY <1>1, <1>2, <1>3, <1>4 DEF IntakeRun, CopyEntry, I!Orders
<1>6. I!Listed' = I!Listed /\ I!Copied' = I!Copied /\ I!Since' = I!Since
  BY <1>1 DEF I!Listed, I!Copied, I!Since, I!Newest, I!Max
<1>7. pass' = [pass EXCEPT ![p] = s] /\ passedBy \subseteq passedBy'
  BY <1>1, <1>4
<1>8. AheadOf(r) \subseteq AheadOf(s)
  BY <1>1, <1>3, <1>5 DEF AheadOf
<1>9. Reaches(s)'
  BY <1>1, <1>2, <1>5, <1>6 DEF RunKnown, Reaches, I!Orders
<1>10. s \in KnownRuns'
  BY <1>3, <1>5, <1>9 DEF KnownRuns, RunKnown
<1>11. \A o \in AheadOf(pass[p]) : o \in AheadOf(s) \union passedBy' \union I!Copied
  BY <1>8
<1> HIDE DEF r
<1> QED
  BY <1>1, <1>7, <1>10, <1>11, RunMoves

\* A run ends, with nothing ahead or with that passed by.
LEMMA EndKeeps ==
    ASSUME I!IntakeAssumption, IntakeInv, NEW p \in Passes,
           I!RecordSkuGaps(p) \/ I!BreakOff(p)
    PROVE  IntakeInv'
<1>1. /\ pass' = [pass EXCEPT ![p] = I!Idle] /\ UNCHANGED <<remote, copy>>
      /\ passedBy \subseteq passedBy'
      /\ pass[p].pc = "record" \/ passedBy' = passedBy \union I!Ahead(p)
  BY DEF I!RecordSkuGaps, I!BreakOff
<1>2. \A o \in AheadOf(pass[p]) : o \in passedBy'
  <2>1. pass[p].pc = "record" => AheadOf(pass[p]) = {}
    BY DEF AheadOf
  <2> QED
    BY <1>1, <2>1, AheadIs
<1>3. \A o \in AheadOf(pass[p]) : o \in AheadOf(I!Idle) \union passedBy' \union I!Copied
  BY <1>2
<1> QED
  BY <1>1, <1>3, RunMoves

\* Where no run moves: what is listed or copied may have grown.
LEMMA ListGrows ==
    ASSUME I!IntakeAssumption, IntakeInv, UNCHANGED <<copy, pass, passedBy>>,
           remote' \in [I!Orders -> {"hidden", "open", "fulfilled"}],
           I!Listed \subseteq I!Listed',
           \A o \in I!Listed' \ I!Listed : o >= I!Newest(I!Listed) - Lag
    PROVE  IntakeInv'
<1>1. /\ I!Copied' = I!Copied /\ I!Since' = I!Since /\ IntakeRun' = IntakeRun
      /\ I!Listed' \subseteq I!Orders /\ I!Listed \subseteq I!Orders
      /\ I!Copied \subseteq I!Orders /\ I!Copied \subseteq I!Listed
  BY IntakeNumbers
  DEF I!Copied, I!Since, I!Newest, I!Max, IntakeRun, CopyEntry, I!Orders, I!Listed,
      IntakeInv, IntakeTypes
<1>2. ASSUME NEW s \in KnownRuns PROVE s \in KnownRuns' /\ AheadOf(s) \subseteq AheadOf(s)'
  <2>1. s \in IntakeRun /\ RunKnown(s)
    BY DEF KnownRuns
  <2>2. RunKnown(s)' /\ AheadOf(s) \subseteq AheadOf(s)'
    BY <1>1, <2>1, RunKeeps
  <2> QED
    BY <1>1, <2>1, <2>2 DEF KnownRuns
<1>3. IntakeTypes'
  <2>1. pass' \in [Passes -> {I!Idle} \union KnownRuns']
    BY <1>2 DEF IntakeInv, IntakeTypes
  <2> QED
    BY <1>1, <2>1 DEF IntakeInv, IntakeTypes, I!Orders, I!Idle
<1>4. ASSUME NEW q \in Passes, NEW o, o \in AheadOf(pass[q]) PROVE o \in AheadOf(pass[q])'
  <2>1. pass[q] \in KnownRuns
    BY <1>4, IdleHasNothing DEF IntakeInv, IntakeTypes
  <2>2. PICK s \in KnownRuns : s = pass[q]
    BY <2>1
  <2>3. o \in AheadOf(s)'
    BY <1>2, <1>4, <2>2
  <2>4. pass[q]' = s
    BY <2>2
  <2> QED
    BY <2>3, <2>4 DEF AheadOf
<1>5. WithinReach'
  <2>1. SUFFICES ASSUME NEW o \in Missing', ~(o >= I!Since)
                 PROVE  \E q \in Passes : o \in AheadOf(pass[q])'
    BY <1>1 DEF WithinReach
  <2>2. CASE o \in I!Listed
    <3>1. o \in Missing
      BY <1>1, <2>1, <2>2 DEF Missing
    <3> QED
      BY <1>4, <2>1, <3>1 DEF IntakeInv, WithinReach
  <2>3. CASE o \notin I!Listed
    <3>1. o \in I!Listed' /\ o \in Nat /\ o >= I!Newest(I!Listed) - Lag
      BY <1>1, <2>1, <2>3 DEF Missing, I!Orders
    <3>2. /\ I!Newest(I!Copied) <= I!Newest(I!Listed) /\ I!Newest(I!Copied) \in Nat
          /\ I!Newest(I!Listed) \in Nat
      BY <1>1, NewestGrows, NewestIs
    <3> QED
      BY <2>1, <3>1, <3>2, IntakeNumbers DEF I!Since
  <2> QED
    BY <2>2, <2>3
<1> QED
  BY <1>3, <1>5 DEF IntakeInv

\* An order is copied, and the next run starts later: what is missing is then within reach
\* of it, or still ahead of a run, or else hardly older than the order copied.
LEMMA CopyKeeps ==
    ASSUME I!IntakeAssumption, IntakeInv, NEW p \in Passes, NEW w \in I!Turn(p),
           I!CopyOrder(p, w)
    PROVE  IntakeInv'
<1> DEFINE r == pass[p]
<1>1. /\ r.pc = "copy" /\ w \in r.work /\ UNCHANGED <<remote, passedBy>>
      /\ pass' = [pass EXCEPT ![p] = [r EXCEPT !.work = @ \ {w}]]
      /\ copy' = [copy EXCEPT ![w.o] = [st |-> w.st, reserved |-> w.st = "open"]]
  BY DEF I!Turn, I!CopyOrder
<1>2. r \in IntakeRun /\ RunKnown(r)
  BY <1>1, BusyPass
<1>3. /\ w.o \in I!Listed /\ w.o \in I!Orders /\ w.st \in {"open", "fulfilled"}
  BY <1>1, <1>2 DEF RunKnown, IntakeRun, CopyEntry
<1>4. /\ I!Copied' = I!Copied \union {w.o} /\ DOMAIN copy' = I!Orders
  BY <1>1, <1>3 DEF IntakeInv, IntakeTypes, I!Copied, I!Orders
<1>5. I!Listed' = I!Listed /\ IntakeRun' = IntakeRun /\ \A q : AheadOf(q)' = AheadOf(q)
  BY <1>1 DEF I!Listed, IntakeRun, CopyEntry, I!Orders, AheadOf, I!From, I!Newer
<1>6. /\ I!Copied \subseteq I!Listed /\ I!Listed \subseteq I!Orders
      /\ I!Copied \subseteq I!Orders /\ I!Copied' \subseteq I!Listed'
  BY <1>3, <1>4, <1>5, IntakeNumbers DEF IntakeInv, IntakeTypes
<1>7. PICK s : s = [r EXCEPT !.work = r.work \ {w}]
  OBVIOUS
<1>8. /\ s.pc = "copy" /\ s.work = r.work \ {w} /\ s.page = r.page /\ s.since = r.since
      /\ s \in IntakeRun /\ pass' = [pass EXCEPT ![p] = s]
  BY <1>1, <1>2, <1>7 DEF IntakeRun
<1>9. AheadOf(r) \subseteq AheadOf(s) \union {w.o}
  BY <1>1, <1>8 DEF AheadOf
<1>10. ASSUME NEW q \in KnownRuns PROVE q \in KnownRuns'
  <2>1. q \in IntakeRun /\ RunKnown(q)
    BY DEF KnownRuns
  <2>2. RunKnown(q)'
    BY <1>1, <1>4, <1>5, <1>6, <2>1, RunKeeps
  <2> QED
    BY <1>5, <2>1, <2>2 DEF KnownRuns
<1>11. PICK t \in KnownRuns' : t = r
  BY <1>2, <1>10 DEF KnownRuns
<1>12. RunKnown(t)'
  BY DEF KnownRuns
<1>13. Reaches(s)'
  BY <1>1, <1>8, <1>11, <1>12 DEF RunKnown, Reaches
<1>14. HardlyOlder(s)'
  <2>1. SUFFICES ASSUME NEW v \in s.work, NEW o \in Missing', o >= s.since, o \notin AheadOf(s)
                 PROVE  o >= v.o - Lag
    BY <1>5 DEF HardlyOlder
  <2>2. /\ v \in r.work /\ o >= r.since /\ o \in Missing /\ o # w.o
    BY <1>1, <1>4, <1>5, <1>8, <2>1 DEF Missing
  <2>3. o \notin AheadOf(r)
    BY <1>9, <2>1, <2>2
  <2> QED
    BY <1>1, <1>2, <2>2, <2>3 DEF RunKnown, HardlyOlder
<1>15. s \in KnownRuns'
  BY <1>2, <1>5, <1>8, <1>13, <1>14 DEF KnownRuns, RunKnown
<1>16. IntakeTypes'
  <2>1. pass' \in [Passes -> {I!Idle} \union KnownRuns']
    BY <1>8, <1>10, <1>15 DEF IntakeInv, IntakeTypes
  <2> QED
    BY <1>1, <1>4, <1>6, <2>1 DEF IntakeInv, IntakeTypes, I!Orders, I!Idle
<1>17. pass'[p] = s /\ \A q \in Passes \ {p} : pass'[q] = pass[q]
  BY <1>8 DEF IntakeInv, IntakeTypes
<1>18. ASSUME NEW o \in Missing', ~(o >= I!Since')
       PROVE  \E q \in Passes : o \in AheadOf(pass'[q])
  <2>1. o \in Missing /\ o # w.o /\ o \in I!Orders /\ o \in Nat
    BY <1>1, <1>4, <1>5, <1>6, <1>18 DEF Missing, I!Orders
  <2>2. CASE \E q \in Passes : o \in AheadOf(pass[q])
    <3>1. PICK q \in Passes : o \in AheadOf(pass[q])
      BY <2>2
    <3> QED
      BY <1>9, <1>17, <2>1, <3>1
  <2>3. CASE ~ \E q \in Passes : o \in AheadOf(pass[q])
    <3>1. o >= I!Since
      BY <2>1, <2>3 DEF IntakeInv, WithinReach
    <3>2. o \notin AheadOf(r)
      BY <2>3
    <3>3. I!Since' = I!Newest(I!Copied \union {w.o}) - Window
      BY <1>4 DEF I!Since, I!Newest, I!Max
    <3>4. /\ I!Newest(I!Copied \union {w.o}) \in Nat
          /\ I!Newest(I!Copied \union {w.o}) \in I!Copied \union {w.o} \union {0}
          /\ I!Newest(I!Copied) \in Nat
          /\ \A c \in I!Copied : c <= I!Newest(I!Copied)
      BY <1>3, <1>6, NewestIs
    <3>5. Window \in Nat /\ Lag \in Nat /\ Lag <= Window /\ w.o \in Nat
      BY <1>3, IntakeNumbers DEF I!Orders
    <3>6. CASE I!Newest(I!Copied \union {w.o}) = w.o
      <4>1. r.since \in Int /\ Reaches(r) /\ HardlyOlder(r)
        BY <1>1, <1>2 DEF RunKnown, IntakeRun
      <4>2. o >= r.since
        <5>1. CASE r.since <= I!Since
          <6>1. I!Since \in Int
            BY <3>4, <3>5 DEF I!Since
          <6> QED
            BY <2>1, <3>1, <4>1, <5>1, <6>1
        <5>2. CASE \A n \in I!Orders : n < r.since => n \in passedBy
          BY <2>1, <4>1, <5>2 DEF Missing
        <5> QED
          BY <4>1, <5>1, <5>2 DEF Reaches
      <4>3. o >= w.o - Lag
        BY <1>1, <2>1, <3>2, <4>1, <4>2 DEF HardlyOlder
      <4> QED
        BY <1>18, <2>1, <3>3, <3>5, <3>6, <4>3
    <3>7. CASE I!Newest(I!Copied \union {w.o}) # w.o
      <4>1. I!Newest(I!Copied \union {w.o}) <= I!Newest(I!Copied)
        BY <3>4, <3>7
      <4> QED
        BY <1>18, <2>1, <3>1, <3>3, <3>4, <3>5, <4>1 DEF I!Since
    <3> QED
      BY <3>6, <3>7
  <2> QED
    BY <2>2, <2>3
<1>19. WithinReach'
  BY <1>5, <1>18 DEF WithinReach
<1> QED
  BY <1>16, <1>19 DEF IntakeInv

-----------------------------------------------------------------------------
\* At the start nothing is listed.
LEMMA IntakeInit == I!IntakeAssumption /\ I!Init => IntakeInv
<1> SUFFICES ASSUME I!IntakeAssumption, I!Init PROVE IntakeInv
  OBVIOUS
<1>1. I!Listed = {} /\ I!Copied = {}
  BY DEF I!Init, I!Listed, I!Copied, I!NoCopy
<1>2. IntakeTypes
  BY <1>1 DEF I!Init, IntakeTypes
<1>3. WithinReach
  BY <1>1 DEF WithinReach, Missing
<1> QED
  BY <1>2, <1>3 DEF IntakeInv

\* Every step keeps each listed order copied, reachable, ahead or accounted for.
LEMMA IntakeStep == I!IntakeAssumption /\ IntakeInv /\ [I!Next]_(I!vars) => IntakeInv'
<1> SUFFICES ASSUME I!IntakeAssumption, IntakeInv, [I!Next]_(I!vars) PROVE IntakeInv'
  OBVIOUS
<1>1. ASSUME NEW o \in I!Orders, I!Appear(o) PROVE IntakeInv'
  <2>1. /\ remote' \in [I!Orders -> {"hidden", "open", "fulfilled"}]
        /\ I!Listed \subseteq I!Listed' /\ I!Listed' \subseteq I!Listed \union {o}
    BY <1>1 DEF I!Appear, IntakeInv, IntakeTypes, I!Listed
  <2> QED
    BY <1>1, <2>1, ListGrows DEF I!Appear
<1>2. ASSUME NEW o \in I!Orders, I!Fulfil(o) PROVE IntakeInv'
  <2>1. /\ remote' \in [I!Orders -> {"hidden", "open", "fulfilled"}]
        /\ I!Listed' = I!Listed
    BY <1>2 DEF I!Fulfil, IntakeInv, IntakeTypes, I!Listed
  <2> QED
    BY <1>2, <2>1, ListGrows DEF I!Fulfil
<1>3. CASE (\E o \in I!Orders : I!Learn(o)) \/ UNCHANGED I!vars
  <2>1. UNCHANGED <<remote, copy, pass, passedBy>>
    BY <1>3 DEF I!Learn, I!vars
  <2>2. remote' \in [I!Orders -> {"hidden", "open", "fulfilled"}] /\ I!Listed' = I!Listed
    BY <2>1 DEF IntakeInv, IntakeTypes, I!Listed
  <2> QED
    BY <2>1, <2>2, ListGrows
<1>4. ASSUME NEW p \in Passes, I!BeginResolved(p) PROVE IntakeInv'
  <2>1. I!Since \in Int
    <3>1. I!Newest(I!Copied) \in Nat /\ Window \in Nat
      BY NewestIs, IntakeNumbers
    <3> QED
      BY <3>1 DEF I!Since
  <2>2. I!Since <= I!Since
    BY <2>1
  <2> QED
    BY <1>4, <2>1, <2>2, BeginKeeps DEF I!BeginResolved
<1>5. ASSUME NEW p \in Passes, NEW since \in Explicit, I!BeginExplicit(p, since)
      PROVE  IntakeInv'
  <2>1. since \in Int /\ MaxOrder \in Nat
    BY DEF I!IntakeAssumption
  <2> QED
    BY <1>5, <2>1, BeginKeeps DEF I!BeginExplicit
<1>6. ASSUME NEW p \in Passes, I!ReadPage(p) PROVE IntakeInv'
  BY <1>6, ReadPageKeeps
<1>7. ASSUME NEW p \in Passes, NEW w \in I!Turn(p), I!CopyOrder(p, w) PROVE IntakeInv'
  BY <1>7, CopyKeeps
<1>8. ASSUME NEW p \in Passes, NEW w \in I!Turn(p), I!SkipOrder(p, w) PROVE IntakeInv'
  BY <1>8, SkipKeeps
<1>9. ASSUME NEW p \in Passes, I!NextPage(p) PROVE IntakeInv'
  BY <1>9, NextPageKeeps
<1>10. ASSUME NEW p \in Passes, I!RecordSkuGaps(p) \/ I!BreakOff(p) PROVE IntakeInv'
  BY <1>10, EndKeeps
<1> QED
  BY <1>1, <1>2, <1>3, <1>4, <1>5, <1>6, <1>7, <1>8, <1>9, <1>10 DEF I!Next

\* In the whole shop: no order listed at Sapo falls behind the runs, though each copy moves
\* the point the next one starts from, pages shift while they are read, orders show up late
\* and any number of runs overlap (resolveSince, OVERLAP_MINUTES); and no entry of the
\* queue file is lost.
THEOREM NoOrderFallsBehind == Spec => []IntakeLosesNothing
<1>1. I!Init => IntakeInv
  BY IntakeInit, ShopAssumption
<1>2. IntakeInv /\ [I!Next]_(I!vars) => IntakeInv'
  BY IntakeStep, ShopAssumption
<1>3. IntakeInv => I!NothingFallsBehind
  BY AheadIs DEF IntakeInv, WithinReach, Missing, I!NothingFallsBehind
<1>4. I!Spec => []I!NothingFallsBehind
  BY <1>1, <1>2, <1>3, PTL DEF I!Spec
<1> QED
  BY <1>4, IntakeAsAlone, QueueAsAlone, QueueLosesNothing, PTL DEF IntakeLosesNothing

-----------------------------------------------------------------------------
(* Prices and totals of orders (OrderPricing).                             *)

\* The orders fare in the shop as they do by themselves.
LEMMA OrdersAsAlone == Spec => P!Spec
<1>1. Init => P!Init
  BY DEF Init
<1>2. [Next]_vars => [P!Next]_(P!vars)
  BY DEF Next, vars, pVars, P!vars
<1> QED
  BY <1>1, <1>2, PTL DEF Spec, P!Spec

PricedLine == [price : Nat, quantity : Nat \ {0}, discount : Nat]

\* Lines whose numbers have been given out, 0 standing for one that has none yet.
GoodLines(lines) ==
    DOMAIN lines \subseteq 0..lastLine /\ \A i \in DOMAIN lines : lines[i] \in PricedLine

OrderFields == {"st", "lines", "discounts", "sub", "tax", "total", "received", "financial"}

GoodOrder(o) ==
    /\ DOMAIN o = OrderFields
    /\ GoodLines(o.lines) /\ P!New \notin DOMAIN o.lines
    /\ o.sub \in Int /\ o.discounts \in Int /\ o.tax \in Int /\ o.total \in Int
    /\ o.received \in Int

GoodRead(x) ==
    x.pc = "read" /\ x.kind \in {"create", "lines", "discounts"} /\ GoodOrder(x.read)

GoodCommit(x) ==
    /\ x.pc = "commit" /\ GoodLines(x.lines) /\ GoodOrder(x.totals)
    /\ x.touched \subseteq DOMAIN x.lines
    /\ x.kind = "discounts" => P!New \notin x.touched
    /\ x.delta \in Int

Draws(x) == x # P!Idle => GoodRead(x) \/ GoodCommit(x)

PricingTypes ==
    /\ lastLine \in Nat /\ debt \in Int /\ GoodOrder(order)
    /\ order.st = "none" => order = P!NoOrder
    /\ item = [l \in Lists |-> item[l]]
    /\ drawing = [r \in Drawers |-> drawing[r]]
    /\ \A r \in Drawers : Draws(drawing[r])

OnceListed(lines) == \A i \in DOMAIN lines : lines[i].price \in onceListed

\* The prices a request holds were listed, and nobody lets it set others.
DrawsListed(x) ==
    /\ x.pc = "read" => ~x.right /\ OnceListed(x.read.lines)
    /\ x.pc = "commit" => OnceListed(x.lines)

ListedInv ==
    /\ P!ListedPrices \subseteq onceListed
    /\ ~overridden => /\ OnceListed(order.lines)
                      /\ \A r \in P!Busy : DrawsListed(drawing[r])

\* What a request worked out is right for the order as it is now.
DrawsUp(x) ==
    /\ x.pc = "read" => x.read.lines = order.lines /\ x.read.total = order.total
    /\ x.pc = "commit" =>
        /\ x.totals.sub = P!SubTotal(x.lines)
        /\ x.delta = x.totals.total - order.total
        /\ x.removed = DOMAIN order.lines \ DOMAIN x.lines
        /\ x.kind # "discounts" => x.touched = DOMAIN x.lines
        /\ x.kind = "discounts" =>
            /\ DOMAIN x.lines = DOMAIN order.lines
            /\ \A i \in DOMAIN x.lines :
                  /\ i \notin x.touched => x.lines[i] = order.lines[i]
                  /\ x.lines[i].price = order.lines[i].price
                  /\ x.lines[i].quantity = order.lines[i].quantity

\* While edits do not overlap, a payment is all that comes between.
TotalsInv ==
    "edit" \notin mixed =>
        /\ \A p, q \in P!Busy : p = q
        /\ order.sub = P!SubTotal(order.lines)
        /\ debt = order.total - order.received
        /\ \A r \in P!Busy : DrawsUp(drawing[r])

DrawsPaid(x) ==
    /\ x.pc = "read" => x.read.received = order.received
    /\ x.pc = "commit" =>
        x.totals.received = order.received /\ x.totals.received <= x.totals.total

PaidInv ==
    mixed = {} =>
        /\ order.received <= order.total
        /\ order.st = "open" =>
            order.financial = P!FinancialStatus(order.total, order.received)
        /\ \A r \in P!Busy : DrawsPaid(drawing[r])

PricingInv == PricingTypes /\ ListedInv /\ TotalsInv /\ PaidInv

-----------------------------------------------------------------------------
(* Amounts.                                                                *)

\* The sum that OrderPricing takes from the community module is the one of SharedLemmas.
LEMMA OneSum == \A f, s : P!SumFunctionOnSet(f, s) = SumFunctionOnSet(f, s)
BY DEF P!SumFunctionOnSet, SumFunctionOnSet, P!FoldFunctionOnSet, FoldFunctionOnSet,
       P!MapThenFoldSet, MapThenFoldSet

Worth(lines) == [i \in DOMAIN lines |-> P!CalcLineTotal(lines[i])]

\* A subtotal is a sum over the lines.
LEMMA SubTotalIs == \A lines : P!SubTotal(lines) = SumFunctionOnSet(Worth(lines), DOMAIN lines)
BY OneSum DEF P!SubTotal, Worth

\* The lines of an order are finitely many and worth integers.
LEMMA WorthType ==
    ASSUME NEW lines, NEW n \in Nat, DOMAIN lines \subseteq 0..n,
           \A i \in DOMAIN lines : lines[i] \in PricedLine
    PROVE  IsFiniteSet(DOMAIN lines) /\ \A i \in DOMAIN lines : Worth(lines)[i] \in Int
<1>1. IsFiniteSet(0..n)
  BY FS_Interval
<1>2. IsFiniteSet(DOMAIN lines)
  BY <1>1, FS_Subset
<1> QED
  BY <1>2 DEF Worth, P!CalcLineTotal, PricedLine

\* A subtotal of an order's lines is an integer.
LEMMA SubTotalType ==
    ASSUME NEW lines, NEW n \in Nat, DOMAIN lines \subseteq 0..n,
           \A i \in DOMAIN lines : lines[i] \in PricedLine
    PROVE  P!SubTotal(lines) \in Int
BY WorthType, SubTotalIs, SumType

\* Equal lines have equal subtotals.
LEMMA SubTotalSame ==
    ASSUME NEW l, NEW m, NEW n \in Nat, DOMAIN l \subseteq 0..n, DOMAIN m = DOMAIN l,
           \A i \in DOMAIN l : l[i] \in PricedLine,
           \A i \in DOMAIN l : m[i] = l[i]
    PROVE  P!SubTotal(m) = P!SubTotal(l)
<1>1. \A i \in DOMAIN l : Worth(l)[i] = Worth(m)[i]
  BY DEF Worth
<1>2. IsFiniteSet(DOMAIN l)
  BY WorthType
<1>3. SumFunctionOnSet(Worth(l), DOMAIN l) = SumFunctionOnSet(Worth(m), DOMAIN l)
  BY <1>1, <1>2, SumSame
<1> QED
  BY <1>3, SubTotalIs

\* A line that gets its number is worth what it was.
LEMMA SubTotalNumbered ==
    ASSUME NEW l, NEW m, NEW n \in Nat, DOMAIN l \subseteq 0..n, 0 \in DOMAIN l,
           DOMAIN m = (DOMAIN l \ {0}) \union {n + 1},
           \A i \in DOMAIN l : l[i] \in PricedLine,
           m[n + 1] = l[0], \A i \in DOMAIN l \ {0} : m[i] = l[i]
    PROVE  P!SubTotal(m) = P!SubTotal(l)
<1> DEFINE rest == DOMAIN l \ {0}
           f == Worth(l)
           g == Worth(m)
<1>1. DOMAIN m \subseteq 0..(n + 1) /\ n + 1 \in Nat /\ n + 1 \notin DOMAIN l
  OBVIOUS
<1>2. \A i \in DOMAIN m : m[i] \in PricedLine
  BY <1>1
<1>3. IsFiniteSet(DOMAIN l) /\ \A i \in DOMAIN l : f[i] \in Int
  BY WorthType
<1>4. IsFiniteSet(DOMAIN m) /\ \A i \in DOMAIN m : g[i] \in Int
  BY <1>1, <1>2, WorthType
<1>5. \A i \in rest : f[i] = g[i]
  BY DEF Worth
<1>6. f[0] = g[n + 1]
  BY <1>1 DEF Worth
<1> HIDE DEF f, g
<1>7. IsFiniteSet(rest)
  BY <1>3, FS_Subset
<1>8. SumFunctionOnSet(f, rest) = SumFunctionOnSet(g, rest)
  BY <1>5, <1>7, SumSame
<1>9. SumFunctionOnSet(f, DOMAIN l) = f[0] + SumFunctionOnSet(f, rest)
  BY <1>3, SumTakeOut
<1>10. SumFunctionOnSet(g, DOMAIN m) = g[n + 1] + SumFunctionOnSet(g, DOMAIN m \ {n + 1})
  BY <1>4, SumTakeOut
<1>11. DOMAIN m \ {n + 1} = rest
  BY <1>1
<1> QED
  BY <1>6, <1>8, <1>9, <1>10, <1>11, SubTotalIs DEF f, g

\* A rounded amount is an integer.
LEMMA RoundedType ==
    ASSUME NEW n \in Int, NEW rate, rate[1] \in Int, rate[2] \in Nat \ {0}
    PROVE  P!Rounded(n, rate) \in Int
<1>1. ASSUME NEW a \in Int, NEW b \in Nat, b # 0 PROVE a \div b \in Int
  BY <1>1
<1>2. 2 * n * rate[1] + rate[2] \in Int /\ 2 * rate[2] \in Nat /\ 2 * rate[2] # 0
  OBVIOUS
<1> QED
  BY <1>1, <1>2 DEF P!Rounded

\* What calcOrderTotals gives: the sum of the lines, and whole amounts.
LEMMA TotalsType ==
    ASSUME lastLine \in Nat, NEW o, GoodOrder(o), NEW lines, GoodLines(lines),
           NEW d \in Int, NEW rate, rate[1] \in Int, rate[2] \in Nat \ {0}
    PROVE  /\ GoodOrder(P!CalcOrderTotals(o, lines, d, rate))
           /\ P!CalcOrderTotals(o, lines, d, rate).sub = P!SubTotal(lines)
           /\ P!CalcOrderTotals(o, lines, d, rate).received = o.received
<1> DEFINE sub == P!SubTotal(lines)
           taxable == P!Taxable(sub, d)
           tax == P!Rounded(taxable, rate)
           total == taxable + tax
<1>1. sub \in Int
  BY SubTotalType DEF GoodLines
<1> HIDE DEF sub
<1>2. taxable \in Int
  BY <1>1 DEF P!Taxable, P!Over0
<1> HIDE DEF taxable
<1>3. tax \in Int
  BY <1>2, RoundedType
<1> HIDE DEF tax
<1>4. total \in Int
  BY <1>2, <1>3
<1>5. P!CalcOrderTotals(o, lines, d, rate)
        = [o EXCEPT !.discounts = d, !.sub = sub, !.tax = tax, !.total = total]
  BY DEF P!CalcOrderTotals, sub, taxable, tax
<1> HIDE DEF total
<1>6. PICK a : a = [o EXCEPT !.discounts = d, !.sub = sub, !.tax = tax, !.total = total]
  OBVIOUS
<1>7. /\ DOMAIN a = OrderFields /\ a.discounts = d /\ a.sub = sub /\ a.tax = tax
      /\ a.total = total /\ a.lines = o.lines /\ a.received = o.received
  BY <1>6 DEF GoodOrder, OrderFields
<1> QED
  BY <1>1, <1>3, <1>4, <1>5, <1>6, <1>7 DEF GoodOrder, sub

\* The rates that are asked for, and the one in the totals that an order has.
LEMMA RateType ==
    ASSUME NEW o, GoodOrder(o), NEW rate, rate \in Rates \/ rate = P!DeriveTaxRate(o)
    PROVE  rate[1] \in Int /\ rate[2] \in Nat \ {0}
<1>1. CASE rate \in Rates
  BY <1>1, ShopAssumption DEF P!PricingAssumption
<1>2. CASE rate = P!DeriveTaxRate(o)
  <2> DEFINE taxable == P!Taxable(o.sub, o.discounts)
  <2>1. taxable \in Nat
    BY DEF P!Taxable, P!Over0, GoodOrder
  <2>2. rate = IF taxable = 0 THEN <<0, 1>> ELSE <<o.tax, taxable>>
    BY <1>2 DEF P!DeriveTaxRate
  <2> HIDE DEF taxable
  <2> QED
    BY <2>1, <2>2 DEF GoodOrder
<1> QED
  BY <1>1, <1>2

-----------------------------------------------------------------------------
(* The steps.                                                              *)

\* At the start there is no order and no price.
LEMMA PricingInit == P!Init => PricingInv
<1> SUFFICES ASSUME P!Init PROVE PricingInv
  OBVIOUS
<1> USE DEF P!Init
<1>1. order = P!NoOrder /\ debt = 0 /\ lastLine = 0
  OBVIOUS
<1>2. DOMAIN order.lines = {} /\ DOMAIN order = OrderFields
  BY <1>1 DEF P!NoOrder, P!NoLines, OrderFields
<1>3. /\ order.sub = 0 /\ order.discounts = 0 /\ order.tax = 0 /\ order.total = 0
      /\ order.received = 0 /\ order.st = "none"
  BY <1>1 DEF P!NoOrder
<1>4. P!Busy = {}
  BY DEF P!Busy
<1>5. PricingTypes
  BY <1>1, <1>2, <1>3 DEF PricingTypes, GoodOrder, GoodLines, Draws
<1>6. ListedInv
  <2>1. \A l \in Lists : ~item[l].enabled
    BY DEF P!NoItem
  <2>2. P!ListedPrices = {base}
    BY <2>1 DEF P!ListedPrices
  <2> QED
    BY <1>2, <1>4, <2>2 DEF ListedInv, OnceListed
<1>7. P!SubTotal(order.lines) = 0
  BY <1>2, SubTotalIs, SumOfNone
<1> QED
  BY <1>3, <1>4, <1>5, <1>6, <1>7 DEF PricingInv, TotalsInv, PaidInv

\* What changes no order, line or request leaves what is said of them.
LEMMA PricesAside ==
    ASSUME PricingInv, P!Changes, item' = [l \in Lists |-> item'[l]],
           P!ListedPrices' \subseteq onceListed', onceListed \subseteq onceListed'
    PROVE  PricingInv'
<1>1. UNCHANGED <<order, debt, drawing, lastLine, overridden, mixed, begun>>
  BY DEF P!Changes
<1>2. PricingTypes'
  BY <1>1 DEF PricingInv, PricingTypes, Draws, GoodRead, GoodCommit, GoodOrder, GoodLines
<1>3. ListedInv'
  <2>1. P!Busy' = P!Busy
    BY <1>1 DEF P!Busy
  <2>2. \A lines : OnceListed(lines) => OnceListed(lines)'
    BY DEF OnceListed
  <2>3. \A r \in P!Busy : DrawsListed(drawing[r]) => DrawsListed(drawing[r])'
    BY <1>1 DEF DrawsListed, OnceListed
  <2>4. ~overridden' => OnceListed(order.lines)'
    BY <1>1, <2>2 DEF PricingInv, ListedInv, OnceListed
  <2> QED
    BY <1>1, <2>1, <2>3, <2>4 DEF PricingInv, ListedInv
<1>4. TotalsInv'
  BY <1>1 DEF PricingInv, TotalsInv, P!Busy, DrawsUp
<1>5. PaidInv'
  BY <1>1 DEF PricingInv, PaidInv, P!Busy, DrawsPaid
<1> QED
  BY <1>2, <1>3, <1>4, <1>5 DEF PricingInv

\* A changed price of a variant is one that is listed from now on.
LEMMA RepriceKeeps ==
    ASSUME PricingInv, NEW price \in Prices, P!Reprice(price) PROVE PricingInv'
<1>1. /\ P!Changes /\ base' = price /\ onceListed' = onceListed \union {price}
      /\ item' = item
  BY DEF P!Reprice
<1>2. P!ListedPrices' \subseteq onceListed'
  BY <1>1 DEF PricingInv, ListedInv, P!ListedPrices
<1>3. item' = [l \in Lists |-> item'[l]]
  BY <1>1 DEF PricingInv, PricingTypes
<1> QED
  BY <1>1, <1>2, <1>3, PricesAside

\* So is an item of a price list.
LEMMA UpsertItemKeeps ==
    ASSUME PricingInv, NEW price \in Prices, NEW l \in Lists, NEW on \in BOOLEAN,
           P!UpsertItem(l, price, on)
    PROVE  PricingInv'
<1>1. /\ P!Changes /\ base' = base
      /\ item' = [item EXCEPT ![l] = [price |-> price, enabled |-> on]]
      /\ onceListed' = IF on THEN onceListed \union {price} ELSE onceListed
  BY DEF P!UpsertItem
<1>2. \A k \in Lists : item'[k] = IF k = l THEN [price |-> price, enabled |-> on] ELSE item[k]
  BY <1>1 DEF PricingInv, PricingTypes
<1>3. item' = [k \in Lists |-> item'[k]]
  BY <1>1 DEF PricingInv, PricingTypes
<1>4. onceListed \subseteq onceListed' /\ (on => price \in onceListed')
  BY <1>1
<1>5. P!ListedPrices \subseteq onceListed
  BY DEF PricingInv, ListedInv
<1>6. ASSUME NEW k \in Lists, item'[k].enabled PROVE item'[k].price \in onceListed'
  <2>1. CASE k = l
    BY <1>2, <1>4, <1>6, <2>1
  <2>2. CASE k # l
    BY <1>2, <1>4, <1>5, <1>6, <2>2 DEF P!ListedPrices
  <2> QED
    BY <2>1, <2>2
<1>7. base \in onceListed'
  BY <1>4, <1>5 DEF P!ListedPrices
<1>8. P!ListedPrices' \subseteq onceListed'
  BY <1>1, <1>6, <1>7 DEF P!ListedPrices
<1> QED
  BY <1>1, <1>3, <1>4, <1>8, PricesAside

\* A request holds the order as it found it.
LEMMA DrawerBeginKeeps ==
    ASSUME PricingInv, NEW r \in Drawers, NEW kind \in {"create", "lines", "discounts"},
           NEW right \in BOOLEAN, P!Begin(r, kind, right, order)
    PROVE  PricingInv'
<1> DEFINE x == [pc |-> "read", kind |-> kind, right |-> right, read |-> order]
<1>1. /\ drawing[r] = P!Idle /\ drawing' = [drawing EXCEPT ![r] = x]
      /\ mixed' = (IF P!Busy = {} THEN mixed ELSE mixed \union {"edit"})
      /\ overridden' = (overridden \/ right)
      /\ UNCHANGED <<base, item, order, debt, lastLine, onceListed, changed>>
  BY DEF P!Begin, P!MixedBy
<1>2. \A q \in Drawers : drawing'[q] = IF q = r THEN x ELSE drawing[q]
  BY <1>1 DEF PricingInv, PricingTypes
<1>3. drawing' = [q \in Drawers |-> drawing'[q]]
  BY <1>1 DEF PricingInv, PricingTypes
<1>4. /\ x.pc = "read" /\ x.kind = kind /\ x.right = right /\ x.read = order
      /\ x # P!Idle
  <2>1. P!Idle.pc # x.pc
    BY DEF P!Idle
  <2> QED
    BY <2>1
<1>5. P!Busy' = P!Busy \union {r}
  BY <1>2, <1>4 DEF P!Busy
<1> HIDE DEF x
<1>6. PricingTypes'
  <2>1. \A q \in Drawers : Draws(drawing[q])
    BY DEF PricingInv, PricingTypes
  <2>2. ASSUME NEW q \in Drawers PROVE Draws(drawing[q])'
    <3>1. CASE q = r
      <4>1. drawing'[q] = x
        BY <1>2, <3>1
      <4> QED
        BY <1>1, <1>4, <4>1 DEF PricingInv, PricingTypes, Draws, GoodRead, GoodOrder, GoodLines
    <3>2. CASE q # r
      <4>1. drawing'[q] = drawing[q]
        BY <1>2, <3>2
      <4> QED
        BY <1>1, <2>1, <4>1 DEF Draws, GoodRead, GoodCommit, GoodOrder, GoodLines
    <3> QED
      BY <3>1, <3>2
  <2> QED
    BY <1>1, <1>3, <2>2 DEF PricingInv, PricingTypes, GoodOrder, GoodLines
<1>7. ListedInv'
  <2>1. P!ListedPrices' = P!ListedPrices
    BY <1>1 DEF P!ListedPrices
  <2>2. ASSUME ~overridden', NEW q \in P!Busy' PROVE DrawsListed(drawing[q])'
    <3>1. ~overridden /\ ~right
      BY <1>1, <2>2
    <3>2. CASE q = r
      BY <1>1, <1>2, <1>4, <3>1, <3>2 DEF PricingInv, ListedInv, DrawsListed, OnceListed
    <3>3. CASE q # r
      <4>1. q \in P!Busy /\ drawing'[q] = drawing[q]
        BY <1>2, <1>5, <3>3 DEF P!Busy
      <4> QED
        BY <1>1, <3>1, <4>1 DEF PricingInv, ListedInv, DrawsListed, OnceListed
    <3> QED
      BY <3>2, <3>3
  <2> QED
    BY <1>1, <2>1, <2>2 DEF PricingInv, ListedInv, OnceListed
<1>8. TotalsInv'
  <2>1. SUFFICES ASSUME "edit" \notin mixed' PROVE TotalsInv'
    BY DEF TotalsInv
  <2>2. P!Busy = {} /\ mixed' = mixed
    BY <1>1, <2>1
  <2>3. P!Busy' = {r} /\ drawing'[r] = x
    BY <1>2, <1>5, <2>2
  <2> QED
    BY <1>1, <1>4, <2>1, <2>2, <2>3 DEF PricingInv, TotalsInv, DrawsUp
<1>9. PaidInv'
  <2>1. SUFFICES ASSUME mixed' = {} PROVE PaidInv'
    BY DEF PaidInv
  <2>2. P!Busy = {} /\ mixed' = mixed
    BY <1>1, <2>1
  <2>3. P!Busy' = {r} /\ drawing'[r] = x
    BY <1>2, <1>5, <2>2
  <2> QED
    BY <1>1, <1>4, <2>1, <2>2, <2>3 DEF PricingInv, PaidInv, DrawsPaid
<1> QED
  BY <1>6, <1>7, <1>8, <1>9 DEF PricingInv

\* A request that fails writes nothing.
LEMMA DrawerFailKeeps == ASSUME PricingInv, NEW r \in Drawers, P!Fail(r) PROVE PricingInv'
<1>1. /\ drawing' = [drawing EXCEPT ![r] = P!Idle]
      /\ UNCHANGED <<base, item, order, debt, lastLine, onceListed, overridden, mixed>>
  BY DEF P!Fail
<1>2. \A q \in Drawers : drawing'[q] = IF q = r THEN P!Idle ELSE drawing[q]
  BY <1>1 DEF PricingInv, PricingTypes
<1>3. drawing' = [q \in Drawers |-> drawing'[q]]
  BY <1>1 DEF PricingInv, PricingTypes
<1>4. P!Busy' \subseteq P!Busy /\ \A q \in P!Busy' : drawing'[q] = drawing[q]
  BY <1>2 DEF P!Busy
<1>5. PricingTypes'
  <2>1. ASSUME NEW q \in Drawers PROVE Draws(drawing[q])'
    <3>1. drawing'[q] = P!Idle \/ drawing'[q] = drawing[q]
      BY <1>2
    <3> QED
      BY <1>1, <3>1
      DEF PricingInv, PricingTypes, Draws, GoodRead, GoodCommit, GoodOrder, GoodLines
  <2> QED
    BY <1>1, <1>3, <2>1 DEF PricingInv, PricingTypes, GoodOrder, GoodLines
<1>6. ListedInv'
  <2>1. P!ListedPrices' = P!ListedPrices
    BY <1>1 DEF P!ListedPrices
  <2> QED
    BY <1>1, <1>4, <2>1 DEF PricingInv, ListedInv, DrawsListed, OnceListed
<1>7. TotalsInv'
  BY <1>1, <1>4 DEF PricingInv, TotalsInv, DrawsUp
<1>8. PaidInv'
  BY <1>1, <1>4 DEF PricingInv, PaidInv, DrawsPaid
<1> QED
  BY <1>5, <1>6, <1>7, <1>8 DEF PricingInv

\* pay holds the order's row, and changes what is paid and nothing that a request has
\* read but that.
LEMMA PayKeeps == ASSUME PricingInv, NEW amount \in Int, P!Pay(amount) PROVE PricingInv'
<1> DEFINE received == order.received + amount
           financial == P!FinancialStatus(order.total, received)
<1>1. /\ order' = [order EXCEPT !.received = received, !.financial = financial]
      /\ debt' = debt - amount
      /\ mixed' = (IF P!Busy = {} THEN mixed ELSE mixed \union {"payment"})
      /\ UNCHANGED <<base, item, drawing, lastLine, onceListed, overridden>>
  BY DEF P!Pay, P!MixedBy
<1>2. order.st = "open" /\ amount <= order.total - order.received
  BY DEF P!Pay, PricingInv, PricingTypes, GoodOrder
<1>3. GoodOrder(order) /\ received \in Int /\ received <= order.total
  BY <1>2 DEF PricingInv, PricingTypes, GoodOrder
<1> HIDE DEF received, financial
<1>4. /\ DOMAIN order' = OrderFields /\ order'.st = "open" /\ order'.lines = order.lines
      /\ order'.discounts = order.discounts /\ order'.sub = order.sub
      /\ order'.tax = order.tax /\ order'.total = order.total
      /\ order'.received = received /\ order'.financial = financial
  BY <1>1, <1>2, <1>3 DEF GoodOrder, OrderFields
<1>5. P!Busy' = P!Busy
  BY <1>1 DEF P!Busy
<1>6. PricingTypes'
  <2>1. \A r \in Drawers : Draws(drawing[r])'
    BY <1>1 DEF PricingInv, PricingTypes, Draws, GoodRead, GoodCommit, GoodOrder, GoodLines
  <2> QED
    BY <1>1, <1>3, <1>4, <2>1 DEF PricingInv, PricingTypes, GoodOrder, GoodLines
<1>7. ListedInv'
  <2>1. P!ListedPrices' = P!ListedPrices
    BY <1>1 DEF P!ListedPrices
  <2>2. \A r \in P!Busy : DrawsListed(drawing[r]) => DrawsListed(drawing[r])'
    BY <1>1 DEF DrawsListed, OnceListed
  <2>3. ~overridden' => OnceListed(order.lines)'
    BY <1>1, <1>4 DEF PricingInv, ListedInv, OnceListed
  <2> QED
    BY <1>1, <1>5, <2>1, <2>2, <2>3 DEF PricingInv, ListedInv
<1>8. TotalsInv'
  <2>1. SUFFICES ASSUME "edit" \notin mixed' PROVE TotalsInv'
    BY DEF TotalsInv
  <2>2. "edit" \notin mixed
    BY <1>1, <2>1
  <2>3. debt' = order'.total - order'.received
    BY <1>1, <1>3, <1>4, <2>2 DEF PricingInv, PricingTypes, TotalsInv, GoodOrder, received
  <2>4. \A r \in P!Busy : DrawsUp(drawing[r])'
    BY <1>1, <1>4, <2>2 DEF PricingInv, TotalsInv, DrawsUp
  <2> QED
    BY <1>4, <1>5, <2>2, <2>3, <2>4 DEF PricingInv, TotalsInv
<1>9. PaidInv'
  <2>1. SUFFICES ASSUME mixed' = {} PROVE PaidInv'
    BY DEF PaidInv
  <2>2. P!Busy' = {}
    BY <1>1, <1>5, <2>1
  <2> QED
    BY <1>3, <1>4, <2>2 DEF PaidInv, financial
<1> QED
  BY <1>6, <1>7, <1>8, <1>9 DEF PricingInv

\* What a user without the right to set prices may ask for was listed.
LEMMA ResolvedListed ==
    ASSUME PricingInv, NEW r \in Drawers, drawing[r].pc = "read", ~overridden,
           NEW lines, GoodLines(lines),
           IF drawing[r].kind = "discounts" THEN P!Discounted(r, lines)
           ELSE P!Resolved(r, lines) /\ DOMAIN lines \subseteq
                    DOMAIN drawing[r].read.lines \union {P!New}
    PROVE  OnceListed(lines)
<1> DEFINE old == drawing[r].read.lines
<1>1. drawing[r] # P!Idle /\ r \in P!Busy
  BY DEF P!Idle, P!Busy
<1>2. ~drawing[r].right /\ OnceListed(old) /\ P!ListedPrices \subseteq onceListed
  BY <1>1 DEF PricingInv, ListedInv, DrawsListed
<1>3. GoodRead(drawing[r])
  BY <1>1 DEF PricingInv, PricingTypes, Draws, GoodCommit
<1>4. P!ResolvePrice \in P!ListedPrices
  BY ShopAssumption DEF P!PricingAssumption, P!ResolvePrice, P!ListedPrices
<1> SUFFICES ASSUME NEW i \in DOMAIN lines PROVE lines[i].price \in onceListed
  BY DEF OnceListed
<1>5. CASE drawing[r].kind = "discounts"
  <2>1. i \in DOMAIN old /\ [lines[i] EXCEPT !.discount = 0] = [old[i] EXCEPT !.discount = 0]
    BY <1>5 DEF P!Discounted
  <2>2. old[i] \in PricedLine /\ lines[i] \in PricedLine
    BY <1>3, <2>1 DEF GoodRead, GoodOrder, GoodLines
  <2>3. lines[i].price = old[i].price
    BY <2>1, <2>2 DEF PricedLine
  <2> QED
    BY <1>2, <2>1, <2>3 DEF OnceListed
<1>6. CASE drawing[r].kind # "discounts"
  <2>1. /\ i \in DOMAIN old \/ i = P!New
        /\ \/ lines[i].price \in P!ListedPrices
           \/ lines[i].price = IF i = P!New THEN P!ResolvePrice ELSE old[i].price
    BY <1>2, <1>6 DEF P!Resolved, P!MayCost
  <2> QED
    BY <1>2, <1>4, <2>1 DEF OnceListed
<1> QED
  BY <1>5, <1>6

\* Totals are worked out from the lines, and the order is as it was read.
LEMMA ResolveKeeps ==
    ASSUME PricingInv, NEW r \in Drawers, drawing[r].pc = "read",
           NEW s \in SUBSET (DOMAIN drawing[r].read.lines \union {P!New}),
           NEW lines \in [s -> Lines], NEW d \in Discounts,
           NEW rate, P!Resolve(r, lines, d, rate)
    PROVE  PricingInv'
<1> DEFINE read == drawing[r].read
           kind == drawing[r].kind
           totals == P!CalcOrderTotals(read, lines, d, rate)
           touched == {i \in DOMAIN lines : kind # "discounts" \/ lines[i] # read.lines[i]}
           removed == DOMAIN read.lines \ DOMAIN lines
           delta == totals.total - read.total
           x == [pc |-> "commit", kind |-> kind, lines |-> lines, totals |-> totals,
                 removed |-> removed, touched |-> touched, delta |-> delta]
<1>1. /\ drawing' = [drawing EXCEPT ![r] = x]
      /\ UNCHANGED <<base, item, order, debt, lastLine, onceListed, overridden, mixed>>
  BY DEF P!Resolve, P!Priced
<1>2. /\ IF kind = "discounts" THEN P!Discounted(r, lines) ELSE P!Resolved(r, lines)
      /\ rate \in Rates \/ rate = P!DeriveTaxRate(read)
      /\ totals.total >= read.received
  BY DEF P!Resolve, P!Priced
<1>3. drawing[r] # P!Idle /\ r \in P!Busy
  BY DEF P!Idle, P!Busy
<1>4. GoodRead(drawing[r]) /\ lastLine \in Nat
  BY <1>3 DEF PricingInv, PricingTypes, Draws, GoodCommit
<1>5. GoodOrder(read) /\ kind \in {"create", "lines", "discounts"}
  BY <1>4 DEF GoodRead
<1>6. GoodLines(lines) /\ DOMAIN lines = s
  BY <1>4, <1>5, ShopAssumption
  DEF GoodOrder, GoodLines, PricedLine, P!PricingAssumption, P!New
<1>7. GoodOrder(totals) /\ totals.sub = P!SubTotal(lines) /\ totals.received = read.received
  <2>1. d \in Int
    BY ShopAssumption DEF P!PricingAssumption
  <2>2. rate[1] \in Int /\ rate[2] \in Nat \ {0}
    BY <1>2, <1>5, RateType
  <2> QED
    BY <1>4, <1>5, <1>6, <2>1, <2>2, TotalsType
<1>8. /\ x.pc = "commit" /\ x.kind = kind /\ x.lines = lines /\ x.totals = totals
      /\ x.removed = removed /\ x.touched = touched /\ x.delta = delta
  OBVIOUS
<1> HIDE DEF x, totals
<1>9. x # P!Idle
  BY <1>8 DEF P!Idle
<1>10. \A q \in Drawers : drawing'[q] = IF q = r THEN x ELSE drawing[q]
  BY <1>1 DEF PricingInv, PricingTypes
<1>11. drawing' = [q \in Drawers |-> drawing'[q]]
  BY <1>1 DEF PricingInv, PricingTypes
<1>12. P!Busy' = P!Busy
  BY <1>3, <1>9, <1>10 DEF P!Busy
<1>13. GoodCommit(x)
  <2>1. kind = "discounts" => DOMAIN lines = DOMAIN read.lines
    BY <1>2 DEF P!Discounted
  <2>2. kind = "discounts" => P!New \notin touched
    BY <1>5, <2>1 DEF GoodOrder
  <2>3. delta \in Int
    BY <1>5, <1>7 DEF GoodOrder
  <2> HIDE DEF delta
  <2> QED
    BY <1>6, <1>7, <1>8, <2>2, <2>3 DEF GoodCommit
<1>14. PricingTypes'
  <2>1. ASSUME NEW q \in Drawers PROVE Draws(drawing[q])'
    <3>1. CASE q = r
      <4>1. drawing'[q] = x
        BY <1>10, <3>1
      <4> QED
        BY <1>1, <1>13, <4>1 DEF Draws, GoodCommit, GoodOrder, GoodLines
    <3>2. CASE q # r
      <4>1. drawing'[q] = drawing[q]
        BY <1>10, <3>2
      <4> QED
        BY <1>1, <4>1
        DEF PricingInv, PricingTypes, Draws, GoodRead, GoodCommit, GoodOrder, GoodLines
    <3> QED
      BY <3>1, <3>2
  <2> QED
    BY <1>1, <1>11, <2>1 DEF PricingInv, PricingTypes, GoodOrder, GoodLines
<1>15. ListedInv'
  <2>1. P!ListedPrices' = P!ListedPrices
    BY <1>1 DEF P!ListedPrices
  <2>2. ASSUME ~overridden, NEW q \in P!Busy PROVE DrawsListed(drawing[q])'
    <3>1. CASE q = r
      <4>1. OnceListed(lines)
        BY <1>2, <1>6, <2>2, ResolvedListed
      <4>2. drawing'[q] = x
        BY <1>10, <3>1
      <4> QED
        BY <1>1, <1>8, <4>1, <4>2 DEF DrawsListed, OnceListed
    <3>2. CASE q # r
      <4>1. drawing'[q] = drawing[q]
        BY <1>10, <3>2 DEF P!Busy
      <4> QED
        BY <1>1, <2>2, <4>1 DEF PricingInv, ListedInv, DrawsListed, OnceListed
    <3> QED
      BY <3>1, <3>2
  <2> QED
    BY <1>1, <1>12, <2>1, <2>2 DEF PricingInv, ListedInv, OnceListed
<1>16. TotalsInv'
  <2>1. SUFFICES ASSUME "edit" \notin mixed' PROVE TotalsInv'
    BY DEF TotalsInv
  <2>2. "edit" \notin mixed /\ P!Busy = {r}
    BY <1>1, <1>3, <2>1 DEF PricingInv, TotalsInv
  <2>3. read.lines = order.lines /\ read.total = order.total
    BY <1>3, <2>2 DEF PricingInv, TotalsInv, DrawsUp
  <2>4. DrawsUp(x)
    <3>1. kind # "discounts" => touched = DOMAIN lines
      OBVIOUS
    <3>2. ASSUME kind = "discounts"
          PROVE  /\ DOMAIN lines = DOMAIN order.lines
                 /\ \A i \in DOMAIN lines :
                       /\ i \notin touched => lines[i] = order.lines[i]
                       /\ lines[i].price = order.lines[i].price
                       /\ lines[i].quantity = order.lines[i].quantity
      <4>1. /\ DOMAIN lines = DOMAIN read.lines
            /\ \A i \in DOMAIN lines : [lines[i] EXCEPT !.discount = 0]
                                          = [read.lines[i] EXCEPT !.discount = 0]
        BY <1>2, <3>2 DEF P!Discounted
      <4>2. \A i \in DOMAIN lines : lines[i] \in PricedLine /\ read.lines[i] \in PricedLine
        BY <1>5, <1>6, <4>1 DEF GoodOrder, GoodLines
      <4>3. \A i \in DOMAIN lines : lines[i].price = read.lines[i].price
                                      /\ lines[i].quantity = read.lines[i].quantity
        BY <4>1, <4>2 DEF PricedLine
      <4>4. \A i \in DOMAIN lines : i \notin touched => lines[i] = read.lines[i]
        BY <3>2
      <4> HIDE DEF touched
      <4> QED
        BY <2>3, <4>1, <4>3, <4>4
    <3>3. removed = DOMAIN order.lines \ DOMAIN lines /\ delta = totals.total - order.total
      BY <2>3
    <3> HIDE DEF touched, removed, delta
    <3> QED
      BY <1>7, <1>8, <3>1, <3>2, <3>3 DEF DrawsUp
  <2>5. drawing'[r] = x
    BY <1>10
  <2>6. DrawsUp(drawing[r])'
    BY <1>1, <2>4, <2>5 DEF DrawsUp
  <2> QED
    BY <1>1, <1>12, <2>2, <2>6 DEF PricingInv, TotalsInv
<1>17. PaidInv'
  <2>1. SUFFICES ASSUME mixed' = {} PROVE PaidInv'
    BY DEF PaidInv
  <2>2. mixed = {} /\ P!Busy = {r}
    BY <1>1, <1>3, <2>1 DEF PricingInv, TotalsInv
  <2>3. read.received = order.received
    BY <1>3, <2>2 DEF PricingInv, PaidInv, DrawsPaid
  <2>4. read.received <= totals.total
    BY <1>2, <1>5, <1>7 DEF GoodOrder, totals
  <2>5. drawing'[r] = x
    BY <1>10
  <2>6. DrawsPaid(drawing[r])'
    BY <1>1, <1>7, <1>8, <2>3, <2>4, <2>5 DEF DrawsPaid
  <2> QED
    BY <1>1, <1>12, <2>2, <2>6 DEF PricingInv, PaidInv
<1> QED
  BY <1>14, <1>15, <1>16, <1>17 DEF PricingInv

\* The lines that are written: those the request did not know of, those it had, and the new
\* one under the next number.
LEMMA WrittenIs ==
    ASSUME PricingTypes, NEW r \in Drawers, GoodCommit(drawing[r]),
           drawing[r].touched \ {P!New} \subseteq DOMAIN order.lines
    PROVE  LET x == drawing[r]
               others == DOMAIN order.lines \ (x.removed \union x.touched)
               kept == x.touched \ {P!New}
           IN  /\ DOMAIN P!Written(r) = others \union kept \union
                        (IF P!New \in x.touched THEN {lastLine + 1} ELSE {})
               /\ \A n \in others : P!Written(r)[n] = order.lines[n]
               /\ x.kind = "discounts" => \A n \in kept : P!Written(r)[n] =
                        [order.lines[n] EXCEPT !.discount = x.lines[n].discount]
               /\ x.kind # "discounts" => \A n \in kept : P!Written(r)[n] = x.lines[n]
               /\ P!New \in x.touched => P!Written(r)[lastLine + 1] = x.lines[P!New]
<1> DEFINE x == drawing[r]
           others == DOMAIN order.lines \ (x.removed \union x.touched)
           kept == x.touched \ {P!New}
           number(i) == IF i = P!New THEN lastLine + 1 ELSE i
           from(n) == IF n > lastLine THEN P!New ELSE n
           dom == {number(i) : i \in x.touched} \union others
           value(n) ==
              IF n \in others THEN order.lines[n]
              ELSE IF x.kind = "discounts"
                   THEN [order.lines[from(n)] EXCEPT !.discount = x.lines[from(n)].discount]
              ELSE x.lines[from(n)]
<1>1. P!Written(r) = [n \in dom |-> value(n)]
  BY DEF P!Written
<1>2. lastLine \in Nat /\ \A n \in others \union kept : n \in 1..lastLine
  <2>1. DOMAIN order.lines \subseteq 0..lastLine /\ P!New \notin DOMAIN order.lines
    BY DEF PricingTypes, GoodOrder, GoodLines
  <2> QED
    BY <2>1 DEF PricingTypes, P!New
<1>3. dom = others \union kept \union
              (IF P!New \in x.touched THEN {lastLine + 1} ELSE {})
  <2>1. \A i \in kept : number(i) = i
    OBVIOUS
  <2>2. number(P!New) = lastLine + 1
    OBVIOUS
  <2> HIDE DEF number, others
  <2> QED
    BY <2>1, <2>2
<1>4. \A n \in others \union kept : from(n) = n
  BY <1>2
<1>5. from(lastLine + 1) = P!New /\ lastLine + 1 \notin others
  BY <1>2
<1>6. P!New \in x.touched => x.kind # "discounts"
  BY DEF GoodCommit
<1>7. others \intersect kept = {}
  OBVIOUS
<1> HIDE DEF others, kept, from, x
<1>8. \A n \in others : value(n) = order.lines[n]
  OBVIOUS
<1>9. x.kind = "discounts" => \A n \in kept : value(n) =
          [order.lines[n] EXCEPT !.discount = x.lines[n].discount]
  BY <1>4, <1>7
<1>10. x.kind # "discounts" => \A n \in kept : value(n) = x.lines[n]
  BY <1>4, <1>7
<1>11. P!New \in x.touched => value(lastLine + 1) = x.lines[P!New]
  BY <1>5, <1>6
<1> HIDE DEF value, dom
<1> QED
  BY <1>1, <1>3, <1>8, <1>9, <1>10, <1>11 DEF others, kept, x

\* The sum of the lines that are written is the one that was worked out, when the order is
\* still what it was worked out from.
LEMMA WrittenAddsUp ==
    ASSUME PricingTypes, NEW r \in Drawers, GoodCommit(drawing[r]), DrawsUp(drawing[r]),
           drawing[r].touched \ {P!New} \subseteq DOMAIN order.lines
    PROVE  P!SubTotal(P!Written(r)) = drawing[r].totals.sub
<1> DEFINE x == drawing[r]
           w == P!Written(r)
           lines == x.lines
           others == DOMAIN order.lines \ (x.removed \union x.touched)
           kept == x.touched \ {P!New}
<1>1. x.pc = "commit" /\ GoodLines(lines) /\ x.touched \subseteq DOMAIN lines
      /\ lastLine \in Nat
  BY DEF GoodCommit, PricingTypes
<1>2. /\ x.totals.sub = P!SubTotal(lines)
      /\ x.removed = DOMAIN order.lines \ DOMAIN lines
  BY <1>1 DEF DrawsUp
<1>3. /\ DOMAIN w = others \union kept \union
            (IF P!New \in x.touched THEN {lastLine + 1} ELSE {})
      /\ \A n \in others : w[n] = order.lines[n]
      /\ x.kind = "discounts" => \A n \in kept : w[n] =
            [order.lines[n] EXCEPT !.discount = x.lines[n].discount]
      /\ x.kind # "discounts" => \A n \in kept : w[n] = x.lines[n]
      /\ P!New \in x.touched => w[lastLine + 1] = x.lines[P!New]
  BY WrittenIs
<1> HIDE DEF w
<1>4. CASE x.kind = "discounts"
  <2>1. /\ DOMAIN lines = DOMAIN order.lines /\ P!New \notin DOMAIN lines
        /\ \A i \in DOMAIN lines : /\ i \notin x.touched => lines[i] = order.lines[i]
                                   /\ lines[i].price = order.lines[i].price
                                   /\ lines[i].quantity = order.lines[i].quantity
    BY <1>1, <1>4 DEF DrawsUp, PricingTypes, GoodOrder
  <2>2. DOMAIN w = DOMAIN lines
    BY <1>1, <1>2, <1>3, <2>1
  <2>3. ASSUME NEW n \in DOMAIN lines PROVE w[n] = lines[n]
    <3>1. lines[n] \in PricedLine /\ order.lines[n] \in PricedLine
      BY <1>1, <2>1 DEF PricingTypes, GoodOrder, GoodLines
    <3>2. CASE n \in x.touched
      <4>1. w[n] = [order.lines[n] EXCEPT !.discount = lines[n].discount]
        BY <1>3, <1>4, <2>1, <3>2
      <4> QED
        BY <2>1, <3>1, <4>1 DEF PricedLine
    <3>3. CASE n \notin x.touched
      BY <1>2, <1>3, <2>1, <3>3
    <3> QED
      BY <3>2, <3>3
  <2>4. P!SubTotal(w) = P!SubTotal(lines)
    BY <1>1, <2>2, <2>3, SubTotalSame DEF GoodLines
  <2> QED
    BY <1>2, <2>4 DEF w
<1>5. CASE x.kind # "discounts"
  <2>1. x.touched = DOMAIN lines /\ others = {}
    BY <1>1, <1>2, <1>5 DEF DrawsUp
  <2>2. CASE P!New \in DOMAIN lines
    <3>1. /\ 0 \in DOMAIN lines /\ DOMAIN w = (DOMAIN lines \ {0}) \union {lastLine + 1}
          /\ w[lastLine + 1] = lines[0] /\ \A i \in DOMAIN lines \ {0} : w[i] = lines[i]
      BY <1>3, <1>5, <2>1, <2>2 DEF P!New
    <3>2. P!SubTotal(w) = P!SubTotal(lines)
      BY <1>1, <3>1, SubTotalNumbered DEF GoodLines
    <3> QED
      BY <1>2, <3>2 DEF w
  <2>3. CASE P!New \notin DOMAIN lines
    <3>1. DOMAIN w = DOMAIN lines /\ \A i \in DOMAIN lines : w[i] = lines[i]
      BY <1>3, <1>5, <2>1, <2>3
    <3>2. P!SubTotal(w) = P!SubTotal(lines)
      BY <1>1, <3>1, SubTotalSame DEF GoodLines
    <3> QED
      BY <1>2, <3>2 DEF w
  <2> QED
    BY <2>2, <2>3
<1> QED
  BY <1>4, <1>5

\* The transaction writes the order.
LEMMA CommitKeeps == ASSUME PricingInv, NEW r \in Drawers, P!Commit(r) PROVE PricingInv'
<1> DEFINE x == drawing[r]
           w == P!Written(r)
           financial == P!FinancialStatus(x.totals.total, x.totals.received)
           last == IF P!New \in x.touched THEN lastLine + 1 ELSE lastLine
           others == DOMAIN order.lines \ (x.removed \union x.touched)
           kept == x.touched \ {P!New}
<1>1. /\ order' = [x.totals EXCEPT !.st = "open", !.lines = w,
                                   !.received = order.received, !.financial = financial]
      /\ debt' = debt + x.delta /\ lastLine' = last
      /\ drawing' = [drawing EXCEPT ![r] = P!Idle]
      /\ UNCHANGED <<base, item, onceListed, overridden, mixed>>
  BY DEF P!Commit
<1>2. x.pc = "commit" /\ kept \subseteq DOMAIN order.lines
  BY DEF P!Commit
<1>3. x # P!Idle /\ r \in P!Busy
  BY <1>2 DEF P!Idle, P!Busy
<1>4. PricingTypes /\ GoodCommit(x) /\ GoodOrder(order) /\ lastLine \in Nat
  BY <1>2, <1>3 DEF PricingInv, PricingTypes, Draws, GoodRead
<1>5. GoodOrder(x.totals) /\ GoodLines(x.lines) /\ x.touched \subseteq DOMAIN x.lines
      /\ x.delta \in Int
  BY <1>4 DEF GoodCommit
<1>6. /\ DOMAIN w = others \union kept \union
            (IF P!New \in x.touched THEN {lastLine + 1} ELSE {})
      /\ \A n \in others : w[n] = order.lines[n]
      /\ x.kind = "discounts" => \A n \in kept : w[n] =
            [order.lines[n] EXCEPT !.discount = x.lines[n].discount]
      /\ x.kind # "discounts" => \A n \in kept : w[n] = x.lines[n]
      /\ P!New \in x.touched => w[lastLine + 1] = x.lines[P!New]
  BY <1>2, <1>4, WrittenIs
<1>7. ("edit" \notin mixed) => P!SubTotal(w) = x.totals.sub
  BY <1>2, <1>3, <1>4, WrittenAddsUp DEF PricingInv, TotalsInv
<1> HIDE DEF w, financial, last
<1>8. /\ DOMAIN order' = OrderFields /\ order'.st = "open" /\ order'.lines = w
      /\ order'.discounts = x.totals.discounts /\ order'.sub = x.totals.sub
      /\ order'.tax = x.totals.tax /\ order'.total = x.totals.total
      /\ order'.received = order.received /\ order'.financial = financial
  BY <1>1, <1>5 DEF GoodOrder, OrderFields
<1>9. \A q \in Drawers : drawing'[q] = IF q = r THEN P!Idle ELSE drawing[q]
  BY <1>1 DEF PricingInv, PricingTypes
<1>10. drawing' = [q \in Drawers |-> drawing'[q]]
  BY <1>1 DEF PricingInv, PricingTypes
<1>11. P!Busy' = P!Busy \ {r} /\ \A q \in P!Busy' : drawing'[q] = drawing[q]
  BY <1>9 DEF P!Busy
<1>12. last \in Nat /\ lastLine <= last /\ (P!New \in x.touched => last = lastLine + 1)
  BY <1>4 DEF last
<1>13. DOMAIN order.lines \subseteq 1..lastLine
  BY <1>4 DEF GoodOrder, GoodLines, P!New
<1>14. DOMAIN w \subseteq 1..last
  BY <1>2, <1>4, <1>6, <1>12, <1>13
<1>15. ASSUME NEW n \in DOMAIN w
       PROVE  /\ w[n] \in PricedLine
              /\ \/ n \in DOMAIN order.lines /\ w[n].price = order.lines[n].price
                 \/ \E i \in DOMAIN x.lines : w[n].price = x.lines[i].price
  <2>1. CASE n \in others
    BY <1>4, <1>6, <2>1 DEF GoodOrder, GoodLines
  <2>2. CASE n \in kept /\ x.kind = "discounts"
    <3>1. order.lines[n] \in PricedLine /\ x.lines[n] \in PricedLine
      BY <1>2, <1>4, <1>5, <2>2 DEF GoodOrder, GoodLines
    <3>2. w[n] = [order.lines[n] EXCEPT !.discount = x.lines[n].discount]
      BY <1>6, <2>2
    <3> QED
      BY <1>2, <2>2, <3>1, <3>2 DEF PricedLine
  <2>3. CASE n \in kept /\ x.kind # "discounts"
    <3>1. w[n] = x.lines[n] /\ n \in DOMAIN x.lines
      BY <1>5, <1>6, <2>3
    <3> QED
      BY <1>5, <3>1 DEF GoodLines
  <2>4. CASE n \notin others /\ n \notin kept
    <3>1. P!New \in DOMAIN x.lines /\ w[n] = x.lines[P!New]
      BY <1>5, <1>6, <2>4
    <3> QED
      BY <1>5, <3>1 DEF GoodLines
  <2> QED
    BY <2>1, <2>2, <2>3, <2>4
<1>16. ASSUME NEW lines, GoodLines(lines) PROVE GoodLines(lines)'
  BY <1>1, <1>4, <1>12, <1>16 DEF GoodLines
<1>17. PricingTypes'
  <2>1. GoodOrder(order)'
    <3>1. P!New \notin DOMAIN order'.lines /\ DOMAIN order'.lines \subseteq 0..lastLine'
      BY <1>1, <1>8, <1>12, <1>14 DEF P!New
    <3>2. \A i \in DOMAIN order'.lines : order'.lines[i] \in PricedLine
      BY <1>8, <1>15
    <3> QED
      BY <1>4, <1>5, <1>8, <3>1, <3>2 DEF GoodOrder, GoodLines
  <2>2. \A o : GoodOrder(o) => GoodOrder(o)'
    BY <1>16 DEF GoodOrder
  <2>3. ASSUME NEW q \in Drawers PROVE Draws(drawing[q])'
    <3>1. CASE q = r
      BY <1>9, <3>1 DEF Draws
    <3>2. CASE q # r
      <4>1. drawing'[q] = drawing[q]
        BY <1>9, <3>2
      <4>2. Draws(drawing[q])
        BY <1>4 DEF PricingTypes
      <4>3. GoodRead(drawing[q]) => GoodRead(drawing[q])'
        BY <2>2, <4>1 DEF GoodRead
      <4>4. GoodCommit(drawing[q]) => GoodCommit(drawing[q])'
        BY <1>16, <2>2, <4>1 DEF GoodCommit
      <4> QED
        BY <4>1, <4>2, <4>3, <4>4 DEF Draws
    <3> QED
      BY <3>1, <3>2
  <2>4. debt' \in Int
    BY <1>1, <1>4, <1>5 DEF PricingTypes
  <2>5. item' = [l \in Lists |-> item'[l]]
    BY <1>1, <1>4 DEF PricingTypes
  <2> QED
    BY <1>1, <1>8, <1>10, <1>12, <2>1, <2>3, <2>4, <2>5 DEF PricingTypes
<1>18. ListedInv'
  <2>1. P!ListedPrices' = P!ListedPrices
    BY <1>1 DEF P!ListedPrices
  <2>2. \A q \in P!Busy' : DrawsListed(drawing[q]) => DrawsListed(drawing[q])'
    BY <1>1, <1>11 DEF DrawsListed, OnceListed
  <2>3. ASSUME ~overridden PROVE OnceListed(order.lines)'
    <3>1. OnceListed(order.lines) /\ OnceListed(x.lines)
      BY <1>2, <1>3, <2>3 DEF PricingInv, ListedInv, DrawsListed
    <3>2. \A n \in DOMAIN w : w[n].price \in onceListed
      BY <1>15, <3>1 DEF OnceListed
    <3> QED
      BY <1>1, <1>8, <3>2 DEF OnceListed
  <2> QED
    BY <1>1, <1>11, <2>1, <2>2, <2>3 DEF PricingInv, ListedInv
<1>19. TotalsInv'
  <2>1. SUFFICES ASSUME "edit" \notin mixed' PROVE TotalsInv'
    BY DEF TotalsInv
  <2>2. "edit" \notin mixed /\ P!Busy = {r}
    BY <1>1, <1>3, <2>1 DEF PricingInv, TotalsInv
  <2>3. P!Busy' = {}
    BY <1>11, <2>2
  <2>4. order'.sub = P!SubTotal(order'.lines)
    BY <1>7, <1>8, <2>2
  <2>5. x.delta = x.totals.total - order.total /\ debt = order.total - order.received
    BY <1>2, <2>2 DEF PricingInv, TotalsInv, DrawsUp
  <2>6. debt' = order'.total - order'.received
    BY <1>1, <1>4, <1>5, <1>8, <2>5 DEF GoodOrder
  <2> QED
    BY <2>3, <2>4, <2>6 DEF TotalsInv
<1>20. PaidInv'
  <2>1. SUFFICES ASSUME mixed' = {} PROVE PaidInv'
    BY DEF PaidInv
  <2>2. mixed = {} /\ P!Busy = {r}
    BY <1>1, <1>3, <2>1 DEF PricingInv, TotalsInv
  <2>3. P!Busy' = {}
    BY <1>11, <2>2
  <2>4. x.totals.received = order.received /\ x.totals.received <= x.totals.total
    BY <1>2, <2>2 DEF PricingInv, PaidInv, DrawsPaid
  <2> QED
    BY <1>8, <2>3, <2>4 DEF PaidInv, financial
<1> QED
  BY <1>17, <1>18, <1>19, <1>20 DEF PricingInv

\* Every step keeps orders at listed prices and their totals in agreement.
LEMMA PricingStep == PricingInv /\ [P!Next]_(P!vars) => PricingInv'
<1> SUFFICES ASSUME PricingInv, [P!Next]_(P!vars) PROVE PricingInv'
  OBVIOUS
<1>1. ASSUME NEW price \in Prices,
             P!Reprice(price) \/ \E l \in Lists, on \in BOOLEAN : P!UpsertItem(l, price, on)
      PROVE  PricingInv'
  BY <1>1, RepriceKeeps, UpsertItemKeeps
<1>2. ASSUME NEW r \in Drawers, NEW right \in BOOLEAN, P!BeginCreate(r, right)
      PROVE  PricingInv'
  <2>1. order = P!NoOrder
    BY <1>2 DEF P!BeginCreate, PricingInv, PricingTypes
  <2> QED
    BY <1>2, <2>1, DrawerBeginKeeps DEF P!BeginCreate
<1>3. ASSUME NEW r \in Drawers, NEW right \in BOOLEAN, NEW kind \in {"lines", "discounts"},
             P!BeginUpdate(r, kind, right)
      PROVE  PricingInv'
  BY <1>3, DrawerBeginKeeps DEF P!BeginUpdate
<1>4. ASSUME NEW r \in Drawers, drawing[r].pc = "read",
             NEW s \in SUBSET (DOMAIN drawing[r].read.lines \union {P!New}),
             NEW lines \in [s -> Lines], NEW d \in Discounts,
             NEW rate \in Rates \union {P!DeriveTaxRate(drawing[r].read)},
             P!Resolve(r, lines, d, rate)
      PROVE  PricingInv'
  BY <1>4, ResolveKeeps
<1>5. ASSUME NEW r \in Drawers, P!Commit(r) \/ P!Fail(r) PROVE PricingInv'
  BY <1>5, CommitKeeps, DrawerFailKeeps
<1>6. ASSUME NEW amount \in 1..order.total, P!Pay(amount) PROVE PricingInv'
  BY <1>6, PayKeeps DEF PricingInv, PricingTypes, GoodOrder
<1>7. CASE UNCHANGED P!vars
  <2>1. P!Busy' = P!Busy /\ P!ListedPrices' = P!ListedPrices
    BY <1>7 DEF P!vars, P!Busy, P!ListedPrices
  <2>2. PricingTypes'
    BY <1>7 DEF P!vars, PricingInv, PricingTypes, Draws, GoodRead, GoodCommit, GoodOrder, GoodLines
  <2>3. ListedInv'
    BY <1>7, <2>1 DEF P!vars, PricingInv, ListedInv, DrawsListed, OnceListed
  <2>4. TotalsInv' /\ PaidInv'
    BY <1>7, <2>1 DEF P!vars, PricingInv, TotalsInv, PaidInv, DrawsUp, DrawsPaid
  <2> QED
    BY <2>2, <2>3, <2>4 DEF PricingInv
<1> QED
  BY <1>1, <1>2, <1>3, <1>4, <1>5, <1>6, <1>7 DEF P!Next

\* No order sells at a price that was never listed unless somebody who may set prices has
\* worked on it (assertListedPrice), and its total, what its customer owes and what is paid
\* agree with its lines as long as edits do not overlap (calcOrderTotals, update and pay of
\* OrderService).
THEOREM OrdersAlwaysPricedRight == Spec => []OrdersPricedRight
<1>1. PricingInv => OrdersPricedRight
  BY DEF PricingInv, ListedInv, OnceListed, TotalsInv, PaidInv, OrdersPricedRight,
         P!PricesWereListed, P!TotalsAddUp
<1> QED
  BY <1>1, OrdersAsAlone, PricingInit, PricingStep, PTL DEF P!Spec

---------------------------------------------------------------------------
(* Categories (Categories).                                                *)

\* The categories fare in the shop as they do by themselves.
LEMMA CategoriesAsAlone == Spec => T!Spec
<1>1. Init => T!Init
  BY DEF Init
<1>2. [Next]_vars => [T!Next]_(T!vars)
  BY DEF Next, vars, tVars, T!vars
<1> QED
  BY <1>1, <1>2, PTL DEF Spec, T!Spec

ProductRow == [st : {"none", "there"}, words : SUBSET Words]
CategoryRow == [type : {"none", "manual", "auto"}, rule : SUBSET Words]

\* The requests: a product to be written, read with the categories, and the evaluation of
\* all products, between categories and in one.
WriteReq == [pc : {"write"}, sku : Tagged, words : SUBSET Words,
             chosen : SUBSET Categories, new : BOOLEAN]
CommitReq == [pc : {"commit"}, sku : Tagged, words : SUBSET Words,
              chosen : SUBSET Categories, new : BOOLEAN, autos : SUBSET Categories]
LinksReq == [pc : {"links"}, autos : SUBSET Categories, read : [Tagged -> ProductRow]]
LinkReq == [pc : {"add", "remove"}, autos : SUBSET Categories,
            read : [Tagged -> ProductRow], cat : Categories, held : SUBSET Tagged]

CurateTypes ==
    /\ words \in [Tagged -> ProductRow]
    /\ category \in [Categories -> CategoryRow]
    /\ link \subseteq Tagged \X Categories
    /\ curator \in [Reqs -> {T!Idle} \union WriteReq \union CommitReq
                              \union {[pc |-> "products"]} \union LinksReq \union LinkReq]

Evaluates(r) == curator[r].pc \in {"links", "add", "remove"}

Fits(s, c) == T!There(s) /\ T!Matches(words[s].words, category[c].rule)
PairRight(s, c) == <<s, c>> \in link <=> Fits(s, c)

\* An evaluation under way that has still to come to the category.
Owes(r, c) == curator[r].pc = "products" \/ (Evaluates(r) /\ c \in curator[r].autos)

\* What an evaluation has read of the product is so still: nobody else was there all the
\* time, or the product is not among those left behind.
Sees(r, s) == r \notin curators \/ s \notin unseen

\* An evaluation leaves the categories that it is through with right, and is on the way to
\* it with the one it is at, as far as it sees the products.
ReadWell(r) ==
    /\ curator[r].autos \subseteq T!Auto
    /\ \A s \in Tagged : curator[r].read[s].st = "there" => T!There(s)
    /\ \A s \in Tagged : Sees(r, s) => curator[r].read[s] = words[s]
    /\ r \notin curators =>
          \A s \in Tagged, c \in T!Auto \ curator[r].autos : PairRight(s, c)
    /\ curator[r].pc \in {"add", "remove"} =>
          /\ curator[r].cat \in curator[r].autos
          /\ \A s \in Tagged : Sees(r, s) =>
                /\ Fits(s, curator[r].cat) /\ (s \in curator[r].held \/ curator[r].pc = "remove")
                      => <<s, curator[r].cat>> \in link
                /\ ~Fits(s, curator[r].cat) /\ s \notin curator[r].held
                      => <<s, curator[r].cat>> \notin link

\* A request for a product names categories that are there; if no other was there it knows
\* all that are automatic.
AsksWell(r) ==
    /\ curator[r].pc \in {"write", "commit"} =>
          \A c \in curator[r].chosen : category[c] # T!NoCategory
    /\ curator[r].pc = "commit" =>
          curator[r].autos \subseteq T!Auto /\ (r \notin curators => curator[r].autos = T!Auto)

LinksThere == \A l \in link : T!There(l[1]) /\ category[l[2]] # T!NoCategory

\* Of requests that are under way together each is known to overlap.
OverlapKnown == curators \subseteq T!Busy /\ \A r \in T!Busy \ curators : T!Busy = {r}

PairsRight ==
    \A s \in Tagged \ unseen, c \in T!Auto : PairRight(s, c) \/ \E r \in Reqs : Owes(r, c)

CurateInv ==
    /\ CurateTypes /\ LinksThere /\ OverlapKnown /\ PairsRight
    /\ \A r \in Reqs : Evaluates(r) => ReadWell(r)
    /\ \A r \in Reqs : AsksWell(r)

\* What the place a request is at says of it.
LEMMA CuratorIs ==
    ASSUME CurateTypes, NEW r \in Reqs
    PROVE  /\ r \in T!Busy <=> curator[r].pc # "idle"
           /\ curator[r].pc = "write" <=> curator[r] \in WriteReq
           /\ curator[r].pc = "commit" <=> curator[r] \in CommitReq
           /\ curator[r].pc = "links" <=> curator[r] \in LinksReq
           /\ curator[r].pc \in {"add", "remove"} <=> curator[r] \in LinkReq
           /\ curator[r].pc \in {"idle", "write", "commit", "products", "links", "add", "remove"}
<1>1. curator[r] \in {T!Idle} \union WriteReq \union CommitReq
                       \union {[pc |-> "products"]} \union LinksReq \union LinkReq
  BY DEF CurateTypes
<1>2. r \in T!Busy <=> curator[r].pc # "idle"
  BY <1>1 DEF T!Busy, T!Idle, WriteReq, CommitReq, LinksReq, LinkReq
<1>3. /\ curator[r].pc = "write" <=> curator[r] \in WriteReq
      /\ curator[r].pc = "commit" <=> curator[r] \in CommitReq
  BY <1>1 DEF T!Idle, WriteReq, CommitReq, LinksReq, LinkReq
<1>4. /\ curator[r].pc = "links" <=> curator[r] \in LinksReq
      /\ curator[r].pc \in {"add", "remove"} <=> curator[r] \in LinkReq
  BY <1>1 DEF T!Idle, WriteReq, CommitReq, LinksReq, LinkReq
<1>5. curator[r].pc \in {"idle", "write", "commit", "products", "links", "add", "remove"}
  BY <1>1 DEF T!Idle, WriteReq, CommitReq, LinksReq, LinkReq
<1> QED
  BY <1>2, <1>3, <1>4, <1>5

\* A link changes for the better only.
Mends(s, c) == \/ <<s, c>> \in link' <=> <<s, c>> \in link
               \/ <<s, c>> \in link' <=> Fits(s, c)

\* An evaluation that goes on finds what it read as it was.
LEMMA ReadStays ==
    ASSUME NEW r \in Reqs, Evaluates(r), ReadWell(r), CurateTypes, curator'[r] = curator[r],
           r \in curators => r \in curators',
           T!Auto \subseteq T!Auto', \A c \in T!Auto : category'[c] = category[c],
           r \notin curators' => T!Auto' = T!Auto,
           \A s \in Tagged : T!There(s) => T!There(s)',
           \A s \in Tagged : Sees(r, s)' => Sees(r, s) /\ words'[s] = words[s],
           \A s \in Tagged, c \in T!Auto : Sees(r, s)' => Mends(s, c)
    PROVE  Evaluates(r)' /\ ReadWell(r)'
<1>1. Evaluates(r)'
  BY DEF Evaluates
<1>2. \A s \in Tagged, c \in T!Auto : Sees(r, s)' => (Fits(s, c)' <=> Fits(s, c))
  BY DEF Fits, T!There
<1>3. \A s \in Tagged, c \in T!Auto : Sees(r, s)' /\ PairRight(s, c) => PairRight(s, c)'
  BY <1>2 DEF PairRight, Mends
<1>4. curator[r].autos \subseteq T!Auto
  BY DEF ReadWell
<1>5. r \notin curators' =>
          \A s \in Tagged, c \in T!Auto' \ curator'[r].autos : PairRight(s, c)'
  BY <1>3 DEF ReadWell, Sees
<1>6. ASSUME curator[r].pc \in {"add", "remove"}, NEW s \in Tagged, Sees(r, s)'
      PROVE  /\ Fits(s, curator[r].cat)' /\ (s \in curator[r].held \/ curator[r].pc = "remove")
                   => <<s, curator[r].cat>> \in link'
             /\ ~Fits(s, curator[r].cat)' /\ s \notin curator[r].held
                   => <<s, curator[r].cat>> \notin link'
  <2> DEFINE c == curator[r].cat
  <2>1. c \in T!Auto
    BY <1>4, <1>6 DEF ReadWell
  <2>2. (Fits(s, c)' <=> Fits(s, c)) /\ Mends(s, c) /\ Sees(r, s)
    BY <1>2, <1>6, <2>1
  <2>3. /\ Fits(s, c) /\ (s \in curator[r].held \/ curator[r].pc = "remove") => <<s, c>> \in link
        /\ ~Fits(s, c) /\ s \notin curator[r].held => <<s, c>> \notin link
    BY <1>6, <2>2 DEF ReadWell
  <2> HIDE DEF c
  <2>4. /\ Fits(s, c)' /\ (s \in curator[r].held \/ curator[r].pc = "remove") => <<s, c>> \in link'
        /\ ~Fits(s, c)' /\ s \notin curator[r].held => <<s, c>> \notin link'
    BY <2>2, <2>3 DEF Mends
  <2> QED
    BY <2>4 DEF c
<1>7. curator[r].pc \in {"add", "remove"} => curator[r].cat \in curator[r].autos
  BY DEF ReadWell
<1>8. /\ \A s \in Tagged : curator'[r].read[s].st = "there" => T!There(s)'
      /\ \A s \in Tagged : Sees(r, s)' => curator'[r].read[s] = words'[s]
  BY DEF ReadWell
<1>9. curator'[r].autos \subseteq T!Auto'
  BY <1>4
<1> QED
  BY <1>1, <1>5, <1>6, <1>7, <1>8, <1>9 DEF ReadWell

\* What was right stays right where the product does not change.
LEMMA PairsStay ==
    ASSUME PairsRight, \A c \in T!Auto : category'[c] = category[c],
           T!Auto \subseteq T!Auto',
           \A s \in Tagged \ unseen' : s \notin unseen /\ words'[s] = words[s],
           \A s \in Tagged \ unseen', c \in T!Auto : Mends(s, c),
           \A s \in Tagged \ unseen', c \in T!Auto, r \in Reqs :
              Owes(r, c) => Owes(r, c)' \/ PairRight(s, c)',
           \A c \in T!Auto' \ T!Auto : \E r \in Reqs : Owes(r, c)'
    PROVE  PairsRight'
<1> SUFFICES ASSUME NEW s \in Tagged \ unseen', NEW c \in T!Auto'
             PROVE  PairRight(s, c)' \/ \E r \in Reqs : Owes(r, c)'
  BY DEF PairsRight
<1>1. CASE c \notin T!Auto
  BY <1>1
<1>2. CASE c \in T!Auto
  <2>1. Fits(s, c)' <=> Fits(s, c)
    BY <1>2 DEF Fits, T!There
  <2>2. CASE PairRight(s, c)
    <3>1. Mends(s, c)
      BY <1>2
    <3>2. PairRight(s, c)'
      BY <2>1, <2>2, <3>1 DEF PairRight, Mends
    <3> QED
      BY <3>2
  <2>3. CASE ~PairRight(s, c)
    <3>1. PICK r \in Reqs : Owes(r, c)
      BY <1>2, <2>3 DEF PairsRight
    <3> QED
      BY <1>2, <3>1
  <2> QED
    BY <2>2, <2>3
<1> QED
  BY <1>1, <1>2

\* The requests that a step is not of, when all of them are known to overlap it.
LEMMA OthersStay ==
    ASSUME CurateInv, NEW rest \in SUBSET Reqs,
           \A q \in rest : curator'[q] = curator[q],
           \A q \in rest : q \in T!Busy => q \in curators',
           T!Auto \subseteq T!Auto', \A c \in T!Auto : category'[c] = category[c],
           \A c \in Categories : category[c] # T!NoCategory => category'[c] # T!NoCategory,
           \A s \in Tagged : T!There(s) => T!There(s)',
           \A s \in Tagged \ unseen' : s \notin unseen /\ words'[s] = words[s],
           \A s \in Tagged \ unseen', c \in T!Auto : Mends(s, c)
    PROVE  \A q \in rest : (Evaluates(q)' => ReadWell(q)') /\ AsksWell(q)'
<1> SUFFICES ASSUME NEW q \in rest
             PROVE  (Evaluates(q)' => ReadWell(q)') /\ AsksWell(q)'
  OBVIOUS
<1>0. q \in Reqs /\ CurateTypes
  BY DEF CurateInv
<1>1. Evaluates(q)' => ReadWell(q)'
  <2> SUFFICES ASSUME Evaluates(q)' PROVE ReadWell(q)'
    OBVIOUS
  <2>1. Evaluates(q) /\ curator'[q] = curator[q]
    BY DEF Evaluates
  <2>2. ReadWell(q) /\ q \in T!Busy
    BY <1>0, <2>1, CuratorIs DEF CurateInv, Evaluates
  <2>3. q \in curators'
    BY <2>2
  <2>4. \A s \in Tagged : Sees(q, s)' => s \notin unseen'
    BY <2>3 DEF Sees
  <2>5. \A s \in Tagged : Sees(q, s)' => Sees(q, s) /\ words'[s] = words[s]
    BY <2>4 DEF Sees
  <2>6. \A s \in Tagged, c \in T!Auto : Sees(q, s)' => Mends(s, c)
    BY <2>4
  <2> QED
    BY <1>0, <2>1, <2>2, <2>3, <2>5, <2>6, ReadStays
<1>2. AsksWell(q)'
  <2>1. AsksWell(q) /\ curator'[q] = curator[q]
    BY <1>0 DEF CurateInv
  <2>2. curator[q].pc = "commit" => q \in curators'
    BY <1>0, CuratorIs
  <2>3. curator[q].pc \in {"write", "commit"} => curator[q].chosen \subseteq Categories
    BY <1>0, CuratorIs DEF WriteReq, CommitReq
  <2> QED
    BY <2>1, <2>2, <2>3 DEF AsksWell
<1> QED
  BY <1>1, <1>2

\* The same where nobody else is there.
LEMMA OthersIdle ==
    ASSUME CurateTypes, NEW r \in Reqs, T!Busy = {r},
           \A q \in Reqs \ {r} : curator'[q] = curator[q]
    PROVE  \A q \in Reqs \ {r} : (Evaluates(q)' => ReadWell(q)') /\ AsksWell(q)'
<1> SUFFICES ASSUME NEW q \in Reqs \ {r}
             PROVE  (Evaluates(q)' => ReadWell(q)') /\ AsksWell(q)'
  OBVIOUS
<1>1. curator'[q] = curator[q] /\ curator[q].pc = "idle"
  BY CuratorIs
<1> QED
  BY <1>1 DEF Evaluates, AsksWell

\* A step that concerns neither products nor requests nor automatic categories.
LEMMA QuietStays ==
    ASSUME CurateInv, CurateTypes', LinksThere',
           UNCHANGED <<words, curator, curators, unseen>>, T!Auto' = T!Auto,
           \A c \in T!Auto : category'[c] = category[c],
           \A c \in Categories : category[c] # T!NoCategory => category'[c] # T!NoCategory,
           \A s \in Tagged, c \in T!Auto : Mends(s, c)
    PROVE  CurateInv'
<1>1. OverlapKnown'
  BY DEF CurateInv, OverlapKnown, T!Busy
<1>2. PairsRight'
  <2>1. \A s \in Tagged \ unseen', c \in T!Auto, r \in Reqs : Owes(r, c) => Owes(r, c)'
    BY DEF Owes, Evaluates
  <2> QED
    BY <2>1, PairsStay DEF CurateInv
<1>3. ASSUME NEW r \in Reqs, Evaluates(r)' PROVE ReadWell(r)'
  <2>1. Evaluates(r) /\ ReadWell(r) /\ CurateTypes
    BY <1>3 DEF Evaluates, CurateInv
  <2>2. \A s \in Tagged : T!There(s) => T!There(s)'
    BY DEF T!There
  <2>3. \A s \in Tagged : Sees(r, s)' => Sees(r, s) /\ words'[s] = words[s]
    BY DEF Sees
  <2> QED
    BY <2>1, <2>2, <2>3, ReadStays
<1>4. ASSUME NEW r \in Reqs PROVE AsksWell(r)'
  <2>1. AsksWell(r) /\ CurateTypes
    BY DEF CurateInv
  <2>2. curator[r].pc \in {"write", "commit"} => curator[r].chosen \subseteq Categories
    BY <2>1, CuratorIs DEF WriteReq, CommitReq
  <2> QED
    BY <2>1, <2>2 DEF AsksWell
<1> QED
  BY <1>1, <1>2, <1>3, <1>4 DEF CurateInv

\* Beginning, going on and ending, as far as who is under way with whom.
LEMMA StartKnown ==
    ASSUME CurateTypes, OverlapKnown, NEW r \in Reqs, NEW work, work.pc # "idle", T!Start(r, work)
    PROVE  /\ OverlapKnown' /\ curators \subseteq curators' /\ curator[r].pc = "idle"
           /\ curator'[r] = work /\ \A q \in Reqs \ {r} : curator'[q] = curator[q]
           /\ \A q \in Reqs \ {r} : q \in T!Busy => q \in curators'
<1>1. /\ curator[r] = T!Idle /\ curator' = [curator EXCEPT ![r] = work]
      /\ curators' = IF T!Busy = {} THEN curators ELSE curators \union T!Busy \union {r}
  BY DEF T!Start
<1>2. DOMAIN curator = Reqs /\ work # T!Idle
  BY DEF CurateTypes, T!Idle
<1>3. /\ curator'[r] = work /\ \A q \in Reqs \ {r} : curator'[q] = curator[q]
      /\ curator[r].pc = "idle"
  BY <1>1, <1>2 DEF T!Idle
<1>4. T!Busy' = T!Busy \union {r}
  BY <1>1, <1>2, <1>3 DEF T!Busy
<1>5. OverlapKnown'
  <2>1. CASE T!Busy = {}
    BY <1>1, <1>4, <2>1 DEF OverlapKnown
  <2>2. CASE T!Busy # {}
    BY <1>1, <1>4, <2>2 DEF OverlapKnown
  <2> QED
    BY <2>1, <2>2
<1> QED
  BY <1>1, <1>3, <1>5

\* A request that goes on remains one that is known to be at work.
LEMMA GoOnKnown ==
    ASSUME CurateTypes, OverlapKnown, NEW r \in Reqs, NEW work, curator[r].pc # "idle",
           work.pc # "idle", curator' = [curator EXCEPT ![r] = work], curators' = curators
    PROVE  /\ OverlapKnown' /\ curator'[r] = work
           /\ \A q \in Reqs \ {r} : curator'[q] = curator[q]
           /\ \A q \in Reqs \ {r} : q \in T!Busy => q \in curators' /\ r \in curators
<1>1. DOMAIN curator = Reqs /\ work # T!Idle /\ r \in T!Busy
  BY CuratorIs DEF CurateTypes, T!Idle
<1>2. curator'[r] = work /\ \A q \in Reqs \ {r} : curator'[q] = curator[q]
  BY <1>1
<1>3. T!Busy' = T!Busy
  BY <1>1, <1>2 DEF T!Busy
<1>4. OverlapKnown'
  BY <1>3 DEF OverlapKnown
<1>5. \A q \in Reqs \ {r} : q \in T!Busy => q \in curators /\ r \in curators
  BY <1>1 DEF OverlapKnown
<1> QED
  BY <1>2, <1>4, <1>5

\* A request that finishes is at rest and nobody else changes.
LEMMA FinishKnown ==
    ASSUME CurateTypes, OverlapKnown, NEW r \in Reqs, curator[r].pc # "idle", T!Finish(r)
    PROVE  /\ OverlapKnown' /\ curator'[r] = T!Idle /\ curators' = curators \ {r}
           /\ \A q \in Reqs \ {r} : curator'[q] = curator[q]
           /\ \A q \in Reqs \ {r} : q \in T!Busy => q \in curators' /\ r \in curators
           /\ r \notin curators => T!Busy = {r}
<1>1. /\ DOMAIN curator = Reqs /\ r \in T!Busy /\ curators' = curators \ {r}
      /\ curator' = [curator EXCEPT ![r] = T!Idle]
  BY CuratorIs DEF CurateTypes, T!Finish
<1>2. curator'[r] = T!Idle /\ \A q \in Reqs \ {r} : curator'[q] = curator[q]
  BY <1>1
<1>3. T!Busy' = T!Busy \ {r}
  BY <1>1, <1>2 DEF T!Busy
<1>4. OverlapKnown'
  BY <1>1, <1>3 DEF OverlapKnown
<1>5. \A q \in Reqs \ {r} : q \in T!Busy => q \in curators' /\ r \in curators
  BY <1>1 DEF OverlapKnown
<1>6. r \notin curators => T!Busy = {r}
  BY <1>1 DEF OverlapKnown
<1> QED
  BY <1>1, <1>2, <1>4, <1>5, <1>6

\* The requests of a step's own, idle and otherwise, keep their types.
LEMMA CuratorTyped ==
    ASSUME CurateTypes, NEW r \in Reqs, NEW work, curator' = [curator EXCEPT ![r] = work],
           work \in {T!Idle} \union WriteReq \union CommitReq
                      \union {[pc |-> "products"]} \union LinksReq \union LinkReq
    PROVE  curator' \in [Reqs -> {T!Idle} \union WriteReq \union CommitReq
                              \union {[pc |-> "products"]} \union LinksReq \union LinkReq]
BY DEF CurateTypes

\* At the start no category has a product.
LEMMA CurateInit == T!Init => CurateInv
<1> SUFFICES ASSUME T!Init PROVE CurateInv
  OBVIOUS
<1>1. CurateTypes
  BY DEF T!Init, CurateTypes, ProductRow, CategoryRow, T!NoProduct, T!NoCategory
<1>2. \A r \in Reqs : curator[r] = T!Idle /\ curator[r].pc = "idle"
  BY DEF T!Init, T!Idle
<1>3. LinksThere /\ OverlapKnown
  BY <1>2 DEF T!Init, LinksThere, OverlapKnown, T!Busy
<1>4. PairsRight
  BY DEF T!Init, PairsRight, T!Auto, T!NoCategory
<1>5. \A r \in Reqs : (Evaluates(r) => ReadWell(r)) /\ AsksWell(r)
  BY <1>2 DEF Evaluates, AsksWell
<1> QED
  BY <1>1, <1>3, <1>4, <1>5 DEF CurateInv

\* A product Sapo's sync writes leaves the categories unevaluated, which is remembered.
LEMMA SyncProductCurates ==
    ASSUME CurateInv, NEW s \in Tagged, NEW said \in SUBSET Words, T!SyncProduct(s, said)
    PROVE  CurateInv'
<1>1. /\ words' = [words EXCEPT ![s] = [st |-> "there", words |-> said]]
      /\ unseen' = unseen \union {s} /\ curators' = curators \union T!Busy
      /\ UNCHANGED <<category, link, curator>>
  BY DEF T!SyncProduct
<1>2. words \in [Tagged -> ProductRow] /\ CurateTypes
  BY DEF CurateInv, CurateTypes
<1>3. [st |-> "there", words |-> said] \in ProductRow
  BY DEF ProductRow
<1>4. CurateTypes'
  BY <1>1, <1>2, <1>3 DEF CurateTypes
<1>5. /\ T!There(s)' /\ \A t \in Tagged : T!There(t) => T!There(t)'
      /\ \A t \in Tagged \ {s} : words'[t] = words[t]
  BY <1>1, <1>2 DEF T!There
<1>6. LinksThere'
  <2>1. \A l \in link : l[1] \in Tagged /\ T!There(l[1]) /\ category[l[2]] # T!NoCategory
    BY <1>2 DEF CurateInv, LinksThere, CurateTypes
  <2> QED
    BY <1>1, <1>5, <2>1 DEF LinksThere
<1>7. T!Busy' = T!Busy /\ T!Auto' = T!Auto
  BY <1>1 DEF T!Busy, T!Auto
<1>8. OverlapKnown'
  BY <1>1, <1>7 DEF CurateInv, OverlapKnown
<1>9. \A t \in Tagged \ unseen' : t \notin unseen /\ words'[t] = words[t]
  BY <1>1, <1>5
<1>10. \A t \in Tagged, c \in T!Auto : Mends(t, c)
  BY <1>1 DEF Mends
<1>11. \A q \in Reqs : (Evaluates(q)' => ReadWell(q)') /\ AsksWell(q)'
  <2>1. \A q \in Reqs : curator'[q] = curator[q] /\ (q \in T!Busy => q \in curators')
    BY <1>1
  <2> QED
    BY <1>1, <1>5, <1>7, <1>9, <1>10, <2>1, OthersStay
<1>12. PairsRight'
  <2>1. \A t \in Tagged \ unseen', c \in T!Auto, r \in Reqs : Owes(r, c) => Owes(r, c)'
    BY <1>1 DEF Owes, Evaluates
  <2> QED
    BY <1>1, <1>7, <1>9, <1>10, <2>1, PairsStay DEF CurateInv
<1> QED
  BY <1>4, <1>6, <1>8, <1>11, <1>12 DEF CurateInv

\* A step of one request that changes no product, and of the links of automatic
\* categories none for the worse where an evaluation looks.
LEMMA StepCurates ==
    ASSUME CurateInv, NEW r \in Reqs, CurateTypes', LinksThere', OverlapKnown', words' = words,
           \A q \in Reqs \ {r} : curator'[q] = curator[q],
           \A q \in Reqs \ {r} : q \in T!Busy => q \in curators',
           T!Auto \subseteq T!Auto', \A c \in T!Auto : category'[c] = category[c],
           \A c \in Categories : category[c] # T!NoCategory => category'[c] # T!NoCategory,
           unseen \subseteq unseen',
           \A s \in Tagged \ unseen', c \in T!Auto : Mends(s, c),
           \A s \in Tagged \ unseen', c \in T!Auto :
              Owes(r, c) => Owes(r, c)' \/ PairRight(s, c)',
           \A c \in T!Auto' \ T!Auto : Owes(r, c)',
           Evaluates(r)' => ReadWell(r)', AsksWell(r)'
    PROVE  CurateInv'
<1>1. \A s \in Tagged : T!There(s) => T!There(s)'
  BY DEF T!There
<1>2. \A s \in Tagged \ unseen' : s \notin unseen /\ words'[s] = words[s]
  OBVIOUS
<1>3. \A q \in Reqs \ {r} : (Evaluates(q)' => ReadWell(q)') /\ AsksWell(q)'
  <2>1. Reqs \ {r} \in SUBSET Reqs
    OBVIOUS
  <2> QED
    BY <1>1, <1>2, <2>1, OthersStay
<1>4. PairsRight'
  <2>1. \A s \in Tagged \ unseen', c \in T!Auto, q \in Reqs :
           Owes(q, c) => Owes(q, c)' \/ PairRight(s, c)'
    BY DEF Owes, Evaluates
  <2> QED
    BY <1>2, <2>1, PairsStay DEF CurateInv
<1> QED
  BY <1>3, <1>4 DEF CurateInv

\* An edit of a product begins.
LEMMA BeginProductCurates ==
    ASSUME CurateInv, NEW r \in Reqs, NEW s \in Tagged, NEW said \in SUBSET Words,
           NEW chosen \in SUBSET {c \in Categories : category[c] # T!NoCategory},
           T!BeginProduct(r, s, said, chosen)
    PROVE  CurateInv'
<1> DEFINE work == [pc |-> "write", sku |-> s, words |-> said, chosen |-> chosen,
                    new |-> ~T!There(s)]
<1>1. /\ T!Start(r, work) /\ UNCHANGED <<words, category, link, unseen>>
      /\ work.pc = "write" /\ work.chosen = chosen
  BY DEF T!BeginProduct
<1>2. work \in WriteReq
  BY DEF WriteReq
<1> HIDE DEF work
<1>3. CurateTypes /\ OverlapKnown
  BY DEF CurateInv
<1>4. /\ OverlapKnown' /\ curators \subseteq curators' /\ curator[r].pc = "idle"
      /\ curator'[r] = work /\ \A q \in Reqs \ {r} : curator'[q] = curator[q]
      /\ \A q \in Reqs \ {r} : q \in T!Busy => q \in curators'
  BY <1>1, <1>3, StartKnown
<1>5. curator' = [curator EXCEPT ![r] = work]
  BY <1>1 DEF T!Start
<1>6. CurateTypes'
  BY <1>1, <1>2, <1>3, <1>5, CuratorTyped DEF CurateTypes
<1>7. LinksThere' /\ T!Auto' = T!Auto
  BY <1>1 DEF CurateInv, LinksThere, T!There, T!Auto
<1>8. \A t \in Tagged, c \in T!Auto : Mends(t, c)
  BY <1>1 DEF Mends
<1>9. AsksWell(r)' /\ ~Evaluates(r)'
  BY <1>1, <1>4 DEF AsksWell, Evaluates
<1>10. \A c \in T!Auto : ~Owes(r, c)
  BY <1>4 DEF Owes, Evaluates
<1> QED
  BY <1>1, <1>4, <1>6, <1>7, <1>8, <1>9, <1>10, StepCurates

\* Its transaction reads the automatic categories and commits nothing yet.
LEMMA WriteProductCurates ==
    ASSUME CurateInv, NEW r \in Reqs, T!WriteProduct(r)
    PROVE  CurateInv'
<1> DEFINE work == [pc |-> "commit", sku |-> curator[r].sku, words |-> curator[r].words,
                    chosen |-> curator[r].chosen, new |-> curator[r].new, autos |-> T!Auto]
<1>1. /\ curator[r].pc = "write" /\ curator' = [curator EXCEPT ![r] = work]
      /\ UNCHANGED <<words, category, link, curators, unseen>>
      /\ work.pc = "commit" /\ work.chosen = curator[r].chosen /\ work.autos = T!Auto
  BY DEF T!WriteProduct
<1>2. CurateTypes /\ OverlapKnown /\ AsksWell(r)
  BY DEF CurateInv
<1>3. curator[r] \in WriteReq
  BY <1>1, <1>2, CuratorIs
<1>4. T!Auto \in SUBSET Categories
  BY DEF T!Auto
<1>5. work \in CommitReq
  BY <1>3, <1>4 DEF WriteReq, CommitReq
<1> HIDE DEF work
<1>6. /\ OverlapKnown' /\ curator'[r] = work
      /\ \A q \in Reqs \ {r} : curator'[q] = curator[q]
      /\ \A q \in Reqs \ {r} : q \in T!Busy => q \in curators'
  BY <1>1, <1>2, GoOnKnown
<1>7. CurateTypes'
  BY <1>1, <1>2, <1>5, CuratorTyped DEF CurateTypes
<1>8. LinksThere' /\ T!Auto' = T!Auto
  BY <1>1 DEF CurateInv, LinksThere, T!There, T!Auto
<1>9. \A t \in Tagged, c \in T!Auto : Mends(t, c)
  BY <1>1 DEF Mends
<1>10. AsksWell(r)' /\ ~Evaluates(r)'
  BY <1>1, <1>2, <1>6, <1>8 DEF AsksWell, Evaluates
<1>11. \A c \in T!Auto : ~Owes(r, c)
  BY <1>1 DEF Owes, Evaluates
<1> QED
  BY <1>1, <1>6, <1>7, <1>8, <1>9, <1>10, <1>11, StepCurates

\* A new category has no product until it is evaluated.
LEMMA CreateCategoryCurates ==
    ASSUME CurateInv, NEW r \in Reqs, NEW c \in Categories, NEW rule \in SUBSET Words,
           NEW type \in {"manual", "auto"}, T!CreateCategory(r, c, type, rule)
    PROVE  CurateInv'
<1>1. /\ category[c] = T!NoCategory /\ UNCHANGED <<words, link, unseen>>
      /\ category' = [category EXCEPT ![c] = [type |-> type, rule |-> rule]]
      /\ IF type = "auto" THEN T!Start(r, [pc |-> "products"]) ELSE UNCHANGED <<curator, curators>>
  BY DEF T!CreateCategory
<1>2. CurateTypes /\ OverlapKnown /\ category \in [Categories -> CategoryRow]
  BY DEF CurateInv, CurateTypes
<1>3. [type |-> type, rule |-> rule] \in CategoryRow
  BY DEF CategoryRow
<1>4. category' \in [Categories -> CategoryRow]
  BY <1>1, <1>2, <1>3
<1>5. /\ category'[c].type = type /\ category'[c] # T!NoCategory
      /\ \A d \in Categories \ {c} : category'[d] = category[d]
  BY <1>1, <1>2 DEF T!NoCategory
<1>6. c \notin T!Auto
  BY <1>1 DEF T!Auto, T!NoCategory
<1>7. /\ \A d \in T!Auto : category'[d] = category[d]
      /\ T!Auto' = IF type = "auto" THEN T!Auto \union {c} ELSE T!Auto
      /\ \A d \in Categories : category[d] # T!NoCategory => category'[d] # T!NoCategory
  BY <1>5, <1>6 DEF T!Auto
<1>8. LinksThere'
  <2>1. \A l \in link : l[2] \in Categories /\ T!There(l[1]) /\ category[l[2]] # T!NoCategory
    BY <1>2 DEF CurateInv, LinksThere, CurateTypes
  <2> QED
    BY <1>1, <1>7, <2>1 DEF LinksThere, T!There
<1>9. \A s \in Tagged, d \in T!Auto : Mends(s, d)
  BY <1>1 DEF Mends
<1>10. CASE type = "manual"
  <2>1. UNCHANGED <<words, curator, curators, unseen>> /\ T!Auto' = T!Auto
    BY <1>1, <1>7, <1>10
  <2>2. CurateTypes'
    BY <1>1, <1>2, <1>4, <2>1 DEF CurateTypes
  <2> QED
    BY <1>7, <1>8, <1>9, <2>1, <2>2, QuietStays
<1>11. CASE type = "auto"
  <2> DEFINE work == [pc |-> "products"]
  <2>1. T!Start(r, work) /\ work.pc = "products"
    BY <1>1, <1>11
  <2>2. work \in {[pc |-> "products"]}
    OBVIOUS
  <2> HIDE DEF work
  <2>3. /\ OverlapKnown' /\ curators \subseteq curators' /\ curator[r].pc = "idle"
        /\ curator'[r] = work /\ \A q \in Reqs \ {r} : curator'[q] = curator[q]
        /\ \A q \in Reqs \ {r} : q \in T!Busy => q \in curators'
    BY <1>2, <2>1, StartKnown
  <2>4. curator' = [curator EXCEPT ![r] = work]
    BY <2>1 DEF T!Start
  <2>5. CurateTypes'
    BY <1>1, <1>2, <1>4, <2>2, <2>4, CuratorTyped DEF CurateTypes
  <2>6. AsksWell(r)' /\ ~Evaluates(r)' /\ \A d \in Categories : Owes(r, d)'
    BY <2>1, <2>3 DEF AsksWell, Evaluates, Owes
  <2>7. /\ \A d \in T!Auto : ~Owes(r, d)
        /\ \A d \in T!Auto' \ T!Auto : Owes(r, d)'
    BY <1>7, <2>3, <2>6 DEF Owes, Evaluates
  <2> QED
    BY <1>1, <1>7, <1>8, <1>9, <1>11, <2>3, <2>5, <2>6, <2>7, StepCurates
<1> QED
  BY <1>10, <1>11

\* A product is put into a manual category by hand.
LEMMA AssignProductCurates ==
    ASSUME CurateInv, NEW s \in Tagged, NEW c \in Categories, T!AssignProduct(s, c)
    PROVE  CurateInv'
<1>1. /\ T!There(s) /\ category[c].type = "manual" /\ link' = link \union {<<s, c>>}
      /\ UNCHANGED <<words, category, curator, curators, unseen>>
  BY DEF T!AssignProduct
<1>2. CurateTypes /\ LinksThere
  BY DEF CurateInv
<1>3. CurateTypes'
  BY <1>1, <1>2 DEF CurateTypes
<1>4. category[c] # T!NoCategory
  BY <1>1 DEF T!NoCategory
<1>5. LinksThere'
  <2> SUFFICES ASSUME NEW l \in link' PROVE T!There(l[1])' /\ category'[l[2]] # T!NoCategory
    BY DEF LinksThere
  <2>1. T!There(l[1]) /\ category[l[2]] # T!NoCategory
    BY <1>1, <1>2, <1>4 DEF LinksThere
  <2> QED
    BY <1>1, <2>1 DEF T!There
<1>6. T!Auto' = T!Auto /\ c \notin T!Auto
  BY <1>1 DEF T!Auto
<1>7. \A t \in Tagged, d \in T!Auto : Mends(t, d)
  BY <1>1, <1>6 DEF Mends
<1> QED
  BY <1>1, <1>3, <1>5, <1>6, <1>7, QuietStays

\* An evaluation reads the products.
LEMMA ReadProductsCurates ==
    ASSUME CurateInv, NEW r \in Reqs, T!ReadProducts(r)
    PROVE  CurateInv'
<1> DEFINE work == [pc |-> "links", autos |-> T!Auto, read |-> words]
<1>1. /\ curator[r].pc = "products" /\ curator' = [curator EXCEPT ![r] = work]
      /\ UNCHANGED <<words, category, link, curators, unseen>>
      /\ work.pc = "links" /\ work.autos = T!Auto /\ work.read = words
  BY DEF T!ReadProducts
<1>2. CurateTypes /\ OverlapKnown
  BY DEF CurateInv
<1>3. work \in LinksReq
  BY <1>2 DEF LinksReq, CurateTypes, T!Auto
<1> HIDE DEF work
<1>4. /\ OverlapKnown' /\ curator'[r] = work
      /\ \A q \in Reqs \ {r} : curator'[q] = curator[q]
      /\ \A q \in Reqs \ {r} : q \in T!Busy => q \in curators'
  BY <1>1, <1>2, GoOnKnown
<1>5. CurateTypes'
  BY <1>1, <1>2, <1>3, CuratorTyped DEF CurateTypes
<1>6. LinksThere' /\ T!Auto' = T!Auto
  BY <1>1 DEF CurateInv, LinksThere, T!There, T!Auto
<1>7. \A t \in Tagged, c \in T!Auto : Mends(t, c)
  BY <1>1 DEF Mends
<1>8. AsksWell(r)'
  BY <1>1, <1>4 DEF AsksWell
<1>9. ReadWell(r)'
  BY <1>1, <1>4, <1>6 DEF ReadWell, T!There
<1>10. \A c \in T!Auto : Owes(r, c)'
  BY <1>1, <1>4, <1>6 DEF Owes, Evaluates
<1> QED
  BY <1>1, <1>4, <1>5, <1>6, <1>7, <1>8, <1>9, <1>10, StepCurates

\* It reads the links of one category, as they were then.
LEMMA ReadLinksCurates ==
    ASSUME CurateInv, NEW r \in Reqs, NEW c \in Categories, T!ReadLinks(r, c)
    PROVE  CurateInv'
<1> DEFINE work == [pc |-> "add", autos |-> curator[r].autos, read |-> curator[r].read,
                    cat |-> c, held |-> {s \in Tagged : <<s, c>> \in link}]
<1>1. /\ curator[r].pc = "links" /\ c \in curator[r].autos
      /\ curator' = [curator EXCEPT ![r] = work]
      /\ UNCHANGED <<words, category, link, curators, unseen>>
      /\ work.pc = "add" /\ work.autos = curator[r].autos /\ work.read = curator[r].read
      /\ work.cat = c /\ work.held = {s \in Tagged : <<s, c>> \in link}
  BY DEF T!ReadLinks
<1>2. CurateTypes /\ OverlapKnown
  BY DEF CurateInv
<1>3. curator[r] \in LinksReq /\ ReadWell(r)
  BY <1>1, <1>2, CuratorIs DEF CurateInv, Evaluates
<1>4. work \in LinkReq
  BY <1>3 DEF LinksReq, LinkReq
<1> HIDE DEF work
<1>5. /\ OverlapKnown' /\ curator'[r] = work
      /\ \A q \in Reqs \ {r} : curator'[q] = curator[q]
      /\ \A q \in Reqs \ {r} : q \in T!Busy => q \in curators'
  BY <1>1, <1>2, GoOnKnown
<1>6. CurateTypes'
  BY <1>1, <1>2, <1>4, CuratorTyped DEF CurateTypes
<1>7. LinksThere' /\ T!Auto' = T!Auto
  BY <1>1 DEF CurateInv, LinksThere, T!There, T!Auto
<1>8. \A t \in Tagged, d \in T!Auto : Mends(t, d)
  BY <1>1 DEF Mends
<1>9. AsksWell(r)'
  BY <1>1, <1>5 DEF AsksWell
<1>10. ReadWell(r)'
  <2>1. /\ curator'[r].autos \subseteq T!Auto'
        /\ \A s \in Tagged : curator'[r].read[s].st = "there" => T!There(s)'
        /\ \A s \in Tagged : Sees(r, s)' => curator'[r].read[s] = words'[s]
    BY <1>1, <1>3, <1>5, <1>7 DEF ReadWell, Sees, T!There
  <2>2. r \notin curators' =>
           \A s \in Tagged, d \in T!Auto' \ curator'[r].autos : PairRight(s, d)'
    BY <1>1, <1>3, <1>5, <1>7 DEF ReadWell, PairRight, Fits, T!There
  <2>3. /\ curator'[r].cat \in curator'[r].autos
        /\ \A s \in Tagged : s \in curator'[r].held <=> <<s, curator'[r].cat>> \in link'
        /\ curator'[r].pc = "add"
    BY <1>1, <1>5
  <2> QED
    BY <2>1, <2>2, <2>3 DEF ReadWell
<1>11. \A d \in T!Auto : Owes(r, d) => Owes(r, d)'
  BY <1>1, <1>5 DEF Owes, Evaluates
<1> QED
  BY <1>1, <1>5, <1>6, <1>7, <1>8, <1>9, <1>10, <1>11, StepCurates

\* What a commit makes of the links: the product's own are seen to, the others stay.
LEMMA CommitLinks ==
    ASSUME CurateInv, NEW r \in Reqs, T!CommitProduct(r)
    PROVE  LET s == curator[r].sku IN
           /\ curator[r] \in CommitReq
           /\ link' \subseteq Tagged \X Categories
           /\ \A l \in link' : l[1] # s => l \in link
           /\ \A l \in link' : category[l[2]] # T!NoCategory
           /\ \A t \in Tagged \ {s}, c \in Categories : <<t, c>> \in link' <=> <<t, c>> \in link
           /\ \A c \in curator[r].autos :
                 <<s, c>> \in link' <=> T!Matches(curator[r].words, category[c].rule)
<1> DEFINE s == curator[r].sku
           chosen == curator[r].chosen
           autos == curator[r].autos
           said == curator[r].words
           kept == IF chosen = {} THEN link ELSE T!WithChosen(s, chosen, link)
<1>1. /\ curator[r].pc = "commit"
      /\ link' = T!EvaluatedAuto(s, said, autos, kept)
  BY DEF T!CommitProduct
<1>2. CurateTypes /\ LinksThere /\ AsksWell(r)
  BY DEF CurateInv
<1>3. curator[r] \in CommitReq
  BY <1>1, <1>2, CuratorIs
<1>4. s \in Tagged /\ chosen \subseteq Categories /\ autos \subseteq Categories
  BY <1>3 DEF CommitReq
<1>5. link \subseteq Tagged \X Categories
  BY <1>2 DEF CurateTypes
<1>6. /\ \A c \in chosen : category[c] # T!NoCategory
      /\ \A c \in autos : category[c] # T!NoCategory
  BY <1>1, <1>2 DEF AsksWell, T!Auto, T!NoCategory
<1> HIDE DEF s, chosen, autos, said, kept
<1>7. /\ kept \subseteq Tagged \X Categories
      /\ \A t \in Tagged \ {s}, c \in Categories : <<t, c>> \in kept <=> <<t, c>> \in link
      /\ \A l \in kept : category[l[2]] # T!NoCategory
  <2>1. CASE chosen = {}
    BY <1>2, <1>5, <2>1 DEF kept, LinksThere
  <2>2. CASE chosen # {}
    <3>1. kept = {l \in link : l[1] = s => category[l[2]].type # "manual"}
                    \union {<<s, c>> : c \in chosen}
      BY <2>2 DEF kept, T!WithChosen
    <3>2. \A l \in kept : l \in link \/ \E c \in chosen : l = <<s, c>>
      BY <3>1
    <3>3. kept \subseteq Tagged \X Categories /\ \A l \in kept : category[l[2]] # T!NoCategory
      BY <1>2, <1>4, <1>5, <1>6, <3>2 DEF LinksThere
    <3>4. \A t \in Tagged \ {s}, c \in Categories : <<t, c>> \in kept <=> <<t, c>> \in link
      BY <3>1
    <3> QED
      BY <3>3, <3>4
  <2> QED
    BY <2>1, <2>2
<1>8. link' = {l \in kept : l[1] = s /\ l[2] \in autos => T!Matches(said, category[l[2]].rule)}
                \union {<<s, c>> : c \in {a \in autos : T!Matches(said, category[a].rule)}}
  BY <1>1 DEF T!EvaluatedAuto
<1>9. \A l \in link' : l \in kept \/ \E c \in autos : l = <<s, c>>
  BY <1>8
<1>10. link' \subseteq Tagged \X Categories /\ \A l \in link' : category[l[2]] # T!NoCategory
  BY <1>4, <1>6, <1>7, <1>9
<1>11. \A t \in Tagged \ {s}, c \in Categories : <<t, c>> \in link' <=> <<t, c>> \in link
  BY <1>7, <1>8
<1>12. ASSUME NEW c \in autos
       PROVE  <<s, c>> \in link' <=> T!Matches(said, category[c].rule)
  <2>1. <<s, c>>[1] = s /\ <<s, c>>[2] = c
    OBVIOUS
  <2>2. T!Matches(said, category[c].rule) => <<s, c>> \in link'
    BY <1>8
  <2>3. ASSUME <<s, c>> \in link' PROVE T!Matches(said, category[c].rule)
    <3>1. \/ <<s, c>> \in {l \in kept : l[1] = s /\ l[2] \in autos
                                          => T!Matches(said, category[l[2]].rule)}
          \/ \E d \in {a \in autos : T!Matches(said, category[a].rule)} : <<s, c>> = <<s, d>>
      BY <1>8, <2>3
    <3>2. CASE <<s, c>> \in {l \in kept : l[1] = s /\ l[2] \in autos
                                            => T!Matches(said, category[l[2]].rule)}
      BY <2>1, <3>2
    <3>3. CASE \E d \in {a \in autos : T!Matches(said, category[a].rule)} : <<s, c>> = <<s, d>>
      BY <3>3
    <3> QED
      BY <3>1, <3>2, <3>3
  <2> QED
    BY <2>2, <2>3
<1>13. \A l \in link' : l[1] # s => l \in link
  <2> SUFFICES ASSUME NEW l \in link', l[1] # s PROVE l \in link
    OBVIOUS
  <2>1. PICK t \in Tagged, c \in Categories : l = <<t, c>>
    BY <1>10
  <2> QED
    BY <1>11, <2>1
<1> QED
  BY <1>3, <1>10, <1>11, <1>12, <1>13 DEF s, chosen, autos, said

\* An edit's end evaluates the product against every automatic category.
LEMMA CommitProductCurates ==
    ASSUME CurateInv, NEW r \in Reqs, T!CommitProduct(r)
    PROVE  CurateInv'
<1> SUFFICES ASSUME NEW s, s = curator[r].sku, NEW said, said = curator[r].words
             PROVE  CurateInv'
  OBVIOUS
<1>1. /\ curator[r].pc = "commit" /\ T!Finish(r) /\ category' = category
      /\ words' = [words EXCEPT ![s] = [st |-> "there", words |-> said]]
      /\ unseen' = IF r \in curators THEN unseen \union {s} ELSE unseen \ {s}
  BY DEF T!CommitProduct
<1>2. CurateTypes /\ OverlapKnown /\ AsksWell(r) /\ LinksThere
  BY DEF CurateInv
<1>3. /\ curator[r] \in CommitReq
      /\ link' \subseteq Tagged \X Categories
      /\ \A l \in link' : l[1] # s => l \in link
      /\ \A l \in link' : category[l[2]] # T!NoCategory
      /\ \A t \in Tagged \ {s}, c \in Categories : <<t, c>> \in link' <=> <<t, c>> \in link
      /\ \A c \in curator[r].autos :
                 <<s, c>> \in link' <=> T!Matches(said, category[c].rule)
  BY CommitLinks
<1>4. s \in Tagged /\ [st |-> "there", words |-> said] \in ProductRow
  BY <1>3 DEF CommitReq, ProductRow
<1>5. words \in [Tagged -> ProductRow]
  BY <1>2 DEF CurateTypes
<1>6. /\ words' \in [Tagged -> ProductRow] /\ words'[s] = [st |-> "there", words |-> said]
      /\ \A t \in Tagged \ {s} : words'[t] = words[t]
  BY <1>1, <1>4, <1>5
<1>7. /\ OverlapKnown' /\ curator'[r] = T!Idle /\ curators' = curators \ {r}
      /\ \A q \in Reqs \ {r} : curator'[q] = curator[q]
      /\ \A q \in Reqs \ {r} : q \in T!Busy => q \in curators' /\ r \in curators
      /\ r \notin curators => T!Busy = {r}
  BY <1>1, <1>2, FinishKnown
<1>8. CurateTypes'
  <2>1. curator' = [curator EXCEPT ![r] = T!Idle]
    BY <1>1 DEF T!Finish
  <2> QED
    BY <1>1, <1>2, <1>3, <1>6, <2>1, CuratorTyped DEF CurateTypes
<1>9. T!There(s)' /\ \A t \in Tagged : T!There(t) => T!There(t)'
  BY <1>6 DEF T!There
<1>10. LinksThere'
  <2> SUFFICES ASSUME NEW l \in link' PROVE T!There(l[1])' /\ category'[l[2]] # T!NoCategory
    BY DEF LinksThere
  <2>1. l[1] \in Tagged /\ category'[l[2]] # T!NoCategory
    BY <1>1, <1>3
  <2>2. CASE l[1] = s
    BY <1>9, <2>1, <2>2
  <2>3. CASE l[1] # s
    <3>1. T!There(l[1])
      BY <1>2, <1>3, <2>3 DEF LinksThere
    <3> QED
      BY <1>9, <2>1, <3>1
  <2> QED
    BY <2>2, <2>3
<1>11. T!Auto' = T!Auto /\ T!Auto \subseteq Categories
  BY <1>1 DEF T!Auto
<1>12. curator'[r].pc = "idle"
  BY <1>7 DEF T!Idle
<1>13. AsksWell(r)' /\ ~Evaluates(r)'
  BY <1>12 DEF AsksWell, Evaluates
<1>14. CASE r \notin curators
  <2>1. \A q \in Reqs \ {r} : (Evaluates(q)' => ReadWell(q)') /\ AsksWell(q)'
    BY <1>2, <1>7, <1>14, OthersIdle
  <2>2. curator[r].autos = T!Auto
    BY <1>1, <1>2, <1>14 DEF AsksWell
  <2>3. \A q \in Reqs, c \in Categories : ~Owes(q, c)
    <3>1. \A q \in Reqs \ {r} : curator[q].pc = "idle"
      BY <1>2, <1>7, <1>14, CuratorIs
    <3> QED
      BY <1>1, <3>1 DEF Owes, Evaluates
  <2>4. ASSUME NEW t \in Tagged \ unseen', NEW c \in T!Auto PROVE PairRight(t, c)'
    <3>1. CASE t = s
      <4>1. <<s, c>> \in link' <=> T!Matches(said, category[c].rule)
        BY <1>3, <2>2
      <4> QED
        BY <1>1, <1>6, <1>9, <3>1, <4>1 DEF PairRight, Fits
    <3>2. CASE t # s
      <4>1. t \notin unseen
        BY <1>1, <1>14, <3>2
      <4>2. PairRight(t, c)
        BY <1>11, <2>3, <4>1 DEF CurateInv, PairsRight
      <4>3. <<t, c>> \in link' <=> <<t, c>> \in link
        BY <1>3, <1>11, <3>2
      <4>4. Fits(t, c)' <=> Fits(t, c)
        BY <1>1, <1>6, <3>2 DEF Fits, T!There
      <4> QED
        BY <4>2, <4>3, <4>4 DEF PairRight
    <3> QED
      BY <3>1, <3>2
  <2>5. PairsRight'
    BY <1>11, <2>4 DEF PairsRight
  <2> QED
    BY <1>7, <1>8, <1>10, <1>13, <2>1, <2>5 DEF CurateInv
<1>15. CASE r \in curators
  <2>1. \A t \in Tagged \ unseen' : t \notin unseen /\ words'[t] = words[t] /\ t # s
    BY <1>1, <1>6, <1>15
  <2>2. \A t \in Tagged \ unseen', c \in T!Auto : Mends(t, c)
    BY <1>3, <1>11, <2>1 DEF Mends
  <2>3. \A q \in Reqs \ {r} : (Evaluates(q)' => ReadWell(q)') /\ AsksWell(q)'
    <3>1. Reqs \ {r} \in SUBSET Reqs
      OBVIOUS
    <3> QED
      BY <1>1, <1>7, <1>9, <1>11, <2>1, <2>2, <3>1, OthersStay
  <2>4. PairsRight'
    <3>1. \A t \in Tagged \ unseen', c \in T!Auto, q \in Reqs : Owes(q, c) => Owes(q, c)'
      BY <1>1, <1>7 DEF Owes, Evaluates
    <3> QED
      BY <1>1, <1>11, <2>1, <2>2, <3>1, PairsStay DEF CurateInv
  <2> QED
    BY <1>7, <1>8, <1>10, <1>13, <2>3, <2>4 DEF CurateInv
<1> QED
  BY <1>14, <1>15

\* What an evaluation finds to fit fits, where it sees the product.
LEMMA FittingFits ==
    ASSUME CurateInv, NEW r \in Reqs, curator[r].pc \in {"add", "remove"}
    PROVE  /\ curator[r] \in LinkReq /\ ReadWell(r)
           /\ curator[r].cat \in T!Auto /\ curator[r].cat \in curator[r].autos
           /\ T!Fitting(r) \subseteq Tagged /\ \A s \in T!Fitting(r) : T!There(s)
           /\ \A s \in Tagged : Sees(r, s) => (s \in T!Fitting(r) <=> Fits(s, curator[r].cat))
<1>1. CurateTypes /\ Evaluates(r)
  BY DEF CurateInv, Evaluates
<1>2. curator[r] \in LinkReq /\ ReadWell(r)
  BY <1>1, CuratorIs DEF CurateInv
<1>3. curator[r].cat \in T!Auto /\ curator[r].cat \in curator[r].autos
  BY <1>2 DEF ReadWell
<1>4. T!Fitting(r) = {s \in Tagged : /\ curator[r].read[s].st = "there"
                                     /\ T!Matches(curator[r].read[s].words,
                                                  category[curator[r].cat].rule)}
  BY DEF T!Fitting
<1>5. T!Fitting(r) \subseteq Tagged /\ \A s \in T!Fitting(r) : T!There(s)
  BY <1>2, <1>4 DEF ReadWell
<1>6. ASSUME NEW s \in Tagged, Sees(r, s)
      PROVE  s \in T!Fitting(r) <=> Fits(s, curator[r].cat)
  <2>1. curator[r].read[s] = words[s]
    BY <1>2, <1>6 DEF ReadWell
  <2> QED
    BY <1>4, <2>1 DEF Fits, T!There
<1> QED
  BY <1>2, <1>3, <1>5, <1>6

\* An evaluation adds the links that were missing when it read.
LEMMA AddLinksCurates ==
    ASSUME CurateInv, NEW r \in Reqs, T!AddLinks(r)
    PROVE  CurateInv'
<1> SUFFICES ASSUME NEW cat, cat = curator[r].cat, NEW held, held = curator[r].held
             PROVE  CurateInv'
  OBVIOUS
<1> DEFINE work == [curator[r] EXCEPT !.pc = "remove"]
           fitting == T!Fitting(r)
<1>1. /\ curator[r].pc = "add" /\ link' = link \union {<<s, cat>> : s \in fitting \ held}
      /\ curator' = [curator EXCEPT ![r] = work]
      /\ UNCHANGED <<words, category, curators, unseen>>
  BY DEF T!AddLinks
<1>2. CurateTypes /\ OverlapKnown /\ LinksThere
  BY DEF CurateInv
<1>3. /\ curator[r] \in LinkReq /\ ReadWell(r) /\ cat \in T!Auto /\ cat \in curator[r].autos
      /\ fitting \subseteq Tagged /\ \A s \in fitting : T!There(s)
      /\ \A s \in Tagged : Sees(r, s) => (s \in fitting <=> Fits(s, cat))
  BY <1>1, FittingFits
<1>4. work \in LinkReq
  BY <1>3 DEF LinkReq
<1>5. /\ work.pc = "remove" /\ work.autos = curator[r].autos /\ work.read = curator[r].read
      /\ work.cat = cat /\ work.held = held
  BY <1>3 DEF LinkReq
<1> HIDE DEF work, fitting
<1>6. /\ OverlapKnown' /\ curator'[r] = work
      /\ \A q \in Reqs \ {r} : curator'[q] = curator[q]
      /\ \A q \in Reqs \ {r} : q \in T!Busy => q \in curators'
  BY <1>1, <1>2, <1>5, GoOnKnown
<1>7. T!Auto \subseteq Categories
  BY DEF T!Auto
<1>8. link' \subseteq Tagged \X Categories
  BY <1>1, <1>2, <1>3, <1>7 DEF CurateTypes
<1>9. CurateTypes'
  BY <1>1, <1>2, <1>4, <1>8, CuratorTyped DEF CurateTypes
<1>10. LinksThere' /\ T!Auto' = T!Auto
  <2>1. category[cat] # T!NoCategory
    BY <1>3 DEF T!Auto, T!NoCategory
  <2>2. \A l \in link' : T!There(l[1]) /\ category[l[2]] # T!NoCategory
    BY <1>1, <1>2, <1>3, <2>1 DEF LinksThere
  <2> QED
    BY <1>1, <2>2 DEF LinksThere, T!There, T!Auto
<1>11. \A s \in Tagged, c \in T!Auto :
          <<s, c>> \in link' <=> <<s, c>> \in link \/ (c = cat /\ s \in fitting \ held)
  BY <1>1
<1>12. \A s \in Tagged, c \in T!Auto : Sees(r, s) => Mends(s, c)
  BY <1>3, <1>11 DEF Mends
<1>13. \A s \in Tagged \ unseen', c \in T!Auto : Mends(s, c)
  BY <1>1, <1>12 DEF Sees
<1>14. AsksWell(r)'
  BY <1>5, <1>6 DEF AsksWell
<1>15. ReadWell(r)'
  <2>1. /\ curator'[r].autos \subseteq T!Auto'
        /\ \A s \in Tagged : curator'[r].read[s].st = "there" => T!There(s)'
        /\ \A s \in Tagged : Sees(r, s)' => curator'[r].read[s] = words'[s]
        /\ curator'[r].cat \in curator'[r].autos
    BY <1>1, <1>3, <1>5, <1>6, <1>10 DEF ReadWell, Sees, T!There
  <2>2. r \notin curators' =>
           \A s \in Tagged, d \in T!Auto' \ curator'[r].autos : PairRight(s, d)'
    <3> SUFFICES ASSUME r \notin curators, NEW s \in Tagged,
                        NEW d \in T!Auto \ curator[r].autos
                 PROVE  PairRight(s, d)'
      BY <1>1, <1>5, <1>6, <1>10
    <3>1. PairRight(s, d) /\ d # cat
      BY <1>3 DEF ReadWell
    <3>2. <<s, d>> \in link' <=> <<s, d>> \in link
      BY <1>11, <3>1
    <3> QED
      BY <1>1, <3>1, <3>2 DEF PairRight, Fits, T!There
  <2>3. ASSUME NEW s \in Tagged, Sees(r, s)'
        PROVE  /\ Fits(s, cat)' => <<s, cat>> \in link'
               /\ ~Fits(s, cat)' /\ s \notin held => <<s, cat>> \notin link'
    <3>1. Sees(r, s) /\ (Fits(s, cat)' <=> Fits(s, cat))
      BY <1>1, <2>3 DEF Sees, Fits, T!There
    <3>2. /\ Fits(s, cat) /\ s \in held => <<s, cat>> \in link
          /\ ~Fits(s, cat) /\ s \notin held => <<s, cat>> \notin link
      BY <1>1, <1>3, <3>1 DEF ReadWell
    <3> QED
      BY <1>3, <1>11, <3>1, <3>2
  <2>4. curator'[r].pc = "remove" /\ curator'[r].cat = cat /\ curator'[r].held = held
    BY <1>5, <1>6
  <2> QED
    BY <2>1, <2>2, <2>3, <2>4 DEF ReadWell
<1>16. \A d \in T!Auto : Owes(r, d) => Owes(r, d)'
  BY <1>1, <1>5, <1>6 DEF Owes, Evaluates
<1> QED
  BY <1>1, <1>6, <1>9, <1>10, <1>13, <1>14, <1>15, <1>16, StepCurates

\* It removes those that no longer fit.
LEMMA RemoveLinksCurates ==
    ASSUME CurateInv, NEW r \in Reqs, T!RemoveLinks(r)
    PROVE  CurateInv'
<1> SUFFICES ASSUME NEW cat, cat = curator[r].cat, NEW held, held = curator[r].held
             PROVE  CurateInv'
  OBVIOUS
<1> DEFINE work == [pc |-> "links", autos |-> curator[r].autos \ {cat},
                    read |-> curator[r].read]
           fitting == T!Fitting(r)
<1>1. /\ curator[r].pc = "remove" /\ link' = link \ {<<s, cat>> : s \in held \ fitting}
      /\ curator' = [curator EXCEPT ![r] = work]
      /\ UNCHANGED <<words, category, curators, unseen>>
  BY DEF T!RemoveLinks
<1>2. CurateTypes /\ OverlapKnown /\ LinksThere
  BY DEF CurateInv
<1>3. /\ curator[r] \in LinkReq /\ ReadWell(r) /\ cat \in T!Auto /\ cat \in curator[r].autos
      /\ fitting \subseteq Tagged /\ \A s \in fitting : T!There(s)
      /\ \A s \in Tagged : Sees(r, s) => (s \in fitting <=> Fits(s, cat))
  BY <1>1, FittingFits
<1>4. work \in LinksReq
  BY <1>3 DEF LinkReq, LinksReq
<1>5. /\ work.pc = "links" /\ work.autos = curator[r].autos \ {cat}
      /\ work.read = curator[r].read
  OBVIOUS
<1> HIDE DEF work, fitting
<1>6. /\ OverlapKnown' /\ curator'[r] = work
      /\ \A q \in Reqs \ {r} : curator'[q] = curator[q]
      /\ \A q \in Reqs \ {r} : q \in T!Busy => q \in curators'
  BY <1>1, <1>2, <1>5, GoOnKnown
<1>7. CurateTypes'
  BY <1>1, <1>2, <1>4, CuratorTyped DEF CurateTypes
<1>8. LinksThere' /\ T!Auto' = T!Auto
  BY <1>1, <1>2 DEF LinksThere, T!There, T!Auto
<1>9. \A s \in Tagged, c \in T!Auto :
          <<s, c>> \in link' <=> <<s, c>> \in link /\ ~(c = cat /\ s \in held \ fitting)
  BY <1>1
<1>10. \A s \in Tagged, c \in T!Auto : Sees(r, s) => Mends(s, c)
  BY <1>3, <1>9 DEF Mends
<1>11. \A s \in Tagged \ unseen', c \in T!Auto : Mends(s, c)
  BY <1>1, <1>10 DEF Sees
<1>12. AsksWell(r)'
  BY <1>5, <1>6 DEF AsksWell
<1>13. ASSUME NEW s \in Tagged, Sees(r, s) PROVE PairRight(s, cat)'
  <2>1. Fits(s, cat)' <=> Fits(s, cat)
    BY <1>1 DEF Fits, T!There
  <2>2. /\ Fits(s, cat) => <<s, cat>> \in link
        /\ ~Fits(s, cat) /\ s \notin held => <<s, cat>> \notin link
    BY <1>1, <1>3, <1>13 DEF ReadWell
  <2> QED
    BY <1>3, <1>9, <1>13, <2>1, <2>2 DEF PairRight
<1>14. ReadWell(r)'
  <2>1. /\ curator'[r].autos \subseteq T!Auto'
        /\ \A s \in Tagged : curator'[r].read[s].st = "there" => T!There(s)'
        /\ \A s \in Tagged : Sees(r, s)' => curator'[r].read[s] = words'[s]
    BY <1>1, <1>3, <1>5, <1>6, <1>8 DEF ReadWell, Sees, T!There
  <2>2. r \notin curators' =>
           \A s \in Tagged, d \in T!Auto' \ curator'[r].autos : PairRight(s, d)'
    <3> SUFFICES ASSUME r \notin curators, NEW s \in Tagged, NEW d \in T!Auto,
                        d \notin curator[r].autos \/ d = cat
                 PROVE  PairRight(s, d)'
      BY <1>1, <1>5, <1>6, <1>8
    <3>1. CASE d = cat
      BY <1>13, <3>1 DEF Sees
    <3>2. CASE d # cat
      <4>1. PairRight(s, d)
        BY <1>3, <3>2 DEF ReadWell
      <4>2. <<s, d>> \in link' <=> <<s, d>> \in link
        BY <1>9, <3>2
      <4> QED
        BY <1>1, <4>1, <4>2 DEF PairRight, Fits, T!There
    <3> QED
      BY <3>1, <3>2
  <2>3. curator'[r].pc = "links"
    BY <1>5, <1>6
  <2> QED
    BY <2>1, <2>2, <2>3 DEF ReadWell
<1>15. \A s \in Tagged \ unseen', d \in T!Auto : Owes(r, d) => Owes(r, d)' \/ PairRight(s, d)'
  <2> SUFFICES ASSUME NEW s \in Tagged \ unseen', NEW d \in T!Auto, Owes(r, d)
               PROVE  Owes(r, d)' \/ PairRight(s, d)'
    OBVIOUS
  <2>1. CASE d = cat
    BY <1>1, <1>13, <2>1 DEF Sees
  <2>2. CASE d # cat
    BY <1>1, <1>5, <1>6, <2>2 DEF Owes, Evaluates
  <2> QED
    BY <2>1, <2>2
<1> QED
  BY <1>1, <1>6, <1>7, <1>8, <1>11, <1>12, <1>14, <1>15, StepCurates

\* What it has looked at fits, unless something came between.
LEMMA EndEvaluationCurates ==
    ASSUME CurateInv, NEW r \in Reqs, T!EndEvaluation(r)
    PROVE  CurateInv'
<1>1. /\ curator[r].pc = "links" /\ curator[r].autos = {} /\ T!Finish(r)
      /\ UNCHANGED <<words, category, link>>
      /\ unseen' = IF r \in curators THEN unseen ELSE {}
  BY DEF T!EndEvaluation
<1>2. CurateTypes /\ OverlapKnown /\ LinksThere
  BY DEF CurateInv
<1>3. ReadWell(r)
  BY <1>1 DEF CurateInv, Evaluates
<1>4. /\ OverlapKnown' /\ curator'[r] = T!Idle /\ curators' = curators \ {r}
      /\ \A q \in Reqs \ {r} : curator'[q] = curator[q]
      /\ \A q \in Reqs \ {r} : q \in T!Busy => q \in curators' /\ r \in curators
      /\ r \notin curators => T!Busy = {r}
  BY <1>1, <1>2, FinishKnown
<1>5. CurateTypes'
  <2>1. curator' = [curator EXCEPT ![r] = T!Idle]
    BY <1>1 DEF T!Finish
  <2> QED
    BY <1>1, <1>2, <2>1, CuratorTyped DEF CurateTypes
<1>6. LinksThere' /\ T!Auto' = T!Auto
  BY <1>1, <1>2 DEF LinksThere, T!There, T!Auto
<1>7. curator'[r].pc = "idle"
  BY <1>4 DEF T!Idle
<1>8. AsksWell(r)' /\ ~Evaluates(r)'
  BY <1>7 DEF AsksWell, Evaluates
<1>9. CASE r \notin curators
  <2>1. \A q \in Reqs \ {r} : (Evaluates(q)' => ReadWell(q)') /\ AsksWell(q)'
    BY <1>2, <1>4, <1>9, OthersIdle
  <2>2. \A s \in Tagged, c \in T!Auto : PairRight(s, c)
    BY <1>1, <1>3, <1>9 DEF ReadWell
  <2>3. PairsRight'
    BY <1>1, <1>6, <2>2 DEF PairsRight, PairRight, Fits, T!There
  <2> QED
    BY <1>4, <1>5, <1>6, <1>8, <2>1, <2>3 DEF CurateInv
<1>10. CASE r \in curators
  <2>1. \A s \in Tagged, c \in T!Auto : Mends(s, c)
    BY <1>1 DEF Mends
  <2>2. \A c \in T!Auto : ~Owes(r, c)
    BY <1>1 DEF Owes
  <2> QED
    BY <1>1, <1>4, <1>5, <1>6, <1>8, <1>10, <2>1, <2>2, StepCurates
<1> QED
  BY <1>9, <1>10

\* An edit that fails leaves nothing; what an evaluation leaves undone is remembered.
LEMMA FailCurates ==
    ASSUME CurateInv, NEW r \in Reqs, T!Fail(r)
    PROVE  CurateInv'
<1>1. /\ curator[r] # T!Idle /\ T!Finish(r) /\ UNCHANGED <<words, category, link>>
      /\ unseen' = IF curator[r].pc \in {"write", "commit"} THEN unseen ELSE Tagged
  BY DEF T!Fail
<1>2. CurateTypes /\ OverlapKnown /\ LinksThere
  BY DEF CurateInv
<1>3. curator[r].pc # "idle"
  BY <1>1, <1>2, CuratorIs DEF T!Busy
<1>4. /\ OverlapKnown' /\ curator'[r] = T!Idle
      /\ \A q \in Reqs \ {r} : curator'[q] = curator[q]
      /\ \A q \in Reqs \ {r} : q \in T!Busy => q \in curators'
  BY <1>1, <1>2, <1>3, FinishKnown
<1>5. CurateTypes'
  <2>1. curator' = [curator EXCEPT ![r] = T!Idle]
    BY <1>1 DEF T!Finish
  <2> QED
    BY <1>1, <1>2, <2>1, CuratorTyped DEF CurateTypes
<1>6. LinksThere' /\ T!Auto' = T!Auto
  BY <1>1, <1>2 DEF LinksThere, T!There, T!Auto
<1>7. curator'[r].pc = "idle"
  BY <1>4 DEF T!Idle
<1>8. AsksWell(r)' /\ ~Evaluates(r)'
  BY <1>7 DEF AsksWell, Evaluates
<1>9. \A s \in Tagged, c \in T!Auto : Mends(s, c)
  BY <1>1 DEF Mends
<1>10. (unseen \intersect Tagged) \subseteq unseen'
  BY <1>1
<1>11. \A s \in Tagged \ unseen' : s \notin unseen /\ words'[s] = words[s]
  BY <1>1, <1>10
<1>12. \A q \in Reqs \ {r} : (Evaluates(q)' => ReadWell(q)') /\ AsksWell(q)'
  <2>1. Reqs \ {r} \in SUBSET Reqs
    OBVIOUS
  <2>2. \A s \in Tagged : T!There(s) => T!There(s)'
    BY <1>1 DEF T!There
  <2> QED
    BY <1>1, <1>4, <1>6, <1>9, <1>11, <2>1, <2>2, OthersStay
<1>13. PairsRight'
  <2>1. CASE curator[r].pc \in {"write", "commit"}
    <3>1. \A t \in Tagged \ unseen', c \in T!Auto, q \in Reqs : Owes(q, c) => Owes(q, c)'
      BY <1>4, <2>1 DEF Owes, Evaluates
    <3> QED
      BY <1>1, <1>6, <1>9, <1>11, <3>1, PairsStay DEF CurateInv
  <2>2. CASE curator[r].pc \notin {"write", "commit"}
    BY <1>1, <2>2 DEF PairsRight
  <2> QED
    BY <2>1, <2>2
<1> QED
  BY <1>4, <1>5, <1>6, <1>8, <1>12, <1>13 DEF CurateInv

\* Every step keeps each category at rest as its rules say.
LEMMA CurateStep ==
    ASSUME CurateInv, [T!Next]_(T!vars)
    PROVE  CurateInv'
<1>0. T!CategoriesAssumption
  BY ShopAssumption
<1>1. CASE T!Next
  <2>1. CASE \E s \in Tagged, said \in SUBSET Words :
                \/ T!SyncProduct(s, said)
                \/ \E r \in Reqs, chosen \in SUBSET {c \in Categories : category[c] # T!NoCategory} :
                      T!BeginProduct(r, s, said, chosen)
    BY <2>1, SyncProductCurates, BeginProductCurates
  <2>2. CASE \E r \in Reqs : \/ T!WriteProduct(r) \/ T!CommitProduct(r)
                             \/ T!ReadProducts(r) \/ T!AddLinks(r) \/ T!RemoveLinks(r)
                             \/ T!EndEvaluation(r) \/ T!Fail(r)
    BY <2>2, WriteProductCurates, CommitProductCurates, ReadProductsCurates, AddLinksCurates,
       RemoveLinksCurates, EndEvaluationCurates, FailCurates
  <2>3. CASE \E c \in Categories :
               \/ \E r \in Reqs : \/ T!ReadLinks(r, c)
                                  \/ T!CreateCategory(r, c, "manual", {})
                                  \/ \E rule \in Rules : T!CreateCategory(r, c, "auto", rule)
               \/ \E s \in Tagged : T!AssignProduct(s, c)
    <3>1. {} \in SUBSET Words /\ \A rule \in Rules : rule \in SUBSET Words
      BY <1>0 DEF T!CategoriesAssumption
    <3> QED
      BY <2>3, <3>1, ReadLinksCurates, CreateCategoryCurates, AssignProductCurates
  <2> QED
    BY <1>1, <2>1, <2>2, <2>3 DEF T!Next
<1>2. CASE UNCHANGED T!vars
  <2>1. UNCHANGED <<words, category, link, curator, curators, unseen>>
    BY <1>2 DEF T!vars
  <2>2. CurateTypes' /\ LinksThere'
    BY <2>1 DEF CurateInv, CurateTypes, LinksThere, T!There
  <2>3. T!Auto' = T!Auto
    BY <2>1 DEF T!Auto
  <2>4. \A s \in Tagged, c \in T!Auto : Mends(s, c)
    BY <2>1 DEF Mends
  <2> QED
    BY <2>1, <2>2, <2>3, <2>4, QuietStays
<1> QED
  BY <1>1, <1>2

\* Categories alone: their types, and that they follow their rules.
LEMMA CategoriesSound == T!Spec => [](T!TypeOK /\ T!CategoriesFollowRules)
<1>1. CurateInv => T!TypeOK
  BY DEF CurateInv, CurateTypes, ProductRow, LinksThere, OverlapKnown, T!TypeOK
<1>2. CurateInv => T!CategoriesFollowRules
  <2> SUFFICES ASSUME CurateInv, T!Busy = {}, NEW s \in Tagged \ unseen, NEW c \in T!Auto
               PROVE  PairRight(s, c)
    BY DEF T!CategoriesFollowRules, PairRight, Fits
  <2>1. \A r \in Reqs : curator[r].pc = "idle"
    BY CuratorIs DEF CurateInv
  <2>2. \A r \in Reqs : ~Owes(r, c)
    BY <2>1 DEF Owes, Evaluates
  <2> QED
    BY <2>2 DEF CurateInv, PairsRight
<1> QED
  BY <1>1, <1>2, CurateInit, CurateStep, PTL DEF T!Spec

---------------------------------------------------------------------------
(* Customers and their groups (Customers).                                 *)

\* The customers fare in the shop as they do by themselves.
LEMMA CustomersAsAlone == Spec => C!Spec
<1>1. Init => C!Init
  BY DEF Init
<1>2. [Next]_vars => [C!Next]_(C!vars)
  BY DEF Next, vars, cVars, C!vars
<1> QED
  BY <1>1, <1>2, PTL DEF Spec, C!Spec

CustomerRow ==
    [st : {"none", "there", "gone"},
     phone : Phones \union {C!NoPhone} \union {p.phone : p \in Profiles},
     gender : C!Genders \union {C!None},
     places : {{}} \union {p.places : p \in Profiles}, state : {"enabled", "disabled"}]

GroupRow == [st : {"none", "there", "gone"}, type : {"manual", "auto"},
             rules : RuleSets \union {{}}, any : BOOLEAN]

\* The requests: a customer that is saved and then seen to in the groups, one that is
\* removed, a group that is saved, one that is looked at, and the difference it makes.
SaveReq == [pc : {"save", "read", "sync"}, c : Customers, new : BOOLEAN,
            groups : SUBSET Groups, data : Profiles,
            work : SUBSET [g : Groups, rules : RuleSets \union {{}}, any : BOOLEAN]]
RemoveReq == [pc : {"disable", "delete"}, c : Customers]
GroupReq == [pc : {"group", "recalculate"}, g : Groups, data : C!GroupData]
LookReq == [pc : {"recalculate"}, g : Groups]
ReplaceReq == [pc : {"replace"}, g : Groups, add : SUBSET Customers, remove : SUBSET Customers]
SaverReq == {C!Idle} \union SaveReq \union RemoveReq \union GroupReq \union LookReq
              \union ReplaceReq

CustomerTypes ==
    /\ customer \in [Customers -> CustomerRow]
    /\ group \in [Groups -> GroupRow]
    /\ saver \in [Savers -> SaverReq]
    /\ buying \subseteq Customers /\ members \subseteq Customers \X Groups
    /\ behind \subseteq Customers \X Groups /\ savers \in SaversOverlap

\* Members, customers with orders, and rules are those of rows that are there.
RowsThere ==
    /\ \A g \in Groups : C!Present(g) => group[g].rules \in RuleSets
    /\ \A m \in members : C!There(m[1]) /\ C!Present(m[2])
    /\ \A c \in buying : C!There(c)

\* A customer that is in a group just if its rules say so.
Belongs(c, g) == C!Matches(customer[c], group[g].rules, group[g].any)
RightIn(c, g) == <<c, g>> \in members <=> Belongs(c, g)

Replacing(q, g) == saver[q].pc = "replace" /\ saver[q].g = g

\* What a recalculation is about to write makes the customer's membership right.
PlannedRight(q, c, g) ==
    /\ c \in saver[q].add <=> Belongs(c, g) /\ <<c, g>> \notin members
    /\ c \in saver[q].remove <=> ~Belongs(c, g) /\ <<c, g>> \in members

OneAtATime ==
    \A p, q \in Savers : saver[p].pc # "idle" /\ saver[q].pc # "idle" => p = q

MembersRight ==
    \A g \in Groups, c \in Customers :
        C!Auto(g) /\ <<c, g>> \notin behind /\ (\A q \in Savers : ~Replacing(q, g))
            => RightIn(c, g)

PlansRight ==
    \A q \in Savers, g \in Groups, c \in Customers :
        Replacing(q, g) /\ C!Auto(g) /\ <<c, g>> \notin behind => PlannedRight(q, c, g)

\* The rules that a save of a customer goes through are the groups' own still.
RulesKnown ==
    \A q \in Savers : saver[q].pc = "sync" =>
        \A w \in saver[q].work :
            \/ group[w.g].st = "gone"
            \/ group[w.g].rules = w.rules /\ group[w.g].any = w.any

MembershipInv ==
    /\ CustomerTypes /\ RowsThere
    /\ ~savers => OneAtATime /\ MembersRight /\ PlansRight /\ RulesKnown

\* What the place a request is at says of it.
LEMMA SaverIs ==
    ASSUME CustomerTypes, NEW q \in Savers
    PROVE  /\ saver[q].pc = "idle" <=> saver[q] = C!Idle
           /\ saver[q].pc \in {"save", "read", "sync"} => saver[q] \in SaveReq
           /\ saver[q].pc \in {"disable", "delete"} => saver[q] \in RemoveReq
           /\ saver[q].pc = "group" => saver[q] \in GroupReq
           /\ saver[q].pc = "recalculate" => saver[q] \in GroupReq \union LookReq
           /\ saver[q].pc = "replace" => saver[q] \in ReplaceReq
<1>1. saver[q] \in {C!Idle} \union SaveReq \union RemoveReq \union GroupReq \union LookReq
                     \union ReplaceReq
  BY DEF CustomerTypes, SaverReq
<1>2. saver[q].pc = "idle" <=> saver[q] = C!Idle
  BY <1>1 DEF C!Idle, SaveReq, RemoveReq, GroupReq, LookReq, ReplaceReq
<1>3. /\ saver[q].pc \in {"save", "read", "sync"} => saver[q] \in SaveReq
      /\ saver[q].pc \in {"disable", "delete"} => saver[q] \in RemoveReq
  BY <1>1 DEF C!Idle, SaveReq, RemoveReq, GroupReq, LookReq, ReplaceReq
<1>4. /\ saver[q].pc = "group" => saver[q] \in GroupReq
      /\ saver[q].pc = "recalculate" => saver[q] \in GroupReq \union LookReq
  BY <1>1 DEF C!Idle, SaveReq, RemoveReq, GroupReq, LookReq, ReplaceReq
<1>5. saver[q].pc = "replace" => saver[q] \in ReplaceReq
  BY <1>1 DEF C!Idle, SaveReq, RemoveReq, GroupReq, LookReq, ReplaceReq
<1> QED
  BY <1>2, <1>3, <1>4, <1>5

\* A step that makes no membership wrong that it does not leave behind.
LEMMA PairsKept ==
    ASSUME MembersRight, PlansRight,
           \A g \in Groups, c \in Customers : C!Auto(g)' /\ <<c, g>> \notin behind' =>
              /\ C!Auto(g) /\ <<c, g>> \notin behind /\ (RightIn(c, g) => RightIn(c, g)'),
           \A q \in Savers, g \in Groups : Replacing(q, g)' =>
              /\ Replacing(q, g) /\ saver'[q] = saver[q]
              /\ \A c \in Customers : C!Auto(g)' /\ <<c, g>> \notin behind' =>
                    (Belongs(c, g)' <=> Belongs(c, g)) /\ (<<c, g>> \in members' <=> <<c, g>> \in members),
           \A q \in Savers, g \in Groups : Replacing(q, g) =>
              Replacing(q, g)' \/ \A c \in Customers : <<c, g>> \in behind'
    PROVE  MembersRight' /\ PlansRight'
<1>1. MembersRight'
  <2> SUFFICES ASSUME NEW g \in Groups, NEW c \in Customers, C!Auto(g)', <<c, g>> \notin behind',
                      \A q \in Savers : ~Replacing(q, g)'
               PROVE  RightIn(c, g)'
    BY DEF MembersRight
  <2>1. \A q \in Savers : ~Replacing(q, g)
    OBVIOUS
  <2>2. RightIn(c, g)
    BY <2>1 DEF MembersRight
  <2> QED
    BY <2>2
<1>2. PlansRight'
  <2> SUFFICES ASSUME NEW q \in Savers, NEW g \in Groups, NEW c \in Customers, Replacing(q, g)',
                      C!Auto(g)', <<c, g>> \notin behind'
               PROVE  PlannedRight(q, c, g)'
    BY DEF PlansRight
  <2>1. Replacing(q, g) /\ C!Auto(g) /\ <<c, g>> \notin behind /\ saver'[q] = saver[q]
    OBVIOUS
  <2>2. PlannedRight(q, c, g)
    BY <2>1 DEF PlansRight
  <2>3. (Belongs(c, g)' <=> Belongs(c, g)) /\ (<<c, g>> \in members' <=> <<c, g>> \in members)
    OBVIOUS
  <2> QED
    BY <2>1, <2>2, <2>3 DEF PlannedRight
<1> QED
  BY <1>1, <1>2

\* A step of one request leaves the others as they are, and if one runs at a time idle.
LEMMA OneStays ==
    ASSUME OneAtATime, NEW q \in Savers, \A p \in Savers \ {q} : saver'[p] = saver[p],
           saver[q].pc # "idle" \/ \A p \in Savers : saver[p].pc = "idle"
    PROVE  OneAtATime' /\ \A p \in Savers \ {q} : saver[p].pc = "idle" /\ saver'[p].pc = "idle"
<1>1. \A p \in Savers \ {q} : saver[p].pc = "idle"
  BY DEF OneAtATime
<1> QED
  BY <1>1 DEF OneAtATime

\* At the start there are no customers and no groups.
LEMMA CustomersInit == C!Init => MembershipInv
<1> SUFFICES ASSUME C!Init PROVE MembershipInv
  OBVIOUS
<1>1. C!NoCustomer \in CustomerRow /\ C!NoCustomer.st = "none"
  BY DEF C!NoCustomer, C!Profile, CustomerRow, C!NoPhone, C!None
<1>2. C!NoGroup \in GroupRow /\ C!NoGroup.st = "none"
  BY DEF C!NoGroup, GroupRow
<1>3. C!Idle \in SaverReq /\ C!Idle.pc = "idle"
  BY DEF C!Idle, SaverReq
<1>4. CustomerTypes
  BY <1>1, <1>2, <1>3 DEF C!Init, CustomerTypes
<1>5. \A g \in Groups : ~C!Present(g)
  BY <1>2 DEF C!Init, C!Present
<1>6. RowsThere
  BY <1>5 DEF C!Init, RowsThere
<1>7. \A q \in Savers : saver[q].pc = "idle"
  BY <1>3 DEF C!Init
<1>8. OneAtATime /\ MembersRight /\ PlansRight /\ RulesKnown
  BY <1>5, <1>7 DEF OneAtATime, MembersRight, PlansRight, RulesKnown, Replacing, C!Auto
<1> QED
  BY <1>4, <1>6, <1>8 DEF MembershipInv

\* A request's new work has its type and is nobody else's.
LEMMA SaverTyped ==
    ASSUME CustomerTypes, NEW q \in Savers, NEW work \in SaverReq,
           saver' = [saver EXCEPT ![q] = work]
    PROVE  /\ saver' \in [Savers -> SaverReq] /\ saver'[q] = work
           /\ \A p \in Savers \ {q} : saver'[p] = saver[p]
BY DEF CustomerTypes

AllRight == \A g \in Groups, c \in Customers :
    C!Auto(g) /\ <<c, g>> \notin behind => RightIn(c, g)

\* A step of a request that neither comes from a recalculation's reading nor goes to it.
LEMMA SaverStep ==
    ASSUME MembershipInv, NEW q \in Savers, NEW work \in SaverReq, CustomerTypes', RowsThere',
           saver' = [saver EXCEPT ![q] = work], savers' = savers,
           saver[q].pc # "idle" \/ C!MayStart(q),
           saver[q].pc # "replace", work.pc # "replace",
           ~savers /\ RulesKnown /\ work.pc = "sync" =>
              \A w \in work.work : \/ group'[w.g].st = "gone"
                                   \/ group'[w.g].rules = w.rules /\ group'[w.g].any = w.any,
           ~savers /\ RulesKnown /\ AllRight => AllRight'
    PROVE  MembershipInv'
<1> SUFFICES ASSUME ~savers
             PROVE  OneAtATime' /\ MembersRight' /\ PlansRight' /\ RulesKnown'
  BY DEF MembershipInv
<1>1. CustomerTypes /\ OneAtATime /\ MembersRight /\ PlansRight /\ RulesKnown
  BY DEF MembershipInv
<1>2. saver'[q] = work /\ \A p \in Savers \ {q} : saver'[p] = saver[p]
  BY <1>1, SaverTyped
<1>3. saver[q].pc # "idle" \/ \A p \in Savers : saver[p].pc = "idle"
  BY <1>1, SaverIs DEF C!MayStart, C!Idle
<1>4. OneAtATime' /\ \A p \in Savers \ {q} : saver[p].pc = "idle" /\ saver'[p].pc = "idle"
  BY <1>1, <1>2, <1>3, OneStays
<1>5. \A p \in Savers, g \in Groups : ~Replacing(p, g) /\ ~Replacing(p, g)'
  BY <1>2, <1>4 DEF Replacing
<1>6. AllRight
  BY <1>1, <1>5 DEF AllRight, MembersRight
<1>7. MembersRight' /\ PlansRight'
  BY <1>1, <1>5, <1>6 DEF AllRight, MembersRight, PlansRight
<1>8. RulesKnown'
  <2> SUFFICES ASSUME NEW p \in Savers, saver'[p].pc = "sync", NEW w \in saver'[p].work
               PROVE  \/ group'[w.g].st = "gone"
                      \/ group'[w.g].rules = w.rules /\ group'[w.g].any = w.any
    BY DEF RulesKnown
  <2>1. p = q
    BY <1>4
  <2> QED
    BY <1>1, <1>2, <2>1
<1> QED
  BY <1>4, <1>7, <1>8

\* The same when the step writes nothing but the request.
LEMMA SaverOnly ==
    ASSUME MembershipInv, NEW q \in Savers, NEW work \in SaverReq,
           saver' = [saver EXCEPT ![q] = work],
           UNCHANGED <<customer, buying, group, members, behind, savers>>,
           saver[q].pc # "idle" \/ C!MayStart(q),
           saver[q].pc # "replace", work.pc # "replace",
           ~savers /\ RulesKnown /\ work.pc = "sync" =>
              \A w \in work.work : \/ group[w.g].st = "gone"
                                   \/ group[w.g].rules = w.rules /\ group[w.g].any = w.any
    PROVE  MembershipInv'
<1>1. CustomerTypes'
  BY SaverTyped DEF MembershipInv, CustomerTypes
<1>2. RowsThere'
  BY DEF MembershipInv, RowsThere, C!Present, C!There
<1>3. AllRight => AllRight'
  BY DEF AllRight, RightIn, Belongs, C!Auto, C!Present
<1> QED
  BY <1>1, <1>2, <1>3, SaverStep

\* A save of a customer begins, and has written nothing.
LEMMA BeginSaveKeeps ==
    ASSUME MembershipInv, NEW q \in Savers, NEW c \in Customers, NEW data \in Profiles,
           NEW groups \in SUBSET Groups, C!BeginSave(q, c, data, groups)
    PROVE  MembershipInv'
<1> DEFINE work == [pc |-> "save", c |-> c, new |-> customer[c].st = "none",
                    groups |-> groups, data |-> data, work |-> {}]
<1>1. /\ C!MayStart(q) /\ saver' = [saver EXCEPT ![q] = work]
      /\ UNCHANGED <<customer, buying, group, members, behind, savers>>
      /\ work.pc = "save" /\ saver[q].pc = "idle"
  BY DEF C!BeginSave, C!MayStart, C!Idle
<1>2. work \in SaveReq
  BY DEF SaveReq
<1>3. work \in SaverReq
  BY <1>2 DEF SaverReq
<1> HIDE DEF work
<1> QED
  BY <1>1, <1>3, SaverOnly

\* So does a removal.
LEMMA BeginRemoveKeeps ==
    ASSUME MembershipInv, NEW q \in Savers, NEW c \in Customers, C!BeginRemove(q, c)
    PROVE  MembershipInv'
<1> DEFINE work == [pc |-> IF c \in buying THEN "disable" ELSE "delete", c |-> c]
<1>1. /\ C!MayStart(q) /\ saver' = [saver EXCEPT ![q] = work]
      /\ UNCHANGED <<customer, buying, group, members, behind, savers>>
      /\ work.pc \in {"disable", "delete"} /\ saver[q].pc = "idle"
  BY DEF C!BeginRemove, C!MayStart, C!Idle
<1>2. work \in RemoveReq
  BY DEF RemoveReq
<1>3. work \in SaverReq
  BY <1>2 DEF SaverReq
<1> HIDE DEF work
<1> QED
  BY <1>1, <1>3, SaverOnly

\* So does a change of a group.
LEMMA BeginGroupKeeps ==
    ASSUME MembershipInv, NEW q \in Savers, NEW g \in Groups, NEW data \in C!GroupData,
           C!BeginGroup(q, g, data)
    PROVE  MembershipInv'
<1> DEFINE work == [pc |-> "group", g |-> g, data |-> data]
<1>1. /\ C!MayStart(q) /\ saver' = [saver EXCEPT ![q] = work]
      /\ UNCHANGED <<customer, buying, group, members, behind, savers>>
      /\ work.pc = "group" /\ saver[q].pc = "idle"
  BY DEF C!BeginGroup, C!MayStart, C!Idle
<1>2. work \in GroupReq
  BY DEF GroupReq
<1>3. work \in SaverReq
  BY <1>2 DEF SaverReq
<1> HIDE DEF work
<1> QED
  BY <1>1, <1>3, SaverOnly

\* So does a recalculation.
LEMMA RecalculateKeeps ==
    ASSUME MembershipInv, NEW q \in Savers, NEW g \in Groups, C!Recalculate(q, g)
    PROVE  MembershipInv'
<1> DEFINE work == [pc |-> "recalculate", g |-> g]
<1>1. /\ C!MayStart(q) /\ saver' = [saver EXCEPT ![q] = work]
      /\ UNCHANGED <<customer, buying, group, members, behind, savers>>
      /\ work.pc = "recalculate" /\ saver[q].pc = "idle"
  BY DEF C!Recalculate, C!MayStart, C!Idle
<1>2. work \in LookReq
  BY DEF LookReq
<1>3. work \in SaverReq
  BY <1>2 DEF SaverReq
<1> HIDE DEF work
<1> QED
  BY <1>1, <1>3, SaverOnly

\* A save reads the groups whose members it must look at.
LEMMA ReadGroupsKeeps ==
    ASSUME MembershipInv, NEW q \in Savers, C!ReadGroups(q)
    PROVE  MembershipInv'
<1> DEFINE rows == {[g |-> g, rules |-> group[g].rules, any |-> group[g].any] :
                       g \in {h \in Groups : C!Auto(h)}}
           work == [saver[q] EXCEPT !.pc = "sync", !.work = rows]
<1>1. /\ saver[q].pc = "read" /\ saver' = [saver EXCEPT ![q] = work]
      /\ UNCHANGED <<customer, buying, group, members, behind, savers>>
  BY DEF C!ReadGroups
<1>2. saver[q] \in SaveReq /\ CustomerTypes
  BY <1>1, SaverIs DEF MembershipInv
<1>3. rows \in SUBSET [g : Groups, rules : RuleSets \union {{}}, any : BOOLEAN]
  BY <1>2 DEF CustomerTypes, GroupRow
<1>4. \A w \in rows : group[w.g].rules = w.rules /\ group[w.g].any = w.any
  OBVIOUS
<1> HIDE DEF rows
<1>5. work \in SaveReq /\ work.pc = "sync" /\ work.work = rows
  BY <1>2, <1>3 DEF SaveReq
<1>6. work \in SaverReq
  BY <1>5 DEF SaverReq
<1> HIDE DEF work
<1> QED
  BY <1>1, <1>4, <1>5, <1>6, SaverOnly

\* A save that has no group left to look at is done.
LEMMA SavedKeeps ==
    ASSUME MembershipInv, NEW q \in Savers, C!Saved(q)
    PROVE  MembershipInv'
<1>1. /\ saver[q].pc = "sync" /\ saver' = [saver EXCEPT ![q] = C!Idle]
      /\ UNCHANGED <<customer, buying, group, members, behind, savers>>
  BY DEF C!Saved, C!Done
<1>2. C!Idle \in SaverReq /\ C!Idle.pc = "idle"
  BY DEF C!Idle, SaverReq
<1> QED
  BY <1>1, <1>2, SaverOnly

\* A request that breaks off leaves behind what nobody has looked at.
LEMMA FailKeepsMembers ==
    ASSUME MembershipInv, NEW q \in Savers, C!Fail(q)
    PROVE  MembershipInv'
<1>1. /\ saver[q] # C!Idle /\ saver' = [saver EXCEPT ![q] = C!Idle]
      /\ UNCHANGED <<customer, buying, group, members, savers>>
      /\ behind' = IF saver[q].pc = "replace"
                   THEN behind \union (Customers \X {saver[q].g}) ELSE behind
  BY DEF C!Fail, C!Done
<1>2. C!Idle \in SaverReq /\ C!Idle.pc = "idle"
  BY DEF C!Idle, SaverReq
<1>3. CustomerTypes /\ saver[q].pc # "idle"
  BY <1>1, SaverIs DEF MembershipInv
<1>4. CASE saver[q].pc # "replace"
  BY <1>1, <1>2, <1>3, <1>4, SaverOnly
<1>5. CASE saver[q].pc = "replace"
  <2>1. saver[q] \in ReplaceReq
    BY <1>3, <1>5, SaverIs
  <2>2. saver[q].g \in Groups /\ behind' = behind \union (Customers \X {saver[q].g})
    BY <1>1, <1>5, <2>1 DEF ReplaceReq
  <2>3. CustomerTypes'
    BY <1>1, <1>2, <1>3, <2>2, SaverTyped DEF CustomerTypes
  <2>4. RowsThere'
    BY <1>1 DEF MembershipInv, RowsThere, C!Present, C!There
  <2>5. saver'[q] = C!Idle /\ \A p \in Savers \ {q} : saver'[p] = saver[p]
    BY <1>1, <1>2, <1>3, SaverTyped
  <2> SUFFICES ASSUME ~savers
               PROVE  OneAtATime' /\ MembersRight' /\ PlansRight' /\ RulesKnown'
    BY <1>1, <2>3, <2>4 DEF MembershipInv
  <2>6. OneAtATime /\ MembersRight /\ PlansRight /\ RulesKnown
    BY DEF MembershipInv
  <2>7. OneAtATime' /\ \A p \in Savers \ {q} : saver[p].pc = "idle" /\ saver'[p].pc = "idle"
    BY <1>3, <2>5, <2>6, OneStays
  <2>8. RulesKnown'
    BY <1>2, <2>5, <2>7 DEF RulesKnown
  <2>9. MembersRight' /\ PlansRight'
    <3>1. \A p \in Savers, g \in Groups : ~Replacing(p, g)'
      BY <1>2, <2>5, <2>7 DEF Replacing
    <3>2. ASSUME NEW p \in Savers, NEW g \in Groups, Replacing(p, g)
          PROVE  \A c \in Customers : <<c, g>> \in behind'
      <4>1. p = q /\ g = saver[q].g
        BY <2>7, <3>2 DEF Replacing
      <4> QED
        BY <2>2, <4>1
    <3>3. \A g \in Groups, c \in Customers : C!Auto(g)' /\ <<c, g>> \notin behind' =>
              /\ C!Auto(g) /\ <<c, g>> \notin behind /\ (RightIn(c, g) => RightIn(c, g)')
      BY <1>1, <2>2 DEF RightIn, Belongs, C!Auto, C!Present
    <3> QED
      BY <2>6, <3>1, <3>2, <3>3, PairsKept
  <2> QED
    BY <2>7, <2>8, <2>9
<1> QED
  BY <1>4, <1>5

\* What a save writes is the row of a customer who is there.
LEMMA ProfilesAreRows ==
    ASSUME NEW data \in Profiles
    PROVE  data \in CustomerRow /\ data.st = "there"
<1>1. data = C!Profile(data.phone, data.gender, data.places) /\ data.gender \in C!Genders \union {C!None}
  BY ShopAssumption DEF C!CustomersAssumption
<1>2. data = [st |-> "there", phone |-> data.phone, gender |-> data.gender,
              places |-> data.places, state |-> "enabled"]
  BY <1>1 DEF C!Profile
<1>3. /\ data.phone \in {p.phone : p \in Profiles} /\ data.places \in {p.places : p \in Profiles}
  OBVIOUS
<1>4. [st |-> "there", phone |-> data.phone, gender |-> data.gender,
       places |-> data.places, state |-> "enabled"] \in CustomerRow
  BY <1>1, <1>3 DEF CustomerRow
<1> QED
  BY <1>2, <1>4

\* The customer's row is written, and the groups are looked at afterwards.
LEMMA SaveKeepsMembers ==
    ASSUME MembershipInv, NEW q \in Savers, C!Save(q)
    PROVE  MembershipInv'
<1> SUFFICES ASSUME NEW r, r = saver[q] PROVE MembershipInv'
  OBVIOUS
<1> DEFINE work == [saver[q] EXCEPT !.pc = "read"]
           manual == {g \in Groups : C!Manual(g)}
<1>1. /\ r.pc = "save" /\ customer' = [customer EXCEPT ![r.c] = r.data]
      /\ members' = {m \in members : m[1] # r.c \/ m[2] \notin manual}
                       \union ({r.c} \X (r.groups \intersect manual))
      /\ behind' = behind \union ({r.c} \X Groups)
      /\ saver' = [saver EXCEPT ![q] = work] /\ UNCHANGED <<buying, group, savers>>
  BY DEF C!Save, C!Step, C!WithManualGroups
<1>2. r \in SaveReq /\ CustomerTypes /\ RowsThere
  BY <1>1, SaverIs DEF MembershipInv
<1>3. r.c \in Customers /\ r.groups \subseteq Groups /\ r.data \in Profiles
  BY <1>2 DEF SaveReq
<1>4. r.data \in CustomerRow /\ r.data.st = "there"
  BY <1>3, ProfilesAreRows
<1>5. work \in SaveReq /\ work.pc = "read"
  BY <1>2 DEF SaveReq
<1>6. work \in SaverReq
  BY <1>5 DEF SaverReq
<1> HIDE DEF work
<1>7. members' \subseteq Customers \X Groups
  BY <1>1, <1>2, <1>3 DEF CustomerTypes
<1>8. customer' \in [Customers -> CustomerRow] /\ customer'[r.c] = r.data
      /\ \A c \in Customers \ {r.c} : customer'[c] = customer[c]
  BY <1>1, <1>2, <1>3, <1>4 DEF CustomerTypes
<1>9. CustomerTypes'
  BY <1>1, <1>2, <1>3, <1>6, <1>7, <1>8, SaverTyped DEF CustomerTypes
<1>10. \A c \in Customers : C!There(c) => C!There(c)'
  BY <1>4, <1>8 DEF C!There
<1>11. C!There(r.c)'
  BY <1>4, <1>8 DEF C!There
<1>12. RowsThere'
  <2>1. \A g \in Groups : C!Present(g)' <=> C!Present(g)
    BY <1>1 DEF C!Present
  <2>2. ASSUME NEW m \in members' PROVE C!There(m[1])' /\ C!Present(m[2])'
    <3>1. m[1] \in Customers /\ m[2] \in Groups
      BY <1>7
    <3>2. CASE m \in members
      BY <1>2, <1>10, <2>1, <3>1, <3>2 DEF RowsThere
    <3>3. CASE m \notin members
      <4>1. m[1] = r.c /\ m[2] \in manual
        BY <1>1, <3>3
      <4> QED
        BY <1>11, <2>1, <4>1 DEF C!Manual
    <3> QED
      BY <3>2, <3>3
  <2>3. \A c \in buying : C!There(c)'
    BY <1>2, <1>10 DEF RowsThere, CustomerTypes
  <2> QED
    BY <1>1, <1>2, <2>1, <2>2, <2>3 DEF RowsThere
<1>13. AllRight => AllRight'
  <2> SUFFICES ASSUME AllRight, NEW g \in Groups, NEW c \in Customers, C!Auto(g)',
                      <<c, g>> \notin behind'
               PROVE  RightIn(c, g)'
    BY DEF AllRight
  <2>1. C!Auto(g) /\ c # r.c /\ <<c, g>> \notin behind
    BY <1>1 DEF C!Auto, C!Present
  <2>2. <<c, g>> \in members' <=> <<c, g>> \in members
    BY <1>1, <2>1
  <2> QED
    BY <1>1, <1>8, <2>1, <2>2 DEF AllRight, RightIn, Belongs
<1> QED
  BY <1>1, <1>5, <1>6, <1>9, <1>12, <1>13, SaverStep

\* One group's membership of the customer becomes what its rules say.
LEMMA SyncGroupKeeps ==
    ASSUME MembershipInv, NEW q \in Savers, C!SyncGroup(q)
    PROVE  MembershipInv'
<1> SUFFICES ASSUME NEW r, r = saver[q] PROVE MembershipInv'
  OBVIOUS
<1>1. PICK w \in r.work :
         /\ C!Present(w.g) \/ ~C!Matches(customer[r.c], w.rules, w.any)
         /\ members' = C!Membership(r.c, w) /\ behind' = behind \ {<<r.c, w.g>>}
         /\ saver' = [saver EXCEPT ![q].work = @ \ {w}]
  BY DEF C!SyncGroup
<1>2. r.pc = "sync" /\ UNCHANGED <<customer, buying, group, savers>>
  BY DEF C!SyncGroup
<1>3. r \in SaveReq /\ CustomerTypes /\ RowsThere
  BY <1>2, SaverIs DEF MembershipInv
<1>4. r.c \in Customers /\ w.g \in Groups
  BY <1>3 DEF SaveReq
<1> DEFINE work == [saver[q] EXCEPT !.work = saver[q].work \ {w}]
<1>5. saver' = [saver EXCEPT ![q] = work]
  BY <1>1
<1>6. work \in SaveReq /\ work.pc = "sync" /\ work.work = r.work \ {w}
  BY <1>2, <1>3 DEF SaveReq
<1>7. work \in SaverReq
  BY <1>6 DEF SaverReq
<1> HIDE DEF work
<1>8. members' = IF C!Matches(customer[r.c], w.rules, w.any)
                 THEN members \union {<<r.c, w.g>>} ELSE members \ {<<r.c, w.g>>}
  BY <1>1 DEF C!Membership
<1>9. CustomerTypes'
  <2>1. members' \subseteq Customers \X Groups /\ behind' \subseteq Customers \X Groups
    BY <1>1, <1>3, <1>4, <1>8 DEF CustomerTypes
  <2> QED
    BY <1>2, <1>3, <1>5, <1>7, <2>1, SaverTyped DEF CustomerTypes
<1>10. RowsThere'
  <2>1. C!Matches(customer[r.c], w.rules, w.any) => C!There(r.c) /\ C!Present(w.g)
    BY <1>1 DEF C!Matches, C!There
  <2>2. \A m \in members' : C!There(m[1]) /\ C!Present(m[2])
    BY <1>3, <1>8, <2>1 DEF RowsThere
  <2> QED
    BY <1>2, <1>3, <2>2 DEF RowsThere, C!There, C!Present
<1>11. ASSUME RulesKnown, AllRight PROVE AllRight'
  <2> SUFFICES ASSUME NEW g \in Groups, NEW c \in Customers, C!Auto(g)',
                      <<c, g>> \notin behind'
               PROVE  RightIn(c, g)'
    BY DEF AllRight
  <2>1. C!Auto(g)
    BY <1>2 DEF C!Auto, C!Present
  <2>2. CASE c = r.c /\ g = w.g
    <3>1. group[g].rules = w.rules /\ group[g].any = w.any
      BY <1>2, <1>11, <2>1, <2>2 DEF RulesKnown, C!Auto, C!Present
    <3>2. <<c, g>> \in members' <=> C!Matches(customer[c], w.rules, w.any)
      BY <1>8, <2>2
    <3> QED
      BY <1>2, <3>1, <3>2 DEF RightIn, Belongs
  <2>3. CASE ~(c = r.c /\ g = w.g)
    <3>1. <<c, g>> # <<r.c, w.g>>
      BY <2>3
    <3>2. <<c, g>> \notin behind /\ (<<c, g>> \in members' <=> <<c, g>> \in members)
      BY <1>1, <1>8, <3>1
    <3> QED
      BY <1>2, <1>11, <2>1, <3>2 DEF AllRight, RightIn, Belongs
  <2> QED
    BY <2>2, <2>3
<1>12. ASSUME RulesKnown, NEW v \in work.work
       PROVE  \/ group'[v.g].st = "gone"
              \/ group'[v.g].rules = v.rules /\ group'[v.g].any = v.any
  BY <1>2, <1>6, <1>12 DEF RulesKnown
<1> QED
  BY <1>2, <1>5, <1>6, <1>7, <1>9, <1>10, <1>11, <1>12, SaverStep

\* A customer with orders is switched off.
LEMMA DisableKeeps ==
    ASSUME MembershipInv, NEW q \in Savers, C!Disable(q)
    PROVE  MembershipInv'
<1> SUFFICES ASSUME NEW d, d = saver[q].c PROVE MembershipInv'
  OBVIOUS
<1> DEFINE new == [customer[d] EXCEPT !.state = "disabled"]
<1>1. /\ saver[q].pc = "disable" /\ C!There(d) /\ customer' = [customer EXCEPT ![d] = new]
      /\ behind' = behind \union ({d} \X Groups) /\ saver' = [saver EXCEPT ![q] = C!Idle]
      /\ UNCHANGED <<buying, group, members, savers>>
  BY DEF C!Disable, C!Done
<1>2. saver[q] \in RemoveReq /\ CustomerTypes /\ RowsThere
  BY <1>1, SaverIs DEF MembershipInv
<1>3. d \in Customers /\ customer[d] \in CustomerRow
  BY <1>2 DEF RemoveReq, CustomerTypes
<1>4. new \in CustomerRow /\ new.st = customer[d].st
  BY <1>3 DEF CustomerRow
<1>5. C!Idle \in SaverReq /\ C!Idle.pc = "idle"
  BY DEF C!Idle, SaverReq
<1> HIDE DEF new
<1>6. customer' \in [Customers -> CustomerRow] /\ customer'[d] = new
      /\ \A c \in Customers \ {d} : customer'[c] = customer[c]
  BY <1>1, <1>2, <1>3, <1>4 DEF CustomerTypes
<1>7. CustomerTypes'
  BY <1>1, <1>2, <1>3, <1>5, <1>6, SaverTyped DEF CustomerTypes
<1>8. \A c \in Customers : C!There(c)' <=> C!There(c)
  BY <1>4, <1>6 DEF C!There
<1>9. RowsThere'
  BY <1>1, <1>2, <1>8 DEF RowsThere, CustomerTypes, C!Present
<1>10. AllRight => AllRight'
  <2> SUFFICES ASSUME AllRight, NEW g \in Groups, NEW c \in Customers, C!Auto(g)',
                      <<c, g>> \notin behind'
               PROVE  RightIn(c, g)'
    BY DEF AllRight
  <2>1. C!Auto(g) /\ c # d /\ <<c, g>> \notin behind
    BY <1>1 DEF C!Auto, C!Present
  <2> QED
    BY <1>1, <1>6, <2>1 DEF AllRight, RightIn, Belongs
<1> QED
  BY <1>1, <1>5, <1>7, <1>9, <1>10, SaverStep

\* One without orders is removed, with the memberships.
LEMMA DeleteKeeps ==
    ASSUME MembershipInv, NEW q \in Savers, C!Delete(q)
    PROVE  MembershipInv'
<1> SUFFICES ASSUME NEW d, d = saver[q].c PROVE MembershipInv'
  OBVIOUS
<1> DEFINE new == [C!NoCustomer EXCEPT !.st = "gone"]
<1>1. /\ saver[q].pc = "delete" /\ C!There(d) /\ customer' = [customer EXCEPT ![d] = new]
      /\ members' = {m \in members : m[1] # d} /\ buying' = buying \ {d}
      /\ saver' = [saver EXCEPT ![q] = C!Idle]
      /\ UNCHANGED <<group, behind, savers>>
  BY DEF C!Delete, C!Done
<1>2. saver[q] \in RemoveReq /\ CustomerTypes /\ RowsThere
  BY <1>1, SaverIs DEF MembershipInv
<1>3. d \in Customers
  BY <1>2 DEF RemoveReq
<1>4. new \in CustomerRow /\ new.st = "gone"
  BY DEF C!NoCustomer, C!Profile, CustomerRow, C!NoPhone, C!None
<1>5. C!Idle \in SaverReq /\ C!Idle.pc = "idle"
  BY DEF C!Idle, SaverReq
<1> HIDE DEF new
<1>6. customer' \in [Customers -> CustomerRow] /\ customer'[d] = new
      /\ \A c \in Customers \ {d} : customer'[c] = customer[c]
  BY <1>1, <1>2, <1>3, <1>4 DEF CustomerTypes
<1>7. CustomerTypes'
  BY <1>1, <1>2, <1>3, <1>5, <1>6, SaverTyped DEF CustomerTypes
<1>8. \A c \in Customers \ {d} : C!There(c)' <=> C!There(c)
  BY <1>6 DEF C!There
<1>9. RowsThere'
  BY <1>1, <1>2, <1>8 DEF RowsThere, CustomerTypes, C!Present
<1>10. AllRight => AllRight'
  <2> SUFFICES ASSUME AllRight, NEW g \in Groups, NEW c \in Customers, C!Auto(g)',
                      <<c, g>> \notin behind'
               PROVE  RightIn(c, g)'
    BY DEF AllRight
  <2>1. C!Auto(g) /\ <<c, g>> \notin behind
    BY <1>1 DEF C!Auto, C!Present
  <2>2. CASE c = d
    BY <1>1, <1>4, <1>6, <2>2 DEF RightIn, Belongs, C!Matches
  <2>3. CASE c # d
    BY <1>1, <1>6, <2>1, <2>3 DEF AllRight, RightIn, Belongs
  <2> QED
    BY <2>2, <2>3
<1> QED
  BY <1>1, <1>5, <1>7, <1>9, <1>10, SaverStep

\* The group's row is written, and its members are looked at afterwards.
LEMMA SaveGroupKeeps ==
    ASSUME MembershipInv, NEW q \in Savers, C!SaveGroup(q)
    PROVE  MembershipInv'
<1> SUFFICES ASSUME NEW r, r = saver[q] PROVE MembershipInv'
  OBVIOUS
<1> DEFINE work == IF r.data.type = "auto" THEN [saver[q] EXCEPT !.pc = "recalculate"]
                   ELSE C!Idle
<1>1. /\ r.pc = "group" /\ group' = [group EXCEPT ![r.g] = r.data]
      /\ behind' = behind \union (Customers \X {r.g})
      /\ saver' = [saver EXCEPT ![q] = work]
      /\ UNCHANGED <<customer, buying, members, savers>>
  BY DEF C!SaveGroup, C!Step, C!Done
<1>2. r \in GroupReq /\ CustomerTypes /\ RowsThere
  BY <1>1, SaverIs DEF MembershipInv
<1>3. r.g \in Groups /\ r.data \in C!GroupData
  BY <1>2 DEF GroupReq
<1>4. r.data \in GroupRow /\ r.data.st = "there" /\ r.data.rules \in RuleSets
  BY <1>3 DEF C!GroupData, GroupRow
<1>5. work \in SaverReq /\ work.pc \in {"recalculate", "idle"}
  <2>1. [saver[q] EXCEPT !.pc = "recalculate"] \in GroupReq
    BY <1>2 DEF GroupReq
  <2>2. [saver[q] EXCEPT !.pc = "recalculate"].pc = "recalculate"
    BY <1>2 DEF GroupReq
  <2>3. C!Idle \in SaverReq /\ C!Idle.pc = "idle"
    BY DEF C!Idle, SaverReq
  <2> QED
    BY <2>1, <2>2, <2>3 DEF SaverReq
<1> HIDE DEF work
<1>6. group' \in [Groups -> GroupRow] /\ group'[r.g] = r.data
      /\ \A g \in Groups \ {r.g} : group'[g] = group[g]
  BY <1>1, <1>2, <1>3, <1>4 DEF CustomerTypes
<1>7. CustomerTypes'
  BY <1>1, <1>2, <1>3, <1>5, <1>6, SaverTyped DEF CustomerTypes
<1>8. RowsThere'
  <2>1. \A g \in Groups : C!Present(g) => C!Present(g)'
    BY <1>4, <1>6 DEF C!Present
  <2>2. \A g \in Groups : C!Present(g)' => group'[g].rules \in RuleSets
    BY <1>2, <1>4, <1>6 DEF RowsThere, C!Present
  <2>3. \A m \in members : m[2] \in Groups /\ C!There(m[1]) /\ C!Present(m[2])
    BY <1>2 DEF RowsThere, CustomerTypes
  <2> QED
    BY <1>1, <1>2, <2>1, <2>2, <2>3 DEF RowsThere, C!There
<1>9. AllRight => AllRight'
  <2> SUFFICES ASSUME AllRight, NEW g \in Groups, NEW c \in Customers, C!Auto(g)',
                      <<c, g>> \notin behind'
               PROVE  RightIn(c, g)'
    BY DEF AllRight
  <2>1. g # r.g /\ <<c, g>> \notin behind
    BY <1>1
  <2>2. C!Auto(g) /\ group'[g] = group[g]
    BY <1>6, <2>1 DEF C!Auto, C!Present
  <2> QED
    BY <1>1, <2>1, <2>2 DEF AllRight, RightIn, Belongs
<1> QED
  BY <1>1, <1>5, <1>7, <1>8, <1>9, SaverStep

\* A recalculation reads who fits the rules.
LEMMA ReadMatchingKeeps ==
    ASSUME MembershipInv, NEW q \in Savers, C!ReadMatching(q)
    PROVE  MembershipInv'
<1> SUFFICES ASSUME NEW h, h = saver[q].g PROVE MembershipInv'
  OBVIOUS
<1> DEFINE is == {c \in Customers : <<c, h>> \in members}
           should == C!Matching(group[h].rules, group[h].any)
           work == [pc |-> "replace", g |-> h, add |-> should \ is, remove |-> is \ should]
<1>1. /\ saver[q].pc = "recalculate" /\ C!Auto(h) /\ saver' = [saver EXCEPT ![q] = work]
      /\ behind' = behind \ (Customers \X {h})
      /\ UNCHANGED <<customer, buying, group, members, savers>>
  BY DEF C!ReadMatching
<1>2. CustomerTypes /\ saver[q] \in GroupReq \union LookReq
  BY <1>1, SaverIs DEF MembershipInv
<1>3. h \in Groups
  BY <1>2 DEF GroupReq, LookReq
<1>4. is \in SUBSET Customers /\ should \in SUBSET Customers
  BY DEF C!Matching
<1>5. \A c \in Customers : (c \in is <=> <<c, h>> \in members) /\ (c \in should <=> Belongs(c, h))
  BY DEF C!Matching, Belongs
<1> HIDE DEF is, should
<1>6. /\ work \in ReplaceReq /\ work.pc = "replace" /\ work.g = h
      /\ work.add = should \ is /\ work.remove = is \ should
  BY <1>3, <1>4 DEF ReplaceReq
<1>7. work \in SaverReq
  BY <1>6 DEF SaverReq
<1> HIDE DEF work
<1>8. saver'[q] = work /\ \A p \in Savers \ {q} : saver'[p] = saver[p]
  BY <1>1, <1>2, <1>7, SaverTyped
<1>9. CustomerTypes'
  BY <1>1, <1>2, <1>7, SaverTyped DEF CustomerTypes
<1>10. RowsThere'
  BY <1>1 DEF MembershipInv, RowsThere, C!Present, C!There
<1> SUFFICES ASSUME ~savers
             PROVE  OneAtATime' /\ MembersRight' /\ PlansRight' /\ RulesKnown'
  BY <1>1, <1>9, <1>10 DEF MembershipInv
<1>11. OneAtATime /\ MembersRight /\ PlansRight /\ RulesKnown
  BY DEF MembershipInv
<1>12. OneAtATime' /\ \A p \in Savers \ {q} : saver[p].pc = "idle" /\ saver'[p].pc = "idle"
  BY <1>1, <1>8, <1>11, OneStays
<1>13. RulesKnown'
  BY <1>6, <1>8, <1>12 DEF RulesKnown
<1>14. /\ \A p \in Savers, g \in Groups : ~Replacing(p, g)
       /\ Replacing(q, h)' /\ \A p \in Savers, g \in Groups : Replacing(p, g)' => p = q /\ g = h
  BY <1>1, <1>6, <1>8, <1>12 DEF Replacing
<1>15. MembersRight'
  <2> SUFFICES ASSUME NEW g \in Groups, NEW c \in Customers, C!Auto(g)', <<c, g>> \notin behind',
                      \A p \in Savers : ~Replacing(p, g)'
               PROVE  RightIn(c, g)'
    BY DEF MembersRight
  <2>1. g # h
    BY <1>14
  <2>2. C!Auto(g) /\ <<c, g>> \notin behind
    BY <1>1, <2>1 DEF C!Auto, C!Present
  <2>3. RightIn(c, g)
    BY <1>11, <1>14, <2>2 DEF MembersRight
  <2> QED
    BY <1>1, <2>3 DEF RightIn, Belongs
<1>16. PlansRight'
  <2> SUFFICES ASSUME NEW c \in Customers PROVE PlannedRight(q, c, h)'
    BY <1>14 DEF PlansRight
  <2>1. Belongs(c, h)' <=> Belongs(c, h)
    BY <1>1 DEF Belongs
  <2> QED
    BY <1>1, <1>5, <1>6, <1>8, <2>1 DEF PlannedRight
<1> QED
  BY <1>12, <1>13, <1>15, <1>16

\* It replaces the members by those it read.
LEMMA ReplaceKeeps ==
    ASSUME MembershipInv, NEW q \in Savers, C!Replace(q)
    PROVE  MembershipInv'
<1> SUFFICES ASSUME NEW r, r = saver[q] PROVE MembershipInv'
  OBVIOUS
<1>1. /\ r.pc = "replace" /\ C!Present(r.g) /\ \A c \in r.add : C!There(c)
      /\ members' = (members \ (r.remove \X {r.g})) \union (r.add \X {r.g})
      /\ saver' = [saver EXCEPT ![q] = C!Idle]
      /\ UNCHANGED <<customer, buying, group, behind, savers>>
  BY DEF C!Replace, C!Done
<1>2. r \in ReplaceReq /\ CustomerTypes /\ RowsThere
  BY <1>1, SaverIs DEF MembershipInv
<1>3. r.g \in Groups /\ r.add \subseteq Customers /\ r.remove \subseteq Customers
  BY <1>2 DEF ReplaceReq
<1>4. C!Idle \in SaverReq /\ C!Idle.pc = "idle"
  BY DEF C!Idle, SaverReq
<1>5. saver'[q] = C!Idle /\ \A p \in Savers \ {q} : saver'[p] = saver[p]
  BY <1>1, <1>2, <1>4, SaverTyped
<1>6. members' \subseteq Customers \X Groups
  BY <1>1, <1>2, <1>3 DEF CustomerTypes
<1>7. CustomerTypes'
  BY <1>1, <1>2, <1>4, <1>6, SaverTyped DEF CustomerTypes
<1>8. RowsThere'
  <2>1. \A m \in members' : C!There(m[1]) /\ C!Present(m[2])
    BY <1>1, <1>2 DEF RowsThere
  <2> QED
    BY <1>1, <1>2, <2>1 DEF RowsThere, C!There, C!Present
<1> SUFFICES ASSUME ~savers
             PROVE  OneAtATime' /\ MembersRight' /\ PlansRight' /\ RulesKnown'
  BY <1>1, <1>7, <1>8 DEF MembershipInv
<1>9. OneAtATime /\ MembersRight /\ PlansRight /\ RulesKnown
  BY DEF MembershipInv
<1>10. OneAtATime' /\ \A p \in Savers \ {q} : saver[p].pc = "idle" /\ saver'[p].pc = "idle"
  BY <1>1, <1>5, <1>9, OneStays
<1>11. RulesKnown'
  BY <1>4, <1>5, <1>10 DEF RulesKnown
<1>12. /\ \A p \in Savers, g \in Groups : ~Replacing(p, g)'
       /\ \A p \in Savers, g \in Groups : Replacing(p, g) => g = r.g
       /\ Replacing(q, r.g)
  BY <1>1, <1>4, <1>5, <1>10 DEF Replacing
<1>13. PlansRight'
  BY <1>12 DEF PlansRight
<1>14. MembersRight'
  <2> SUFFICES ASSUME NEW g \in Groups, NEW c \in Customers, C!Auto(g)', <<c, g>> \notin behind'
               PROVE  RightIn(c, g)'
    BY DEF MembersRight
  <2>1. C!Auto(g) /\ <<c, g>> \notin behind /\ (Belongs(c, g)' <=> Belongs(c, g))
    BY <1>1 DEF C!Auto, C!Present, Belongs
  <2>2. CASE g = r.g
    <3>1. PlannedRight(q, c, g)
      BY <1>9, <1>12, <2>1, <2>2 DEF PlansRight
    <3>2. <<c, g>> \in members' <=> (<<c, g>> \in members /\ c \notin r.remove) \/ c \in r.add
      BY <1>1, <2>2
    <3> QED
      BY <2>1, <3>1, <3>2 DEF PlannedRight, RightIn
  <2>3. CASE g # r.g
    <3>1. RightIn(c, g)
      BY <1>9, <1>12, <2>1, <2>3 DEF MembersRight
    <3>2. <<c, g>> \in members' <=> <<c, g>> \in members
      BY <1>1, <2>3
    <3> QED
      BY <2>1, <3>1, <3>2 DEF RightIn
  <2> QED
    BY <2>2, <2>3
<1> QED
  BY <1>10, <1>11, <1>13, <1>14

\* A step that is no request's.
LEMMA NoRequestStep ==
    ASSUME MembershipInv, CustomerTypes', RowsThere', UNCHANGED <<saver, savers>>,
           \A g \in Groups : group'[g] = group[g] \/ group'[g].st = "gone",
           \A g \in Groups, c \in Customers : C!Auto(g)' /\ <<c, g>> \notin behind' =>
              /\ <<c, g>> \notin behind /\ customer'[c] = customer[c]
              /\ (<<c, g>> \in members' <=> <<c, g>> \in members)
    PROVE  MembershipInv'
<1> SUFFICES ASSUME ~savers
             PROVE  OneAtATime' /\ MembersRight' /\ PlansRight' /\ RulesKnown'
  BY DEF MembershipInv
<1>1. CustomerTypes /\ OneAtATime /\ MembersRight /\ PlansRight /\ RulesKnown
  BY DEF MembershipInv
<1>2. OneAtATime'
  BY <1>1 DEF OneAtATime
<1>3. \A g \in Groups : C!Auto(g)' => group'[g] = group[g] /\ C!Auto(g)
  BY DEF C!Auto, C!Present
<1>4. ASSUME NEW g \in Groups, NEW c \in Customers, C!Auto(g)', <<c, g>> \notin behind'
      PROVE  /\ C!Auto(g) /\ <<c, g>> \notin behind /\ (RightIn(c, g) => RightIn(c, g)')
             /\ (Belongs(c, g)' <=> Belongs(c, g))
  <2>1. group'[g] = group[g] /\ C!Auto(g) /\ customer'[c] = customer[c]
    BY <1>3, <1>4
  <2>2. Belongs(c, g)' <=> Belongs(c, g)
    BY <2>1 DEF Belongs
  <2> QED
    BY <1>4, <2>1, <2>2 DEF RightIn
<1>5. MembersRight' /\ PlansRight'
  <2>1. \A q \in Savers, g \in Groups : Replacing(q, g)' <=> Replacing(q, g)
    BY DEF Replacing
  <2> QED
    BY <1>1, <1>4, <2>1, PairsKept
<1>6. RulesKnown'
  <2> SUFFICES ASSUME NEW q \in Savers, saver[q].pc = "sync", NEW w \in saver[q].work
               PROVE  \/ group'[w.g].st = "gone"
                      \/ group'[w.g].rules = w.rules /\ group'[w.g].any = w.any
    BY DEF RulesKnown
  <2>1. saver[q] \in SaveReq
    BY <1>1, SaverIs
  <2>2. w.g \in Groups
    BY <2>1 DEF SaveReq
  <2>3. group[w.g].st = "gone" \/ (group[w.g].rules = w.rules /\ group[w.g].any = w.any)
    BY <1>1 DEF RulesKnown
  <2>4. group'[w.g] = group[w.g] \/ group'[w.g].st = "gone"
    BY <2>2
  <2> QED
    BY <2>3, <2>4
<1> QED
  BY <1>2, <1>5, <1>6

\* An order changes who may be removed, and no membership.
LEMMA OrderKeepsMembers ==
    ASSUME MembershipInv, NEW c \in Customers, C!Order(c)
    PROVE  MembershipInv'
<1>1. /\ C!There(c) /\ buying' = buying \union {c}
      /\ UNCHANGED <<customer, group, members, saver, behind, savers>>
  BY DEF C!Order
<1>2. CustomerTypes'
  BY <1>1 DEF MembershipInv, CustomerTypes
<1>3. RowsThere'
  BY <1>1 DEF MembershipInv, RowsThere, C!Present, C!There
<1> QED
  BY <1>1, <1>2, <1>3, NoRequestStep

\* A customer from a channel belongs to groups nobody has looked at.
LEMMA ChannelCustomerKeeps ==
    ASSUME MembershipInv, NEW c \in Customers, NEW phone \in Phones, C!ChannelCustomer(c, phone)
    PROVE  MembershipInv'
<1> DEFINE new == [C!NoCustomer EXCEPT !.st = "there", !.phone = phone]
<1>1. /\ customer[c].st = "none" /\ customer' = [customer EXCEPT ![c] = new]
      /\ buying' = buying \union {c} /\ behind' = behind \union ({c} \X Groups)
      /\ UNCHANGED <<group, members, saver, savers>>
  BY DEF C!ChannelCustomer
<1>2. new \in CustomerRow /\ new.st = "there"
  BY DEF C!NoCustomer, C!Profile, CustomerRow, C!NoPhone, C!None
<1>3. CustomerTypes /\ RowsThere
  BY DEF MembershipInv
<1> HIDE DEF new
<1>4. customer' \in [Customers -> CustomerRow] /\ customer'[c] = new
      /\ \A d \in Customers \ {c} : customer'[d] = customer[d]
  BY <1>1, <1>2, <1>3 DEF CustomerTypes
<1>5. CustomerTypes'
  BY <1>1, <1>3, <1>4 DEF CustomerTypes
<1>6. C!There(c)' /\ \A d \in Customers : C!There(d) => C!There(d)'
  BY <1>2, <1>4 DEF C!There
<1>7. RowsThere'
  BY <1>1, <1>3, <1>6 DEF RowsThere, CustomerTypes, C!Present
<1> QED
  BY <1>1, <1>4, <1>5, <1>7, NoRequestStep

\* Groups without rules are changed by hand, and no rule speaks of them.
LEMMA ByHandKeeps ==
    ASSUME MembershipInv, NEW g \in Groups, NEW c \in Customers, C!ByHand(g, c)
    PROVE  MembershipInv'
<1>1. /\ C!Manual(g) /\ C!There(c)
      /\ members' = IF <<c, g>> \in members THEN members \ {<<c, g>>} ELSE members \union {<<c, g>>}
      /\ UNCHANGED <<customer, buying, group, saver, behind, savers>>
  BY DEF C!ByHand
<1>2. CustomerTypes /\ RowsThere
  BY DEF MembershipInv
<1>3. CustomerTypes'
  BY <1>1, <1>2 DEF CustomerTypes
<1>4. RowsThere'
  <2>1. \A m \in members' : C!There(m[1]) /\ C!Present(m[2])
    BY <1>1, <1>2 DEF RowsThere, C!Manual
  <2> QED
    BY <1>1, <1>2, <2>1 DEF RowsThere, C!There, C!Present
<1>5. ASSUME NEW k \in Groups, NEW d \in Customers, C!Auto(k)'
      PROVE  <<d, k>> \in members' <=> <<d, k>> \in members
  <2>1. k # g
    BY <1>1, <1>5 DEF C!Auto, C!Manual
  <2> QED
    BY <1>1, <2>1
<1> QED
  BY <1>1, <1>3, <1>4, <1>5, NoRequestStep

\* A removed group takes its memberships with it.
LEMMA RemoveGroupKeeps ==
    ASSUME MembershipInv, NEW g \in Groups, C!RemoveGroup(g)
    PROVE  MembershipInv'
<1> DEFINE new == [C!NoGroup EXCEPT !.st = "gone"]
<1>1. /\ group' = [group EXCEPT ![g] = new] /\ members' = {m \in members : m[2] # g}
      /\ UNCHANGED <<customer, buying, saver, behind, savers>>
  BY DEF C!RemoveGroup
<1>2. new \in GroupRow /\ new.st = "gone"
  BY DEF C!NoGroup, GroupRow
<1>3. CustomerTypes /\ RowsThere
  BY DEF MembershipInv
<1> HIDE DEF new
<1>4. group' \in [Groups -> GroupRow] /\ group'[g] = new
      /\ \A k \in Groups \ {g} : group'[k] = group[k]
  BY <1>1, <1>2, <1>3 DEF CustomerTypes
<1>5. CustomerTypes'
  BY <1>1, <1>3, <1>4 DEF CustomerTypes
<1>6. ~C!Present(g)' /\ \A k \in Groups \ {g} : C!Present(k)' <=> C!Present(k)
  BY <1>2, <1>4 DEF C!Present
<1>7. RowsThere'
  BY <1>1, <1>3, <1>4, <1>6 DEF RowsThere, CustomerTypes, C!There
<1>8. ASSUME NEW k \in Groups, NEW c \in Customers, C!Auto(k)'
      PROVE  <<c, k>> \in members' <=> <<c, k>> \in members
  <2>1. k # g
    BY <1>6, <1>8 DEF C!Auto
  <2> QED
    BY <1>1, <2>1
<1>9. \A k \in Groups : group'[k] = group[k] \/ group'[k].st = "gone"
  BY <1>2, <1>4
<1> QED
  BY <1>1, <1>5, <1>7, <1>8, <1>9, NoRequestStep

\* Every step keeps each group as its rules say.
LEMMA CustomersStep ==
    ASSUME MembershipInv, [C!Next]_(C!vars)
    PROVE  MembershipInv'
<1>1. CASE C!Next
  <2>1. CASE \E q \in Savers :
        \/ \E c \in Customers, data \in Profiles, groups \in SUBSET Groups :
              C!BeginSave(q, c, data, groups)
        \/ C!Save(q) \/ C!ReadGroups(q) \/ C!SyncGroup(q) \/ C!Saved(q)
        \/ \E c \in Customers : C!BeginRemove(q, c)
        \/ C!Disable(q) \/ C!Delete(q)
        \/ \E g \in Groups, data \in C!GroupData : C!BeginGroup(q, g, data)
        \/ \E g \in Groups : C!Recalculate(q, g)
        \/ C!SaveGroup(q) \/ C!ReadMatching(q) \/ C!Replace(q) \/ C!Fail(q)
    BY <2>1, BeginSaveKeeps, SaveKeepsMembers, ReadGroupsKeeps, SyncGroupKeeps, SavedKeeps,
       BeginRemoveKeeps, DisableKeeps, DeleteKeeps, BeginGroupKeeps, RecalculateKeeps,
       SaveGroupKeeps, ReadMatchingKeeps, ReplaceKeeps, FailKeepsMembers
  <2>2. CASE \/ \E c \in Customers : C!Order(c) \/ \E phone \in Phones : C!ChannelCustomer(c, phone)
             \/ \E g \in Groups : C!RemoveGroup(g) \/ \E c \in Customers : C!ByHand(g, c)
    BY <2>2, OrderKeepsMembers, ChannelCustomerKeeps, RemoveGroupKeeps, ByHandKeeps
  <2> QED
    BY <1>1, <2>1, <2>2 DEF C!Next
<1>2. CASE UNCHANGED C!vars
  <2>1. UNCHANGED <<customer, buying, group, members, saver, behind, savers>>
    BY <1>2 DEF C!vars
  <2>2. CustomerTypes'
    BY <2>1 DEF MembershipInv, CustomerTypes
  <2>3. RowsThere'
    BY <2>1 DEF MembershipInv, RowsThere, C!Present, C!There
  <2> QED
    BY <2>1, <2>2, <2>3, NoRequestStep
<1> QED
  BY <1>1, <1>2

\* Customers alone: their types, and that groups follow their rules.
LEMMA CustomersSound == C!Spec => [](C!TypeOK /\ C!GroupsFollowRules)
<1>1. MembershipInv => C!TypeOK
  <2> SUFFICES ASSUME MembershipInv PROVE C!TypeOK
    OBVIOUS
  <2>1. CustomerTypes /\ RowsThere
    BY DEF MembershipInv
  <2>2. \A c \in Customers : /\ customer[c].st \in {"none", "there", "gone"}
                             /\ customer[c].gender \in C!Genders \union {C!None}
    BY <2>1 DEF CustomerTypes, CustomerRow
  <2>3. \A g \in Groups : /\ group[g].st \in {"none", "there", "gone"}
                          /\ C!Auto(g) => group[g].rules # {}
    <3>1. {} \notin RuleSets
      BY ShopAssumption DEF C!CustomersAssumption
    <3> QED
      BY <2>1, <3>1 DEF CustomerTypes, GroupRow, RowsThere, C!Auto
  <2> QED
    BY <2>1, <2>2, <2>3 DEF CustomerTypes, RowsThere, C!TypeOK
<1>2. MembershipInv => C!GroupsFollowRules
  <2> SUFFICES ASSUME MembershipInv, ~savers, NEW g \in Groups, NEW c \in Customers,
                      C!Auto(g), <<c, g>> \notin behind,
                      \A q \in Savers : ~(saver[q].pc = "replace" /\ saver[q].g = g)
               PROVE  <<c, g>> \in members <=> C!Matches(customer[c], group[g].rules, group[g].any)
    BY DEF C!GroupsFollowRules
  <2>1. RightIn(c, g)
    BY DEF MembershipInv, MembersRight, Replacing
  <2> QED
    BY <2>1 DEF RightIn, Belongs
<1> QED
  BY <1>1, <1>2, CustomersInit, CustomersStep, PTL DEF C!Spec

-----------------------------------------------------------------------------
(* Groups and categories.                                                  *)

\* "Groups with rules are always right" as far as it is true: with requests that follow one
\* another a group has the members its rules name (CustomerGroupService), and when nothing
\* is under way a category has the products its conditions fit (evaluateAutoForProduct and
\* evaluateAutoForAllProducts), however requests overlapped before; but for what the model
\* says nobody has looked at.
THEOREM GroupsAlwaysFollowRules == Spec => []GroupsFollowRules
<1>1. C!GroupsFollowRules /\ T!CategoriesFollowRules => GroupsFollowRules
  BY DEF GroupsFollowRules
<1> QED
  BY <1>1, CustomersAsAlone, CategoriesAsAlone, CustomersSound, CategoriesSound, PTL

-----------------------------------------------------------------------------
(* The age of the stock (AgedInventory).                                   *)

\* Seen from this area a behaviour is one of AgedInventory.
LEMMA AgesAsAlone == Spec => G!Spec
<1>1. Init => G!Init
  BY DEF Init
<1>2. [Next]_vars => [G!Next]_(G!vars)
  BY DEF Next, vars, gVars, G!vars
<1> QED
  BY <1>1, <1>2, PTL DEF Spec, G!Spec

DayCounts == [G!Days -> Nat]

\* Units that came after a day.
After(c) == {e \in G!Days : e > c}
Since(f, c) == SumFunctionOnSet(f, After(c))

\* Where the days may be divided, before the first of them included.
Marks == {c \in Int : c >= 0 - 1 /\ c <= MaxDay}

\* A total of ages is a sum over the days.
LEMMA SumOfAges == \A f : G!Total(f) = SumFunctionOnSet(f, DOMAIN f)
BY DEF G!Total, G!SumFunction, SumFunction, G!SumFunctionOnSet, SumFunctionOnSet,
       G!FoldFunctionOnSet, FoldFunctionOnSet, G!MapThenFoldSet, MapThenFoldSet

\* There are finitely many days, and those after a day are among them.
LEMMA DaysFinite == /\ IsFiniteSet(G!Days) /\ G!Days \subseteq Nat
                    /\ \A c \in Int : IsFiniteSet(After(c)) /\ After(c) \subseteq G!Days
<1>1. IsFiniteSet(G!Days) /\ G!Days \subseteq Nat
  <2>1. MaxDay \in Nat /\ G!Days = 0..MaxDay
    BY ShopAssumption DEF G!Days, G!AgedAssumption
  <2> QED
    BY <2>1, FS_Interval
<1>2. ASSUME NEW c \in Int PROVE IsFiniteSet(After(c)) /\ After(c) \subseteq G!Days
  BY <1>1, FS_Subset DEF After
<1> QED
  BY <1>1, <1>2

\* Counts by day sum to naturals, and the days up to one hold the rest.
LEMMA CountsType ==
    ASSUME NEW f \in DayCounts, NEW c \in Int
    PROVE  /\ Since(f, c) \in Nat /\ G!Total(f) \in Nat /\ Since(f, c) <= G!Total(f)
           /\ SumFunctionOnSet(f, G!Days \ After(c)) = G!Total(f) - Since(f, c)
<1> DEFINE R == After(c)
<1>1. \A d \in G!Days : f[d] \in Nat /\ f[d] \in Int
  BY DEF DayCounts
<1>2. G!Total(f) = SumFunctionOnSet(f, G!Days)
  BY SumOfAges DEF DayCounts
<1>3. R \in SUBSET G!Days /\ IsFiniteSet(R) /\ IsFiniteSet(G!Days)
  BY DaysFinite
<1>4. Since(f, c) = SumFunctionOnSet(f, R)
  BY DEF Since
<1> HIDE DEF R
<1>5. Since(f, c) \in Nat
  BY <1>1, <1>3, <1>4, SumBounds
<1>6. IsFiniteSet(G!Days \ R)
  BY <1>3, FS_Subset
<1>7. SumFunctionOnSet(f, G!Days \ R) \in Nat
  BY <1>1, <1>6, SumBounds
<1>8. G!Total(f) = Since(f, c) + SumFunctionOnSet(f, G!Days \ R)
  BY <1>1, <1>2, <1>3, <1>4, SumInParts
<1> QED
  BY <1>5, <1>7, <1>8 DEF R

\* Of the units there are, those that lots newer than a day cover: what fifoLayers
\* gives to these lots.
LEMMA NewestFirst ==
    ASSUME NEW n \in Nat, NEW lots \in DayCounts
    PROVE  /\ G!Lots(n, lots) \in DayCounts
           /\ \A c \in Marks :
                Since(G!Lots(n, lots), c) =
                    IF Since(lots, c) <= n THEN Since(lots, c) ELSE n
<1> DEFINE taken == G!Lots(n, lots)
           least(a, b) == IF a <= b THEN a ELSE b
           lot(d) == IF lots[d] <= n - Since(lots, d) THEN lots[d]
                     ELSE IF n - Since(lots, d) <= 0 THEN 0 ELSE n - Since(lots, d)
<1>1. MaxDay \in Nat /\ G!Days = 0..MaxDay /\ \A d \in G!Days : lots[d] \in Nat
  BY ShopAssumption DEF G!Days, G!AgedAssumption, DayCounts
<1>2. \A c \in Marks : Since(lots, c) \in Nat
  BY CountsType DEF Marks
<1>3. ASSUME NEW d \in G!Days PROVE taken[d] = lot(d)
  <2> DEFINE newer == [e \in G!LotsBefore(d) |-> lots[e]]
             x == n - Since(lots, d)
             y == G!Min({lots[d], x})
  <2>1. After(d) = G!LotsBefore(d) /\ d \in Int
    BY <1>1 DEF After, G!LotsBefore
  <2>2. G!SumFunction(newer) = SumFunctionOnSet(newer, After(d))
    <3>1. DOMAIN newer = After(d)
      BY <2>1
    <3> HIDE DEF newer
    <3> QED
      BY <3>1, SumOfAges DEF G!Total
  <2>3. \A e \in After(d) : newer[e] = lots[e]
    BY <2>1
  <2>4. SumFunctionOnSet(newer, After(d)) = Since(lots, d)
    <3> HIDE DEF newer
    <3> QED
      BY <2>1, <2>3, DaysFinite, SumSame DEF Since
  <2>5. taken[d] = G!Max({0, y})
    <3>1. taken[d] = G!Max({0, G!Min({lots[d], n - G!SumFunction(newer)})})
      BY DEF G!Lots
    <3> HIDE DEF taken, newer
    <3> QED
      BY <2>2, <2>4, <3>1
  <2>6. lots[d] \in Nat /\ x \in Int
    BY <1>1, <1>2 DEF Marks
  <2> HIDE DEF x, taken
  <2>7. y = least(lots[d], x)
    BY <2>6 DEF G!Min
  <2> HIDE DEF y
  <2>8. G!Max({0, y}) = IF y <= 0 THEN 0 ELSE y
    BY <2>6, <2>7 DEF G!Max
  <2> QED
    BY <2>5, <2>6, <2>7, <2>8 DEF x
<1>4. taken \in DayCounts
  <2>1. ASSUME NEW d \in G!Days PROVE taken[d] \in Nat
    <3>1. Since(lots, d) \in Nat /\ lots[d] \in Nat
      BY <1>1, <1>2 DEF Marks
    <3> HIDE DEF taken
    <3> QED
      BY <1>3, <3>1
  <2>2. taken = [d \in G!Days |-> taken[d]]
    BY DEF G!Lots
  <2> HIDE DEF taken
  <2> QED
    BY <2>1, <2>2 DEF DayCounts
<1> HIDE DEF taken
<1> DEFINE Right(c) == Since(taken, c) = least(Since(lots, c), n)
           Wrong == {k \in 0..MaxDay + 1 : ~Right(MaxDay - k)}
<1>5. Wrong = {}
  <2> SUFFICES ASSUME Wrong # {} PROVE FALSE
    OBVIOUS
  <2>1. Wrong \subseteq Nat
    OBVIOUS
  <2>2. PICK k \in Wrong : \A j \in Wrong : k <= j
    <3> HIDE DEF Wrong
    <3> QED
      BY <2>1, LeastNatural
  <2> DEFINE d == MaxDay - k + 1
             c == MaxDay - k
  <2>3. k \in 0..MaxDay + 1 /\ ~Right(c)
    BY <2>2
  <2>4. CASE k = 0
    <3>1. After(MaxDay) = {}
      BY <1>1 DEF After
    <3>2. Since(taken, MaxDay) = 0 /\ Since(lots, MaxDay) = 0
      BY <3>1, SumOfNone DEF Since
    <3> QED
      BY <1>1, <2>3, <2>4, <3>2
  <2>5. CASE k > 0
    <3>1. k - 1 \in 0..MaxDay + 1 /\ MaxDay - (k - 1) = d /\ c = d - 1 /\ d \in G!Days
      BY <1>1, <2>3, <2>5
    <3>2. k - 1 \notin Wrong
      BY <2>2, <2>3, <2>5
    <3>3. Right(d)
      BY <3>1, <3>2
    <3>4. After(c) \ {d} = After(d) /\ d \in After(c)
      BY <1>1, <3>1 DEF After
    <3>5. \A f \in DayCounts : Since(f, c) = f[d] + Since(f, d)
      <4> SUFFICES ASSUME NEW f \in DayCounts PROVE Since(f, c) = f[d] + Since(f, d)
        OBVIOUS
      <4> DEFINE R == After(c)
      <4>1. IsFiniteSet(R) /\ R \subseteq G!Days
        BY <1>1, <3>1, DaysFinite
      <4>2. \A x \in R : f[x] \in Int
        BY <4>1 DEF DayCounts
      <4> HIDE DEF R
      <4>3. \A x \in R : SumFunctionOnSet(f, R) = f[x] + SumFunctionOnSet(f, R \ {x})
        BY <4>1, <4>2, SumTakeOut
      <4> QED
        BY <3>4, <4>3 DEF Since, R
    <3>6. Since(taken, c) = taken[d] + Since(taken, d) /\ Since(lots, c) = lots[d] + Since(lots, d)
      BY <1>4, <3>5
    <3>7. Since(lots, d) \in Nat /\ lots[d] \in Nat
      BY <1>1, <1>2, <3>1 DEF Marks
    <3>8. taken[d] = lot(d) /\ Since(taken, d) = least(Since(lots, d), n)
      BY <1>3, <3>1, <3>3
    <3> HIDE DEF d, c
    <3>9. Since(taken, c) = least(Since(lots, c), n)
      BY <3>6, <3>7, <3>8
    <3> QED
      BY <2>3, <3>9
  <2> QED
    BY <2>3, <2>4, <2>5
<1>6. ASSUME NEW c \in Marks PROVE Right(c)
  <2>1. MaxDay - c \in 0..MaxDay + 1 /\ MaxDay - (MaxDay - c) = c
    BY <1>1 DEF Marks
  <2> QED
    BY <1>5, <2>1
<1> QED
  BY <1>4, <1>6 DEF taken

\* Every unit is in a layer, and as many are newer than a day as a lot was received for,
\* when no more of them are there than that.
LEMMA LayersAreYoung ==
    ASSUME NEW n \in Nat, NEW lots \in DayCounts, NEW seen \in DayCounts, n = G!Total(seen)
    PROVE  /\ G!Layers(n, lots) \in DayCounts
           /\ G!Total(G!Layers(n, lots)) = n
           /\ (\A d \in G!Days \ {0} : seen[d] <= lots[d]) =>
                \A c \in 0..MaxDay : Since(seen, c) <= Since(G!Layers(n, lots), c)
<1> DEFINE taken == G!Lots(n, lots)
           used == {CreatedOn} \union {d \in G!Days : taken[d] > 0}
           since == G!Min(used)
           rest == n - G!Total(taken)
           layers == [taken EXCEPT ![since] = @ + rest]
<1>1. MaxDay \in Nat /\ G!Days = 0..MaxDay /\ CreatedOn \in G!Days
  BY ShopAssumption DEF G!Days, G!AgedAssumption
<1>2. G!Layers(n, lots) = layers
  BY DEF G!Layers
<1>3. taken \in DayCounts
  BY NewestFirst
<1>4. \A c \in Marks :
          Since(taken, c) = IF Since(lots, c) <= n THEN Since(lots, c) ELSE n
  BY NewestFirst
<1> HIDE DEF taken
<1>5. since \in G!Days
  <2>1. used \subseteq Nat /\ used # {} /\ used \subseteq G!Days
    BY <1>1
  <2> HIDE DEF used
  <2>2. \E x \in used : \A y \in used : x <= y
    BY <2>1, LeastNatural
  <2>3. since \in used
    BY <2>2 DEF G!Min
  <2> QED
    BY <2>1, <2>3
<1> HIDE DEF used, since
<1>6. G!Total(taken) \in Nat /\ G!Total(taken) <= n
  <2>1. After(0 - 1) = G!Days
    BY <1>1 DEF After
  <2>2. Since(taken, 0 - 1) = G!Total(taken)
    BY <1>3, <2>1, SumOfAges DEF Since, DayCounts
  <2>3. Since(lots, 0 - 1) \in Nat /\ 0 - 1 \in Marks
    <3>1. 0 - 1 \in Int /\ 0 - 1 \in Marks
      BY <1>1 DEF Marks
    <3> QED
      BY <3>1, CountsType
  <2>4. Since(taken, 0 - 1) = IF Since(lots, 0 - 1) <= n THEN Since(lots, 0 - 1) ELSE n
    BY <1>4, <2>3
  <2> QED
    BY <2>2, <2>3, <2>4
<1>7. rest \in Nat
  BY <1>6
<1> HIDE DEF rest
<1>8. layers \in DayCounts /\ \A d \in G!Days : taken[d] \in Nat /\ taken[d] <= layers[d]
  BY <1>3, <1>5, <1>7 DEF DayCounts
<1>9. G!Total(layers) = n
  <2>1. DOMAIN layers = G!Days /\ DOMAIN taken = G!Days
    BY <1>3 DEF DayCounts
  <2>2. layers[since] = taken[since] + rest /\ taken[since] \in Nat
    BY <1>3, <1>5 DEF DayCounts
  <2>3. /\ \A d \in G!Days : taken[d] \in Int /\ layers[d] \in Int
        /\ \A d \in G!Days \ {since} : layers[d] = taken[d]
    BY <1>3, <1>8 DEF DayCounts
  <2> HIDE DEF layers
  <2>4. SumFunctionOnSet(layers, G!Days)
           = SumFunctionOnSet(taken, G!Days) + layers[since] - taken[since]
    BY <1>5, <2>3, DaysFinite, SumChange
  <2>5. G!Total(layers) = G!Total(taken) + layers[since] - taken[since]
    BY <2>1, <2>4, SumOfAges
  <2> QED
    BY <1>6, <1>7, <2>2, <2>5 DEF rest
<1> HIDE DEF layers
<1>10. ASSUME \A d \in G!Days \ {0} : seen[d] <= lots[d], NEW c \in 0..MaxDay
       PROVE  Since(seen, c) <= Since(layers, c)
  <2>1. c \in Marks /\ c \in Int
    BY <1>1 DEF Marks
  <2>2. /\ Since(seen, c) \in Nat /\ Since(seen, c) <= n
        /\ Since(lots, c) \in Nat /\ Since(taken, c) \in Nat /\ Since(layers, c) \in Nat
    BY <1>3, <1>8, <2>1, CountsType
  <2>3. After(c) \subseteq G!Days \ {0} /\ IsFiniteSet(After(c))
    BY <1>1, <2>1, DaysFinite DEF After
  <2>4. \A d \in After(c) : /\ seen[d] \in Int /\ lots[d] \in Int /\ seen[d] <= lots[d]
                            /\ taken[d] \in Int /\ layers[d] \in Int
                            /\ taken[d] <= layers[d]
    BY <1>8, <1>10, <2>3 DEF DayCounts
  <2>5. Since(seen, c) <= Since(lots, c)
    BY <2>3, <2>4, SumAtMost DEF Since
  <2>6. Since(taken, c) <= Since(layers, c)
    BY <2>3, <2>4, SumAtMost DEF Since
  <2>7. Since(taken, c) = IF Since(lots, c) <= n THEN Since(lots, c) ELSE n
    BY <1>4, <2>1
  <2> QED
    BY <2>2, <2>5, <2>6, <2>7
<1> QED
  BY <1>2, <1>8, <1>9, <1>10

\* So of any age there are at most as many units in the layers as were seen.
LEMMA LayersNotOlder ==
    ASSUME NEW n \in Nat, NEW lots \in DayCounts, NEW seen \in DayCounts, n = G!Total(seen),
           \A d \in G!Days \ {0} : seen[d] <= lots[d],
           NEW asOf \in G!Days, NEW minDays \in G!Days
    PROVE  G!AgedQty(G!Layers(n, lots), minDays, asOf) <= G!AgedQty(seen, minDays, asOf)
<1> DEFINE layers == G!Layers(n, lots)
           Old == {e \in G!Days : G!Max({0, asOf - e}) >= minDays}
           c == asOf - minDays
<1>1. MaxDay \in Nat /\ G!Days = 0..MaxDay
  BY ShopAssumption DEF G!Days, G!AgedAssumption
<1>2. /\ layers \in DayCounts /\ G!Total(layers) = n
      /\ \A b \in 0..MaxDay : Since(seen, b) <= Since(layers, b)
  BY LayersAreYoung
<1>3. \A d \in G!Days : G!Max({0, asOf - d}) = IF asOf - d <= 0 THEN 0 ELSE asOf - d
  <2> SUFFICES ASSUME NEW d \in G!Days
               PROVE  G!Max({0, asOf - d}) = IF asOf - d <= 0 THEN 0 ELSE asOf - d
    OBVIOUS
  <2>1. asOf - d \in Int
    BY <1>1
  <2> QED
    BY <2>1 DEF G!Max
<1> HIDE DEF layers
<1>4. \A f \in DayCounts : G!AgedQty(f, minDays, asOf) = SumFunctionOnSet(f, Old)
  <2> SUFFICES ASSUME NEW f \in DayCounts
               PROVE  G!AgedQty(f, minDays, asOf) = SumFunctionOnSet(f, Old)
    OBVIOUS
  <2> DEFINE g == [d \in Old |-> f[d]]
  <2>1. G!AgedQty(f, minDays, asOf) = G!Total(g)
    BY DEF G!AgedQty, G!Total
  <2>2. DOMAIN g = Old /\ \A d \in Old : g[d] = f[d]
    OBVIOUS
  <2>3. IsFiniteSet(Old)
    BY DaysFinite, FS_Subset
  <2> HIDE DEF g, Old
  <2>4. G!Total(g) = SumFunctionOnSet(g, Old)
    BY <2>2, SumOfAges
  <2> QED
    BY <2>1, <2>2, <2>3, <2>4, SumSame
<1> HIDE DEF Old
<1>5. \A d \in G!Days : d \in Old <=> minDays = 0 \/ d <= c
  <2> SUFFICES ASSUME NEW d \in G!Days PROVE d \in Old <=> minDays = 0 \/ d <= c
    OBVIOUS
  <2> DEFINE age == G!Max({0, asOf - d})
  <2>1. d \in Old <=> age >= minDays
    BY DEF Old
  <2>2. age = IF asOf - d <= 0 THEN 0 ELSE asOf - d
    BY <1>3
  <2>3. d \in Nat /\ asOf \in Nat /\ minDays \in Nat
    BY <1>1
  <2> HIDE DEF age
  <2> QED
    BY <2>1, <2>2, <2>3
<1>6. Old \subseteq G!Days /\ asOf \in Nat /\ minDays \in Nat /\ asOf <= MaxDay
  BY <1>1 DEF Old
<1>7. CASE minDays = 0
  <2>1. Old = G!Days
    BY <1>5, <1>6, <1>7
  <2>2. DOMAIN seen = G!Days /\ DOMAIN layers = G!Days
    BY <1>2 DEF DayCounts
  <2>3. G!AgedQty(layers, minDays, asOf) = G!Total(layers)
    BY <1>2, <1>4, <2>1, <2>2, SumOfAges
  <2>4. G!AgedQty(seen, minDays, asOf) = G!Total(seen)
    BY <1>4, <2>1, <2>2, SumOfAges
  <2> QED
    BY <1>2, <2>3, <2>4 DEF layers
<1>8. CASE minDays > 0 /\ c < 0
  <2>1. Old = {}
    BY <1>1, <1>5, <1>6, <1>8
  <2>2. G!AgedQty(layers, minDays, asOf) = 0 /\ G!AgedQty(seen, minDays, asOf) = 0
    BY <1>2, <1>4, <2>1, SumOfNone
  <2> QED
    BY <2>2 DEF layers
<1>9. CASE minDays > 0 /\ c >= 0
  <2>1. c \in 0..MaxDay /\ c \in Int
    BY <1>1, <1>6, <1>9
  <2>2. ASSUME NEW d \in G!Days PROVE d \in Old <=> d \notin After(c)
    <3>1. d \in Old <=> d <= c
      BY <1>5, <1>6, <1>9
    <3>2. d \in Int
      BY <1>1
    <3> HIDE DEF c
    <3>3. d \in After(c) <=> d > c
      BY DEF After
    <3> QED
      BY <2>1, <3>1, <3>2, <3>3
  <2>3. Old = G!Days \ After(c)
    BY <1>6, <2>2 DEF After
  <2> HIDE DEF c
  <2>4. /\ G!AgedQty(layers, minDays, asOf) = n - Since(layers, c)
        /\ Since(layers, c) \in Nat
    BY <1>2, <1>4, <2>1, <2>3, CountsType
  <2>5. /\ G!AgedQty(seen, minDays, asOf) = n - Since(seen, c)
        /\ Since(seen, c) \in Nat
    BY <1>4, <2>1, <2>3, CountsType
  <2>6. Since(seen, c) <= Since(layers, c)
    BY <1>2, <2>1
  <2> QED
    BY <2>4, <2>5, <2>6 DEF layers
<1> QED
  BY <1>6, <1>7, <1>8, <1>9

-----------------------------------------------------------------------------

\* Units of a day at some of the locations.
Held(rows, locations, d) == SumFunctionOnSet([l \in Stores |-> rows[l][d]], locations)

Run == [pc : {"stock", "write"}, asOf : G!Days, todo : SUBSET Stores, onHand : Nat,
        lots : DayCounts, seen : DayCounts]

AgedTypes ==
    /\ shelf \in [Stores -> DayCounts]
    /\ receipts \in DayCounts /\ sold \in DayCounts
    /\ day \in G!Days
    /\ shifted \in BOOLEAN
    /\ build \in {G!NoBuild} \union Run
    /\ snapshot.st \in {"none", "there"}

\* Whatever came after the first day came with a receipt, and while nothing moved, what a
\* run has counted and what it has still to count did so too.
Covered == \A d \in G!Days \ {0} : Held(shelf, Stores, d) + sold[d] <= receipts[d]

RunCovered(x) ==
    /\ x.onHand = G!Total(x.seen)
    /\ ~shifted /\ x.pc = "stock" =>
            \A d \in G!Days \ {0} : x.seen[d] + Held(shelf, x.todo, d) <= receipts[d]
    /\ ~shifted /\ x.pc = "write" => \A d \in G!Days \ {0} : x.seen[d] <= x.lots[d]

AgedInv ==
    /\ AgedTypes /\ Covered
    /\ build # G!NoBuild => RunCovered(build)
    /\ G!NeverOlderThanTruth

\* There are finitely many stores.
LEMMA StoresFinite == IsFiniteSet(Stores) /\ \A S \in SUBSET Stores : IsFiniteSet(S)
<1>1. IsFiniteSet(Stores)
  BY ShopAssumption DEF G!AgedAssumption, G!IsFiniteSet, IsFiniteSet
<1> QED
  BY <1>1, FS_Subset

\* At the start the shelves hold the opening stock and no snapshot is built.
LEMMA AgedInit == G!Init => AgedInv
<1> SUFFICES ASSUME G!Init PROVE AgedInv
  OBVIOUS
<1>1. /\ G!Days = 0..MaxDay /\ 0 \in G!Days /\ CreatedOn \in G!Days
      /\ Opening \in [Stores -> Nat]
  BY ShopAssumption DEF G!Days, G!AgedAssumption
<1>2. G!NoUnits \in DayCounts
  BY DEF G!NoUnits, DayCounts
<1>3. \A l \in Stores : [G!NoUnits EXCEPT ![0] = Opening[l]] \in DayCounts
  BY <1>1, <1>2 DEF DayCounts
<1>4. AgedTypes
  BY <1>1, <1>2, <1>3 DEF G!Init, AgedTypes, G!NoSnapshot
<1>5. Covered
  <2> SUFFICES ASSUME NEW d \in G!Days \ {0} PROVE Held(shelf, Stores, d) + sold[d] <= receipts[d]
    BY DEF Covered
  <2> DEFINE f == [l \in Stores |-> shelf[l][d]]
  <2>1. \A l \in Stores : f[l] = 0
    BY <1>2 DEF G!Init, G!NoUnits
  <2> HIDE DEF f
  <2>2. SumFunctionOnSet(f, Stores) = 0
    BY <2>1, StoresFinite, SumOfZeros
  <2>3. Held(shelf, Stores, d) = 0
    BY <2>2 DEF Held, f
  <2>4. sold[d] = 0 /\ receipts[d] = 0
    BY DEF G!Init, G!NoUnits
  <2> QED
    BY <2>3, <2>4
<1> QED
  BY <1>4, <1>5 DEF AgedInv, G!Init, G!NeverOlderThanTruth, G!NoSnapshot

\* What stores hold from one day is a natural.
LEMMA HeldType ==
    ASSUME NEW rows \in [Stores -> DayCounts], NEW S \in SUBSET Stores, NEW d \in G!Days
    PROVE  Held(rows, S, d) \in Nat
<1> DEFINE f == [l \in Stores |-> rows[l][d]]
<1>1. \A l \in S : f[l] \in Nat
  BY DEF DayCounts
<1> HIDE DEF f
<1>2. SumFunctionOnSet(f, S) \in Nat
  BY <1>1, StoresFinite, SumBounds
<1> QED
  BY <1>2 DEF Held, f

\* Units come to, or leave, one location.
LEMMA HeldOne ==
    ASSUME NEW old \in [Stores -> DayCounts], NEW new \in [Stores -> DayCounts],
           NEW S \in SUBSET Stores, NEW e \in G!Days, NEW l \in Stores,
           \A m \in Stores \ {l} : new[m][e] = old[m][e]
    PROVE  /\ l \in S => Held(new, S, e) = Held(old, S, e) + new[l][e] - old[l][e]
           /\ l \notin S => Held(new, S, e) = Held(old, S, e)
<1> DEFINE f == [m \in Stores |-> old[m][e]]
           g == [m \in Stores |-> new[m][e]]
<1>1. \A m \in Stores : f[m] = old[m][e] /\ g[m] = new[m][e] /\ f[m] \in Int /\ g[m] \in Int
  BY DEF DayCounts
<1>2. Held(new, S, e) = SumFunctionOnSet(g, S) /\ Held(old, S, e) = SumFunctionOnSet(f, S)
  BY DEF Held
<1> HIDE DEF f, g
<1>3. IsFiniteSet(S) /\ S \subseteq Stores
  BY StoresFinite
<1>4. CASE l \in S
  <2>1. /\ \A m \in S : f[m] \in Int /\ g[m] \in Int
        /\ \A m \in S \ {l} : g[m] = f[m]
    BY <1>1, <1>3
  <2>2. SumFunctionOnSet(g, S) = SumFunctionOnSet(f, S) + g[l] - f[l]
    BY <1>3, <1>4, <2>1, SumChange
  <2> QED
    BY <1>1, <1>2, <1>4, <2>2
<1>5. CASE l \notin S
  <2>1. \A m \in S : f[m] = g[m]
    BY <1>1, <1>3, <1>5
  <2> QED
    BY <1>2, <1>3, <1>5, <2>1, SumSame
<1> QED
  BY <1>4, <1>5

\* Units go from one location to another.
LEMMA ShelvesMoved ==
    ASSUME AgedTypes, NEW l \in Stores, NEW m \in Stores, NEW d \in G!Days, G!Move(l, m, d)
    PROVE  /\ shelf' \in [Stores -> DayCounts]
           /\ shelf'[l][d] = shelf[l][d] - 1 /\ shelf'[m][d] = shelf[m][d] + 1
           /\ \A n \in Stores, e \in G!Days :
                n \notin {l, m} \/ e # d => shelf'[n][e] = shelf[n][e]
<1> DEFINE from == [shelf[l] EXCEPT ![d] = @ - 1]
           to == [shelf[m] EXCEPT ![d] = @ + 1]
<1>1. shelf \in [Stores -> DayCounts] /\ shelf[l] \in DayCounts /\ shelf[m] \in DayCounts
  BY DEF AgedTypes
<1>0. shelf[l][d] > 0
  BY DEF G!Move
<1>2. /\ from \in DayCounts /\ from[d] = shelf[l][d] - 1
      /\ \A e \in G!Days \ {d} : from[e] = shelf[l][e]
      /\ to \in DayCounts /\ to[d] = shelf[m][d] + 1
      /\ \A e \in G!Days \ {d} : to[e] = shelf[m][e]
  BY <1>0, <1>1 DEF DayCounts
<1>3. l # m /\ shelf' = [shelf EXCEPT ![l] = from, ![m] = to]
  BY <1>1 DEF G!Move
<1> HIDE DEF from, to
<1>4. shelf' \in [Stores -> DayCounts]
  BY <1>1, <1>2, <1>3
<1>5. /\ shelf'[l] = from /\ shelf'[m] = to
      /\ \A n \in Stores \ {l, m} : shelf'[n] = shelf[n]
  BY <1>1, <1>3
<1>6. shelf'[l][d] = shelf[l][d] - 1 /\ shelf'[m][d] = shelf[m][d] + 1
  BY <1>2, <1>5
<1>7. ASSUME NEW n \in Stores, NEW e \in G!Days, n \notin {l, m} \/ e # d
      PROVE  shelf'[n][e] = shelf[n][e]
  <2>1. CASE n \notin {l, m}
    BY <1>5, <2>1
  <2>2. CASE n = l /\ e # d
    BY <1>2, <1>5, <2>2
  <2>3. CASE n = m /\ e # d
    BY <1>2, <1>5, <2>3
  <2> QED
    BY <1>7, <2>1, <2>2, <2>3
<1> QED
  BY <1>4, <1>6, <1>7

\* Moving goods between stores changes no day's total.
LEMMA HeldMoved ==
    ASSUME AgedTypes, NEW l \in Stores, NEW m \in Stores, NEW d \in G!Days, G!Move(l, m, d)
    PROVE  \A e \in G!Days : Held(shelf', Stores, e) = Held(shelf, Stores, e)
<1> SUFFICES ASSUME NEW e \in G!Days PROVE Held(shelf', Stores, e) = Held(shelf, Stores, e)
  OBVIOUS
<1> DEFINE f == [n \in Stores |-> shelf[n][e]]
           k == IF e = d THEN 0 - 1 ELSE 0
<1>a. shelf'[l][d] = shelf[l][d] - 1 /\ shelf'[m][d] = shelf[m][d] + 1
  BY ShelvesMoved
<1>b. \A n \in Stores : n \notin {l, m} \/ e # d => shelf'[n][e] = shelf[n][e]
  BY ShelvesMoved
<1>c. l # m
  BY DEF G!Move
<1>1. PICK g : g = [n \in Stores |-> shelf'[n][e]]
  OBVIOUS
<1>2. \A n \in Stores : f[n] = shelf[n][e] /\ g[n] = shelf'[n][e] /\ f[n] \in Int
  BY <1>1 DEF AgedTypes, DayCounts
<1> HIDE DEF f
<1>3. k \in Int
  OBVIOUS
<1>4. \A n \in Stores \ {l, m} : g[n] = f[n]
  BY <1>a, <1>b, <1>c, <1>2
<1>5. g[l] = f[l] + k /\ g[m] = f[m] - k
  BY <1>a, <1>b, <1>c, <1>2
<1> HIDE DEF k
<1>6. SumFunctionOnSet(g, Stores) = SumFunctionOnSet(f, Stores)
  BY <1>a, <1>b, <1>c, <1>2, <1>3, <1>4, <1>5, StoresFinite, SumMoved
<1> QED
  BY <1>1, <1>6 DEF f, Held

\* One location's units of a day change: whatever comes, goes or is sent back while a run
\* counts, what it has counted stays covered, or it knows that goods moved.
LEMMA CellKeeps ==
    ASSUME AgedInv, NEW l \in Stores, NEW d \in G!Days,
           shelf' \in [Stores -> DayCounts], receipts' \in DayCounts, sold' \in DayCounts,
           \A m \in Stores, e \in G!Days : m # l \/ e # d => shelf'[m][e] = shelf[m][e],
           \A e \in G!Days \ {d} : receipts'[e] = receipts[e] /\ sold'[e] = sold[e],
           (shelf'[l][d] - shelf[l][d]) + (sold'[d] - sold[d]) <= receipts'[d] - receipts[d],
           UNCHANGED <<day, build, snapshot>>, shifted' \in BOOLEAN,
           \/ shifted' \/ build = G!NoBuild
           \/ /\ UNCHANGED shifted /\ receipts'[d] >= receipts[d]
              /\ shelf'[l][d] - shelf[l][d] <= receipts'[d] - receipts[d]
    PROVE  AgedInv'
<1>1. /\ AgedTypes /\ Covered /\ G!NeverOlderThanTruth
      /\ build # G!NoBuild => build \in Run /\ RunCovered(build)
  BY DEF AgedInv, AgedTypes
<1>2. shelf \in [Stores -> DayCounts] /\ receipts \in DayCounts /\ sold \in DayCounts
  BY <1>1 DEF AgedTypes
<1>3. AgedTypes'
  BY <1>1 DEF AgedTypes
<1>4. ASSUME NEW S \in SUBSET Stores, NEW e \in G!Days
      PROVE  /\ Held(shelf', S, e) \in Nat /\ Held(shelf, S, e) \in Nat
             /\ receipts[e] \in Nat /\ receipts'[e] \in Nat
             /\ sold[e] \in Nat /\ sold'[e] \in Nat
             /\ shelf[l][e] \in Nat /\ shelf'[l][e] \in Nat
             /\ l \in S => Held(shelf', S, e) = Held(shelf, S, e) + shelf'[l][e] - shelf[l][e]
             /\ l \notin S => Held(shelf', S, e) = Held(shelf, S, e)
  <2>1. /\ receipts[e] \in Nat /\ receipts'[e] \in Nat
        /\ sold[e] \in Nat /\ sold'[e] \in Nat
        /\ shelf[l][e] \in Nat /\ shelf'[l][e] \in Nat
    BY <1>2 DEF DayCounts
  <2>2. Held(shelf', S, e) \in Nat /\ Held(shelf, S, e) \in Nat
    BY <1>2, HeldType
  <2>3. \A m \in Stores \ {l} : shelf'[m][e] = shelf[m][e]
    OBVIOUS
  <2>4. /\ l \in S => Held(shelf', S, e) = Held(shelf, S, e) + shelf'[l][e] - shelf[l][e]
        /\ l \notin S => Held(shelf', S, e) = Held(shelf, S, e)
    BY <1>2, <2>3, HeldOne
  <2> QED
    BY <2>1, <2>2, <2>4
<1>5. Covered'
  <2> SUFFICES ASSUME NEW e \in G!Days \ {0}
               PROVE  Held(shelf', Stores, e) + sold'[e] <= receipts'[e]
    BY DEF Covered
  <2>1. Held(shelf, Stores, e) + sold[e] <= receipts[e] /\ Stores \in SUBSET Stores
    BY <1>1 DEF Covered
  <2>2. (shelf'[l][e] - shelf[l][e]) + (sold'[e] - sold[e]) <= receipts'[e] - receipts[e]
    <3>1. CASE e = d
      BY <3>1
    <3>2. CASE e # d
      <4>1. shelf'[l][e] = shelf[l][e] /\ sold'[e] = sold[e] /\ receipts'[e] = receipts[e]
        BY <3>2
      <4> QED
        BY <1>4, <2>1, <4>1
    <3> QED
      BY <3>1, <3>2
  <2> QED
    BY <1>4, <2>1, <2>2
<1>6. ASSUME build # G!NoBuild PROVE RunCovered(build)'
  <2>1. build \in Run /\ RunCovered(build)
    BY <1>1, <1>6
  <2>2. build.todo \in SUBSET Stores /\ \A e \in G!Days : build.seen[e] \in Nat
    BY <2>1 DEF Run, DayCounts
  <2>3. ASSUME ~shifted', build.pc = "stock", NEW e \in G!Days \ {0}
        PROVE  build.seen[e] + Held(shelf', build.todo, e) <= receipts'[e]
    <3>1. /\ UNCHANGED shifted /\ receipts'[d] >= receipts[d]
          /\ shelf'[l][d] - shelf[l][d] <= receipts'[d] - receipts[d]
      BY <1>6, <2>3
    <3>2. build.seen[e] + Held(shelf, build.todo, e) <= receipts[e]
      BY <2>1, <2>3, <3>1 DEF RunCovered
    <3>3. /\ receipts'[e] >= receipts[e]
          /\ shelf'[l][e] - shelf[l][e] <= receipts'[e] - receipts[e]
      <4>1. CASE e = d
        BY <3>1, <4>1
      <4>2. CASE e # d
        <5>1. shelf'[l][e] = shelf[l][e] /\ receipts'[e] = receipts[e]
          BY <4>2
        <5> QED
          BY <1>4, <2>2, <5>1
      <4> QED
        BY <4>1, <4>2
    <3> QED
      BY <1>4, <2>2, <3>2, <3>3
  <2>4. ASSUME ~shifted', build.pc = "write" PROVE ~shifted
    BY <1>6, <2>4
  <2> QED
    BY <2>1, <2>3, <2>4 DEF RunCovered
<1> QED
  BY <1>1, <1>3, <1>5, <1>6 DEF AgedInv, G!NeverOlderThanTruth

\* What one cell, or one day's count, becomes.
SetDay(g, f, d, n) == g = [f EXCEPT ![d] = n]
SetCell(g, f, l, d, n) == g = [f EXCEPT ![l] = [f[l] EXCEPT ![d] = n]]

\* Counts in which one day is set differ in that day only.
LEMMA OneMore ==
    ASSUME NEW f \in DayCounts, NEW d \in G!Days, NEW n \in Nat, NEW g, SetDay(g, f, d, n)
    PROVE  g \in DayCounts /\ g[d] = n /\ \A e \in G!Days \ {d} : g[e] = f[e]
BY DEF DayCounts, SetDay

\* A table in which one cell is set differs in that cell only.
LEMMA OneCell ==
    ASSUME NEW f \in [Stores -> DayCounts], NEW l \in Stores, NEW d \in G!Days, NEW n \in Nat,
           NEW g, SetCell(g, f, l, d, n)
    PROVE  /\ g \in [Stores -> DayCounts] /\ g[l][d] = n
           /\ \A m \in Stores, e \in G!Days : m # l \/ e # d => g[m][e] = f[m][e]
<1>1. PICK row : row = [f[l] EXCEPT ![d] = n]
  OBVIOUS
<1>2. row \in DayCounts /\ row[d] = n /\ \A e \in G!Days \ {d} : row[e] = f[l][e]
  BY <1>1 DEF DayCounts
<1>3. g = [f EXCEPT ![l] = row]
  BY <1>1 DEF SetCell
<1> QED
  BY <1>2, <1>3

\* The numbers a step on one cell works with.
LEMMA CellTypes ==
    ASSUME AgedInv, NEW l \in Stores, NEW d \in G!Days
    PROVE  /\ shelf \in [Stores -> DayCounts] /\ receipts \in DayCounts /\ sold \in DayCounts
           /\ day \in G!Days /\ shifted \in BOOLEAN /\ (build # G!NoBuild) \in BOOLEAN
           /\ shelf[l][d] \in Nat /\ receipts[d] \in Nat /\ sold[d] \in Nat
BY DEF AgedInv, AgedTypes, DayCounts

\* Goods received while a snapshot is built are on a day the count of receipts may have.
LEMMA ReceiveKeeps == ASSUME AgedInv, NEW l \in Stores, G!Receive(l) PROVE AgedInv'
<1>1. /\ shelf \in [Stores -> DayCounts] /\ receipts \in DayCounts /\ sold \in DayCounts
      /\ day \in G!Days /\ shifted \in BOOLEAN
  BY DEF AgedInv, AgedTypes
<1>2. shelf[l][day] \in Nat /\ receipts[day] \in Nat /\ sold[day] \in Nat
  BY <1>1, CellTypes
<1>3. PICK n \in Nat, m \in Nat : n = shelf[l][day] + 1 /\ m = receipts[day] + 1
  BY <1>2
<1>4. /\ SetCell(shelf', shelf, l, day, n) /\ SetDay(receipts', receipts, day, m)
      /\ UNCHANGED <<sold, day, build, snapshot, shifted>>
  BY <1>3 DEF G!Receive, SetCell, SetDay
<1>5. /\ shelf' \in [Stores -> DayCounts] /\ shelf'[l][day] = n
      /\ \A k \in Stores, e \in G!Days : k # l \/ e # day => shelf'[k][e] = shelf[k][e]
  BY <1>1, <1>3, <1>4, OneCell
<1>6. /\ receipts' \in DayCounts /\ receipts'[day] = m
      /\ \A e \in G!Days \ {day} : receipts'[e] = receipts[e]
  BY <1>1, <1>3, <1>4, OneMore
<1>7. /\ (shelf'[l][day] - shelf[l][day]) + (sold'[day] - sold[day])
             <= receipts'[day] - receipts[day]
      /\ receipts'[day] >= receipts[day]
      /\ shelf'[l][day] - shelf[l][day] <= receipts'[day] - receipts[day]
  BY <1>2, <1>3, <1>4, <1>5, <1>6
<1> QED
  BY <1>1, <1>4, <1>5, <1>6, <1>7, CellKeeps

\* A sale beside the building takes units from the shelf the pages are read from.
LEMMA SellKeeps ==
    ASSUME AgedInv, NEW l \in Stores, NEW d \in G!Days, G!Sell(l, d)
    PROVE  AgedInv'
<1>1. /\ shelf \in [Stores -> DayCounts] /\ receipts \in DayCounts /\ sold \in DayCounts
      /\ shifted \in BOOLEAN
      /\ shelf[l][d] \in Nat /\ receipts[d] \in Nat /\ sold[d] \in Nat
  BY CellTypes
<1>2. PICK n \in Nat, m \in Nat : n = shelf[l][d] - 1 /\ m = sold[d] + 1
  BY <1>1 DEF G!Sell
<1>3. /\ SetCell(shelf', shelf, l, d, n) /\ SetDay(sold', sold, d, m)
      /\ UNCHANGED <<receipts, day, build, snapshot, shifted>>
  BY <1>2 DEF G!Sell, SetCell, SetDay
<1>4. /\ shelf' \in [Stores -> DayCounts] /\ shelf'[l][d] = n
      /\ \A k \in Stores, e \in G!Days : k # l \/ e # d => shelf'[k][e] = shelf[k][e]
  BY <1>1, <1>2, <1>3, OneCell
<1>5. /\ sold' \in DayCounts /\ sold'[d] = m
      /\ \A e \in G!Days \ {d} : sold'[e] = sold[e]
  BY <1>1, <1>2, <1>3, OneMore
<1>6. /\ (shelf'[l][d] - shelf[l][d]) + (sold'[d] - sold[d]) <= receipts'[d] - receipts[d]
      /\ receipts'[d] >= receipts[d]
      /\ shelf'[l][d] - shelf[l][d] <= receipts'[d] - receipts[d]
  BY <1>1, <1>2, <1>3, <1>4, <1>5
<1> QED
  BY <1>1, <1>3, <1>4, <1>5, <1>6, CellKeeps

\* Goods that come back may be older, which is remembered (shifted).
LEMMA GoodsBackKeeps ==
    ASSUME AgedInv, NEW l \in Stores, NEW d \in G!Days, G!GoodsBack(l, d)
    PROVE  AgedInv'
<1>1. /\ shelf \in [Stores -> DayCounts] /\ receipts \in DayCounts /\ sold \in DayCounts
      /\ shelf[l][d] \in Nat /\ receipts[d] \in Nat /\ sold[d] \in Nat
  BY CellTypes
<1>2. PICK n \in Nat, m \in Nat : n = shelf[l][d] + 1 /\ m = sold[d] - 1
  BY <1>1 DEF G!GoodsBack
<1>3. /\ SetCell(shelf', shelf, l, d, n) /\ SetDay(sold', sold, d, m)
      /\ UNCHANGED <<receipts, day, build, snapshot>>
      /\ shifted' \in BOOLEAN /\ (shifted' \/ build = G!NoBuild)
  BY <1>2 DEF G!GoodsBack, G!Shift, SetCell, SetDay
<1>4. /\ shelf' \in [Stores -> DayCounts] /\ shelf'[l][d] = n
      /\ \A k \in Stores, e \in G!Days : k # l \/ e # d => shelf'[k][e] = shelf[k][e]
  BY <1>1, <1>2, <1>3, OneCell
<1>5. /\ sold' \in DayCounts /\ sold'[d] = m
      /\ \A e \in G!Days \ {d} : sold'[e] = sold[e]
  BY <1>1, <1>2, <1>3, OneMore
<1>6. (shelf'[l][d] - shelf[l][d]) + (sold'[d] - sold[d]) <= receipts'[d] - receipts[d]
  BY <1>1, <1>2, <1>3, <1>4, <1>5
<1> QED
  BY <1>1, <1>3, <1>4, <1>5, <1>6, CellKeeps

\* So may what a cancelled receipt leaves.
LEMMA CancelReceiptKeeps ==
    ASSUME AgedInv, NEW l \in Stores, NEW d \in G!Days, G!CancelReceipt(l, d)
    PROVE  AgedInv'
<1>1. /\ shelf \in [Stores -> DayCounts] /\ receipts \in DayCounts /\ sold \in DayCounts
      /\ shelf[l][d] \in Nat /\ receipts[d] \in Nat /\ sold[d] \in Nat
  BY CellTypes
<1>2. PICK n \in Nat, m \in Nat : n = shelf[l][d] - 1 /\ m = receipts[d] - 1
  BY <1>1 DEF G!CancelReceipt
<1>3. /\ SetCell(shelf', shelf, l, d, n) /\ SetDay(receipts', receipts, d, m)
      /\ UNCHANGED <<sold, day, build, snapshot>>
      /\ shifted' \in BOOLEAN /\ (shifted' \/ build = G!NoBuild)
  BY <1>2 DEF G!CancelReceipt, G!Shift, SetCell, SetDay
<1>4. /\ shelf' \in [Stores -> DayCounts] /\ shelf'[l][d] = n
      /\ \A k \in Stores, e \in G!Days : k # l \/ e # d => shelf'[k][e] = shelf[k][e]
  BY <1>1, <1>2, <1>3, OneCell
<1>5. /\ receipts' \in DayCounts /\ receipts'[d] = m
      /\ \A e \in G!Days \ {d} : receipts'[e] = receipts[e]
  BY <1>1, <1>2, <1>3, OneMore
<1>6. (shelf'[l][d] - shelf[l][d]) + (sold'[d] - sold[d]) <= receipts'[d] - receipts[d]
  BY <1>1, <1>2, <1>3, <1>4, <1>5
<1> QED
  BY <1>1, <1>3, <1>4, <1>5, <1>6, CellKeeps

\* So may goods that moved past the page at hand.
LEMMA MoveKeeps ==
    ASSUME AgedInv, NEW l \in Stores, NEW m \in Stores, NEW d \in G!Days, G!Move(l, m, d)
    PROVE  AgedInv'
<1>1. /\ AgedTypes /\ Covered /\ G!NeverOlderThanTruth
      /\ build # G!NoBuild => build \in Run /\ RunCovered(build)
  BY DEF AgedInv, AgedTypes
<1>2. /\ UNCHANGED <<receipts, sold, day, build, snapshot>>
      /\ shifted' \in BOOLEAN /\ (shifted' \/ build = G!NoBuild)
  BY DEF G!Move, G!Shift
<1>3. shelf' \in [Stores -> DayCounts]
  BY <1>1, ShelvesMoved
<1>4. \A e \in G!Days : Held(shelf', Stores, e) = Held(shelf, Stores, e)
  BY <1>1, HeldMoved
<1>5. AgedTypes'
  BY <1>1, <1>2, <1>3 DEF AgedTypes
<1>6. Covered'
  BY <1>1, <1>2, <1>4 DEF Covered
<1>7. (build # G!NoBuild => RunCovered(build))'
  BY <1>1, <1>2 DEF RunCovered
<1> QED
  BY <1>1, <1>2, <1>5, <1>6, <1>7 DEF AgedInv, G!NeverOlderThanTruth

\* A day that passes moves no goods.
LEMMA NextDayKeeps == ASSUME AgedInv, G!NextDay PROVE AgedInv'
<1>1. UNCHANGED <<shelf, receipts, sold, build, snapshot, shifted>> /\ day' = day + 1
  BY DEF G!NextDay
<1>2. day' \in G!Days
  <2>1. G!Days = 0..MaxDay /\ MaxDay \in Nat /\ day \in G!Days /\ day < MaxDay
    BY ShopAssumption DEF G!Days, G!AgedAssumption, G!NextDay, AgedInv, AgedTypes
  <2> QED
    BY <1>1, <2>1
<1> QED
  BY <1>1, <1>2 DEF AgedInv, AgedTypes, Covered, RunCovered, G!NeverOlderThanTruth

\* A run that begins has counted nothing.
LEMMA SnapshotBeginKeeps == ASSUME AgedInv, G!Begin PROVE AgedInv'
<1>1. AgedTypes /\ Covered /\ G!NeverOlderThanTruth
  BY DEF AgedInv
<1>2. /\ build' = [pc |-> "stock", asOf |-> day, todo |-> Stores, onHand |-> 0,
                   lots |-> G!NoUnits, seen |-> G!NoUnits]
      /\ shifted' = FALSE /\ UNCHANGED <<shelf, receipts, sold, day, snapshot>>
  BY DEF G!Begin
<1>3. G!NoUnits \in DayCounts /\ \A d \in G!Days : G!NoUnits[d] = 0
  BY DEF G!NoUnits, DayCounts
<1>4. build' \in Run
  BY <1>1, <1>2, <1>3 DEF Run, AgedTypes
<1>5. G!Total(G!NoUnits) = 0
  <2> DEFINE none == G!NoUnits
  <2>1. DOMAIN none = G!Days /\ \A d \in G!Days : none[d] = 0
    BY DEF G!NoUnits
  <2> HIDE DEF none
  <2>2. SumFunctionOnSet(none, G!Days) = 0
    BY <2>1, DaysFinite, SumOfZeros
  <2>3. G!Total(none) = 0
    BY <2>1, <2>2, SumOfAges
  <2> QED
    BY <2>3 DEF none
<1>6. ASSUME NEW d \in G!Days \ {0}
      PROVE  G!NoUnits[d] + Held(shelf, Stores, d) <= receipts[d]
  <2>1. Held(shelf, Stores, d) + sold[d] <= receipts[d]
    BY <1>1 DEF Covered
  <2>2. Held(shelf, Stores, d) \in Nat /\ sold[d] \in Nat /\ receipts[d] \in Nat
    BY <1>1, HeldType DEF AgedTypes, DayCounts
  <2> QED
    BY <1>3, <2>1, <2>2
<1>7. RunCovered(build)'
  BY <1>2, <1>5, <1>6 DEF RunCovered
<1>8. AgedTypes'
  BY <1>1, <1>2, <1>4 DEF AgedTypes
<1>9. Covered' /\ G!NeverOlderThanTruth'
  BY <1>1, <1>2 DEF Covered, G!NeverOlderThanTruth
<1> QED
  BY <1>7, <1>8, <1>9 DEF AgedInv

\* A page of a location's stock goes from what is still to be counted to what was.
LEMMA FetchStockKeeps == ASSUME AgedInv, NEW l \in Stores, G!FetchStock(l) PROVE AgedInv'
<1>1. AgedTypes /\ Covered /\ G!NeverOlderThanTruth
  BY DEF AgedInv
<1>2. /\ build.pc = "stock" /\ l \in build.todo
      /\ build' = [build EXCEPT !.todo = @ \ {l},
                                !.onHand = @ + G!Total(shelf[l]),
                                !.seen = [d \in G!Days |-> @[d] + shelf[l][d]]]
      /\ UNCHANGED <<shelf, receipts, sold, day, snapshot, shifted>>
  BY DEF G!FetchStock
<1>3. build \in Run /\ RunCovered(build)
  BY <1>1, <1>2 DEF AgedInv, AgedTypes, G!NoBuild
<1> DEFINE seen == build.seen
           row == shelf[l]
           todo == build.todo
<1>4. PICK now : now = [d \in G!Days |-> seen[d] + row[d]]
  OBVIOUS
<1>5. PICK rest : rest = todo \ {l}
  OBVIOUS
<1>6. /\ seen \in DayCounts /\ row \in DayCounts /\ todo \in SUBSET Stores
      /\ build.onHand \in Nat /\ build.asOf \in G!Days /\ build.lots \in DayCounts
  BY <1>1, <1>3 DEF Run, AgedTypes
<1>7. now \in DayCounts /\ \A d \in G!Days : now[d] = seen[d] + row[d]
  BY <1>4, <1>6 DEF DayCounts
<1>8. G!Total(now) = G!Total(seen) + G!Total(row) /\ G!Total(row) \in Nat
  <2>1. /\ DOMAIN now = G!Days /\ DOMAIN seen = G!Days /\ DOMAIN row = G!Days
        /\ \A d \in G!Days : seen[d] \in Int /\ row[d] \in Int /\ now[d] = seen[d] + row[d]
    BY <1>6, <1>7 DEF DayCounts
  <2>2. G!Total(row) \in Nat
    <3>1. 0 \in Int
      OBVIOUS
    <3> HIDE DEF row
    <3> QED
      BY <1>6, <3>1, CountsType
  <2> HIDE DEF seen, row
  <2>3. SumFunctionOnSet(now, G!Days)
           = SumFunctionOnSet(seen, G!Days) + SumFunctionOnSet(row, G!Days)
    <3>1. /\ IsFiniteSet(G!Days)
          /\ \A d \in G!Days : seen[d] \in Int /\ row[d] \in Int /\ now[d] = seen[d] + row[d]
      BY <2>1, DaysFinite
    <3> QED
      BY <3>1, SumPlus
  <2> QED
    BY <2>1, <2>2, <2>3, SumOfAges
<1>9. /\ build'.pc = "stock" /\ build'.asOf = build.asOf /\ build'.todo = rest
      /\ build'.onHand = build.onHand + G!Total(row)
      /\ build'.lots = build.lots /\ build'.seen = now
  <2>1. /\ DOMAIN build = {"pc", "asOf", "todo", "onHand", "lots", "seen"}
    BY <1>3 DEF Run
  <2> QED
    BY <1>2, <1>4, <1>5, <2>1
<1>10. build' \in Run
  <2>1. build' = [pc |-> build'.pc, asOf |-> build'.asOf, todo |-> build'.todo,
                  onHand |-> build'.onHand, lots |-> build'.lots, seen |-> build'.seen]
    BY <1>2, <1>3 DEF Run
  <2> HIDE DEF row, seen, todo
  <2>2. rest \in SUBSET Stores /\ build.onHand + G!Total(row) \in Nat
    BY <1>5, <1>6, <1>8
  <2>3. /\ build'.pc \in {"stock", "write"} /\ build'.asOf \in G!Days
        /\ build'.todo \in SUBSET Stores /\ build'.onHand \in Nat
        /\ build'.lots \in DayCounts /\ build'.seen \in DayCounts
    BY <1>6, <1>7, <1>9, <2>2
  <2> QED
    BY <2>1, <2>3 DEF Run
<1>11. ASSUME ~shifted, NEW d \in G!Days \ {0}
       PROVE  now[d] + Held(shelf, rest, d) <= receipts[d]
  <2>1. seen[d] + Held(shelf, todo, d) <= receipts[d]
    BY <1>2, <1>3, <1>11 DEF RunCovered
  <2>2. Held(shelf, todo, d) = row[d] + Held(shelf, rest, d)
    <3> DEFINE f == [m \in Stores |-> shelf[m][d]]
    <3>1. \A m \in Stores : f[m] \in Int /\ f[l] = row[d]
      BY <1>1 DEF AgedTypes, DayCounts
    <3>2. Held(shelf, todo, d) = SumFunctionOnSet(f, todo)
          /\ Held(shelf, rest, d) = SumFunctionOnSet(f, rest)
      BY DEF Held
    <3>3. IsFiniteSet(todo) /\ l \in todo /\ \A m \in todo : f[m] \in Int
      BY <1>2, <1>6, <3>1, StoresFinite
    <3> HIDE DEF f, todo, row
    <3>4. SumFunctionOnSet(f, todo) = f[l] + SumFunctionOnSet(f, todo \ {l})
      BY <3>3, SumTakeOut
    <3> QED
      BY <1>5, <3>1, <3>2, <3>4
  <2>3. /\ Held(shelf, rest, d) \in Nat /\ seen[d] \in Nat /\ row[d] \in Nat
        /\ receipts[d] \in Nat /\ now[d] = seen[d] + row[d]
    <3>1. rest \in SUBSET Stores /\ shelf \in [Stores -> DayCounts] /\ receipts \in DayCounts
      BY <1>1, <1>5, <1>6 DEF AgedTypes
    <3>2. Held(shelf, rest, d) \in Nat
      BY <3>1, HeldType
    <3> QED
      BY <1>6, <1>7, <3>1, <3>2 DEF DayCounts
  <2> HIDE DEF seen, row, todo
  <2> QED
    BY <2>1, <2>2, <2>3
<1>12. build.onHand = G!Total(seen)
  BY <1>3 DEF RunCovered
<1> HIDE DEF row, seen, todo
<1>13. RunCovered(build)'
  BY <1>2, <1>8, <1>9, <1>11, <1>12 DEF RunCovered
<1>14. AgedTypes'
  BY <1>1, <1>2, <1>10 DEF AgedTypes
<1>15. Covered' /\ G!NeverOlderThanTruth'
  BY <1>1, <1>2 DEF Covered, G!NeverOlderThanTruth
<1> QED
  BY <1>13, <1>14, <1>15 DEF AgedInv

\* The lots read last cover all that was counted, if nothing moved meanwhile.
LEMMA FetchReceiptsKeeps == ASSUME AgedInv, G!FetchReceipts PROVE AgedInv'
<1>1. AgedTypes /\ Covered /\ G!NeverOlderThanTruth
  BY DEF AgedInv
<1>2. /\ build.pc = "stock" /\ build.todo = {}
      /\ build' = [build EXCEPT !.pc = "write", !.lots = receipts]
      /\ UNCHANGED <<shelf, receipts, sold, day, snapshot, shifted>>
  BY DEF G!FetchReceipts
<1>3. build \in Run /\ RunCovered(build)
  BY <1>1, <1>2 DEF AgedInv, AgedTypes, G!NoBuild
<1>4. receipts \in DayCounts
  BY <1>1 DEF AgedTypes
<1>5. /\ build' \in Run /\ build'.pc = "write" /\ build'.lots = receipts
      /\ build'.seen = build.seen /\ build'.onHand = build.onHand
  BY <1>2, <1>3, <1>4 DEF Run
<1>6. ASSUME ~shifted, NEW d \in G!Days \ {0} PROVE build.seen[d] <= receipts[d]
  <2>1. build.seen[d] + Held(shelf, {}, d) <= receipts[d]
    BY <1>2, <1>3, <1>6 DEF RunCovered
  <2>2. Held(shelf, {}, d) = 0
    BY SumOfNone DEF Held
  <2>3. build.seen[d] \in Nat /\ receipts[d] \in Nat
    BY <1>3, <1>4 DEF Run, DayCounts
  <2> QED
    BY <2>1, <2>2, <2>3
<1>7. RunCovered(build)'
  BY <1>2, <1>3, <1>5, <1>6 DEF RunCovered
<1>8. AgedTypes'
  BY <1>1, <1>2, <1>5 DEF AgedTypes
<1>9. Covered' /\ G!NeverOlderThanTruth'
  BY <1>1, <1>2 DEF Covered, G!NeverOlderThanTruth
<1> QED
  BY <1>7, <1>8, <1>9 DEF AgedInv

\* What is written is aged by lots that cover it.
LEMMA WriteKeeps == ASSUME AgedInv, G!Write PROVE AgedInv'
<1>1. AgedTypes /\ Covered /\ G!NeverOlderThanTruth
  BY DEF AgedInv
<1>2. /\ build.pc = "write" /\ build' = G!NoBuild /\ shifted' = FALSE
      /\ UNCHANGED <<shelf, receipts, sold, day>>
      /\ snapshot' = IF build.onHand = 0 THEN G!NoSnapshot
                     ELSE [st |-> "there", asOf |-> build.asOf,
                           layers |-> G!Layers(build.onHand, build.lots),
                           seen |-> build.seen, shifted |-> shifted]
  BY DEF G!Write
<1>3. build \in Run /\ RunCovered(build)
  BY <1>1, <1>2 DEF AgedInv, AgedTypes, G!NoBuild
<1> DEFINE n == build.onHand
           lots == build.lots
           seen == build.seen
           asOf == build.asOf
<1>4. /\ n \in Nat /\ lots \in DayCounts /\ seen \in DayCounts /\ asOf \in G!Days
      /\ n = G!Total(seen)
      /\ ~shifted => \A d \in G!Days \ {0} : seen[d] <= lots[d]
  BY <1>2, <1>3 DEF Run, RunCovered
<1> HIDE DEF n, lots, seen, asOf
<1>5. G!Total(G!Layers(n, lots)) = G!Total(seen)
  BY <1>4, LayersAreYoung
<1>6. ASSUME ~shifted, NEW minDays \in G!Days
      PROVE  G!AgedQty(G!Layers(n, lots), minDays, asOf) <= G!AgedQty(seen, minDays, asOf)
  BY <1>4, <1>6, LayersNotOlder
<1>7. CASE n = 0
  <2>1. snapshot'.st = "none"
    BY <1>2, <1>7 DEF n, G!NoSnapshot
  <2>2. AgedTypes'
    BY <1>1, <1>2, <2>1 DEF AgedTypes
  <2>3. Covered'
    BY <1>1, <1>2 DEF Covered
  <2>4. G!NeverOlderThanTruth'
    BY <2>1 DEF G!NeverOlderThanTruth
  <2> QED
    BY <1>2, <2>2, <2>3, <2>4 DEF AgedInv
<1>8. CASE n # 0
  <2>1. snapshot' = [st |-> "there", asOf |-> asOf, layers |-> G!Layers(n, lots),
                     seen |-> seen, shifted |-> shifted]
    BY <1>2, <1>8 DEF n, lots, seen, asOf
  <2>2. /\ snapshot'.st = "there" /\ snapshot'.asOf = asOf /\ snapshot'.seen = seen
        /\ snapshot'.layers = G!Layers(n, lots) /\ snapshot'.shifted = shifted
    BY <2>1
  <2>3. G!NeverOlderThanTruth'
    BY <1>5, <1>6, <2>2 DEF G!NeverOlderThanTruth
  <2> QED
    BY <1>1, <1>2, <2>2, <2>3 DEF AgedInv, AgedTypes, Covered
<1> QED
  BY <1>7, <1>8

\* Every step keeps a snapshot's ages at or below the true ones.
LEMMA AgedStep == AgedInv /\ [G!Next]_(G!vars) => AgedInv'
<1> SUFFICES ASSUME AgedInv, [G!Next]_(G!vars) PROVE AgedInv'
  OBVIOUS
<1>1. ASSUME NEW l \in Stores, G!Receive(l) PROVE AgedInv'
  BY <1>1, ReceiveKeeps
<1>2. ASSUME NEW l \in Stores, G!FetchStock(l) PROVE AgedInv'
  BY <1>2, FetchStockKeeps
<1>3. ASSUME NEW l \in Stores, NEW d \in G!Days, G!Sell(l, d) PROVE AgedInv'
  BY <1>3, SellKeeps
<1>4. ASSUME NEW l \in Stores, NEW d \in G!Days, G!GoodsBack(l, d) PROVE AgedInv'
  BY <1>4, GoodsBackKeeps
<1>5. ASSUME NEW l \in Stores, NEW d \in G!Days, G!CancelReceipt(l, d) PROVE AgedInv'
  BY <1>5, CancelReceiptKeeps
<1>6. ASSUME NEW l \in Stores, NEW m \in Stores, NEW d \in G!Days, G!Move(l, m, d)
      PROVE  AgedInv'
  BY <1>6, MoveKeeps
<1>7. CASE G!NextDay
  BY <1>7, NextDayKeeps
<1>8. CASE G!Begin
  BY <1>8, SnapshotBeginKeeps
<1>9. CASE G!FetchReceipts
  BY <1>9, FetchReceiptsKeeps
<1>10. CASE G!Write
  BY <1>10, WriteKeeps
<1>11. CASE G!Fail
  BY <1>11 DEF G!Fail, AgedInv, AgedTypes, Covered, G!NeverOlderThanTruth
<1>12. CASE UNCHANGED G!vars
  BY <1>12 DEF G!vars, AgedInv, AgedTypes, Covered, RunCovered, G!NeverOlderThanTruth
<1> QED
  BY <1>1, <1>2, <1>3, <1>4, <1>5, <1>6, <1>7, <1>8, <1>9, <1>10, <1>11, <1>12 DEF G!Next

\* A snapshot of the aged stock never says that goods are older than they are: every unit
\* counted is in a layer, and of any age there are at most as many as there really were,
\* whatever is received and sold while the run reads the stock and the receipts.
THEOREM AgesNeverOverstated == Spec => []NeverOlderThanTruth
<1>1. AgedInv => NeverOlderThanTruth
  BY DEF AgedInv, NeverOlderThanTruth
<1> QED
  BY <1>1, AgesAsAlone, AgedInit, AgedStep, PTL DEF G!Spec

-----------------------------------------------------------------------------
(* Locations.                                                              *)

\* Seen from this area a behaviour is one of Locations.
LEMMA LocationsAsAlone == Spec => O!Spec
<1>1. Init => O!Init
  BY DEF Init
<1>2. [Next]_vars => [O!Next]_(O!vars)
  BY DEF Next, vars, oVars, O!vars
<1> QED
  BY <1>1, <1>2, PTL DEF Spec, O!Spec

Listing == Views \union {O!NoLocation}
Texts == {O!None} \union {v.text : v \in Forms \union Views}

\* What Sapo may say of a location has the types of the columns it is written to.
LEMMA ListingTypes ==
    /\ MaxRows \in Nat /\ O!None \notin SapoIds
    /\ \A v \in Listing : /\ v.code \in Codes \union {O!None} /\ v.text \in Texts
                          /\ v.phone \in {O!None, "sapo"} /\ v.default \in BOOLEAN
    /\ \A v \in Forms : /\ v.code \in Codes \union {O!None} /\ v.text \in Texts
                        /\ v.text # O!None /\ v.default \in BOOLEAN
    /\ \A v \in Listing : v # O!NoLocation => v.text # O!None
<1>1. O!LocationsAssumption
  BY ShopAssumption
<1>2. ASSUME NEW v \in Listing, v = O!NoLocation
      PROVE  /\ v.code = O!None /\ v.text = O!None /\ v.phone = O!None /\ v.default = FALSE
  BY <1>2 DEF O!NoLocation
<1> QED
  BY <1>1, <1>2 DEF O!LocationsAssumption, O!None, Listing, Texts

LocationRows == [sapo : SapoIds \union {O!None}, code : Codes \union {O!None}, text : Texts,
                 phone : {O!None, "sapo", "staff"}, default : BOOLEAN]

Writes == {O!Nothing} \union [id : O!Places, of : SapoIds, new : LocationRows]

ReadingRun == [pc : {"read"}, list : [SapoIds -> Listing], alone : BOOLEAN]
WritingRun == [pc : {"loop", "update"}, list : [SapoIds -> Listing], alone : BOOLEAN,
               left : SUBSET SapoIds, current : [SapoIds -> SUBSET O!Places],
               owner : [Codes -> SUBSET O!Places], conflicts : SUBSET Codes,
               update : Writes]

LocationTypes ==
    /\ place \in [O!Places -> LocationRows]
    /\ office \in [SapoIds -> Listing]
    /\ clerk \in {O!Idle} \union [pc : {"write"}, id : O!Places \union {O!New}, form : Forms]
    /\ locationRun \in {O!Idle} \union ReadingRun \union WritingRun
    /\ reported \in {O!Nothing} \union
          [st : {"run"}, list : [SapoIds -> Listing], conflicts : SUBSET Codes]

\* Rows are filled in order, none is given up, and no code and no location of Sapo's is
\* in two.
Filled ==
    /\ \E k \in 0..MaxRows : \A i \in O!Places : O!There(i) <=> i <= k
    /\ \A i \in O!Places : O!There(i) => place[i].text # O!None
    /\ clerk # O!Idle => clerk.id = O!New \/ O!There(clerk.id)

OneRowEach ==
    \A i, j \in O!Places :
        /\ place[i].code = place[j].code /\ place[i].code # O!None => i = j
        /\ place[i].sapo = place[j].sapo /\ place[i].sapo # O!None => i = j

\* The location is here as the list has it, or its code is among the conflicts.
Told(list, conflicts, s) ==
    \E i \in O!RowsOf(s) :
        /\ place[i].text = list[s].text /\ place[i].default = list[s].default
        /\ list[s].phone \in {O!None, place[i].phone}
        /\ place[i].code = list[s].code \/ list[s].code \in conflicts

\* What a run knows of the rows it has still to come to, and has done with the others.
RunFollows ==
    LET r == locationRun
    IN  /\ r # O!Idle /\ r.alone => r.list = office
        /\ r \in WritingRun =>
            /\ \A s \in r.left : r.current[s] = O!RowsOf(s) /\ r.list[s] # O!NoLocation
            /\ r.pc = "update" =>
                 LET u == r.update
                 IN  /\ u \in [id : O!Places, of : SapoIds, new : LocationRows]
                     /\ u.of \in r.left /\ u.id \in r.current[u.of]
                     /\ u.new.sapo = u.of
                     /\ u.new.text = r.list[u.of].text /\ u.new.default = r.list[u.of].default
                     /\ r.list[u.of].phone \in {O!None, u.new.phone}
                     /\ O!CodeUsable(u.of) => u.new.code = r.list[u.of].code
            /\ r.alone => \A s \in SapoIds \ r.left :
                              r.list[s] # O!NoLocation => Told(r.list, r.conflicts, s)

ReportTrue ==
    reported # O!Nothing =>
        /\ reported.list = office
        /\ locationRun # O!Idle => locationRun.alone
        /\ \A s \in SapoIds : reported.list[s] # O!NoLocation =>
              Told(reported.list, reported.conflicts, s)

LocationInv == LocationTypes /\ Filled /\ OneRowEach /\ RunFollows /\ ReportTrue

\* The row that a new location gets is the first that is free.
LEMMA NextIsFree ==
    ASSUME Filled, O!NextId \in O!Places
    PROVE  /\ ~ O!There(O!NextId)
           /\ O!NextId <= MaxRows
           /\ \A i \in O!Places : O!There(i) \/ i = O!NextId <=> i <= O!NextId
<1>1. MaxRows \in Nat /\ O!Places = 1..MaxRows
  BY ListingTypes DEF O!Places
<1>2. PICK k \in 0..MaxRows : \A i \in O!Places : O!There(i) <=> i <= k
  BY DEF Filled
<1>3. {i \in O!Places : O!There(i)} = 1..k
  BY <1>1, <1>2
<1>4. O!NextId = Cardinality(1..k) + 1
  BY <1>3 DEF O!NextId, O!Cardinality, Cardinality
<1>5. Cardinality(1..k) = k
  BY <1>1, FS_Interval
<1>6. O!NextId = k + 1
  BY <1>4, <1>5
<1> QED
  BY <1>1, <1>2, <1>6

\* At the start nothing is entered and nothing read.
LEMMA LocationsInit == O!Init => LocationInv
<1> SUFFICES ASSUME O!Init PROVE LocationInv
  OBVIOUS
<1>1. MaxRows \in Nat /\ O!Places = 1..MaxRows
  BY ListingTypes DEF O!Places
<1>2. O!NoRow \in LocationRows
  BY DEF O!NoRow, LocationRows, Texts
<1>3. LocationTypes
  BY <1>2 DEF O!Init, LocationTypes, Listing
<1>4. Filled
  <2>1. \A i \in O!Places : ~ O!There(i)
    BY DEF O!Init, O!There
  <2>2. 0 \in 0..MaxRows /\ \A i \in O!Places : ~ (i <= 0)
    BY <1>1
  <2> QED
    BY <2>1, <2>2 DEF O!Init, Filled
<1>5. OneRowEach
  BY DEF O!Init, OneRowEach, O!NoRow
<1>6. RunFollows /\ ReportTrue
  BY DEF O!Init, RunFollows, ReportTrue, WritingRun, O!Idle
<1> QED
  BY <1>3, <1>4, <1>5, <1>6 DEF LocationInv

\* The staff's requests and Sapo's changes end what runs know.
LEMMA DisturbKeeps ==
    ASSUME LocationInv, O!Disturb, office' \in [SapoIds -> Listing],
           place' \in [O!Places -> LocationRows],
           \A i \in O!Places : place'[i].sapo = place[i].sapo
    PROVE  /\ RunFollows' /\ ReportTrue'
           /\ locationRun' \in {O!Idle} \union ReadingRun \union WritingRun
           /\ reported' \in {O!Nothing} \union
                [st : {"run"}, list : [SapoIds -> Listing], conflicts : SUBSET Codes]
<1> DEFINE r == locationRun
<1>1. reported' = O!Nothing
  BY DEF O!Disturb
<1>2. r \in {O!Idle} \union ReadingRun \union WritingRun
  BY DEF LocationInv, LocationTypes
<1>3. CASE r = O!Idle
  <2>1. locationRun' = O!Idle
    BY <1>3 DEF O!Disturb
  <2> QED
    BY <1>1, <2>1 DEF RunFollows, ReportTrue, WritingRun, O!Idle
<1>4. CASE r \in ReadingRun
  <2>1. locationRun' = [r EXCEPT !.alone = FALSE]
    BY <1>4 DEF O!Disturb, ReadingRun, O!Idle
  <2>2. locationRun' \in ReadingRun /\ ~ locationRun'.alone
    BY <1>4, <2>1 DEF ReadingRun
  <2> QED
    BY <1>1, <2>2 DEF RunFollows, ReportTrue, WritingRun, ReadingRun
<1>5. CASE r \in WritingRun
  <2>1. locationRun' = [r EXCEPT !.alone = FALSE]
    BY <1>5 DEF O!Disturb, WritingRun, O!Idle
  <2>2. /\ locationRun' \in WritingRun /\ locationRun'.alone = FALSE
        /\ locationRun'.pc = r.pc /\ locationRun'.list = r.list
        /\ locationRun'.left = r.left /\ locationRun'.current = r.current
        /\ locationRun'.owner = r.owner /\ locationRun'.update = r.update
    BY <1>5, <2>1 DEF WritingRun
  <2>3. \A s : O!RowsOf(s)' = O!RowsOf(s)
    BY DEF O!RowsOf
  <2>4. \A s : O!CodeUsable(s)' <=> O!CodeUsable(s)
    BY <2>2 DEF O!CodeUsable
  <2>5. /\ \A s \in r.left : r.current[s] = O!RowsOf(s) /\ r.list[s] # O!NoLocation
        /\ r.pc = "update" =>
                 LET u == r.update
                 IN  /\ u \in [id : O!Places, of : SapoIds, new : LocationRows]
                     /\ u.of \in r.left /\ u.id \in r.current[u.of]
                     /\ u.new.sapo = u.of
                     /\ u.new.text = r.list[u.of].text /\ u.new.default = r.list[u.of].default
                     /\ r.list[u.of].phone \in {O!None, u.new.phone}
                     /\ O!CodeUsable(u.of) => u.new.code = r.list[u.of].code
    BY <1>5 DEF LocationInv, RunFollows
  <2> HIDE DEF r
  <2>6. RunFollows'
    BY <2>2, <2>3, <2>4, <2>5 DEF RunFollows
  <2> QED
    BY <1>1, <2>2, <2>6 DEF ReportTrue
<1> QED
  BY <1>2, <1>3, <1>4, <1>5
\* The check of a form writes nothing.
LEMMA CheckKeeps ==
    ASSUME LocationInv, NEW i \in {j \in O!Places : O!There(j)} \union {O!New}, NEW form \in Forms,
           O!Check(i, form)
    PROVE  LocationInv'
<1>1. /\ clerk' = [pc |-> "write", id |-> i, form |-> form]
      /\ UNCHANGED <<place, office, locationRun, reported>>
  BY DEF O!Check
<1>2. clerk'.id = i /\ (i = O!New \/ O!There(i))
  BY <1>1
<1>3. clerk' \in [pc : {"write"}, id : O!Places \union {O!New}, form : Forms]
  BY <1>1
<1>4. Filled'
  <2>1. \A j : O!There(j)' <=> O!There(j)
    BY <1>1 DEF O!There
  <2> QED
    BY <1>1, <1>2, <2>1 DEF LocationInv, Filled
<1>5. LocationTypes'
  BY <1>1, <1>3 DEF LocationInv, LocationTypes
<1>6. OneRowEach' /\ ReportTrue'
  BY <1>1 DEF LocationInv, OneRowEach, ReportTrue, Told, O!RowsOf
<1>7. RunFollows'
  <2>1. \A s : O!RowsOf(s)' = O!RowsOf(s) /\ (O!CodeUsable(s)' <=> O!CodeUsable(s))
    BY <1>1 DEF O!RowsOf, O!CodeUsable
  <2>2. \A list, conflicts, s : Told(list, conflicts, s)' <=> Told(list, conflicts, s)
    BY <1>1 DEF Told, O!RowsOf
  <2> QED
    BY <1>1, <2>1, <2>2 DEF LocationInv, RunFollows
<1> QED
  BY <1>4, <1>5, <1>6, <1>7 DEF LocationInv

\* What is entered by hand is remembered as a disturbance of a run under way.
LEMMA EnterKeeps == ASSUME LocationInv, O!Enter PROVE LocationInv'
<1> DEFINE i == IF clerk.id = O!New THEN O!NextId ELSE clerk.id
           form == clerk.form
<1>1. /\ clerk.pc = "write" /\ i \in O!Places
      /\ O!HoldersOf(form.code) \subseteq {i}
      /\ place' = [j \in O!Places |->
                    IF j = i THEN [place[i] EXCEPT !.code = form.code, !.text = form.text,
                                                   !.phone = "staff", !.default = form.default]
                    ELSE IF form.default /\ O!There(j) THEN [place[j] EXCEPT !.default = FALSE]
                    ELSE place[j]]
      /\ clerk' = O!Idle /\ O!Disturb /\ UNCHANGED office
  BY DEF O!Enter
<1>2. /\ place \in [O!Places -> LocationRows] /\ form \in Forms
      /\ office \in [SapoIds -> Listing]
      /\ Filled /\ OneRowEach
      /\ clerk.id = O!New \/ (clerk.id \in O!Places /\ O!There(clerk.id))
  BY <1>1 DEF LocationInv, LocationTypes, Filled, O!Idle
<1>3. /\ form.code \in Codes \union {O!None} /\ form.text \in Texts
      /\ form.text # O!None /\ form.default \in BOOLEAN
  BY <1>2, ListingTypes
<1>4. IF clerk.id = O!New
      THEN /\ ~ O!There(i)
           /\ i <= MaxRows
           /\ \A j \in O!Places : O!There(j) \/ j = i <=> j <= i
      ELSE O!There(i)
  BY <1>1, <1>2, NextIsFree
<1> HIDE DEF i, form
<1>5. /\ place'[i] \in LocationRows /\ place'[i].sapo = place[i].sapo
      /\ place'[i].code = form.code /\ place'[i].text = form.text
  BY <1>1, <1>2, <1>3 DEF LocationRows
<1>6. ASSUME NEW j \in O!Places, j # i
      PROVE  /\ place'[j] \in LocationRows /\ place'[j].sapo = place[j].sapo
             /\ place'[j].code = place[j].code /\ place'[j].text = place[j].text
             /\ ~ O!There(j) => place'[j] = place[j]
  BY <1>1, <1>2, <1>6 DEF LocationRows
<1>7. place' \in [O!Places -> LocationRows]
  <2>1. \A j \in O!Places : place'[j] \in LocationRows
    BY <1>5, <1>6
  <2>2. place' = [j \in O!Places |-> place'[j]]
    BY <1>1
  <2> QED
    BY <2>1, <2>2
<1>8. \A j \in O!Places : O!There(j)' <=> O!There(j) \/ j = i
  <2> SUFFICES ASSUME NEW j \in O!Places PROVE O!There(j)' <=> O!There(j) \/ j = i
    OBVIOUS
  <2>1. CASE j = i
    BY <1>3, <1>5, <2>1 DEF O!There, O!NoRow
  <2>2. CASE j # i /\ O!There(j)
    <3>1. place'[j].text # O!None
      BY <1>2, <1>6, <2>2 DEF Filled
    <3> QED
      BY <2>2, <3>1 DEF O!There, O!NoRow
  <2>3. CASE j # i /\ ~ O!There(j)
    BY <1>6, <2>3 DEF O!There
  <2> QED
    BY <2>1, <2>2, <2>3
<1>9. Filled'
  <2>1. \A j \in O!Places : O!There(j)' => place'[j].text # O!None
    BY <1>2, <1>3, <1>5, <1>6, <1>8 DEF Filled
  <2>2. \E k \in 0..MaxRows : \A j \in O!Places : O!There(j)' <=> j <= k
    <3>1. CASE clerk.id = O!New
      <4>1. i \in 0..MaxRows
        BY <1>1, ListingTypes DEF O!Places
      <4> QED
        BY <1>4, <1>8, <3>1, <4>1
    <3>2. CASE clerk.id # O!New
      <4>1. \A j \in O!Places : O!There(j)' <=> O!There(j)
        BY <1>4, <1>8, <3>2
      <4> QED
        BY <1>2, <4>1 DEF Filled
    <3> QED
      BY <3>1, <3>2
  <2> QED
    BY <1>1, <2>1, <2>2 DEF Filled
<1>10. \A j \in O!Places : place'[j].sapo = place[j].sapo
  BY <1>5, <1>6
<1>11. OneRowEach'
  <2> SUFFICES ASSUME NEW j \in O!Places, NEW n \in O!Places
               PROVE  /\ place'[j].code = place'[n].code /\ place'[j].code # O!None => j = n
                      /\ place'[j].sapo = place'[n].sapo /\ place'[j].sapo # O!None => j = n
    BY DEF OneRowEach
  <2>1. place'[j].sapo = place'[n].sapo /\ place'[j].sapo # O!None => j = n
    BY <1>2, <1>10 DEF OneRowEach
  <2>2. \A m \in O!Places : place[m].code = form.code /\ form.code # O!None => m = i
    BY <1>1 DEF O!HoldersOf
  <2>3. place'[j].code = place'[n].code /\ place'[j].code # O!None => j = n
    <3>1. CASE j # i /\ n # i
      BY <1>2, <1>6, <3>1 DEF OneRowEach
    <3>2. CASE j = i /\ n # i
      BY <1>5, <1>6, <2>2, <3>2
    <3>3. CASE j # i /\ n = i
      BY <1>5, <1>6, <2>2, <3>3
    <3> QED
      BY <3>1, <3>2, <3>3
  <2> QED
    BY <2>1, <2>3
<1>12. office' \in [SapoIds -> Listing]
  BY <1>1, <1>2
<1>13. /\ RunFollows' /\ ReportTrue'
       /\ locationRun' \in {O!Idle} \union ReadingRun \union WritingRun
       /\ reported' \in {O!Nothing} \union
            [st : {"run"}, list : [SapoIds -> Listing], conflicts : SUBSET Codes]
  BY <1>1, <1>7, <1>10, <1>12, DisturbKeeps
<1>14. LocationTypes'
  BY <1>1, <1>7, <1>12, <1>13 DEF LocationTypes
<1> QED
  BY <1>9, <1>11, <1>13, <1>14 DEF LocationInv

\* So is a change at Sapo.
LEMMA ChangeAtSapoKeeps ==
    ASSUME LocationInv, NEW s \in SapoIds, NEW data \in Listing, O!ChangeAtSapo(s, data)
    PROVE  LocationInv'
<1>1. /\ office' = [office EXCEPT ![s] = data] /\ O!Disturb /\ UNCHANGED <<place, clerk>>
  BY DEF O!ChangeAtSapo
<1>2. office' \in [SapoIds -> Listing] /\ place' \in [O!Places -> LocationRows]
  BY <1>1 DEF LocationInv, LocationTypes
<1>3. \A i \in O!Places : place'[i].sapo = place[i].sapo
  BY <1>1
<1>4. /\ RunFollows' /\ ReportTrue'
      /\ locationRun' \in {O!Idle} \union ReadingRun \union WritingRun
      /\ reported' \in {O!Nothing} \union
            [st : {"run"}, list : [SapoIds -> Listing], conflicts : SUBSET Codes]
  BY <1>1, <1>2, <1>3, DisturbKeeps
<1>5. LocationTypes'
  BY <1>1, <1>2, <1>4 DEF LocationInv, LocationTypes
<1>6. Filled' /\ OneRowEach'
  BY <1>1 DEF LocationInv, Filled, OneRowEach, O!There
<1> QED
  BY <1>4, <1>5, <1>6 DEF LocationInv

\* What the rows say of a list changes with them alone.
LEMMA ToldSame ==
    ASSUME UNCHANGED place
    PROVE  /\ \A list, conflicts, s : Told(list, conflicts, s)' <=> Told(list, conflicts, s)
           /\ \A s : O!RowsOf(s)' = O!RowsOf(s)
BY DEF Told, O!RowsOf

\* A run has Sapo's list as it was.
LEMMA FetchKeeps == ASSUME LocationInv, O!Fetch PROVE LocationInv'
<1>1. /\ locationRun = O!Idle
      /\ locationRun' = [pc |-> "read", list |-> office, alone |-> TRUE]
      /\ UNCHANGED <<place, office, clerk, reported>>
  BY DEF O!Fetch
<1>2. locationRun' \in ReadingRun
  BY <1>1 DEF LocationInv, LocationTypes, ReadingRun
<1>3. LocationTypes'
  BY <1>1, <1>2 DEF LocationInv, LocationTypes
<1>4. Filled' /\ OneRowEach'
  BY <1>1 DEF LocationInv, Filled, OneRowEach, O!There
<1>5. RunFollows'
  BY <1>1 DEF RunFollows, WritingRun
<1>6. ReportTrue'
  BY <1>1, ToldSame DEF LocationInv, ReportTrue
<1> QED
  BY <1>3, <1>4, <1>5, <1>6 DEF LocationInv

\* It has the rows as they were.
LEMMA ReadRowsKeeps == ASSUME LocationInv, O!ReadRows PROVE LocationInv'
<1>1. /\ locationRun.pc = "read"
      /\ locationRun' =
            [pc |-> "loop", list |-> locationRun.list, alone |-> locationRun.alone,
             left |-> {s \in SapoIds : locationRun.list[s] # O!NoLocation},
             current |-> [s \in SapoIds |-> O!RowsOf(s)],
             owner |-> [c \in Codes |-> O!HoldersOf(c)],
             conflicts |-> {}, update |-> O!Nothing]
      /\ UNCHANGED <<place, office, clerk, reported>>
  BY DEF O!ReadRows
<1>2. locationRun \in ReadingRun
  BY <1>1 DEF LocationInv, LocationTypes, WritingRun, O!Idle
<1>3. \A s : O!RowsOf(s) \subseteq O!Places /\ O!HoldersOf(s) \subseteq O!Places
  BY DEF O!RowsOf, O!HoldersOf
<1>4. locationRun' \in WritingRun
  BY <1>1, <1>2, <1>3 DEF ReadingRun, WritingRun, Writes
<1>5. LocationTypes'
  BY <1>1, <1>4 DEF LocationInv, LocationTypes
<1>6. Filled' /\ OneRowEach'
  BY <1>1 DEF LocationInv, Filled, OneRowEach, O!There
<1>7. RunFollows'
  <2>1. locationRun.alone => locationRun.list = office
    BY <1>2 DEF LocationInv, RunFollows, ReadingRun, O!Idle
  <2>2. \A s \in SapoIds : O!RowsOf(s)' = O!RowsOf(s)
    BY <1>1, ToldSame
  <2> QED
    BY <1>1, <2>1, <2>2 DEF RunFollows
<1>8. ReportTrue'
  <2>1. locationRun # O!Idle /\ locationRun'.alone = locationRun.alone
    BY <1>1, <1>2 DEF ReadingRun, O!Idle
  <2> QED
    BY <1>1, <2>1, ToldSame DEF LocationInv, ReportTrue
<1> QED
  BY <1>5, <1>6, <1>7, <1>8 DEF LocationInv

\* A location that is done with: its code was written or is a conflict.
LEMMA CountedFacts ==
    ASSUME NEW r \in WritingRun, r = locationRun, NEW s \in r.left, NEW id \in SUBSET O!Places,
           NEW n, n = O!Counted(s, id)
    PROVE  /\ n \in WritingRun /\ n.pc = r.pc /\ n.list = r.list /\ n.alone = r.alone
           /\ n.left = r.left \ {s} /\ n.current = r.current /\ n.update = r.update
           /\ r.conflicts \subseteq n.conflicts
           /\ ~ O!CodeUsable(s) => r.list[s].code \in n.conflicts
<1> DEFINE code == r.list[s].code
           more == IF O!CodeUsable(s) THEN r.conflicts ELSE r.conflicts \union {code}
           owned == IF id # {} /\ O!CodeUsable(s) /\ code # O!None
                    THEN [r.owner EXCEPT ![code] = id] ELSE r.owner
<1>1. s \in SapoIds /\ r.list[s] \in Listing
  BY DEF WritingRun
<1>2. code \in Codes \union {O!None}
  BY <1>1, ListingTypes
<1>3. ~ O!CodeUsable(s) => code \in Codes
  BY <1>2 DEF O!CodeUsable
<1>4. more \in SUBSET Codes
  BY <1>3 DEF WritingRun
<1>5. owned \in [Codes -> SUBSET O!Places]
  BY <1>2 DEF WritingRun
<1>6. n = [r EXCEPT !.left = r.left \ {s}, !.conflicts = more, !.owner = owned]
  BY DEF O!Counted
<1>7. r.conflicts \subseteq more /\ (~ O!CodeUsable(s) => code \in more)
  OBVIOUS
<1> HIDE DEF more, owned
<1>8. /\ n.pc = r.pc /\ n.list = r.list /\ n.alone = r.alone
      /\ n.left = r.left \ {s} /\ n.current = r.current /\ n.update = r.update
      /\ n.conflicts = more
  BY <1>6 DEF WritingRun
<1>9. n \in WritingRun
  BY <1>4, <1>5, <1>6 DEF WritingRun
<1> QED
  BY <1>7, <1>8, <1>9
\* A location of the list is written to its row, or to a new one.
LEMMA RowKeeps ==
    ASSUME LocationInv, NEW r \in WritingRun, r = locationRun, NEW s \in r.left,
           NEW i \in O!Places, NEW new \in LocationRows,
           place' = [place EXCEPT ![i] = new],
           new.sapo = s, new.text = r.list[s].text, new.default = r.list[s].default,
           r.list[s].phone \in {O!None, new.phone},
           O!CodeUsable(s) => new.code = r.list[s].code,
           ~ O!CodeUsable(s) /\ r.current[s] # {} => new.code = place[i].code,
           O!HoldersOf(new.code) \subseteq {i},
           IF r.current[s] = {} THEN i = O!NextId ELSE i \in r.current[s],
           NEW n \in WritingRun, n = locationRun', n.pc = "loop", n.list = r.list,
           n.alone = r.alone, n.left = r.left \ {s}, n.current = r.current,
           r.conflicts \subseteq n.conflicts,
           ~ O!CodeUsable(s) => r.list[s].code \in n.conflicts,
           UNCHANGED <<office, clerk, reported>>
    PROVE  LocationInv'
<1>1. /\ place \in [O!Places -> LocationRows] /\ s \in SapoIds /\ s # O!None
      /\ Filled /\ OneRowEach
      /\ r.left \subseteq SapoIds
      /\ r.list \in [SapoIds -> Listing]
  BY ListingTypes DEF LocationInv, LocationTypes, WritingRun
<1>2. /\ \A x \in r.left : r.current[x] = O!RowsOf(x) /\ r.list[x] # O!NoLocation
      /\ r.alone => \A x \in SapoIds \ r.left :
                        r.list[x] # O!NoLocation => Told(r.list, r.conflicts, x)
      /\ r.alone => r.list = office
  BY DEF LocationInv, RunFollows, WritingRun, O!Idle
<1>3. new.text # O!None
  BY <1>1, <1>2, ListingTypes
<1>4. IF O!RowsOf(s) = {}
      THEN /\ ~ O!There(i) /\ i <= MaxRows
           /\ \A j \in O!Places : O!There(j) \/ j = i <=> j <= i
      ELSE i \in O!RowsOf(s) /\ O!There(i)
  <2>1. CASE O!RowsOf(s) = {}
    BY <1>1, <1>2, <2>1, NextIsFree
  <2>2. CASE O!RowsOf(s) # {}
    <3>1. i \in O!RowsOf(s)
      BY <1>2, <2>2
    <3>2. place[i].sapo = s
      BY <3>1 DEF O!RowsOf
    <3> QED
      BY <1>1, <2>2, <3>1, <3>2 DEF O!There, O!NoRow
  <2> QED
    BY <2>1, <2>2
<1>5. place'[i] = new /\ \A j \in O!Places : j # i => place'[j] = place[j]
  BY <1>1
<1>6. place' \in [O!Places -> LocationRows]
  BY <1>1
<1>7. O!RowsOf(s)' = {i}
  <2>1. i \in O!RowsOf(s)'
    BY <1>5 DEF O!RowsOf
  <2>2. ASSUME NEW j \in O!Places, j # i PROVE place[j].sapo # s
    <3>1. CASE O!RowsOf(s) = {}
      BY <3>1 DEF O!RowsOf
    <3>2. CASE O!RowsOf(s) # {}
      <4>1. i \in O!RowsOf(s)
        BY <1>4, <3>2
      <4> QED
        BY <1>1, <2>2, <4>1 DEF OneRowEach, O!RowsOf
    <3> QED
      BY <3>1, <3>2
  <2> QED
    BY <1>5, <2>1, <2>2 DEF O!RowsOf
<1>8. place[i].sapo = s \/ place[i].sapo = O!None
  <2>1. CASE O!RowsOf(s) = {}
    BY <1>4, <2>1 DEF O!There, O!NoRow
  <2>2. CASE O!RowsOf(s) # {}
    BY <1>4, <2>2 DEF O!RowsOf
  <2> QED
    BY <2>1, <2>2
<1>9. ASSUME NEW x \in SapoIds, x # s
      PROVE  /\ O!RowsOf(x)' = O!RowsOf(x)
             /\ \A j \in O!RowsOf(x) : j \in O!Places /\ place'[j] = place[j]
  <2>1. x # O!None
    BY ListingTypes
  <2>2. \A j \in O!Places : place'[j].sapo = x <=> place[j].sapo = x
    BY <1>5, <1>8, <1>9, <2>1
  <2>3. ~ (place[i].sapo = x)
    BY <1>8, <1>9, <2>1
  <2> QED
    BY <1>5, <2>2, <2>3 DEF O!RowsOf
<1>10. ASSUME NEW x \in SapoIds, x # s, NEW list, NEW some, NEW more, some \subseteq more,
              Told(list, some, x)
       PROVE  Told(list, more, x)'
  <2>1. PICK j \in O!RowsOf(x) :
            /\ place[j].text = list[x].text /\ place[j].default = list[x].default
            /\ list[x].phone \in {O!None, place[j].phone}
            /\ place[j].code = list[x].code \/ list[x].code \in some
    BY <1>10 DEF Told
  <2>2. j \in O!RowsOf(x)' /\ place'[j] = place[j]
    BY <1>9, <1>10, <2>1
  <2> QED
    BY <1>10, <2>1, <2>2 DEF Told
<1>11. ASSUME NEW more, ~ O!CodeUsable(s) => new.code = r.list[s].code \/ r.list[s].code \in more
       PROVE  Told(r.list, more, s)'
  BY <1>5, <1>7, <1>11 DEF Told
<1>12. \A j \in O!Places : O!There(j)' <=> O!There(j) \/ j = i
  BY <1>3, <1>5 DEF O!There, O!NoRow
<1>13. Filled'
  <2>1. \A j \in O!Places : O!There(j)' => place'[j].text # O!None
    BY <1>1, <1>3, <1>5, <1>12 DEF Filled
  <2>2. \E k \in 0..MaxRows : \A j \in O!Places : O!There(j)' <=> j <= k
    <3>1. CASE O!RowsOf(s) = {}
      <4>1. i \in 0..MaxRows
        BY ListingTypes DEF O!Places
      <4> QED
        BY <1>4, <1>12, <3>1, <4>1
    <3>2. CASE O!RowsOf(s) # {}
      <4>1. \A j \in O!Places : O!There(j)' <=> O!There(j)
        BY <1>4, <1>12, <3>2
      <4> QED
        BY <1>1, <4>1 DEF Filled
    <3> QED
      BY <3>1, <3>2
  <2>3. clerk # O!Idle => clerk.id = O!New \/ O!There(clerk.id)'
    <3>1. clerk # O!Idle => clerk.id \in O!Places \union {O!New}
      BY DEF LocationInv, LocationTypes
    <3> QED
      BY <1>1, <1>12, <3>1 DEF Filled
  <2> QED
    BY <2>1, <2>2, <2>3 DEF Filled
<1>14. OneRowEach'
  <2> SUFFICES ASSUME NEW j \in O!Places, NEW m \in O!Places
               PROVE  /\ place'[j].code = place'[m].code /\ place'[j].code # O!None => j = m
                      /\ place'[j].sapo = place'[m].sapo /\ place'[j].sapo # O!None => j = m
    BY DEF OneRowEach
  <2>1. \A k \in O!Places : place[k].code = new.code /\ new.code # O!None => k = i
    BY DEF O!HoldersOf
  <2>2. place'[j].code = place'[m].code /\ place'[j].code # O!None => j = m
    <3>1. CASE j # i /\ m # i
      BY <1>1, <1>5, <3>1 DEF OneRowEach
    <3>2. CASE j = i /\ m # i
      BY <1>5, <2>1, <3>2
    <3>3. CASE j # i /\ m = i
      BY <1>5, <2>1, <3>3
    <3> QED
      BY <3>1, <3>2, <3>3
  <2>3. \A k \in O!Places : place'[k].sapo = s => k = i
    BY <1>7 DEF O!RowsOf
  <2>4. place'[j].sapo = place'[m].sapo /\ place'[j].sapo # O!None => j = m
    <3>1. CASE j # i /\ m # i
      BY <1>1, <1>5, <3>1 DEF OneRowEach
    <3>2. CASE j = i \/ m = i
      BY <1>5, <2>3, <3>2
    <3> QED
      BY <3>1, <3>2
  <2> QED
    BY <2>2, <2>4
<1>15. RunFollows'
  <2>1. \A x \in n.left : n.current[x] = O!RowsOf(x)' /\ n.list[x] # O!NoLocation
    BY <1>1, <1>2, <1>9
  <2>2. ASSUME n.alone, NEW x \in SapoIds \ n.left, n.list[x] # O!NoLocation
        PROVE  Told(n.list, n.conflicts, x)'
    <3>1. CASE x = s
      BY <1>11, <3>1
    <3>2. CASE x # s
      <4>1. Told(r.list, r.conflicts, x)
        BY <1>2, <2>2, <3>2
      <4>2. Told(r.list, n.conflicts, x)'
        BY <1>10, <3>2, <4>1
      <4> QED
        BY <4>2
    <3> QED
      BY <3>1, <3>2
  <2>3. n.alone => n.list = office'
    BY <1>2
  <2>4. \A x \in SapoIds \ n.left : (n.alone /\ n.list[x] # O!NoLocation) =>
            Told(n.list, n.conflicts, x)'
    BY <2>2
  <2> QED
    BY <2>1, <2>3, <2>4 DEF RunFollows
<1>16. ReportTrue'
  <2> SUFFICES ASSUME reported # O!Nothing
               PROVE  /\ reported.list = office /\ n.alone
                      /\ \A x \in SapoIds : reported.list[x] # O!NoLocation =>
                            Told(reported.list, reported.conflicts, x)'
    BY DEF ReportTrue
  <2>1. /\ reported.list = office /\ r.alone
        /\ \A x \in SapoIds : reported.list[x] # O!NoLocation =>
              Told(reported.list, reported.conflicts, x)
    BY DEF LocationInv, ReportTrue, WritingRun, O!Idle
  <2>2. reported.list = r.list
    BY <1>2, <2>1
  <2>3. PICK j \in O!RowsOf(s) :
            place[j].code = r.list[s].code \/ r.list[s].code \in reported.conflicts
    BY <1>1, <1>2, <2>1, <2>2 DEF Told
  <2>4. j = i
    BY <1>4, <1>7, <1>1, <2>3 DEF OneRowEach, O!RowsOf
  <2>5. ~ O!CodeUsable(s) => new.code = r.list[s].code \/ r.list[s].code \in reported.conflicts
    BY <1>2, <2>3, <2>4
  <2>6. Told(r.list, reported.conflicts, s)'
    BY <1>11, <2>5
  <2>7. ASSUME NEW x \in SapoIds, reported.list[x] # O!NoLocation
        PROVE  Told(reported.list, reported.conflicts, x)'
    <3>1. CASE x = s
      BY <2>2, <2>6, <3>1
    <3>2. CASE x # s
      <4>1. Told(reported.list, reported.conflicts, x)
        BY <2>1, <2>7
      <4> QED
        BY <1>10, <3>2, <4>1
    <3> QED
      BY <3>1, <3>2
  <2> QED
    BY <2>1, <2>7
<1>17. LocationTypes'
  BY <1>6 DEF LocationInv, LocationTypes
<1> QED
  BY <1>13, <1>14, <1>15, <1>16, <1>17 DEF LocationInv
\* A location it creates is as Sapo has it.
LEMMA CreateKeeps == ASSUME LocationInv, NEW s \in SapoIds, O!Create(s) PROVE LocationInv'
<1> DEFINE r == locationRun
           i == O!NextId
           new == O!Written(O!NoRow, s)
           n == O!Counted(s, {i})
<1>1. /\ r.pc = "loop" /\ s \in r.left /\ r.current[s] = {} /\ i \in O!Places
      /\ place' = [place EXCEPT ![i] = new]
      /\ O!HoldersOf(place'[i].code) = {}
      /\ locationRun' = n
      /\ UNCHANGED <<office, clerk, reported>>
  BY DEF O!Create
<1>2. r \in WritingRun /\ place \in [O!Places -> LocationRows]
  BY <1>1 DEF LocationInv, LocationTypes, ReadingRun, O!Idle
<1> HIDE DEF i
<1>3. r.list[s] \in Listing
  BY <1>2 DEF WritingRun
<1>4. /\ new \in LocationRows
      /\ new.sapo = s /\ new.text = r.list[s].text /\ new.default = r.list[s].default
      /\ r.list[s].phone \in {O!None, new.phone}
      /\ O!CodeUsable(s) => new.code = r.list[s].code
  BY <1>3, ListingTypes DEF O!Written, O!NoRow, LocationRows, Texts
<1> HIDE DEF new
<1>5. place'[i] = new
  BY <1>1, <1>2
<1>6. O!HoldersOf(new.code) \subseteq {i}
  BY <1>1, <1>5
<1>7. {i} \in SUBSET O!Places
  BY <1>1
<1> HIDE DEF n
<1>8. /\ n \in WritingRun /\ n.pc = r.pc /\ n.list = r.list /\ n.alone = r.alone
      /\ n.left = r.left \ {s} /\ n.current = r.current /\ n.update = r.update
      /\ r.conflicts \subseteq n.conflicts
      /\ ~ O!CodeUsable(s) => r.list[s].code \in n.conflicts
  BY <1>1, <1>2, <1>7, CountedFacts DEF n
<1>9. /\ i \in O!Places /\ i = O!NextId /\ n = locationRun' /\ r = locationRun /\ n.pc = "loop"
      /\ place' = [place EXCEPT ![i] = new] /\ s \in r.left /\ r.current[s] = {}
      /\ UNCHANGED <<office, clerk, reported>>
  BY <1>1, <1>8 DEF i
<1> HIDE DEF r
<1> QED
  BY <1>2, <1>4, <1>6, <1>8, <1>9, RowKeeps

\* A location it updates becomes so.
LEMMA UpdateKeeps == ASSUME LocationInv, O!Update PROVE LocationInv'
<1> DEFINE r == locationRun
           s == r.update.of
           i == r.update.id
           planned == r.update.new
           code == IF O!CodeUsable(s) THEN planned.code ELSE place[i].code
           new == [planned EXCEPT !.code = code]
           m == O!Counted(s, {i})
           n == [m EXCEPT !.pc = "loop", !.update = O!Nothing]
<1>1. /\ r.pc = "update" /\ O!HoldersOf(code) \subseteq {i}
      /\ place' = [place EXCEPT ![i] = new]
      /\ locationRun' = n
      /\ UNCHANGED <<office, clerk, reported>>
  BY DEF O!Update
<1>2. r \in WritingRun /\ place \in [O!Places -> LocationRows]
  BY <1>1 DEF LocationInv, LocationTypes, ReadingRun, O!Idle
<1>3. /\ i \in O!Places /\ s \in SapoIds /\ planned \in LocationRows
      /\ s \in r.left /\ i \in r.current[s]
      /\ planned.sapo = s /\ planned.text = r.list[s].text
      /\ planned.default = r.list[s].default /\ r.list[s].phone \in {O!None, planned.phone}
      /\ O!CodeUsable(s) => planned.code = r.list[s].code
  BY <1>1, <1>2 DEF LocationInv, RunFollows
<1>4. code \in Codes \union {O!None}
  BY <1>2, <1>3 DEF LocationRows
<1>5. /\ O!CodeUsable(s) => code = r.list[s].code
      /\ ~ O!CodeUsable(s) => code = place[i].code
  BY <1>3
<1> HIDE DEF code, s, i, planned
<1>6. /\ new \in LocationRows /\ new.code = code
      /\ new.sapo = s /\ new.text = r.list[s].text /\ new.default = r.list[s].default
      /\ r.list[s].phone \in {O!None, new.phone}
  BY <1>3, <1>4 DEF LocationRows
<1>7. {i} \in SUBSET O!Places
  BY <1>3
<1> HIDE DEF m, new
<1>8. /\ m \in WritingRun /\ m.list = r.list /\ m.alone = r.alone
      /\ m.left = r.left \ {s} /\ m.current = r.current
      /\ r.conflicts \subseteq m.conflicts
      /\ ~ O!CodeUsable(s) => r.list[s].code \in m.conflicts
  BY <1>2, <1>3, <1>7, CountedFacts DEF m
<1>9. /\ n \in WritingRun /\ n.pc = "loop" /\ n.list = m.list /\ n.alone = m.alone
      /\ n.left = m.left /\ n.current = m.current /\ n.conflicts = m.conflicts
  BY <1>8 DEF WritingRun, Writes
<1>10. n = locationRun' /\ r = locationRun
  BY <1>1
<1> HIDE DEF r, n
<1>11. O!HoldersOf(new.code) \subseteq {i}
  BY <1>1, <1>6
<1>12. /\ IF r.current[s] = {} THEN i = O!NextId ELSE i \in r.current[s]
       /\ ~ O!CodeUsable(s) /\ r.current[s] # {} => new.code = place[i].code
       /\ O!CodeUsable(s) => new.code = r.list[s].code
  BY <1>3, <1>5, <1>6
<1>13. /\ n.list = r.list /\ n.alone = r.alone /\ n.left = r.left \ {s}
       /\ n.current = r.current /\ r.conflicts \subseteq n.conflicts
       /\ ~ O!CodeUsable(s) => r.list[s].code \in n.conflicts
  BY <1>8, <1>9
<1>14. /\ s \in r.left /\ i \in O!Places /\ n \in WritingRun /\ r \in WritingRun
       /\ place' = [place EXCEPT ![i] = new] /\ UNCHANGED <<office, clerk, reported>>
       /\ n.pc = "loop"
  BY <1>1, <1>2, <1>3, <1>9
<1> QED
  BY <1>6, <1>10, <1>11, <1>12, <1>13, <1>14, RowKeeps

\* A location that has changed is written in a step of its own; what was noted of it holds
\* until then.
LEMMA ChangedKeeps ==
    ASSUME LocationInv, NEW r \in WritingRun, r = locationRun, r.pc = "loop",
           UNCHANGED <<place, office, clerk, reported>>,
           NEW u \in [id : O!Places, of : SapoIds, new : LocationRows],
           u.of \in r.left, u.id \in r.current[u.of], u.new.sapo = u.of,
           u.new.text = r.list[u.of].text, u.new.default = r.list[u.of].default,
           r.list[u.of].phone \in {O!None, u.new.phone},
           O!CodeUsable(u.of) => u.new.code = r.list[u.of].code,
           NEW n \in WritingRun, n = locationRun', n.pc = "update", n.update = u,
           n.list = r.list, n.alone = r.alone, n.left = r.left, n.current = r.current,
           n.owner = r.owner, n.conflicts = r.conflicts
    PROVE  RunFollows'
<1>1. /\ \A x \in r.left : r.current[x] = O!RowsOf(x) /\ r.list[x] # O!NoLocation
      /\ r.alone => \A x \in SapoIds \ r.left :
                        r.list[x] # O!NoLocation => Told(r.list, r.conflicts, x)
      /\ r.alone => r.list = office
  BY DEF LocationInv, RunFollows, WritingRun, O!Idle
<1>2. \A x \in n.left : n.current[x] = O!RowsOf(x)' /\ n.list[x] # O!NoLocation
  BY <1>1, ToldSame
<1>3. n.alone => \A x \in SapoIds \ n.left :
                     n.list[x] # O!NoLocation => Told(n.list, n.conflicts, x)'
  BY <1>1, ToldSame
<1>4. O!CodeUsable(u.of)' <=> O!CodeUsable(u.of)
  BY DEF O!CodeUsable
<1>5. /\ n.update \in [id : O!Places, of : SapoIds, new : LocationRows]
      /\ n.update.of \in n.left /\ n.update.id \in n.current[n.update.of]
      /\ n.update.new.sapo = n.update.of
      /\ n.update.new.text = n.list[n.update.of].text
      /\ n.update.new.default = n.list[n.update.of].default
      /\ n.list[n.update.of].phone \in {O!None, n.update.new.phone}
      /\ O!CodeUsable(n.update.of)' => n.update.new.code = n.list[n.update.of].code
  BY <1>4
<1>6. n.alone => n.list = office'
  BY <1>1
<1>7. /\ locationRun'.alone => locationRun'.list = office'
      /\ \A x \in locationRun'.left : /\ locationRun'.current[x] = O!RowsOf(x)'
                                      /\ locationRun'.list[x] # O!NoLocation
  BY <1>2, <1>6
<1> QED
  BY <1>3, <1>5, <1>7 DEF RunFollows

\* One that has not needs nothing more: its row is as the list has it.
LEMMA UnchangedKeeps ==
    ASSUME LocationInv, NEW r \in WritingRun, r = locationRun,
           UNCHANGED <<place, office, clerk, reported>>,
           NEW s \in r.left, NEW n \in WritingRun, n = locationRun', n.pc = "loop",
           n.list = r.list, n.alone = r.alone, n.left = r.left \ {s},
           n.current = r.current, r.conflicts \subseteq n.conflicts,
           Told(n.list, n.conflicts, s)
    PROVE  RunFollows'
<1>1. /\ \A x \in r.left : r.current[x] = O!RowsOf(x) /\ r.list[x] # O!NoLocation
      /\ r.alone => \A x \in SapoIds \ r.left :
                        r.list[x] # O!NoLocation => Told(r.list, r.conflicts, x)
      /\ r.alone => r.list = office
  BY DEF LocationInv, RunFollows, WritingRun, O!Idle
<1>2. \A x \in n.left : n.current[x] = O!RowsOf(x)' /\ n.list[x] # O!NoLocation
  BY <1>1, ToldSame
<1>3. \A x \in SapoIds : Told(r.list, r.conflicts, x) => Told(r.list, n.conflicts, x)
  BY DEF Told
<1>4. n.alone => \A x \in SapoIds \ n.left :
                     n.list[x] # O!NoLocation => Told(n.list, n.conflicts, x)
  BY <1>1, <1>3
<1>5. n.alone => \A x \in SapoIds \ n.left :
                     n.list[x] # O!NoLocation => Told(n.list, n.conflicts, x)'
  BY <1>4, ToldSame
<1>6. n.alone => n.list = office'
  BY <1>1
<1> QED
  BY <1>2, <1>5, <1>6 DEF RunFollows

\* A location it finds equal is so, and one it finds different is about to be written.
LEMMA CompareKeeps == ASSUME LocationInv, NEW s \in SapoIds, O!Compare(s) PROVE LocationInv'
<1> DEFINE r == locationRun
<1>1. PICK i \in r.current[s] :
          locationRun' = IF O!Changed(place[i], O!Written(place[i], s))
                         THEN [r EXCEPT !.pc = "update",
                                        !.update = [id |-> i, of |-> s,
                                                    new |-> O!Written(place[i], s)]]
                         ELSE O!Counted(s, {})
  BY DEF O!Compare
<1>2. r.pc = "loop" /\ s \in r.left /\ UNCHANGED <<place, office, clerk, reported>>
  BY DEF O!Compare
<1>3. r \in WritingRun /\ place \in [O!Places -> LocationRows]
  BY <1>2 DEF LocationInv, LocationTypes, ReadingRun, O!Idle
<1>4. /\ \A x \in r.left : r.current[x] = O!RowsOf(x) /\ r.list[x] # O!NoLocation
      /\ r.alone => \A x \in SapoIds \ r.left :
                        r.list[x] # O!NoLocation => Told(r.list, r.conflicts, x)
      /\ r.alone => r.list = office
  BY <1>3 DEF LocationInv, RunFollows, WritingRun, O!Idle
<1>5. i \in O!RowsOf(s) /\ i \in O!Places /\ r.list[s] \in Listing /\ r.list \in [SapoIds -> Listing]
  BY <1>1, <1>2, <1>3, <1>4 DEF O!RowsOf, WritingRun
<1>6. Filled' /\ OneRowEach'
  <2>1. \A j : O!There(j)' <=> O!There(j)
    BY <1>2 DEF O!There
  <2> QED
    BY <1>2, <2>1 DEF LocationInv, Filled, OneRowEach
<1>7. ASSUME locationRun' \in WritingRun, locationRun'.alone = r.alone
      PROVE  LocationTypes' /\ ReportTrue'
  <2>1. LocationTypes'
    BY <1>2, <1>7 DEF LocationInv, LocationTypes
  <2>2. r # O!Idle
    BY <1>3 DEF WritingRun, O!Idle
  <2> QED
    BY <1>2, <1>7, <2>1, <2>2, ToldSame DEF LocationInv, ReportTrue
<1> DEFINE new == O!Written(place[i], s)
<1>8. /\ new \in LocationRows
      /\ new.sapo = s /\ new.text = r.list[s].text /\ new.default = r.list[s].default
      /\ r.list[s].phone \in {O!None, new.phone}
      /\ O!CodeUsable(s) => new.code = r.list[s].code
  BY <1>3, <1>5, ListingTypes DEF O!Written, LocationRows, Texts
<1> HIDE DEF new
<1>11. s \in SapoIds
  OBVIOUS
<1>12. PICK q : q = r
  OBVIOUS
<1>9. CASE O!Changed(place[i], new)
  <2> DEFINE u == [id |-> i, of |-> s, new |-> new]
  <2>1. locationRun' = [r EXCEPT !.pc = "update", !.update = u]
    BY <1>1, <1>9 DEF new
  <2>2. u \in [id : O!Places, of : SapoIds, new : LocationRows] /\ u.id = i /\ u.of = s /\ u.new = new
    BY <1>5, <1>8
  <2> HIDE DEF u
  <2>3. /\ locationRun' \in WritingRun /\ locationRun'.pc = "update" /\ locationRun'.update = u
        /\ locationRun'.list = r.list /\ locationRun'.alone = r.alone
        /\ locationRun'.left = r.left /\ locationRun'.current = r.current
        /\ locationRun'.owner = r.owner /\ locationRun'.conflicts = r.conflicts
    BY <1>3, <2>1, <2>2 DEF WritingRun, Writes
  <2>4. PICK v, n : v = u /\ n = locationRun'
    OBVIOUS
  <2>5. /\ q \in WritingRun /\ q = locationRun /\ q.pc = "loop"
        /\ n \in WritingRun /\ n.pc = "update" /\ n.update = v
        /\ n.list = q.list /\ n.alone = q.alone /\ n.left = q.left
        /\ n.current = q.current /\ n.owner = q.owner /\ n.conflicts = q.conflicts
    BY <1>2, <1>3, <1>12, <2>3, <2>4
  <2>6. /\ v \in [id : O!Places, of : SapoIds, new : LocationRows]
        /\ v.of \in q.left /\ v.id \in q.current[v.of] /\ v.new.sapo = v.of
        /\ v.new.text = q.list[v.of].text /\ v.new.default = q.list[v.of].default
        /\ q.list[v.of].phone \in {O!None, v.new.phone}
        /\ O!CodeUsable(v.of) => v.new.code = q.list[v.of].code
    BY <1>1, <1>2, <1>8, <1>12, <2>2, <2>4
  <2>7. RunFollows'
    BY <1>2, <2>4, <2>5, <2>6, ChangedKeeps
  <2> QED
    BY <1>6, <1>7, <2>3, <2>7 DEF LocationInv
<1>10. CASE ~ O!Changed(place[i], new)
  <2> DEFINE m == O!Counted(s, {})
  <2>1. locationRun' = m /\ place[i] = new
    BY <1>1, <1>10 DEF new, O!Changed
  <2>2. {} \in SUBSET O!Places
    OBVIOUS
  <2>3. /\ m \in WritingRun /\ m.pc = r.pc /\ m.list = r.list /\ m.alone = r.alone
        /\ m.left = r.left \ {s} /\ m.current = r.current /\ m.update = r.update
        /\ r.conflicts \subseteq m.conflicts
        /\ ~ O!CodeUsable(s) => r.list[s].code \in m.conflicts
    BY <1>2, <1>3, <2>2, CountedFacts DEF m
  <2> HIDE DEF m
  <2>4. PICK n : n = locationRun'
    OBVIOUS
  <2>5. /\ q \in WritingRun /\ q = locationRun /\ s \in q.left
        /\ n \in WritingRun /\ n.pc = "loop" /\ n.list = q.list /\ n.alone = q.alone
        /\ n.left = q.left \ {s} /\ n.current = q.current
        /\ q.conflicts \subseteq n.conflicts
        /\ ~ O!CodeUsable(s) => q.list[s].code \in n.conflicts
    BY <1>2, <1>3, <1>12, <2>1, <2>3, <2>4
  <2>6. new.code = q.list[s].code \/ q.list[s].code \in n.conflicts
    BY <1>8, <1>12, <2>5
  <2>7. /\ place[i].text = n.list[s].text /\ place[i].default = n.list[s].default
        /\ n.list[s].phone \in {O!None, place[i].phone}
        /\ place[i].code = n.list[s].code \/ n.list[s].code \in n.conflicts
    BY <1>8, <1>12, <2>1, <2>5, <2>6
  <2>8. Told(n.list, n.conflicts, s)
    BY <1>5, <2>7 DEF Told
  <2>9. RunFollows'
    BY <1>2, <2>4, <2>5, <2>8, UnchangedKeeps
  <2> QED
    BY <1>6, <1>7, <2>1, <2>3, <2>9 DEF LocationInv
<1> QED
  BY <1>9, <1>10

\* A run that has been through the list has brought every location into line.
LEMMA EndRunKeeps == ASSUME LocationInv, O!EndRun PROVE LocationInv'
<1> DEFINE r == locationRun
<1>1. /\ r.pc = "loop" /\ r.left = {} /\ locationRun' = O!Idle
      /\ reported' = IF r.alone THEN [st |-> "run", list |-> r.list, conflicts |-> r.conflicts]
                     ELSE O!Nothing
      /\ UNCHANGED <<place, office, clerk>>
  BY DEF O!EndRun
<1>2. r \in WritingRun
  BY <1>1 DEF LocationInv, LocationTypes, ReadingRun, O!Idle
<1>3. reported' \in {O!Nothing} \union
          [st : {"run"}, list : [SapoIds -> Listing], conflicts : SUBSET Codes]
  BY <1>1, <1>2 DEF WritingRun
<1>4. LocationTypes'
  BY <1>1, <1>3 DEF LocationInv, LocationTypes
<1>5. Filled' /\ OneRowEach'
  <2>1. \A j : O!There(j)' <=> O!There(j)
    BY <1>1 DEF O!There
  <2> QED
    BY <1>1, <2>1 DEF LocationInv, Filled, OneRowEach
<1>6. RunFollows'
  BY <1>1 DEF RunFollows, WritingRun, O!Idle
<1>7. ReportTrue'
  <2> SUFFICES ASSUME reported' # O!Nothing PROVE ReportTrue'
    BY DEF ReportTrue
  <2>1. r.alone /\ reported'.list = r.list /\ reported'.conflicts = r.conflicts
    BY <1>1
  <2>2. r.list = office /\ \A s \in SapoIds : r.list[s] # O!NoLocation => Told(r.list, r.conflicts, s)
    BY <1>1, <1>2, <2>1 DEF LocationInv, RunFollows, WritingRun, O!Idle
  <2> QED
    BY <1>1, <2>1, <2>2, ToldSame DEF ReportTrue
<1> QED
  BY <1>4, <1>5, <1>6, <1>7 DEF LocationInv

\* Every step keeps what a run has been through as Sapo reported it.
LEMMA LocationsStep == LocationInv /\ [O!Next]_(O!vars) => LocationInv'
<1> SUFFICES ASSUME LocationInv, [O!Next]_(O!vars) PROVE LocationInv'
  OBVIOUS
<1>1. ASSUME NEW i \in {j \in O!Places : O!There(j)} \union {O!New}, NEW form \in Forms,
             O!Check(i, form)
      PROVE  LocationInv'
  BY <1>1, CheckKeeps
<1>2. CASE O!Enter
  BY <1>2, EnterKeeps
<1>3. ASSUME NEW s \in SapoIds, NEW data \in Views \union {O!NoLocation}, O!ChangeAtSapo(s, data)
      PROVE  LocationInv'
  BY <1>3, ChangeAtSapoKeeps DEF Listing
<1>4. CASE O!Fetch
  BY <1>4, FetchKeeps
<1>5. CASE O!ReadRows
  BY <1>5, ReadRowsKeeps
<1>6. CASE O!Update
  BY <1>6, UpdateKeeps
<1>7. CASE O!EndRun
  BY <1>7, EndRunKeeps
<1>8. ASSUME NEW s \in SapoIds, O!Compare(s) PROVE LocationInv'
  BY <1>8, CompareKeeps
<1>9. ASSUME NEW s \in SapoIds, O!Create(s) PROVE LocationInv'
  BY <1>9, CreateKeeps
<1>10. ASSUME UNCHANGED place PROVE \A j : O!There(j)' <=> O!There(j)
  BY <1>10 DEF O!There
<1>11. CASE O!Refuse
  <2>1. clerk' = O!Idle /\ UNCHANGED <<place, office, locationRun, reported>>
    BY <1>11 DEF O!Refuse
  <2>2. Filled' /\ OneRowEach'
    BY <1>10, <2>1 DEF LocationInv, Filled, OneRowEach
  <2>3. LocationTypes' /\ ReportTrue'
    BY <2>1, ToldSame DEF LocationInv, LocationTypes, ReportTrue
  <2>4. \A s : O!CodeUsable(s)' <=> O!CodeUsable(s)
    BY <2>1 DEF O!CodeUsable
  <2>5. RunFollows'
    BY <2>1, <2>4, ToldSame DEF LocationInv, RunFollows
  <2> QED
    BY <2>2, <2>3, <2>5 DEF LocationInv
<1>12. CASE O!FailRun
  <2>1. /\ locationRun' = O!Idle /\ reported' = O!Nothing
        /\ UNCHANGED <<place, office, clerk>>
    BY <1>12 DEF O!FailRun
  <2>2. Filled' /\ OneRowEach'
    BY <1>10, <2>1 DEF LocationInv, Filled, OneRowEach
  <2>3. LocationTypes' /\ ReportTrue' /\ RunFollows'
    BY <2>1 DEF LocationInv, LocationTypes, ReportTrue, RunFollows, WritingRun, O!Idle
  <2> QED
    BY <2>2, <2>3 DEF LocationInv
<1>13. CASE UNCHANGED O!vars
  <2>1. UNCHANGED <<place, office, clerk, locationRun, reported>>
    BY <1>13 DEF O!vars
  <2>2. Filled' /\ OneRowEach'
    BY <1>10, <2>1 DEF LocationInv, Filled, OneRowEach
  <2>3. LocationTypes' /\ ReportTrue'
    BY <2>1, ToldSame DEF LocationInv, LocationTypes, ReportTrue
  <2>4. \A s : O!CodeUsable(s)' <=> O!CodeUsable(s)
    BY <2>1 DEF O!CodeUsable
  <2>5. RunFollows'
    BY <2>1, <2>4, ToldSame DEF LocationInv, RunFollows
  <2> QED
    BY <2>2, <2>3, <2>5 DEF LocationInv
<1> QED
  BY <1>1, <1>2, <1>3, <1>4, <1>5, <1>6, <1>7, <1>8, <1>9, <1>11, <1>12, <1>13 DEF O!Next

\* The invariant says what the types and the property say.
LEMMA LocationsRight == LocationInv => O!TypeOK /\ O!LocationsAsReported
<1> SUFFICES ASSUME LocationInv PROVE O!TypeOK /\ O!LocationsAsReported
  OBVIOUS
<1>1. \A S : O!Cardinality(S) = Cardinality(S)
  BY DEF O!Cardinality, Cardinality
<1>2. ASSUME NEW c \in Codes PROVE Cardinality(O!HoldersOf(c)) <= 1
  <2>1. \A i, j \in O!HoldersOf(c) : i = j
    BY DEF LocationInv, OneRowEach, O!HoldersOf
  <2> HIDE DEF O!HoldersOf
  <2> QED
    BY <2>1, OneAtMost
<1>3. ASSUME NEW s \in SapoIds PROVE Cardinality(O!RowsOf(s)) <= 1
  <2>1. \A i, j \in O!RowsOf(s) : i = j
    BY ListingTypes DEF LocationInv, OneRowEach, O!RowsOf
  <2> QED
    BY <2>1, OneAtMost
<1>4. \A i \in O!Places : place[i].phone \in {O!None, "sapo", "staff"}
  BY DEF LocationInv, LocationTypes, LocationRows
<1>5. O!LocationsAsReported
  BY DEF LocationInv, ReportTrue, O!LocationsAsReported, Told
<1> QED
  BY <1>1, <1>2, <1>3, <1>4, <1>5 DEF O!TypeOK

\* No code and no location of Sapo's is in two rows, and a run that nothing disturbed
\* leaves every location as Sapo had it, but for the codes it reports.
THEOREM LocationsSettle == Spec => [](O!TypeOK /\ O!LocationsAsReported)
BY LocationsRight, LocationsAsAlone, LocationsInit, LocationsStep, PTL DEF O!Spec

-----------------------------------------------------------------------------
(* The catalogue (Catalogue).                                              *)

\* The catalogue fares in the shop as it does by itself.
LEMMA CatalogueAsAlone == Spec => K!Spec
<1>1. Init => K!Init
  BY DEF Init
<1>2. [Next]_vars => [K!Next]_(K!vars)
  BY DEF Next, vars, kVars, K!vars
<1> QED
  BY <1>1, <1>2, PTL DEF Spec, K!Spec

VariantSkus == Skus \union {K!None, K!Pending}
VariantRows == [st : {"none", "there", "gone"}, of : {K!None, "ours", "sapo"},
                key : Combinations \union K!SapoVariants \union {K!None},
                sku : VariantSkus, sapo : K!SapoVariants \union {K!None}]
Wants == UNION {[ks -> VariantSkus] : ks \in SUBSET Combinations}
Edits == [pc : {"check"}, of : {"ours", "sapo"}, want : Wants, gone : SUBSET Variants,
          new : SUBSET Combinations, stock : SUBSET Combinations]
Batches == [pc : {"read"}, sku : [K!SapoVariants -> Skus],
            local : [K!SapoVariants -> SUBSET Variants],
            seen : UNION {[vs -> VariantSkus] : vs \in SUBSET Variants}]

CatalogueTypes ==
    /\ variant \in [Variants -> VariantRows]
    /\ named \union counted \subseteq Variants
    /\ sapoSku \in [K!SapoVariants -> Skus]
    /\ settled \in BOOLEAN
    /\ edit \in {K!NoEdit} \union Edits
    /\ listing \in {K!NoListing} \union Batches

\* No SKU and no variant of Sapo's is in two rows of a table.
OneRowOf(table) ==
    \A v, w \in Variants :
        /\ table[v].st = "there" /\ table[w].st = "there"
        /\ \/ table[v].sku = table[w].sku /\ table[v].sku \in Skus
           \/ table[v].sapo = table[w].sapo /\ table[v].sapo # K!None
        => v = w

\* What an edit is to make has a SKU.
EditSound ==
    edit # K!NoEdit => \A k \in edit.new : k \in DOMAIN edit.want /\ edit.want[k] \in Skus

\* What a synchronisation read of a row that is still there is true of it.
ListingTrue ==
    listing # K!NoListing =>
        \A s \in K!SapoVariants : \A v \in listing.local[s] :
            /\ v \in DOMAIN listing.seen
            /\ variant[v].st # "none"
            /\ variant[v].st = "there" => variant[v].sku = listing.seen[v]

CatalogueInv ==
    /\ CatalogueTypes /\ OneRowOf(variant) /\ EditSound /\ ListingTrue
    /\ K!NamedVariantsKept /\ K!SyncSettles

\* What the constants are, in the words of the proofs.
LEMMA CatalogueConstants ==
    /\ Variants \subseteq Nat
    /\ K!None \notin Skus /\ K!Pending \notin Skus /\ K!None \notin K!SapoVariants
    /\ Len(SapoOrder) \in Nat
    /\ \A s : s \in K!SapoVariants <=> \E n \in 1..Len(SapoOrder) : SapoOrder[n] = s
    /\ \A i, j \in 1..Len(SapoOrder) : SapoOrder[i] = SapoOrder[j] => i = j
<1>1. K!CatalogueAssumption
  BY ShopAssumption
<1>2. SapoOrder \in Seq(K!ToSet(SapoOrder))
  BY <1>1 DEF K!CatalogueAssumption
<1>3. Len(SapoOrder) \in Nat /\ DOMAIN SapoOrder = 1..Len(SapoOrder)
  BY <1>2
<1> QED
  BY <1>1, <1>3 DEF K!CatalogueAssumption, K!None, K!Pending, K!SapoVariants, K!ToSet,
                    K!IsInjective

\* At the start there is no variant and nothing names one.
LEMMA CatalogueInit == K!Init => CatalogueInv
<1> SUFFICES ASSUME K!Init PROVE CatalogueInv
  OBVIOUS
<1>1. K!NoVariant \in VariantRows /\ K!NoVariant.st = "none"
  BY DEF K!NoVariant, VariantRows, VariantSkus
<1>2. CatalogueTypes
  BY <1>1 DEF K!Init, CatalogueTypes
<1>3. \A v \in Variants : variant[v].st = "none"
  BY <1>1 DEF K!Init
<1> QED
  BY <1>2, <1>3 DEF K!Init, CatalogueInv, OneRowOf, EditSound, ListingTrue,
                    K!NamedVariantsKept, K!SyncSettles

\* An edit that begins removes variants of its own product only.
LEMMA BeginEditKeeps ==
    ASSUME CatalogueInv, NEW p \in {"ours", "sapo"},
           NEW ks \in (SUBSET Combinations) \ {{}},
           NEW sent \in [ks -> Skus \union {K!None}], NEW stock \in K!StockAllowed(p, ks),
           K!BeginEdit(p, sent, stock)
    PROVE  CatalogueInv'
<1> DEFINE want == K!Desired(p, sent)
           keeps == {k \in DOMAIN want : \E v \in K!Match(p, k) : variant[v].sku = want[k]}
           gone == {v \in K!VariantsOf(p) : variant[v].key \notin DOMAIN want}
                       \union UNION {K!Match(p, k) : k \in DOMAIN want \ keeps}
<1>1. /\ \A k \in DOMAIN want : want[k] # K!None
      /\ edit' = [pc |-> "check", of |-> p, want |-> want, gone |-> gone,
                  new |-> DOMAIN want \ keeps, stock |-> stock]
      /\ UNCHANGED <<variant, named, counted, sapoSku, listing, settled>>
  BY DEF K!BeginEdit
<1>2. \A k : K!Match(p, k) \subseteq Variants
  BY DEF K!Match, K!VariantsOf
<1>3. DOMAIN want = ks
  BY DEF K!Desired
<1>4. ASSUME NEW k \in ks
      PROVE  /\ want[k] \in VariantSkus
             /\ k \notin keeps => want[k] \in Skus
  <2>1. want[k] = IF sent[k] # K!None \/ K!Match(p, k) = {} THEN sent[k]
                  ELSE variant[CHOOSE v \in K!Match(p, k) : TRUE].sku
    BY DEF K!Desired
  <2>2. CASE sent[k] # K!None \/ K!Match(p, k) = {}
    BY <1>1, <1>3, <2>1, <2>2 DEF VariantSkus
  <2>3. CASE ~ (sent[k] # K!None \/ K!Match(p, k) = {})
    <3>1. PICK v : v = CHOOSE x \in K!Match(p, k) : TRUE
      OBVIOUS
    <3>2. v \in K!Match(p, k) /\ want[k] = variant[v].sku
      BY <2>1, <2>3, <3>1
    <3>3. variant[v].sku \in VariantSkus
      BY <1>2, <3>2 DEF CatalogueInv, CatalogueTypes, VariantRows
    <3> QED
      BY <1>3, <3>2, <3>3
  <2> QED
    BY <2>2, <2>3
<1>5. want \in [ks -> VariantSkus]
  <2>1. want = [k \in ks |-> want[k]]
    BY DEF K!Desired
  <2> HIDE DEF want
  <2> QED
    BY <1>4, <2>1
<1>6. want \in Wants
  BY <1>5 DEF Wants
<1>7. stock \in SUBSET Combinations
  BY DEF K!StockAllowed
<1>8. gone \in SUBSET Variants
  BY <1>2 DEF K!VariantsOf
<1> HIDE DEF want, gone
<1>9. edit' \in Edits /\ EditSound'
  BY <1>1, <1>3, <1>4, <1>6, <1>7, <1>8 DEF Edits, EditSound
<1> QED
  BY <1>1, <1>9 DEF CatalogueInv, CatalogueTypes, ListingTrue, K!NamedVariantsKept, K!There,
                    K!SyncSettles, K!CopiesOf, K!HolderOf, OneRowOf

\* An edit that ends takes rows away that nothing names and makes others that nobody has.
LEMMA EndEditKeeps == ASSUME CatalogueInv, K!EndEdit PROVE CatalogueInv'
<1>1. PICK e, kept, m :
          /\ e = edit
          /\ kept = [v \in Variants |->
                        IF v \in e.gone THEN [K!NoVariant EXCEPT !.st = "gone"] ELSE variant[v]]
          /\ m = CHOOSE x \in K!Made(e.new, kept) : TRUE
  OBVIOUS
<1>2. /\ e.pc = "check" /\ K!DeleteAllowed(e.gone) /\ K!SkusFreeInTurn(e)
      /\ K!Made(e.new, kept) # {}
      /\ variant' = [v \in Variants |->
            IF v \notin K!Range(m) THEN kept[v]
            ELSE LET k == CHOOSE k \in e.new : m[k] = v
                 IN  [st |-> "there", of |-> e.of, key |-> k, sku |-> e.want[k],
                      sapo |-> K!None]]
      /\ named' = named \union {m[k] : k \in e.new \intersect e.stock}
      /\ edit' = K!NoEdit /\ settled' = FALSE
      /\ UNCHANGED <<counted, sapoSku, listing>>
  BY <1>1 DEF K!EndEdit
<1>3. e \in Edits /\ \A k \in e.new : e.want[k] \in Skus
  BY <1>1, <1>2 DEF CatalogueInv, CatalogueTypes, EditSound, K!NoEdit
<1>4. /\ m \in [e.new -> Variants]
      /\ \A k, l \in e.new : m[k] = m[l] => k = l
      /\ \A k \in e.new : kept[m[k]].st = "none"
  <2>1. m \in K!Made(e.new, kept)
    BY <1>1, <1>2
  <2>2. m \in [e.new -> K!Free(kept)] /\ K!IsInjective(m)
    BY <2>1 DEF K!Made, K!Injection
  <2> QED
    BY <2>2 DEF K!Free, K!IsInjective
<1>5. \A v \in Variants : v \in K!Range(m) <=> \E k \in e.new : m[k] = v
  BY <1>4 DEF K!Range
<1>6. \A k \in e.new : variant'[m[k]] = [st |-> "there", of |-> e.of, key |-> k,
                                         sku |-> e.want[k], sapo |-> K!None]
  <2> TAKE k \in e.new
  <2>1. m[k] \in Variants /\ m[k] \in K!Range(m)
    BY <1>4, <1>5
  <2>2. (CHOOSE l \in e.new : m[l] = m[k]) = k
    BY <1>4
  <2> QED
    BY <1>2, <2>1, <2>2
<1>7. \A v \in Variants : (\A k \in e.new : m[k] # v) => variant'[v] = kept[v]
  BY <1>2, <1>5
<1>8. variant \in [Variants -> VariantRows]
  BY DEF CatalogueInv, CatalogueTypes
<1>9. [K!NoVariant EXCEPT !.st = "gone"] \in VariantRows
      /\ [K!NoVariant EXCEPT !.st = "gone"].st = "gone"
  BY DEF K!NoVariant, VariantRows, VariantSkus
<1>10. \A v \in Variants :
          /\ v \in e.gone => kept[v].st = "gone" /\ kept[v] \in VariantRows
          /\ v \notin e.gone => kept[v] = variant[v]
  BY <1>1, <1>9
<1>11. \A k \in e.new : variant'[m[k]] \in VariantRows
  <2> TAKE k \in e.new
  <2>1. e.want[k] \in Skus /\ e.of \in {"ours", "sapo"} /\ k \in Combinations
    BY <1>3 DEF Edits
  <2>2. PICK r : r = [st |-> "there", of |-> e.of, key |-> k, sku |-> e.want[k],
                      sapo |-> K!None]
    OBVIOUS
  <2>3. r \in VariantRows
    BY <2>1, <2>2 DEF VariantRows, VariantSkus
  <2> QED
    BY <1>6, <2>2, <2>3
<1>12. variant' \in [Variants -> VariantRows]
  <2>1. \A v \in Variants : variant'[v] \in VariantRows
    BY <1>7, <1>8, <1>10, <1>11
  <2>2. DOMAIN variant' = Variants /\ variant' = [v \in Variants |-> variant'[v]]
    BY <1>2
  <2> QED
    BY <2>1, <2>2
<1>13. CatalogueTypes'
  <2>1. named' \union counted' \subseteq Variants
    BY <1>2, <1>4 DEF CatalogueInv, CatalogueTypes
  <2>2. settled' \in BOOLEAN
    BY <1>2
  <2> QED
    BY <1>2, <1>12, <2>1, <2>2 DEF CatalogueInv, CatalogueTypes
<1>14. /\ \A k, l \in e.new : k # l => e.want[k] # e.want[l]
       /\ \A k \in e.new : \A v \in Variants :
             variant[v].st = "there" /\ variant[v].sku = e.want[k] => v \in e.gone
  BY <1>2 DEF K!SkusFreeInTurn, K!HolderOf
<1>15. \A v \in Variants : variant'[v].st = "there" =>
          \/ \E k \in e.new : v = m[k]
          \/ v \notin e.gone /\ variant'[v] = variant[v]
  BY <1>7, <1>10
<1>16. \A k \in e.new : variant'[m[k]].sku = e.want[k] /\ variant'[m[k]].sapo = K!None
                        /\ variant'[m[k]].st = "there"
  <2> TAKE k \in e.new
  <2>1. PICK r : r = [st |-> "there", of |-> e.of, key |-> k, sku |-> e.want[k],
                      sapo |-> K!None]
    OBVIOUS
  <2>2. r.sku = e.want[k] /\ r.sapo = K!None /\ r.st = "there"
    BY <2>1
  <2> QED
    BY <1>6, <2>1, <2>2
<1>17. OneRowOf(variant')
  <2> SUFFICES ASSUME NEW v \in Variants, NEW w \in Variants,
                      variant'[v].st = "there", variant'[w].st = "there",
                      \/ variant'[v].sku = variant'[w].sku /\ variant'[v].sku \in Skus
                      \/ variant'[v].sapo = variant'[w].sapo /\ variant'[v].sapo # K!None
               PROVE  v = w
    BY DEF OneRowOf
  <2>1. ASSUME NEW k \in e.new, NEW l \in e.new, v = m[k], w = m[l] PROVE v = w
    BY <1>14, <1>16, <2>1
  <2>2. ASSUME NEW k \in e.new, v = m[k], w \notin e.gone, variant'[w] = variant[w] PROVE FALSE
    BY <1>14, <1>16, <2>2
  <2>3. ASSUME NEW k \in e.new, w = m[k], v \notin e.gone, variant'[v] = variant[v] PROVE FALSE
    BY <1>14, <1>16, <2>3
  <2>4. CASE variant'[v] = variant[v] /\ variant'[w] = variant[w]
    BY <2>4 DEF CatalogueInv, OneRowOf
  <2> QED
    BY <1>15, <2>1, <2>2, <2>3, <2>4
<1>18. \A v \in Variants : variant[v].st # "none" /\ v \notin e.gone => variant'[v] = variant[v]
  BY <1>4, <1>7, <1>10
<1>19. \A v \in Variants : variant[v].st # "none" /\ v \in e.gone => variant'[v].st = "gone"
  BY <1>4, <1>7, <1>10
<1>20. ListingTrue'
  <2> SUFFICES ASSUME listing # K!NoListing, NEW s \in K!SapoVariants,
                      NEW v \in listing.local[s]
               PROVE  /\ v \in DOMAIN listing.seen
                      /\ variant'[v].st # "none"
                      /\ variant'[v].st = "there" => variant'[v].sku = listing.seen[v]
    <3>1. listing' = listing
      BY <1>2
    <3> QED
      BY <3>1 DEF ListingTrue
  <2>1. /\ v \in DOMAIN listing.seen /\ variant[v].st # "none"
        /\ variant[v].st = "there" => variant[v].sku = listing.seen[v]
    BY DEF CatalogueInv, ListingTrue
  <2>2. v \in Variants
    BY DEF CatalogueInv, CatalogueTypes, Batches
  <2> QED
    BY <1>18, <1>19, <2>1, <2>2
<1>21. K!NamedVariantsKept'
  <2>1. \A v \in named \union counted : v \in Variants /\ variant[v].st = "there" /\ v \notin e.gone
    BY <1>2 DEF CatalogueInv, CatalogueTypes, K!NamedVariantsKept, K!There, K!DeleteAllowed
  <2>2. \A v \in named \union counted : variant'[v].st = "there"
    BY <1>18, <2>1
  <2>3. \A v \in named' \union counted' : variant'[v].st = "there"
    BY <1>2, <1>16, <2>2
  <2> QED
    BY <2>3 DEF K!NamedVariantsKept, K!There
<1> QED
  BY <1>2, <1>13, <1>17, <1>20, <1>21 DEF CatalogueInv, EditSound, K!SyncSettles, OneRowOf

\* The synchronisation has the rows and Sapo's SKUs as they are when it reads.
LEMMA ReadBatchKeeps == ASSUME CatalogueInv, K!ReadBatch PROVE CatalogueInv'
<1>1. PICK local, seen :
          /\ local = [s \in K!SapoVariants |-> K!CopiesOf(variant, s)]
          /\ seen = [v \in UNION {local[s] : s \in K!SapoVariants} |-> variant[v].sku]
  OBVIOUS
<1>2. /\ listing' = [pc |-> "read", sku |-> sapoSku, local |-> local, seen |-> seen]
      /\ UNCHANGED <<variant, named, counted, edit, sapoSku, settled>>
  BY <1>1 DEF K!ReadBatch
<1>3. \A s \in K!SapoVariants : \A v \in local[s] : v \in Variants /\ variant[v].st = "there"
  BY <1>1 DEF K!CopiesOf
<1>4. local \in [K!SapoVariants -> SUBSET Variants]
  BY <1>1, <1>3
<1>5. PICK vs : vs = UNION {local[s] : s \in K!SapoVariants}
  OBVIOUS
<1>6. vs \subseteq Variants /\ \A s \in K!SapoVariants : local[s] \subseteq vs
  BY <1>3, <1>5
<1>7. seen \in [vs -> VariantSkus] /\ \A v \in vs : seen[v] = variant[v].sku
  BY <1>1, <1>5, <1>6 DEF CatalogueInv, CatalogueTypes, VariantRows
<1>8. listing' \in Batches
  BY <1>2, <1>4, <1>6, <1>7 DEF Batches, CatalogueInv, CatalogueTypes
<1>9. ListingTrue'
  <2>1. listing'.local = local /\ listing'.seen = seen
    BY <1>2
  <2> QED
    BY <1>2, <1>3, <1>6, <1>7, <2>1 DEF ListingTrue
<1> QED
  BY <1>2, <1>8, <1>9 DEF CatalogueInv, CatalogueTypes, EditSound, K!NamedVariantsKept,
                    K!There, K!SyncSettles, K!CopiesOf, K!HolderOf, OneRowOf

\* A pass that finds nothing to write has found every copy as Sapo has it, and what it
\* found is still true of the rows.
LEMMA BatchSkipKeeps == ASSUME CatalogueInv, K!Skip PROVE CatalogueInv'
<1>1. /\ listing.pc = "read" /\ ~ K!ChangedAtAll /\ listing' = K!NoListing
      /\ settled' = (sapoSku = listing.sku /\ K!Undisturbed
                     /\ \A v \in DOMAIN listing.seen : variant[v].sku = listing.seen[v])
      /\ UNCHANGED <<variant, named, counted, edit, sapoSku>>
  BY DEF K!Skip
<1>2. listing # K!NoListing
  BY <1>1 DEF K!NoListing
<1>3. ASSUME settled', NEW s \in K!SapoVariants, NEW v \in K!CopiesOf(variant, s)
      PROVE  variant[v].sku = sapoSku[s]
  <2>1. v \in listing.local[s] /\ sapoSku = listing.sku
    BY <1>1, <1>3 DEF K!Undisturbed
  <2>2. listing.seen[v] = listing.sku[s]
    BY <1>1, <2>1 DEF K!ChangedAtAll
  <2>3. v \in DOMAIN listing.seen
    BY <1>2, <2>1 DEF CatalogueInv, ListingTrue
  <2> QED
    BY <1>1, <1>3, <2>1, <2>2, <2>3
<1>4. K!SyncSettles'
  <2>1. \A s : K!CopiesOf(variant', s) = K!CopiesOf(variant, s)
    BY <1>1
  <2> QED
    BY <1>1, <1>3, <2>1 DEF K!SyncSettles
<1>5. settled' \in BOOLEAN
  BY <1>1
<1> QED
  BY <1>1, <1>4, <1>5 DEF CatalogueInv, CatalogueTypes, EditSound, ListingTrue,
                    K!NamedVariantsKept, K!There, OneRowOf

\* f gives the table after the first n of Sapo's variants.
Copies(f, n, made) ==
    f = [i \in 0..n |-> IF i = 0 THEN variant
                        ELSE K!Copied(f[i - 1], SapoOrder[i], made)]

\* There are such tables, however many variants Sapo has.
LEMMA CopiesExist ==
    ASSUME NEW made
    PROVE  \A n \in Nat : \E f : Copies(f, n, made)
<1> DEFINE Bad == {n \in Nat : ~ \E f : Copies(f, n, made)}
<1>1. SUFFICES ASSUME Bad # {} PROVE FALSE
  OBVIOUS
<1>2. PICK n \in Bad : \A k \in Bad : n <= k
  BY <1>1, LeastNatural
<1>3. CASE n = 0
  <2> DEFINE f == [i \in 0..0 |-> variant]
  <2>1. f = [i \in 0..n |-> IF i = 0 THEN variant
                            ELSE K!Copied(f[i - 1], SapoOrder[i], made)]
    BY <1>3
  <2> QED
    BY <2>1 DEF Copies
<1>4. CASE n # 0
  <2>1. n \in Nat /\ n - 1 \in Nat /\ n - 1 \notin Bad
    BY <1>2, <1>4
  <2>2. PICK g : Copies(g, n - 1, made)
    BY <2>1
  <2> DEFINE f == [i \in 0..n |-> IF i = n THEN K!Copied(g[n - 1], SapoOrder[n], made)
                                  ELSE g[i]]
  <2>3. \A i \in 0..(n - 1) :
            g[i] = IF i = 0 THEN variant ELSE K!Copied(g[i - 1], SapoOrder[i], made)
    BY <2>1, <2>2 DEF Copies
  <2>4. ASSUME NEW i \in 0..n
        PROVE  f[i] = IF i = 0 THEN variant ELSE K!Copied(f[i - 1], SapoOrder[i], made)
    <3>1. CASE i = n
      BY <1>4, <2>1, <3>1
    <3>2. CASE i # n
      BY <2>1, <2>3, <3>2
    <3> QED
      BY <3>1, <3>2
  <2>5. f = [i \in 0..n |-> f[i]]
    OBVIOUS
  <2> HIDE DEF f
  <2>6. f = [i \in 0..n |-> IF i = 0 THEN variant
                            ELSE K!Copied(f[i - 1], SapoOrder[i], made)]
    BY <2>4, <2>5
  <2> QED
    BY <2>6 DEF Copies
<1> QED
  BY <1>3, <1>4

\* The copying goes through them one by one.
LEMMA CopyUnfolds ==
    ASSUME NEW made
    PROVE  \E f : /\ f[0] = variant
                  /\ \A n \in 1..Len(SapoOrder) :
                        f[n] = K!Copied(f[n - 1], SapoOrder[n], made)
                  /\ K!AllCopied(made) = f[Len(SapoOrder)]
<1>1. Len(SapoOrder) \in Nat
  BY CatalogueConstants
<1>2. PICK f : f = CHOOSE g : Copies(g, Len(SapoOrder), made)
  OBVIOUS
<1>3. Copies(f, Len(SapoOrder), made)
  BY <1>1, <1>2, CopiesExist
<1>4. K!AllCopied(made) = f[Len(SapoOrder)]
  BY <1>2 DEF K!AllCopied, Copies
<1>5. \A n \in 0..Len(SapoOrder) :
          f[n] = IF n = 0 THEN variant ELSE K!Copied(f[n - 1], SapoOrder[n], made)
  BY <1>3 DEF Copies
<1> QED
  BY <1>1, <1>4, <1>5

\* The row that Sapo's variant s is copied to.
Touched(v, s, made) ==
    IF listing.local[s] = {} THEN v = made[s] ELSE v \in listing.local[s]

\* What the copying starts from: a batch that is as the tables are, and free rows for
\* what is missing.
CopyStarts(made) ==
    /\ CatalogueInv /\ listing \in Batches /\ K!Undisturbed
    /\ made \in [K!Missing -> Variants]
    /\ \A s, t \in K!Missing : made[s] = made[t] => s = t
    /\ \A s \in K!Missing : variant[made[s]].st = "none"

\* Each row is copied to once.
LEMMA TouchedOnce ==
    ASSUME NEW made, CopyStarts(made), NEW s \in K!SapoVariants, NEW t \in K!SapoVariants,
           NEW v, Touched(v, s, made), Touched(v, t, made)
    PROVE  s = t /\ v \in Variants
<1>1. \A x \in K!SapoVariants :
          /\ listing.local[x] = {y \in Variants : variant[y].st = "there" /\ variant[y].sapo = x}
          /\ x \in K!Missing <=> listing.local[x] = {}
  BY DEF CopyStarts, K!Undisturbed, K!CopiesOf, K!Missing
<1> QED
  BY <1>1 DEF CopyStarts, Touched

\* What holds of every table on the way.
CopiedSoFar(table, n, made) ==
    /\ table \in [Variants -> VariantRows]
    /\ OneRowOf(table)
    /\ \A v \in Variants : variant[v].st # "none" => table[v].st = variant[v].st
    /\ \A v \in Variants :
          table[v] # variant[v] => \E j \in 1..n : Touched(v, SapoOrder[j], made)
    /\ \A v \in Variants, s \in K!SapoVariants :
          table[v].st = "there" /\ table[v].sapo = s => Touched(v, s, made)

\* The n-th of Sapo's variants is s, and next is the table when it has been copied.
CopyOf(next, table, s, n, made) == s = SapoOrder[n] /\ next = K!Copied(table, s, made)

\* A variant we know keeps its row; its SKU is Sapo's only if no other row holds it.
LEMMA CopyKnown ==
    ASSUME NEW made, CopyStarts(made), NEW n \in 1..Len(SapoOrder), NEW table,
           CopiedSoFar(table, n - 1, made), NEW s, NEW u \in listing.local[s],
           NEW next, CopyOf(next, table, s, n, made)
    PROVE  /\ CopiedSoFar(next, n, made)
           /\ \A v \in Variants : ~ Touched(v, s, made) => next[v] = table[v]
<1>1. s \in K!SapoVariants
  BY CatalogueConstants DEF CopyOf
<1>2. PICK want : want = listing.sku[s]
  OBVIOUS
<1>3. want \in Skus
  BY <1>1, <1>2 DEF CopyStarts, Batches
<1>4. next = [v \in Variants |->
                IF v \in listing.local[s]
                THEN [table[v] EXCEPT !.sku =
                        IF want = listing.seen[v] THEN @ ELSE K!SkuUpdated(table, v, want)]
                ELSE table[v]]
  BY <1>2 DEF CopyOf, K!Copied
<1>6. listing.local[s] = {u} /\ u \in Variants
  <2>1. listing.local[s] = {y \in Variants : variant[y].st = "there" /\ variant[y].sapo = s}
    BY <1>1 DEF CopyStarts, K!Undisturbed, K!CopiesOf
  <2>2. \A y \in listing.local[s] : y \in Variants /\ y = u
    BY <1>1, <2>1, CatalogueConstants DEF CopyStarts, CatalogueInv, OneRowOf
  <2> QED
    BY <2>2
<1>7. PICK sku : sku = IF want = listing.seen[u] THEN table[u].sku
                       ELSE K!SkuUpdated(table, u, want)
  OBVIOUS
<1>8. table \in [Variants -> VariantRows] /\ OneRowOf(table)
  BY DEF CopiedSoFar
<1>9. /\ sku \in VariantSkus
      /\ sku # table[u].sku => sku = want /\ \A w \in Variants :
                                  table[w].st = "there" /\ table[w].sku = want => w = u
  BY <1>3, <1>6, <1>7, <1>8 DEF VariantRows, VariantSkus, K!SkuUpdated, K!HolderOf
<1>10. PICK r : r = [table[u] EXCEPT !.sku = sku]
  OBVIOUS
<1>11. r \in VariantRows /\ r.st = table[u].st /\ r.sku = sku /\ r.sapo = table[u].sapo
  BY <1>6, <1>8, <1>9, <1>10 DEF VariantRows
<1>12. next[u] = r
  BY <1>4, <1>6, <1>7, <1>10
<1>13. \A v \in Variants : v # u => next[v] = table[v]
  BY <1>4, <1>6
<1>14. next \in [Variants -> VariantRows]
  <2>1. next = [v \in Variants |-> next[v]]
    BY <1>4
  <2>2. \A v \in Variants : next[v] \in VariantRows
    BY <1>8, <1>11, <1>12, <1>13
  <2> QED
    BY <2>1, <2>2
<1>15. \A v \in Variants : next[v].st = table[v].st /\ next[v].sapo = table[v].sapo
                           /\ (v # u => next[v].sku = table[v].sku) /\ next[u].sku = sku
  BY <1>11, <1>12, <1>13
<1>16. OneRowOf(next)
  <2> SUFFICES ASSUME NEW v \in Variants, NEW w \in Variants,
                      next[v].st = "there", next[w].st = "there",
                      \/ next[v].sku = next[w].sku /\ next[v].sku \in Skus
                      \/ next[v].sapo = next[w].sapo /\ next[v].sapo # K!None
               PROVE  v = w
    BY DEF OneRowOf
  <2>1. CASE next[v].sapo = next[w].sapo /\ next[v].sapo # K!None
    BY <1>8, <1>15, <2>1 DEF OneRowOf
  <2>2. CASE next[v].sku = next[w].sku /\ next[v].sku \in Skus
    <3>1. CASE sku = table[u].sku
      BY <1>8, <1>15, <2>2, <3>1 DEF OneRowOf
    <3>2. CASE sku # table[u].sku
      BY <1>8, <1>9, <1>15, <2>2, <3>2 DEF OneRowOf
    <3> QED
      BY <3>1, <3>2
  <2> QED
    BY <2>1, <2>2
<1>17. \A v \in Variants : variant[v].st # "none" => next[v].st = variant[v].st
  BY <1>15 DEF CopiedSoFar
<1>18. Touched(u, s, made) /\ \A v : Touched(v, s, made) <=> v = u
  BY <1>6 DEF Touched
<1>19. ASSUME NEW v \in Variants, next[v] # variant[v]
       PROVE  \E j \in 1..n : Touched(v, SapoOrder[j], made)
  <2>1. CASE v = u
    BY <1>18, <2>1, CatalogueConstants DEF CopyOf
  <2>2. CASE v # u
    <3>1. PICK j \in 1..(n - 1) : Touched(v, SapoOrder[j], made)
      BY <1>13, <1>19, <2>2 DEF CopiedSoFar
    <3>2. j \in 1..n
      BY CatalogueConstants
    <3> QED
      BY <3>1, <3>2
  <2> QED
    BY <2>1, <2>2
<1>20. \A v \in Variants, t \in K!SapoVariants :
          next[v].st = "there" /\ next[v].sapo = t => Touched(v, t, made)
  BY <1>15 DEF CopiedSoFar
<1> QED
  BY <1>13, <1>14, <1>16, <1>17, <1>18, <1>19, <1>20 DEF CopiedSoFar

\* A variant new to us gets a row of its own, with Sapo's SKU if nobody holds it.
LEMMA CopyMissing ==
    ASSUME NEW made, CopyStarts(made), NEW n \in 1..Len(SapoOrder), NEW table,
           CopiedSoFar(table, n - 1, made), NEW s, listing.local[s] = {},
           NEW next, CopyOf(next, table, s, n, made)
    PROVE  /\ CopiedSoFar(next, n, made)
           /\ \A v \in Variants : ~ Touched(v, s, made) => next[v] = table[v]
<1>1. s \in K!SapoVariants
  BY CatalogueConstants DEF CopyOf
<1>2. PICK sku : sku = K!SkuCreated(table, listing.sku[s])
  OBVIOUS
<1>3. listing.sku[s] \in Skus
  BY <1>1 DEF CopyStarts, Batches
<1>4. /\ sku \in VariantSkus
      /\ sku \in Skus => \A w \in Variants : ~ (table[w].st = "there" /\ table[w].sku = sku)
  BY <1>2, <1>3, CatalogueConstants DEF VariantSkus, K!SkuCreated, K!HolderOf
<1>5. PICK r, u : /\ r = [st |-> "there", of |-> "sapo", key |-> s, sku |-> sku, sapo |-> s]
                  /\ u = made[s]
  OBVIOUS
<1>6. r \in VariantRows /\ r.st = "there" /\ r.sku = sku /\ r.sapo = s
  BY <1>1, <1>4, <1>5 DEF VariantRows
<1>7. next = [table EXCEPT ![u] = r]
  BY <1>2, <1>5 DEF CopyOf, K!Copied
<1>8. s \in K!Missing
  BY <1>1 DEF K!Missing
<1>9. u \in Variants /\ variant[u].st = "none"
  BY <1>5, <1>8 DEF CopyStarts
<1>10. table \in [Variants -> VariantRows] /\ OneRowOf(table)
  BY DEF CopiedSoFar
<1>11. /\ next \in [Variants -> VariantRows] /\ next[u] = r
       /\ \A v \in Variants : v # u => next[v] = table[v]
  BY <1>6, <1>7, <1>9, <1>10
<1>12. \A v : Touched(v, s, made) <=> v = u
  BY <1>5 DEF Touched
<1>13. ASSUME NEW v \in Variants, table[v].st = "there", table[v].sapo = s PROVE v = u
  BY <1>1, <1>12, <1>13 DEF CopiedSoFar
<1>14. OneRowOf(next)
  <2> SUFFICES ASSUME NEW v \in Variants, NEW w \in Variants,
                      next[v].st = "there", next[w].st = "there",
                      \/ next[v].sku = next[w].sku /\ next[v].sku \in Skus
                      \/ next[v].sapo = next[w].sapo /\ next[v].sapo # K!None
               PROVE  v = w
    BY DEF OneRowOf
  <2>1. CASE v = u /\ w # u
    BY <1>4, <1>6, <1>11, <1>13, <2>1
  <2>2. CASE v # u /\ w = u
    BY <1>4, <1>6, <1>11, <1>13, <2>2
  <2>3. CASE v # u /\ w # u
    BY <1>10, <1>11, <2>3 DEF OneRowOf
  <2> QED
    BY <2>1, <2>2, <2>3
<1>15. \A v \in Variants : variant[v].st # "none" => next[v].st = variant[v].st
  BY <1>9, <1>11 DEF CopiedSoFar
<1>16. ASSUME NEW v \in Variants, next[v] # variant[v]
       PROVE  \E j \in 1..n : Touched(v, SapoOrder[j], made)
  <2>1. CASE v = u
    BY <1>12, <2>1, CatalogueConstants DEF CopyOf
  <2>2. CASE v # u
    <3>1. PICK j \in 1..(n - 1) : Touched(v, SapoOrder[j], made)
      BY <1>11, <1>16, <2>2 DEF CopiedSoFar
    <3>2. j \in 1..n
      BY CatalogueConstants
    <3> QED
      BY <3>1, <3>2
  <2> QED
    BY <2>1, <2>2
<1>17. ASSUME NEW v \in Variants, NEW t \in K!SapoVariants,
              next[v].st = "there", next[v].sapo = t
       PROVE  Touched(v, t, made)
  <2>1. CASE v = u
    BY <1>6, <1>11, <1>12, <1>17, <2>1
  <2>2. CASE v # u
    BY <1>11, <1>17, <2>2 DEF CopiedSoFar
  <2> QED
    BY <2>1, <2>2
<1> QED
  BY <1>11, <1>12, <1>14, <1>15, <1>16, <1>17 DEF CopiedSoFar

\* One variant after the other; a table that is as it was has been so all along.
LEMMA CopyStep ==
    ASSUME NEW made, CopyStarts(made), NEW n \in 1..Len(SapoOrder), NEW table,
           CopiedSoFar(table, n - 1, made),
           NEW next, next = K!Copied(table, SapoOrder[n], made)
    PROVE  CopiedSoFar(next, n, made) /\ (next = variant => table = variant)
<1>1. PICK s : s = SapoOrder[n]
  OBVIOUS
<1>2. /\ CopiedSoFar(next, n, made)
      /\ \A v \in Variants : ~ Touched(v, s, made) => next[v] = table[v]
  <2>1. CopyOf(next, table, s, n, made)
    BY <1>1 DEF CopyOf
  <2>2. CASE listing.local[s] # {}
    <3>1. PICK u : u \in listing.local[s]
      BY <2>2
    <3> QED
      BY <2>1, <3>1, CopyKnown
  <2>3. CASE listing.local[s] = {}
    BY <2>1, <2>3, CopyMissing
  <2> QED
    BY <2>2, <2>3
<1>3. ASSUME next = variant, NEW v \in Variants PROVE table[v] = variant[v]
  <2> SUFFICES ASSUME table[v] # variant[v] PROVE FALSE
    OBVIOUS
  <2>1. PICK j \in 1..(n - 1) : Touched(v, SapoOrder[j], made)
    BY DEF CopiedSoFar
  <2>2. Touched(v, s, made)
    BY <1>2, <1>3
  <2>3. j \in 1..Len(SapoOrder) /\ j # n
    BY CatalogueConstants
  <2>4. SapoOrder[j] \in K!SapoVariants /\ s \in K!SapoVariants
    BY <1>1, <2>3, CatalogueConstants
  <2>5. SapoOrder[j] = s
    BY <2>1, <2>2, <2>4, TouchedOnce
  <2> QED
    BY <1>1, <2>3, <2>5, CatalogueConstants
<1>4. table \in [Variants -> VariantRows] /\ variant \in [Variants -> VariantRows]
  BY DEF CopiedSoFar, CopyStarts, CatalogueInv, CatalogueTypes
<1>5. ASSUME next = variant PROVE table = variant
  <2>1. \A v \in Variants : table[v] = variant[v]
    BY <1>3, <1>5
  <2>2. /\ table = [v \in Variants |-> table[v]]
        /\ variant = [v \in Variants |-> variant[v]]
    BY <1>4
  <2> QED
    BY <2>1, <2>2
<1> QED
  BY <1>2, <1>5

\* The copying as a whole.
LEMMA CopiedInAll ==
    ASSUME NEW made, CopyStarts(made)
    PROVE  /\ CopiedSoFar(K!AllCopied(made), Len(SapoOrder), made)
           /\ K!AllCopied(made) = variant =>
                 \A s \in K!SapoVariants : K!Copied(variant, s, made) = variant
<1>1. PICK f : /\ f[0] = variant
               /\ \A n \in 1..Len(SapoOrder) : f[n] = K!Copied(f[n - 1], SapoOrder[n], made)
               /\ K!AllCopied(made) = f[Len(SapoOrder)]
  BY CopyUnfolds
<1>2. Len(SapoOrder) \in Nat
  BY CatalogueConstants
<1>3. CopiedSoFar(variant, 0, made)
  <2>1. \A v \in Variants, s \in K!SapoVariants :
            variant[v].st = "there" /\ variant[v].sapo = s => v \in listing.local[s]
    BY DEF CopyStarts, K!Undisturbed, K!CopiesOf
  <2> QED
    BY <2>1 DEF CopiedSoFar, CopyStarts, CatalogueInv, CatalogueTypes, Touched
<1>4. ASSUME NEW n \in 1..Len(SapoOrder), CopiedSoFar(f[n - 1], n - 1, made)
      PROVE  CopiedSoFar(f[n], n, made) /\ (f[n] = variant => f[n - 1] = variant)
  BY <1>1, <1>4, CopyStep
<1>5. \A n \in 0..Len(SapoOrder) : CopiedSoFar(f[n], n, made)
  <2> DEFINE Bad == {n \in 0..Len(SapoOrder) : ~ CopiedSoFar(f[n], n, made)}
  <2>1. SUFFICES ASSUME Bad # {} PROVE FALSE
    OBVIOUS
  <2>5. Bad \subseteq Nat
    BY <1>2
  <2>2. PICK n \in Bad : \A k \in Bad : n <= k
    <3> HIDE DEF Bad
    <3> QED
      BY <2>1, <2>5, LeastNatural
  <2>3. n # 0
    BY <1>1, <1>3, <2>2
  <2>4. n \in 1..Len(SapoOrder) /\ n - 1 \in 0..Len(SapoOrder) /\ n - 1 \notin Bad
    BY <1>2, <2>2, <2>3
  <2> QED
    BY <1>4, <2>2, <2>4
<1>6. ASSUME f[Len(SapoOrder)] = variant, NEW n \in 0..Len(SapoOrder) PROVE f[n] = variant
  <2> DEFINE Bad == {k \in 0..Len(SapoOrder) : f[k] # variant}
  <2>1. SUFFICES ASSUME Bad # {} PROVE FALSE
    OBVIOUS
  <2>2. PICK k \in Bad : \A j \in Bad : j <= k
    BY <1>2, <2>1, GreatestUpTo
  <2>3. k # Len(SapoOrder)
    BY <1>6, <2>2
  <2>4. k + 1 \in 1..Len(SapoOrder) /\ (k + 1) - 1 = k /\ k + 1 \notin Bad
    BY <1>2, <2>2, <2>3
  <2> QED
    BY <1>4, <1>5, <2>2, <2>4
<1>7. ASSUME f[Len(SapoOrder)] = variant, NEW s \in K!SapoVariants
      PROVE  K!Copied(variant, s, made) = variant
  <2>1. PICK n \in 1..Len(SapoOrder) : SapoOrder[n] = s
    BY CatalogueConstants
  <2>2. f[n] = variant /\ f[n - 1] = variant
    BY <1>2, <1>6, <1>7
  <2> QED
    BY <1>1, <2>1, <2>2
<1> QED
  BY <1>1, <1>2, <1>5, <1>7

\* A pass that wrote nothing that it had not to has given every copy Sapo's SKU, or found
\* another row that holds it.
LEMMA BatchCopyKeeps == ASSUME CatalogueInv, K!Copy PROVE CatalogueInv'
<1>1. PICK made : made = CHOOSE m \in K!Made(K!Missing, variant) : TRUE
  OBVIOUS
<1>2. /\ listing.pc = "read" /\ K!Undisturbed
      /\ K!Made(K!Missing, variant) # {}
      /\ variant' = K!AllCopied(made)
      /\ settled' = (variant' = variant /\ sapoSku = listing.sku)
      /\ listing' = K!NoListing
      /\ UNCHANGED <<named, counted, edit, sapoSku>>
  BY <1>1 DEF K!Copy
<1>3. listing \in Batches
  BY <1>2 DEF CatalogueInv, CatalogueTypes, K!NoListing
<1>4. /\ made \in [K!Missing -> Variants]
      /\ \A s, t \in K!Missing : made[s] = made[t] => s = t
      /\ \A s \in K!Missing : variant[made[s]].st = "none"
  <2>1. made \in K!Made(K!Missing, variant)
    BY <1>1, <1>2
  <2>2. made \in [K!Missing -> K!Free(variant)] /\ K!IsInjective(made)
    BY <2>1 DEF K!Made, K!Injection
  <2> QED
    BY <2>2 DEF K!Free, K!IsInjective
<1>5. CopyStarts(made)
  BY <1>2, <1>3, <1>4 DEF CopyStarts
<1>6. PICK all : all = K!AllCopied(made)
  OBVIOUS
<1>7. /\ CopiedSoFar(all, Len(SapoOrder), made)
      /\ all = variant => \A s \in K!SapoVariants : K!Copied(variant, s, made) = variant
  BY <1>5, <1>6, CopiedInAll
<1>8. CatalogueTypes' /\ OneRowOf(variant')
  <2>1. settled' \in BOOLEAN
    BY <1>2
  <2>2. variant' = all /\ all \in [Variants -> VariantRows] /\ OneRowOf(all)
    BY <1>2, <1>6, <1>7 DEF CopiedSoFar
  <2> QED
    BY <1>2, <2>1, <2>2 DEF CatalogueInv, CatalogueTypes
<1>9. K!NamedVariantsKept'
  <2>1. \A v \in named \union counted : v \in Variants /\ variant[v].st = "there"
    BY DEF CatalogueInv, CatalogueTypes, K!NamedVariantsKept, K!There
  <2>2. \A v \in named \union counted : all[v].st = "there"
    BY <1>7, <2>1 DEF CopiedSoFar
  <2> QED
    BY <1>2, <1>6, <2>2 DEF K!NamedVariantsKept, K!There
<1>10. ASSUME all = variant, sapoSku = listing.sku, NEW s \in K!SapoVariants,
              NEW v \in K!CopiesOf(variant, s)
       PROVE  variant[v].sku = sapoSku[s] \/ K!HolderOf(variant, sapoSku[s]) \ {v} # {}
  <2>1. /\ v \in listing.local[s] /\ v \in Variants /\ variant[v].st = "there"
        /\ listing.local[s] # {}
    BY <1>2, <1>10 DEF K!Undisturbed, K!CopiesOf
  <2>2. variant[v].sku = listing.seen[v]
    BY <1>3, <2>1 DEF CatalogueInv, ListingTrue, Batches, K!NoListing
  <2>3. K!Copied(variant, s, made) = variant
    BY <1>7, <1>10
  <2>4. PICK sku, want :
            /\ want = listing.sku[s]
            /\ sku = IF want = listing.seen[v] THEN variant[v].sku
                     ELSE K!SkuUpdated(variant, v, want)
    OBVIOUS
  <2>5. variant[v] = [variant[v] EXCEPT !.sku = sku]
    BY <2>1, <2>3, <2>4 DEF K!Copied
  <2>6. variant[v].sku = sku
    <3>1. variant[v] \in VariantRows
      BY <2>1 DEF CatalogueInv, CatalogueTypes
    <3> QED
      BY <2>5, <3>1 DEF VariantRows
  <2>7. CASE want = listing.seen[v]
    BY <1>10, <2>2, <2>4, <2>7
  <2>8. CASE want # listing.seen[v] /\ K!HolderOf(variant, want) \subseteq {v}
    BY <1>10, <2>4, <2>6, <2>8 DEF K!SkuUpdated
  <2>9. CASE ~ (K!HolderOf(variant, want) \subseteq {v})
    BY <1>10, <2>4, <2>9
  <2> QED
    BY <2>7, <2>8, <2>9
<1>11. K!SyncSettles'
  <2> SUFFICES ASSUME settled', NEW s \in K!SapoVariants, NEW v \in K!CopiesOf(variant', s)
               PROVE  variant'[v].sku = sapoSku'[s]
                      \/ K!HolderOf(variant', sapoSku'[s]) \ {v} # {}
    BY DEF K!SyncSettles
  <2>1. all = variant /\ variant' = variant /\ sapoSku' = sapoSku /\ sapoSku = listing.sku
    BY <1>2, <1>6
  <2> QED
    BY <1>10, <2>1
<1> QED
  BY <1>2, <1>8, <1>9, <1>11 DEF CatalogueInv, EditSound, ListingTrue, OneRowOf

\* Every step keeps the catalogue's invariant.
LEMMA CatalogueStep == CatalogueInv /\ [K!Next]_(K!vars) => CatalogueInv'
<1> SUFFICES ASSUME CatalogueInv, [K!Next]_(K!vars) PROVE CatalogueInv'
  OBVIOUS
<1>1. ASSUME NEW p \in {"ours", "sapo"}, NEW ks \in (SUBSET Combinations) \ {{}},
             NEW sent \in [ks -> Skus \union {K!None}], NEW stock \in K!StockAllowed(p, ks),
             K!BeginEdit(p, sent, stock)
      PROVE  CatalogueInv'
  BY <1>1, BeginEditKeeps
<1>2. CASE K!EndEdit
  BY <1>2, EndEditKeeps
<1>3. CASE K!ReadBatch
  BY <1>3, ReadBatchKeeps
<1>4. CASE K!Copy
  BY <1>4, BatchCopyKeeps
<1>5. CASE K!Skip
  BY <1>5, BatchSkipKeeps
<1>6. ASSUME UNCHANGED variant
      PROVE  /\ \A s : K!CopiesOf(variant, s)' = K!CopiesOf(variant, s)
             /\ \A k : K!HolderOf(variant, k)' = K!HolderOf(variant, k)
             /\ \A v : K!There(v)' <=> K!There(v)
             /\ OneRowOf(variant)' <=> OneRowOf(variant)
  BY <1>6 DEF K!CopiesOf, K!HolderOf, K!There, OneRowOf
<1>7. CASE K!FailEdit
  BY <1>6, <1>7 DEF K!FailEdit, CatalogueInv, CatalogueTypes, EditSound, ListingTrue,
                    K!NamedVariantsKept, K!SyncSettles
<1>8. CASE K!FailSync
  BY <1>6, <1>8 DEF K!FailSync, CatalogueInv, CatalogueTypes, EditSound, ListingTrue,
                    K!NamedVariantsKept, K!SyncSettles
<1>9. CASE UNCHANGED K!vars
  BY <1>6, <1>9 DEF K!vars, CatalogueInv, CatalogueTypes, EditSound, ListingTrue,
                    K!NamedVariantsKept, K!SyncSettles
<1>10. ASSUME NEW v \in Variants, K!Document(v) PROVE CatalogueInv'
  BY <1>6, <1>10 DEF K!Document, CatalogueInv, CatalogueTypes, EditSound, ListingTrue,
                     K!NamedVariantsKept, K!SyncSettles
<1>11. ASSUME NEW s \in K!SapoVariants, NEW sku \in Skus, K!ChangeAtSapo(s, sku)
       PROVE  CatalogueInv'
  <2>1. /\ sapoSku' = [sapoSku EXCEPT ![s] = sku] /\ settled' = FALSE
        /\ UNCHANGED <<variant, named, counted, edit, listing>>
    BY <1>11 DEF K!ChangeAtSapo
  <2>2. CatalogueTypes'
    BY <2>1 DEF CatalogueInv, CatalogueTypes
  <2> QED
    BY <1>6, <2>1, <2>2 DEF CatalogueInv, EditSound, ListingTrue, K!NamedVariantsKept,
                            K!SyncSettles
<1> QED
  BY <1>1, <1>2, <1>3, <1>4, <1>5, <1>7, <1>8, <1>9, <1>10, <1>11 DEF K!Next

\* The invariant says what the types say.
LEMMA CatalogueRight == CatalogueInv => K!TypeOK
<1> SUFFICES ASSUME CatalogueInv PROVE K!TypeOK
  OBVIOUS
<1>1. \A S : K!Cardinality(S) = Cardinality(S)
  BY DEF K!Cardinality, Cardinality
<1>2. ASSUME NEW k \in Skus PROVE Cardinality(K!HolderOf(variant, k)) <= 1
  <2>1. \A v, w \in K!HolderOf(variant, k) : v = w
    BY DEF CatalogueInv, OneRowOf, K!HolderOf
  <2> HIDE DEF K!HolderOf
  <2> QED
    BY <2>1, OneAtMost
<1>3. ASSUME NEW s \in K!SapoVariants PROVE Cardinality(K!CopiesOf(variant, s)) <= 1
  <2>1. \A v, w \in K!CopiesOf(variant, s) : v = w
    BY CatalogueConstants DEF CatalogueInv, OneRowOf, K!CopiesOf
  <2> QED
    BY <2>1, OneAtMost
<1>4. \A v \in Variants : /\ variant[v].st \in {"none", "there", "gone"}
                          /\ variant[v].sku \in VariantSkus
  BY DEF CatalogueInv, CatalogueTypes, VariantRows
<1> QED
  BY <1>1, <1>2, <1>3, <1>4 DEF K!TypeOK, CatalogueInv, CatalogueTypes, VariantSkus

\* No real SKU and no variant of Sapo's is in two rows, what documents, movements and
\* stocktakes name is there, and a synchronisation with nothing left to write has given
\* every copy Sapo's SKU, unless another row holds it.
THEOREM CatalogueSettles ==
    Spec => [](K!TypeOK /\ K!NamedVariantsKept /\ K!SyncSettles)
<1>1. CatalogueInv => K!TypeOK /\ K!NamedVariantsKept /\ K!SyncSettles
  BY CatalogueRight DEF CatalogueInv
<1> QED
  BY <1>1, CatalogueAsAlone, CatalogueInit, CatalogueStep, PTL DEF K!Spec

\* What is named stays in the catalogue, a synchronisation of the products that has
\* nothing left to write has given the copies Sapo's SKUs, and one of the locations that
\* nothing disturbs leaves them as Sapo has them, but for what it reports.
THEOREM EveryCopySettles == Spec => []CopiesSettle
BY CatalogueSettles, LocationsSettle, PTL DEF CopiesSettle

-----------------------------------------------------------------------------
(* The types of the rows.                                                  *)

\* The copies of Sapo's orders: an open one holds stock, and each is of an order whose
\* variants we know, as is what a run is about to copy.
CopyRows ==
    /\ \A o \in I!Orders : /\ copy[o].st \in {"none", "open", "fulfilled"}
                           /\ copy[o].reserved <=> copy[o].st = "open"
    /\ I!Copied \subseteq known
    /\ \A p \in Passes : pass[p] # I!Idle => \A w \in pass[p].work : w.o \in known

\* At the start nothing is copied.
LEMMA CopyRowsInit == I!Init => CopyRows
BY DEF I!Init, CopyRows, I!Copied, I!NoCopy, I!Idle

\* What is known stays known, so that only a new entry of a run's work has to be looked at.
LEMMA WorkKeeps ==
    ASSUME IntakeInv, CopyRows, NEW p \in Passes, UNCHANGED copy, known \subseteq known',
           NEW s, pass' = [pass EXCEPT ![p] = s], s # I!Idle => \A w \in s.work : w.o \in known
    PROVE  CopyRows'
<1>1. pass \in [Passes -> {I!Idle} \union KnownRuns]
  BY DEF IntakeInv, IntakeTypes
<1>2. \A q \in Passes : pass'[q] # I!Idle => \A w \in pass'[q].work : w.o \in known'
  BY <1>1 DEF CopyRows
<1>3. I!Copied' = I!Copied
  BY DEF I!Copied
<1> QED
  BY <1>2, <1>3 DEF CopyRows, I!Orders

\* Every step keeps the rows of copies and runs typed.
LEMMA CopyRowsStep ==
    I!IntakeAssumption /\ IntakeInv /\ CopyRows /\ [I!Next]_(I!vars) => CopyRows'
<1> SUFFICES ASSUME I!IntakeAssumption, IntakeInv, CopyRows, [I!Next]_(I!vars)
             PROVE  CopyRows'
  OBVIOUS
<1>1. pass \in [Passes -> {I!Idle} \union KnownRuns]
  BY DEF IntakeInv, IntakeTypes
<1>2. \A q \in Passes : pass[q].pc # "idle" => pass[q] \in IntakeRun
  BY <1>1 DEF KnownRuns, I!Idle
<1>3. ASSUME UNCHANGED <<copy, pass>>, known \subseteq known' PROVE CopyRows'
  <2>1. I!Copied' = I!Copied
    BY <1>3 DEF I!Copied
  <2> QED
    BY <1>3, <2>1 DEF CopyRows, I!Orders
<1>4. ASSUME NEW o \in I!Orders, I!Appear(o) \/ I!Fulfil(o) \/ I!Learn(o) PROVE CopyRows'
  BY <1>3, <1>4 DEF I!Appear, I!Fulfil, I!Learn
<1>5. CASE UNCHANGED I!vars
  BY <1>3, <1>5 DEF I!vars
<1>6. ASSUME NEW p \in Passes, NEW since, I!Begin(p, since) PROVE CopyRows'
  <2> DEFINE r == [pc |-> "list", since |-> since, page |-> 1, work |-> {}, gaps |-> {}]
  <2>1. pass' = [pass EXCEPT ![p] = r] /\ UNCHANGED <<known, copy>> /\ r.work = {}
    BY <1>6 DEF I!Begin
  <2> HIDE DEF r
  <2> QED
    BY <2>1, WorkKeeps
<1>7. ASSUME NEW p \in Passes, I!ReadPage(p) PROVE CopyRows'
  <2>1. pass[p].pc = "list" /\ UNCHANGED <<known, copy>>
    BY <1>7 DEF I!ReadPage
  <2>2. pass[p] \in IntakeRun
    BY <1>2, <2>1
  <2>3. PICK s : s = pass'[p]
    OBVIOUS
  <2>4. pass' = [pass EXCEPT ![p] = s]
    BY <1>1, <1>7, <2>3 DEF I!ReadPage
  <2> DEFINE orders == I!Page(pass[p].since, pass[p].page)
             fresh == orders \ I!Copied
             fetched == {[o |-> o, st |-> remote[o]] : o \in fresh \intersect known}
  <2>5. CASE orders = {}
    <3>1. pass' = [pass EXCEPT ![p] = [pass[p] EXCEPT !.pc = "record"]]
      BY <1>7, <2>5 DEF I!ReadPage
    <3>2. s.work = pass[p].work
      BY <1>1, <2>2, <2>3, <3>1 DEF IntakeRun
    <3>3. pass[p] # I!Idle
      BY <2>1 DEF I!Idle
    <3> QED
      BY <2>1, <2>4, <3>2, <3>3, WorkKeeps DEF CopyRows
  <2>6. CASE orders # {}
    <3> DEFINE page == IF Cardinality(orders) < PageSize \/ pass[p].page = MaxPages
                       THEN 0 ELSE pass[p].page + 1
               gone == pass[p].gaps \union (fresh \ known)
    <3>1. pass' = [pass EXCEPT ![p] = [pass[p] EXCEPT !.pc = "copy", !.work = fetched,
                                                      !.gaps = gone, !.page = page]]
      BY <1>7, <2>6, SameCardinality DEF I!ReadPage
    <3> HIDE DEF page, gone
    <3>2. \A w \in fetched : w.o \in known
      OBVIOUS
    <3> HIDE DEF fetched
    <3>3. s.work = fetched
      BY <1>1, <2>2, <2>3, <3>1 DEF IntakeRun
    <3> QED
      BY <2>1, <2>4, <3>2, <3>3, WorkKeeps
  <2> QED
    BY <2>5, <2>6
<1>8. ASSUME NEW p \in Passes, NEW w \in I!Turn(p), I!CopyOrder(p, w) PROVE CopyRows'
  <2>1. /\ pass[p].pc = "copy" /\ w \in pass[p].work /\ UNCHANGED known
        /\ pass' = [pass EXCEPT ![p] = [pass[p] EXCEPT !.work = @ \ {w}]]
        /\ copy' = [copy EXCEPT ![w.o] = [st |-> w.st, reserved |-> w.st = "open"]]
    BY <1>8 DEF I!Turn, I!CopyOrder
  <2>2. pass[p] \in IntakeRun /\ pass[p] # I!Idle
    BY <1>2, <2>1 DEF I!Idle
  <2>3. w.o \in known /\ w.o \in I!Orders /\ w.st \in {"open", "fulfilled"}
    BY <2>1, <2>2 DEF CopyRows, IntakeRun, CopyEntry
  <2>4. PICK s : s = [pass[p] EXCEPT !.work = pass[p].work \ {w}]
    OBVIOUS
  <2>5. s.work \subseteq pass[p].work /\ pass' = [pass EXCEPT ![p] = s]
    BY <2>1, <2>2, <2>4 DEF IntakeRun
  <2>6. \A q \in Passes : pass'[q] # I!Idle => \A x \in pass'[q].work : x.o \in known'
    BY <1>1, <2>1, <2>2, <2>5 DEF CopyRows
  <2>7. PICK c : c = [st |-> w.st, reserved |-> w.st = "open"]
    OBVIOUS
  <2>8. /\ c.st \in {"none", "open", "fulfilled"} /\ (c.reserved <=> c.st = "open")
        /\ copy' = [copy EXCEPT ![w.o] = c] /\ DOMAIN copy = I!Orders
    BY <2>1, <2>3, <2>7 DEF IntakeInv, IntakeTypes
  <2>9. \A o \in I!Orders : copy'[o] = IF o = w.o THEN c ELSE copy[o]
    BY <2>3, <2>8
  <2>10. \A o \in I!Orders : /\ copy'[o].st \in {"none", "open", "fulfilled"}
                             /\ copy'[o].reserved <=> copy'[o].st = "open"
    BY <2>8, <2>9 DEF CopyRows
  <2>11. I!Copied' \subseteq known'
    BY <2>1, <2>3, <2>9 DEF CopyRows, I!Copied, I!Orders
  <2> QED
    BY <2>6, <2>10, <2>11 DEF CopyRows, I!Orders
<1>9. ASSUME NEW p \in Passes, NEW w \in I!Turn(p), I!SkipOrder(p, w) PROVE CopyRows'
  <2>1. /\ pass[p].pc = "copy" /\ UNCHANGED <<known, copy>>
        /\ pass' = [pass EXCEPT ![p] = [pass[p] EXCEPT !.work = @ \ {w}]]
    BY <1>9 DEF I!Turn, I!SkipOrder
  <2>2. pass[p] \in IntakeRun /\ pass[p] # I!Idle
    BY <1>2, <2>1 DEF I!Idle
  <2>3. PICK s : s = [pass[p] EXCEPT !.work = pass[p].work \ {w}]
    OBVIOUS
  <2>4. s.work \subseteq pass[p].work /\ pass' = [pass EXCEPT ![p] = s]
    BY <2>1, <2>2, <2>3 DEF IntakeRun
  <2> QED
    BY <2>1, <2>2, <2>4, WorkKeeps DEF CopyRows
<1>10. ASSUME NEW p \in Passes, I!NextPage(p) PROVE CopyRows'
  <2> DEFINE pc == IF pass[p].page = 0 THEN "record" ELSE "list"
  <2>1. /\ pass[p].pc = "copy" /\ pass[p].work = {} /\ UNCHANGED <<known, copy>>
        /\ pass' = [pass EXCEPT ![p] = [pass[p] EXCEPT !.pc = pc]]
    BY <1>10 DEF I!NextPage
  <2> HIDE DEF pc
  <2>2. PICK s : s = [pass[p] EXCEPT !.pc = pc]
    OBVIOUS
  <2>3. s.work = {} /\ pass' = [pass EXCEPT ![p] = s]
    BY <1>2, <2>1, <2>2 DEF IntakeRun
  <2> QED
    BY <2>1, <2>3, WorkKeeps
<1>11. ASSUME NEW p \in Passes, I!RecordSkuGaps(p) \/ I!BreakOff(p) PROVE CopyRows'
  <2>1. pass' = [pass EXCEPT ![p] = I!Idle] /\ UNCHANGED <<known, copy>>
    BY <1>11 DEF I!RecordSkuGaps, I!BreakOff
  <2>2. PICK s : s = I!Idle
    OBVIOUS
  <2> QED
    BY <2>1, <2>2, WorkKeeps
<1> QED
  BY <1>4, <1>5, <1>6, <1>7, <1>8, <1>9, <1>10, <1>11
  DEF I!Next, I!BeginResolved, I!BeginExplicit

\* Both invariants together hold the types of OrderIntake.
LEMMA IntakeTypesOK == IntakeInv /\ CopyRows => I!TypeOK
<1> SUFFICES ASSUME IntakeInv, CopyRows PROVE I!TypeOK
  OBVIOUS
<1>1. \A p \in Passes : pass[p].pc \in {"idle", "list", "copy", "record"}
  BY DEF IntakeInv, IntakeTypes, KnownRuns, IntakeRun, I!Idle
<1> QED
  BY <1>1 DEF I!TypeOK, IntakeInv, IntakeTypes, CopyRows

\* Amounts of an order are never negative.
Amounts(o) == o.sub \in Nat /\ o.tax \in Nat /\ o.total \in Nat /\ o.received \in Nat

AmountsInv ==
    /\ Amounts(order) /\ lastLine <= MaxLines
    /\ \A r \in Drawers : /\ drawing[r].pc = "read" => Amounts(drawing[r].read)
                          /\ drawing[r].pc = "commit" => Amounts(drawing[r].totals)

\* At the start there is no amount.
LEMMA AmountsInit == P!Init => AmountsInv
<1>1. P!NoOrder.sub = 0 /\ P!NoOrder.tax = 0 /\ P!NoOrder.total = 0 /\ P!NoOrder.received = 0
  BY DEF P!NoOrder
<1>2. MaxLines \in Nat
  BY ShopAssumption DEF P!PricingAssumption
<1> QED
  BY <1>1, <1>2 DEF P!Init, AmountsInv, Amounts, P!Idle

\* The request's record is all that changes.
LEMMA DrawerAmounts ==
    ASSUME PricingInv, AmountsInv, UNCHANGED <<order, lastLine>>, NEW r \in Drawers, NEW x,
           drawing' = [drawing EXCEPT ![r] = x],
           x.pc = "read" => Amounts(x.read), x.pc = "commit" => Amounts(x.totals)
    PROVE  AmountsInv'
<1>1. \A q \in Drawers : drawing'[q] = IF q = r THEN x ELSE drawing[q]
  BY DEF PricingInv, PricingTypes
<1> QED
  BY <1>1 DEF AmountsInv, Amounts

\* Lines whose discounts are at most their price have a subtotal that is not negative.
LEMMA SubTotalNatural ==
    ASSUME NEW lines, NEW n \in Nat, DOMAIN lines \subseteq 0..n,
           \A i \in DOMAIN lines : /\ lines[i] \in PricedLine
                                   /\ lines[i].discount <= lines[i].quantity * lines[i].price
    PROVE  P!SubTotal(lines) \in Nat
<1>1. IsFiniteSet(DOMAIN lines) /\ \A i \in DOMAIN lines : Worth(lines)[i] \in Int
  BY WorthType
<1>2. \A i \in DOMAIN lines : Worth(lines)[i] \in Nat
  <2> TAKE i \in DOMAIN lines
  <2>1. PICK worth : worth = lines[i].quantity * lines[i].price
    OBVIOUS
  <2>2. worth \in Int /\ lines[i].discount \in Nat /\ lines[i].discount <= worth
    BY <2>1 DEF PricedLine
  <2>3. Worth(lines)[i] = worth - lines[i].discount
    BY <2>1 DEF Worth, P!CalcLineTotal
  <2> QED
    BY <2>2, <2>3
<1> QED
  BY <1>1, <1>2, SubTotalIs, SumBounds

\* What is not negative stays so when it is rounded.
LEMMA RoundedNatural ==
    ASSUME NEW n \in Nat, NEW p \in Nat, NEW q \in Nat \ {0}
    PROVE  P!Rounded(n, <<p, q>>) \in Nat
<1>1. ASSUME NEW a \in Nat, NEW b \in Nat, b # 0 PROVE a \div b \in Nat
  BY <1>1
<1>2. n * p \in Nat
  OBVIOUS
<1>3. 2 * n * p + q \in Nat /\ 2 * q \in Nat /\ 2 * q # 0
  BY <1>2
<1>4. P!Rounded(n, <<p, q>>) = (2 * n * p + q) \div (2 * q)
  BY DEF P!Rounded
<1> QED
  BY <1>1, <1>3, <1>4

\* The totals drawn up for an order are not negative.
LEMMA ResolveAmounts ==
    ASSUME PricingInv, AmountsInv, NEW r \in Drawers, drawing[r].pc = "read",
           NEW s \in SUBSET (DOMAIN drawing[r].read.lines \union {P!New}),
           NEW lines \in [s -> Lines], NEW d \in Discounts,
           NEW rate \in Rates \union {P!DeriveTaxRate(drawing[r].read)},
           P!Resolve(r, lines, d, rate)
    PROVE  AmountsInv'
<1>1. PICK o, totals : o = drawing[r].read /\ totals = P!CalcOrderTotals(o, lines, d, rate)
  OBVIOUS
<1>2. drawing[r] # P!Idle
  BY DEF P!Idle
<1>3. GoodOrder(o) /\ lastLine \in Nat /\ Amounts(o)
  BY <1>1, <1>2 DEF PricingInv, PricingTypes, Draws, GoodRead, GoodCommit, AmountsInv
<1>4. GoodLines(lines)
  BY <1>1, <1>3, ShopAssumption DEF GoodOrder, GoodLines, PricedLine, P!PricingAssumption, P!New
<1>5. \A i \in DOMAIN lines : lines[i].discount <= lines[i].quantity * lines[i].price
  BY DEF P!Resolve
<1>6. P!SubTotal(lines) \in Nat
  BY <1>3, <1>4, <1>5, SubTotalNatural DEF GoodLines
<1> DEFINE sub == P!SubTotal(lines)
           taxable == P!Taxable(sub, d)
           tax == P!Rounded(taxable, rate)
<1>7. d \in Nat
  BY ShopAssumption DEF P!PricingAssumption
<1>8. taxable \in Nat
  BY <1>6, <1>7 DEF P!Taxable, P!Over0
<1>9. \E p \in Nat, q \in Nat \ {0} : rate = <<p, q>>
  <2>1. CASE rate \in Rates
    BY <2>1, ShopAssumption DEF P!PricingAssumption
  <2>2. CASE rate = P!DeriveTaxRate(o)
    <3>1. PICK t : t = P!Taxable(o.sub, o.discounts)
      OBVIOUS
    <3>2. t \in Nat
      BY <1>3, <3>1 DEF P!Taxable, P!Over0, GoodOrder
    <3>3. CASE t = 0
      BY <2>2, <3>1, <3>3 DEF P!DeriveTaxRate
    <3>4. CASE t # 0
      BY <1>3, <2>2, <3>1, <3>2, <3>4 DEF P!DeriveTaxRate, Amounts
    <3> QED
      BY <3>3, <3>4
  <2> QED
    BY <1>1, <2>1, <2>2
<1>10. tax \in Nat
  <2> HIDE DEF taxable
  <2> QED
    BY <1>8, <1>9, RoundedNatural
<1>11. totals = [o EXCEPT !.discounts = d, !.sub = sub, !.tax = tax, !.total = taxable + tax]
  BY <1>1 DEF P!CalcOrderTotals
<1> HIDE DEF sub, taxable, tax
<1>12. PICK total : total = taxable + tax
  OBVIOUS
<1>13. /\ totals.sub = sub /\ totals.tax = tax /\ totals.total = total
       /\ totals.received = o.received
  BY <1>3, <1>11, <1>12 DEF GoodOrder, OrderFields
<1>14. Amounts(totals)
  BY <1>3, <1>6, <1>8, <1>10, <1>12, <1>13 DEF Amounts, sub
<1>15. PICK x : x = drawing'[r]
  OBVIOUS
<1>16. drawing' = [drawing EXCEPT ![r] = x] /\ x.pc = "commit" /\ x.totals = totals
  BY <1>1, <1>15 DEF P!Resolve, P!Priced, PricingInv, PricingTypes
<1>17. UNCHANGED <<order, lastLine>>
  BY DEF P!Resolve
<1> QED
  BY <1>14, <1>16, <1>17, DrawerAmounts

\* Every step keeps the amounts of orders from becoming negative.
LEMMA AmountsStep == PricingInv /\ AmountsInv /\ [P!Next]_(P!vars) => AmountsInv'
<1> SUFFICES ASSUME PricingInv, AmountsInv, [P!Next]_(P!vars) PROVE AmountsInv'
  OBVIOUS
<1>1. ASSUME UNCHANGED <<order, lastLine, drawing>> PROVE AmountsInv'
  BY <1>1 DEF AmountsInv, Amounts
<1>2. ASSUME NEW price \in Prices,
             P!Reprice(price) \/ \E l \in Lists, on \in BOOLEAN : P!UpsertItem(l, price, on)
      PROVE  AmountsInv'
  BY <1>1, <1>2 DEF P!Reprice, P!UpsertItem, P!Changes
<1>3. ASSUME NEW r \in Drawers, NEW kind, NEW right, NEW o, P!Begin(r, kind, right, o), Amounts(o)
      PROVE  AmountsInv'
  <2>1. PICK x : x = [pc |-> "read", kind |-> kind, right |-> right, read |-> o]
    OBVIOUS
  <2>2. x.pc = "read" /\ x.read = o /\ drawing' = [drawing EXCEPT ![r] = x]
        /\ UNCHANGED <<order, lastLine>>
    BY <1>3, <2>1 DEF P!Begin
  <2> QED
    BY <1>3, <2>2, DrawerAmounts
<1>4. Amounts(P!NoOrder) /\ Amounts(order)
  <2>1. P!NoOrder.sub = 0 /\ P!NoOrder.tax = 0 /\ P!NoOrder.total = 0 /\ P!NoOrder.received = 0
    BY DEF P!NoOrder
  <2> QED
    BY <2>1 DEF Amounts, AmountsInv
<1>5. ASSUME NEW r \in Drawers, NEW right \in BOOLEAN,
             P!BeginCreate(r, right) \/ \E kind \in {"lines", "discounts"} : P!BeginUpdate(r, kind, right)
      PROVE  AmountsInv'
  BY <1>3, <1>4, <1>5 DEF P!BeginCreate, P!BeginUpdate
<1>6. ASSUME NEW r \in Drawers, drawing[r].pc = "read",
             NEW s \in SUBSET (DOMAIN drawing[r].read.lines \union {P!New}),
             NEW lines \in [s -> Lines], NEW d \in Discounts,
             NEW rate \in Rates \union {P!DeriveTaxRate(drawing[r].read)},
             P!Resolve(r, lines, d, rate)
      PROVE  AmountsInv'
  BY <1>6, ResolveAmounts
<1>7. ASSUME NEW r \in Drawers, P!Fail(r) PROVE AmountsInv'
  <2>1. PICK x : x = P!Idle
    OBVIOUS
  <2>2. x.pc = "idle"
    BY <2>1 DEF P!Idle
  <2>3. drawing' = [drawing EXCEPT ![r] = x] /\ UNCHANGED <<order, lastLine>>
    BY <1>7, <2>1 DEF P!Fail
  <2> QED
    BY <2>2, <2>3, DrawerAmounts
<1>8. ASSUME NEW r \in Drawers, P!Commit(r) PROVE AmountsInv'
  <2>1. PICK totals, w, financial :
           /\ totals = drawing[r].totals
           /\ order' = [totals EXCEPT !.st = "open", !.lines = w,
                                      !.received = order.received, !.financial = financial]
    BY <1>8 DEF P!Commit
  <2>2. /\ drawing[r].pc = "commit" /\ drawing' = [drawing EXCEPT ![r] = P!Idle]
        /\ P!New \in drawing[r].touched => lastLine < MaxLines
        /\ lastLine' = IF P!New \in drawing[r].touched THEN lastLine + 1 ELSE lastLine
    BY <1>8 DEF P!Commit
  <2>3. drawing[r] # P!Idle
    BY <2>2 DEF P!Idle
  <2>4. GoodOrder(totals) /\ Amounts(totals) /\ lastLine \in Nat
    BY <2>1, <2>2, <2>3 DEF PricingInv, PricingTypes, Draws, GoodRead, GoodCommit, AmountsInv
  <2>5. /\ order'.sub = totals.sub /\ order'.tax = totals.tax /\ order'.total = totals.total
        /\ order'.received = order.received
    BY <2>1, <2>4 DEF GoodOrder, OrderFields
  <2>6. Amounts(order')
    BY <2>4, <2>5 DEF Amounts, AmountsInv
  <2>7. lastLine' <= MaxLines
    BY <2>2, <2>4, ShopAssumption DEF AmountsInv, P!PricingAssumption
  <2>8. \A q \in Drawers : drawing'[q] = IF q = r THEN P!Idle ELSE drawing[q]
    BY <2>2 DEF PricingInv, PricingTypes
  <2>9. P!Idle.pc = "idle"
    BY DEF P!Idle
  <2> QED
    BY <2>6, <2>7, <2>8, <2>9 DEF AmountsInv, Amounts
<1>9. ASSUME NEW amount \in 1..order.total, P!Pay(amount) PROVE AmountsInv'
  <2>1. PICK received, financial :
           /\ received = order.received + amount
           /\ order' = [order EXCEPT !.received = received, !.financial = financial]
    BY <1>9 DEF P!Pay
  <2>2. GoodOrder(order) /\ Amounts(order) /\ UNCHANGED <<drawing, lastLine>>
    BY <1>9 DEF P!Pay, PricingInv, PricingTypes, AmountsInv
  <2>3. /\ order'.sub = order.sub /\ order'.tax = order.tax /\ order'.total = order.total
        /\ order'.received = received
    BY <2>1, <2>2 DEF GoodOrder, OrderFields
  <2>4. received \in Nat
    BY <1>9, <2>1, <2>2 DEF Amounts
  <2> QED
    BY <2>2, <2>3, <2>4 DEF AmountsInv, Amounts
<1>10. CASE UNCHANGED P!vars
  BY <1>1, <1>10 DEF P!vars
<1> QED
  BY <1>2, <1>5, <1>6, <1>7, <1>8, <1>9, <1>10 DEF P!Next

\* Both invariants together hold the types of OrderPricing.
LEMMA PricingTypesOK == PricingInv /\ AmountsInv => P!TypeOK
<1> SUFFICES ASSUME PricingInv, AmountsInv PROVE P!TypeOK
  OBVIOUS
<1>1. \A i \in DOMAIN order.lines : order.lines[i] \in PricedLine
  BY DEF PricingInv, PricingTypes, GoodOrder, GoodLines
<1>2. P!Range(order.lines) \subseteq PricedLine
  BY <1>1 DEF P!Range
<1> QED
  BY <1>2 DEF P!TypeOK, PricedLine, AmountsInv, Amounts

\* A change of the settings is written, then told to the cache.
LEMMA AdminTypes == N!Spec => [](admin \in {"idle", "invalidate"})
<1>1. N!Init => admin \in {"idle", "invalidate"}
  BY DEF N!Init
<1>2. admin \in {"idle", "invalidate"} /\ [N!Next]_(N!vars) => (admin \in {"idle", "invalidate"})'
  BY DEF N!Next, N!vars, N!Query, N!Load, N!UpdateSetting, N!Invalidate, N!BeginScan, N!Event,
         N!ReadItems, N!CompareWithLast, N!Create, N!Fail, N!MarkRead, N!MarkAllRead, N!Change,
         N!Tick
<1> QED
  BY <1>1, <1>2, PTL DEF N!Spec

\* The invariants together hold the types of Notifications.
LEMMA NoticeTypesOK == NInv /\ DInv /\ admin \in {"idle", "invalidate"} => N!TypeOK
<1> SUFFICES ASSUME NInv, DInv, admin \in {"idle", "invalidate"} PROVE N!TypeOK
  OBVIOUS
<1>1. \A i \in DOMAIN notices : notices[i].unread \subseteq Users
  <2> SUFFICES ASSUME NEW i \in DOMAIN notices PROVE notices[i].unread \subseteq Users
    OBVIOUS
  <2>1. notices[i] \in Digest
    BY DEF DInv
  <2> QED
    BY <2>1 DEF Digest
<1> QED
  BY <1>1 DEF N!TypeOK, NInv, DInv, SettingTypes, CacheKnown, HadSince

\* The rows of every area of the shop have their types.
THEOREM ShopRowsTyped == Spec => []TypesOK
<1>1. Spec => []I!TypeOK
  <2>1. I!Init => IntakeInv
    BY IntakeInit, ShopAssumption
  <2>2. IntakeInv /\ [I!Next]_(I!vars) => IntakeInv'
    BY IntakeStep, ShopAssumption
  <2>3. IntakeInv /\ CopyRows /\ [I!Next]_(I!vars) => CopyRows'
    BY CopyRowsStep, ShopAssumption
  <2> QED
    BY <2>1, <2>2, <2>3, CopyRowsInit, IntakeTypesOK, IntakeAsAlone, PTL DEF I!Spec
<1>2. Spec => []N!TypeOK
  <2>1. N!Init => NInv
    BY NoticesInit, ShopAssumption
  <2>2. NInv /\ [N!Next]_(N!vars) => NInv'
    BY NoticesStep, ShopAssumption
  <2>3. NInv /\ DInv /\ [N!Next]_(N!vars) => DInv'
    BY DigestsStep, ShopAssumption
  <2>4. N!Spec => []NInv
    BY <2>1, <2>2, PTL DEF N!Spec
  <2>5. N!Spec => []DInv
    BY <2>3, <2>4, DigestsInit, PTL DEF N!Spec
  <2> QED
    BY <2>4, <2>5, AdminTypes, NoticeTypesOK, NoticesAsAlone, PTL
<1>3. Spec => []P!TypeOK
  <2>1. P!Spec => []PricingInv
    BY PricingInit, PricingStep, PTL DEF P!Spec
  <2>2. P!Spec => []AmountsInv
    BY <2>1, AmountsInit, AmountsStep, PTL DEF P!Spec
  <2> QED
    BY <2>1, <2>2, PricingTypesOK, OrdersAsAlone, PTL
<1>4. Spec => []G!TypeOK
  <2>1. AgedInv => G!TypeOK
    BY DEF AgedInv, AgedTypes, G!TypeOK, DayCounts, Run, G!NoBuild
  <2> QED
    BY <2>1, AgedInit, AgedStep, AgesAsAlone, PTL DEF G!Spec
<1>5. Spec => []C!TypeOK
  BY CustomersSound, CustomersAsAlone, PTL
<1>6. Spec => []T!TypeOK
  BY CategoriesSound, CategoriesAsAlone, PTL
<1>7. Spec => []Q!TypeOK
  BY QueueLosesNothing, QueueAsAlone, PTL
<1>8. Spec => [](K!TypeOK /\ O!TypeOK)
  BY CatalogueSettles, LocationsSettle, PTL
<1> QED
  BY <1>1, <1>2, <1>3, <1>4, <1>5, <1>6, <1>7, <1>8, PTL DEF TypesOK
=============================================================================
