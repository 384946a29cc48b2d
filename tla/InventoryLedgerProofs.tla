------------------------ MODULE InventoryLedgerProofs ------------------------
(***************************************************************************)
(* Theorems about InventoryLedger, for every set of transactions, rows and *)
(* documents and every opening stock, and about a resync (SapoResync)      *)
(* beside it.                                                              *)
(***************************************************************************)
EXTENDS SapoResync, SharedLemmas

-----------------------------------------------------------------------------
(* Type correctness.                                                       *)

\* The rows still to post are rows of the document.
TodoInDoc == \A t \in Txns : todo[t] \subseteq DOMAIN doc[t]

Typing == TypeOK /\ TodoInDoc

\* The movements a line turns into are movements.
LEMMA MovesOfType ==
    ASSUME NEW d \in Docs, NEW r \in DOMAIN d, NEW l \in Level
    PROVE  MovesOf(d[r], l) \in Seq(Movement)
<1>1. d[r] \in Line
  BY DocsAssumption
<1>2. CASE d[r].kind = "post"
  BY <1>1, <1>2 DEF Line, MovesOf
<1>3. CASE d[r].kind # "post"
  <2>1. d[r].target \in Int /\ l["on_hand"] \in Int
    BY <1>1, <1>3 DEF Line, Level, Buckets
  <2>2. [bucket |-> "on_hand", change |-> d[r].target - l["on_hand"],
         type |-> "adjust"] \in Movement
    BY <2>1 DEF Movement, Buckets, MovementTypes
  <2> QED
    BY <1>3, <2>2 DEF MovesOf
<1> QED
  BY <1>2, <1>3

\* Taking a row keeps the types.
LEMMA TakeRowTyping ==
    ASSUME Typing, NEW t \in Txns, NEW r \in Rows,
           IsNextRow(t, r), TakeRow(t, r), UNCHANGED <<stored, doc, todo>>
    PROVE  Typing'
<1> DEFINE seen == IF r \notin held[t] THEN level[r] ELSE work[t][r]
<1>1. seen \in Level
  BY DEF Typing, TypeOK
<1>2. doc[t] \in Docs /\ r \in DOMAIN doc[t]
  BY DEF Typing, TypeOK, TodoInDoc, IsNextRow
<1>3. MovesOf(doc[t][r], seen) \in Seq(Movement)
  BY <1>1, <1>2, MovesOfType
<1>4. moves' \in [Txns -> Seq(Movement)]
  BY <1>3 DEF Typing, TypeOK, TakeRow
<1>5. ZeroLevel \in Level
  BY DEF ZeroLevel, Level
<1>6. /\ work' \in [Txns -> [Rows -> Level]]
      /\ workAvailable' \in [Txns -> [Rows -> Int]]
      /\ posted' \in [Txns -> [Rows -> Level]]
      /\ held' \in [Txns -> SUBSET Rows]
      /\ pc' \in [Txns -> Running \union {"idle", "committed", "aborted"}]
  BY <1>1, <1>5 DEF Typing, TypeOK, TakeRow, Running
<1> QED
  BY <1>4, <1>6 DEF Typing, TypeOK, TodoInDoc, stored

\* The initial levels are naturals, and nobody has begun.
THEOREM TypingInit == Init => Typing
<1> SUFFICES ASSUME Init PROVE Typing
  OBVIOUS
<1>1. OpeningLevel \in [Rows -> Level]
  BY OpeningAssumption DEF Level
<1>2. ZeroLevel \in Level
  BY DEF ZeroLevel, Level
<1>3. \A r \in Rows : ComputeAvailable(OpeningLevel[r]) \in Int
  BY <1>1, AvailableType
<1>4. << >> \in Seq(Movement)
  OBVIOUS
<1> QED
  BY <1>1, <1>2, <1>3, <1>4, OpeningAssumption DEF Init, Typing, TypeOK, TodoInDoc

\* Every step keeps the types of rows, private versions and ledger.
THEOREM TypingStep == Typing /\ [Next]_vars => Typing'
<1> SUFFICES ASSUME Typing, [Next]_vars PROVE Typing'
  OBVIOUS
<1> USE DEF Typing, TypeOK, TodoInDoc, Running
<1>1. ASSUME NEW t \in Txns, Begin(t) PROVE Typing'
  BY <1>1, DocsAssumption DEF Begin, stored, private
<1>2. ASSUME NEW t \in Txns, NEW r \in Rows, Lock(t, r) PROVE Typing'
  BY <1>2, TakeRowTyping DEF Lock
<1>3. ASSUME NEW t \in Txns, NEW r \in Rows, LockFindsNone(t, r) PROVE Typing'
  BY <1>3 DEF LockFindsNone, stored, private
<1>4. ASSUME NEW t \in Txns, NEW r \in Rows, Create(t, r) PROVE Typing'
  <2>1. CASE r \in exists
    BY <1>4, <2>1 DEF Create, stored, private
  <2>2. CASE r \notin exists
    BY <1>4, <2>2, TakeRowTyping DEF Create
  <2> QED
    BY <2>1, <2>2
<1>5. ASSUME NEW t \in Txns, NEW r \in Rows, Relock(t, r) PROVE Typing'
  BY <1>5, TakeRowTyping DEF Relock
<1>6. ASSUME NEW t \in Txns, NEW r \in Rows, Post(t, r) PROVE Typing'
  <2> DEFINE m == Head(moves[t])
  <2>1. m \in Movement /\ Tail(moves[t]) \in Seq(Movement)
    BY <1>6 DEF Post
  <2>2. /\ Moved(work[t][r], m) \in Level
        /\ Moved(posted[t][r], m) \in Level
    BY <2>1, MovedType
  <2>3. ComputeAvailable(Moved(work[t][r], m)) \in Int
    BY <2>2, AvailableType
  <2>4. /\ work' = [work EXCEPT ![t][r] = Moved(work[t][r], m)]
        /\ posted' = [posted EXCEPT ![t][r] = Moved(posted[t][r], m)]
        /\ workAvailable' =
              [workAvailable EXCEPT ![t][r] = ComputeAvailable(Moved(work[t][r], m))]
        /\ moves' = [moves EXCEPT ![t] = Tail(moves[t])]
        /\ UNCHANGED <<stored, pc, doc, todo, held>>
    BY <1>6 DEF Post
  <2> HIDE DEF m
  <2> QED
    BY <2>1, <2>2, <2>3, <2>4 DEF stored
<1>7. ASSUME NEW t \in Txns, NEW r \in Rows, Refuse(t, r) PROVE Typing'
  BY <1>7 DEF Refuse, Rollback, stored, private
<1>8. ASSUME NEW t \in Txns, NEW r \in Rows, EndRow(t, r) PROVE Typing'
  BY <1>8 DEF EndRow, stored, private
<1>9. ASSUME NEW t \in Txns, Commit(t) PROVE Typing'
  <2>1. level' \in [Rows -> Level] /\ available' \in [Rows -> Int]
    BY <1>9 DEF Commit
  <2>2. ledger' \in [Rows -> Level]
    BY <1>9 DEF Commit, Level
  <2> QED
    BY <1>9, <2>1, <2>2 DEF Commit, private
<1>10. ASSUME NEW t \in Txns, Timeout(t) PROVE Typing'
  BY <1>10 DEF Timeout, Rollback, stored, private
<1>11. CASE UNCHANGED vars
  BY <1>11 DEF vars, stored, private
<1> QED
  BY <1>1, <1>2, <1>3, <1>4, <1>5, <1>6, <1>7, <1>8, <1>9, <1>10, <1>11
  DEF Next, Step, Finished

\* Every table and every transaction keeps its type in every behaviour.
THEOREM TypeCorrect == Spec => []TypeOK
<1>1. Typing => TypeOK
  BY DEF Typing
<1> QED
  BY TypingInit, TypingStep, <1>1, PTL DEF Spec

-----------------------------------------------------------------------------
(* The inductive invariant.  A transaction's own version of a row it holds *)
(* stands for the stored row because nobody else may hold that row; so the *)
(* three facts about the stored tables are stated again of the private     *)
(* versions, and carried over by Commit.                                   *)

\* Two transactions never hold the same row.
LocksExclusive == \A t, u \in Txns : t # u => held[t] \intersect held[u] = {}

\* A transaction that has not begun holds nothing.
IdleHoldsNothing == \A t \in Txns : pc[t] = "idle" => held[t] = {}

\* INV-2 of the private version: it differs from the stored row by exactly
\* the movements the transaction has inserted.
WorkMatchesPosted ==
    \A t \in Txns : \A r \in held[t] : \A b \in Buckets :
        work[t][r][b] = level[r][b] + posted[t][r][b]

\* What row locks give a transaction: nobody else holds its rows, and its versions of them
\* differ from the stored ones by its own movements.
HeldInv == Typing /\ LocksExclusive /\ WorkMatchesPosted

\* A step that changes neither the levels nor any private version, and takes no row.
LEMMA QuietHeld ==
    ASSUME HeldInv, Typing', UNCHANGED <<level, work, posted>>,
           \A t \in Txns : held'[t] \subseteq held[t]
    PROVE  HeldInv'
<1>1. LocksExclusive'
  BY DEF HeldInv, LocksExclusive
<1>2. WorkMatchesPosted'
  BY DEF HeldInv, WorkMatchesPosted
<1> QED
  BY <1>1, <1>2 DEF HeldInv

\* Taking a free row copies the stored row.
LEMMA TakeRowHeld ==
    ASSUME HeldInv, Typing', NEW t \in Txns, NEW r \in Rows,
           Free(t, r), TakeRow(t, r), UNCHANGED <<stored, doc, todo>>
    PROVE  HeldInv'
<1> USE DEF HeldInv, Typing, TypeOK
<1>1. \A u \in Txns : u # t =>
          held'[u] = held[u] /\ work'[u] = work[u] /\ posted'[u] = posted[u]
  BY DEF TakeRow
<1>2. /\ held'[t] = held[t] \union {r}
      /\ \A s \in Rows \ {r} : work'[t][s] = work[t][s] /\ posted'[t][s] = posted[t][s]
  BY DEF TakeRow
<1>3. /\ work'[t][r] = IF r \notin held[t] THEN level[r] ELSE work[t][r]
      /\ posted'[t][r] = IF r \notin held[t] THEN ZeroLevel ELSE posted[t][r]
  BY DEF TakeRow
<1>4. ASSUME NEW u \in Txns, NEW v \in Txns, u # v
      PROVE  held'[u] \intersect held'[v] = {}
  <2>1. held[u] \intersect held[v] = {}
    BY <1>4 DEF LocksExclusive
  <2>2. \A w \in Txns : w # t => held'[w] = held[w] /\ r \notin held[w]
    BY <1>1 DEF Free
  <2>3. held'[t] = held[t] \union {r}
    BY <1>2
  <2> QED
    BY ONLY <1>4, <2>1, <2>2, <2>3
<1>5. WorkMatchesPosted'
  <2>0. \A u \in Txns : held'[u] \subseteq Rows
    OBVIOUS
  <2> SUFFICES ASSUME NEW u \in Txns, NEW s \in held'[u], NEW b \in Buckets
               PROVE  work'[u][s][b] = level[s][b] + posted'[u][s][b]
    BY DEF WorkMatchesPosted, stored
  <2>1. CASE u # t \/ s # r
    <3>1. s \in held[u] /\ work'[u][s] = work[u][s] /\ posted'[u][s] = posted[u][s]
      BY <2>0, <2>1, <1>1, <1>2
    <3> QED
      BY <3>1 DEF WorkMatchesPosted
  <2>2. CASE u = t /\ s = r /\ r \in held[t]
    BY <2>2, <1>3 DEF WorkMatchesPosted
  <2>3. CASE u = t /\ s = r /\ r \notin held[t]
    <3>1. level[r][b] \in Int /\ ZeroLevel[b] = 0
      BY DEF Level, ZeroLevel
    <3> QED
      BY <2>3, <3>1, <1>3
  <2> QED
    BY <2>1, <2>2, <2>3
<1> QED
  BY <1>4, <1>5 DEF LocksExclusive

\* A movement is posted to the private version and to the private sum alike.
LEMMA PostHeld ==
    ASSUME HeldInv, Typing', NEW t \in Txns, NEW r \in Rows, Post(t, r)
    PROVE  HeldInv'
<1> DEFINE m == Head(moves[t])
           l == work[t][r]
           n == Moved(l, m)
           p == posted[t][r]
<1>1. m \in Movement /\ l \in Level /\ p \in Level
  BY DEF HeldInv, Typing, TypeOK, Post
<1>2. /\ work' = [work EXCEPT ![t][r] = n]
      /\ posted' = [posted EXCEPT ![t][r] = Moved(p, m)]
      /\ UNCHANGED <<level, held>>
  BY DEF Post, stored
<1> HIDE DEF m, n
<1>3. /\ work'[t][r] = n /\ posted'[t][r] = Moved(p, m)
      /\ \A u \in Txns : \A s \in Rows : u # t \/ s # r =>
            work'[u][s] = work[u][s] /\ posted'[u][s] = posted[u][s]
  BY <1>2 DEF HeldInv, Typing, TypeOK
<1>4. \A u \in Txns : held[u] \subseteq Rows
  BY DEF HeldInv, Typing, TypeOK
<1>5. WorkMatchesPosted'
  <2> SUFFICES ASSUME NEW u \in Txns, NEW s \in held[u], NEW b \in Buckets
               PROVE  work'[u][s][b] = level[s][b] + posted'[u][s][b]
    BY <1>2 DEF WorkMatchesPosted
  <2>1. work[u][s][b] = level[s][b] + posted[u][s][b]
    BY DEF HeldInv, WorkMatchesPosted
  <2>2. CASE u # t \/ s # r
    BY <1>3, <1>4, <2>1, <2>2
  <2>3. CASE u = t /\ s = r
    <3>1. /\ b = m.bucket => n[b] = l[b] + m.change /\ Moved(p, m)[b] = p[b] + m.change
          /\ b # m.bucket => n[b] = l[b] /\ Moved(p, m)[b] = p[b]
      BY <1>1, MovedType DEF n
    <3>2. m.change \in Int /\ l[b] \in Int /\ p[b] \in Int /\ level[r][b] \in Int
      BY <1>1 DEF Movement, Level, HeldInv, Typing, TypeOK
    <3> QED
      BY <1>3, <2>1, <2>3, <3>1, <3>2
  <2> QED
    BY <2>2, <2>3
<1>6. LocksExclusive'
  BY <1>2 DEF HeldInv, LocksExclusive
<1> QED
  BY <1>5, <1>6 DEF HeldInv

\* A commit touches no row another transaction holds.
LEMMA CommitHeld ==
    ASSUME HeldInv, Typing', NEW t \in Txns, Commit(t)
    PROVE  HeldInv'
<1> USE DEF HeldInv, Typing, TypeOK
<1>1. \A r \in Rows \ held[t] : level'[r] = level[r]
  BY DEF Commit
<1>2. /\ held'[t] = {} /\ \A u \in Txns \ {t} : held'[u] = held[u]
      /\ UNCHANGED <<work, posted>>
  BY DEF Commit, private
<1>3. \A u \in Txns : \A r \in held'[u] : u # t /\ r \in held[u] /\ r \in Rows \ held[t]
  BY <1>2 DEF LocksExclusive
<1>4. LocksExclusive'
  BY <1>2 DEF LocksExclusive
<1>5. WorkMatchesPosted'
  BY <1>1, <1>2, <1>3 DEF WorkMatchesPosted
<1> QED
  BY <1>4, <1>5

\* Every step keeps what the locks give.
LEMMA HeldStep == HeldInv /\ [Next]_vars => HeldInv'
<1> SUFFICES ASSUME HeldInv, [Next]_vars PROVE HeldInv'
  OBVIOUS
<1>1. Typing'
  BY TypingStep DEF HeldInv
<1>2. held \in [Txns -> SUBSET Rows]
  BY DEF HeldInv, Typing, TypeOK
<1>3. ASSUME NEW t \in Txns, Begin(t) PROVE HeldInv'
  BY <1>1, <1>3, QuietHeld DEF Begin, stored, private
<1>4. ASSUME NEW t \in Txns, NEW r \in Rows, Lock(t, r) PROVE HeldInv'
  BY <1>1, <1>4, TakeRowHeld DEF Lock
<1>5. ASSUME NEW t \in Txns, NEW r \in Rows, LockFindsNone(t, r) PROVE HeldInv'
  BY <1>1, <1>5, QuietHeld DEF LockFindsNone, stored, private
<1>6. ASSUME NEW t \in Txns, NEW r \in Rows, Create(t, r) PROVE HeldInv'
  <2>1. CASE r \in exists
    BY <1>1, <1>6, <2>1, QuietHeld DEF Create, stored, private
  <2>2. CASE r \notin exists
    BY <1>1, <1>6, <2>2, TakeRowHeld DEF Create
  <2> QED
    BY <2>1, <2>2
<1>7. ASSUME NEW t \in Txns, NEW r \in Rows, Relock(t, r) PROVE HeldInv'
  BY <1>1, <1>7, TakeRowHeld DEF Relock
<1>8. ASSUME NEW t \in Txns, NEW r \in Rows, Post(t, r) PROVE HeldInv'
  BY <1>1, <1>8, PostHeld
<1>9. ASSUME NEW t \in Txns, Rollback(t) PROVE HeldInv'
  BY <1>1, <1>2, <1>9, QuietHeld DEF Rollback, stored, private
<1>10. ASSUME NEW t \in Txns, NEW r \in Rows, EndRow(t, r) PROVE HeldInv'
  BY <1>1, <1>10, QuietHeld DEF EndRow, stored, private
<1>11. ASSUME NEW t \in Txns, Commit(t) PROVE HeldInv'
  BY <1>1, <1>11, CommitHeld
<1>12. CASE UNCHANGED vars
  BY <1>1, <1>12, QuietHeld DEF vars, stored, private
<1> QED
  BY <1>3, <1>4, <1>5, <1>6, <1>7, <1>8, <1>9, <1>10, <1>11, <1>12
  DEF Next, Step, Refuse, Timeout, Finished

\* INV-1 of the private version.
WorkAvailableFormula ==
    \A t \in Txns : \A r \in held[t] :
        workAvailable[t][r] = ComputeAvailable(work[t][r])

\* No private version has a negative bucket.
WorkNonNegative ==
    \A t \in Txns : \A r \in held[t] : \A b \in Buckets : work[t][r][b] >= 0

IInv ==
    /\ Typing
    /\ LocksExclusive
    /\ IdleHoldsNothing
    /\ WorkMatchesPosted
    /\ WorkAvailableFormula
    /\ WorkNonNegative
    /\ LedgerMatchesLevel
    /\ AvailableFormula
    /\ NoNegativeBucket

\* A step that changes neither the stored tables nor any private version, and
\* takes no row, keeps the invariant.
LEMMA QuietStep ==
    ASSUME IInv, HeldInv',
           UNCHANGED <<stored, private>>,
           \A t \in Txns : held'[t] \subseteq held[t],
           \A t \in Txns : pc'[t] = "idle" => pc[t] = "idle"
    PROVE  IInv'
<1>1. IdleHoldsNothing'
  BY DEF IInv, IdleHoldsNothing
<1>2. WorkAvailableFormula' /\ WorkNonNegative'
  BY DEF IInv, WorkAvailableFormula, WorkNonNegative, private
<1>3. LedgerMatchesLevel' /\ AvailableFormula' /\ NoNegativeBucket'
  BY DEF IInv, LedgerMatchesLevel, AvailableFormula, NoNegativeBucket, stored
<1> QED
  BY <1>1, <1>2, <1>3 DEF IInv, HeldInv

\* Taking a free row copies the stored row, for which the invariant holds.
LEMMA TakeRowKeeps ==
    ASSUME IInv, HeldInv', NEW t \in Txns, NEW r \in Rows,
           Free(t, r), TakeRow(t, r), UNCHANGED <<stored, doc, todo>>
    PROVE  IInv'
<1> USE DEF IInv, HeldInv, Typing, TypeOK
<1>1. \A u \in Txns : u # t =>
          /\ held'[u] = held[u] /\ work'[u] = work[u]
          /\ workAvailable'[u] = workAvailable[u] /\ pc'[u] = pc[u]
  BY DEF TakeRow
<1>2. /\ held'[t] = held[t] \union {r} /\ pc'[t] = "post"
      /\ \A s \in Rows \ {r} :
            /\ work'[t][s] = work[t][s]
            /\ workAvailable'[t][s] = workAvailable[t][s]
  BY DEF TakeRow
<1>3. /\ work'[t][r] = IF r \notin held[t] THEN level[r] ELSE work[t][r]
      /\ workAvailable'[t][r] =
            IF r \notin held[t] THEN available[r] ELSE workAvailable[t][r]
  BY DEF TakeRow
<1>4. IdleHoldsNothing'
  BY <1>1, <1>2 DEF IdleHoldsNothing
<1>6. WorkAvailableFormula'
  <2> SUFFICES ASSUME NEW u \in Txns, NEW s \in held'[u]
               PROVE  workAvailable'[u][s] = ComputeAvailable(work'[u][s])
    BY DEF WorkAvailableFormula
  <2>1. CASE u # t \/ s # r
    BY <2>1, <1>1, <1>2 DEF WorkAvailableFormula
  <2>2. CASE u = t /\ s = r /\ r \in held[t]
    BY <2>2, <1>3 DEF WorkAvailableFormula
  <2>3. CASE u = t /\ s = r /\ r \notin held[t]
    BY <2>3, <1>3 DEF AvailableFormula
  <2> QED
    BY <2>1, <2>2, <2>3
<1>7. WorkNonNegative'
  <2> SUFFICES ASSUME NEW u \in Txns, NEW s \in held'[u], NEW b \in Buckets
               PROVE  work'[u][s][b] >= 0
    BY DEF WorkNonNegative
  <2>1. CASE u # t \/ s # r
    <3>1. s \in held[u] /\ work'[u][s] = work[u][s]
      BY <2>1, <1>1, <1>2
    <3> QED
      BY <3>1 DEF WorkNonNegative
  <2>2. CASE u = t /\ s = r /\ r \in held[t]
    BY <2>2, <1>3 DEF WorkNonNegative
  <2>3. CASE u = t /\ s = r /\ r \notin held[t]
    BY <2>3, <1>3 DEF NoNegativeBucket
  <2> QED
    BY <2>1, <2>2, <2>3
<1>8. LedgerMatchesLevel' /\ AvailableFormula' /\ NoNegativeBucket'
  BY DEF LedgerMatchesLevel, AvailableFormula, NoNegativeBucket, stored
<1> QED
  BY <1>4, <1>6, <1>7, <1>8

\* A movement that passes its checks.
LEMMA PostKeeps ==
    ASSUME IInv, HeldInv', NEW t \in Txns, NEW r \in Rows, Post(t, r)
    PROVE  IInv'
<1> DEFINE m == Head(moves[t])
           l == work[t][r]
           n == Moved(l, m)
<1>1. /\ m \in Movement /\ l \in Level /\ ~Refused(l, m)
  BY DEF IInv, Typing, TypeOK, Post
<1>2. /\ work' = [work EXCEPT ![t][r] = n]
      /\ workAvailable' = [workAvailable EXCEPT ![t][r] = ComputeAvailable(n)]
      /\ UNCHANGED <<exists, level, available, ledger, pc, held>>
  BY DEF Post, stored
<1> HIDE DEF m, n
<1>3. /\ work'[t][r] = n
      /\ workAvailable'[t][r] = ComputeAvailable(n)
      /\ \A u \in Txns : \A s \in Rows : u # t \/ s # r =>
            /\ work'[u][s] = work[u][s]
            /\ workAvailable'[u][s] = workAvailable[u][s]
  BY <1>2 DEF IInv, Typing, TypeOK
<1>4. \A u \in Txns : held[u] \subseteq Rows
  BY DEF IInv, Typing, TypeOK
<1>6. WorkAvailableFormula'
  <2> SUFFICES ASSUME NEW u \in Txns, NEW s \in held[u]
               PROVE  workAvailable'[u][s] = ComputeAvailable(work'[u][s])
    BY <1>2 DEF WorkAvailableFormula
  <2>1. workAvailable[u][s] = ComputeAvailable(work[u][s])
    BY DEF IInv, WorkAvailableFormula
  <2> QED
    BY <1>3, <1>4, <2>1
<1>7. WorkNonNegative'
  <2> SUFFICES ASSUME NEW u \in Txns, NEW s \in held[u], NEW b \in Buckets
               PROVE  work'[u][s][b] >= 0
    BY <1>2 DEF WorkNonNegative
  <2>1. \A c \in Buckets : work[u][s][c] >= 0
    BY DEF IInv, WorkNonNegative
  <2>2. CASE u # t \/ s # r
    BY <1>3, <1>4, <2>1, <2>2
  <2>3. CASE u = t /\ s = r
    BY <1>1, <1>3, <2>1, <2>3, PassedKeepsNonNegative DEF n
  <2> QED
    BY <2>2, <2>3
<1>8. IdleHoldsNothing'
  BY <1>2 DEF IInv, IdleHoldsNothing
<1>9. LedgerMatchesLevel' /\ AvailableFormula' /\ NoNegativeBucket'
  BY <1>2 DEF IInv, LedgerMatchesLevel, AvailableFormula, NoNegativeBucket
<1> QED
  BY <1>6, <1>7, <1>8, <1>9 DEF IInv, HeldInv

\* A commit carries the facts about the private versions over to the tables,
\* and touches no row another transaction holds.
LEMMA CommitKeeps ==
    ASSUME IInv, HeldInv', NEW t \in Txns, Commit(t)
    PROVE  IInv'
<1> USE DEF IInv, HeldInv, Typing, TypeOK
<1>1. /\ \A r \in held[t] :
            /\ level'[r] = work[t][r] /\ available'[r] = workAvailable[t][r]
            /\ ledger'[r] = [b \in Buckets |-> ledger[r][b] + posted[t][r][b]]
      /\ \A r \in Rows \ held[t] :
            /\ level'[r] = level[r] /\ available'[r] = available[r]
            /\ ledger'[r] = ledger[r]
  BY DEF Commit
<1>2. /\ held'[t] = {} /\ pc'[t] = "committed"
      /\ \A u \in Txns \ {t} : held'[u] = held[u] /\ pc'[u] = pc[u]
      /\ UNCHANGED <<work, workAvailable, posted>>
  BY DEF Commit, private
<1>3. \A u \in Txns : \A r \in held'[u] : u # t /\ r \in held[u] /\ r \in Rows \ held[t]
  BY <1>2 DEF LocksExclusive
<1>4. IdleHoldsNothing'
  BY <1>2 DEF IdleHoldsNothing
<1>5. WorkAvailableFormula' /\ WorkNonNegative'
  BY <1>1, <1>2, <1>3 DEF WorkAvailableFormula, WorkNonNegative
<1>6. LedgerMatchesLevel'
  <2>1. ASSUME NEW r \in Rows PROVE level'[r] = ledger'[r]
    <3>1. CASE r \in held[t]
      <4>1. work[t][r] \in Level
        OBVIOUS
      <4>2. \A b \in Buckets : work[t][r][b] = ledger[r][b] + posted[t][r][b]
        BY <3>1 DEF WorkMatchesPosted, LedgerMatchesLevel
      <4>3. work[t][r] = [b \in Buckets |-> ledger[r][b] + posted[t][r][b]]
        BY <4>1, <4>2 DEF Level
      <4> QED
        BY <3>1, <1>1, <4>3
    <3>2. CASE r \notin held[t]
      BY <3>2, <1>1 DEF LedgerMatchesLevel
    <3> QED
      BY <3>1, <3>2
  <2>2. level' \in [Rows -> Level] /\ ledger' \in [Rows -> Level]
    OBVIOUS
  <2> QED
    BY <2>1, <2>2 DEF LedgerMatchesLevel
<1>7. AvailableFormula' /\ NoNegativeBucket'
  <2>1. ASSUME NEW r \in Rows
        PROVE  /\ available'[r] = ComputeAvailable(level'[r])
               /\ \A b \in Buckets : level'[r][b] >= 0
    <3>1. CASE r \in held[t]
      <4>1. level'[r] = work[t][r] /\ available'[r] = workAvailable[t][r]
        BY <3>1, <1>1
      <4>2. workAvailable[t][r] = ComputeAvailable(work[t][r])
        BY <3>1 DEF WorkAvailableFormula
      <4>3. \A b \in Buckets : work[t][r][b] >= 0
        BY <3>1 DEF WorkNonNegative
      <4> QED
        BY <4>1, <4>2, <4>3
    <3>2. CASE r \notin held[t]
      BY <3>2, <1>1 DEF AvailableFormula, NoNegativeBucket
    <3> QED
      BY <3>1, <3>2
  <2> QED
    BY <2>1 DEF AvailableFormula, NoNegativeBucket
<1> QED
  BY <1>4, <1>5, <1>6, <1>7

\* At the start the ledger is empty and the levels are the opening stock.
THEOREM InvInit == Init => IInv
<1> SUFFICES ASSUME Init PROVE IInv
  OBVIOUS
<1>1. Typing
  BY TypingInit
<1>2. \A r \in Rows, b \in Buckets : OpeningLevel[r][b] \in Nat
  BY OpeningAssumption
<1> QED
  BY <1>1, <1>2 DEF IInv, Init, LocksExclusive, IdleHoldsNothing, WorkMatchesPosted,
     WorkAvailableFormula, WorkNonNegative, LedgerMatchesLevel, AvailableFormula,
     NoNegativeBucket

\* Every step keeps rows and versions equal to what was posted to them.
THEOREM InvStep == IInv /\ [Next]_vars => IInv'
<1> SUFFICES ASSUME IInv, [Next]_vars PROVE IInv'
  OBVIOUS
<1>1. HeldInv'
  BY HeldStep DEF IInv, HeldInv
<1>2. pc \in [Txns -> Running \union {"idle", "committed", "aborted"}]
      /\ held \in [Txns -> SUBSET Rows]
  BY DEF IInv, Typing, TypeOK
<1>3. ASSUME NEW t \in Txns, Begin(t) PROVE IInv'
  BY <1>1, <1>2, <1>3, QuietStep DEF Begin
<1>4. ASSUME NEW t \in Txns, NEW r \in Rows, Lock(t, r) PROVE IInv'
  BY <1>1, <1>4, TakeRowKeeps DEF Lock
<1>5. ASSUME NEW t \in Txns, NEW r \in Rows, LockFindsNone(t, r) PROVE IInv'
  BY <1>1, <1>2, <1>5, QuietStep DEF LockFindsNone
<1>6. ASSUME NEW t \in Txns, NEW r \in Rows, Create(t, r) PROVE IInv'
  <2>1. CASE r \in exists
    BY <1>1, <1>2, <1>6, <2>1, QuietStep DEF Create
  <2>2. CASE r \notin exists
    BY <1>1, <1>6, <2>2, TakeRowKeeps DEF Create
  <2> QED
    BY <2>1, <2>2
<1>7. ASSUME NEW t \in Txns, NEW r \in Rows, Relock(t, r) PROVE IInv'
  BY <1>1, <1>7, TakeRowKeeps DEF Relock
<1>8. ASSUME NEW t \in Txns, NEW r \in Rows, Post(t, r) PROVE IInv'
  BY <1>1, <1>8, PostKeeps
<1>9. ASSUME NEW t \in Txns, Rollback(t) PROVE IInv'
  BY <1>1, <1>2, <1>9, QuietStep DEF Rollback
<1>10. ASSUME NEW t \in Txns, NEW r \in Rows, EndRow(t, r) PROVE IInv'
  BY <1>1, <1>2, <1>10, QuietStep DEF EndRow
<1>11. ASSUME NEW t \in Txns, Commit(t) PROVE IInv'
  BY <1>1, <1>11, CommitKeeps
<1>12. CASE UNCHANGED vars
  BY <1>1, <1>12, QuietStep DEF vars
<1> QED
  BY <1>3, <1>4, <1>5, <1>6, <1>7, <1>8, <1>9, <1>10, <1>11, <1>12
  DEF Next, Step, Refuse, Timeout, Finished

\* INV-2 and "never negative": in every behaviour of every instance a level is the sum of
\* what was committed, and no bucket is below zero, whatever is oversold.
THEOREM LedgerSafe == Spec => []LedgerMatchesLevel /\ []NoNegativeBucket
<1>1. IInv => LedgerMatchesLevel /\ NoNegativeBucket
  BY DEF IInv
<1> QED
  BY InvInit, InvStep, <1>1, PTL DEF Spec

\* INV-1: the available stored beside a level is computeAvailable of that level, though two
\* writers store it and each computes it from what it read under its own lock.
THEOREM AvailableIsComputed == Spec => []AvailableFormula
<1>1. IInv => AvailableFormula
  BY DEF IInv
<1> QED
  BY InvInit, InvStep, <1>1, PTL DEF Spec

-----------------------------------------------------------------------------
(* Rows have no endless ascending chain, because ids are bounded.          *)

\* A non-empty set of numbers up to MaxId has a greatest element.
LEMMA GreatestId ==
    ASSUME NEW T, T \subseteq 0..MaxId, T # {}
    PROVE  \E x \in T : \A y \in T : y <= x
BY GreatestUpTo, IdsAssumption

\* A non-empty set of rows has one that no other comes after.
LEMMA LastRow ==
    ASSUME NEW T, T \subseteq Rows, T # {}
    PROVE  \E r \in T : \A s \in T : ~Before(r, s)
<1>1. \A r \in T : r[1] \in 0..MaxId /\ r[2] \in 0..MaxId
  BY IdsAssumption DEF Rows
<1> DEFINE V == {r[1] : r \in T}
<1>2. PICK v \in V : \A w \in V : w <= v
  <2>1. V \subseteq 0..MaxId /\ V # {}
    BY <1>1
  <2> QED
    BY <2>1, GreatestId
<1> DEFINE L == {r[2] : r \in {q \in T : q[1] = v}}
<1>3. PICK k \in L : \A j \in L : j <= k
  <2>1. L \subseteq 0..MaxId /\ L # {}
    BY <1>1, <1>2
  <2> HIDE DEF L
  <2> QED
    BY <2>1, GreatestId
<1>4. PICK r \in T : r[1] = v /\ r[2] = k
  BY <1>3
<1>5. ASSUME NEW s \in T PROVE ~Before(r, s)
  <2>1. s[1] <= v /\ (s[1] = v => s[2] <= k)
    BY <1>2, <1>3
  <2>2. /\ s[1] \in Int /\ s[2] \in Int /\ v \in Int /\ k \in Int
    BY <1>1, <1>4, IdsAssumption
  <2> HIDE DEF V, L
  <2> QED
    BY <1>4, <2>1, <2>2 DEF Before
<1> QED
  BY <1>5

-----------------------------------------------------------------------------
(* Locks are taken in order.                                               *)

\* Every row a transaction holds comes before those it has still to post
\* (the row it is at is both).
LockOrder ==
    \A t \in Txns : \A r \in held[t], s \in todo[t] : r = s \/ Before(r, s)

LOInv == IInv /\ LockOrder

\* Taking the next row keeps the order.
LEMMA TakeRowOrder ==
    ASSUME LOInv, NEW t \in Txns, NEW r \in Rows,
           IsNextRow(t, r), TakeRow(t, r), UNCHANGED todo
    PROVE  LockOrder'
<1>1. held' = [held EXCEPT ![t] = @ \union {r}] /\ held \in [Txns -> SUBSET Rows]
  BY DEF TakeRow, LOInv, IInv, Typing, TypeOK
<1> SUFFICES ASSUME NEW u \in Txns, NEW q \in held'[u], NEW s \in todo[u]
             PROVE  q = s \/ Before(q, s)
  BY DEF LockOrder
<1>2. CASE q \in held[u]
  BY <1>2 DEF LOInv, LockOrder
<1>3. CASE q \notin held[u]
  BY <1>1, <1>3 DEF IsNextRow
<1> QED
  BY <1>2, <1>3

\* A step that takes no row and adds nothing to post keeps it too.
LEMMA OrderStep ==
    ASSUME LOInv,
           \A t \in Txns : held'[t] \subseteq held[t] /\ todo'[t] \subseteq todo[t]
    PROVE  LockOrder'
BY DEF LOInv, LockOrder

\* Every step keeps the rows held before the rows still to take.
THEOREM LockOrderStep == LOInv /\ [Next]_vars => LOInv'
<1> SUFFICES ASSUME LOInv, [Next]_vars PROVE LOInv'
  OBVIOUS
<1>1. IInv'
  BY InvStep DEF LOInv
<1>2. held \in [Txns -> SUBSET Rows] /\ todo \in [Txns -> SUBSET Rows]
  BY DEF LOInv, IInv, Typing, TypeOK
<1> SUFFICES LockOrder'
  BY <1>1 DEF LOInv
<1>3. ASSUME NEW t \in Txns, Begin(t) PROVE LockOrder'
  <2>1. held' = held /\ held[t] = {} /\ \A u \in Txns \ {t} : todo'[u] = todo[u]
    BY <1>3 DEF Begin, LOInv, IInv, IdleHoldsNothing
  <2> QED
    BY <2>1 DEF LOInv, LockOrder
<1>4. ASSUME NEW t \in Txns, NEW r \in Rows, Lock(t, r) PROVE LockOrder'
  BY <1>4, TakeRowOrder DEF Lock
<1>5. ASSUME NEW t \in Txns, NEW r \in Rows, LockFindsNone(t, r) PROVE LockOrder'
  BY <1>5, OrderStep DEF LockFindsNone
<1>6. ASSUME NEW t \in Txns, NEW r \in Rows, Create(t, r) PROVE LockOrder'
  <2>1. CASE r \in exists
    BY <1>6, <2>1, OrderStep DEF Create
  <2>2. CASE r \notin exists
    BY <1>6, <2>2, TakeRowOrder DEF Create
  <2> QED
    BY <2>1, <2>2
<1>7. ASSUME NEW t \in Txns, NEW r \in Rows, Relock(t, r) PROVE LockOrder'
  BY <1>7, TakeRowOrder DEF Relock
<1>8. ASSUME NEW t \in Txns, NEW r \in Rows, Post(t, r) PROVE LockOrder'
  <2>1. held' = held /\ todo' = todo
    BY <1>8 DEF Post
  <2> QED
    BY <2>1, OrderStep
<1>9. ASSUME NEW t \in Txns, Rollback(t) PROVE LockOrder'
  BY <1>2, <1>9, OrderStep DEF Rollback
<1>10. ASSUME NEW t \in Txns, NEW r \in Rows, EndRow(t, r) PROVE LockOrder'
  BY <1>2, <1>10, OrderStep DEF EndRow
<1>11. ASSUME NEW t \in Txns, Commit(t) PROVE LockOrder'
  BY <1>2, <1>11, OrderStep DEF Commit
<1>12. CASE UNCHANGED vars
  BY <1>12, OrderStep DEF vars
<1> QED
  BY <1>3, <1>4, <1>5, <1>6, <1>7, <1>8, <1>9, <1>10, <1>11, <1>12
  DEF Next, Step, Refuse, Timeout, Finished

\* A transaction has one next row.
LEMMA NextRowUnique ==
    ASSUME TypeOK, NEW t \in Txns, NEW r \in Rows, NEW s \in Rows,
           IsNextRow(t, r), IsNextRow(t, s)
    PROVE  r = s
<1>1. \A q \in Rows : q[1] \in 0..MaxId /\ q[2] \in 0..MaxId
  BY IdsAssumption DEF Rows
<1>2. r # s => Before(r, s) /\ Before(s, r)
  BY DEF IsNextRow
<1> QED
  BY <1>1, <1>2 DEF Before

\* Where the order holds, nobody waits in a circle: follow the waits and the
\* awaited row climbs, and there is a last row.
LEMMA OrderBreaksCycles == LOInv => NoWaitCycle
<1> SUFFICES ASSUME LOInv, NEW S \in SUBSET Txns, S # {},
                    \A t \in S : \E u \in S : WaitsFor(t, u)
             PROVE  FALSE
  BY DEF NoWaitCycle
<1>0. TypeOK /\ LockOrder
  BY DEF LOInv, IInv, Typing
<1> DEFINE Awaited == {r \in Rows : \E t \in S, u \in S :
                          r \in held[u] /\ r \notin held[t] /\ IsNextRow(t, r)}
<1>1. \A t \in S : \E u \in S : \E r \in Rows :
          r \in held[u] /\ r \notin held[t] /\ IsNextRow(t, r)
  BY <1>0 DEF WaitsFor, TypeOK
<1>2. Awaited # {} /\ Awaited \subseteq Rows
  BY <1>1
<1>3. PICK r \in Awaited : \A s \in Awaited : ~Before(r, s)
  <2> HIDE DEF Awaited
  <2> QED
    BY <1>2, LastRow
<1>4. PICK u \in S : r \in held[u]
  OBVIOUS
<1>5. PICK v \in S, s \in Rows : s \in held[v] /\ s \notin held[u] /\ IsNextRow(u, s)
  BY <1>1
<1>6. s \in Awaited
  BY <1>5
<1>7. s \in todo[u]
  BY <1>5 DEF IsNextRow
<1>8. r = s \/ Before(r, s)
  BY <1>0, <1>4, <1>7 DEF LockOrder
<1> QED
  BY <1>3, <1>4, <1>5, <1>6, <1>8

\* No set of transactions ever waits in a circle, however many there are.
THEOREM NoDeadlock == Spec => []NoWaitCycle
<1>1. Init => LOInv
  BY InvInit DEF Init, LOInv, LockOrder
<1> QED
  BY <1>1, LockOrderStep, OrderBreaksCycles, PTL DEF Spec

-----------------------------------------------------------------------------
(* Who may make a shortage.                                                *)

\* While a transaction posts a row of a document that may not oversell,
\* none of the movements it has still to post may either.
CleanRest ==
    \A t \in Txns, r \in Rows :
        pc[t] = "post" /\ IsNextRow(t, r) /\ ~OversellsIn(doc[t], r)
            => \A i \in 1..Len(moves[t]) : ~MayOversell(moves[t][i])

\* Its version of the row has no shortage, or none that was not there before.
NoWorse(l, before) ==
    ComputeAvailable(l) >= 0 \/ ComputeAvailable(l) >= ComputeAvailable(before)

CleanWork ==
    \A t \in Txns : \A r \in held[t] :
        ~OversellsIn(doc[t], r) => NoWorse(work[t][r], level[r])

OInv == IInv /\ CleanRest /\ CleanWork

\* The movements of a line that may not oversell.
LEMMA CleanLine ==
    ASSUME NEW d \in Docs, NEW r \in DOMAIN d, NEW l \in Level, ~OversellsIn(d, r)
    PROVE  \A i \in 1..Len(MovesOf(d[r], l)) : ~MayOversell(MovesOf(d[r], l)[i])
<1>1. CASE d[r].kind = "post"
  BY <1>1 DEF OversellsIn, MovesOf
<1>2. CASE d[r].kind # "post"
  BY <1>2 DEF MovesOf, MayOversell, OrderLifecycleTypes
<1> QED
  BY <1>1, <1>2

\* A row that is taken is as good as the stored one.
LEMMA TakeRowClean ==
    ASSUME OInv, NEW t \in Txns, NEW r \in Rows,
           IsNextRow(t, r), TakeRow(t, r), UNCHANGED <<stored, doc, todo>>
    PROVE  CleanRest' /\ CleanWork'
<1> DEFINE seen == IF r \notin held[t] THEN level[r] ELSE work[t][r]
<1>1. TypeOK /\ TodoInDoc
  BY DEF OInv, IInv, Typing
<1>2. /\ seen \in Level /\ doc[t] \in Docs /\ r \in DOMAIN doc[t]
  BY <1>1 DEF TypeOK, TodoInDoc, IsNextRow
<1>3. /\ moves' = [moves EXCEPT ![t] = MovesOf(doc[t][r], seen)]
      /\ work' = [work EXCEPT ![t][r] = seen]
      /\ held' = [held EXCEPT ![t] = @ \union {r}]
      /\ pc' = [pc EXCEPT ![t] = "post"]
  BY DEF TakeRow
<1>4. CleanRest'
  <2> SUFFICES ASSUME NEW u \in Txns, NEW s \in Rows,
                      pc'[u] = "post", IsNextRow(u, s)', ~OversellsIn(doc[u], s),
                      NEW i \in 1..Len(moves'[u])
               PROVE  ~MayOversell(moves'[u][i])
    BY DEF CleanRest
  <2>1. IsNextRow(u, s)
    BY DEF IsNextRow
  <2>2. CASE u = t
    <3>1. s = r
      BY <1>1, <2>1, <2>2, NextRowUnique
    <3>2. moves'[u] = MovesOf(doc[t][r], seen)
      BY <1>1, <1>3, <2>2 DEF TypeOK
    <3> QED
      BY <1>2, <2>2, <3>1, <3>2, CleanLine
  <2>3. CASE u # t
    BY <1>1, <1>3, <2>1, <2>3 DEF OInv, CleanRest, TypeOK
  <2> QED
    BY <2>2, <2>3
<1>5. CleanWork'
  <2> SUFFICES ASSUME NEW u \in Txns, NEW s \in held'[u], ~OversellsIn(doc[u], s)
               PROVE  NoWorse(work'[u][s], level[s])
    BY DEF CleanWork, stored
  <2>0. s \in Rows
    BY <1>1, <1>3 DEF TypeOK
  <2>1. CASE u = t /\ s = r /\ r \notin held[t]
    <3>1. work'[u][s] = level[s] /\ level[s] \in Level
      BY <1>1, <1>3, <2>0, <2>1 DEF TypeOK
    <3>2. ComputeAvailable(level[s]) \in Int
      BY <3>1, AvailableType
    <3> QED
      BY <3>1, <3>2 DEF NoWorse
  <2>2. CASE ~(u = t /\ s = r /\ r \notin held[t])
    <3>1. s \in held[u] /\ work'[u][s] = work[u][s]
      BY <1>1, <1>3, <2>0, <2>2 DEF TypeOK
    <3> QED
      BY <3>1 DEF OInv, CleanWork
  <2> QED
    BY <2>1, <2>2
<1> QED
  BY <1>4, <1>5

\* A movement that passes keeps a clean row clean.
LEMMA PostClean ==
    ASSUME OInv, NEW t \in Txns, NEW r \in Rows, Post(t, r)
    PROVE  CleanRest' /\ CleanWork'
<1> DEFINE m == Head(moves[t])
<1>1. TypeOK
  BY DEF OInv, IInv, Typing
<1>2. /\ pc[t] = "post" /\ IsNextRow(t, r)
      /\ moves[t] # << >> /\ ~Refused(work[t][r], m)
      /\ work' = [work EXCEPT ![t][r] = Moved(work[t][r], m)]
      /\ moves' = [moves EXCEPT ![t] = Tail(moves[t])]
      /\ UNCHANGED <<level, pc, doc, todo, held>>
  BY DEF Post, stored
<1>3. moves[t] \in Seq(Movement)
  BY <1>1 DEF TypeOK
<1>4. CleanRest'
  <2> SUFFICES ASSUME NEW u \in Txns, NEW s \in Rows,
                      pc[u] = "post", IsNextRow(u, s)', ~OversellsIn(doc[u], s),
                      NEW i \in 1..Len(moves'[u])
               PROVE  ~MayOversell(moves'[u][i])
    BY <1>2 DEF CleanRest
  <2>1. \A j \in 1..Len(moves[u]) : ~MayOversell(moves[u][j])
    BY <1>2 DEF IsNextRow, OInv, CleanRest
  <2>2. CASE u = t
    <3>1. moves'[u] = Tail(moves[t])
      BY <1>1, <1>2, <2>2 DEF TypeOK
    <3>2. /\ Len(Tail(moves[t])) = Len(moves[t]) - 1
          /\ \A j \in 1..(Len(moves[t]) - 1) : Tail(moves[t])[j] = moves[t][j + 1]
      BY <1>2, <1>3, HeadTailProperties
    <3>3. i \in 1..(Len(moves[t]) - 1) /\ moves'[u][i] = moves[t][i + 1]
      BY <3>1, <3>2
    <3>4. i + 1 \in 1..Len(moves[t])
      BY <1>3, <3>3
    <3> QED
      BY <2>1, <2>2, <3>3, <3>4
  <2>3. CASE u # t
    BY <1>1, <1>2, <2>1, <2>3 DEF TypeOK
  <2> QED
    BY <2>2, <2>3
<1>5. CleanWork'
  <2> SUFFICES ASSUME NEW u \in Txns, NEW s \in held[u], ~OversellsIn(doc[u], s)
               PROVE  NoWorse(work'[u][s], level[s])
    BY <1>2 DEF CleanWork
  <2>0. s \in Rows /\ work[u][s] \in Level /\ level[s] \in Level
    BY <1>1 DEF TypeOK
  <2>1. NoWorse(work[u][s], level[s])
    BY DEF OInv, CleanWork
  <2>2. CASE u # t \/ s # r
    <3>1. work'[u][s] = work[u][s]
      BY <1>1, <1>2, <2>0, <2>2 DEF TypeOK
    <3> QED
      BY <2>1, <3>1
  <2>3. CASE u = t /\ s = r
    <3>1. m \in Movement /\ m = moves[t][1] /\ 1 \in 1..Len(moves[t])
      BY <1>2, <1>3
    <3>2. ~MayOversell(m)
      BY <1>2, <2>3, <3>1 DEF OInv, CleanRest
    <3>3. work'[u][s] = Moved(work[u][s], m)
      BY <1>1, <1>2, <2>0, <2>3 DEF TypeOK
    <3>4. Moved(work[u][s], m) \in Level
      BY <2>0, <3>1, MovedType
    <3>5. NoWorse(Moved(work[u][s], m), work[u][s])
      BY <1>2, <2>0, <2>3, <3>1, <3>2, PassedKeepsAvailable DEF NoWorse
    <3>6. /\ ComputeAvailable(Moved(work[u][s], m)) \in Int
          /\ ComputeAvailable(work[u][s]) \in Int
          /\ ComputeAvailable(level[s]) \in Int
      BY <2>0, <3>4, AvailableType
    <3> HIDE DEF m
    <3> QED
      BY <2>1, <3>3, <3>5, <3>6 DEF NoWorse
  <2> QED
    BY <2>2, <2>3
<1> QED
  BY <1>4, <1>5

\* Steps that post nothing and take nothing.
LEMMA CleanStep ==
    ASSUME OInv, UNCHANGED <<level, doc, moves, work>>,
           \A t \in Txns : held'[t] \subseteq held[t],
           \A t \in Txns : pc'[t] = "post" => pc[t] = "post" /\ todo'[t] = todo[t]
    PROVE  CleanRest' /\ CleanWork'
<1>1. CleanRest'
  BY DEF OInv, CleanRest, IsNextRow
<1>2. CleanWork'
  BY DEF OInv, CleanWork
<1> QED
  BY <1>1, <1>2

\* Every step keeps a version without exempt movements from overselling further.
THEOREM CleanInvStep == OInv /\ [Next]_vars => OInv'
<1> SUFFICES ASSUME OInv, [Next]_vars PROVE OInv'
  OBVIOUS
<1>1. IInv'
  BY InvStep DEF OInv
<1>2. TypeOK
  BY DEF OInv, IInv, Typing
<1> SUFFICES CleanRest' /\ CleanWork'
  BY <1>1 DEF OInv
<1>3. ASSUME NEW t \in Txns, Begin(t) PROVE CleanRest' /\ CleanWork'
  <2>1. /\ held' = held /\ held[t] = {} /\ UNCHANGED <<level, moves, work>>
        /\ pc' = [pc EXCEPT ![t] = "lock"]
        /\ \A u \in Txns \ {t} : todo'[u] = todo[u] /\ doc'[u] = doc[u]
    BY <1>3 DEF Begin, OInv, IInv, IdleHoldsNothing, stored, private
  <2>2. \A u \in Txns : pc'[u] = "post" => u # t /\ pc[u] = "post"
    BY <1>2, <2>1 DEF TypeOK
  <2>3. CleanRest'
    BY <2>1, <2>2 DEF OInv, CleanRest, IsNextRow
  <2>4. CleanWork'
    BY <2>1 DEF OInv, CleanWork
  <2> QED
    BY <2>3, <2>4
<1>4. ASSUME NEW t \in Txns, NEW r \in Rows, Lock(t, r) PROVE CleanRest' /\ CleanWork'
  BY <1>4, TakeRowClean DEF Lock
<1>5. ASSUME NEW t \in Txns, NEW r \in Rows, LockFindsNone(t, r)
      PROVE  CleanRest' /\ CleanWork'
  BY <1>2, <1>5, CleanStep DEF LockFindsNone, TypeOK, stored, private
<1>6. ASSUME NEW t \in Txns, NEW r \in Rows, Create(t, r) PROVE CleanRest' /\ CleanWork'
  <2>1. CASE r \in exists
    BY <1>2, <1>6, <2>1, CleanStep DEF Create, TypeOK, stored, private
  <2>2. CASE r \notin exists
    BY <1>6, <2>2, TakeRowClean DEF Create
  <2> QED
    BY <2>1, <2>2
<1>7. ASSUME NEW t \in Txns, NEW r \in Rows, Relock(t, r) PROVE CleanRest' /\ CleanWork'
  BY <1>7, TakeRowClean DEF Relock
<1>8. ASSUME NEW t \in Txns, NEW r \in Rows, Post(t, r) PROVE CleanRest' /\ CleanWork'
  BY <1>8, PostClean
<1>9. ASSUME NEW t \in Txns, Rollback(t) PROVE CleanRest' /\ CleanWork'
  BY <1>2, <1>9, CleanStep DEF Rollback, TypeOK, stored, private
<1>10. ASSUME NEW t \in Txns, NEW r \in Rows, EndRow(t, r) PROVE CleanRest' /\ CleanWork'
  BY <1>2, <1>10, CleanStep DEF EndRow, TypeOK, stored, private
<1>11. ASSUME NEW t \in Txns, Commit(t) PROVE CleanRest' /\ CleanWork'
  <2>1. /\ UNCHANGED <<doc, todo, moves, work>>
        /\ held'[t] = {} /\ \A u \in Txns \ {t} : held'[u] = held[u]
        /\ pc' = [pc EXCEPT ![t] = "committed"]
        /\ \A r \in Rows \ held[t] : level'[r] = level[r]
    BY <1>2, <1>11 DEF Commit, TypeOK, private
  <2>2. CleanRest'
    BY <1>2, <2>1 DEF OInv, CleanRest, IsNextRow, TypeOK
  <2>3. \A u \in Txns : \A r \in held'[u] : r \in held[u] /\ level'[r] = level[r]
    BY <1>2, <2>1 DEF OInv, IInv, LocksExclusive, TypeOK
  <2>4. CleanWork'
    BY <2>1, <2>3 DEF OInv, CleanWork
  <2> QED
    BY <2>2, <2>4
<1>12. CASE UNCHANGED vars
  BY <1>12, CleanStep DEF vars, stored, private
<1> QED
  BY <1>3, <1>4, <1>5, <1>6, <1>7, <1>8, <1>9, <1>10, <1>11, <1>12
  DEF Next, Step, Refuse, Timeout, Finished

\* Only a commit changes the stored column, and only of rows it holds.
LEMMA OversellStep ==
    ASSUME OInv, OInv', [Next]_vars, NEW r \in Rows,
           available'[r] < 0, available'[r] < available[r]
    PROVE  \E t \in Txns : pc[t] = "commit" /\ OversellsIn(doc[t], r)
<1>1. TypeOK
  BY DEF OInv, IInv, Typing
<1>2. available[r] \in Int
  BY <1>1 DEF TypeOK
<1>3. available' # available
  BY <1>2
<1>4. PICK t \in Txns : Commit(t)
  BY <1>3 DEF Next, Step, Begin, Lock, LockFindsNone, Create, Relock, Post, Refuse,
              EndRow, Timeout, Rollback, Finished, vars, stored
<1>5. r \in held[t] /\ available'[r] = workAvailable[t][r]
  BY <1>2, <1>4 DEF Commit
<1>6. /\ available[r] = ComputeAvailable(level[r])
      /\ available'[r] = ComputeAvailable(work[t][r])
  BY <1>5 DEF OInv, IInv, AvailableFormula, WorkAvailableFormula
<1>7. ComputeAvailable(work[t][r]) \in Int /\ ComputeAvailable(level[r]) \in Int
  BY <1>1, AvailableType DEF TypeOK
<1>8. ~NoWorse(work[t][r], level[r])
  BY <1>6, <1>7 DEF NoWorse
<1>9. OversellsIn(doc[t], r)
  BY <1>5, <1>8 DEF OInv, CleanWork
<1> QED
  BY <1>4, <1>9 DEF Commit

\* Receipts, transfers, returns and counts never make or worsen a shortage.
THEOREM OversellOnlyByOrders == Spec => OnlyOrdersOversell
<1> DEFINE A == \A r \in Rows :
          available'[r] < 0 /\ available'[r] < available[r]
            => \E t \in Txns : pc[t] = "commit" /\ OversellsIn(doc[t], r)
<1>1. Init => OInv
  BY InvInit DEF Init, OInv, CleanRest, CleanWork
<1>2. OInv /\ OInv' /\ [Next]_vars => [A]_vars
  BY OversellStep
<1> QED
  BY <1>1, <1>2, CleanInvStep, PTL DEF Spec, OnlyOrdersOversell

-----------------------------------------------------------------------------
(* The ledger implements AtomicLedger.  Each document is posted row by row *)
(* on rows that nobody else can change, so its private versions are what   *)
(* the whole document makes of the stock of the commit.                    *)

\* What is left of a line's movements, and the version w that those before them
\* have made of level l, each of which passed.
Tracks(l, line, rest, w) ==
    LET batch == MovesOf(line, l)
        n == Len(batch) - Len(rest)
    IN  /\ Len(rest) <= Len(batch)
        /\ \A j \in 1..Len(rest) : rest[j] = batch[n + j]
        /\ w = LevelsAfter(l, batch)[n]
        /\ \A i \in 1..n : ~Refused(LevelsAfter(l, batch)[i - 1], batch[i])

\* The row is done: its line passes, and made the private version.
Settled(t, r) ==
    /\ LinePasses(level[r], doc[t][r])
    /\ work[t][r] = AfterLine(level[r], doc[t][r])

\* A running transaction has settled the rows it holds, except the one it posts.
OnItsWay(t) ==
    /\ doc[t] \in Docs
    /\ held[t] \union todo[t] = DOMAIN doc[t]
    /\ \A r \in held[t] \ todo[t] : Settled(t, r)
    /\ \A r \in held[t] \intersect todo[t] :
          /\ pc[t] = "post" /\ IsNextRow(t, r)
          /\ Tracks(level[r], doc[t][r], moves[t], work[t][r])
    /\ pc[t] = "post" => \A r \in Rows : IsNextRow(t, r) => r \in held[t]
    /\ pc[t] = "commit" => todo[t] = {}

Progress == \A t \in Txns : pc[t] \in Running => OnItsWay(t)

RefInv == IInv /\ Progress

\* Nothing is done of a batch that begins.
LEMMA TrackStart ==
    ASSUME NEW l \in Level, NEW d \in Docs, NEW r \in DOMAIN d
    PROVE  Tracks(l, d[r], MovesOf(d[r], l), l)
<1> DEFINE batch == MovesOf(d[r], l)
<1>1. batch \in Seq(Movement)
  BY MovesOfType
<1> HIDE DEF batch
<1>2. Len(batch) \in Nat /\ Len(batch) - Len(batch) = 0
      /\ \A j \in 1..Len(batch) : 0 + j = j
  BY <1>1, LenProperties
<1>3. LevelsAfter(l, batch)[0] = l
  BY <1>2, LevelsUnfold
<1>4. Tracks(l, d[r], batch, l)
  BY <1>2, <1>3 DEF Tracks, batch
<1> QED
  BY <1>4 DEF batch

\* A movement that passes takes the batch one further.
LEMMA TrackMove ==
    ASSUME NEW l \in Level, NEW d \in Docs, NEW r \in DOMAIN d,
           NEW rest \in Seq(Movement), rest # << >>, NEW w,
           Tracks(l, d[r], rest, w), ~Refused(w, Head(rest))
    PROVE  Tracks(l, d[r], Tail(rest), Moved(w, Head(rest)))
<1> DEFINE batch == MovesOf(d[r], l)
           n == Len(batch) - Len(rest)
           levels == LevelsAfter(l, batch)
<1>1. batch \in Seq(Movement)
  BY MovesOfType
<1>2. /\ Len(rest) <= Len(batch)
      /\ \A j \in 1..Len(rest) : rest[j] = batch[n + j]
      /\ w = levels[n]
      /\ \A i \in 1..n : ~Refused(levels[i - 1], batch[i])
  BY DEF Tracks
<1> HIDE DEF batch, levels
<1>3. /\ Len(batch) \in Nat /\ Len(rest) \in Nat /\ Len(rest) >= 1
      /\ Head(rest) = rest[1] /\ Len(Tail(rest)) = Len(rest) - 1
      /\ \A j \in 1..(Len(rest) - 1) : Tail(rest)[j] = rest[j + 1]
  <2>1. Len(rest) \in Nat /\ Len(rest) # 0
    BY EmptySeq, LenProperties
  <2> QED
    BY <1>1, <2>1, LenProperties, HeadTailProperties
<1>4. /\ n \in Nat /\ n + 1 \in 1..Len(batch) /\ Head(rest) = batch[n + 1]
      /\ Len(batch) - Len(Tail(rest)) = n + 1
  BY <1>2, <1>3
<1>5. levels[n + 1] = Moved(levels[n], batch[n + 1])
  <2>1. \A i \in 1..Len(batch) : levels[i] = Moved(levels[i - 1], batch[i])
    BY <1>3, LevelsUnfold DEF levels
  <2>2. (n + 1) - 1 = n
    BY <1>4
  <2> HIDE DEF n
  <2> QED
    BY <1>4, <2>1, <2>2
<1>6. \A j \in 1..Len(Tail(rest)) : Tail(rest)[j] = batch[(n + 1) + j]
  <2> SUFFICES ASSUME NEW j \in 1..Len(Tail(rest)) PROVE Tail(rest)[j] = batch[(n + 1) + j]
    OBVIOUS
  <2>1. j \in 1..(Len(rest) - 1) /\ j + 1 \in 1..Len(rest) /\ n + (j + 1) = (n + 1) + j
    BY <1>3, <1>4
  <2>2. Tail(rest)[j] = rest[j + 1] /\ rest[j + 1] = batch[n + (j + 1)]
    BY <1>2, <1>3, <2>1
  <2> QED
    BY <2>1, <2>2
<1>7. \A i \in 1..(n + 1) : ~Refused(levels[i - 1], batch[i])
  <2> SUFFICES ASSUME NEW i \in 1..(n + 1) PROVE ~Refused(levels[i - 1], batch[i])
    OBVIOUS
  <2>1. CASE i \in 1..n
    BY <1>2, <2>1
  <2>2. CASE i = n + 1
    <3>1. i - 1 = n /\ batch[i] = Head(rest) /\ levels[i - 1] = w
      BY <1>2, <1>4, <2>2
    <3> QED
      BY <3>1
  <2> QED
    BY <1>4, <2>1, <2>2
<1>8. Len(Tail(rest)) <= Len(batch)
  BY <1>2, <1>3
<1> HIDE DEF n
<1> QED
  BY <1>2, <1>4, <1>5, <1>6, <1>7, <1>8 DEF Tracks, batch, levels

\* When nothing is left the line has passed, a counted value included.
LEMMA TrackEnd ==
    ASSUME NEW l \in Level, NEW d \in Docs, NEW r \in DOMAIN d, NEW w,
           Tracks(l, d[r], << >>, w)
    PROVE  LinePasses(l, d[r]) /\ w = AfterLine(l, d[r])
<1> DEFINE line == d[r]
           batch == MovesOf(line, l)
           levels == LevelsAfter(l, batch)
<1>1. batch \in Seq(Movement) /\ line \in Line
  BY MovesOfType, DocsAssumption
<1>2. Len(batch) \in Nat /\ Len(batch) - Len(<< >>) = Len(batch)
  BY <1>1, LenProperties
<1>3. w = levels[Len(batch)] /\ \A i \in 1..Len(batch) : ~Refused(levels[i - 1], batch[i])
  BY <1>2 DEF Tracks
<1> SUFFICES LinePasses(l, line) /\ w = AfterLine(l, line)
  OBVIOUS
<1>4. CASE line.kind = "post"
  <2>1. batch = line.moves
    BY <1>4 DEF MovesOf
  <2> QED
    BY <1>3, <1>4, <2>1 DEF LinePasses, AfterLine
<1>5. CASE line.kind = "set"
  <2>1. /\ line.target \in Int /\ l["on_hand"] \in Int /\ "on_hand" \in Buckets
    BY <1>1, <1>5 DEF Line, Level, Buckets
  <2>2. CASE line.target = l["on_hand"]
    <3>1. batch = << >> /\ Len(<< >>) = 0
      BY <1>5, <2>2 DEF MovesOf
    <3>2. w = l
      <4>1. levels[0] = l
        BY <1>2, LevelsUnfold
      <4> QED
        BY <1>3, <3>1, <4>1
    <3>3. [l EXCEPT !["on_hand"] = line.target] = l
      BY <2>1, <2>2 DEF Level
    <3> HIDE DEF line, batch, levels
    <3> QED
      BY <1>5, <2>2, <3>2, <3>3 DEF LinePasses, AfterLine
  <2>3. CASE line.target # l["on_hand"]
    <3> DEFINE m == [bucket |-> "on_hand", change |-> line.target - l["on_hand"],
                     type |-> "adjust"]
    <3>1. batch = <<m>>
      BY <1>5, <2>3 DEF MovesOf
    <3>2. Moved(l, m) = [l EXCEPT !["on_hand"] = line.target]
      <4>1. m.bucket = "on_hand" /\ l["on_hand"] + m.change = line.target
        BY <2>1
      <4> QED
        BY <4>1 DEF Moved, SetBucketValue
    <3> HIDE DEF m
    <3>3. Len(batch) = 1 /\ batch[1] = m
      BY <3>1
    <3>4. levels[0] = l /\ levels[1] = Moved(l, m)
      <4> HIDE DEF batch, line
      <4>1. levels[0] = l /\ \A i \in 1..Len(batch) : levels[i] = Moved(levels[i - 1], batch[i])
        BY <1>2, LevelsUnfold
      <4> HIDE DEF levels
      <4> QED
        BY <3>3, <4>1
    <3>5. w = Moved(l, m) /\ ~Refused(l, m)
      <4> HIDE DEF batch, line, levels
      <4> QED
        BY <1>3, <3>3, <3>4
    <3> HIDE DEF line, batch, levels
    <3> QED
      BY <1>5, <3>2, <3>5 DEF LinePasses, AfterLine, m, line
  <2> QED
    BY <2>2, <2>3
<1> QED
  BY <1>1, <1>4, <1>5 DEF Line

\* What concerns a transaction whose own state and rows stay as they are.
LEMMA UntouchedOnItsWay ==
    ASSUME RefInv, NEW u \in Txns,
           pc'[u] = pc[u], doc'[u] = doc[u], todo'[u] = todo[u], moves'[u] = moves[u],
           held'[u] = held[u],
           \A r \in held[u] : work'[u][r] = work[u][r] /\ level'[r] = level[r],
           pc[u] \in Running
    PROVE  OnItsWay(u)'
<1>1. OnItsWay(u)
  BY DEF RefInv, Progress
<1>2. \A r \in Rows : IsNextRow(u, r)' <=> IsNextRow(u, r)
  BY DEF IsNextRow
<1>3. held[u] \subseteq Rows
  BY DEF RefInv, IInv, Typing, TypeOK
<1> QED
  BY <1>1, <1>2, <1>3 DEF OnItsWay, Settled

\* A transaction's step leaves the others on their way.
LEMMA OthersOnTheirWay ==
    ASSUME RefInv, NEW t \in Txns, UNCHANGED level,
           \A u \in Txns \ {t} : /\ pc'[u] = pc[u] /\ doc'[u] = doc[u]
                                 /\ todo'[u] = todo[u] /\ moves'[u] = moves[u]
                                 /\ held'[u] = held[u] /\ work'[u] = work[u],
           pc'[t] \in Running => OnItsWay(t)'
    PROVE  Progress'
<1> SUFFICES ASSUME NEW u \in Txns, pc'[u] \in Running PROVE OnItsWay(u)'
  BY DEF Progress, Running
<1>1. CASE u = t
  BY <1>1
<1>2. CASE u # t
  BY <1>2, UntouchedOnItsWay
<1> QED
  BY <1>1, <1>2

\* Between two rows, a transaction takes the next one.
LEMMA TakeRowProgress ==
    ASSUME RefInv, NEW t \in Txns, NEW r \in Rows, IsNextRow(t, r),
           pc[t] \in {"lock", "create", "relock"},
           TakeRow(t, r), UNCHANGED <<stored, doc, todo>>
    PROVE  Progress'
<1>1. TypeOK /\ OnItsWay(t)
  BY DEF RefInv, IInv, Typing, Progress, Running
<1>2. r \notin held[t] /\ r \in todo[t] /\ r \in DOMAIN doc[t] /\ doc[t] \in Docs
  BY <1>1 DEF OnItsWay, IsNextRow
<1>3. /\ held' = [held EXCEPT ![t] = @ \union {r}]
      /\ work' = [work EXCEPT ![t][r] = level[r]]
      /\ moves' = [moves EXCEPT ![t] = MovesOf(doc[t][r], level[r])]
      /\ pc' = [pc EXCEPT ![t] = "post"]
      /\ UNCHANGED <<level, doc, todo>>
  BY <1>2 DEF TakeRow, stored
<1>4. /\ held'[t] = held[t] \union {r} /\ pc'[t] = "post"
      /\ moves'[t] = MovesOf(doc[t][r], level[r]) /\ work'[t][r] = level[r]
      /\ \A s \in held[t] : work'[t][s] = work[t][s]
      /\ \A u \in Txns \ {t} : /\ pc'[u] = pc[u] /\ moves'[u] = moves[u]
                               /\ held'[u] = held[u] /\ work'[u] = work[u]
  BY <1>1, <1>2, <1>3 DEF TypeOK
<1>5. \A s \in Rows : IsNextRow(t, s)' <=> IsNextRow(t, s)
  BY <1>3 DEF IsNextRow
<1>6. Tracks(level[r], doc[t][r], moves'[t], work'[t][r])
  BY <1>1, <1>2, <1>4, TrackStart DEF TypeOK
<1>7. \A s \in Rows : IsNextRow(t, s) => s = r
  BY <1>1, NextRowUnique
<1>8. held'[t] \intersect todo[t] = {r} /\ held'[t] \ todo[t] = held[t] \ todo[t]
      /\ held'[t] \union todo[t] = DOMAIN doc[t]
  BY <1>1, <1>2, <1>4 DEF OnItsWay
<1>9. OnItsWay(t)'
  <2>1. \A s \in held[t] \ todo[t] : Settled(t, s)'
    BY <1>1, <1>3, <1>4 DEF OnItsWay, Settled
  <2>2. \A s \in held'[t] \intersect todo'[t] :
           /\ pc'[t] = "post" /\ IsNextRow(t, s)'
           /\ Tracks(level'[s], doc'[t][s], moves'[t], work'[t][s])
    BY <1>3, <1>4, <1>5, <1>6, <1>8
  <2>3. \A s \in Rows : IsNextRow(t, s)' => s \in held'[t]
    BY <1>4, <1>5, <1>7
  <2> QED
    BY <1>2, <1>3, <1>4, <1>8, <2>1, <2>2, <2>3 DEF OnItsWay
<1> QED
  BY <1>3, <1>4, <1>9, OthersOnTheirWay

\* A movement that passes.
LEMMA PostProgress ==
    ASSUME RefInv, NEW t \in Txns, NEW r \in Rows, Post(t, r)
    PROVE  Progress'
<1>1. TypeOK /\ OnItsWay(t) /\ IsNextRow(t, r)
  BY DEF RefInv, IInv, Typing, Progress, Running, Post
<1>2. /\ pc[t] = "post" /\ moves[t] # << >> /\ ~Refused(work[t][r], Head(moves[t]))
      /\ work' = [work EXCEPT ![t][r] = Moved(work[t][r], Head(moves[t]))]
      /\ moves' = [moves EXCEPT ![t] = Tail(moves[t])]
      /\ UNCHANGED <<level, pc, doc, todo, held>>
  BY DEF Post, stored
<1>3. /\ r \in held[t] /\ r \in todo[t] /\ r \in DOMAIN doc[t] /\ doc[t] \in Docs
      /\ Tracks(level[r], doc[t][r], moves[t], work[t][r])
  BY <1>1, <1>2 DEF OnItsWay, IsNextRow
<1>4. Tracks(level[r], doc[t][r], Tail(moves[t]), Moved(work[t][r], Head(moves[t])))
  <2>1. level[r] \in Level /\ moves[t] \in Seq(Movement)
    BY <1>1 DEF TypeOK
  <2> QED
    BY <1>2, <1>3, <2>1, TrackMove
<1>5. /\ moves'[t] = Tail(moves[t])
      /\ work'[t][r] = Moved(work[t][r], Head(moves[t]))
      /\ \A s \in Rows \ {r} : work'[t][s] = work[t][s]
      /\ \A u \in Txns \ {t} : moves'[u] = moves[u] /\ work'[u] = work[u]
  BY <1>1, <1>2 DEF TypeOK
<1>6. \A s \in Rows : IsNextRow(t, s)' <=> IsNextRow(t, s)
  BY <1>2 DEF IsNextRow
<1>7. held[t] \subseteq Rows /\ \A s \in held[t] \intersect todo[t] : s = r
  BY <1>1, NextRowUnique DEF TypeOK, OnItsWay
<1>8. OnItsWay(t)'
  <2>1. \A s \in held[t] \ todo[t] : Settled(t, s)'
    BY <1>1, <1>2, <1>3, <1>5, <1>7 DEF OnItsWay, Settled
  <2>2. \A s \in held'[t] \intersect todo'[t] :
           /\ pc'[t] = "post" /\ IsNextRow(t, s)'
           /\ Tracks(level'[s], doc'[t][s], moves'[t], work'[t][s])
    BY <1>1, <1>2, <1>4, <1>5, <1>6, <1>7
  <2>3. pc'[t] = "post" => \A s \in Rows : IsNextRow(t, s)' => s \in held'[t]
    BY <1>1, <1>2, <1>6 DEF OnItsWay
  <2> QED
    BY <1>1, <1>2, <2>1, <2>2, <2>3 DEF OnItsWay
<1> QED
  BY <1>2, <1>5, <1>8, OthersOnTheirWay

\* The row is done.
LEMMA EndRowProgress ==
    ASSUME RefInv, NEW t \in Txns, NEW r \in Rows, EndRow(t, r)
    PROVE  Progress'
<1>1. TypeOK /\ OnItsWay(t) /\ IsNextRow(t, r)
  BY DEF RefInv, IInv, Typing, Progress, Running, EndRow
<1>2. /\ pc[t] = "post" /\ moves[t] = << >>
      /\ todo' = [todo EXCEPT ![t] = @ \ {r}]
      /\ pc' = [pc EXCEPT ![t] = IF todo[t] = {r} THEN "commit" ELSE "lock"]
      /\ UNCHANGED <<level, doc, moves, held, work>>
  BY DEF EndRow, stored, private
<1>3. /\ r \in held[t] /\ r \in todo[t] /\ r \in DOMAIN doc[t] /\ doc[t] \in Docs
      /\ Tracks(level[r], doc[t][r], << >>, work[t][r])
  BY <1>1, <1>2 DEF OnItsWay, IsNextRow
<1>4. Settled(t, r)
  BY <1>1, <1>3, TrackEnd DEF Settled, TypeOK
<1>5. \A s \in held[t] \intersect todo[t] : s = r
  BY <1>1, NextRowUnique DEF TypeOK, OnItsWay
<1>6. /\ todo'[t] = todo[t] \ {r} /\ pc'[t] \in {"commit", "lock"}
      /\ pc'[t] = "commit" => todo'[t] = {}
      /\ \A u \in Txns \ {t} : todo'[u] = todo[u] /\ pc'[u] = pc[u]
  BY <1>1, <1>2 DEF TypeOK
<1>7. /\ held[t] \intersect todo'[t] = {} /\ held[t] \union todo'[t] = DOMAIN doc[t]
      /\ \A s \in held[t] \ todo'[t] : s = r \/ s \in held[t] \ todo[t]
  BY <1>1, <1>3, <1>5, <1>6 DEF OnItsWay
<1>8. \A s \in held[t] \ todo'[t] : Settled(t, s)'
  BY <1>1, <1>2, <1>4, <1>7 DEF OnItsWay, Settled
<1>9. OnItsWay(t)'
  BY <1>2, <1>3, <1>6, <1>7, <1>8 DEF OnItsWay
<1> QED
  BY <1>2, <1>6, <1>9, OthersOnTheirWay

\* Looking for the row again leaves everything as it was.
LEMMA WaitProgress ==
    ASSUME RefInv, NEW t \in Txns, pc[t] \in {"lock", "create"},
           NEW p \in {"create", "relock"}, pc' = [pc EXCEPT ![t] = p],
           UNCHANGED <<stored, doc, todo, moves, held, private>>
    PROVE  Progress'
<1>1. TypeOK /\ OnItsWay(t)
  BY DEF RefInv, IInv, Typing, Progress, Running
<1>2. UNCHANGED <<level, doc, todo, moves, held, work>>
  BY DEF stored, private
<1>3. pc'[t] = p /\ \A u \in Txns \ {t} : pc'[u] = pc[u]
  BY <1>1 DEF TypeOK
<1>4. held[t] \intersect todo[t] = {}
  BY <1>1 DEF OnItsWay
<1>5. OnItsWay(t)'
  BY <1>1, <1>2, <1>3, <1>4 DEF OnItsWay, Settled
<1> QED
  BY <1>2, <1>3, <1>5, OthersOnTheirWay

\* A commit changes no row that another transaction holds.
LEMMA CommitProgress ==
    ASSUME RefInv, NEW t \in Txns, Commit(t)
    PROVE  Progress'
<1>1. TypeOK /\ LocksExclusive
  BY DEF RefInv, IInv, Typing
<1>2. /\ level' = [r \in Rows |-> IF r \in held[t] THEN work[t][r] ELSE level[r]]
      /\ held' = [held EXCEPT ![t] = {}] /\ pc' = [pc EXCEPT ![t] = "committed"]
      /\ UNCHANGED <<doc, todo, moves, work>>
  BY DEF Commit, private
<1> SUFFICES ASSUME NEW u \in Txns, pc'[u] \in Running PROVE OnItsWay(u)'
  BY DEF Progress, Running
<1>3. u # t /\ pc'[u] = pc[u] /\ held'[u] = held[u]
  BY <1>1, <1>2 DEF TypeOK, Running
<1>4. \A r \in held[u] : level'[r] = level[r]
  <2>1. held[u] \subseteq Rows /\ held[u] \intersect held[t] = {}
    BY <1>1, <1>3 DEF TypeOK, LocksExclusive
  <2> QED
    BY <1>2, <2>1
<1> QED
  BY <1>2, <1>3, <1>4, UntouchedOnItsWay

\* Every step keeps the transactions on their way.
LEMMA ProgressStep == RefInv /\ [Next]_vars => RefInv'
<1> SUFFICES ASSUME RefInv, [Next]_vars PROVE Progress'
  BY InvStep DEF RefInv
<1>1. TypeOK
  BY DEF RefInv, IInv, Typing
<1>2. ASSUME NEW t \in Txns, Begin(t) PROVE Progress'
  <2>1. PICK d \in Docs : doc' = [doc EXCEPT ![t] = d] /\ todo' = [todo EXCEPT ![t] = DOMAIN d]
    BY <1>2 DEF Begin
  <2>2. /\ pc' = [pc EXCEPT ![t] = "lock"] /\ UNCHANGED <<level, moves, held, work>>
        /\ held[t] = {}
    BY <1>2 DEF Begin, RefInv, IInv, IdleHoldsNothing, stored, private
  <2>3. /\ doc'[t] = d /\ todo'[t] = DOMAIN d /\ pc'[t] = "lock"
        /\ \A u \in Txns \ {t} : doc'[u] = doc[u] /\ todo'[u] = todo[u] /\ pc'[u] = pc[u]
    BY <1>1, <2>1, <2>2 DEF TypeOK
  <2>4. OnItsWay(t)'
    BY <2>2, <2>3 DEF OnItsWay
  <2> QED
    BY <2>2, <2>3, <2>4, OthersOnTheirWay
<1>3. ASSUME NEW t \in Txns, NEW r \in Rows, Lock(t, r) \/ Relock(t, r) PROVE Progress'
  BY <1>3, TakeRowProgress DEF Lock, Relock
<1>4. ASSUME NEW t \in Txns, NEW r \in Rows, LockFindsNone(t, r) PROVE Progress'
  BY <1>4, WaitProgress DEF LockFindsNone
<1>5. ASSUME NEW t \in Txns, NEW r \in Rows, Create(t, r) PROVE Progress'
  <2>1. CASE r \in exists
    BY <1>5, <2>1, WaitProgress DEF Create
  <2>2. CASE r \notin exists
    BY <1>5, <2>2, TakeRowProgress DEF Create
  <2> QED
    BY <2>1, <2>2
<1>6. ASSUME NEW t \in Txns, NEW r \in Rows, Post(t, r) PROVE Progress'
  BY <1>6, PostProgress
<1>7. ASSUME NEW t \in Txns, Rollback(t) PROVE Progress'
  <2>1. /\ pc'[t] = "aborted" /\ UNCHANGED <<level, doc, todo, moves, work>>
        /\ \A u \in Txns \ {t} : pc'[u] = pc[u] /\ held'[u] = held[u]
    BY <1>1, <1>7 DEF Rollback, TypeOK, stored, private
  <2>2. pc'[t] \notin Running
    BY <2>1 DEF Running
  <2> QED
    BY <2>1, <2>2, OthersOnTheirWay
<1>8. ASSUME NEW t \in Txns, NEW r \in Rows, EndRow(t, r) PROVE Progress'
  BY <1>8, EndRowProgress
<1>9. ASSUME NEW t \in Txns, Commit(t) PROVE Progress'
  BY <1>9, CommitProgress
<1>10. CASE UNCHANGED vars
  <2>1. UNCHANGED <<level, pc, doc, todo, moves, held, work>>
    BY <1>10 DEF vars, stored, private
  <2> SUFFICES ASSUME NEW u \in Txns, pc'[u] \in Running PROVE OnItsWay(u)'
    BY DEF Progress, Running
  <2> QED
    BY <2>1, UntouchedOnItsWay
<1> QED
  BY <1>2, <1>3, <1>4, <1>5, <1>6, <1>7, <1>8, <1>9, <1>10
  DEF Next, Step, Refuse, Timeout, Finished

\* AtomicLedger's operators are those of StockPosting.
LEMMA AtomicOperators ==
    /\ \A s, d : Atomic!AfterDocument(s, d) = AfterDocument(s, d)
    /\ \A s, d : Atomic!DocumentPasses(s, d) <=> DocumentPasses(s, d)
<1>1. \A l, m : Atomic!Moved(l, m) = Moved(l, m) /\ (Atomic!Refused(l, m) <=> Refused(l, m))
  BY DEF Atomic!Moved, Moved, Atomic!SetBucketValue, SetBucketValue, Atomic!Refused, Refused,
     Atomic!RefusedNegative, RefusedNegative, Atomic!RefusedOversell, RefusedOversell,
     Atomic!ComputeAvailable, ComputeAvailable, Atomic!WorsensAvailable, WorsensAvailable,
     Atomic!OrderLifecycleTypes, OrderLifecycleTypes
<1>2. \A l, b : Atomic!LevelsAfter(l, b) = LevelsAfter(l, b)
  BY DEF Atomic!LevelsAfter, LevelsAfter, Atomic!Moved, Moved, Atomic!SetBucketValue,
     SetBucketValue
<1>3. \A l, x : /\ Atomic!AfterLine(l, x) = AfterLine(l, x)
                /\ Atomic!LinePasses(l, x) <=> LinePasses(l, x)
  BY <1>1, <1>2 DEF Atomic!AfterLine, AfterLine, Atomic!LinePasses, LinePasses
<1>4. \A s, d : Atomic!AfterDocument(s, d) = AfterDocument(s, d)
  BY <1>3 DEF Atomic!AfterDocument, AfterDocument
<1>5. \A s, d : Atomic!DocumentPasses(s, d) <=> DocumentPasses(s, d)
  BY <1>3 DEF Atomic!DocumentPasses, DocumentPasses
<1> QED
  BY <1>4, <1>5

\* What AtomicLedger sees of a transaction.
Outcome(p) == CASE p = "committed" -> "applied"
                [] p = "aborted" -> "rejected"
                [] OTHER -> "open"

Outcomes == [t \in Txns |-> Outcome(pc[t])]
Applied == [t \in Txns |-> IF pc[t] = "committed" THEN doc[t] ELSE << >>]

\* A commit applies the whole document to the stock of that moment.
LEMMA CommitApplies ==
    ASSUME RefInv, NEW t \in Txns, Commit(t)
    PROVE  /\ doc[t] \in Docs
           /\ DocumentPasses(level, doc[t])
           /\ level' = AfterDocument(level, doc[t])
<1>1. TypeOK /\ OnItsWay(t) /\ pc[t] = "commit"
  BY DEF RefInv, IInv, Typing, Progress, Running, Commit
<1>2. held[t] = DOMAIN doc[t] /\ \A r \in held[t] : Settled(t, r)
  BY <1>1 DEF OnItsWay
<1>3. level' = [r \in Rows |-> IF r \in held[t] THEN work[t][r] ELSE level[r]]
      /\ DOMAIN level = Rows
  BY <1>1 DEF Commit, TypeOK
<1>4. level' = AfterDocument(level, doc[t])
  BY <1>2, <1>3 DEF AfterDocument, Settled
<1> QED
  BY <1>1, <1>2, <1>4 DEF OnItsWay, DocumentPasses, Settled

\* Row locks make each document all-or-nothing on the stock of one moment: for
\* any number of transactions, every behaviour of the ledger is, step by step,
\* one of AtomicLedger.
THEOREM LedgerIsAtomic == Spec => ImplementsAtomicLedger
<1>1. Init => Atomic!Init
  <2> SUFFICES ASSUME Init PROVE Atomic!Init
    OBVIOUS
  <2> QED
    BY DEF Init, Atomic!Init
<1>2. RefInv /\ [Next]_vars => [Atomic!Next]_(Atomic!vars)
  <2> SUFFICES ASSUME RefInv, [Next]_vars PROVE [Atomic!Next]_(Atomic!vars)
    OBVIOUS
  <2>1. TypeOK
    BY DEF RefInv, IInv, Typing
  <2>2. ASSUME level' = level, Outcomes' = Outcomes, Applied' = Applied
        PROVE  UNCHANGED Atomic!vars
    BY <2>2 DEF Atomic!vars, Outcomes, Outcome, Applied
  <2>3. ASSUME NEW t \in Txns, pc[t] \in Running, NEW p \in Running,
               UNCHANGED <<level, doc>>, pc' = [pc EXCEPT ![t] = p]
        PROVE  UNCHANGED Atomic!vars
    <3>1. \A u \in Txns : /\ Outcome(pc'[u]) = Outcome(pc[u])
                          /\ pc'[u] = "committed" <=> pc[u] = "committed"
      BY <2>1, <2>3 DEF TypeOK, Outcome, Running
    <3> QED
      BY <2>2, <2>3, <3>1 DEF Outcomes, Applied
  <2>4. ASSUME UNCHANGED <<level, doc, pc>> PROVE UNCHANGED Atomic!vars
    BY <2>2, <2>4 DEF Outcomes, Applied
  <2>5. ASSUME NEW t \in Txns, Begin(t) PROVE UNCHANGED Atomic!vars
    <3>1. /\ pc[t] = "idle" /\ pc' = [pc EXCEPT ![t] = "lock"] /\ level' = level
          /\ \A u \in Txns \ {t} : doc'[u] = doc[u]
      BY <2>1, <2>5 DEF Begin, stored, TypeOK
    <3>2. \A u \in Txns : /\ Outcome(pc'[u]) = Outcome(pc[u])
                          /\ pc'[u] = "committed" <=> pc[u] = "committed"
                          /\ pc[u] = "committed" => doc'[u] = doc[u]
      BY <2>1, <3>1 DEF TypeOK, Outcome
    <3> QED
      BY <2>2, <3>1, <3>2 DEF Outcomes, Applied
  <2>6. ASSUME NEW t \in Txns, NEW r \in Rows,
               Lock(t, r) \/ Relock(t, r) \/ LockFindsNone(t, r) \/ Create(t, r) \/ EndRow(t, r)
        PROVE  UNCHANGED Atomic!vars
    <3>1. /\ pc[t] \in Running /\ UNCHANGED <<level, doc>>
          /\ \E p \in Running : pc' = [pc EXCEPT ![t] = p]
      BY <2>6 DEF Lock, Relock, LockFindsNone, Create, EndRow, TakeRow, stored, Running
    <3> QED
      BY <2>3, <3>1
  <2>7. ASSUME NEW t \in Txns, NEW r \in Rows, Post(t, r) PROVE UNCHANGED Atomic!vars
    BY <2>4, <2>7 DEF Post, stored
  <2>8. ASSUME NEW t \in Txns, Rollback(t), pc[t] \in Running PROVE Atomic!Next
    <3>1. /\ level' = level /\ doc' = doc /\ pc' = [pc EXCEPT ![t] = "aborted"]
      BY <2>8 DEF Rollback, stored
    <3>2. Outcomes[t] = "open" /\ Outcomes' = [Outcomes EXCEPT ![t] = "rejected"]
          /\ Applied' = Applied
      BY <2>1, <2>8, <3>1 DEF Outcomes, Applied, Outcome, TypeOK, Running
    <3>3. Atomic!Reject(t)
      BY <3>1, <3>2 DEF Atomic!Reject, Outcomes, Applied, Outcome
    <3> QED
      BY <3>3 DEF Atomic!Next
  <2>9. ASSUME NEW t \in Txns, Commit(t) PROVE Atomic!Next
    <3>1. /\ doc[t] \in Docs /\ DocumentPasses(level, doc[t])
          /\ level' = AfterDocument(level, doc[t])
      BY <2>9, CommitApplies
    <3>2. /\ Atomic!DocumentPasses(level, doc[t])
          /\ level' = Atomic!AfterDocument(level, doc[t])
      BY <3>1, AtomicOperators
    <3>3. pc[t] = "commit" /\ pc' = [pc EXCEPT ![t] = "committed"] /\ doc' = doc
      BY <2>9 DEF Commit
    <3>4. /\ Outcomes[t] = "open" /\ Outcomes' = [Outcomes EXCEPT ![t] = "applied"]
          /\ Applied' = [Applied EXCEPT ![t] = doc[t]]
      BY <2>1, <3>3 DEF Outcomes, Applied, Outcome, TypeOK
    <3>5. Atomic!Apply(t)
      BY <3>1, <3>2, <3>4 DEF Atomic!Apply, Outcomes, Applied, Outcome
    <3> QED
      BY <3>5 DEF Atomic!Next
  <2>10. CASE UNCHANGED vars
    BY <2>4, <2>10 DEF vars, stored
  <2> QED
    <3>1. \A t \in Txns, r \in Rows : Refuse(t, r) => Rollback(t) /\ pc[t] \in Running
      BY DEF Refuse, Running
    <3>2. \A t \in Txns : Timeout(t) => Rollback(t) /\ pc[t] \in Running
      BY DEF Timeout
    <3> QED
      BY <2>5, <2>6, <2>7, <2>8, <2>9, <2>10, <3>1, <3>2 DEF Next, Step, Finished
<1>3. Init => RefInv
  BY InvInit DEF Init, RefInv, Progress, Running
<1> QED
  BY <1>1, <1>2, <1>3, ProgressStep, PTL DEF Spec, ImplementsAtomicLedger, Atomic!Spec

-----------------------------------------------------------------------------
(* A resync beside the services (SapoResync).  INV-2 is lost for the rows  *)
(* the services touch while it reads; for the others each of its steps     *)
(* moves the level and the ledger apart by a known difference, which its   *)
(* last step closes.                                                       *)

SyncTypes ==
    /\ beforeLevel \in [Rows -> Level]
    /\ after \in SapoAnswers \union {<< >>}

\* What the level and the ledger of a row say while the resync is at each of its steps.
Told(r) ==
    /\ syncPc \in {"idle", "done"} => level[r] = ledger[r]
    /\ syncPc \in {"fetching", "insert"} =>
          level[r] = ledger[r] /\ beforeLevel[r] = ledger[r]
    /\ syncPc = "update" =>
          /\ beforeLevel[r] = ledger[r]
          /\ r \in Inserts => level[r] = after[r]
          /\ r \notin Inserts => level[r] = beforeLevel[r]
    /\ syncPc = "moves" =>
          \A b \in Buckets :
              /\ r \in Changed =>
                    level[r][b] - ledger[r][b] = after[r][b] - beforeLevel[r][b]
              /\ r \notin Changed => level[r][b] = ledger[r][b]

SyncInv == HeldInv /\ SyncTypes /\ \A r \in Rows \ touched : Told(r)

\* Sapo answers levels of rows.
LEMMA AnswersTyped ==
    ASSUME SyncTypes
    PROVE  /\ DOMAIN after \subseteq Rows /\ \A r \in DOMAIN after : after[r] \in Level
           /\ Changed \subseteq DOMAIN after
           /\ Inserts \subseteq Changed /\ Updates \subseteq Changed
           /\ Changed \subseteq Inserts \union Updates
<1>1. DOMAIN after \subseteq Rows /\ \A r \in DOMAIN after : after[r] \in Level
  <2>1. CASE after \in SapoAnswers
    BY <2>1, SapoAnswersAssumption
  <2>2. CASE after = << >>
    BY <2>2
  <2> QED
    BY <2>1, <2>2 DEF SyncTypes
<1> QED
  BY <1>1 DEF Changed, Inserts, Updates

\* A service leaves a row as it is, or commits what it holds of it to level and ledger alike.
LEMMA ServicesMoveBoth ==
    ASSUME HeldInv, NEW t \in Txns, Begin(t) \/ Step(t) \/ Timeout(t), NEW r \in Rows
    PROVE  \/ level'[r] = level[r] /\ ledger'[r] = ledger[r]
           \/ /\ pc[t] = "commit" /\ pc'[t] = "committed" /\ r \in held[t]
              /\ \A b \in Buckets :
                    level'[r][b] - ledger'[r][b] = level[r][b] - ledger[r][b]
<1>1. CASE Commit(t)
  <2>1. CASE r \notin held[t]
    BY <1>1, <2>1 DEF Commit
  <2>2. CASE r \in held[t]
    <3>1. pc[t] = "commit" /\ pc'[t] = "committed"
      BY <1>1 DEF Commit, HeldInv, Typing, TypeOK
    <3>2. /\ level'[r] = work[t][r]
          /\ ledger'[r] = [b \in Buckets |-> ledger[r][b] + posted[t][r][b]]
      BY <1>1, <2>2 DEF Commit
    <3>3. ASSUME NEW b \in Buckets
          PROVE  level'[r][b] - ledger'[r][b] = level[r][b] - ledger[r][b]
      <4>1. work[t][r][b] = level[r][b] + posted[t][r][b]
        BY <2>2 DEF HeldInv, WorkMatchesPosted
      <4>2. level[r][b] \in Int /\ posted[t][r][b] \in Int /\ ledger[r][b] \in Int
        BY DEF HeldInv, Typing, TypeOK, Level
      <4> QED
        BY <3>2, <4>1, <4>2
    <3> QED
      BY <2>2, <3>1, <3>3
  <2> QED
    BY <2>1, <2>2
<1>2. CASE Begin(t) \/ Timeout(t)
  BY <1>2 DEF Begin, Timeout, Rollback, stored
<1>3. CASE \E s \in Rows : \/ Lock(t, s) \/ LockFindsNone(t, s) \/ Create(t, s)
                           \/ Relock(t, s) \/ Post(t, s) \/ Refuse(t, s) \/ EndRow(t, s)
  BY <1>3 DEF Lock, LockFindsNone, Create, Relock, Post, Refuse, Rollback, EndRow, stored
<1> QED
  BY <1>1, <1>2, <1>3 DEF Step

\* A step of the other services leaves the resync's own account true: a row it changes
\* has been touched.
LEMMA ServicesKeepSync ==
    ASSUME SyncInv, ServiceStep
    PROVE  SyncInv'
<1>1. PICK t \in Txns : Begin(t) \/ Step(t) \/ Timeout(t)
  BY DEF ServiceStep
<1>2. /\ UNCHANGED <<syncPc, beforeExists, beforeLevel, beforeAvailable, after>>
      /\ syncPc \in {"fetching", "insert", "update"}
            => touched' = touched \union UNION {held[u] : u \in {v \in Txns :
                                        pc[v] = "commit" /\ pc'[v] = "committed"}}
      /\ syncPc \notin {"fetching", "insert", "update"} => touched' = touched
  BY DEF ServiceStep, Watched
<1>3. HeldInv'
  BY <1>1, HeldStep DEF Next, SyncInv
<1>4. SyncTypes'
  BY <1>2 DEF SyncInv, SyncTypes
<1>5. Inserts' = Inserts /\ Changed' = Changed
  BY <1>2 DEF Inserts, Changed
<1>6. ASSUME NEW r \in Rows \ touched' PROVE Told(r)'
  <2>1. r \in Rows /\ r \notin touched
    BY <1>2
  <2>2. Told(r)
    BY <2>1 DEF SyncInv
  <2>3. CASE level'[r] = level[r] /\ ledger'[r] = ledger[r]
    BY <1>2, <1>5, <2>2, <2>3 DEF Told
  <2>4. CASE /\ pc[t] = "commit" /\ pc'[t] = "committed" /\ r \in held[t]
             /\ \A b \in Buckets :
                   level'[r][b] - ledger'[r][b] = level[r][b] - ledger[r][b]
    <3>1. syncPc \notin {"fetching", "insert", "update"}
      BY <1>2, <1>6, <2>4
    <3>2. level[r] \in Level /\ ledger[r] \in Level /\ level'[r] \in Level /\ ledger'[r] \in Level
      BY <1>3, <2>1 DEF SyncInv, HeldInv, Typing, TypeOK
    <3>3. \A b \in Buckets : /\ level[r][b] \in Int /\ ledger[r][b] \in Int
                             /\ level'[r][b] \in Int /\ ledger'[r][b] \in Int
      BY <3>2 DEF Level
    <3>4. CASE syncPc \in {"idle", "done"}
      <4>1. \A b \in Buckets : level'[r][b] = ledger'[r][b]
        BY <2>2, <2>4, <3>3, <3>4 DEF Told
      <4>2. level'[r] = ledger'[r]
        BY <3>2, <4>1 DEF Level
      <4> QED
        BY <1>2, <3>4, <4>2 DEF Told
    <3>5. CASE syncPc = "moves"
      <4>1. ASSUME NEW b \in Buckets
            PROVE  /\ r \in Changed =>
                        level'[r][b] - ledger'[r][b] = after[r][b] - beforeLevel[r][b]
                   /\ r \notin Changed => level'[r][b] = ledger'[r][b]
        BY <2>2, <2>4, <3>3, <3>5 DEF Told
      <4> QED
        BY <1>2, <1>5, <3>5, <4>1 DEF Told
    <3>6. CASE syncPc \notin {"idle", "done", "moves"}
      BY <1>2, <3>1, <3>6 DEF Told
    <3> QED
      BY <3>4, <3>5, <3>6
  <2> QED
    BY <1>1, <2>1, <2>3, <2>4, ServicesMoveBoth DEF SyncInv
<1> QED
  BY <1>3, <1>4, <1>6 DEF SyncInv

\* Rows that nobody holds may be overwritten: what the holders of others have is untouched.
LEMMA OverwriteHeld ==
    ASSUME HeldInv, SyncTypes, NEW S, S \subseteq Changed,
           \A t \in Txns : held[t] \intersect S = {},
           Overwrite(S), exists' \subseteq Rows,
           UNCHANGED <<ledger, pc, doc, todo, moves, held, private>>
    PROVE  HeldInv'
<1>1. S \subseteq Rows /\ \A r \in S : after[r] \in Level
  BY AnswersTyped
<1>2. level' \in [Rows -> Level]
  BY <1>1 DEF Overwrite, HeldInv, Typing, TypeOK
<1>3. \A r \in S : ComputeAvailable(after[r]) \in Int
  BY <1>1, AvailableType
<1>4. available' \in [Rows -> Int]
  BY <1>3 DEF Overwrite, HeldInv, Typing, TypeOK
<1>5. Typing'
  BY <1>2, <1>4 DEF HeldInv, Typing, TypeOK, TodoInDoc, private
<1>6. LocksExclusive'
  BY DEF HeldInv, LocksExclusive
<1>7. \A t \in Txns : \A r \in held[t] : level'[r] = level[r]
  <2>1. \A t \in Txns : held[t] \subseteq Rows
    BY DEF HeldInv, Typing, TypeOK
  <2> QED
    BY <2>1 DEF Overwrite
<1>8. WorkMatchesPosted'
  BY <1>7 DEF HeldInv, WorkMatchesPosted, private
<1> QED
  BY <1>5, <1>6, <1>8 DEF HeldInv

\* What the resync reads is the stored level.
LEMMA SyncReadKeeps ==
    ASSUME SyncInv, SyncRead PROVE SyncInv'
<1>1. HeldInv'
  BY HeldStep DEF SyncInv, SyncRead, vars
<1>2. SyncTypes'
  BY DEF SyncInv, SyncTypes, SyncRead, HeldInv, Typing, TypeOK
<1>3. \A r \in Rows \ touched : Told(r)'
  BY DEF SyncInv, SyncRead, Told, vars, stored
<1> QED
  BY <1>1, <1>2, <1>3 DEF SyncInv, SyncRead

\* What Sapo answers fits what the resync is about to do.
LEMMA SyncFetchKeeps ==
    ASSUME SyncInv, SyncFetch PROVE SyncInv'
<1>1. HeldInv'
  BY HeldStep DEF SyncInv, SyncFetch, vars
<1>2. SyncTypes'
  BY DEF SyncInv, SyncTypes, SyncFetch
<1>3. \A r \in Rows \ touched : Told(r)'
  BY DEF SyncInv, SyncFetch, Told, vars, stored
<1> QED
  BY <1>1, <1>2, <1>3 DEF SyncInv, SyncFetch

\* An inserted row has the movements that explain it still to come.
LEMMA SyncInsertKeeps ==
    ASSUME SyncInv, SyncInsert PROVE SyncInv'
<1>1. CASE Inserts \intersect exists # {}
  <2>1. /\ syncPc' = "failed"
        /\ UNCHANGED <<exists, level, available, ledger, pc, doc, todo, moves, held, private>>
        /\ UNCHANGED <<beforeLevel, after, touched>>
    BY <1>1 DEF SyncInsert
  <2>2. HeldInv'
    BY <2>1, HeldStep DEF SyncInv, vars, stored
  <2> QED
    BY <2>1, <2>2 DEF SyncInv, SyncTypes, Told
<1>2. CASE Inserts \intersect exists = {}
  <2>1. /\ syncPc = "insert" /\ syncPc' = "update" /\ Overwrite(Inserts)
        /\ exists' = exists \union Inserts
        /\ \A t \in Txns : held[t] \intersect Inserts = {}
        /\ UNCHANGED <<ledger, pc, doc, todo, moves, held, private>>
        /\ UNCHANGED <<beforeExists, beforeLevel, beforeAvailable, after, touched>>
    BY <1>2 DEF SyncInsert
  <2>2. Inserts \subseteq Changed /\ Inserts \subseteq Rows
    BY AnswersTyped DEF SyncInv
  <2>3. exists' \subseteq Rows
    BY <2>1, <2>2 DEF SyncInv, HeldInv, Typing, TypeOK
  <2>4. HeldInv'
    BY <2>1, <2>2, <2>3, OverwriteHeld DEF SyncInv
  <2>5. Inserts' = Inserts
    BY <2>1 DEF Inserts, Changed
  <2>6. ASSUME NEW r \in Rows \ touched PROVE Told(r)'
    <3>1. level[r] = ledger[r] /\ beforeLevel[r] = ledger[r]
      BY <2>1 DEF SyncInv, Told
    <3>2. level'[r] = IF r \in Inserts THEN after[r] ELSE level[r]
      BY <2>1 DEF Overwrite
    <3> QED
      BY <2>1, <2>5, <3>1, <3>2 DEF Told
  <2> QED
    BY <2>1, <2>4, <2>6 DEF SyncInv, SyncTypes
<1> QED
  BY <1>1, <1>2

\* An overwritten row differs from its movements by those still to come.
LEMMA SyncUpdateKeeps ==
    ASSUME SyncInv, SyncUpdate PROVE SyncInv'
<1>1. /\ syncPc = "update" /\ syncPc' = "moves" /\ Overwrite(Updates)
      /\ \A t \in Txns : held[t] \intersect Updates = {}
      /\ UNCHANGED <<exists, ledger, pc, doc, todo, moves, held, private>>
      /\ UNCHANGED <<beforeExists, beforeLevel, beforeAvailable, after, touched>>
  BY DEF SyncUpdate
<1>2. /\ Updates \subseteq Changed /\ Inserts \subseteq Changed
      /\ Changed \subseteq Inserts \union Updates
  BY AnswersTyped DEF SyncInv
<1>3. HeldInv'
  <2>1. exists' \subseteq Rows
    BY <1>1 DEF SyncInv, HeldInv, Typing, TypeOK
  <2> QED
    BY <1>1, <1>2, <2>1, OverwriteHeld DEF SyncInv
<1>4. Changed' = Changed
  BY <1>1 DEF Changed
<1>5. ASSUME NEW r \in Rows \ touched PROVE Told(r)'
  <2>1. /\ beforeLevel[r] = ledger[r]
        /\ r \in Inserts => level[r] = after[r]
        /\ r \notin Inserts => level[r] = beforeLevel[r]
    BY <1>1 DEF SyncInv, Told
  <2>2. level'[r] = IF r \in Updates THEN after[r] ELSE level[r]
    BY <1>1 DEF Overwrite
  <2>3. /\ r \in Changed => level'[r] = after[r]
        /\ r \notin Changed => level'[r] = ledger[r]
    BY <1>2, <2>1, <2>2
  <2> QED
    BY <1>1, <1>4, <2>1, <2>3 DEF Told
<1> QED
  BY <1>1, <1>3, <1>5 DEF SyncInv, SyncTypes

\* The compensating movements close the difference (INV-2).
LEMMA SyncMovesKeeps ==
    ASSUME SyncInv, SyncMoves PROVE SyncInv'
<1>1. /\ syncPc = "moves" /\ syncPc' = "done"
      /\ ledger' = [r \in Rows |->
            IF r \in Changed
            THEN [b \in Buckets |-> ledger[r][b] + (after[r][b] - beforeLevel[r][b])]
            ELSE ledger[r]]
      /\ UNCHANGED <<exists, level, available, pc, doc, todo, moves, held, private>>
      /\ UNCHANGED <<beforeExists, beforeLevel, beforeAvailable, after, touched>>
  BY DEF SyncMoves
<1>2. \A r \in Changed : r \in Rows /\ after[r] \in Level
  BY AnswersTyped DEF SyncInv
<1>3. \A r \in Rows : level[r] \in Level /\ ledger[r] \in Level /\ beforeLevel[r] \in Level
  BY DEF SyncInv, SyncTypes, HeldInv, Typing, TypeOK
<1>4. ledger' \in [Rows -> Level]
  <2>1. ASSUME NEW r \in Changed
        PROVE  [b \in Buckets |-> ledger[r][b] + (after[r][b] - beforeLevel[r][b])] \in Level
    BY <1>2, <1>3 DEF Level
  <2> QED
    BY <1>1, <1>3, <2>1
<1>5. Typing'
  BY <1>1, <1>4 DEF SyncInv, HeldInv, Typing, TypeOK, TodoInDoc, private
<1>6. LocksExclusive' /\ WorkMatchesPosted'
  BY <1>1 DEF SyncInv, HeldInv, LocksExclusive, WorkMatchesPosted, private
<1>7. ASSUME NEW r \in Rows \ touched PROVE level'[r] = ledger'[r]
  <2>1. level[r] \in Level /\ ledger[r] \in Level /\ beforeLevel[r] \in Level
    BY <1>3
  <2>2. \A b \in Buckets :
           /\ r \in Changed => level[r][b] - ledger[r][b] = after[r][b] - beforeLevel[r][b]
           /\ r \notin Changed => level[r][b] = ledger[r][b]
    BY <1>1 DEF SyncInv, Told
  <2>3. CASE r \notin Changed
    <3>1. level[r] = ledger[r]
      BY <2>1, <2>2, <2>3 DEF Level
    <3> QED
      BY <1>1, <2>3, <3>1
  <2>4. CASE r \in Changed
    <3>1. \A b \in Buckets : /\ level[r][b] \in Int /\ ledger[r][b] \in Int
                             /\ after[r][b] \in Int /\ beforeLevel[r][b] \in Int
      BY <1>2, <2>1, <2>4 DEF Level
    <3>2. ASSUME NEW b \in Buckets
          PROVE  level[r][b] = ledger[r][b] + (after[r][b] - beforeLevel[r][b])
      <4>1. level[r][b] - ledger[r][b] = after[r][b] - beforeLevel[r][b]
        BY <2>2, <2>4
      <4> QED
        BY <3>1, <4>1
    <3>3. level[r] = [b \in Buckets |-> ledger[r][b] + (after[r][b] - beforeLevel[r][b])]
      BY <2>1, <3>2 DEF Level
    <3> QED
      BY <1>1, <2>4, <3>3
  <2> QED
    BY <2>3, <2>4
<1> QED
  BY <1>1, <1>5, <1>6, <1>7 DEF SyncInv, SyncTypes, HeldInv, Told

\* Every step of the resync, and every step beside it, keeps the invariant.
LEMMA SyncStep == SyncInv /\ [SyncNext]_allVars => SyncInv'
<1> SUFFICES ASSUME SyncInv, [SyncNext]_allVars PROVE SyncInv'
  OBVIOUS
<1>1. CASE SyncFail
  <2>1. HeldInv'
    BY <1>1, HeldStep DEF SyncInv, SyncFail
  <2> QED
    BY <1>1, <2>1 DEF SyncInv, SyncFail, SyncTypes, Told
<1>2. CASE UNCHANGED allVars
  <2>1. HeldInv'
    BY <1>2, HeldStep DEF SyncInv, allVars
  <2>2. Inserts' = Inserts /\ Changed' = Changed
    BY <1>2 DEF Inserts, Changed, allVars, syncVars
  <2>3. SyncTypes' /\ UNCHANGED <<syncPc, level, ledger, beforeLevel, after, touched>>
    BY <1>2 DEF SyncInv, SyncTypes, allVars, syncVars, vars, stored
  <2> QED
    BY <2>1, <2>2, <2>3 DEF SyncInv, Told
<1> QED
  BY <1>1, <1>2, ServicesKeepSync, SyncReadKeeps, SyncFetchKeeps, SyncInsertKeeps,
     SyncUpdateKeeps, SyncMovesKeeps DEF SyncNext

\* "Every change produces a compensating movement" (SapoInventorySyncService), as far as it
\* is true: a row that no service commits to between the resync's reading and its
\* overwriting is in its ledger again when the resync has ended, whatever services hold
\* locks, wait or commit around its statements.
THEOREM ResyncKeepsUntouched == SyncSpec => []ResyncBalancesUntouched
<1>1. SyncInit => SyncInv
  <2> SUFFICES ASSUME SyncInit PROVE SyncInv
    OBVIOUS
  <2>1. HeldInv
    BY InvInit DEF SyncInit, IInv, HeldInv
  <2>2. ZeroLevel \in Level
    BY DEF ZeroLevel, Level
  <2>3. SyncTypes
    BY <2>2 DEF SyncInit, SyncTypes
  <2> QED
    BY <2>1, <2>3 DEF SyncInv, SyncInit, Init, Told
<1>2. SyncInv => ResyncBalancesUntouched
  BY DEF SyncInv, Told, ResyncBalancesUntouched
<1> QED
  BY <1>1, SyncStep, <1>2, PTL DEF SyncSpec
=============================================================================
