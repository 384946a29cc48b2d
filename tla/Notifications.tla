----------------------------- MODULE Notifications -----------------------------
(***************************************************************************)
(* NotificationService and the scan of InventoryAlertService for one topic *)
(* and one location: a digest is sent of what is wrong there, unless the   *)
(* last one said the same number and somebody has not read it; the topics' *)
(* settings are cached for a while.  What is wrong, and who has which      *)
(* rights, is external.                                                    *)
(***************************************************************************)
EXTENDS Integers, FiniteSets, SequencesExt

CONSTANTS
    Users, Items,
    Rows,           \* values of the topic's row of notification_settings
    TTL,            \* SETTINGS_TTL_MS, in ticks
    MaxTime,        \* bound: ticks
    MaxNotices      \* bound: digests

\* The values of the constants, assumed by the module that instantiates this one.
NotificationsAssumption ==
    /\ {TTL, MaxTime, MaxNotices} \subseteq Nat
    /\ Rows \subseteq [on : BOOLEAN, to : SUBSET Users]

VARIABLES
    wrong,      \* external: the items that are wrong now
    setting,    \* the topic's row, with the users its permissions reach
    cache,      \* settingsCache
    sender,     \* the scan, and an event of another topic
    admin,      \* updateSetting
    notices,    \* the digests, the oldest first
    clock,
    left,       \* history: when the row last ceased to have a value
    lag         \* history: how long ago the row had the value a sender was given, at most

vars == <<wrong, setting, cache, sender, admin, notices, clock, left, lag>>

Senders == {"scan", "event"}
Idle == [pc |-> "idle"]
NoCache == [st |-> "none"]

Init ==
    /\ wrong = {}
    /\ setting \in Rows
    /\ cache = NoCache /\ admin = "idle"
    /\ sender = [s \in Senders |-> Idle]
    /\ notices = <<>>
    /\ clock = 0 /\ lag = 0
    /\ left = [r \in Rows |-> 0]

-----------------------------------------------------------------------------
(* The settings.                                                           *)

\* Mutant: trust in the invalidation alone.
FreshUntilInvalidated(c, now) == c # NoCache

\* getSetting: from the cache, if it is there and young enough, ...
Fresh(c, now) == c # NoCache /\ now - c.at <= TTL

LastHad(row) == IF row = setting THEN clock ELSE left[row]

\* ... and then on with the row, to what the sender asked it for.
Given(s, next, row) ==
    /\ lag' = LET ago == clock - LastHad(row) IN IF ago > lag THEN ago ELSE lag
    /\ sender' = [sender EXCEPT ![s] =
                    CASE ~row.on \/ s = "event" -> Idle
                      [] next = "items" -> [pc |-> "items"]
                      [] OTHER -> [pc |-> "users", items |-> @.items, to |-> row.to]]

Ask(s, next, items) ==
    IF Fresh(cache, clock)
    THEN Given(s, next, cache.row)
    ELSE /\ sender' = [sender EXCEPT ![s] =
                        [pc |-> "query", next |-> next, now |-> clock, items |-> items]]
         /\ UNCHANGED lag

\* The rows are read, and later taken over, with the time the call began.
Query(s) ==
    /\ sender[s].pc = "query"
    /\ sender' = [sender EXCEPT ![s] = [pc |-> "load", next |-> @.next, now |-> @.now,
                                        items |-> @.items, row |-> setting]]
    /\ UNCHANGED <<wrong, setting, cache, admin, notices, clock, left, lag>>

Load(s) ==
    /\ sender[s].pc = "load"
    /\ cache' = [st |-> "there", row |-> sender[s].row, at |-> sender[s].now]
    /\ Given(s, sender[s].next, sender[s].row)
    /\ UNCHANGED <<wrong, setting, admin, notices, clock, left>>

\* updateSetting, with permissions that exist: the row, then the cache.
UpdateSetting(row) ==
    /\ admin = "idle" /\ row # setting
    /\ setting' = row
    /\ left' = [left EXCEPT ![setting] = clock]
    /\ admin' = "invalidate"
    /\ UNCHANGED <<wrong, cache, sender, notices, clock, lag>>

Invalidate ==
    /\ admin = "invalidate"
    /\ admin' = "idle" /\ cache' = NoCache
    /\ UNCHANGED <<wrong, setting, sender, notices, clock, left, lag>>

-----------------------------------------------------------------------------
(* The scan.                                                               *)

\* The scheduler, which lets one scan at a time be under way: isTopicEnabled first.
BeginScan ==
    /\ sender["scan"] = Idle
    /\ Len(notices) < MaxNotices
    /\ Ask("scan", "items", {})
    /\ UNCHANGED <<wrong, setting, cache, admin, notices, clock, left>>

\* Another topic's event, of which only the reading of the settings matters here.
Event ==
    /\ sender["event"] = Idle
    /\ Ask("event", "users", {})
    /\ UNCHANGED <<wrong, setting, cache, admin, notices, clock, left>>

\* scanLowStock, scanNegative or scanOrderShortage
ReadItems ==
    /\ sender["scan"].pc = "items"
    /\ sender' = [sender EXCEPT !["scan"] =
                    IF wrong = {} THEN Idle ELSE [pc |-> "last", items |-> wrong]]
    /\ UNCHANGED <<wrong, setting, cache, admin, notices, clock, left, lag>>

\* isDuplicateOfUnread
SameNumberUnread(items) ==
    /\ notices # <<>>
    /\ Last(notices).unread # {}
    /\ Last(notices).count = Cardinality(items)

\* emit, if the digest is none of these
CompareWithLast ==
    /\ sender["scan"].pc = "last"
    /\ LET items == sender["scan"].items
       IN IF SameNumberUnread(items)
          THEN sender' = [sender EXCEPT !["scan"] = Idle] /\ UNCHANGED lag
          ELSE Ask("scan", "users", items)
    /\ UNCHANGED <<wrong, setting, cache, admin, notices, clock, left>>

\* usersWithPermissions and the notification with its recipients; or it fails, and the
\* error is swallowed.
Create ==
    /\ sender["scan"].pc = "users"
    /\ LET sent == sender["scan"]
           before == IF notices = <<>> THEN [count |-> 0, unread |-> {}] ELSE Last(notices)
           count == Cardinality(sent.items)
       IN notices' = IF sent.to = {} THEN notices
                     ELSE Append(notices,
                            [count |-> count, unread |-> sent.to,
                             again |-> before.unread # {} /\ before.count = count])
    /\ sender' = [sender EXCEPT !["scan"] = Idle]
    /\ UNCHANGED <<wrong, setting, cache, admin, clock, left, lag>>

Fail(s) ==
    /\ sender[s] # Idle
    /\ sender' = [sender EXCEPT ![s] = Idle]
    /\ UNCHANGED <<wrong, setting, cache, admin, notices, clock, left, lag>>

-----------------------------------------------------------------------------
(* The readers, the shelves and the time.                                  *)

MarkRead(u, ids) ==
    /\ \E i \in ids : u \in notices[i].unread
    /\ notices' = [i \in DOMAIN notices |->
                    IF i \in ids THEN [notices[i] EXCEPT !.unread = @ \ {u}] ELSE notices[i]]
    /\ UNCHANGED <<wrong, setting, cache, sender, admin, clock, left, lag>>

MarkAllRead(u) == MarkRead(u, DOMAIN notices)

Change(i) ==
    /\ wrong' = IF i \in wrong THEN wrong \ {i} ELSE wrong \union {i}
    /\ UNCHANGED <<setting, cache, sender, admin, notices, clock, left, lag>>

\* Bound: a query is over, and a request answered, within its tick.
Tick ==
    /\ clock < MaxTime
    /\ admin = "idle"
    /\ \A s \in Senders : sender[s].pc \notin {"query", "load"}
    /\ clock' = clock + 1
    /\ UNCHANGED <<wrong, setting, cache, sender, admin, notices, left, lag>>

Next ==
    \/ BeginScan \/ Event \/ ReadItems \/ CompareWithLast \/ Create
    \/ \E s \in Senders : Query(s) \/ Load(s) \/ Fail(s)
    \/ \E row \in Rows : UpdateSetting(row)
    \/ Invalidate
    \/ \E u \in Users : \/ MarkAllRead(u)
                        \/ \E i \in DOMAIN notices : MarkRead(u, {i})
    \/ \E i \in Items : Change(i)
    \/ Tick

Spec == Init /\ [][Next]_vars

-----------------------------------------------------------------------------
\* The types of the settings, the cache and the digests.
TypeOK ==
    /\ wrong \subseteq Items /\ setting \in Rows /\ admin \in {"idle", "invalidate"}
    /\ cache # NoCache => cache.row \in Rows /\ cache.at <= clock
    /\ \A i \in DOMAIN notices : notices[i].unread \subseteq Users

\* No digest tells the number the last one told while somebody has not read that.
\* (isDuplicateOfUnread: otherwise the unread only grow.)
DigestsTellNews == \A i \in DOMAIN notices : ~notices[i].again

\* A topic that was switched, or whose recipients were changed, is served as it was for
\* SETTINGS_TTL_MS at most, a read that overlaps the change included.
SettingsObeyedInTime == lag <= TTL

=============================================================================
