------------------------------ MODULE Sessions ------------------------------
(***************************************************************************)
(* TokenService and AuthCacheService: a login starts a family of refresh   *)
(* tokens, each of which is exchanged for the next one; the tabs of a      *)
(* browser share one cookie and exchange its token at the same time; a     *)
(* token that comes back long after its exchange ends the family.  What a  *)
(* request may do is kept for a while under the key of its family or, with *)
(* an API key, of the user it acts for, with an index by user so that a    *)
(* change of rights reaches all of them.                                   *)
(***************************************************************************)
EXTENDS Integers, FiniteSets, Sequences

CONSTANTS
    Families,       \* sessions
    ApiKeys,        \* at most one of a user
    UserOf,         \* whose session or key it is
    Tabs,
    MaxTokens,      \* bound: tokens of a family
    MaxEntries,     \* MAX_ENTRIES
    Losses          \* whether answers may be lost in this run's behaviours

\* The values of the constants, assumed by the module that instantiates this one.
SessionAssumption ==
    /\ MaxTokens \in Nat \ {0} /\ MaxEntries \in Nat \ {0}
    /\ Losses \subseteq BOOLEAN

CacheKeys == Families \union ApiKeys
Owners == {UserOf[f] : f \in CacheKeys}

VARIABLES
    losses,
    row,        \* refresh_tokens of a family, in the order they were issued
    cookie,     \* the token the browser holds, 0: none
    tab,        \* requests to exchange it
    locked,     \* users whose account is off
    out,        \* families that were logged out, or locked out; keys revoked
    cache,      \* AuthCacheService.cache: the keys
    earlier,    \* pairs of them: the first was put there earlier
    old,        \* entries whose time is over
    byUser      \* AuthCacheService.byUser

tokens == <<row, cookie, tab, locked, out>>
entries == <<cache, earlier, old, byUser>>
vars == <<losses, tokens, entries>>

Idle == [pc |-> "idle"]
New == [used |-> "no", revoked |-> FALSE]

Init ==
    /\ losses \in Losses
    /\ row = [f \in Families |-> << >>]
    /\ cookie = [f \in Families |-> 0]
    /\ tab = [f \in Families |-> [t \in Tabs |-> Idle]]
    /\ locked = {} /\ out = {}
    /\ cache = {} /\ earlier = {} /\ old = {}
    /\ byUser = [u \in Owners |-> {}]

-----------------------------------------------------------------------------
(* AuthCacheService.                                                       *)

Oldest == CHOOSE f \in cache : \A g \in cache \ {f} : <<f, g>> \in earlier
Among(keys) == earlier \intersect (keys \X keys)
Unindexed(index, keys) == [u \in Owners |-> index[u] \ keys]

\* Mutant: entries whose time is not over stay.
EvictedOld ==
    IF Cardinality(cache) < MaxEntries THEN {} ELSE cache \intersect old

\* What evictIfFull drops: the entries whose time is over and, if that is not
\* enough, the oldest one.
Evicted ==
    IF Cardinality(cache) < MaxEntries THEN {}
    ELSE IF cache \intersect old # {} THEN cache \intersect old
    ELSE {Oldest}

\* set: room is made before the user's keys are looked up.
KeysAfterSet(f) == [Unindexed(byUser, Evicted) EXCEPT ![UserOf[f]] = @ \union {f}]

Drop(keys) ==
    /\ cache' = cache \ keys /\ earlier' = Among(cache \ keys)
    /\ byUser' = Unindexed(byUser, keys)
    /\ old' = old \ keys

\* invalidateUser: the keys the index has.
InvalidateUser(u) ==
    /\ cache' = cache \ byUser[u] /\ earlier' = Among(cache \ byUser[u])
    /\ byUser' = [byUser EXCEPT ![u] = {}]
    /\ old' = old \ byUser[u]

-----------------------------------------------------------------------------
(* TokenService.                                                           *)

Alive(f) == \E i \in DOMAIN row[f] : ~row[f][i].revoked

\* issueForLogin
Login(f) ==
    /\ row[f] = << >> /\ f \notin out /\ UserOf[f] \notin locked
    /\ row' = [row EXCEPT ![f] = <<New>>]
    /\ cookie' = [cookie EXCEPT ![f] = 1]
    /\ UNCHANGED <<losses, tab, locked, out, entries>>

\* A tab sends the token; the row is read.
Send(f, t) ==
    /\ tab[f][t].pc = "idle" /\ cookie[f] # 0
    /\ tab' = [tab EXCEPT ![f][t] = [pc |-> "rotate", token |-> cookie[f]]]
    /\ UNCHANGED <<losses, row, cookie, locked, out, entries>>

RevokedRows(f) == [i \in DOMAIN row[f] |-> [row[f][i] EXCEPT !.revoked = TRUE]]

\* revokeFamily
Revoke(f) ==
    /\ row' = [row EXCEPT ![f] = RevokedRows(f)]
    /\ Drop({f})

\* Mutant: without REUSE_GRACE_MS.
ReusedAtAll(r) == r.used # "no"

\* rotate refuses: the token is revoked, was exchanged long ago, or the account
\* is off.
ReusedTooLate(r) == r.used = "past"

Refuse(f, t) ==
    LET r == row[f][tab[f][t].token] IN
    /\ tab[f][t].pc = "rotate"
    /\ r.revoked \/ ReusedTooLate(r) \/ UserOf[f] \in locked
    /\ Revoke(f)
    /\ tab' = [tab EXCEPT ![f][t] = Idle]
    /\ UNCHANGED <<losses, cookie, locked, out>>

\* The token is marked as used, by the first of the tabs.
Use(f, t) ==
    LET r == row[f][tab[f][t].token] IN
    /\ tab[f][t].pc = "rotate"
    /\ ~r.revoked /\ ~ReusedTooLate(r) /\ UserOf[f] \notin locked
    /\ row' = [row EXCEPT ![f][tab[f][t].token].used = IF @ = "no" THEN "grace" ELSE @]
    /\ tab' = [tab EXCEPT ![f][t].pc = "issue"]
    /\ UNCHANGED <<losses, cookie, locked, out, entries>>

\* issuePair: a row, whatever has become of the family, and the cache forgets.
Issue(f, t) ==
    /\ tab[f][t].pc = "issue" /\ Len(row[f]) < MaxTokens
    /\ row' = [row EXCEPT ![f] = Append(@, New)]
    /\ tab' = [tab EXCEPT ![f][t] = [pc |-> "answer", token |-> Len(row[f]) + 1]]
    /\ Drop({f})
    /\ UNCHANGED <<losses, cookie, locked, out>>

Answer(f, t) ==
    /\ tab[f][t].pc = "answer"
    /\ \/ cookie' = [cookie EXCEPT ![f] = tab[f][t].token]
       \/ losses /\ UNCHANGED cookie
    /\ tab' = [tab EXCEPT ![f][t] = Idle]
    /\ UNCHANGED <<losses, row, locked, out, entries>>

\* REUSE_GRACE_MS pass since an exchange: longer than a request takes.
GraceEnds(f, i) ==
    /\ i \in DOMAIN row[f] /\ row[f][i].used = "grace"
    /\ \A t \in Tabs : tab[f][t].pc = "idle"
    /\ row' = [row EXCEPT ![f][i].used = "past"]
    /\ UNCHANGED <<losses, cookie, tab, locked, out, entries>>

Logout(f) ==
    /\ cookie[f] # 0
    /\ Revoke(f)
    /\ cookie' = [cookie EXCEPT ![f] = 0]
    /\ out' = out \union {f}
    /\ UNCHANGED <<losses, tab, locked>>

\* setStatus: the account is off and its sessions are forgotten.
Lock(u) ==
    /\ u \notin locked
    /\ locked' = locked \union {u}
    /\ out' = out \union {f \in CacheKeys : UserOf[f] = u}
    /\ InvalidateUser(u)
    /\ UNCHANGED <<losses, row, cookie, tab>>

\* ApiKeyService.revoke: the key, and all the cache has of its user.
RevokeKey(k) ==
    /\ k \notin out
    /\ out' = out \union {k}
    /\ InvalidateUser(UserOf[k])
    /\ UNCHANGED <<losses, row, cookie, tab, locked>>

\* Tokens that expired long ago are deleted (cleanupExpired); so is the family.
Cleanup(f) ==
    /\ row[f] # << >> /\ \A t \in Tabs : tab[f][t].pc = "idle"
    /\ row' = [row EXCEPT ![f] = << >>]
    /\ cookie' = [cookie EXCEPT ![f] = 0]
    /\ UNCHANGED <<losses, tab, locked, out, entries>>

\* resolveAuthUser, past the cache: what is read is put there.
Resolve(f) ==
    /\ f \notin cache \/ f \in old
    /\ IF f \in ApiKeys THEN f \notin out ELSE Alive(f)
    /\ UserOf[f] \notin locked
    /\ LET kept == cache \ (Evicted \union {f})
       IN  /\ cache' = kept \union {f}
           /\ earlier' = Among(kept) \union (kept \X {f})
           /\ old' = (old \ Evicted) \ {f}
    /\ byUser' = KeysAfterSet(f)
    /\ UNCHANGED <<losses, tokens>>

\* TTL_MS pass.
Age(f) ==
    /\ f \in cache \ old
    /\ old' = old \union {f}
    /\ UNCHANGED <<losses, tokens, cache, earlier, byUser>>

Next ==
    \/ \E f \in Families :
        \/ Login(f) \/ Logout(f) \/ Cleanup(f)
        \/ \E t \in Tabs : Send(f, t) \/ Refuse(f, t) \/ Use(f, t) \/ Issue(f, t) \/ Answer(f, t)
        \/ \E i \in 1..MaxTokens : GraceEnds(f, i)
    \/ \E f \in CacheKeys : Resolve(f) \/ Age(f)
    \/ \E k \in ApiKeys : RevokeKey(k)
    \/ \E u \in Owners : Lock(u)

Spec == Init /\ [][Next]_vars

-----------------------------------------------------------------------------
\* The types of tokens, requests and cache.
TypeOK ==
    /\ losses \in Losses
    /\ \A f \in Families :
         /\ row[f] \in UNION {[1..n -> [used : {"no", "grace", "past"}, revoked : BOOLEAN]]
                                : n \in 0..MaxTokens}
         /\ cookie[f] \in 0..MaxTokens
         /\ \A t \in Tabs : tab[f][t].pc \in {"idle", "rotate", "issue", "answer"}
    /\ out \subseteq CacheKeys /\ locked \subseteq Owners /\ old \subseteq cache
    /\ cache \subseteq CacheKeys /\ earlier \subseteq cache \X cache
    /\ Cardinality(cache) <= MaxEntries

\* The tabs of a browser that exchange one token at the same time, and get their
\* answers, never end their own session: a family that nobody logged out is alive.
TabsKeepSession ==
    \A f \in Families :
        ~losses /\ f \notin out /\ cookie[f] # 0 => ~row[f][cookie[f]].revoked

\* invalidateUser reaches every session and key of the user that is in the cache, however
\* entries came and were evicted.
IndexCoversCache ==
    \A f \in cache : f \in byUser[UserOf[f]]
=============================================================================
