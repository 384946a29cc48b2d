------------------------------ MODULE OrderIntake ------------------------------
(***************************************************************************)
(* SapoOrderSyncService: run by hand, by several people at once if they    *)
(* like, it copies the orders Sapo lists since a while before the newest   *)
(* copy, and never touches an order that has been copied.                  *)
(***************************************************************************)
EXTENDS Integers, FiniteSetsExt

CONSTANTS
    MaxOrder,   \* bound: Sapo's orders 1..MaxOrder, numbered by the time of creation
    Window,     \* OVERLAP_MINUTES, in those units
    MayBeOpen,  \* bound: orders that may be open when they show up
    Unknown,    \* orders whose variants are not in our catalogue at first
    Lag,        \* external: how much later than others an order may show up
    PageSize, MaxPages,
    Passes,     \* runs of the Sapo synchronisation that may overlap
    Explicit,   \* bound: starting points given by hand
    MaxCount    \* bound: how often an unknown line is counted

\* The values of the constants, assumed by the module that instantiates this one.
IntakeAssumption ==
    /\ {MaxOrder, Window, Lag, PageSize, MaxPages, MaxCount} \subseteq Nat
    /\ Lag <= Window /\ PageSize > 0
    /\ Explicit \union MayBeOpen \union Unknown \subseteq 1..MaxOrder

Orders == 1..MaxOrder

VARIABLES
    remote,     \* Sapo's orders
    known,      \* orders whose variants are in our catalogue
    copy,       \* our orders by sapo_id
    pass,       \* the runs of the synchronisation
    counted,    \* channel_sku_gaps: how often each order's line is in it
    passedBy    \* history: orders a run could not or was not to copy

vars == <<remote, known, copy, pass, counted, passedBy>>

Idle == [pc |-> "idle"]
NoCopy == [st |-> "none", reserved |-> FALSE]

Listed == {o \in Orders : remote[o] # "hidden"}
Copied == {o \in Orders : copy[o].st # "none"}
\* The newest of a set of orders; 0 stands for a time before all of them.
Newest(S) == Max(S \union {0})

Init ==
    /\ remote = [o \in Orders |-> "hidden"]
    /\ known = Orders \ Unknown
    /\ copy = [o \in Orders |-> NoCopy]
    /\ pass = [p \in Passes |-> Idle]
    /\ counted = [o \in Orders |-> 0]
    /\ passedBy = {}

-----------------------------------------------------------------------------
(* Sapo, and our catalogue.                                                *)

\* An order shows up, a while after orders that were placed later.
Appear(o) ==
    /\ remote[o] = "hidden" /\ o >= Newest(Listed) - Lag
    /\ \A older \in Orders : older < o - Lag => older \in Listed
    /\ \E st \in {"open", "fulfilled"} :
          /\ st = "open" => o \in MayBeOpen
          /\ remote' = [remote EXCEPT ![o] = st]
    /\ UNCHANGED <<known, copy, pass, counted, passedBy>>

\* Its goods go out at Sapo.
Fulfil(o) ==
    /\ remote[o] = "open"
    /\ remote' = [remote EXCEPT ![o] = "fulfilled"]
    /\ UNCHANGED <<known, copy, pass, counted, passedBy>>

\* The product synchronisation brings an order's variants.
Learn(o) ==
    /\ o \notin known
    /\ known' = known \union {o}
    /\ UNCHANGED <<remote, copy, pass, counted, passedBy>>

-----------------------------------------------------------------------------
(* A run of the synchronisation.                                           *)

\* Mutant: no overlap with what is there.
SinceNewest == Newest(Copied)

\* resolveSince; the cold start reaches back before all orders (bound).
Since == Newest(Copied) - Window

Begin(p, since) ==
    /\ pass[p] = Idle
    /\ pass' = [pass EXCEPT ![p] =
         [pc |-> "list", since |-> since, page |-> 1, work |-> {}, gaps |-> {}]]
    /\ UNCHANGED <<remote, known, copy, counted>>

BeginResolved(p) == Begin(p, Since) /\ UNCHANGED passedBy

\* A starting point given by hand may lie after orders not yet copied.
BeginExplicit(p, since) ==
    /\ Begin(p, since)
    /\ passedBy' = passedBy \union {o \in Orders : o < since}

\* Sapo lists the newest first: so many orders come before this one.
Newer(o) == Cardinality({n \in Listed : n > o})

\* The orders from the n-th page on, and those of that page.
From(since, n) == {o \in Listed : o >= since /\ Newer(o) >= (n - 1) * PageSize}
Page(since, n) == {o \in From(since, n) : Newer(o) < n * PageSize}

\* The next page, and which of its orders are there already or have a line that is
\* known, looked up together; the others' lines are gaps.
ReadPage(p) ==
    LET r == pass[p]
        orders == Page(r.since, r.page)
        fresh == orders \ Copied
    IN  /\ r.pc = "list"
        /\ IF orders = {}
           THEN pass' = [pass EXCEPT ![p].pc = "record"] /\ UNCHANGED passedBy
           ELSE /\ pass' = [pass EXCEPT
                        ![p].pc = "copy",
                        ![p].work = {[o |-> o, st |-> remote[o]] : o \in fresh \intersect known},
                        ![p].gaps = @ \union (fresh \ known),
                        ![p].page =
                            IF Cardinality(orders) < PageSize \/ r.page = MaxPages
                            THEN 0 ELSE @ + 1]
                \* What is beyond the last page allowed is not read.
                /\ passedBy' = passedBy \union (fresh \ known) \union
                    (IF r.page = MaxPages THEN From(r.since, MaxPages + 1) ELSE {})
        /\ UNCHANGED <<remote, known, copy, counted>>

\* Whose turn it is: the newest of what is left of the page.
Turn(p) ==
    IF pass[p].pc # "copy" THEN {}
    ELSE {w \in pass[p].work : \A v \in pass[p].work : v.o <= w.o}

\* The first of the page's orders: one transaction, which takes its stock if the order
\* was open when it was read; sapo_id refuses a second copy.
CopyOrder(p, w) ==
    /\ w.o \notin Copied
    /\ copy' = [copy EXCEPT ![w.o] = [st |-> w.st, reserved |-> w.st = "open"]]
    /\ pass' = [pass EXCEPT ![p].work = @ \ {w}]
    /\ UNCHANGED <<remote, known, counted, passedBy>>

\* A transaction that fails is logged; the run goes on with the next order.
SkipOrder(p, w) ==
    /\ pass' = [pass EXCEPT ![p].work = @ \ {w}]
    /\ passedBy' = passedBy \union {w.o}
    /\ UNCHANGED <<remote, known, copy, counted>>

NextPage(p) ==
    /\ pass[p].pc = "copy" /\ pass[p].work = {}
    /\ pass' = [pass EXCEPT ![p].pc = IF pass[p].page = 0 THEN "record" ELSE "list"]
    /\ UNCHANGED <<remote, known, copy, counted, passedBy>>

\* recordSkuGaps adds what the run has seen, and the run is over.
RecordSkuGaps(p) ==
    /\ pass[p].pc = "record"
    /\ \A o \in pass[p].gaps : counted[o] < MaxCount
    /\ counted' = [o \in Orders |-> counted[o] + (IF o \in pass[p].gaps THEN 1 ELSE 0)]
    /\ pass' = [pass EXCEPT ![p] = Idle]
    /\ UNCHANGED <<remote, known, copy, passedBy>>

\* What the run has not yet come to.
Ahead(p) ==
    LET r == pass[p]
    IN  IF r.pc \notin {"list", "copy"} THEN {}
        ELSE {w.o : w \in r.work} \union
             (IF r.page = 0 THEN {} ELSE From(r.since, r.page))

\* Sapo does not answer, or the process dies.
BreakOff(p) ==
    /\ pass[p] # Idle
    /\ passedBy' = passedBy \union Ahead(p)
    /\ pass' = [pass EXCEPT ![p] = Idle]
    /\ UNCHANGED <<remote, known, copy, counted>>

Next ==
    \/ \E o \in Orders : Appear(o) \/ Fulfil(o) \/ Learn(o)
    \/ \E p \in Passes :
        \/ BeginResolved(p) \/ \E since \in Explicit : BeginExplicit(p, since)
        \/ ReadPage(p)
        \/ \E w \in Turn(p) : CopyOrder(p, w) \/ SkipOrder(p, w)
        \/ NextPage(p) \/ RecordSkuGaps(p) \/ BreakOff(p)

Spec == Init /\ [][Next]_vars

-----------------------------------------------------------------------------
\* The types of the orders, the runs and the file; a copy that holds stock is open.
TypeOK ==
    /\ \A o \in Orders : /\ remote[o] \in {"hidden", "open", "fulfilled"}
                         /\ copy[o].st \in {"none", "open", "fulfilled"}
                         /\ copy[o].reserved <=> copy[o].st = "open"
    /\ Copied \subseteq Listed \intersect known
    /\ \A p \in Passes : pass[p].pc \in {"idle", "list", "copy", "record"}

\* A run looks for orders from a while before the newest copy on, and every copy moves
\* that point: still an order listed at Sapo, copied by nobody, is within reach of the
\* next run or ahead of one under way, however late it showed up and however many runs
\* overlap; orders that a run failed at, broke off before, did not know the variants
\* of or was told to leave out aside.
NothingFallsBehind ==
    \A o \in Listed \ (Copied \union passedBy) :
        o >= Since \/ \E p \in Passes : o \in Ahead(p)

\* The comment of recordSkuGaps: a run sees only orders that were never in the database,
\* so that adding up is right; that is, each order's lines are counted once.
GapsCountedOnce == \A o \in Orders : counted[o] <= 1
=============================================================================
