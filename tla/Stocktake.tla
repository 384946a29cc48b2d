------------------------------- MODULE Stocktake -------------------------------
(***************************************************************************)
(* StocktakeService at one warehouse: a sheet lists variants with the stock *)
(* the system showed and the number counted; balancing posts, in one       *)
(* transaction, an adjustment per counted line, and locks the levels one   *)
(* after the other in the order of sortForLocking.  Handlers check the     *)
(* sheet's status before their transaction and not again.  Orders and      *)
(* receipts move the same stock meanwhile.                                 *)
(***************************************************************************)
EXTENDS StockPosting, FiniteSetsExt

CONSTANTS
    Variants,       \* ids, natural numbers
    Sheets, Reqs,
    MaxStock,       \* bound: units others put on a shelf, and counted units
    Overlaps,       \* "none": one request at a time; "all": freely
    OpeningLevels

\* The values of the constants, assumed by the module that instantiates this one.
StocktakeAssumption ==
    /\ Variants \subseteq Nat /\ MaxStock \in Nat
    /\ Overlaps \subseteq {"none", "all"}
    /\ OpeningLevels \in [Variants -> Level]
    /\ \A v \in Variants : OpeningLevels[v]["on_hand"] \in Nat

VARIABLES
    sheet,      \* stocktakes and their items
    levels,     \* inventory levels of the warehouse
    posted,     \* adjustments in inventory_movements, by sheet and variant
    req,
    overlap

vars == <<sheet, levels, posted, req, overlap>>

NotCounted == -1
Counts == {NotCounted} \union 0..MaxStock

NoSheet == [status |-> "none", items |-> << >>, diff |-> 0, lines |-> 0]
NoReq == [pc |-> "idle"]

Active(q) == req[q].pc # "idle"
MayStart(q) == ~Active(q) /\ (overlap = "none" => \A p \in Reqs : ~Active(p))
NoAdjustment == [v \in Variants |-> 0]

Init ==
    /\ sheet = [s \in Sheets |-> NoSheet]
    /\ levels = OpeningLevels
    /\ posted = [s \in Sheets |-> NoAdjustment]
    /\ req = [q \in Reqs |-> NoReq]
    /\ overlap \in Overlaps

\* normalizeItems, snapshotSystemQuantities and the upserts: new lines take the
\* stock of this moment, old ones keep theirs.
Items(old, counted) ==
    [v \in DOMAIN counted |->
        [system |-> IF v \in DOMAIN old THEN old[v].system ELSE levels[v]["on_hand"],
         counted |-> counted[v]]]

Editable(s) == sheet[s].status = "checking"

Create(s) ==
    /\ sheet[s].status = "none"
    /\ \E V \in SUBSET Variants \ {{}} : \E counted \in [V -> Counts] :
          sheet' = [sheet EXCEPT ![s] = [NoSheet EXCEPT !.status = "checking",
                                             !.items = Items(<< >>, counted)]]
    /\ UNCHANGED <<levels, posted, req, overlap>>

\* update, balance and cancel read the sheet and refuse one that has ended.
Read(q, s) ==
    /\ MayStart(q) /\ Editable(s)
    /\ \/ \E V \in SUBSET Variants : \E counted \in [V -> Counts] :
             req' = [req EXCEPT ![q] = [pc |-> "read", op |-> "update", s |-> s,
                                        counted |-> counted, work |-> << >>,
                                        next |-> {}, diff |-> 0, lines |-> 0]]
       \/ req' = [req EXCEPT ![q] = [pc |-> "read", op |-> "cancel", s |-> s,
                                     counted |-> << >>, work |-> << >>,
                                     next |-> {}, diff |-> 0, lines |-> 0]]
       \/ LET counted == {v \in DOMAIN sheet[s].items :
                              sheet[s].items[v].counted # NotCounted}
          IN  /\ counted # {}
              /\ req' = [req EXCEPT ![q] =
                    [pc |-> "read", op |-> "balance", s |-> s,
                     counted |-> [v \in counted |-> sheet[s].items[v].counted],
                     work |-> << >>, next |-> counted, diff |-> 0, lines |-> 0]]
    /\ UNCHANGED <<sheet, levels, posted, overlap>>

Done(q) == req' = [req EXCEPT ![q] = NoReq]
At(q, op) == req[q].pc = "read" /\ req[q].op = op

Update(q) ==
    LET r == req[q]
    IN  /\ At(q, "update")
        /\ sheet' = [sheet EXCEPT ![r.s].items = Items(@, r.counted)]
        /\ Done(q)
        /\ UNCHANGED <<levels, posted, overlap>>

Cancel(q) ==
    /\ At(q, "cancel")
    /\ sheet' = [sheet EXCEPT ![req[q].s].status = "cancelled"]
    /\ Done(q)
    /\ UNCHANGED <<levels, posted, overlap>>

-----------------------------------------------------------------------------
(* balance: `work' holds the levels the transaction has locked and set.    *)

Locked(v) == \E q \in Reqs : Active(q) /\ v \in DOMAIN req[q].work

\* The line whose turn it is, in the order of sortForLocking.
Turn(q) == {v \in req[q].next : \A w \in req[q].next : v <= w}

\* The difference to be recorded is read without a lock.
Peek(q, v) ==
    LET r == req[q]
        diff == r.counted[v] - levels[v]["on_hand"]
    IN  /\ At(q, "balance")
        /\ req' = [req EXCEPT ![q] = [r EXCEPT
              !.pc = "adjust", !.diff = r.diff + diff,
              !.lines = IF diff = 0 THEN r.lines ELSE r.lines + 1]]
        /\ UNCHANGED <<sheet, levels, posted, overlap>>

Adjustment(v, n) == [kind |-> "set", target |-> n]

\* adjustOnHandTo locks the level and computes its own difference; less than
\* what orders hold is refused, and the whole sheet with it.
Adjust(q, v) ==
    LET r == req[q]
        line == Adjustment(v, r.counted[v])
    IN  /\ r.pc = "adjust" /\ ~Locked(v)
        /\ LinePasses(levels[v], line)
        /\ req' = [req EXCEPT
              ![q].pc = "read", ![q].next = @ \ {v},
              ![q].work = [w \in DOMAIN @ \union {v} |->
                             IF w = v THEN AfterLine(levels[v], line) ELSE @[w]]]
        /\ UNCHANGED <<sheet, levels, posted, overlap>>

\* The sheet is marked and everything becomes visible at once.
Balanced(q) ==
    LET r == req[q]
        set == DOMAIN r.work
    IN  /\ At(q, "balance") /\ r.next = {}
        /\ levels' = [v \in Variants |-> IF v \in set THEN r.work[v] ELSE levels[v]]
        /\ posted' = [posted EXCEPT ![r.s] = [v \in Variants |->
                         IF v \in set THEN @[v] + r.work[v]["on_hand"] - levels[v]["on_hand"]
                         ELSE @[v]]]
        /\ sheet' = [sheet EXCEPT ![r.s].status = "balanced", ![r.s].diff = r.diff,
                                  ![r.s].lines = r.lines]
        /\ Done(q)
        /\ UNCHANGED overlap

\* Mutant: what has been adjusted stays when a later line is refused.
FailHalfway(q) ==
    LET set == DOMAIN req[q].work
    IN  /\ Active(q)
        /\ levels' = [v \in Variants |-> IF v \in set THEN req[q].work[v] ELSE levels[v]]
        /\ posted' = [posted EXCEPT ![req[q].s] = [v \in Variants |->
              IF v \in set THEN @[v] + req[q].work[v]["on_hand"] - levels[v]["on_hand"]
              ELSE @[v]]]
        /\ Done(q)
        /\ UNCHANGED <<sheet, overlap>>

\* A line is refused, the transaction times out, the user is turned away.
Fail(q) ==
    /\ Active(q)
    /\ Done(q)
    /\ UNCHANGED <<sheet, levels, posted, overlap>>

\* Other documents of the warehouse, none of them on a locked level.
Others(v) ==
    /\ ~Locked(v)
    /\ \E m \in {Entry("on_hand", 1, "receipt"), Entry("on_hand", -1, "transfer_out"),
                 Entry("committed", 1, "order_reserve"),
                 Entry("committed", -1, "order_release")} :
          /\ ~Refused(levels[v], m)
          /\ Moved(levels[v], m)[m.bucket] \in 0..MaxStock
          /\ levels' = [levels EXCEPT ![v] = Moved(@, m)]
    /\ UNCHANGED <<sheet, posted, req, overlap>>

Next ==
    \/ \E s \in Sheets : Create(s)
    \/ \E q \in Reqs, s \in Sheets : Read(q, s)
    \/ \E q \in Reqs :
        \/ Update(q) \/ Cancel(q) \/ Balanced(q) \/ Fail(q)
        \/ Active(q) /\ \E v \in Turn(q) : Peek(q, v) \/ Adjust(q, v)
    \/ \E v \in Variants : Others(v)

Spec == Init /\ [][Next]_vars

-----------------------------------------------------------------------------
\* The types of the sheets, the stock and the requests.
TypeOK ==
    /\ \A s \in Sheets :
          /\ sheet[s].status \in {"none", "checking", "balanced", "cancelled"}
          /\ DOMAIN sheet[s].items \subseteq Variants
          /\ \A v \in DOMAIN sheet[s].items :
                /\ sheet[s].items[v].counted \in Counts
                /\ sheet[s].items[v].system \in Nat
          /\ sheet[s].diff \in Int /\ sheet[s].lines \in Nat
    /\ levels \in [Variants -> Level]
    /\ posted \in [Sheets -> [Variants -> Int]]
    /\ overlap \in Overlaps

\* "Half a sheet balanced" never happens (comment of balance), and the sheet
\* and the stock do not "tell two stories" (comment of assertEditable): one
\* request at a time, adjustments belong to balanced sheets and to their
\* counted lines alone.
SheetTellsTheStock ==
    overlap = "none" =>
        \A s \in Sheets, v \in Variants :
            posted[s][v] # 0 =>
                /\ sheet[s].status = "balanced"
                /\ v \in DOMAIN sheet[s].items /\ sheet[s].items[v].counted # NotCounted

\* The moment a sheet is balanced, every counted line's stock is the count,
\* whatever others did while it was being balanced.
BalanceSetsTheCount ==
    [][\A q \in Reqs : At(q, "balance") /\ ~Active(q)' /\ levels' # levels =>
          \A v \in DOMAIN req[q].counted :
              levels'[v]["on_hand"] = req[q].counted[v]]_vars

\* A count never leaves fewer units on the shelf than orders hold of it when
\* it lowers the stock: such a line is refused, with the whole sheet.
CountsRespectOrders ==
    [][\A v \in Variants :
          posted' # posted /\ levels'[v]["on_hand"] < levels[v]["on_hand"] =>
              ComputeAvailable(levels'[v]) >= 0]_vars
=============================================================================
