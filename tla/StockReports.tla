----------------------------- MODULE StockReports -----------------------------
(***************************************************************************)
(* What is read off the stock of one location: lists of it with the        *)
(* columns of the period (InventoryQueryService, InventoryNxtService), the *)
(* stock ledger (inventory.report.ts), the scan for goods to order and the *)
(* reconciliation; and the import of a stock count, the one that writes.   *)
(* They read levels, sums of movements and sales one after another, while  *)
(* documents are posted (InventoryLedger).                                 *)
(***************************************************************************)
EXTENDS Integers

CONSTANTS
    Variants,
    Documents,      \* what may be posted: changes of buckets, with the units sold by it
    Files,          \* stock counts to import: variants, and the numbers counted
    LowStock,       \* LOW_STOCK_THRESHOLD
    Ranges,         \* ranges asked for of the stock on hand
    MaxPosts        \* bound: documents posted and files imported

VARIABLES
    level,      \* inventory_levels
    book,       \* inventory_movements, in sums: see NoMoves
    sold,       \* order_items of the last 15 and of the last 30 days
    req,        \* the request under way
    told,       \* history: its answer, until something changes
    opened,     \* history: what was on hand when the period began
    lost,       \* history: units overwritten in a level without a movement
    posts

vars == <<level, book, sold, req, told, opened, lost, posts>>

\* The values of the constants, assumed by the module that instantiates this one.
ReportsAssumption ==
    /\ LowStock \in Nat /\ MaxPosts \in Nat
    /\ \A f \in Files : DOMAIN f \subseteq Variants /\ f \in [DOMAIN f -> Nat]
    /\ \A doc \in Documents : {doc.onHand, doc.committed, doc.incoming, doc.sold} \subseteq Int

Zeros == [onHand |-> 0, committed |-> 0, incoming |-> 0]
NoLevel == [onHand |-> -1, committed |-> 0, incoming |-> 0]

\* On hand before the period, and in and out of it; incoming by purchases, by transfers
\* and by adjustments; committed.
NoMoves == [old |-> 0, in |-> 0, out |-> 0, supply |-> 0, transfer |-> 0, adjusted |-> 0,
            committed |-> 0]
Idle == [pc |-> "idle"]
Nothing == [of |-> "nothing"]

Stocked == {v \in Variants : level[v] # NoLevel}
LevelOf(v) == IF level[v] = NoLevel THEN Zeros ELSE level[v]
Available(l) == l.onHand - l.committed

Init ==
    /\ level = [v \in Variants |-> NoLevel]
    /\ book = [v \in Variants |-> NoMoves]
    /\ sold = [v \in Variants |-> [last15 |-> 0, last30 |-> 0]]
    /\ req = Idle /\ told = Nothing
    /\ opened = [v \in Variants |-> 0]
    /\ lost = [v \in Variants |-> 0]
    /\ posts = 0

-----------------------------------------------------------------------------
(* What goes on beside the reports.                                        *)

\* Answers given are of before, and one that is drawn up is of two moments.
Disturb ==
    /\ told' = Nothing
    /\ req' = IF req = Idle THEN Idle ELSE [req EXCEPT !.alone = FALSE]

\* The sums with a movement of the stock on hand, or of what is incoming by its type.
OnHandMoved(b, change) ==
    IF change > 0 THEN [b EXCEPT !.in = @ + change] ELSE [b EXCEPT !.out = @ - change]

IncomingMoved(b, type, change) ==
    IF type \in {"incoming_po", "incoming_receipt", "incoming_cancel"}
    THEN [b EXCEPT !.supply = @ + change]
    ELSE IF type = "incoming_transfer" THEN [b EXCEPT !.transfer = @ + change]
    ELSE [b EXCEPT !.adjusted = @ + change]

\* A document of orders, purchasing, transfers or of Sapo's resync, with its movements.
Post(v, doc) ==
    LET l == LevelOf(v)
        new == [onHand |-> l.onHand + doc.onHand, committed |-> l.committed + doc.committed,
                incoming |-> l.incoming + doc.incoming]
    IN  /\ posts < MaxPosts
        /\ posts' = posts + 1
        /\ new.onHand >= 0 /\ new.committed >= 0 /\ new.incoming >= 0
        /\ level' = [level EXCEPT ![v] = new]
        /\ book' = [book EXCEPT ![v] =
                      IncomingMoved(OnHandMoved([book[v] EXCEPT !.committed = @ + doc.committed],
                                                doc.onHand), doc.type, doc.incoming)]
        /\ sold' = [sold EXCEPT ![v] = [last15 |-> @.last15 + doc.sold,
                                        last30 |-> @.last30 + doc.sold]]
        /\ Disturb
        /\ UNCHANGED <<opened, lost>>

\* A movement that Sapo's resync overwrites in the level (SapoResync).
Lose(v) ==
    /\ posts < MaxPosts
    /\ posts' = posts + 1
    /\ level[v].onHand > 0
    /\ level' = [level EXCEPT ![v].onHand = @ - 1]
    /\ lost' = [lost EXCEPT ![v] = @ + 1]
    /\ Disturb
    /\ UNCHANGED <<book, sold, opened>>

NewMonth ==
    /\ book' = [v \in Variants |-> [book[v] EXCEPT !.old = @ + book[v].in - book[v].out,
                                                   !.in = 0, !.out = 0]]
    /\ opened' = [v \in Variants |-> LevelOf(v).onHand]
    /\ Disturb
    /\ UNCHANGED <<level, sold, lost, posts>>

Fortnight ==
    /\ sold' = [v \in Variants |-> [last15 |-> 0, last30 |-> sold[v].last15]]
    /\ Disturb
    /\ UNCHANGED <<level, book, opened, lost, posts>>

-----------------------------------------------------------------------------
(* Lists of the stock.                                                     *)

Queries == [low : BOOLEAN, status : {"any", "in_stock", "out_of_stock", "negative"},
            range : Ranges]

InRange(range, n) == range.gte <= n /\ n <= range.lte

StatusFits(status, available) ==
    \/ status = "any"
    \/ status = "in_stock" /\ available > 0
    \/ status = "out_of_stock" /\ available <= 0
    \/ status = "negative" /\ available < 0

\* buildLevelWhere: a status takes the place of low_stock
LevelWhere(q, v) ==
    /\ v \in Stocked
    /\ IF q.status = "any" THEN q.low => Available(level[v]) <= LowStock
       ELSE StatusFits(q.status, Available(level[v]))
    /\ InRange(q.range, level[v].onHand)

\* buildVariantWhere: of every variant, the one without a level included
VariantWhere(q, v) ==
    /\ q.low => v \notin Stocked \/ Available(level[v]) <= LowStock
    /\ CASE q.status = "any" -> TRUE
         [] q.status = "out_of_stock" -> v \notin Stocked \/ Available(level[v]) <= 0
         [] OTHER -> v \in Stocked /\ StatusFits(q.status, Available(level[v]))
    /\ \/ v \in Stocked /\ InRange(q.range, level[v].onHand)
       \/ v \notin Stocked /\ InRange(q.range, 0)

Ask(work) ==
    /\ req = Idle
    /\ req' = work
    /\ told' = Nothing
    /\ UNCHANGED <<level, book, sold, opened, lost, posts>>

\* listByWarehouse: what fits (and its order), then the rows ...
ListCatalogue(q) ==
    Ask([pc |-> "rows", alone |-> TRUE, ids |-> {v \in Variants : VariantWhere(q, v)}])

ReadRows ==
    /\ req.pc = "rows"
    /\ req' = [pc |-> "extras", alone |-> req.alone, rows |-> [v \in req.ids |-> LevelOf(v)]]
    /\ UNCHANGED <<level, book, sold, told, opened, lost, posts>>

\* ... listExistingLevels: the rows at once; or those the scan for low stock looks at.
ListLevels(q) ==
    LET ids == {v \in Variants : LevelWhere(q, v)}
    IN Ask([pc |-> "extras", alone |-> TRUE, rows |-> [v \in ids |-> level[v]]])

ScanLowStock ==
    LET ids == {v \in Stocked : level[v].onHand > 0 \/ level[v].committed > 0}
    IN Ask([pc |-> "extras", alone |-> TRUE, rows |-> [v \in ids |-> level[v]]])

\* Three times dm_ton_min_15: thirds of units
MinStock3(s) == IF s.last15 + s.last30 < 15 THEN 0 ELSE s.last15 + s.last30

\* can_nhap_15
Need(s, l, onTheWay) ==
    LET raw3 == MinStock3(s) - 3 * (l.onHand + onTheWay - l.committed)
    IN IF raw3 < 6 THEN 0 ELSE (2 * raw3 + 3) \div 6

\* Mutant: only what has come in is taken off the level.
OpeningBeforeSales(l, b) == l.onHand - b.in

\* ton_dau_ky
Opening(l, b) == l.onHand - (b.in - b.out)

\* enrich
Enrich ==
    /\ req.pc = "extras"
    /\ told' = IF ~req.alone THEN Nothing
               ELSE [of |-> "list",
                     rows |-> [v \in DOMAIN req.rows |->
                        LET b == book[v] IN
                        [opening |-> Opening(req.rows[v], b), closing |-> req.rows[v].onHand,
                         onTheWay |-> b.supply + b.transfer,
                         need |-> Need(sold[v], req.rows[v], b.supply + b.transfer)]]]
    /\ req' = Idle
    /\ UNCHANGED <<level, book, sold, opened, lost, posts>>

\* runLedger: the period from the movements alone, of variants that have any
RunLedger ==
    /\ req = Idle
    /\ LET ids == {v \in Variants : book[v].old # 0 \/ book[v].in # book[v].out}
       IN told' = [of |-> "ledger",
                   rows |-> [v \in ids |->
                        [opening |-> book[v].old,
                         closing |-> book[v].old + book[v].in - book[v].out]]]
    /\ UNCHANGED <<level, book, sold, req, opened, lost, posts>>

-----------------------------------------------------------------------------
(* The reconciliation and the import.                                      *)

\* runFullReconcile: the levels, then the sums.
Reconcile == Ask([pc |-> "sums", alone |-> TRUE, rows |-> [v \in Stocked |-> level[v]]])

Mismatch(l, b) ==
    \/ l.onHand # b.old + b.in - b.out
    \/ l.committed # b.committed
    \/ l.incoming # b.supply + b.transfer + b.adjusted

CompareSums ==
    /\ req.pc = "sums"
    /\ told' = IF ~req.alone THEN Nothing
               ELSE [of |-> "mismatches",
                     ids |-> {v \in DOMAIN req.rows : Mismatch(req.rows[v], book[v])}]
    /\ req' = Idle
    /\ UNCHANGED <<level, book, sold, opened, lost, posts>>

\* importExcel, the rows of known variants that hold a number ...
Import(f) ==
    /\ req = Idle /\ posts < MaxPosts
    /\ posts' = posts + 1
    /\ req' = [pc |-> "import", alone |-> TRUE, file |-> f, left |-> DOMAIN f]
    /\ told' = Nothing
    /\ UNCHANGED <<level, book, sold, opened, lost>>

\* ... one by one through adjustOnHandTo, which locks the row and finds the change.
ImportRow(v) ==
    LET change == req.file[v] - LevelOf(v).onHand
    IN  /\ req.pc = "import" /\ v \in req.left
        /\ req' = [req EXCEPT !.left = @ \ {v}]
        /\ level' = [level EXCEPT ![v] = [LevelOf(v) EXCEPT !.onHand = req.file[v]]]
        /\ book' = [book EXCEPT ![v] = OnHandMoved(@, change)]
        /\ UNCHANGED <<sold, told, opened, lost, posts>>

\* A row that is refused is told of, and the others go on.
RefuseRow(v) ==
    /\ req.pc = "import" /\ v \in req.left
    /\ req' = [req EXCEPT !.left = @ \ {v}, !.file = [i \in DOMAIN @ \ {v} |-> @[i]]]
    /\ UNCHANGED <<level, book, sold, told, opened, lost, posts>>

EndImport ==
    /\ req.pc = "import" /\ req.left = {}
    /\ told' = IF req.alone THEN [of |-> "import", file |-> req.file] ELSE Nothing
    /\ req' = Idle
    /\ UNCHANGED <<level, book, sold, opened, lost, posts>>

Next ==
    \/ \E v \in Variants : \/ \E doc \in Documents : Post(v, doc)
                           \/ Lose(v) \/ ImportRow(v) \/ RefuseRow(v)
    \/ NewMonth \/ Fortnight
    \/ \E q \in Queries : ListCatalogue(q) \/ ListLevels(q)
    \/ ReadRows \/ ScanLowStock \/ Enrich \/ RunLedger
    \/ Reconcile \/ CompareSums \/ EndImport
    \/ \E f \in Files : Import(f)

Spec == Init /\ [][Next]_vars

-----------------------------------------------------------------------------
\* The types of levels; the sums are those of units that went in and out.
TypeOK ==
    /\ \A v \in Stocked : level[v] \in [DOMAIN Zeros -> Nat]
    /\ \A v \in Variants : book[v].in >= 0 /\ book[v].out >= 0

\* Both ways to the opening balance, from the level back and from the movements up, tell
\* what was there, and what is on its way is what was announced, unless a resync has
\* lost a movement or adjusted the announcements.
BalancesTrue ==
    told.of \in {"list", "ledger"} => \A v \in DOMAIN told.rows :
        /\ lost[v] = 0 => /\ told.rows[v].opening = opened[v]
                          /\ told.rows[v].closing = LevelOf(v).onHand
        /\ told.of = "list" /\ book[v].adjusted = 0 =>
                told.rows[v].onTheWay = LevelOf(v).incoming

\* A reconciliation that nothing overlaps names the variants whose movements were lost.
MismatchesTrue ==
    told.of = "mismatches" => told.ids = {v \in Stocked : lost[v] # 0}

\* An import that nothing overlaps leaves what was counted, the rows excepted it refused.
ImportsHold ==
    told.of = "import" => \A v \in DOMAIN told.file : LevelOf(v).onHand = told.file[v]

\* A query finds the same rows on both branches, unless it asks for low stock and a
\* status; and a variant never stocked where one with nothing left would be found.
BranchesAgree ==
    \A q \in Queries, v \in Variants :
        /\ v \in Stocked /\ ~(q.low /\ q.status # "any") =>
                (LevelWhere(q, v) <=> VariantWhere(q, v))
        /\ v \notin Stocked =>
                (VariantWhere(q, v) <=> /\ StatusFits(q.status, 0)
                                        /\ InRange(q.range, 0))
=============================================================================
