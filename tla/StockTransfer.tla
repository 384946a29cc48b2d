---------------------------- MODULE StockTransfer ----------------------------
(***************************************************************************)
(* StockTransferService: a transfer is drafted, submitted (its quantities  *)
(* reserved at the sending warehouse), shipped and received, or cancelled  *)
(* on the way.  Every handler reads the document and checks its status     *)
(* before it opens its transaction, and the transaction neither locks nor  *)
(* reads the status again: it posts the document's movements, locking one  *)
(* row after the other, and then writes the new status.  Requests of       *)
(* several users run at once.  Transactions are atomic as AtomicLedger     *)
(* says; their row locks are kept here for the order they are taken in.    *)
(* Orders of the same variants hold and give back stock beside them.       *)
(***************************************************************************)
EXTENDS StockPosting, FiniteSets, Functions

CONSTANTS
    Variants, Locations,  \* database ids
    Transfers,            \* documents
    Contents,             \* what a document may say: warehouses and quantities
    Reqs,                 \* requests the server works on at once
    OpeningLevel,         \* the stock at the start
    MaxOrders,            \* bound: units of a row that orders hold at once
    Overlaps              \* whether requests work on one document at the same
                          \* time in this run's behaviours

Rows == Variants \X Locations

ASSUME OverlapsAssumption == Overlaps \subseteq BOOLEAN
ASSUME SetsAssumption ==
    /\ Variants \subseteq Nat /\ IsFiniteSet(Locations)
    /\ Transfers # {} /\ IsFiniteSet(Transfers)
ASSUME BoundAssumption == MaxOrders \in Nat
ASSUME OpeningAssumption == OpeningLevel \in [Rows -> [Buckets -> Nat]]

\* A content: the warehouses (from, to) and the quantity of each variant (qty).
ASSUME ContentsAssumption ==
    /\ Contents # {}
    /\ Contents \subseteq
          [from : Locations, to : Locations, qty : {d.qty : d \in Contents}]
    /\ \A c \in Contents :
          /\ c.from # c.to
          /\ DOMAIN c.qty \subseteq Variants
          /\ c.qty \in [DOMAIN c.qty -> Nat \ {0}]

Fields == {"from", "to", "qty"}

\* What edits may make of the contents, one field at a time.
EditedContents ==
    {c \in [from : Locations, to : Locations, qty : {d.qty : d \in Contents}] :
        c.from # c.to}

VARIABLES
    status,     \* of each document; "none" before create, "deleted" after
    content,    \* what it says now
    level,      \* inventory_levels
    ordered,    \* units of each row held by orders
    req,        \* what each request is doing
    overlap     \* whether somebody else may work on the document too

vars == <<status, content, level, ordered, req, overlap>>

AnyContent == CHOOSE c \in Contents : TRUE

Idle == [pc |-> "idle", op |-> "submit", x |-> CHOOSE x \in Transfers : TRUE,
         seen |-> AnyContent, sets |-> {}, left |-> {}, held |-> {}]

Ops == {"submit", "ship", "receive", "update",
        "cancel_draft", "cancel_pending", "cancel_transferring"}

\* What the handler's guard demands of the status it has read; cancel takes
\* its branch by that status.
StatusFor(op) ==
    CASE op \in {"submit", "update", "cancel_draft"} -> "draft"
      [] op \in {"ship", "cancel_pending"} -> "pending"
      [] op \in {"receive", "cancel_transferring"} -> "transferring"

-----------------------------------------------------------------------------
(* The movements of each operation on content c.                           *)

Lines(c, loc, entries(_)) ==
    [r \in (DOMAIN c.qty) \X {loc} |-> PostLine(entries(c.qty[r[1]]))]

\* One after the other, on the same row too (edits that overlap may leave a
\* draft with one warehouse).
Merge(d, e) ==
    LET at(f, r) == IF r \in DOMAIN f THEN f[r].moves ELSE << >>
    IN  [r \in DOMAIN d \union DOMAIN e |-> PostLine(at(d, r) \o at(e, r))]

SubmitLines(c) ==
    Lines(c, c.from, LAMBDA n : <<Entry("committed", n, "transfer_reserve")>>)

\* Mutant: the reservation is not given back.
ShipLinesKeepingReservation(c) ==
    Merge(Lines(c, c.from, LAMBDA n : <<Entry("on_hand", -n, "transfer_out")>>),
          Lines(c, c.to, LAMBDA n : <<Entry("incoming", n, "incoming_transfer")>>))

ShipLines(c) ==
    Merge(Lines(c, c.from, LAMBDA n : <<Entry("committed", -n, "transfer_release"),
                                        Entry("on_hand", -n, "transfer_out")>>),
          Lines(c, c.to, LAMBDA n : <<Entry("incoming", n, "incoming_transfer")>>))

\* Mutant: the goods are put away, the announcement stays.
ReceiveLinesOnHandOnly(c) ==
    Lines(c, c.to, LAMBDA n : <<Entry("on_hand", n, "transfer_in")>>)

ReceiveLines(c) ==
    Lines(c, c.to, LAMBDA n : <<Entry("incoming", -n, "incoming_receipt"),
                                Entry("on_hand", n, "transfer_in")>>)

\* Mutant: the reservation is given back at the wrong warehouse.
CancelPendingLinesAtDestination(c) ==
    Lines(c, c.to, LAMBDA n : <<Entry("committed", -n, "transfer_release")>>)

CancelPendingLines(c) ==
    Lines(c, c.from, LAMBDA n : <<Entry("committed", -n, "transfer_release")>>)

CancelTransferringLines(c) ==
    Merge(Lines(c, c.from, LAMBDA n : <<Entry("on_hand", n, "transfer_in")>>),
          Lines(c, c.to, LAMBDA n : <<Entry("incoming", -n, "incoming_cancel")>>))

LinesOf(op, c) ==
    CASE op = "submit" -> SubmitLines(c)
      [] op = "ship" -> ShipLines(c)
      [] op = "receive" -> ReceiveLines(c)
      [] op = "cancel_pending" -> CancelPendingLines(c)
      [] op = "cancel_transferring" -> CancelTransferringLines(c)
      [] OTHER -> << >>

\* The items are sorted by variant alone (they have no location of their
\* own), and each is posted at the sending warehouse first.
IsNextRow(c, left, r) ==
    /\ r \in left
    /\ \A s \in left \ {r} : r[1] < s[1] \/ (r[1] = s[1] /\ r[2] = c.from)

-----------------------------------------------------------------------------
Init ==
    /\ status = [x \in Transfers |-> "none"]
    /\ content = [x \in Transfers |-> AnyContent]
    /\ level = OpeningLevel
    /\ ordered = [r \in Rows |-> 0]
    /\ req = [q \in Reqs |-> Idle]
    /\ overlap \in Overlaps

\* create: a draft touches no stock.
Create(x) ==
    /\ status[x] = "none"
    /\ status' = [status EXCEPT ![x] = "draft"]
    /\ \E c \in Contents : content' = [content EXCEPT ![x] = c]
    /\ UNCHANGED <<level, ordered, req, overlap>>

\* The document with fields F as d says.
Edited(c, d, F) == [f \in Fields |-> IF f \in F THEN d[f] ELSE c[f]]

\* Mutant: nobody checks that the two warehouses of an edited draft differ.
EditUnchecked(c, F) == {Edited(c, d, F) : d \in Contents}

\* What an edit of fields F may make of c as the handler reads it.
Edit(c, F) == {e \in {Edited(c, d, F) : d \in Contents} : e.from # e.to}

\* transition, receive, cancel, update: read the document, check its status.
Read(q, x, op) ==
    /\ req[q].pc = "idle"
    /\ status[x] = StatusFor(op)
    /\ ~overlap => \A p \in Reqs : req[p].pc # "idle" => req[p].x # x
    /\ \E F \in IF op = "update" THEN SUBSET Fields ELSE {{}} :
          \E c \in IF op = "update" THEN Edit(content[x], F) ELSE {content[x]} :
            req' = [req EXCEPT ![q] =
                      [pc |-> IF op = "submit" THEN "validate" ELSE "tx",
                       op |-> op, x |-> x, seen |-> c, sets |-> F,
                       left |-> DOMAIN LinesOf(op, c), held |-> {}]]
    /\ UNCHANGED <<status, content, level, ordered, overlap>>

\* validateAvailability: the sending warehouse has the quantities to spare.
Validate(q) ==
    /\ req[q].pc = "validate"
    /\ LET c == req[q].seen
       IN  \A v \in DOMAIN c.qty :
              c.qty[v] <= ComputeAvailable(level[<<v, c.from>>])
    /\ req' = [req EXCEPT ![q].pc = "tx"]
    /\ UNCHANGED <<status, content, level, ordered, overlap>>

Free(q, r) == \A p \in Reqs \ {q} : r \notin req[p].held

\* The transaction locks the next row it posts to.
LockNext(q, r) ==
    /\ req[q].pc = "tx" /\ IsNextRow(req[q].seen, req[q].left, r)
    /\ Free(q, r)
    /\ req' = [req EXCEPT ![q].left = @ \ {r}, ![q].held = @ \union {r}]
    /\ UNCHANGED <<status, content, level, ordered, overlap>>

ReadyToCommit(q) == req[q].pc = "tx" /\ req[q].left = {}

StatusAfter(op, before) ==
    CASE op = "submit" -> "pending"
      [] op = "ship" -> "transferring"
      [] op = "receive" -> "received"
      [] op \in {"cancel_pending", "cancel_transferring"} -> "cancelled"
      [] op = "cancel_draft" -> "deleted"
      [] op = "update" -> before

\* The movements pass, the document is still there, COMMIT.
Commit(q) ==
    LET r == req[q]
    IN  /\ ReadyToCommit(q)
        /\ status[r.x] # "deleted"
        /\ DocumentPasses(level, LinesOf(r.op, r.seen))
        /\ level' = AfterDocument(level, LinesOf(r.op, r.seen))
        /\ status' = [status EXCEPT ![r.x] = StatusAfter(r.op, @)]
        /\ content' = [content EXCEPT ![r.x] = Edited(@, r.seen, r.sets)]
        /\ req' = [req EXCEPT ![q] = Idle]
        /\ UNCHANGED <<ordered, overlap>>

\* A check or a movement refuses, the document has gone, the transaction
\* times out or is the victim of a deadlock: nothing of it stays.
Fail(q) ==
    /\ req[q].pc # "idle"
    /\ req' = [req EXCEPT ![q] = Idle]
    /\ UNCHANGED <<status, content, level, ordered, overlap>>

\* An order holds a unit of a row (even one that is not there) or gives it back.
OrderReserves(r) ==
    /\ \A p \in Reqs : r \notin req[p].held
    /\ ordered[r] < MaxOrders
    /\ level' = [level EXCEPT ![r] = Moved(@, Entry("committed", 1, "order_reserve"))]
    /\ ordered' = [ordered EXCEPT ![r] = @ + 1]
    /\ UNCHANGED <<status, content, req, overlap>>

OrderReleases(r) ==
    /\ \A p \in Reqs : r \notin req[p].held
    /\ ordered[r] > 0
    /\ ~Refused(level[r], Entry("committed", -1, "order_release"))
    /\ level' = [level EXCEPT ![r] = Moved(@, Entry("committed", -1, "order_release"))]
    /\ ordered' = [ordered EXCEPT ![r] = @ - 1]
    /\ UNCHANGED <<status, content, req, overlap>>

Next ==
    \/ \E x \in Transfers : Create(x)
    \/ \E q \in Reqs, x \in Transfers, op \in Ops : Read(q, x, op)
    \/ \E q \in Reqs : Validate(q) \/ Commit(q) \/ Fail(q)
    \/ \E q \in Reqs, r \in Rows : LockNext(q, r)
    \/ \E r \in Rows : OrderReserves(r) \/ OrderReleases(r)

Spec == Init /\ [][Next]_vars

-----------------------------------------------------------------------------
\* Edits of one draft that overlap may leave one warehouse as both ends.
PossibleContents ==
    IF overlap THEN [from : Locations, to : Locations, qty : {d.qty : d \in Contents}]
               ELSE EditedContents

\* The types of the documents, the stock and the requests.
TypeOK ==
    /\ status \in [Transfers -> {"none", "draft", "pending", "transferring",
                                 "received", "cancelled", "deleted"}]
    /\ content \in [Transfers -> PossibleContents]
    /\ level \in [Rows -> Level]
    /\ ordered \in [Rows -> 0..MaxOrders]
    /\ req \in [Reqs -> [pc : {"idle", "validate", "tx"}, op : Ops, x : Transfers,
                          seen : PossibleContents, sets : SUBSET Fields,
                          left : SUBSET Rows, held : SUBSET Rows]]
    /\ overlap \in BOOLEAN

\* The units of row r that content c moves from (end = "from") or to
\* (end = "to") its warehouse; and those of all documents in status st.
Share(c, r, end) ==
    IF c[end] = r[2] /\ r[1] \in DOMAIN c.qty THEN c.qty[r[1]] ELSE 0

Units(r, st, end) ==
    SumFunctionOnSet([x \in Transfers |->
        IF status[x] = st THEN Share(content[x], r, end) ELSE 0], Transfers)

\* What is reserved is what orders and pending transfers reserve, and what is
\* announced is what transfers on the road carry: no sequence of operations
\* reserves twice, forgets a reservation or loses goods on the way, as long as
\* nobody works on a document somebody else works on.
ReservationsAndTransitExact ==
    ~overlap => \A r \in Rows :
        /\ level[r]["committed"] = OpeningLevel[r]["committed"] + ordered[r]
                                     + Units(r, "pending", "from")
        /\ level[r]["incoming"] = OpeningLevel[r]["incoming"]
                                     + Units(r, "transferring", "to")

Goods(stock, v) ==
    SumFunctionOnSet([l \in Locations |-> stock[<<v, l>>]["on_hand"]
                                            + stock[<<v, l>>]["incoming"]], Locations)

\* Goods on hand and on the road together are what they were: a transfer
\* neither makes nor loses goods, in whatever order requests interleave.
GoodsConserved ==
    \A v \in Variants : Goods(level, v) = Goods(OpeningLevel, v)

\* A transfer that has been reserved or sent can always be received or
\* cancelled: only a shortage at submit or ship may refuse.
NeverStranded ==
    ~overlap => \A q \in Reqs :
        /\ ReadyToCommit(q)
        /\ req[q].op \in {"receive", "cancel_pending", "cancel_transferring"}
        => DocumentPasses(level, LinesOf(req[q].op, req[q].seen))

\* Request p waits for a row that q holds.
WaitsFor(p, q) ==
    /\ req[p].pc = "tx" /\ p # q
    /\ \E r \in req[q].held : IsNextRow(req[p].seen, req[p].left, r)

\* "Every transaction locks the rows of inventory_levels in the same order"
\* (comment of sortForLocking): no requests wait for one another in a circle.
NoWaitCycle ==
    \A S \in SUBSET Reqs : S # {} => \E p \in S : \A q \in S : ~WaitsFor(p, q)
=============================================================================
