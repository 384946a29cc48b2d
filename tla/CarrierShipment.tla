--------------------------- MODULE CarrierShipment ---------------------------
(***************************************************************************)
(* One order's parcels between FulfillmentService and ViettelPost: the     *)
(* push, whose answer may be lost, the carrier's reports, which come late, *)
(* twice or in another order and wait in memory (KeyedSerialQueue), the    *)
(* walk of each report along shipmentPathTo and what staff do meanwhile.   *)
(* The order has one unit; parcel k is the one the k-th push asks for, and *)
(* fulfilment k its record.  The carrier can be asked for something only   *)
(* while its provider is connected; what it reports is taken in regardless. *)
(***************************************************************************)
EXTENDS StockPosting, FiniteSetsExt

CONSTANTS
    Parcels,        \* 1..n, bound: pushes
    MaxLate,        \* bound: reports on their way
    MaxQueue,       \* bound: reports waiting
    Troubles,       \* what may go wrong in a behaviour of this run:
                    \*   "none"
                    \*   "crash"   the process stops, transactions fail
                    \*   "staff"   staff work on a parcel while a report is
    OpeningLevel

\* The values of the constants, assumed by the module that instantiates this one.
CarrierAssumption ==
    /\ IsFiniteSet(Parcels) /\ Parcels = 1..Cardinality(Parcels)
    /\ OpeningLevel \in Level
    /\ Troubles \subseteq {"none", "crash", "staff"}
    /\ MaxLate \in Nat \ {0} /\ MaxQueue \in Nat \ {0}

VARIABLES
    trouble,
    parcel,     \* the parcels as the carrier has them
    mail,       \* reports the carrier may still send
    queue,      \* KeyedSerialQueue, by tracking number
    work,       \* the job that runs for each tracking number
    connected,  \* is_connected of the carrier's provider, with its token
    ship,       \* fulfillments
    level,      \* the variant's inventory level
    staff       \* a request of the staff

shop == <<ship, level>>
memory == <<queue, work, staff>>
vars == <<trouble, parcel, mail, connected, memory, shop>>

Status == {"pending", "picked_up", "delivering", "delivered",
           "retry_delivery", "returning", "returned", "cancelled"}
Final == {"delivered", "returned", "cancelled"}
Gone == {"picked_up", "delivering", "retry_delivery", "returning", "delivered"}

\* SHIPMENT_TRANSITIONS; the table `allowed' adds "cancelled" to each.
Transitions ==
    [s \in Status |->
        CASE s = "pending" -> {"picked_up"}
          [] s = "picked_up" -> {"delivering"}
          [] s = "delivering" -> {"delivered", "retry_delivery"}
          [] s = "retry_delivery" -> {"delivering", "returning"}
          [] s = "returning" -> {"returned"}
          [] OTHER -> {}]

Allowed(s) == IF s \in Final THEN {} ELSE Transitions[s] \union {"cancelled"}

\* All ways of n steps from a status.
Ways(s, n) ==
    LET way[i \in 0..n] ==
          IF i = 0 THEN {<<s>>}
          ELSE UNION {{Append(w, t) : t \in Transitions[w[i]]} : w \in way[i - 1]}
    IN  way[n]

\* Mutant: the reported status is applied at once.
Straight == [from \in Status |-> [to \in Status |-> <<to>>]]

\* shipmentPathTo: the shortest way, << >> when there is none.
PathTo ==
    [from \in Status |-> [to \in Status |->
        LET ends == {n \in 1..5 : \E w \in Ways(from, n) : w[n + 1] = to}
        IN  IF to = "cancelled" THEN <<to>>
            ELSE IF ends = {} THEN << >>
            ELSE Tail(CHOOSE w \in Ways(from, Min(ends)) : w[Min(ends) + 1] = to)]]

NoShip == [status |-> "none", open |-> FALSE, packed |-> FALSE, tracking |-> 0]
NoWork == [pc |-> "idle"]

Init ==
    /\ trouble \in Troubles
    /\ parcel = [k \in Parcels |-> "none"]
    /\ mail = [k \in Parcels |-> {}]
    /\ queue = [k \in Parcels |-> << >>]
    /\ work = [k \in Parcels |-> NoWork]
    /\ connected = FALSE
    /\ ship = [k \in Parcels |-> NoShip]
    /\ level = OpeningLevel
    /\ staff = NoWork

Working == \E k \in Parcels : work[k].pc # "idle"
MayWork == trouble # "staff" => staff.pc = "idle"
MayAct == staff.pc = "idle" /\ (trouble # "staff" => ~Working)
Open == {k \in Parcels : ship[k].open}

-----------------------------------------------------------------------------
(* The carrier.                                                            *)

Report(k, s) == mail' = [mail EXCEPT ![k] = @ \union {s}]

CarrierMoves(k, s) ==
    /\ parcel[k] \in Status /\ s \in Allowed(parcel[k])
    /\ Cardinality(mail[k]) < MaxLate
    /\ parcel' = [parcel EXCEPT ![k] = s]
    /\ Report(k, s)
    /\ UNCHANGED <<trouble, connected, memory, shop>>

\* A report is accepted, in any order (one that comes after the end might as
\* well never have come) and queued: enqueueVtpWebhook answers at once.
Deliver(k, s) ==
    /\ s \in mail[k] /\ Len(queue[k]) < MaxQueue
    /\ mail' = [mail EXCEPT ![k] = @ \ {s}]
    /\ queue' = [queue EXCEPT ![k] = Append(@, s)]
    /\ UNCHANGED <<trouble, parcel, connected, work, staff, shop>>

-----------------------------------------------------------------------------
(* The webhook.                                                            *)

\* The fulfilments a report of parcel k may be about: those of its tracking
\* number or, if there is none, the open one of the order.
Lookup(k) ==
    LET known == {j \in Parcels : ship[j].tracking = k}
    IN  IF known # {} THEN {Max(known)} ELSE Open

\* webhookVtp up to the walk: an unknown parcel, a status that is there
\* already, a closed fulfilment and an unreachable status are passed over.
Take(k) ==
    /\ MayWork /\ work[k].pc = "idle" /\ queue[k] # << >>
    /\ queue' = [queue EXCEPT ![k] = Tail(@)]
    /\ IF Lookup(k) = {} THEN UNCHANGED <<ship, work>>
       ELSE LET j == CHOOSE j \in Lookup(k) : TRUE
                s == Head(queue[k])
                seen == [ship[j] EXCEPT !.tracking = k]
                path == PathTo[seen.status][s]
            IN  /\ ship' = [ship EXCEPT ![j] = seen]
                /\ work' = IF s = seen.status \/ ~seen.open \/ path = << >> THEN work
                           ELSE [work EXCEPT ![k] = [pc |-> "apply", j |-> j,
                                                     path |-> path, seen |-> seen]]
    /\ UNCHANGED <<trouble, parcel, mail, connected, staff, level>>

Unpack(seen) ==
    IF seen.packed THEN <<Entry("packed", -1, "packing_cancel"),
                          Entry("committed", 1, "packing_cancel")>>
                   ELSE << >>

\* Mutant: packed goods leave from the reservation.
ReservedInCommitted(seen) == "committed"

ReservedBucket(seen) == IF seen.packed THEN "packed" ELSE "committed"

\* What applyShipmentStatus posts, from the fulfilment as it was read.
Entries(seen, s) ==
    CASE s = "picked_up" -> <<Entry("on_hand", -1, "order_ship"),
                              Entry(ReservedBucket(seen), -1, "order_ship")>>
      [] s = "cancelled" /\ seen.status = "pending" -> Unpack(seen)
      [] s = "cancelled" /\ seen.status # "pending" ->
             <<Entry("on_hand", 1, "return_in"), Entry("committed", 1, "order_reserve")>>
      [] s = "returned" -> <<Entry("on_hand", 1, "return_in")>>
      [] OTHER -> << >>

\* The transaction of applyShipmentStatus.
Applies(j, seen, s) ==
    /\ LinePasses(level, PostLine(Entries(seen, s)))
    /\ level' = AfterLine(level, PostLine(Entries(seen, s)))
    /\ ship' = [ship EXCEPT ![j] =
                    [ship[j] EXCEPT !.status = s, !.open = ship[j].open /\ s \notin Final]]

Apply(k) ==
    LET w == work[k]
    IN  /\ w.pc = "apply" /\ Head(w.path) \in Allowed(w.seen.status)
        /\ Applies(w.j, w.seen, Head(w.path))
        /\ work' = [work EXCEPT ![k] = [w EXCEPT !.pc = "reread", !.path = Tail(w.path)]]
        /\ UNCHANGED <<trouble, parcel, mail, connected, queue, staff>>

\* The fulfilment is read again before the next step.
Reread(k) ==
    LET w == work[k]
    IN  /\ w.pc = "reread"
        /\ work' = [work EXCEPT ![k] =
              IF w.path = << >> \/ ~ship[w.j].open THEN NoWork
              ELSE [w EXCEPT !.pc = "apply", !.seen = ship[w.j]]]
        /\ UNCHANGED <<trouble, parcel, mail, connected, queue, staff, shop>>

\* The next step is not allowed from what was read, or its goods are not there.
Blocked(k) ==
    LET w == work[k]
    IN  /\ w.pc = "apply"
        /\ \/ Head(w.path) \notin Allowed(w.seen.status)
           \/ ~LinePasses(level, PostLine(Entries(w.seen, Head(w.path))))
        /\ work' = [work EXCEPT ![k] = NoWork]
        /\ UNCHANGED <<trouble, parcel, mail, connected, queue, staff, shop>>

\* The queue's onError: the job is given up, the next one runs.
JobFails(k) ==
    /\ trouble = "crash" /\ work[k].pc # "idle"
    /\ work' = [work EXCEPT ![k] = NoWork]
    /\ UNCHANGED <<trouble, parcel, mail, connected, queue, staff, shop>>

Crash ==
    /\ trouble = "crash"
    /\ queue' = [k \in Parcels |-> << >>]
    /\ work' = [k \in Parcels |-> NoWork]
    /\ staff' = NoWork
    /\ UNCHANGED <<trouble, parcel, mail, connected, shop>>

-----------------------------------------------------------------------------
(* Staff.                                                                  *)

\* connect, once the carrier has accepted the token, and disconnect.
Connect ==
    /\ MayAct /\ ~connected
    /\ connected' = TRUE
    /\ UNCHANGED <<trouble, parcel, mail, memory, shop>>

Disconnect ==
    /\ MayAct /\ connected
    /\ connected' = FALSE
    /\ UNCHANGED <<trouble, parcel, mail, memory, shop>>

\* ensureSession: without the provider's token nothing can be asked of the carrier.
Session == connected

\* createShipment: the carrier refuses an order number it has already
\* (CHECK_UNIQUE), unless that parcel is cancelled.
CarrierTakes(k) == Session /\ \A j \in 1..(k - 1) : parcel[j] = "cancelled"

\* cancelShipment: it does not call back what it has fetched.
CarrierGivesUp(k) == Session /\ parcel[k] = "pending"

\* createCarrierShipment and cancelCarrierShipment, which ask for it.
AskForParcel(k) == CarrierTakes(k) /\ parcel' = [parcel EXCEPT ![k] = "pending"]

AskBack(k) ==
    /\ CarrierGivesUp(k) /\ Cardinality(mail[k]) < MaxLate
    /\ parcel' = [parcel EXCEPT ![k] = "cancelled"]
    /\ Report(k, "cancelled")

\* assertNotReturned
NotReturned == \A j \in Parcels : ship[j].status # "returned"

\* pushShipment asks the carrier first, when there is stock.
Push(k) ==
    /\ MayAct /\ parcel[k] = "none" /\ Open = {}
    /\ NotReturned /\ level["on_hand"] >= 1
    /\ AskForParcel(k)
    /\ staff' = [pc |-> "push", j |-> k]
    /\ UNCHANGED <<trouble, mail, connected, queue, work, shop>>

\* Its transaction records the parcel.
Record ==
    /\ staff.pc = "push" /\ Open = {}
    /\ ship' = [ship EXCEPT ![staff.j] = [status |-> "pending", open |-> TRUE,
                               packed |-> FALSE, tracking |-> staff.j]]
    /\ staff' = NoWork
    /\ UNCHANGED <<trouble, parcel, mail, connected, queue, work, level>>

PackEntries == <<Entry("committed", -1, "packing_start"), Entry("packed", 1, "packing_start")>>

\* applyPackingStatus, of a parcel that is still in the house: the code asks whether
\* it is closed or packed alone, staff do not pack what the carrier has fetched.
Pack(j) ==
    /\ MayAct
    /\ ship[j].open /\ ~ship[j].packed /\ ship[j].status = "pending"
    /\ LinePasses(level, PostLine(PackEntries))
    /\ level' = AfterLine(level, PostLine(PackEntries))
    /\ ship' = [ship EXCEPT ![j].packed = TRUE]
    /\ UNCHANGED <<trouble, parcel, mail, connected, memory>>

\* cancel asks the carrier, which tells the webhook of it as of any other
\* cancellation.
AskCancel(j) ==
    /\ MayAct
    /\ ship[j].open /\ ship[j].status = "pending"
    /\ AskBack(ship[j].tracking)
    /\ staff' = [pc |-> "cancel", j |-> j, seen |-> ship[j]]
    /\ UNCHANGED <<trouble, connected, queue, work, shop>>

\* The transaction of cancel, which does not look again.
Cancel ==
    /\ staff.pc = "cancel"
    /\ Applies(staff.j, staff.seen, "cancelled")
    /\ staff' = NoWork
    /\ UNCHANGED <<trouble, parcel, mail, connected, queue, work>>

\* applyShipmentStatus up to its transaction, of an open fulfilment.
Reads(j, s) ==
    /\ ship[j].open /\ s \in Allowed(ship[j].status)
    /\ staff' = [pc |-> "status", j |-> j, seen |-> ship[j], s |-> s]

\* updateShipmentStatus
ReadForStatus(j, s) ==
    /\ MayAct /\ trouble # "none"
    /\ Reads(j, s)
    /\ UNCHANGED <<trouble, parcel, mail, connected, queue, work, shop>>

\* webhook, where staff enter what a carrier says of a tracking number.
Webhook(k, s) ==
    /\ MayAct /\ trouble # "none"
    /\ \E j \in Parcels : ship[j].tracking = k /\ Reads(j, s)
    /\ UNCHANGED <<trouble, parcel, mail, connected, queue, work, shop>>

SetStatus ==
    /\ staff.pc = "status"
    /\ Applies(staff.j, staff.seen, staff.s)
    /\ staff' = NoWork
    /\ UNCHANGED <<trouble, parcel, mail, connected, queue, work>>

\* The answer of the carrier is lost, a check refuses or a transaction fails.
StaffFails ==
    /\ staff.pc # "idle" /\ trouble # "none"
    /\ staff' = NoWork
    /\ UNCHANGED <<trouble, parcel, mail, connected, queue, work, shop>>

-----------------------------------------------------------------------------
Job(k) == Take(k) \/ Apply(k) \/ Reread(k) \/ Blocked(k)
Staff ==
    \/ \E k \in Parcels :
          \/ Push(k) \/ Pack(k) \/ AskCancel(k)
          \/ \E s \in Status : ReadForStatus(k, s) \/ Webhook(k, s)
    \/ Record \/ Cancel \/ SetStatus \/ StaffFails
    \/ Connect \/ Disconnect

Next ==
    \/ \E k \in Parcels :
          \/ \E s \in Status : CarrierMoves(k, s) \/ Deliver(k, s)
          \/ Job(k) \/ JobFails(k)
    \/ Crash \/ Staff

\* The process runs its jobs, a request gets its answer, and the carrier sends
\* each report until it is accepted.
Fairness ==
    /\ \A k \in Parcels :
          /\ WF_vars(Job(k))
          /\ WF_vars(\E s \in Status : Deliver(k, s))
    /\ WF_vars(Record \/ Cancel \/ SetStatus)

Spec == Init /\ [][Next]_vars /\ Fairness

-----------------------------------------------------------------------------
\* The types of the parcels, the fulfilments and the stock.
TypeOK ==
    /\ trouble \in Troubles
    /\ parcel \in [Parcels -> Status \union {"none"}]
    /\ mail \in [Parcels -> SUBSET Status]
    /\ queue \in [Parcels -> Seq(Status)] /\ connected \in BOOLEAN
    /\ ship \in [Parcels -> [status : Status \union {"none"}, open : BOOLEAN,
                             packed : BOOLEAN, tracking : Parcels \union {0}]]
    /\ level \in Level

Out == {j \in Parcels : ship[j].status \in Gone}
Back == {j \in Parcels : ship[j].status = "returned"}
PackedUp == {j \in Parcels : ship[j].packed /\ ship[j].status = "pending"}

\* Parcels the carrier took and no fulfilment tells of.
Unrecorded == {k \in Parcels : parcel[k] # "none" /\ ship[k].status = "none"
                                /\ ~(staff.pc = "push" /\ staff.j = k)}

GoodsWhereStatusSays ==
    /\ level["on_hand"] = OpeningLevel["on_hand"] - Cardinality(Out)
    /\ level["packed"] = OpeningLevel["packed"] + Cardinality(PackedUp)
    /\ level["committed"] =
         OpeningLevel["committed"] - Cardinality(Out \union Back \union PackedUp)

\* Whatever reports come late, twice, in another order or not at all, and
\* wherever the process stops: the goods are out, held for the order or packed
\* exactly as the statuses of its parcels say, each step posted once.
\* (Unless staff work on a parcel at the moment a report about it does, or the
\* carrier has a parcel nobody recorded: see Lookup.)
GoodsFollowShipment ==
    (trouble # "staff" /\ Unrecorded = {}) => GoodsWhereStatusSays

\* A cancelled parcel gives back what was set aside for it, once, also when the
\* carrier's report of the cancellation meets the one it answers.
CancellationPostsOnce == Unrecorded = {} => GoodsWhereStatusSays

\* When nothing breaks down, a parcel that has reached its end at the carrier is
\* closed here as well, whatever reports were skipped or mixed up on the way.
ShipmentCatchesUp ==
    \A k \in Parcels :
        (trouble = "none" /\ parcel[k] \in Final) ~> ~ship[k].open
=============================================================================
