-------------------------- MODULE MarketplaceMirror --------------------------
(***************************************************************************)
(* The copies of a marketplace's orders in `orders': TiktokOrderSync and   *)
(* ShopeeSync write what they have fetched, with no regard to what has     *)
(* been written since, from three callers: a poll of what changed of late, *)
(* a nightly sweep (TikTok) and a webhook that says an order changed.  Two *)
(* callers share a flag that is tested before an await and set after it.   *)
(* TiktokReturnSync writes the outcome of returns into the same rows.      *)
(***************************************************************************)
EXTENDS Integers, FiniteSets, Functions

CONSTANTS
    Orders,
    Returns,        \* an order's requests to give goods back
    Platforms,      \* the marketplaces of this run: "tiktok", "shopee"
    Views,          \* how the lines of a fetched order match the catalogue
    MaxChanges,     \* bound: changes on the marketplace
    MaxRestarts     \* bound: stops of the process

\* The values of the constants, assumed by the module that instantiates this one.
MirrorAssumption ==
    /\ Platforms \subseteq {"tiktok", "shopee"}
    /\ Views \subseteq {"full", "partial", "unknown", "empty"}
    /\ MaxChanges \in Nat /\ MaxRestarts \in Nat

VARIABLES
    platform,
    remote,     \* the marketplace's orders and their returns
    fresh,      \* orders changed within the window of the poll
    freshBack,  \* orders with a return changed within the window of theirs
    told,       \* orders with a webhook on its way
    running,    \* tiktokRunning / shopeeRunning
    job,        \* the callers: what they have fetched and not written
    mirror,     \* the rows of `orders' with lines, fulfilment and returns
    changes, restarts

market == <<platform, remote, fresh, freshBack, told, changes>>
vars == <<market, running, job, mirror, restarts>>

Pollers == {"poll", "sweep"}
Jobs == Pollers \union {"hook", "returns"}

RemoteNext ==
    [tiktok |->
        [NEW |-> {"AWAITING_SHIPMENT"},
         AWAITING_SHIPMENT |-> {"AWAITING_COLLECTION", "CANCELLED"},
         AWAITING_COLLECTION |-> {"IN_TRANSIT", "CANCELLED"},
         IN_TRANSIT |-> {"DELIVERED"}, DELIVERED |-> {"COMPLETED"},
         COMPLETED |-> {}, CANCELLED |-> {}],
     shopee |->
        [NEW |-> {"UNPAID", "READY_TO_SHIP"},
         UNPAID |-> {"READY_TO_SHIP", "CANCELLED"},
         READY_TO_SHIP |-> {"PROCESSED", "IN_CANCEL"},
         PROCESSED |-> {"SHIPPED", "IN_CANCEL"},
         IN_CANCEL |-> {"CANCELLED", "PROCESSED"},
         SHIPPED |-> {"COMPLETED"}, COMPLETED |-> {}, CANCELLED |-> {}]]

-----------------------------------------------------------------------------
(* What is written of a fetched order.                                     *)

TiktokStatus(s) ==
    CASE s = "CANCELLED" -> "cancelled" [] s = "COMPLETED" -> "closed" [] OTHER -> "open"

ShopeeStatus(s) ==
    CASE s \in {"CANCELLED", "IN_CANCEL"} -> "cancelled"
      [] s = "COMPLETED" -> "closed"
      [] OTHER -> "open"

\* A parcel is there once the order waits for its collection; "none" without.
TiktokShipment(s) ==
    CASE s = "AWAITING_COLLECTION" -> "pending"
      [] s = "IN_TRANSIT" -> "delivering"
      [] s \in {"DELIVERED", "COMPLETED"} -> "delivered"
      [] s = "CANCELLED" -> "cancelled"
      [] OTHER -> "none"

ShopeeShipment(s) ==
    CASE s \in {"CANCELLED", "IN_CANCEL"} -> "cancelled"
      [] s = "PROCESSED" -> "pending"
      [] s = "SHIPPED" -> "delivering"
      [] s = "COMPLETED" -> "delivered"
      [] OTHER -> "none"

OrderStatus(s) == IF platform = "tiktok" THEN TiktokStatus(s) ELSE ShopeeStatus(s)
ShipmentOf(s) == IF platform = "tiktok" THEN TiktokShipment(s) ELSE ShopeeShipment(s)

\* Mutant: an answer without lines leaves nothing over either.
ReplacesLinesOfNone(view) == view \in {"full", "empty"}

\* shouldReplaceLineItems: no line left over and some line found.
ReplacesLines(view) == view = "full"

\* Mutant: lines of unknown goods are kept as they come.
LinesAsTheyCome(view) == view

LinesFound(view) == IF view \in {"full", "partial"} THEN view ELSE "none"

Absent == [status |-> "absent", lines |-> "none", shipment |-> "none",
           packed |-> "unknown", back |-> "no_return"]

TiktokLines(row, view) ==
    IF row = Absent \/ ReplacesLines(view) THEN LinesFound(view) ELSE row.lines

\* Shopee's lines are deleted and written again whatever was found.
ShopeeLines(row, view) == LinesFound(view)

\* syncedPackedStatus: packing is the warehouse's, until the carrier has it.
SyncedPacked(shipment, packed) ==
    IF shipment \in {"none", "pending", "cancelled"} THEN packed ELSE "packed"

\* mapOrderFields of either, with the lines.
TiktokFields(row, status, view) ==
    [row EXCEPT !.status = TiktokStatus(status), !.lines = TiktokLines(row, view)]

ShopeeFields(row, status, view) ==
    [row EXCEPT !.status = ShopeeStatus(status), !.lines = ShopeeLines(row, view)]

Upserted(row, status, view) ==
    LET shipment == ShipmentOf(status)
        written == IF platform = "tiktok" THEN TiktokFields(row, status, view)
                                          ELSE ShopeeFields(row, status, view)
    IN  IF shipment = "none" THEN written
        ELSE [written EXCEPT !.shipment = shipment,
                             !.packed = SyncedPacked(shipment, row.packed)]

\* summarizeReturns, of the returns that were fetched.
Summary(backs) ==
    CASE "pending" \in backs -> "in_progress"
      [] "pending" \notin backs /\ "done" \in backs -> "returned"
      [] OTHER -> "no_return"

-----------------------------------------------------------------------------
Idle == [pc |-> "idle"]

Init ==
    /\ platform \in Platforms
    /\ \E status \in [Orders -> DOMAIN RemoteNext[platform]] :
         remote = [o \in Orders |-> [status |-> status[o],
                                     backs |-> [x \in Returns |-> "none"]]]
    /\ fresh = {} /\ freshBack = {} /\ told = {} /\ changes = 0
    /\ running = FALSE
    /\ job = [j \in Jobs |-> Idle]
    /\ mirror = [o \in Orders |-> Absent]
    /\ restarts = 0

Pc(j) == job[j].pc
Batch(j) == DOMAIN job[j].batch

\* A change on the marketplace, of which a webhook may come.
RemoteMoves(o, s) ==
    /\ changes < MaxChanges
    /\ s \in RemoteNext[platform][remote[o].status]
    /\ remote' = [remote EXCEPT ![o].status = s]
    /\ fresh' = fresh \union {o}
    /\ told' \in {told, told \union {o}}
    /\ changes' = changes + 1
    /\ UNCHANGED <<platform, freshBack, running, job, mirror, restarts>>

\* The buyer gives goods back, or does not after all.
ReturnMoves(o, x, s) ==
    /\ platform = "tiktok" /\ changes < MaxChanges
    /\ remote[o].status \in {"DELIVERED", "COMPLETED"}
    /\ \/ remote[o].backs[x] = "none" /\ s = "pending"
       \/ remote[o].backs[x] = "pending" /\ s \in {"done", "dropped"}
    /\ remote' = [remote EXCEPT ![o].backs[x] = s]
    /\ freshBack' = freshBack \union {o}
    /\ changes' = changes + 1
    /\ UNCHANGED <<platform, fresh, told, running, job, mirror, restarts>>

\* Time passes: the window no longer reaches back to a change.
Passes(o) ==
    /\ fresh' = fresh \ {o} /\ freshBack' = freshBack \ {o}
    /\ UNCHANGED <<platform, remote, told, changes, running, job, mirror, restarts>>

\* The flag is down; the actor is looked up.
Ask(j) ==
    /\ Pc(j) = "idle" /\ ~running /\ (j = "sweep" => platform = "tiktok")
    /\ job' = [job EXCEPT ![j] = [pc |-> "asked"]]
    /\ UNCHANGED <<market, running, mirror, restarts>>

Placed == {o \in Orders : remote[o].status # "NEW"}

\* Mutant: the sweep sees no more than the poll.
WindowOfPoll(j) == fresh

\* What a caller sees: the last 45 minutes or the last 7 days.
Window(j) == IF j = "sweep" THEN Placed ELSE fresh

\* The details of some orders as they are now, to be written one by one.
Fetched(orders) == [pc |-> "write", batch |-> [o \in orders |-> remote[o].status]]

\* The flag goes up, and the orders are fetched page by page.
Fetch(j) ==
    /\ Pc(j) = "asked"
    /\ running' = TRUE
    /\ job' = [job EXCEPT ![j] = Fetched(Window(j))]
    /\ UNCHANGED <<market, mirror, restarts>>

\* A webhook is not trusted: the order is fetched.
HookFetch(o) ==
    /\ o \in told /\ Pc("hook") = "idle"
    /\ told' = told \ {o}
    /\ job' = [job EXCEPT !["hook"] = Fetched({o})]
    /\ UNCHANGED <<platform, remote, fresh, freshBack, changes, running, mirror, restarts>>

ReturnsFetch ==
    /\ Pc("returns") = "idle" /\ freshBack # {}
    /\ job' = [job EXCEPT !["returns"] =
                [pc |-> "write", batch |-> [o \in freshBack |-> remote[o].backs]]]
    /\ UNCHANGED <<market, running, mirror, restarts>>

Without(j, o) == [job EXCEPT ![j].batch = Restrict(@, Batch(j) \ {o})]

\* upsertOrder: one transaction.
Write(j, o, view) ==
    /\ j # "returns" /\ Pc(j) = "write" /\ o \in Batch(j)
    /\ mirror' = [mirror EXCEPT ![o] = Upserted(@, job[j].batch[o], view)]
    /\ job' = Without(j, o)
    /\ UNCHANGED <<market, running, restarts>>

\* An order cannot be written (another caller has created it, the
\* transaction takes too long): the rest go on.
Skip(j, o) ==
    /\ Pc(j) = "write" /\ o \in Batch(j)
    /\ job' = Without(j, o)
    /\ UNCHANGED <<market, running, mirror, restarts>>

\* The order's statuses, and the parcel once the goods are back.
WriteReturns(o) ==
    /\ Pc("returns") = "write" /\ o \in Batch("returns")
    /\ LET back == Summary({job["returns"].batch[o][x] : x \in Returns})
           known == mirror[o] # Absent
           closes == known /\ back = "returned" /\ mirror[o].shipment # "none"
       IN  mirror' = [mirror EXCEPT
                ![o].back = IF known THEN back ELSE @,
                ![o].shipment = IF closes THEN "returned" ELSE @]
    /\ job' = Without("returns", o)
    /\ UNCHANGED <<market, running, restarts>>

\* finally: the flag goes down, whoever put it up.
Finish(j) ==
    /\ Pc(j) = "write" /\ Batch(j) = {}
    /\ job' = [job EXCEPT ![j] = Idle]
    /\ running' = IF j \in Pollers THEN FALSE ELSE running
    /\ UNCHANGED <<market, mirror, restarts>>

\* The fetch fails: nothing is written.
FetchFails(j) ==
    /\ Pc(j) = "asked"
    /\ job' = [job EXCEPT ![j] = Idle]
    /\ running' = FALSE
    /\ UNCHANGED <<market, mirror, restarts>>

\* The warehouse packs a parcel.
Pack(o) ==
    /\ mirror[o].shipment = "pending" /\ mirror[o].packed = "unknown"
    /\ mirror' = [mirror EXCEPT ![o].packed = "packed"]
    /\ UNCHANGED <<market, running, job, restarts>>

Restart ==
    /\ restarts < MaxRestarts
    /\ job' = [j \in Jobs |-> Idle]
    /\ running' = FALSE
    /\ restarts' = restarts + 1
    /\ UNCHANGED <<market, mirror>>

Next ==
    \/ \E o \in Orders :
        \/ \E s \in {"AWAITING_SHIPMENT", "AWAITING_COLLECTION", "IN_TRANSIT",
                     "DELIVERED", "COMPLETED", "CANCELLED", "UNPAID",
                     "READY_TO_SHIP", "PROCESSED", "SHIPPED", "IN_CANCEL"} :
             RemoteMoves(o, s)
        \/ \E x \in Returns, s \in {"pending", "done", "dropped"} : ReturnMoves(o, x, s)
        \/ Passes(o) \/ HookFetch(o) \/ WriteReturns(o) \/ Pack(o)
        \/ \E j \in Jobs : Skip(j, o) \/ \E view \in Views : Write(j, o, view)
    \/ \E j \in Pollers : Ask(j) \/ Fetch(j) \/ FetchFails(j)
    \/ \E j \in Jobs : Finish(j)
    \/ ReturnsFetch \/ Restart

\* Jobs go on; some night the sweep finds the flag down and its fetch answered,
\* and no order fails every night.
Fairness ==
    /\ \A j \in Jobs : WF_vars(Finish(j))
    /\ \A j \in Pollers : WF_vars(Fetch(j) \/ FetchFails(j))
    /\ \A j \in Jobs, o \in Orders :
         WF_vars(Skip(j, o) \/ (\E view \in Views : Write(j, o, view))
                 \/ (j = "returns" /\ WriteReturns(o)))
    /\ SF_vars(Ask("sweep")) /\ SF_vars(Fetch("sweep"))
    /\ \A o \in Orders : SF_vars(\E view \in Views : Write("sweep", o, view))

Spec == Init /\ [][Next]_vars /\ Fairness

-----------------------------------------------------------------------------
\* The types of the marketplace's side, of the callers and of the rows.
TypeOK ==
    /\ platform \in Platforms
    /\ \A o \in Orders : remote[o].status \in DOMAIN RemoteNext[platform]
    /\ fresh \subseteq Orders /\ freshBack \subseteq Orders /\ told \subseteq Orders
    /\ running \in BOOLEAN
    /\ \A j \in Jobs : Pc(j) \in {"idle", "asked", "write"}
    /\ \A o \in Orders :
         /\ mirror[o].status \in {"absent", "open", "closed", "cancelled"}
         /\ mirror[o].lines \in {"none", "partial", "full"}
         /\ mirror[o].packed \in {"unknown", "packed"}

Agrees(o) ==
    o \in Placed =>
        /\ mirror[o].status = OrderStatus(remote[o].status)
        /\ mirror[o].shipment \in {ShipmentOf(remote[o].status), "returned"}
           \/ ShipmentOf(remote[o].status) = "none"

\* However often a caller overwrites a newer copy with an older one, a webhook is
\* lost or the process stops for longer than the poll's window, once the
\* marketplace rests each TikTok order agrees with it for good.
MirrorCatchesUp == platform = "tiktok" => \A o \in Orders : <>[]Agrees(o)

\* No sync takes from a TikTok order lines that it had in full (the 90 orders of
\* the comment at shouldReplaceLineItems).
KnownLinesKept ==
    [][\A o \in Orders : platform = "tiktok" /\ mirror[o].lines = "full"
                            => mirror'[o].lines = "full"]_vars

\* The comment of syncReturnedShipment: goods that are back close the shipment.
ReturnedShipmentStays ==
    [][\A o \in Orders : mirror[o].shipment = "returned"
                            => mirror'[o].shipment = "returned"]_vars
=============================================================================
