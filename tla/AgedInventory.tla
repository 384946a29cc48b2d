----------------------------- MODULE AgedInventory -----------------------------
(***************************************************************************)
(* AgedInventorySnapshotService and the ageing of aged-inventory.calc: a   *)
(* snapshot of how long a variant's stock at Sapo has been there, read in  *)
(* several calls while goods come and go, and aged as if the oldest went   *)
(* out first.  One variant; the shelf is external.                         *)
(***************************************************************************)
EXTENDS Integers, FiniteSets, SequencesExt, FiniteSetsExt

CONSTANTS
    Locations,
    MaxDay,     \* bound: days 0..MaxDay
    MaxUnits,   \* bound: units there ever are
    CreatedOn,  \* the day Sapo's variant was made
    Opening     \* units that were there before, at each location

\* The values of the constants, assumed by the module that instantiates this one.
AgedAssumption ==
    /\ {MaxDay, MaxUnits} \subseteq Nat
    /\ CreatedOn \in 0..MaxDay
    /\ IsFiniteSet(Locations) /\ Opening \in [Locations -> Nat]

Days == 0..MaxDay

VARIABLES
    shelf,      \* external: units at a location by the day they came
    receipts,   \* external: units of Sapo's receipts, by the day, cancelled ones out
    sold,       \* external: units sold, by the day they came
    day,
    build,      \* the run that builds a snapshot, one at a time
    snapshot,   \* aged_inventory_snapshots of the last date written
    shifted     \* history: during the run goods moved, came back or a receipt went

vars == <<shelf, receipts, sold, day, build, snapshot, shifted>>

NoBuild == [pc |-> "idle"]
NoSnapshot == [st |-> "none"]
NoUnits == [d \in Days |-> 0]

Total(units) == SumFunction(units)
Units == SumFunction([l \in Locations |-> Total(shelf[l])]) + Total(sold)

Init ==
    /\ shelf = [l \in Locations |-> [NoUnits EXCEPT ![0] = Opening[l]]]
    /\ receipts = NoUnits /\ sold = NoUnits
    /\ day = CreatedOn
    /\ build = NoBuild /\ shifted = FALSE
    /\ snapshot = NoSnapshot

-----------------------------------------------------------------------------
(* The shop.                                                               *)

Receive(l) ==
    /\ Units < MaxUnits
    /\ shelf' = [shelf EXCEPT ![l][day] = @ + 1]
    /\ receipts' = [receipts EXCEPT ![day] = @ + 1]
    /\ UNCHANGED <<sold, day, build, snapshot, shifted>>

\* Any unit goes, the oldest or not.
Sell(l, d) ==
    /\ shelf[l][d] > 0
    /\ shelf' = [shelf EXCEPT ![l][d] = @ - 1]
    /\ sold' = [sold EXCEPT ![d] = @ + 1]
    /\ UNCHANGED <<receipts, day, build, snapshot, shifted>>

Shift == shifted' = (build # NoBuild)

GoodsBack(l, d) ==
    /\ sold[d] > 0
    /\ sold' = [sold EXCEPT ![d] = @ - 1]
    /\ shelf' = [shelf EXCEPT ![l][d] = @ + 1]
    /\ Shift
    /\ UNCHANGED <<receipts, day, build, snapshot>>

Move(l, m, d) ==
    /\ l # m /\ shelf[l][d] > 0
    /\ shelf' = [shelf EXCEPT ![l][d] = @ - 1, ![m][d] = @ + 1]
    /\ Shift
    /\ UNCHANGED <<receipts, sold, day, build, snapshot>>

\* A receipt is cancelled and its goods go back to the supplier.
CancelReceipt(l, d) ==
    /\ receipts[d] > 0 /\ shelf[l][d] > 0
    /\ receipts' = [receipts EXCEPT ![d] = @ - 1]
    /\ shelf' = [shelf EXCEPT ![l][d] = @ - 1]
    /\ Shift
    /\ UNCHANGED <<sold, day, build, snapshot>>

NextDay ==
    /\ day < MaxDay
    /\ day' = day + 1
    /\ UNCHANGED <<shelf, receipts, sold, build, snapshot, shifted>>

-----------------------------------------------------------------------------
(* The snapshot.                                                           *)

\* runExclusive, buildSnapshot
Begin ==
    /\ build = NoBuild
    /\ build' = [pc |-> "stock", asOf |-> day, todo |-> Locations, onHand |-> 0,
                 lots |-> NoUnits, seen |-> NoUnits]
    /\ shifted' = FALSE
    /\ UNCHANGED <<shelf, receipts, sold, day, snapshot>>

\* fetchStock reads page after page; `seen' remembers what was really there.
FetchStock(l) ==
    /\ build.pc = "stock" /\ l \in build.todo
    /\ build' = [build EXCEPT !.todo = @ \ {l},
                              !.onHand = @ + Total(shelf[l]),
                              !.seen = [d \in Days |-> @[d] + shelf[l][d]]]
    /\ UNCHANGED <<shelf, receipts, sold, day, snapshot, shifted>>

\* fetchReceipts comes after all of it, and a variant that is out of stock is left out.
FetchReceipts ==
    /\ build.pc = "stock" /\ build.todo = {}
    /\ build' = [build EXCEPT !.pc = "write", !.lots = receipts]
    /\ UNCHANGED <<shelf, receipts, sold, day, snapshot, shifted>>

\* Mutant: the oldest lots are taken first.
OlderLots(d) == {e \in Days : e < d}

\* fifoLayers goes from the newest lot back ...
LotsBefore(d) == {e \in Days : e > d}

Lots(onHand, lots) ==
    [d \in Days |->
        LET taken == SumFunction([e \in LotsBefore(d) |-> lots[e]])
        IN  Max({0, Min({lots[d], onHand - taken})})]

\* ... and gives what no receipt covers the day the variant was made, or that of the
\* oldest lot used if that is earlier.
Layers(onHand, lots) ==
    LET taken == Lots(onHand, lots)
        rest == onHand - Total(taken)
        since == Min({CreatedOn} \union {d \in Days : taken[d] > 0})
    IN  [taken EXCEPT ![since] = @ + rest]

\* write: the date's rows are replaced in one transaction.  Those of earlier dates stay
\* as they are until they are purged, and are left out.
Write ==
    /\ build.pc = "write"
    /\ snapshot' =
         IF build.onHand = 0 THEN NoSnapshot
         ELSE [st |-> "there", asOf |-> build.asOf,
               layers |-> Layers(build.onHand, build.lots),
               seen |-> build.seen, shifted |-> shifted]
    /\ build' = NoBuild /\ shifted' = FALSE
    /\ UNCHANGED <<shelf, receipts, sold, day>>

\* Sapo does not answer, the write fails, or the process dies.
Fail ==
    /\ build # NoBuild
    /\ build' = NoBuild /\ shifted' = FALSE
    /\ UNCHANGED <<shelf, receipts, sold, day, snapshot>>

Next ==
    \/ \E l \in Locations :
        \/ Receive(l) \/ FetchStock(l)
        \/ \E d \in Days : \/ Sell(l, d) \/ GoodsBack(l, d) \/ CancelReceipt(l, d)
                           \/ \E m \in Locations : Move(l, m, d)
    \/ NextDay \/ Begin \/ FetchReceipts \/ Write \/ Fail

Spec == Init /\ [][Next]_vars

-----------------------------------------------------------------------------
\* daysSince and agedQty: units of at least so many days, never fewer than none.
AgedQty(layers, minDays, asOf) ==
    SumFunction([d \in {e \in Days : Max({0, asOf - e}) >= minDays} |-> layers[d]])

\* The types of the shelf, the run and the snapshots.
TypeOK ==
    /\ shelf \in [Locations -> [Days -> Nat]]
    /\ receipts \in [Days -> Nat] /\ sold \in [Days -> Nat]
    /\ build.pc \in {"idle", "stock", "write"} /\ shifted \in BOOLEAN
    /\ snapshot.st \in {"none", "there"}

\* The comment of fifoLayers: an age is a lower bound.  Every unit counted is in a layer,
\* and of any age there are at most as many units in the snapshot as there really were
\* when they were counted, whichever units were sold and whatever was received while
\* the run went on; unless goods moved, came back or were sent back meanwhile.
NeverOlderThanTruth ==
    snapshot.st = "there" =>
        /\ Total(snapshot.layers) = Total(snapshot.seen)
        /\ snapshot.shifted \/ \A minDays \in Days :
              AgedQty(snapshot.layers, minDays, snapshot.asOf)
                <= AgedQty(snapshot.seen, minDays, snapshot.asOf)
=============================================================================
