----------------------------- MODULE Integrations -----------------------------
(***************************************************************************)
(* The carrier and the marketplaces.  They share no rows: each behaviour   *)
(* is one area's, the other rests in an initial state.                     *)
(***************************************************************************)
EXTENDS Integers, FiniteSets

CONSTANTS
    \* the carrier's parcels
    Parcels, MaxLate, MaxQueue, Troubles, OpeningLevel,
    \* the marketplaces' orders
    MarketOrders, MarketReturns, Platforms, Views, MaxChanges, MaxRestarts

VARIABLES area,
    trouble, parcel, mail, queue, work, connected, ship, level, staff,
    platform, remote, fresh, freshBack, told, running, job, mirror, changes, restarts

L == INSTANCE InventoryLevel

C == INSTANCE CarrierShipment

M == INSTANCE MarketplaceMirror WITH Orders <- MarketOrders, Returns <- MarketReturns

ASSUME IntegrationsAssumption == C!CarrierAssumption /\ M!MirrorAssumption

\* A value of OpeningLevel: an order that is packed, one that is not, and one unit to spare.
OneOrderPacked ==
    [L!ZeroLevel EXCEPT !["on_hand"] = 3, !["committed"] = 2, !["packed"] = 1]

cVars == <<trouble, parcel, mail, queue, work, connected, ship, level, staff>>
mVars == <<platform, remote, fresh, freshBack, told, running, job, mirror, changes, restarts>>
outsideVars == <<area, cVars, mVars>>

OutsideInit ==
    /\ area \in {"carrier", "marketplaces"}
    /\ C!Init /\ M!Init
    /\ area # "carrier" => trouble = CHOOSE t \in Troubles : TRUE
    /\ area # "marketplaces" =>
         /\ platform = CHOOSE p \in Platforms : TRUE
         /\ \A o \in MarketOrders : remote[o].status = "NEW"

InCarrier == area = "carrier" /\ UNCHANGED <<area, mVars>>
InMarketplaces == area = "marketplaces" /\ UNCHANGED <<area, cVars>>

OutsideNext == (InCarrier /\ C!Next) \/ (InMarketplaces /\ M!Next)

\* The fairness of each component, in its own behaviours.
OutsideFairness ==
    /\ \A k \in Parcels :
         /\ WF_outsideVars(InCarrier /\ C!Job(k))
         /\ WF_outsideVars(InCarrier /\ \E s \in C!Status : C!Deliver(k, s))
    /\ WF_outsideVars(InCarrier /\ (C!Record \/ C!Cancel \/ C!SetStatus))
    /\ \A j \in M!Jobs : WF_outsideVars(InMarketplaces /\ M!Finish(j))
    /\ \A j \in M!Pollers : WF_outsideVars(InMarketplaces /\ (M!Fetch(j) \/ M!FetchFails(j)))
    /\ \A j \in M!Jobs, o \in MarketOrders : WF_outsideVars(InMarketplaces /\
            \/ M!Skip(j, o)
            \/ \E view \in Views : M!Write(j, o, view)
            \/ j = "returns" /\ M!WriteReturns(o))
    /\ SF_outsideVars(InMarketplaces /\ M!Ask("sweep"))
    /\ SF_outsideVars(InMarketplaces /\ M!Fetch("sweep"))
    /\ \A o \in MarketOrders :
         SF_outsideVars(InMarketplaces /\ \E view \in Views : M!Write("sweep", o, view))

OutsideSpec == OutsideInit /\ [][OutsideNext]_outsideVars /\ OutsideFairness

-----------------------------------------------------------------------------
\* Reports, records and rows have their types (TypeOK of each module).
TypesOK == C!TypeOK /\ M!TypeOK

\* The goods are where the parcels' statuses say (CarrierShipment).
GoodsFollowShipment == C!GoodsFollowShipment

\* A parcel that has ended at the carrier is closed here (CarrierShipment).
ShipmentCatchesUp == C!ShipmentCatchesUp

\* A TikTok order that rests is copied for good (MarketplaceMirror).
MirrorCatchesUp == M!MirrorCatchesUp

\* No sync takes known lines from a TikTok order (MarketplaceMirror).
KnownLinesKept == M!KnownLinesKept
=============================================================================
