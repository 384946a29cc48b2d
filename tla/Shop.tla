--------------------------------- MODULE Shop ---------------------------------
(***************************************************************************)
(* The shop's own data: customers and their groups, the catalogue, its     *)
(* categories and prices, locations, orders that come in from outside, the *)
(* age of the stock, and the notices of what is wrong with it.  As in      *)
(* BackOffice each behaviour is one area's.                                *)
(***************************************************************************)
EXTENDS Integers, FiniteSets

CONSTANTS
    Reqs,
    \* customers
    Customers, Groups, Phones, Profiles, RuleSets, Troubles, Savers, SaversOverlap,
    \* the catalogue
    Variants, SapoOrder, Combinations, Skus, EditorsOverlap,
    \* orders of Sapo's and of the queue
    MaxOrder, Window, MayBeOpen, Unknown, Lag, PageSize, MaxPages, Passes, Explicit,
    MaxCount, Entries, MaxMade,
    \* the age of the stock
    Stores, MaxDay, MaxUnits, CreatedOn, Opening,
    \* categories
    Tagged, Words, Rules, Categories,
    \* notices
    Users, Items, Rows, TTL, MaxTime, MaxNotices,
    \* prices
    Lists, Prices, Lines, Discounts, Rates, MaxLines, MaxChanges, MaxRequests,
    Drawers,
    \* locations
    MaxRows, SapoIds, Codes, Forms, Views

VARIABLES area,
    customer, buying, group, members, saver, behind, savers,
    variant, named, counted, edit, sapoSku, listing, settled, editors,
    remote, known, copy, pass, gaps, passedBy,
    file, queueRun, ordered, put,
    shelf, receipts, sold, day, build, snapshot, shifted,
    words, category, link, curator, curators, unseen,
    wrong, setting, cache, sender, admin, notices, clock, left, lag,
    base, item, order, debt, drawing, lastLine, onceListed, overridden, mixed, changed, begun,
    place, office, clerk, locationRun, reported

C == INSTANCE Customers WITH
        Reqs <- Savers, Overlaps <- SaversOverlap, orders <- buying, req <- saver, overlap <- savers

K == INSTANCE Catalogue WITH Overlaps <- EditorsOverlap, overlap <- editors

I == INSTANCE OrderIntake WITH counted <- gaps

Q == INSTANCE PendingOrders WITH Runs <- Reqs, run <- queueRun, made <- ordered

G == INSTANCE AgedInventory WITH Locations <- Stores

T == INSTANCE Categories WITH
        Skus <- Tagged, product <- words, req <- curator, over <- curators, behind <- unseen

N == INSTANCE Notifications

P == INSTANCE OrderPricing WITH Reqs <- Drawers, req <- drawing

O == INSTANCE Locations WITH
        row <- place, remote <- office, staff <- clerk, run <- locationRun

ASSUME ShopAssumption ==
    /\ C!CustomersAssumption /\ K!CatalogueAssumption /\ I!IntakeAssumption
    /\ G!AgedAssumption /\ T!CategoriesAssumption /\ N!NotificationsAssumption
    /\ P!PricingAssumption /\ O!LocationsAssumption

Areas == {"customers", "catalogue", "sapo orders", "queue", "aged", "categories",
          "notices", "pricing", "locations"}

Init ==
    /\ area \in Areas
    /\ C!Init /\ K!Init /\ I!Init /\ Q!Init /\ G!Init /\ T!Init /\ N!Init /\ P!Init /\ O!Init

cVars == <<customer, buying, group, members, saver, behind, savers>>
kVars == <<variant, named, counted, edit, sapoSku, listing, settled, editors>>
iVars == <<remote, known, copy, pass, gaps, passedBy>>
qVars == <<file, queueRun, ordered, put>>
gVars == <<shelf, receipts, sold, day, build, snapshot, shifted>>
tVars == <<words, category, link, curator, curators, unseen>>
nVars == <<wrong, setting, cache, sender, admin, notices, clock, left, lag>>
pVars == <<base, item, order, debt, drawing, lastLine, onceListed, overridden, mixed,
           changed, begun>>
oVars == <<place, office, clerk, locationRun, reported>>
vars == <<area, cVars, kVars, iVars, qVars, gVars, tVars, nVars, pVars, oVars>>

Next ==
    \/ area = "customers" /\ C!Next
         /\ UNCHANGED <<area, kVars, iVars, qVars, gVars, tVars, nVars, pVars, oVars>>
    \/ area = "catalogue" /\ K!Next
         /\ UNCHANGED <<area, cVars, iVars, qVars, gVars, tVars, nVars, pVars, oVars>>
    \/ area = "sapo orders" /\ I!Next
         /\ UNCHANGED <<area, cVars, kVars, qVars, gVars, tVars, nVars, pVars, oVars>>
    \/ area = "queue" /\ Q!Next
         /\ UNCHANGED <<area, cVars, kVars, iVars, gVars, tVars, nVars, pVars, oVars>>
    \/ area = "aged" /\ G!Next
         /\ UNCHANGED <<area, cVars, kVars, iVars, qVars, tVars, nVars, pVars, oVars>>
    \/ area = "categories" /\ T!Next
         /\ UNCHANGED <<area, cVars, kVars, iVars, qVars, gVars, nVars, pVars, oVars>>
    \/ area = "notices" /\ N!Next
         /\ UNCHANGED <<area, cVars, kVars, iVars, qVars, gVars, tVars, pVars, oVars>>
    \/ area = "pricing" /\ P!Next
         /\ UNCHANGED <<area, cVars, kVars, iVars, qVars, gVars, tVars, nVars, oVars>>
    \/ area = "locations" /\ O!Next
         /\ UNCHANGED <<area, cVars, kVars, iVars, qVars, gVars, tVars, nVars, pVars>>

Spec == Init /\ [][Next]_vars

-----------------------------------------------------------------------------
\* The rows of every area have their types (TypeOK of each module).
TypesOK ==
    /\ C!TypeOK /\ K!TypeOK /\ I!TypeOK /\ Q!TypeOK /\ G!TypeOK /\ T!TypeOK /\ N!TypeOK
    /\ P!TypeOK /\ O!TypeOK

\* A group's members are those its rules name, unless nothing has looked (Customers); so
\* are a category's products (Categories).
GroupsFollowRules == C!GroupsFollowRules /\ T!CategoriesFollowRules

\* What documents and stocktakes name is in the catalogue, and a synchronisation with
\* nothing to write has given every copy its SKU (Catalogue); one that nothing disturbs
\* leaves every location as Sapo has it, but for the codes it reports (Locations).
CopiesSettle == K!NamedVariantsKept /\ K!SyncSettles /\ O!LocationsAsReported

\* No order of Sapo's falls behind the next run, no queued one is lost (OrderIntake,
\* PendingOrders).
IntakeLosesNothing == I!NothingFallsBehind /\ Q!NoEntryLost

\* No goods are older in a snapshot than they are (AgedInventory).
NeverOlderThanTruth == G!NeverOlderThanTruth

\* A notice tells something new, and to those the settings name (Notifications).
NoticesFollowSettings == N!DigestsTellNews /\ N!SettingsObeyedInTime

\* Nothing is sold at a price never listed without the right to, and an order adds up to
\* its lines and what is owed (OrderPricing).
OrdersPricedRight == P!PricesWereListed /\ P!TotalsAddUp
=============================================================================
