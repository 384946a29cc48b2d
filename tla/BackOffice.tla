------------------------------ MODULE BackOffice ------------------------------
(***************************************************************************)
(* The back office: purchasing, stocktakes, COD reconciliation, accounts,  *)
(* sessions, reports, dashboards, document codes and debt ledgers.  Its    *)
(* areas share no rows: each behaviour is one area's, the others rest in   *)
(* an initial state.                                                       *)
(***************************************************************************)
EXTENDS Integers, FiniteSets

CONSTANTS
    Reqs,
    \* purchasing
    PurchaseOrders, Receipts, Returns, MaxQty, Adjustments, BuyersOverlap, FollowsFlow,
    OpeningLevel,
    \* stocktakes
    Shelved, Sheets, MaxStock, CountersOverlap, OpeningLevels,
    \* COD reconciliation
    Total, Cod, Repeats,
    \* accounts
    Users, First, Locations, MaxChanges, AdminsOverlap,
    \* sessions
    Families, ApiKeys, UserOf, Tabs, MaxTokens, MaxCached, Losses,
    \* reports
    Variants, Documents, Files, LowStock, Ranges, MaxPosts,
    \* dashboards
    Sales, KindOf, Branches, Staff, Moments, Customs, Views,
    \* document codes
    Kinds, TypedCodes, Radix, Width, MaxIds,
    \* debt ledgers
    Amounts, Periods, PageSize, MaxEntries, MaxMoment

VARIABLES area,
    po, rei, pvn, active, stock, balance, cash, buyer, buyers,
    sheet, shelves, posted, counter, counters,
    received, collected, reconciled, cashier, made,
    account, invited, roleAt, lift, clerk, admin, changes, admins,
    row, cookie, tab, locked, out, cache, earlier, old, byUser, losses,
    level, book, sold, reader, told, opened, lost, posts,
    sale, past, viewer, shown,
    papers, serial, drawer, table,
    entry, clock, page, whose

P == INSTANCE Purchasing WITH
        Orders <- PurchaseOrders, Overlaps <- BuyersOverlap,
        level <- stock, req <- buyer, overlap <- buyers

S == INSTANCE Stocktake WITH
        Variants <- Shelved, Overlaps <- CountersOverlap,
        levels <- shelves, req <- counter, overlap <- counters

D == INSTANCE CodReconciliation WITH req <- cashier

A == INSTANCE AccessControl WITH
        Overlaps <- AdminsOverlap, req <- admin, overlap <- admins

T == INSTANCE Sessions WITH MaxEntries <- MaxCached

R == INSTANCE StockReports WITH req <- reader

\* The first hours of the months, 2024 a leap year.
DaysOf(m) == CASE m = 26 -> 29 [] m % 12 = 2 -> 28 [] m % 12 \in {4, 6, 9, 11} -> 30
               [] OTHER -> 31
Calendar == LET start[m \in 1..54] == IF m = 1 THEN 0 ELSE start[m - 1] + 24 * DaysOf(m - 1)
            IN [m \in 1..54 |-> start[m]]

B == INSTANCE SalesReports WITH
        MonthStart <- Calendar, Orders <- Sales, Locations <- Branches,
        order <- sale, req <- viewer, told <- shown

N == INSTANCE DocumentCodes WITH rows <- papers, ids <- serial, req <- drawer

E == INSTANCE DebtLedgers WITH req <- page

ASSUME OperationsAssumption ==
    /\ P!PurchasingAssumption /\ S!StocktakeAssumption /\ D!CodAssumption
    /\ A!AccessAssumption /\ T!SessionAssumption /\ R!ReportsAssumption
    /\ B!SalesAssumption /\ N!CodesAssumption /\ E!LedgersAssumption

Areas == {"purchasing", "stocktakes", "cod", "accounts", "sessions", "reports", "dashboards",
          "codes", "debts"}

Init ==
    /\ area \in Areas
    /\ P!Init /\ S!Init /\ D!Init /\ A!Init /\ T!Init /\ R!Init
    /\ B!Init /\ N!Init /\ E!Init

pVars == <<po, rei, pvn, active, stock, balance, cash, buyer, buyers>>
sVars == <<sheet, shelves, posted, counter, counters>>
dVars == <<received, collected, reconciled, cashier, made>>
aVars == <<account, invited, roleAt, lift, clerk, admin, changes, admins>>
tVars == <<row, cookie, tab, locked, out, cache, earlier, old, byUser, losses>>
rVars == <<level, book, sold, reader, told, opened, lost, posts>>
bVars == <<sale, past, viewer, shown>>
nVars == <<papers, serial, drawer, table>>
eVars == <<entry, clock, page, whose>>
vars == <<area, pVars, sVars, dVars, aVars, tVars, rVars, bVars, nVars, eVars>>

Next ==
    \/ /\ area = "purchasing" /\ P!Next
       /\ UNCHANGED <<area, sVars, dVars, aVars, tVars, rVars, bVars, nVars, eVars>>
    \/ /\ area = "stocktakes" /\ S!Next
       /\ UNCHANGED <<area, pVars, dVars, aVars, tVars, rVars, bVars, nVars, eVars>>
    \/ /\ area = "cod" /\ D!Next
       /\ UNCHANGED <<area, pVars, sVars, aVars, tVars, rVars, bVars, nVars, eVars>>
    \/ /\ area = "accounts" /\ A!Next
       /\ UNCHANGED <<area, pVars, sVars, dVars, tVars, rVars, bVars, nVars, eVars>>
    \/ /\ area = "sessions" /\ T!Next
       /\ UNCHANGED <<area, pVars, sVars, dVars, aVars, rVars, bVars, nVars, eVars>>
    \/ /\ area = "reports" /\ R!Next
       /\ UNCHANGED <<area, pVars, sVars, dVars, aVars, tVars, bVars, nVars, eVars>>
    \/ /\ area = "dashboards" /\ B!Next
       /\ UNCHANGED <<area, pVars, sVars, dVars, aVars, tVars, rVars, nVars, eVars>>
    \/ /\ area = "codes" /\ N!Next
       /\ UNCHANGED <<area, pVars, sVars, dVars, aVars, tVars, rVars, bVars, eVars>>
    \/ /\ area = "debts" /\ E!Next
       /\ UNCHANGED <<area, pVars, sVars, dVars, aVars, tVars, rVars, bVars, nVars>>

Spec == Init /\ [][Next]_vars

-----------------------------------------------------------------------------
\* The documents, the stock, the books and the requests of every area have their types
\* (TypeOK of each module).
TypesOK ==
    /\ area = "purchasing" => P!TypeOK
    /\ area = "stocktakes" => S!TypeOK
    /\ area = "cod" => D!TypeOK
    /\ area = "accounts" => A!TypeOK
    /\ area = "sessions" => T!TypeOK
    /\ area = "reports" => R!TypeOK
    /\ area = "dashboards" => B!TypeOK
    /\ area = "codes" => N!TypeOK
    /\ area = "debts" => E!TypeOK

\* Incoming stock is what open purchase orders still expect, supplier balance, receipts
\* and vouchers agree, and no receipt is paid beyond what is due (Purchasing); no order
\* takes in more than it costs (CodReconciliation).
BooksAgree ==
    /\ area = "purchasing" => P!IncomingMatchesOrders /\ P!BooksAgree /\ P!NeverOverpaid
    /\ area = "cod" => D!CodWithinOrder

\* Only balanced sheets have adjusted stock, and only their counted lines (Stocktake).
SheetTellsTheStock == area = "stocktakes" => S!SheetTellsTheStock

\* An administrator whose account is on remains, and those who are told of something are
\* those who may do it (AccessControl).
RightsAddUp == area = "accounts" => A!AdminRemains /\ A!FanOutMatchesRights

\* A browser's tabs never end their own session, and invalidateUser finds every entry of
\* the user (Sessions).
SessionsKept == area = "sessions" => T!TabsKeepSession /\ T!IndexCoversCache

\* What is told of the stock is so, whichever way it is found out (StockReports), the
\* blocks, rows and columns of the dashboards agree (SalesReports), and so do the rows,
\* pages and balances of the ledgers (DebtLedgers).
ReportsAgree ==
    /\ area = "reports" =>
            R!BalancesTrue /\ R!MismatchesTrue /\ R!ImportsHold /\ R!BranchesAgree
    /\ area = "dashboards" =>
            B!PeriodsApart /\ B!ChartsAddUp /\ B!RowsAddUp /\ B!BlocksAgree
    /\ area = "debts" => E!RunningBalancesTrue /\ E!PeriodsClose /\ E!PagesMeet

\* A document is not refused for the code that the program gives it (DocumentCodes).
CodesAreFree == area = "codes" => N!NumberedUnderLock /\ N!NextIsFree
=============================================================================
