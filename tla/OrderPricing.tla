------------------------------ MODULE OrderPricing ------------------------------
(***************************************************************************)
(* Prices and totals of one order of one variant: what the price lists     *)
(* offer (PriceListService), what lines may cost (resolveItems,            *)
(* resolveEditedLines, assertListedPrice), what the order adds up to       *)
(* (order-pricing.ts) and what the customer owes.  Stock is set aside in   *)
(* OrderFulfillment.  Amounts are whole.                                   *)
(***************************************************************************)
EXTENDS Integers, FiniteSetsExt, Functions

CONSTANTS
    Lists,          \* price lists: the branch's and those of groups
    Prices, Lines,  \* prices on the lists; prices, quantities and discounts of lines
    Discounts, Rates,   \* on the order; a rate is a fraction <<p, q>>
    MaxLines,       \* bound: lines ever made
    MaxChanges,     \* bound: changes of listed prices
    MaxRequests,    \* bound: creations and edits begun
    Reqs

\* The values of the constants, assumed by the module that instantiates this one.
PricingAssumption ==
    /\ Prices \union Discounts \union {MaxLines, MaxChanges, MaxRequests} \subseteq Nat
    /\ "branch" \in Lists
    /\ Lines \subseteq [price : Nat, quantity : Nat \ {0}, discount : Nat]
    /\ Rates \subseteq Nat \X (Nat \ {0})

VARIABLES
    base,       \* product_variants.price
    item,       \* price_list_items of the variant, of the branch's and a group's list
    order, debt,
    req,        \* creations and edits under way
    lastLine,   \* the newest line's number
    onceListed, \* history: prices that have been listed
    overridden, \* history: somebody who may set prices has worked on the order
    mixed,      \* history: what has overlapped an edit
    changed, begun  \* how often prices have changed, and requests begun

vars == <<base, item, order, debt, req, lastLine, onceListed, overridden, mixed, changed,
          begun>>

NoItem == [price |-> 0, enabled |-> FALSE]
NoLines == <<>>
NoOrder == [st |-> "none", lines |-> NoLines, discounts |-> 0, sub |-> 0, tax |-> 0,
            total |-> 0, received |-> 0, financial |-> "pending"]
Idle == [pc |-> "idle"]
Busy == {r \in Reqs : req[r] # Idle}

Init ==
    /\ base \in Prices
    /\ item = [l \in Lists |-> NoItem]
    /\ order = NoOrder /\ debt = 0
    /\ req = [r \in Reqs |-> Idle]
    /\ lastLine = 0
    /\ onceListed = {base} /\ overridden = FALSE /\ mixed = {}
    /\ changed = 0 /\ begun = 0

-----------------------------------------------------------------------------
(* Price lists.                                                            *)

\* listedPrices: of every list, the branch's and the group's alike
ListedPrices == {base} \union {item[l].price : l \in {l \in Lists : item[l].enabled}}

\* resolvePrice, which an order asks for its branch and never for a group
ResolvePrice == IF item["branch"].enabled THEN item["branch"].price ELSE base

Changes ==
    /\ changed < MaxChanges
    /\ changed' = changed + 1
    /\ UNCHANGED <<order, debt, req, lastLine, overridden, mixed, begun>>

\* create with items, upsertItems
UpsertItem(l, price, enabled) ==
    /\ Changes
    /\ item' = [item EXCEPT ![l] = [price |-> price, enabled |-> enabled]]
    /\ onceListed' = IF enabled THEN onceListed \union {price} ELSE onceListed
    /\ UNCHANGED base

\* The product's own price is changed.
Reprice(price) ==
    /\ Changes
    /\ base' = price
    /\ onceListed' = onceListed \union {price}
    /\ UNCHANGED item

-----------------------------------------------------------------------------
(* Totals.                                                                 *)

CalcLineTotal(line) == line.quantity * line.price - line.discount

\* Math.round of n * p / q
Rounded(n, rate) == (2 * n * rate[1] + rate[2]) \div (2 * rate[2])

Over0(n) == IF n > 0 THEN n ELSE 0

SubTotal(lines) ==
    SumFunctionOnSet([i \in DOMAIN lines |-> CalcLineTotal(lines[i])], DOMAIN lines)

Taxable(sub, discounts) == Over0(sub - discounts)

\* deriveTaxRate: from the stored totals, which belong together
DeriveTaxRate(o) ==
    LET taxable == Taxable(o.sub, o.discounts)
    IN IF taxable = 0 THEN <<0, 1>> ELSE <<o.tax, taxable>>

FinancialStatus(total, received) ==
    IF received >= total THEN "paid"
    ELSE IF received > 0 THEN "partially_paid" ELSE "pending"

\* calcOrderTotals, without shipping: what the order's row gets
CalcOrderTotals(o, lines, discounts, rate) ==
    LET sub == SubTotal(lines)
        taxable == Taxable(sub, discounts)
        tax == Rounded(taxable, rate)
    IN [o EXCEPT !.discounts = discounts, !.sub = sub, !.tax = tax, !.total = taxable + tax]

-----------------------------------------------------------------------------
(* Drawing up and editing.                                                 *)

\* Another request joins those that are under way.
MixedBy(what) == IF Busy = {} THEN mixed ELSE mixed \union {what}

Begin(r, kind, right, read) ==
    /\ req[r] = Idle
    /\ begun < MaxRequests
    /\ begun' = begun + 1
    /\ req' = [req EXCEPT ![r] = [pc |-> "read", kind |-> kind, right |-> right, read |-> read]]
    /\ mixed' = MixedBy("edit")
    /\ overridden' = (overridden \/ right)
    /\ UNCHANGED <<base, item, order, debt, lastLine, onceListed, changed>>

\* create: by a user with or without order:override_price, or with trusted prices
BeginCreate(r, right) ==
    /\ order.st = "none"
    /\ \A q \in Busy : req[q].kind # "create"
    /\ Begin(r, "create", right, NoOrder)

\* update of an open order that is not confirmed: its lines, or discounts on them
BeginUpdate(r, kind, right) ==
    /\ order.st = "open"
    /\ Begin(r, kind, right, order)

\* assertListedPrice, unless the price stays what it was
MayCost(right, price, old) == right \/ price = old \/ price \in ListedPrices

\* A line that has no number before it is written.
New == 0

\* resolveItems and resolveEditedLines: lines of the order, changed or not, and at most one
\* new one, whose price may be left to the lists.  The others are to be removed.
Resolved(r, lines) ==
    LET old == req[r].read.lines
    IN  /\ lines # NoLines
        /\ \A i \in DOMAIN lines :
              MayCost(req[r].right, lines[i].price,
                      IF i = New THEN ResolvePrice ELSE old[i].price)

\* The line discounts of an update that sends no lines.
Discounted(r, lines) ==
    LET old == req[r].read.lines
    IN  /\ DOMAIN lines = DOMAIN old
        /\ \A i \in DOMAIN lines : [lines[i] EXCEPT !.discount = 0] = [old[i] EXCEPT !.discount = 0]

\* Mutant: the totals are added up from the lines as they were.
PricedBefore(read, lines) == IF read.lines = NoLines THEN lines ELSE read.lines

\* The lines the totals are added up from.
Priced(read, lines) == lines

\* Lines and totals are worked out from what was read; an update without a tax rate takes
\* the one in the stored totals.
Resolve(r, lines, discounts, rate) ==
    /\ req[r].pc = "read"
    /\ LET read == req[r].read
           totals == CalcOrderTotals(read, Priced(read, lines), discounts, rate)
       IN  /\ IF req[r].kind = "discounts" THEN Discounted(r, lines) ELSE Resolved(r, lines)
           /\ \A i \in DOMAIN lines : lines[i].discount <= lines[i].quantity * lines[i].price
           /\ rate \in Rates \/ (req[r].kind # "create" /\ rate = DeriveTaxRate(read))
           /\ totals.total >= read.received
           /\ req' = [req EXCEPT ![r] =
                        [pc |-> "commit", kind |-> @.kind,
                         lines |-> lines, totals |-> totals,
                         removed |-> DOMAIN read.lines \ DOMAIN lines,
                         touched |-> {i \in DOMAIN lines : @.kind # "discounts"
                                            \/ lines[i] # read.lines[i]},
                         delta |-> totals.total - read.total]]
    /\ UNCHANGED <<base, item, order, debt, lastLine, onceListed, overridden, mixed,
                   changed, begun>>

\* The lines as they are written: what the request knew of goes or is overwritten, and
\* what it did not know of stays.
Written(r) ==
    LET own == req[r].touched
        others == DOMAIN order.lines \ (req[r].removed \union own)
        number(i) == IF i = New THEN lastLine + 1 ELSE i
    IN [n \in {number(i) : i \in own} \union others |->
          LET i == IF n > lastLine THEN New ELSE n IN
          IF n \in others THEN order.lines[n]
          ELSE IF req[r].kind = "discounts"
               THEN [order.lines[i] EXCEPT !.discount = req[r].lines[i].discount]
          ELSE req[r].lines[i]]

\* The transaction, rolled back when a line it changes has gone.
Commit(r) ==
    /\ req[r].pc = "commit"
    /\ req[r].touched \ {New} \subseteq DOMAIN order.lines
    /\ New \in req[r].touched => lastLine < MaxLines
    /\ LET totals == req[r].totals
       IN order' = [totals EXCEPT !.st = "open", !.lines = Written(r),
                        !.received = order.received,
                        !.financial = FinancialStatus(totals.total, totals.received)]
    /\ debt' = debt + req[r].delta
    /\ lastLine' = IF New \in req[r].touched THEN lastLine + 1 ELSE lastLine
    /\ req' = [req EXCEPT ![r] = Idle]
    /\ UNCHANGED <<base, item, onceListed, overridden, mixed, changed, begun>>

\* Refused or rolled back.
Fail(r) ==
    /\ req[r] # Idle
    /\ req' = [req EXCEPT ![r] = Idle]
    /\ UNCHANGED <<base, item, order, debt, lastLine, onceListed, overridden, mixed,
                   changed, begun>>

\* pay, with the order's row locked: all that is owed, or a part (a first payment that
\* comes with the order is one made at once)
Pay(amount) ==
    /\ order.st = "open" /\ amount \in 1..(order.total - order.received)
    /\ LET received == order.received + amount
       IN order' = [order EXCEPT !.received = received,
                                 !.financial = FinancialStatus(order.total, received)]
    /\ debt' = debt - amount
    /\ mixed' = MixedBy("payment")
    /\ UNCHANGED <<base, item, req, lastLine, onceListed, overridden, changed, begun>>

Next ==
    \/ \E price \in Prices : \/ Reprice(price)
                             \/ \E l \in Lists, on \in BOOLEAN : UpsertItem(l, price, on)
    \/ \E r \in Reqs :
        \/ \E right \in BOOLEAN : \/ BeginCreate(r, right)
                                  \/ \E kind \in {"lines", "discounts"} :
                                        BeginUpdate(r, kind, right)
        \/ /\ req[r].pc = "read"
           /\ \E S \in SUBSET (DOMAIN req[r].read.lines \union {New}) :
                \E lines \in [S -> Lines], d \in Discounts,
                  rate \in Rates \union {DeriveTaxRate(req[r].read)} :
                    Resolve(r, lines, d, rate)
        \/ Commit(r)
        \/ Fail(r)
    \/ \E amount \in 1..order.total : Pay(amount)

Spec == Init /\ [][Next]_vars

-----------------------------------------------------------------------------
\* The types of lines and amounts.
TypeOK ==
    /\ Range(order.lines) \subseteq [price : Nat, quantity : Nat \ {0}, discount : Nat]
    /\ {order.sub, order.tax, order.total, order.received} \subseteq Nat
    /\ lastLine <= MaxLines

\* Nothing is sold at a price that was never listed, unless somebody who may set prices
\* has worked on it, however lists, lines and edits follow each other.
PricesWereListed ==
    ~overridden => \A i \in DOMAIN order.lines : order.lines[i].price \in onceListed

\* The order adds up to its lines and the customer owes what is not paid, unless two
\* edits overlapped; no more is paid than it costs, unless a payment overlapped one.
TotalsAddUp ==
    /\ "edit" \notin mixed =>
        /\ order.sub = SubTotal(order.lines)
        /\ debt = order.total - order.received
    /\ mixed = {} =>
        /\ order.received <= order.total
        /\ order.st = "open" =>
            order.financial = FinancialStatus(order.total, order.received)
=============================================================================
