----------------------------- MODULE DebtLedgers -----------------------------
(***************************************************************************)
(* The ledger of what is owed to one supplier or by one customer, and its  *)
(* pages (SupplierService.getLedger, CustomerDebtService).  Documents      *)
(* write their entries in transactions of their own: an entry has its      *)
(* moment and its id before others can see it.  A page is put together     *)
(* from several queries, beside which entries are written.                 *)
(***************************************************************************)
EXTENDS Integers, Sequences, SequencesExt

CONSTANTS
    Amounts,        \* of an entry: a debt of the shop to a supplier is negative
    Periods,        \* asked for: [from, to], Open where a bound is not given
    PageSize,
    MaxEntries,     \* bound
    MaxMoment       \* bound: entries written together share their moment

VARIABLES
    entry,          \* supplier_ledger_entries or customer_ledger_entries, by id
    clock,
    req,            \* the page that is being read
    whose           \* whose ledger it is

vars == <<entry, clock, req, whose>>

Open == -1
Types == {"document", "adjustment"}
Entry == [type : Types, amount : Amounts, at : 1..MaxMoment,
          state : {"uncommitted", "there", "undone"}]

\* The values of the constants, assumed by the module that instantiates this one.
LedgersAssumption ==
    /\ Amounts \subseteq Int \ {0}
    /\ PageSize \in Nat \ {0} /\ MaxEntries \in Nat /\ MaxMoment \in Nat \ {0}
    /\ \A p \in Periods : {p.from, p.to} \subseteq 1..MaxMoment \union {Open}

Idle == [pc |-> "idle"]

Init ==
    /\ entry = <<>> /\ clock = 1
    /\ req = Idle
    /\ whose \in {"supplier", "customer"}

-----------------------------------------------------------------------------
(* Entries.                                                                *)

\* What other readers see of the ledger has changed.  Bound: once while a page is read.
Changed ==
    /\ req # Idle => req.alone
    /\ req' = IF req = Idle THEN Idle ELSE [req EXCEPT !.alone = FALSE]

New(type, amount, state) ==
    Append(entry, [type |-> type, amount |-> amount, at |-> clock, state |-> state])

\* A receipt, a payment, an order...: recordEntry within its transaction.
WriteEntry(amount) ==
    /\ Len(entry) < MaxEntries
    /\ entry' = New("document", amount, "uncommitted")
    /\ UNCHANGED <<clock, req, whose>>

EndEntry(i) ==
    /\ entry[i].state = "uncommitted"
    /\ \/ entry' = [entry EXCEPT ![i].state = "there"] /\ Changed
       \/ entry' = [entry EXCEPT ![i].state = "undone"] /\ UNCHANGED req
    /\ UNCHANGED <<clock, whose>>

\* createAdjustment, createDebtAdjustment: one insert, of an amount other than 0
Adjustment(amount) == New("adjustment", amount, "there")
Adjust(amount) ==
    /\ Len(entry) < MaxEntries
    /\ entry' = Adjustment(amount)
    /\ Changed
    /\ UNCHANGED <<clock, whose>>

Tick ==
    /\ clock < MaxMoment
    /\ clock' = clock + 1
    /\ UNCHANGED <<entry, req, whose>>

-----------------------------------------------------------------------------
(* Queries.                                                                *)

There == {i \in DOMAIN entry : entry[i].state = "there"}
Sum(S) == SumFunctionOnSet([i \in DOMAIN entry |-> entry[i].amount], S)

Within(p, i) == (p.from = Open \/ p.from <= entry[i].at) /\ (p.to = Open \/ entry[i].at <= p.to)
Before(p, i) == p.from # Open /\ entry[i].at < p.from

\* orderBy: the newest first
Newer(i, j) == entry[i].at > entry[j].at \/ (entry[i].at = entry[j].at /\ i > j)
\* Customers' entries are ordered by their moments alone.
NewerOfCustomer(i, j) == entry[i].at > entry[j].at

\* The orders in which the database may give the entries of S.
Above(i, j) == IF whose = "supplier" THEN Newer(i, j) ELSE NewerOfCustomer(i, j)
Orders(S) ==
    {s \in SetToSeqs(S) : \A m, n \in DOMAIN s : m < n => ~Above(s[n], s[m])}

PageOf(s, page) ==
    SubSeq(s, (page - 1) * PageSize + 1, Min({page * PageSize, Len(s)}))

-----------------------------------------------------------------------------
(* The supplier's page.                                                    *)

AskSupplier(type, period, page) ==
    /\ req = Idle /\ whose = "supplier"
    /\ req' = [pc |-> "rows", type |-> type, period |-> period, page |-> page, alone |-> TRUE,
               rows |-> <<>>, total |-> 0, opening |-> 0, decreased |-> 0, increased |-> 0,
               balances |-> <<>>, closing |-> 0]
    /\ UNCHANGED <<entry, clock, whose>>

Matching(r) ==
    {i \in There : Within(r.period, i) /\ (r.type = "any" \/ entry[i].type = r.type)}

ReadRows ==
    /\ req.pc = "rows"
    /\ \E s \in Orders(Matching(req)) :
          req' = [req EXCEPT !.pc = "sums", !.rows = PageOf(s, req.page)]
    /\ UNCHANGED <<entry, clock, whose>>

\* The sums of the period: neither the type nor the text asked for counts here.
ReadSums ==
    /\ req.pc = "sums"
    /\ LET inside == {i \in There : Within(req.period, i)}
       IN  req' = [req EXCEPT !.pc = "newer", !.total = Sum(There),
                              !.opening = Sum({i \in There : Before(req.period, i)}),
                              !.decreased = Sum({i \in inside : entry[i].amount > 0}),
                              !.increased = -Sum({i \in inside : entry[i].amount < 0})]
    /\ UNCHANGED <<entry, clock, whose>>

\* The balance after the first row, then back through the rows of the page.
Balances(start, rows) ==
    LET running[n \in 1..Len(rows)] ==
            IF n = 1 THEN start ELSE running[n - 1] - entry[rows[n - 1]].amount
    IN  running

ReadNewer ==
    /\ req.pc = "newer"
    /\ LET newer == IF req.rows = <<>> THEN {}
                    ELSE {i \in There : Newer(i, req.rows[1])}
       IN  req' = [req EXCEPT !.pc = "answered",
                              !.balances = Balances(req.total - Sum(newer), req.rows),
                              !.closing = req.opening + req.decreased - req.increased]
    /\ UNCHANGED <<entry, clock, whose>>

-----------------------------------------------------------------------------
(* The customer's page: every entry, and the debt.                         *)

AskCustomer(page) ==
    /\ req = Idle /\ whose = "customer"
    /\ \E s \in Orders(There) :
          req' = [pc |-> "debt", page |-> page, alone |-> TRUE, rows |-> PageOf(s, page),
                  total |-> 0, debt |-> 0]
    /\ UNCHANGED <<entry, clock, whose>>

ReadDebt ==
    /\ req.pc = "debt"
    /\ req' = [req EXCEPT !.pc = "answered", !.total = Cardinality(There), !.debt = Sum(There)]
    /\ UNCHANGED <<entry, clock, whose>>

Leave ==
    /\ req.pc = "answered"
    /\ req' = Idle
    /\ UNCHANGED <<entry, clock, whose>>

Next ==
    \/ \E a \in Amounts : WriteEntry(a) \/ Adjust(a)
    \/ \E i \in DOMAIN entry : EndEntry(i)
    \/ Tick
    \/ \E page \in 1..MaxEntries \div PageSize + 1 :
          \/ AskCustomer(page)
          \/ \E t \in Types \union {"any"}, p \in Periods : AskSupplier(t, p, page)
    \/ ReadRows \/ ReadSums \/ ReadNewer \/ ReadDebt \/ Leave

Spec == Init /\ [][Next]_vars

-----------------------------------------------------------------------------
\* Entries are numbered in the order of their moments.
TypeOK ==
    /\ entry \in Seq(Entry)
    /\ \A i, j \in DOMAIN entry : i < j => entry[i].at <= entry[j].at
    /\ req.pc \in {"idle", "rows", "sums", "newer", "debt", "answered"}

Answered(w) == whose = w /\ req.pc = "answered" /\ req.alone

\* "The running balance over the whole ledger" (comment in getLedger): on a page of any
\* period that is not narrowed to a type, each row has the balance its entry left behind,
\* unless an entry came while the page was read.
RunningBalancesTrue ==
    Answered("supplier") /\ req.type = "any" =>
        \A n \in DOMAIN req.rows :
            req.balances[n] = Sum({i \in There : ~Newer(i, req.rows[n])})

\* The opening balance, what was added and what was taken off make the balance of the
\* period's end: with the period left open, the supplier's debt.  Of a period that ends
\* before it begins they do not; getLedger takes any.
PeriodsClose ==
    Answered("supplier") /\ (Open \in {req.period.from, req.period.to}
                                \/ req.period.from <= req.period.to) =>
        req.closing = Sum({i \in There : req.period.to = Open \/ entry[i].at <= req.period.to})

\* The row of an entry is where the entries above it put it, so that the pages of a
\* ledger hold each entry once: customers', where no two entries share a moment.
PagesMeet ==
    \A w \in {"supplier", "customer"} : Answered(w) =>
        LET book == IF w = "supplier" THEN Matching(req) ELSE There
        IN  (w = "customer" => \A i, j \in book : i # j => entry[i].at # entry[j].at) =>
                \A i \in book : \A n \in 1..PageSize :
                    (Cardinality({j \in book : Newer(j, i)}) = (req.page - 1) * PageSize + n - 1)
                        <=> (n \in DOMAIN req.rows /\ req.rows[n] = i)
=============================================================================
