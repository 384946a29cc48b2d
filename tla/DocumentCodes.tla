---------------------------- MODULE DocumentCodes ----------------------------
(***************************************************************************)
(* How documents get their codes, a prefix and a number, in one table:     *)
(*   "sequence"  orders, transfers, goods receipts, stocktakes, returns:   *)
(*               the highest number and one, under an advisory lock of the *)
(*               prefix that is held until the commit                      *)
(*   "highest"   purchase orders: the greatest code as a text, no lock     *)
(*   "count"     vouchers, returns to suppliers: the rows counted, no lock *)
(*   "latest"    suppliers: the id of the newest row and one, no lock      *)
(* Some codes are typed by hand, or come from Sapo.  A unique constraint   *)
(* stands behind all of them.  Codes are sequences of digits: a scheme is  *)
(* only as good as the order it puts texts in.                             *)
(***************************************************************************)
EXTENDS Integers, Sequences, FiniteSets, SequencesExt

CONSTANTS
    Kinds,          \* what is numbered: [table, scheme, prefix, deleted: whether rows may be]
    TypedCodes,     \* codes that are typed or imported
    Reqs,
    Radix,          \* bound: ten in the code
    Width,          \* bound: the digits a number is padded to
    MaxIds          \* bound: inserts of a behaviour

VARIABLES
    rows,           \* the table's committed rows
    ids,            \* the inserts tried so far: each takes an id
    req,
    table           \* the table of this behaviour

vars == <<rows, ids, req, table>>

Schemes == {"sequence", "highest", "count", "latest"}
Code == Seq(0..Radix - 1)

\* No kind's prefix begins another's in the table.
Alone(k) ==
    \A l \in Kinds \ {k} : l.table = k.table =>
        ~IsPrefix(k.prefix, l.prefix) /\ ~IsPrefix(l.prefix, k.prefix)

\* The values of the constants, assumed by the module that instantiates this one.
CodesAssumption ==
    /\ Radix \in Nat \ {0, 1} /\ Width \in Nat \ {0} /\ MaxIds \in Nat
    /\ \A k \in Kinds : k.scheme \in Schemes /\ k.prefix \in Code /\ k.deleted \in BOOLEAN
    /\ TypedCodes \subseteq Code
    /\ \A k, l \in Kinds : k.table = l.table => k.scheme = l.scheme
    /\ \A k, l \in Kinds : k.table = l.table /\ k.scheme \in {"highest", "latest"} => k = l
    /\ \A k \in Kinds : k.scheme = "count" => Alone(k) /\ ~k.deleted

Idle == [pc |-> "idle"]

Init ==
    /\ rows = {} /\ ids = 0
    /\ req = [q \in Reqs |-> Idle]
    /\ table \in {k.table : k \in Kinds}

-----------------------------------------------------------------------------
(* Texts and numbers.                                                      *)

Digits(n) ==
    LET d[m \in 0..n] == IF m < Radix THEN <<m>> ELSE Append(d[m \div Radix], m % Radix)
    IN  d[n]

\* padStart
Text(k, n) == k.prefix \o [i \in 1..Width - Len(Digits(n)) |-> 0] \o Digits(n)
Value(s) ==
    LET v[i \in 0..Len(s)] == IF i = 0 THEN 0 ELSE Radix * v[i - 1] + s[i]
    IN  v[Len(s)]
NumberIn(k, c) == Value(SubSeq(c, Len(k.prefix) + 1, Len(c)))

\* The order of texts, and that of nextSequentialCode: the longer first.
TextBelow(c, d) ==
    \/ c # d /\ IsPrefix(c, d)
    \/ \E i \in 1..Len(c) :
          i <= Len(d) /\ c[i] < d[i] /\ \A j \in 1..i - 1 : c[j] = d[j]
CodeBelow(c, d) == Len(c) < Len(d) \/ (Len(c) = Len(d) /\ TextBelow(c, d))

Codes == {r.code : r \in rows}

-----------------------------------------------------------------------------
(* The next number of each scheme.                                         *)

\* The pattern: the prefix and a number of at least so many digits.
Fits(k, c) == IsPrefix(k.prefix, c) /\ Len(c) >= Len(k.prefix) + Width

\* Mutant: texts compared as they are.
TextOrder(c, d) == TextBelow(c, d)

Below(c, d) == CodeBelow(c, d)

\* orderBy ... limit 1: the one row, or none.
Highest(C) == {c \in C : \A d \in C \ {c} : Below(d, c)}
Greatest(C) == {c \in C : \A d \in C \ {c} : TextBelow(d, c)}

After(k, found) == IF found = {} THEN 1 ELSE NumberIn(k, CHOOSE c \in found : TRUE) + 1

\* The row with the highest id: one, or none.
Latest == {r \in rows : \A s \in rows : s.id <= r.id}

NextNumber(k) ==
    CASE k.scheme = "sequence" -> After(k, Highest({c \in Codes : Fits(k, c)}))
      [] k.scheme = "highest" -> After(k, Greatest(Codes))
      [] k.scheme = "count" -> Cardinality({r \in rows : IsPrefix(k.prefix, r.code)}) + 1
      [] k.scheme = "latest" -> IF rows = {} THEN 1
                                ELSE (CHOOSE r \in Latest : TRUE).id + 1

-----------------------------------------------------------------------------
(* A document is drawn up.                                                 *)

Free(q, c) == c \notin Codes /\ \A p \in Reqs \ {q} : req[p].pc = "inserted" => req[p].code # c

\* pg_advisory_xact_lock, until the transaction ends.
Holds(q, k) == req[q].pc # "idle" /\ req[q].scheme = "sequence" /\ req[q].prefix = k.prefix
                  /\ ~req[q].typed

\* What is typed stands in the table.
ByHand == Codes \intersect TypedCodes

\* `beside' is history: whether the code was drawn beside typed ones.
Have(q, k, c, typed) ==
    /\ req' = [req EXCEPT ![q] = [pc |-> "coded", id |-> 0, code |-> c, typed |-> typed,
                                  scheme |-> k.scheme, prefix |-> k.prefix,
                                  beside |-> ByHand # {}]]
    /\ UNCHANGED <<rows, ids, table>>

\* The code is the program's.
Number(q, k) ==
    /\ req[q].pc = "idle" /\ k.table = table
    /\ k.scheme = "sequence" => \A p \in Reqs : ~Holds(p, k)
    /\ Have(q, k, Text(k, NextNumber(k)), FALSE)

\* It is typed: resolveCode, the code of a supplier, the name of an order at Sapo.
TypeCode(q, k, c) ==
    /\ req[q].pc = "idle" /\ k.table = table
    /\ k.scheme \in {"sequence", "latest"}
    /\ c \notin Codes
    /\ Have(q, k, c, TRUE)

\* A code that another transaction inserts is waited for.
Insert(q) ==
    /\ req[q].pc = "coded" /\ ids < MaxIds
    /\ Free(q, req[q].code)
    /\ ids' = ids + 1
    /\ req' = [req EXCEPT ![q] = [@ EXCEPT !.pc = "inserted", !.id = ids + 1]]
    /\ UNCHANGED <<rows, table>>

\* The unique constraint refuses what is there already, after it has taken an id; a
\* handler that looks first takes none.
Refused(q) ==
    /\ req[q].pc = "coded"
    /\ req[q].code \in Codes
    /\ ids' \in {ids, ids + 1} /\ ids' <= MaxIds
    /\ req' = [req EXCEPT ![q] = Idle]
    /\ UNCHANGED <<rows, table>>

Commit(q) ==
    /\ req[q].pc = "inserted"
    /\ rows' = rows \union {[id |-> req[q].id, code |-> req[q].code]}
    /\ req' = [req EXCEPT ![q] = Idle]
    /\ UNCHANGED <<ids, table>>

\* Something else of the document fails.
Rollback(q) ==
    /\ req[q].pc # "idle"
    /\ req' = [req EXCEPT ![q] = Idle]
    /\ UNCHANGED <<rows, ids, table>>

\* Drafts of transfers and purchase orders, and receipts, are deleted.
Delete(r) ==
    /\ \E k \in Kinds : k.table = table /\ k.deleted
    /\ rows' = rows \ {r}
    /\ UNCHANGED <<ids, req, table>>

Next ==
    \/ \E q \in Reqs :
          \/ \E k \in Kinds : Number(q, k) \/ \E c \in TypedCodes : TypeCode(q, k, c)
          \/ Insert(q) \/ Refused(q) \/ Commit(q) \/ Rollback(q)
    \/ \E r \in rows : Delete(r)

Spec == Init /\ [][Next]_vars

-----------------------------------------------------------------------------
\* Rows have ids and codes, no two of them the same.
TypeOK ==
    /\ \A r \in rows : r.id \in 1..ids /\ r.code \in Code
    /\ \A r, s \in rows : r # s => r.id # s.id /\ r.code # s.code
    /\ \A q \in Reqs : req[q].pc \in {"idle", "coded", "inserted"}

\* The code is one that Text gives to some number.
WellFormed(k, c) == Fits(k, c) /\ c = Text(k, NumberIn(k, c))

Typed(q) == req[q].pc # "idle" /\ req[q].typed

\* `nextSequentialCode': whoever draws up a document at the same moment, one that the
\* program numbers is not refused for its code, as long as no code is typed beside it.
NumberedUnderLock ==
    ByHand = {} => \A q \in Reqs :
        ( /\ req[q].pc = "coded" /\ req[q].scheme = "sequence" /\ ~req[q].beside
          /\ \A p \in Reqs : ~Typed(p)
          /\ \A k \in Kinds : k.table = table /\ k.prefix = req[q].prefix => Alone(k) )
        => Free(q, req[q].code)

\* The next number is never taken, or whoever asks for one would be refused for good:
\* under a lock, whatever is typed or deleted, for prefixes that do not begin one another
\* and codes of the padded form ("every code is padded, so longer is larger", comment in
\* sequential-code.ts); of purchase orders until the numbers outgrow their digits; of counted
\* rows, which are never deleted; and of suppliers while no code is typed.
NextIsFree ==
    \A k \in Kinds :
        ( /\ k.table = table
          /\ k.scheme = "sequence" =>
                Alone(k) /\ \A c \in Codes : Fits(k, c) => WellFormed(k, c)
          /\ k.scheme = "highest" =>
                \A c \in Codes : Len(c) <= Len(k.prefix) + Width
          /\ k.scheme = "latest" => ByHand = {} )
        => Text(k, NextNumber(k)) \notin Codes
=============================================================================
