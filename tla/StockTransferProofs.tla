------------------------- MODULE StockTransferProofs -------------------------
(***************************************************************************)
(* Theorems about StockTransfer, for every set of warehouses, variants,    *)
(* documents and requests, and every opening stock.                        *)
(***************************************************************************)
EXTENDS StockTransfer, SharedLemmas

-----------------------------------------------------------------------------
(* What the movements of an operation do to the stock.                     *)

\* Whatever a document may say, with one warehouse as both ends included.
AllContents == [from : Locations, to : Locations, qty : {d.qty : d \in Contents}]

\* The quantities of a content are positive numbers of variants.
LEMMA ContentType ==
    ASSUME NEW c \in AllContents
    PROVE  /\ c.from \in Locations /\ c.to \in Locations
           /\ DOMAIN c.qty \subseteq Variants
           /\ \A v \in DOMAIN c.qty : c.qty[v] \in Nat \ {0}
BY ContentsAssumption DEF AllContents

\* A share of a row is a number.
LEMMA ShareType ==
    ASSUME NEW c \in AllContents, NEW r, NEW end
    PROVE  Share(c, r, end) \in Nat
BY ContentType DEF Share

\* What an operation on content c adds to each bucket of row r.
CommittedChange(op, c, r) ==
    IF op = "submit" THEN Share(c, r, "from")
    ELSE IF op \in {"ship", "cancel_pending"} THEN -Share(c, r, "from") ELSE 0

OnHandChange(op, c, r) ==
    IF op = "ship" THEN -Share(c, r, "from")
    ELSE IF op = "receive" THEN Share(c, r, "to")
    ELSE IF op = "cancel_transferring" THEN Share(c, r, "from") ELSE 0

IncomingChange(op, c, r) ==
    IF op = "ship" THEN Share(c, r, "to")
    ELSE IF op \in {"receive", "cancel_transferring"} THEN -Share(c, r, "to") ELSE 0

\* One entry of a line changes one bucket.
LEMMA EntryMoves ==
    ASSUME NEW l \in Level, NEW b \in Buckets, NEW n \in Int, NEW t \in MovementTypes
    PROVE  /\ Entry(b, n, t) \in Movement
           /\ Moved(l, Entry(b, n, t)) \in Level
           /\ Moved(l, Entry(b, n, t))[b] = l[b] + n
           /\ \A a \in Buckets \ {b} : Moved(l, Entry(b, n, t))[a] = l[a]
<1> DEFINE m == Entry(b, n, t)
<1>1. m \in Movement /\ m.bucket = b /\ m.change = n
  BY DEF Entry, Movement
<1> HIDE DEF m
<1> QED
  BY <1>1, MovedType DEF m

\* The rows of a document's lines at one warehouse.
LEMMA LinesAt ==
    ASSUME NEW c \in AllContents, NEW loc \in Locations, NEW r
    PROVE  /\ (DOMAIN c.qty) \X {loc} \subseteq Rows
           /\ r \in (DOMAIN c.qty) \X {loc}
                <=> r \in Rows /\ r[1] \in DOMAIN c.qty /\ r[2] = loc
BY ContentType DEF Rows

\* The line of a row, operation by operation; a row that is both ends of a
\* transfer gets the entries of both.
LEMMA SubmitLine ==
    ASSUME NEW c \in AllContents, NEW r \in Rows
    PROVE  /\ r \in DOMAIN SubmitLines(c) <=> r[1] \in DOMAIN c.qty /\ r[2] = c.from
           /\ r \in DOMAIN SubmitLines(c) => SubmitLines(c)[r] =
                PostLine(<<Entry("committed", c.qty[r[1]], "transfer_reserve")>>)
BY ContentType, LinesAt DEF SubmitLines, Lines

\* The lines a receipt posts: one for each variant, at the destination.
LEMMA ReceiveLine ==
    ASSUME NEW c \in AllContents, NEW r \in Rows
    PROVE  /\ r \in DOMAIN ReceiveLines(c) <=> r[1] \in DOMAIN c.qty /\ r[2] = c.to
           /\ r \in DOMAIN ReceiveLines(c) => ReceiveLines(c)[r] =
                PostLine(<<Entry("incoming", -c.qty[r[1]], "incoming_receipt"),
                           Entry("on_hand", c.qty[r[1]], "transfer_in")>>)
BY ContentType, LinesAt DEF ReceiveLines, Lines

\* The lines a cancellation before the shipment posts: the source's reservations.
LEMMA CancelPendingLine ==
    ASSUME NEW c \in AllContents, NEW r \in Rows
    PROVE  /\ r \in DOMAIN CancelPendingLines(c)
                <=> r[1] \in DOMAIN c.qty /\ r[2] = c.from
           /\ r \in DOMAIN CancelPendingLines(c) => CancelPendingLines(c)[r] =
                PostLine(<<Entry("committed", -c.qty[r[1]], "transfer_release")>>)
BY ContentType, LinesAt DEF CancelPendingLines, Lines

\* The lines a shipment posts: out of the source, and on the way to the destination.
LEMMA ShipLine ==
    ASSUME NEW c \in AllContents, NEW r \in Rows
    PROVE  /\ r \in DOMAIN ShipLines(c)
                <=> r[1] \in DOMAIN c.qty /\ (r[2] = c.from \/ r[2] = c.to)
           /\ r \in DOMAIN ShipLines(c) => ShipLines(c)[r] = PostLine(
                (IF r[2] = c.from
                 THEN <<Entry("committed", -c.qty[r[1]], "transfer_release"),
                        Entry("on_hand", -c.qty[r[1]], "transfer_out")>> ELSE << >>)
                \o (IF r[2] = c.to
                    THEN <<Entry("incoming", c.qty[r[1]], "incoming_transfer")>>
                    ELSE << >>))
<1> DEFINE d == [s \in (DOMAIN c.qty) \X {c.from} |->
                    PostLine(<<Entry("committed", -c.qty[s[1]], "transfer_release"),
                               Entry("on_hand", -c.qty[s[1]], "transfer_out")>>)]
           e == [s \in (DOMAIN c.qty) \X {c.to} |->
                    PostLine(<<Entry("incoming", c.qty[s[1]], "incoming_transfer")>>)]
<1>1. ShipLines(c) = Merge(d, e)
  BY DEF ShipLines, Lines
<1>2. /\ r \in DOMAIN d <=> r[1] \in DOMAIN c.qty /\ r[2] = c.from
      /\ r \in DOMAIN e <=> r[1] \in DOMAIN c.qty /\ r[2] = c.to
  BY ContentType, LinesAt
<1>3. /\ r \in DOMAIN d => d[r].moves =
            <<Entry("committed", -c.qty[r[1]], "transfer_release"),
              Entry("on_hand", -c.qty[r[1]], "transfer_out")>>
      /\ r \in DOMAIN e => e[r].moves =
            <<Entry("incoming", c.qty[r[1]], "incoming_transfer")>>
  BY DEF PostLine
<1> HIDE DEF d, e
<1> QED
  BY <1>1, <1>2, <1>3 DEF Merge

\* The lines a cancellation on the way posts: the shipment's, backwards.
LEMMA CancelTransferringLine ==
    ASSUME NEW c \in AllContents, NEW r \in Rows
    PROVE  /\ r \in DOMAIN CancelTransferringLines(c)
                <=> r[1] \in DOMAIN c.qty /\ (r[2] = c.from \/ r[2] = c.to)
           /\ r \in DOMAIN CancelTransferringLines(c) =>
                CancelTransferringLines(c)[r] = PostLine(
                (IF r[2] = c.from
                 THEN <<Entry("on_hand", c.qty[r[1]], "transfer_in")>> ELSE << >>)
                \o (IF r[2] = c.to
                    THEN <<Entry("incoming", -c.qty[r[1]], "incoming_cancel")>>
                    ELSE << >>))
<1> DEFINE d == [s \in (DOMAIN c.qty) \X {c.from} |->
                    PostLine(<<Entry("on_hand", c.qty[s[1]], "transfer_in")>>)]
           e == [s \in (DOMAIN c.qty) \X {c.to} |->
                    PostLine(<<Entry("incoming", -c.qty[s[1]], "incoming_cancel")>>)]
<1>1. CancelTransferringLines(c) = Merge(d, e)
  BY DEF CancelTransferringLines, Lines
<1>2. /\ r \in DOMAIN d <=> r[1] \in DOMAIN c.qty /\ r[2] = c.from
      /\ r \in DOMAIN e <=> r[1] \in DOMAIN c.qty /\ r[2] = c.to
  BY ContentType, LinesAt
<1>3. /\ r \in DOMAIN d => d[r].moves = <<Entry("on_hand", c.qty[r[1]], "transfer_in")>>
      /\ r \in DOMAIN e => e[r].moves =
            <<Entry("incoming", -c.qty[r[1]], "incoming_cancel")>>
  BY DEF PostLine
<1> HIDE DEF d, e
<1> QED
  BY <1>1, <1>2, <1>3 DEF Merge

\* The lines of an operation are of rows of the stock.
LEMMA LinesDomain ==
    ASSUME NEW op \in Ops, NEW c \in AllContents
    PROVE  DOMAIN LinesOf(op, c) \subseteq Rows
<1>1. /\ (DOMAIN c.qty) \X {c.from} \subseteq Rows
      /\ (DOMAIN c.qty) \X {c.to} \subseteq Rows
  BY ContentType, LinesAt
<1> QED
  BY <1>1 DEF Ops, LinesOf, SubmitLines, ReceiveLines, CancelPendingLines,
     ShipLines, CancelTransferringLines, Merge, Lines

\* Level m differs from level l by the given numbers.
Differs(l, m, onHand, committed, incoming) ==
    /\ m \in Level
    /\ m["on_hand"] = l["on_hand"] + onHand
    /\ m["committed"] = l["committed"] + committed
    /\ m["incoming"] = l["incoming"] + incoming
    /\ m["packed"] = l["packed"] /\ m["unavailable"] = l["unavailable"]

\* No difference, and one after the other.
LEMMA NoDifference ==
    ASSUME NEW l \in Level
    PROVE  Differs(l, l, 0, 0, 0)
BY DEF Differs, Level, Buckets

\* Differences between levels add up.
LEMMA Differences ==
    ASSUME NEW l \in Level, NEW k, NEW m,
           NEW a \in Int, NEW b \in Int, NEW c \in Int,
           NEW d \in Int, NEW e \in Int, NEW f \in Int,
           Differs(l, k, a, b, c), Differs(k, m, d, e, f)
    PROVE  Differs(l, m, a + d, b + e, c + f)
<1>1. \A x \in Buckets : l[x] \in Int /\ k[x] \in Int
  BY DEF Differs, Level
<1> QED
  BY <1>1 DEF Differs, Buckets

\* What one entry does.
LEMMA OneEntry ==
    ASSUME NEW l \in Level, NEW n \in Int, NEW t \in MovementTypes
    PROVE  /\ \A b \in Buckets : Entry(b, n, t) \in Movement
           /\ Differs(l, Moved(l, Entry("on_hand", n, t)), n, 0, 0)
           /\ Differs(l, Moved(l, Entry("committed", n, t)), 0, n, 0)
           /\ Differs(l, Moved(l, Entry("incoming", n, t)), 0, 0, n)
<1>1. {"on_hand", "committed", "incoming", "packed", "unavailable"} = Buckets
  BY DEF Buckets
<1>2. \A b \in Buckets : l[b] \in Int /\ l[b] + 0 = l[b]
  BY DEF Level
<1>3. ASSUME NEW b \in Buckets
      PROVE  LET m == Moved(l, Entry(b, n, t))
             IN  /\ Entry(b, n, t) \in Movement /\ m \in Level /\ m[b] = l[b] + n
                 /\ \A a \in Buckets \ {b} : m[a] = l[a] + 0 /\ m[a] = l[a]
  BY <1>2, EntryMoves
<1>4. /\ "on_hand" \in Buckets /\ "committed" \in Buckets /\ "incoming" \in Buckets
      /\ "packed" \in Buckets /\ "unavailable" \in Buckets
  BY <1>1
<1>5. Differs(l, Moved(l, Entry("on_hand", n, t)), n, 0, 0)
  BY <1>3, <1>4 DEF Differs
<1>6. Differs(l, Moved(l, Entry("committed", n, t)), 0, n, 0)
  BY <1>3, <1>4 DEF Differs
<1>7. Differs(l, Moved(l, Entry("incoming", n, t)), 0, 0, n)
  BY <1>3, <1>4 DEF Differs
<1> QED
  BY <1>3, <1>5, <1>6, <1>7

\* What the lines of the operations do: k stands for the quantity taken away.
LEMMA BatchesDo ==
    ASSUME NEW l \in Level, NEW n \in Int, NEW k \in Int
    PROVE  LET reserve == Entry("committed", n, "transfer_reserve")
               release == Entry("committed", k, "transfer_release")
               out == Entry("on_hand", k, "transfer_out")
               back == Entry("on_hand", n, "transfer_in")
               announce == Entry("incoming", n, "incoming_transfer")
               arrive == Entry("incoming", k, "incoming_receipt")
               recall == Entry("incoming", k, "incoming_cancel")
               after(batch) == AfterLine(l, PostLine(batch))
           IN  /\ {reserve, release, out, back, announce, arrive, recall} \subseteq Movement
               /\ Differs(l, after(<<reserve>>), 0, n, 0)
               /\ Differs(l, after(<<release>>), 0, k, 0)
               /\ Differs(l, after(<<release, out>>), k, k, 0)
               /\ Differs(l, after(<<announce>>), 0, 0, n)
               /\ Differs(l, after(<<release, out, announce>>), k, k, n)
               /\ Differs(l, after(<<arrive, back>>), n, 0, k)
               /\ Differs(l, after(<<back>>), n, 0, 0)
               /\ Differs(l, after(<<recall>>), 0, 0, k)
               /\ Differs(l, after(<<back, recall>>), n, 0, k)
<1> DEFINE reserve == Entry("committed", n, "transfer_reserve")
           release == Entry("committed", k, "transfer_release")
           out == Entry("on_hand", k, "transfer_out")
           back == Entry("on_hand", n, "transfer_in")
           announce == Entry("incoming", n, "incoming_transfer")
           arrive == Entry("incoming", k, "incoming_receipt")
           recall == Entry("incoming", k, "incoming_cancel")
<1>1. /\ "transfer_reserve" \in MovementTypes /\ "transfer_release" \in MovementTypes
      /\ "transfer_out" \in MovementTypes /\ "transfer_in" \in MovementTypes
      /\ "incoming_transfer" \in MovementTypes /\ "incoming_receipt" \in MovementTypes
      /\ "incoming_cancel" \in MovementTypes
      /\ "on_hand" \in Buckets /\ "committed" \in Buckets /\ "incoming" \in Buckets
  BY DEF MovementTypes, Buckets
<1>2. \A x \in Level :
          /\ Differs(x, Moved(x, reserve), 0, n, 0) /\ Differs(x, Moved(x, release), 0, k, 0)
          /\ Differs(x, Moved(x, out), k, 0, 0) /\ Differs(x, Moved(x, back), n, 0, 0)
          /\ Differs(x, Moved(x, announce), 0, 0, n) /\ Differs(x, Moved(x, arrive), 0, 0, k)
          /\ Differs(x, Moved(x, recall), 0, 0, k)
  BY <1>1, OneEntry
<1>3. {reserve, release, out, back, announce, arrive, recall} \subseteq Movement
  BY <1>1, OneEntry
<1> HIDE DEF reserve, release, out, back, announce, arrive, recall
<1>5. \A x, y, a, b, c : Differs(x, y, a, b, c) => y \in Level
  BY DEF Differs
<1>6. 0 + n = n /\ n + 0 = n /\ 0 + k = k /\ k + 0 = k /\ 0 + 0 = 0 /\ 0 \in Int
  OBVIOUS
<1>7. Differs(l, Moved(Moved(l, release), out), k, k, 0)
  BY <1>2, <1>5, <1>6, Differences
<1>8. Differs(l, Moved(Moved(Moved(l, release), out), announce), k, k, n)
  BY <1>2, <1>5, <1>6, <1>7, Differences
<1>9. Differs(l, Moved(Moved(l, arrive), back), n, 0, k)
  BY <1>2, <1>5, <1>6, Differences
<1>10. Differs(l, Moved(Moved(l, back), recall), n, 0, k)
  BY <1>2, <1>5, <1>6, Differences
<1>11. /\ \A a : AfterLine(l, PostLine(<<a>>)) = Moved(l, a)
       /\ \A a, b : AfterLine(l, PostLine(<<a, b>>)) = Moved(Moved(l, a), b)
       /\ \A a, b, c : AfterLine(l, PostLine(<<a, b, c>>)) = Moved(Moved(Moved(l, a), b), c)
  BY BatchOfOne, BatchOfTwo, BatchOfThree
<1> QED
  BY <1>2, <1>3, <1>7, <1>8, <1>9, <1>10, <1>11
  DEF reserve, release, out, back, announce, arrive, recall

\* The level of row r after an operation's document.
After(l, op, c, r) ==
    IF r \in DOMAIN LinesOf(op, c) THEN AfterLine(l, LinesOf(op, c)[r]) ELSE l

\* A line is a batch of movements, and changes its row as said above.
LineDoes(l, op, c, r) ==
    /\ r \in DOMAIN LinesOf(op, c) =>
          \E moves \in Seq(Movement) : LinesOf(op, c)[r] = PostLine(moves)
    /\ Differs(l, After(l, op, c, r), OnHandChange(op, c, r), CommittedChange(op, c, r),
                                      IncomingChange(op, c, r))

\* The shares of a row, by the line it has.
LEMMA Shares ==
    ASSUME NEW c \in AllContents, NEW r \in Rows
    PROVE  /\ Share(c, r, "from") = IF r[2] = c.from /\ r[1] \in DOMAIN c.qty
                                    THEN c.qty[r[1]] ELSE 0
           /\ Share(c, r, "to") = IF r[2] = c.to /\ r[1] \in DOMAIN c.qty
                                  THEN c.qty[r[1]] ELSE 0
           /\ r[1] \in DOMAIN c.qty => c.qty[r[1]] \in Int /\ -c.qty[r[1]] \in Int
BY ContentType DEF Share

\* Taking nothing away.
LEMMA MinusNothing == \A x : x = 0 => -x = 0
<1> SUFFICES ASSUME NEW x, x = 0 PROVE -x = 0
  OBVIOUS
<1>1. \A y \in Int : -y = 0 - y
  OBVIOUS
<1> HIDE <1>1
<1>2. x \in Int
  OBVIOUS
<1>3. -x = 0 - x
  BY <1>1, <1>2
<1> QED
  BY <1>3

\* What each operation does to a row, whichever of its lines the row has.
LEMMA SubmitDoes ==
    ASSUME NEW c \in AllContents, NEW r \in Rows, NEW l \in Level
    PROVE  LineDoes(l, "submit", c, r)
<1> DEFINE n == c.qty[r[1]]
           k == -n
           from == Share(c, r, "from")
           to == Share(c, r, "to")
           reserve == Entry("committed", n, "transfer_reserve")
<1>1. /\ LinesOf("submit", c) = SubmitLines(c)
      /\ OnHandChange("submit", c, r) = 0
      /\ CommittedChange("submit", c, r) = from
      /\ IncomingChange("submit", c, r) = 0
  BY DEF LinesOf, CommittedChange, OnHandChange, IncomingChange
<1>2. CASE r \in DOMAIN SubmitLines(c)
  <2>1. /\ r[1] \in DOMAIN c.qty /\ r[2] = c.from
        /\ SubmitLines(c)[r] = PostLine(<<reserve>>)
    BY <1>2, SubmitLine
  <2>2. /\ n \in Int /\ k \in Int
        /\ from = (IF r[2] = c.from THEN n ELSE 0) /\ to = (IF r[2] = c.to THEN n ELSE 0)
    BY <2>1, Shares
  <2>3. {reserve} \subseteq Movement
    BY <2>2, BatchesDo
  <2>4. Differs(l, AfterLine(l, PostLine(<<reserve>>)), 0, n, 0)
    BY <2>2, BatchesDo
  <2> HIDE DEF n, k, from, to, reserve
  <2>5. /\ After(l, "submit", c, r) = AfterLine(l, PostLine(<<reserve>>))
        /\ <<reserve>> \in Seq(Movement)
    BY <1>1, <1>2, <2>1, <2>3 DEF After
  <2>6. /\ OnHandChange("submit", c, r) = 0
        /\ CommittedChange("submit", c, r) = n
        /\ IncomingChange("submit", c, r) = 0
    BY <1>1, <2>1, <2>2 DEF k
  <2> QED
    BY <1>1, <2>1, <2>4, <2>5, <2>6 DEF LineDoes
<1>3. CASE r \notin DOMAIN SubmitLines(c)
  <2> HIDE DEF from, to
  <2>1. from = 0
    BY <1>3, SubmitLine, Shares DEF from, to
  <2>2. /\ OnHandChange("submit", c, r) = 0 /\ CommittedChange("submit", c, r) = 0
        /\ IncomingChange("submit", c, r) = 0
    BY <1>1, <2>1, MinusNothing
  <2>3. After(l, "submit", c, r) = l
    BY <1>1, <1>3 DEF After
  <2> QED
    BY <1>1, <1>3, <2>2, <2>3, NoDifference DEF LineDoes
<1> QED
  BY <1>2, <1>3

\* What the cancellation of a pending transfer does to a row, in numbers.
LEMMA CancelPendingDoes ==
    ASSUME NEW c \in AllContents, NEW r \in Rows, NEW l \in Level
    PROVE  LineDoes(l, "cancel_pending", c, r)
<1> DEFINE n == c.qty[r[1]]
           k == -n
           from == Share(c, r, "from")
           to == Share(c, r, "to")
           release == Entry("committed", k, "transfer_release")
<1>1. /\ LinesOf("cancel_pending", c) = CancelPendingLines(c)
      /\ OnHandChange("cancel_pending", c, r) = 0
      /\ CommittedChange("cancel_pending", c, r) = -from
      /\ IncomingChange("cancel_pending", c, r) = 0
  BY DEF LinesOf, CommittedChange, OnHandChange, IncomingChange
<1>2. CASE r \in DOMAIN CancelPendingLines(c)
  <2>1. /\ r[1] \in DOMAIN c.qty /\ r[2] = c.from
        /\ CancelPendingLines(c)[r] = PostLine(<<release>>)
    BY <1>2, CancelPendingLine
  <2>2. /\ n \in Int /\ k \in Int
        /\ from = (IF r[2] = c.from THEN n ELSE 0) /\ to = (IF r[2] = c.to THEN n ELSE 0)
    BY <2>1, Shares
  <2>3. {release} \subseteq Movement
    BY <2>2, BatchesDo
  <2>4. Differs(l, AfterLine(l, PostLine(<<release>>)), 0, k, 0)
    BY <2>2, BatchesDo
  <2> HIDE DEF n, k, from, to, release
  <2>5. /\ After(l, "cancel_pending", c, r) = AfterLine(l, PostLine(<<release>>))
        /\ <<release>> \in Seq(Movement)
    BY <1>1, <1>2, <2>1, <2>3 DEF After
  <2>6. /\ OnHandChange("cancel_pending", c, r) = 0
        /\ CommittedChange("cancel_pending", c, r) = k
        /\ IncomingChange("cancel_pending", c, r) = 0
    BY <1>1, <2>1, <2>2 DEF k
  <2> QED
    BY <1>1, <2>1, <2>4, <2>5, <2>6 DEF LineDoes
<1>3. CASE r \notin DOMAIN CancelPendingLines(c)
  <2> HIDE DEF from, to
  <2>1. from = 0
    BY <1>3, CancelPendingLine, Shares DEF from, to
  <2>2. /\ OnHandChange("cancel_pending", c, r) = 0 /\ CommittedChange("cancel_pending", c, r) = 0
        /\ IncomingChange("cancel_pending", c, r) = 0
    BY <1>1, <2>1, MinusNothing
  <2>3. After(l, "cancel_pending", c, r) = l
    BY <1>1, <1>3 DEF After
  <2> QED
    BY <1>1, <1>3, <2>2, <2>3, NoDifference DEF LineDoes
<1> QED
  BY <1>2, <1>3

\* What a receipt does to a row.
LEMMA ReceiveDoes ==
    ASSUME NEW c \in AllContents, NEW r \in Rows, NEW l \in Level
    PROVE  LineDoes(l, "receive", c, r)
<1> DEFINE n == c.qty[r[1]]
           k == -n
           from == Share(c, r, "from")
           to == Share(c, r, "to")
           arrive == Entry("incoming", k, "incoming_receipt")
           back == Entry("on_hand", n, "transfer_in")
<1>1. /\ LinesOf("receive", c) = ReceiveLines(c)
      /\ OnHandChange("receive", c, r) = to
      /\ CommittedChange("receive", c, r) = 0
      /\ IncomingChange("receive", c, r) = -to
  BY DEF LinesOf, CommittedChange, OnHandChange, IncomingChange
<1>2. CASE r \in DOMAIN ReceiveLines(c)
  <2>1. /\ r[1] \in DOMAIN c.qty /\ r[2] = c.to
        /\ ReceiveLines(c)[r] = PostLine(<<arrive, back>>)
    BY <1>2, ReceiveLine
  <2>2. /\ n \in Int /\ k \in Int
        /\ from = (IF r[2] = c.from THEN n ELSE 0) /\ to = (IF r[2] = c.to THEN n ELSE 0)
    BY <2>1, Shares
  <2>3. {arrive, back} \subseteq Movement
    BY <2>2, BatchesDo
  <2>4. Differs(l, AfterLine(l, PostLine(<<arrive, back>>)), n, 0, k)
    BY <2>2, BatchesDo
  <2> HIDE DEF n, k, from, to, arrive, back
  <2>5. /\ After(l, "receive", c, r) = AfterLine(l, PostLine(<<arrive, back>>))
        /\ <<arrive, back>> \in Seq(Movement)
    BY <1>1, <1>2, <2>1, <2>3 DEF After
  <2>6. /\ OnHandChange("receive", c, r) = n
        /\ CommittedChange("receive", c, r) = 0
        /\ IncomingChange("receive", c, r) = k
    BY <1>1, <2>1, <2>2 DEF k
  <2> QED
    BY <1>1, <2>1, <2>4, <2>5, <2>6 DEF LineDoes
<1>3. CASE r \notin DOMAIN ReceiveLines(c)
  <2> HIDE DEF from, to
  <2>1. to = 0
    BY <1>3, ReceiveLine, Shares DEF from, to
  <2>2. /\ OnHandChange("receive", c, r) = 0 /\ CommittedChange("receive", c, r) = 0
        /\ IncomingChange("receive", c, r) = 0
    BY <1>1, <2>1, MinusNothing
  <2>3. After(l, "receive", c, r) = l
    BY <1>1, <1>3 DEF After
  <2> QED
    BY <1>1, <1>3, <2>2, <2>3, NoDifference DEF LineDoes
<1> QED
  BY <1>2, <1>3

\* What a shipment does to a row.
LEMMA ShipDoes ==
    ASSUME NEW c \in AllContents, NEW r \in Rows, NEW l \in Level
    PROVE  LineDoes(l, "ship", c, r)
<1> DEFINE n == c.qty[r[1]]
           k == -n
           from == Share(c, r, "from")
           to == Share(c, r, "to")
           release == Entry("committed", k, "transfer_release")
           out == Entry("on_hand", k, "transfer_out")
           announce == Entry("incoming", n, "incoming_transfer")
<1>1. /\ LinesOf("ship", c) = ShipLines(c)
      /\ OnHandChange("ship", c, r) = -from
      /\ CommittedChange("ship", c, r) = -from
      /\ IncomingChange("ship", c, r) = to
  BY DEF LinesOf, CommittedChange, OnHandChange, IncomingChange
<1>2. CASE r \in DOMAIN ShipLines(c)
  <2>1. /\ r[1] \in DOMAIN c.qty /\ (r[2] = c.from \/ r[2] = c.to)
        /\ ShipLines(c)[r] = PostLine((IF r[2] = c.from THEN <<release, out>> ELSE << >>)
                                  \o (IF r[2] = c.to THEN <<announce>> ELSE << >>))
    BY <1>2, ShipLine
  <2>2. /\ n \in Int /\ k \in Int
        /\ from = (IF r[2] = c.from THEN n ELSE 0) /\ to = (IF r[2] = c.to THEN n ELSE 0)
    BY <2>1, Shares
  <2>3. {release, out, announce} \subseteq Movement
    BY <2>2, BatchesDo
  <2>4. Differs(l, AfterLine(l, PostLine(<<release, out>>)), k, k, 0)
    BY <2>2, BatchesDo
  <2>5. Differs(l, AfterLine(l, PostLine(<<announce>>)), 0, 0, n)
    BY <2>2, BatchesDo
  <2>6. Differs(l, AfterLine(l, PostLine(<<release, out, announce>>)), k, k, n)
    BY <2>2, BatchesDo
  <2> HIDE DEF n, k, from, to, release, out, announce
  <2>7. /\ <<release, out>> \o << >> = <<release, out>> /\ << >> \o <<announce>> = <<announce>>
        /\ <<release, out>> \o <<announce>> = <<release, out, announce>>
    <3>1. release \in Movement /\ out \in Movement /\ announce \in Movement
      BY <2>3
    <3> QED
      BY <3>1, Joined
  <2>8. CASE r[2] = c.from /\ r[2] # c.to
    <3>1. ShipLines(c)[r] = PostLine(<<release, out>>)
      BY <2>1, <2>7, <2>8
    <3>2. /\ After(l, "ship", c, r) = AfterLine(l, PostLine(<<release, out>>))
          /\ <<release, out>> \in Seq(Movement)
      BY <1>1, <1>2, <2>3, <3>1 DEF After
    <3>3. /\ OnHandChange("ship", c, r) = k
          /\ CommittedChange("ship", c, r) = k
          /\ IncomingChange("ship", c, r) = 0
      BY <1>1, <2>2, <2>8, MinusNothing DEF k
    <3> QED
      BY <1>1, <2>4, <3>1, <3>2, <3>3 DEF LineDoes
  <2>9. CASE r[2] # c.from /\ r[2] = c.to
    <3>1. ShipLines(c)[r] = PostLine(<<announce>>)
      BY <2>1, <2>7, <2>9
    <3>2. /\ After(l, "ship", c, r) = AfterLine(l, PostLine(<<announce>>))
          /\ <<announce>> \in Seq(Movement)
      BY <1>1, <1>2, <2>3, <3>1 DEF After
    <3>3. /\ OnHandChange("ship", c, r) = 0
          /\ CommittedChange("ship", c, r) = 0
          /\ IncomingChange("ship", c, r) = n
      BY <1>1, <2>2, <2>9, MinusNothing DEF k
    <3> QED
      BY <1>1, <2>5, <3>1, <3>2, <3>3 DEF LineDoes
  <2>10. CASE r[2] = c.from /\ r[2] = c.to
    <3>1. ShipLines(c)[r] = PostLine(<<release, out, announce>>)
      BY <2>1, <2>7, <2>10
    <3>2. /\ After(l, "ship", c, r) = AfterLine(l, PostLine(<<release, out, announce>>))
          /\ <<release, out, announce>> \in Seq(Movement)
      BY <1>1, <1>2, <2>3, <3>1 DEF After
    <3>3. /\ OnHandChange("ship", c, r) = k
          /\ CommittedChange("ship", c, r) = k
          /\ IncomingChange("ship", c, r) = n
      BY <1>1, <2>2, <2>10, MinusNothing DEF k
    <3> QED
      BY <1>1, <2>6, <3>1, <3>2, <3>3 DEF LineDoes
  <2> QED
    BY <2>1, <2>8, <2>9, <2>10
<1>3. CASE r \notin DOMAIN ShipLines(c)
  <2> HIDE DEF from, to
  <2>1. from = 0 /\ to = 0
    BY <1>3, ShipLine, Shares DEF from, to
  <2>2. /\ OnHandChange("ship", c, r) = 0 /\ CommittedChange("ship", c, r) = 0
        /\ IncomingChange("ship", c, r) = 0
    BY <1>1, <2>1, MinusNothing
  <2>3. After(l, "ship", c, r) = l
    BY <1>1, <1>3 DEF After
  <2> QED
    BY <1>1, <1>3, <2>2, <2>3, NoDifference DEF LineDoes
<1> QED
  BY <1>2, <1>3

\* What a cancellation on the way does to a row.
LEMMA CancelTransferringDoes ==
    ASSUME NEW c \in AllContents, NEW r \in Rows, NEW l \in Level
    PROVE  LineDoes(l, "cancel_transferring", c, r)
<1> DEFINE n == c.qty[r[1]]
           k == -n
           from == Share(c, r, "from")
           to == Share(c, r, "to")
           back == Entry("on_hand", n, "transfer_in")
           recall == Entry("incoming", k, "incoming_cancel")
<1>1. /\ LinesOf("cancel_transferring", c) = CancelTransferringLines(c)
      /\ OnHandChange("cancel_transferring", c, r) = from
      /\ CommittedChange("cancel_transferring", c, r) = 0
      /\ IncomingChange("cancel_transferring", c, r) = -to
  BY DEF LinesOf, CommittedChange, OnHandChange, IncomingChange
<1>2. CASE r \in DOMAIN CancelTransferringLines(c)
  <2>1. /\ r[1] \in DOMAIN c.qty /\ (r[2] = c.from \/ r[2] = c.to)
        /\ CancelTransferringLines(c)[r] = PostLine((IF r[2] = c.from THEN <<back>> ELSE << >>)
                                  \o (IF r[2] = c.to THEN <<recall>> ELSE << >>))
    BY <1>2, CancelTransferringLine
  <2>2. /\ n \in Int /\ k \in Int
        /\ from = (IF r[2] = c.from THEN n ELSE 0) /\ to = (IF r[2] = c.to THEN n ELSE 0)
    BY <2>1, Shares
  <2>3. {back, recall} \subseteq Movement
    BY <2>2, BatchesDo
  <2>4. Differs(l, AfterLine(l, PostLine(<<back>>)), n, 0, 0)
    BY <2>2, BatchesDo
  <2>5. Differs(l, AfterLine(l, PostLine(<<recall>>)), 0, 0, k)
    BY <2>2, BatchesDo
  <2>6. Differs(l, AfterLine(l, PostLine(<<back, recall>>)), n, 0, k)
    BY <2>2, BatchesDo
  <2> HIDE DEF n, k, from, to, back, recall
  <2>7. /\ <<back>> \o << >> = <<back>> /\ << >> \o <<recall>> = <<recall>>
        /\ <<back>> \o <<recall>> = <<back, recall>>
    <3>1. back \in Movement /\ recall \in Movement
      BY <2>3
    <3> QED
      BY <3>1, Joined
  <2>8. CASE r[2] = c.from /\ r[2] # c.to
    <3>1. CancelTransferringLines(c)[r] = PostLine(<<back>>)
      BY <2>1, <2>7, <2>8
    <3>2. /\ After(l, "cancel_transferring", c, r) = AfterLine(l, PostLine(<<back>>))
          /\ <<back>> \in Seq(Movement)
      BY <1>1, <1>2, <2>3, <3>1 DEF After
    <3>3. /\ OnHandChange("cancel_transferring", c, r) = n
          /\ CommittedChange("cancel_transferring", c, r) = 0
          /\ IncomingChange("cancel_transferring", c, r) = 0
      BY <1>1, <2>2, <2>8, MinusNothing DEF k
    <3> QED
      BY <1>1, <2>4, <3>1, <3>2, <3>3 DEF LineDoes
  <2>9. CASE r[2] # c.from /\ r[2] = c.to
    <3>1. CancelTransferringLines(c)[r] = PostLine(<<recall>>)
      BY <2>1, <2>7, <2>9
    <3>2. /\ After(l, "cancel_transferring", c, r) = AfterLine(l, PostLine(<<recall>>))
          /\ <<recall>> \in Seq(Movement)
      BY <1>1, <1>2, <2>3, <3>1 DEF After
    <3>3. /\ OnHandChange("cancel_transferring", c, r) = 0
          /\ CommittedChange("cancel_transferring", c, r) = 0
          /\ IncomingChange("cancel_transferring", c, r) = k
      BY <1>1, <2>2, <2>9, MinusNothing DEF k
    <3> QED
      BY <1>1, <2>5, <3>1, <3>2, <3>3 DEF LineDoes
  <2>10. CASE r[2] = c.from /\ r[2] = c.to
    <3>1. CancelTransferringLines(c)[r] = PostLine(<<back, recall>>)
      BY <2>1, <2>7, <2>10
    <3>2. /\ After(l, "cancel_transferring", c, r) = AfterLine(l, PostLine(<<back, recall>>))
          /\ <<back, recall>> \in Seq(Movement)
      BY <1>1, <1>2, <2>3, <3>1 DEF After
    <3>3. /\ OnHandChange("cancel_transferring", c, r) = n
          /\ CommittedChange("cancel_transferring", c, r) = 0
          /\ IncomingChange("cancel_transferring", c, r) = k
      BY <1>1, <2>2, <2>10, MinusNothing DEF k
    <3> QED
      BY <1>1, <2>6, <3>1, <3>2, <3>3 DEF LineDoes
  <2> QED
    BY <2>1, <2>8, <2>9, <2>10
<1>3. CASE r \notin DOMAIN CancelTransferringLines(c)
  <2> HIDE DEF from, to
  <2>1. from = 0 /\ to = 0
    BY <1>3, CancelTransferringLine, Shares DEF from, to
  <2>2. /\ OnHandChange("cancel_transferring", c, r) = 0 /\ CommittedChange("cancel_transferring", c, r) = 0
        /\ IncomingChange("cancel_transferring", c, r) = 0
    BY <1>1, <2>1, MinusNothing
  <2>3. After(l, "cancel_transferring", c, r) = l
    BY <1>1, <1>3 DEF After
  <2> QED
    BY <1>1, <1>3, <2>2, <2>3, NoDifference DEF LineDoes
<1> QED
  BY <1>2, <1>3

\* Every operation changes every row of the stock as said above.
LEMMA OperationDoes ==
    ASSUME NEW op \in Ops, NEW c \in AllContents, NEW r \in Rows, NEW l \in Level
    PROVE  LineDoes(l, op, c, r)
<1>1. CASE op \in {"update", "cancel_draft"}
  <2>1. LinesOf(op, c) = << >> /\ DOMAIN << >> = {} /\ After(l, op, c, r) = l
    BY <1>1 DEF LinesOf, After
  <2>2. CommittedChange(op, c, r) = 0 /\ OnHandChange(op, c, r) = 0
        /\ IncomingChange(op, c, r) = 0
    BY <1>1 DEF CommittedChange, OnHandChange, IncomingChange
  <2> QED
    BY <2>1, <2>2, NoDifference DEF LineDoes
<1> QED
  BY <1>1, SubmitDoes, CancelPendingDoes, ReceiveDoes, ShipDoes, CancelTransferringDoes
  DEF Ops

-----------------------------------------------------------------------------
(* Type correctness.                                                       *)

\* What an edit makes of a content is a content.
LEMMA EditedType ==
    ASSUME NEW c \in AllContents, NEW d \in AllContents, NEW F
    PROVE  Edited(c, d, F) \in AllContents
BY DEF Edited, AllContents, Fields

\* An edit of nothing changes nothing, and an edit twice is an edit once.
LEMMA EditedTwice ==
    ASSUME NEW c \in AllContents, NEW d \in AllContents, NEW F
    PROVE  /\ Edited(c, Edited(c, d, F), F) = Edited(c, d, F)
           /\ Edited(c, d, {}) = c
BY DEF Edited, AllContents, Fields

\* The contents a document may start with.
LEMMA ContentsAre ==
    /\ Contents \subseteq EditedContents /\ EditedContents \subseteq AllContents
    /\ AnyContent \in Contents
    /\ PossibleContents \subseteq AllContents
    /\ EditedContents \subseteq PossibleContents
BY ContentsAssumption DEF EditedContents, AllContents, AnyContent, PossibleContents

\* Two requests at work do not work on one document.
OneRequestEach ==
    \A p, q \in Reqs :
        p # q /\ req[p].pc # "idle" /\ req[q].pc # "idle" => req[p].x # req[q].x

\* What a request has read of its document is still so when it commits.
ReadsCurrent ==
    \A q \in Reqs : req[q].pc # "idle" =>
        /\ status[req[q].x] = StatusFor(req[q].op)
        /\ Edited(content[req[q].x], req[q].seen, req[q].sets) = req[q].seen
        /\ req[q].op # "update" => content[req[q].x] = req[q].seen

\* No bucket is ever negative.
NonNegative == level \in [Rows -> [Buckets -> Nat]]

\* The inductive invariant: the types need the rest, because a document keeps
\* two warehouses only while nobody edits it under a request's feet.
TInv ==
    /\ TypeOK /\ NonNegative
    /\ ~overlap => OneRequestEach /\ ReadsCurrent

Statuses == {"none", "draft", "pending", "transferring",
             "received", "cancelled", "deleted"}

\* The records of requests.
Requests == [pc : {"idle", "validate", "tx"}, op : Ops, x : Transfers,
             seen : PossibleContents, sets : SUBSET Fields,
             left : SUBSET Rows, held : SUBSET Rows]

\* An idle request is a request.
LEMMA IdleType == Idle \in Requests /\ Idle.pc = "idle"
BY SetsAssumption, ContentsAre DEF Idle, Requests, Ops

\* What the types say of the request that takes a step.
LEMMA RequestType ==
    ASSUME TypeOK, NEW q \in Reqs
    PROVE  /\ req[q] \in Requests
           /\ req[q].op \in Ops /\ req[q].x \in Transfers
           /\ req[q].seen \in PossibleContents /\ req[q].seen \in AllContents
           /\ req[q].sets \in SUBSET Fields
           /\ status[req[q].x] \in Statuses
           /\ content[req[q].x] \in PossibleContents
           /\ content[req[q].x] \in AllContents
<1>1. req[q] \in Requests
  BY DEF TypeOK, Requests
<1>2. req[q].op \in Ops /\ req[q].x \in Transfers
      /\ req[q].seen \in PossibleContents /\ req[q].sets \in SUBSET Fields
  BY <1>1 DEF Requests
<1> QED
  BY <1>1, <1>2, ContentsAre DEF TypeOK, Statuses

\* In the beginning.
LEMMA InitTInv == Init => TInv
<1> SUFFICES ASSUME Init PROVE TInv
  OBVIOUS
<1>1. \A q \in Reqs : req[q] = Idle /\ req[q].pc = "idle"
  BY IdleType DEF Init
<1>2. req \in [Reqs -> Requests]
  BY IdleType DEF Init
<1>3. level \in [Rows -> [Buckets -> Nat]] /\ level \in [Rows -> Level]
  BY OpeningAssumption DEF Init, Level
<1>4. TypeOK
  BY <1>2, <1>3, ContentsAre, OverlapsAssumption, BoundAssumption
  DEF TypeOK, Init, Requests
<1> QED
  BY <1>1, <1>3, <1>4 DEF TInv, NonNegative, OneRequestEach, ReadsCurrent

\* A commit changes the stock as its operation does, and leaves no bucket
\* negative.
LEMMA CommitLevels ==
    ASSUME TInv, NEW q \in Reqs, Commit(q), NEW r \in Rows
    PROVE  LET op == req[q].op  c == req[q].seen
           IN  /\ level[r] \in Level
               /\ Differs(level[r], level'[r], OnHandChange(op, c, r),
                          CommittedChange(op, c, r), IncomingChange(op, c, r))
               /\ level'[r] \in [Buckets -> Nat]
<1> DEFINE op == req[q].op
           c == req[q].seen
           l == level[r]
<1>1. op \in Ops /\ c \in AllContents
  BY RequestType DEF TInv
<1>2. level \in [Rows -> [Buckets -> Nat]]
  BY DEF TInv, NonNegative
<1>3. /\ DocumentPasses(level, LinesOf(op, c))
      /\ level' = AfterDocument(level, LinesOf(op, c))
  BY DEF Commit
<1>4. l \in [Buckets -> Nat] /\ l \in Level
  BY <1>2 DEF Level
<1>5. level'[r] = After(l, op, c, r)
  BY <1>2, <1>3 DEF After, AfterDocument
<1> HIDE DEF op, c, l
<1>6. LineDoes(l, op, c, r)
  BY <1>1, <1>4, OperationDoes
<1>7. level'[r] \in [Buckets -> Nat]
  <2>1. CASE r \notin DOMAIN LinesOf(op, c)
    BY <1>4, <1>5, <2>1 DEF After
  <2>2. CASE r \in DOMAIN LinesOf(op, c)
    <3>1. PICK moves \in Seq(Movement) : LinesOf(op, c)[r] = PostLine(moves)
      BY <1>6, <2>2 DEF LineDoes
    <3>2. LinePasses(l, PostLine(moves))
      BY <1>3, <2>2, <3>1 DEF DocumentPasses, l
    <3>3. AfterLine(l, PostLine(moves)) \in [Buckets -> Nat]
      BY <1>4, <3>2, BatchNonNegative
    <3> QED
      BY <1>5, <2>2, <3>1, <3>3 DEF After
  <2> QED
    BY <2>1, <2>2
<1> QED
  BY <1>4, <1>5, <1>6, <1>7 DEF LineDoes, op, c, l

\* An order's movement of a row.
LEMMA OrderLevels ==
    ASSUME TInv, NEW r \in Rows, OrderReserves(r) \/ OrderReleases(r), NEW s \in Rows
    PROVE  LET n == IF s # r THEN 0 ELSE ordered'[r] - ordered[r]
           IN  /\ level[s] \in Level /\ n \in Int
               /\ Differs(level[s], level'[s], 0, n, 0)
               /\ level'[s] \in [Buckets -> Nat]
<1>1. /\ level \in [Rows -> [Buckets -> Nat]] /\ ordered \in [Rows -> 0..MaxOrders]
      /\ level[s] \in Level /\ level[r] \in Level /\ level[r] \in [Buckets -> Nat]
  BY DEF TInv, TypeOK, NonNegative
<1>2. ordered[r] \in Int /\ ordered[r] + 1 - ordered[r] = 1 /\ ordered[r] - 1 - ordered[r] = -1
  BY <1>1, BoundAssumption
<1>3. "order_reserve" \in MovementTypes /\ "order_release" \in MovementTypes
      /\ "committed" \in Buckets
  BY DEF MovementTypes, OrderLifecycleTypes, Buckets
<1>4. CASE s # r
  <2>1. level'[s] = level[s]
    BY <1>1, <1>4 DEF OrderReserves, OrderReleases
  <2> QED
    BY <1>1, <1>4, <2>1, NoDifference
<1>5. CASE s = r /\ OrderReserves(r)
  <2> DEFINE e == Entry("committed", 1, "order_reserve")
  <2>1. level'[r] = Moved(level[r], e) /\ ordered'[r] = ordered[r] + 1
    BY <1>1, <1>5 DEF OrderReserves
  <2>2. Differs(level[r], Moved(level[r], e), 0, 1, 0)
    BY <1>1, <1>3, OneEntry
  <2>3. Moved(level[r], e) \in [Buckets -> Nat]
    <3>1. \A b \in Buckets : level[r][b] \in Nat
      BY <1>1
    <3>2. /\ Moved(level[r], e) \in Level
          /\ Moved(level[r], e)["committed"] = level[r]["committed"] + 1
          /\ \A b \in Buckets \ {"committed"} : Moved(level[r], e)[b] = level[r][b]
      BY <1>1, <1>3, EntryMoves
    <3> HIDE DEF e
    <3> QED
      BY <1>3, <3>1, <3>2 DEF Level
  <2> HIDE DEF e
  <2> QED
    BY <1>1, <1>2, <1>5, <2>1, <2>2, <2>3
<1>6. CASE s = r /\ OrderReleases(r)
  <2> DEFINE e == Entry("committed", -1, "order_release")
  <2>1. /\ level'[r] = Moved(level[r], e) /\ ordered'[r] = ordered[r] - 1
        /\ ~Refused(level[r], e)
    BY <1>1, <1>6 DEF OrderReleases
  <2>2. Differs(level[r], Moved(level[r], e), 0, -1, 0) /\ e \in Movement
    BY <1>1, <1>3, OneEntry
  <2> HIDE DEF e
  <2>3. Moved(level[r], e) \in Level /\ \A b \in Buckets : Moved(level[r], e)[b] >= 0
    <3>1. \A b \in Buckets : level[r][b] >= 0
      BY <1>1
    <3> QED
      BY <1>1, <2>1, <2>2, <3>1, PassedKeepsNonNegative, MovedType
  <2>4. Moved(level[r], e) \in [Buckets -> Nat]
    BY <2>3 DEF Level
  <2> QED
    BY <1>1, <1>2, <1>6, <2>1, <2>2, <2>4
<1> QED
  BY <1>4, <1>5, <1>6

\* How the requests change: one of them, to something that is a request.
LEMMA OneRequestChanges ==
    ASSUME TypeOK, NEW q \in Reqs, NEW k \in Requests, req' = [req EXCEPT ![q] = k]
    PROVE  /\ req' \in [Reqs -> Requests]
           /\ req'[q] = k
           /\ \A p \in Reqs \ {q} : req'[p] = req[p]
BY DEF TypeOK, Requests

\* The step of a request that touches neither documents nor stock.
Untouched == UNCHANGED <<status, content, level, ordered, overlap>>

\* A step that touches no document and no row keeps the tables' invariant.
LEMMA UntouchedStep ==
    ASSUME TInv, Untouched, req' \in [Reqs -> Requests],
           ~overlap => OneRequestEach' /\ ReadsCurrent'
    PROVE  TInv'
BY DEF TInv, TypeOK, NonNegative, Untouched, Requests, PossibleContents

\* Reading a document.
LEMMA ReadTInv ==
    ASSUME TInv, NEW q \in Reqs, NEW x \in Transfers, NEW op \in Ops, Read(q, x, op)
    PROVE  TInv'
<1>1. PICK F \in IF op = "update" THEN SUBSET Fields ELSE {{}} :
         \E c \in IF op = "update" THEN Edit(content[x], F) ELSE {content[x]} :
            req' = [req EXCEPT ![q] =
                      [pc |-> IF op = "submit" THEN "validate" ELSE "tx",
                       op |-> op, x |-> x, seen |-> c, sets |-> F,
                       left |-> DOMAIN LinesOf(op, c), held |-> {}]]
  BY DEF Read
<1>2. PICK c \in IF op = "update" THEN Edit(content[x], F) ELSE {content[x]} :
            req' = [req EXCEPT ![q] =
                      [pc |-> IF op = "submit" THEN "validate" ELSE "tx",
                       op |-> op, x |-> x, seen |-> c, sets |-> F,
                       left |-> DOMAIN LinesOf(op, c), held |-> {}]]
  BY <1>1
<1>3. /\ TypeOK /\ Untouched /\ status[x] = StatusFor(op) /\ req[q].pc = "idle"
      /\ ~overlap => \A p \in Reqs : req[p].pc # "idle" => req[p].x # x
  BY DEF Read, Untouched, TInv
<1>4. content[x] \in PossibleContents /\ content[x] \in AllContents
  BY <1>3, ContentsAre DEF TypeOK
<1>5. /\ c \in PossibleContents /\ c \in AllContents
      /\ Edited(content[x], c, F) = c
      /\ op # "update" => content[x] = c
  <2>1. CASE op # "update"
    <3>1. c = content[x] /\ F = {}
      BY <2>1
    <3> QED
      BY <1>4, <3>1, EditedTwice
  <2>2. CASE op = "update"
    <3>1. PICK d \in Contents : c = Edited(content[x], d, F) /\ c.from # c.to
      BY <2>2 DEF Edit
    <3>2. d \in AllContents
      BY ContentsAre
    <3>3. c \in AllContents /\ Edited(content[x], c, F) = c
      BY <1>4, <3>1, <3>2, EditedType, EditedTwice
    <3>4. c \in EditedContents
      BY <3>1, <3>3 DEF EditedContents, AllContents
    <3> QED
      BY <2>2, <3>3, <3>4, ContentsAre
  <2> QED
    BY <2>1, <2>2
<1> DEFINE k == [pc |-> IF op = "submit" THEN "validate" ELSE "tx",
                 op |-> op, x |-> x, seen |-> c, sets |-> F,
                 left |-> DOMAIN LinesOf(op, c), held |-> {}]
<1>6. k \in Requests /\ k.pc # "idle" /\ k.x = x /\ k.op = op /\ k.seen = c /\ k.sets = F
  <2>1. DOMAIN LinesOf(op, c) \in SUBSET Rows
    BY <1>5, LinesDomain
  <2>2. F \in SUBSET Fields
    OBVIOUS
  <2> QED
    BY <1>5, <2>1, <2>2 DEF Requests
<1>7. req' = [req EXCEPT ![q] = k]
  BY <1>2
<1> HIDE DEF k
<1>8. /\ req' \in [Reqs -> Requests] /\ req'[q] = k
      /\ \A p \in Reqs \ {q} : req'[p] = req[p]
  BY <1>3, <1>6, <1>7, OneRequestChanges
<1>9. ASSUME ~overlap PROVE OneRequestEach' /\ ReadsCurrent'
  <2>1. OneRequestEach /\ ReadsCurrent
    BY <1>9 DEF TInv
  <2>2. OneRequestEach'
    BY <1>3, <1>6, <1>8, <1>9, <2>1 DEF OneRequestEach
  <2>3. status' = status /\ content' = content
    BY <1>3 DEF Untouched
  <2>4. /\ status'[k.x] = StatusFor(k.op)
        /\ Edited(content'[k.x], k.seen, k.sets) = k.seen
        /\ k.op # "update" => content'[k.x] = k.seen
    BY <1>3, <1>5, <1>6, <2>3
  <2>5. ReadsCurrent'
    <3> SUFFICES ASSUME NEW p \in Reqs, req'[p].pc # "idle"
                 PROVE  /\ status'[req'[p].x] = StatusFor(req'[p].op)
                        /\ Edited(content'[req'[p].x], req'[p].seen, req'[p].sets)
                              = req'[p].seen
                        /\ req'[p].op # "update" => content'[req'[p].x] = req'[p].seen
      BY DEF ReadsCurrent
    <3>1. CASE p = q
      BY <1>8, <2>4, <3>1
    <3>2. CASE p # q
      BY <1>8, <2>1, <2>3, <3>2 DEF ReadsCurrent
    <3> QED
      BY <3>1, <3>2
  <2> QED
    BY <2>2, <2>5
<1> QED
  BY <1>3, <1>8, <1>9, UntouchedStep

\* A request goes on with what it has read, or gives up.
LEMMA GoesOnTInv ==
    ASSUME TInv, NEW q \in Reqs, NEW k \in Requests,
           req' = [req EXCEPT ![q] = k], Untouched,
           k.pc = "idle" \/ (/\ req[q].pc # "idle"
                             /\ k.x = req[q].x /\ k.op = req[q].op
                             /\ k.seen = req[q].seen /\ k.sets = req[q].sets)
    PROVE  TInv'
<1>1. /\ req' \in [Reqs -> Requests] /\ req'[q] = k
      /\ \A p \in Reqs \ {q} : req'[p] = req[p]
  BY OneRequestChanges DEF TInv
<1>2. status' = status /\ content' = content
  BY DEF Untouched
<1>3. ASSUME ~overlap PROVE OneRequestEach' /\ ReadsCurrent'
  <2>1. OneRequestEach /\ ReadsCurrent
    BY <1>3 DEF TInv
  <2>2. OneRequestEach'
    BY <1>1, <2>1 DEF OneRequestEach
  <2>3. ReadsCurrent'
    BY <1>1, <1>2, <2>1 DEF ReadsCurrent
  <2> QED
    BY <2>2, <2>3
<1> QED
  BY <1>1, <1>3, UntouchedStep

\* The outcome of the operations, and what is written, in a request's record.
LEMMA CommitEffect ==
    ASSUME TInv, NEW q \in Reqs, Commit(q)
    PROVE  LET k == req[q]
           IN  /\ k.pc # "idle" /\ k.x \in Transfers /\ k.op \in Ops
               /\ req' = [req EXCEPT ![q] = Idle] /\ UNCHANGED <<ordered, overlap>>
               /\ status'[k.x] = StatusAfter(k.op, status[k.x])
               /\ content'[k.x] = Edited(content[k.x], k.seen, k.sets)
               /\ \A y \in Transfers \ {k.x} : status'[y] = status[y] /\ content'[y] = content[y]
               /\ DOMAIN status' = Transfers /\ DOMAIN content' = Transfers
               /\ status' = [y \in Transfers |-> status'[y]]
               /\ content' = [y \in Transfers |-> content'[y]]
               /\ ~overlap => /\ status[k.x] = StatusFor(k.op)
                              /\ content'[k.x] = k.seen
                              /\ k.op # "update" => content[k.x] = k.seen
<1>1. req[q].x \in Transfers /\ req[q].op \in Ops
  BY RequestType DEF TInv
<1>2. /\ status \in [Transfers -> Statuses] /\ content \in [Transfers -> PossibleContents]
  BY DEF TInv, TypeOK, Statuses
<1>3. req[q].pc = "tx"
  BY DEF Commit, ReadyToCommit
<1>4. /\ req' = [req EXCEPT ![q] = Idle] /\ UNCHANGED <<ordered, overlap>>
      /\ status' = [status EXCEPT ![req[q].x] = StatusAfter(req[q].op, @)]
      /\ content' = [content EXCEPT ![req[q].x] = Edited(@, req[q].seen, req[q].sets)]
  BY DEF Commit
<1>5. ~overlap => /\ status[req[q].x] = StatusFor(req[q].op)
                  /\ Edited(content[req[q].x], req[q].seen, req[q].sets) = req[q].seen
                  /\ req[q].op # "update" => content[req[q].x] = req[q].seen
  BY <1>3 DEF TInv, ReadsCurrent
<1> QED
  BY <1>1, <1>2, <1>3, <1>4, <1>5

\* A committed operation keeps the types, and what other requests have read.
LEMMA CommitTInv ==
    ASSUME TInv, NEW q \in Reqs, Commit(q)
    PROVE  TInv'
<1> DEFINE k == req[q]
<1>1. TypeOK /\ (~overlap => OneRequestEach /\ ReadsCurrent)
  BY DEF TInv
<1>2. /\ k.x \in Transfers /\ k.op \in Ops /\ k.seen \in PossibleContents
      /\ k.seen \in AllContents /\ k.sets \in SUBSET Fields
      /\ status[k.x] \in Statuses /\ content[k.x] \in AllContents
  BY <1>1, RequestType
<1>3. /\ k.pc # "idle" /\ req' = [req EXCEPT ![q] = Idle] /\ UNCHANGED <<ordered, overlap>>
      /\ status'[k.x] = StatusAfter(k.op, status[k.x])
      /\ content'[k.x] = Edited(content[k.x], k.seen, k.sets)
      /\ \A y \in Transfers \ {k.x} : status'[y] = status[y] /\ content'[y] = content[y]
      /\ status' = [y \in Transfers |-> status'[y]]
      /\ content' = [y \in Transfers |-> content'[y]]
      /\ ~overlap => content'[k.x] = k.seen
  BY CommitEffect
<1>4. /\ req' \in [Reqs -> Requests] /\ req'[q] = Idle
      /\ \A p \in Reqs \ {q} : req'[p] = req[p]
  BY <1>1, <1>3, IdleType, OneRequestChanges
<1> HIDE DEF k
<1>5. status' \in [Transfers -> Statuses]
  <2>1. StatusAfter(k.op, status[k.x]) \in Statuses
    BY <1>2 DEF StatusAfter, Ops, Statuses
  <2>2. \A y \in Transfers : status[y] \in Statuses
    BY <1>1 DEF TypeOK, Statuses
  <2> QED
    BY <1>3, <2>1, <2>2
<1>6. content' \in [Transfers -> PossibleContents]
  <2>1. \A y \in Transfers : content[y] \in PossibleContents
    BY <1>1 DEF TypeOK
  <2>2. content'[k.x] \in PossibleContents
    <3>1. CASE ~overlap
      BY <1>2, <1>3, <3>1
    <3>2. CASE overlap
      <4>1. PossibleContents = AllContents
        BY <3>2 DEF PossibleContents, AllContents
      <4> QED
        BY <1>2, <1>3, <4>1, EditedType
    <3> QED
      BY <3>1, <3>2
  <2> QED
    BY <1>3, <2>1, <2>2
<1>7. level' \in [Rows -> [Buckets -> Nat]] /\ level' \in [Rows -> Level]
  <2>1. level' = [r \in Rows |-> level'[r]]
    <3>1. level' = AfterDocument(level, LinesOf(req[q].op, req[q].seen)) /\ DOMAIN level = Rows
      BY <1>1 DEF Commit, TypeOK
    <3> QED
      BY <3>1 DEF AfterDocument
  <2>2. \A r \in Rows : level'[r] \in [Buckets -> Nat] /\ level'[r] \in Level
    BY CommitLevels DEF Differs
  <2> QED
    BY <2>1, <2>2
<1>8. PossibleContents' = PossibleContents /\ overlap' = overlap
  BY <1>3 DEF PossibleContents
<1>9. ordered' \in [Rows -> 0..MaxOrders] /\ overlap' \in BOOLEAN
  BY <1>1, <1>3 DEF TypeOK
<1>10. TypeOK'
  BY <1>4, <1>5, <1>6, <1>7, <1>8, <1>9 DEF TypeOK, Statuses, Requests
<1>11. ASSUME ~overlap PROVE OneRequestEach' /\ ReadsCurrent'
  <2>1. OneRequestEach /\ ReadsCurrent
    BY <1>1, <1>11
  <2>2. OneRequestEach'
    BY <1>4, <2>1, IdleType DEF OneRequestEach
  <2>3. ASSUME NEW p \in Reqs, req'[p].pc # "idle"
        PROVE  /\ p # q /\ req'[p] = req[p] /\ req[p].x \in Transfers
               /\ req[p].x # k.x
    <3>1. p # q
      BY <1>4, <2>3, IdleType
    <3> QED
      BY <1>1, <1>3, <1>4, <2>1, <2>3, <3>1, RequestType DEF OneRequestEach, k
  <2>4. ReadsCurrent'
    BY <1>3, <2>1, <2>3 DEF ReadsCurrent
  <2> QED
    BY <2>2, <2>4
<1> QED
  BY <1>7, <1>8, <1>10, <1>11 DEF TInv, NonNegative

\* Orders beside the transfers.
LEMMA OrderTInv ==
    ASSUME TInv, NEW r \in Rows, OrderReserves(r) \/ OrderReleases(r)
    PROVE  TInv'
<1>1. /\ TypeOK /\ UNCHANGED <<status, content, req, overlap>>
      /\ (~overlap => OneRequestEach /\ ReadsCurrent)
  BY DEF TInv, OrderReserves, OrderReleases
<1>2. \A s \in Rows : level'[s] \in [Buckets -> Nat] /\ level'[s] \in Level
  BY OrderLevels DEF Differs
<1>3. level' = [s \in Rows |-> level'[s]]
  BY <1>1 DEF OrderReserves, OrderReleases, TypeOK
<1>4. ordered' \in [Rows -> 0..MaxOrders]
  <2>1. ordered \in [Rows -> 0..MaxOrders] /\ MaxOrders \in Nat
    BY <1>1, BoundAssumption DEF TypeOK
  <2>2. CASE OrderReserves(r)
    <3>1. ordered[r] + 1 \in 0..MaxOrders /\ ordered' = [ordered EXCEPT ![r] = ordered[r] + 1]
      BY <2>1, <2>2 DEF OrderReserves
    <3> QED
      BY <2>1, <3>1
  <2>3. CASE OrderReleases(r)
    <3>1. ordered[r] - 1 \in 0..MaxOrders /\ ordered' = [ordered EXCEPT ![r] = ordered[r] - 1]
      BY <2>1, <2>3 DEF OrderReleases
    <3> QED
      BY <2>1, <3>1
  <2> QED
    BY <2>2, <2>3
<1>5. PossibleContents' = PossibleContents
  BY <1>1 DEF PossibleContents
<1>6. level' \in [Rows -> [Buckets -> Nat]] /\ level' \in [Rows -> Level]
  BY <1>2, <1>3
<1>7. TypeOK'
  BY <1>1, <1>4, <1>5, <1>6 DEF TypeOK
<1> QED
  BY <1>1, <1>6, <1>7 DEF TInv, NonNegative, OneRequestEach, ReadsCurrent

\* A draft is created.
LEMMA CreateTInv ==
    ASSUME TInv, NEW x \in Transfers, Create(x)
    PROVE  TInv'
<1>1. /\ TypeOK /\ UNCHANGED <<level, ordered, req, overlap>> /\ status[x] = "none"
      /\ (~overlap => OneRequestEach /\ ReadsCurrent)
  BY DEF TInv, Create
<1>2. PICK c \in Contents : content' = [content EXCEPT ![x] = c]
  BY DEF Create
<1>3. status' = [status EXCEPT ![x] = "draft"]
  BY DEF Create
<1>4. c \in PossibleContents /\ PossibleContents' = PossibleContents
  BY <1>1, ContentsAre DEF PossibleContents
<1>5. TypeOK'
  BY <1>1, <1>2, <1>3, <1>4 DEF TypeOK
<1>6. ASSUME ~overlap PROVE OneRequestEach' /\ ReadsCurrent'
  <2>1. OneRequestEach'
    BY <1>1, <1>6 DEF OneRequestEach
  <2>2. ASSUME NEW p \in Reqs, req[p].pc # "idle"
        PROVE  req[p].x \in Transfers /\ req[p].x # x
    <3>1. status[req[p].x] = StatusFor(req[p].op) /\ req[p].op \in Ops /\ req[p].x \in Transfers
      BY <1>1, <1>6, <2>2, RequestType DEF ReadsCurrent
    <3>2. StatusFor(req[p].op) # "none"
      BY <3>1 DEF StatusFor, Ops
    <3> QED
      BY <1>1, <3>1, <3>2
  <2>3. \A y \in Transfers \ {x} : status'[y] = status[y] /\ content'[y] = content[y]
    BY <1>1, <1>2, <1>3 DEF TypeOK
  <2>4. ReadsCurrent'
    BY <1>1, <1>6, <2>2, <2>3 DEF ReadsCurrent
  <2> QED
    BY <2>1, <2>4
<1> QED
  BY <1>1, <1>5, <1>6 DEF TInv, NonNegative

\* Every step keeps the invariant.
LEMMA NextTInv == TInv /\ [Next]_vars => TInv'
<1> SUFFICES ASSUME TInv, [Next]_vars PROVE TInv'
  OBVIOUS
<1>1. ASSUME NEW x \in Transfers, Create(x) PROVE TInv'
  BY <1>1, CreateTInv
<1>2. ASSUME NEW q \in Reqs, NEW x \in Transfers, NEW op \in Ops, Read(q, x, op) PROVE TInv'
  BY <1>2, ReadTInv
<1>3. ASSUME NEW q \in Reqs, Validate(q) PROVE TInv'
  <2> DEFINE k == [req[q] EXCEPT !.pc = "tx"]
  <2>1. req[q] \in Requests /\ req[q].pc = "validate"
    BY <1>3, RequestType DEF TInv, Validate
  <2>2. k \in Requests /\ k.x = req[q].x /\ k.op = req[q].op /\ k.seen = req[q].seen
        /\ k.sets = req[q].sets
    BY <2>1 DEF Requests
  <2>3. req' = [req EXCEPT ![q] = k] /\ Untouched
    BY <1>3 DEF Validate, Untouched
  <2> HIDE DEF k
  <2> QED
    BY <2>1, <2>2, <2>3, GoesOnTInv
<1>4. ASSUME NEW q \in Reqs, Commit(q) PROVE TInv'
  BY <1>4, CommitTInv
<1>5. ASSUME NEW q \in Reqs, Fail(q) PROVE TInv'
  <2>1. req' = [req EXCEPT ![q] = Idle] /\ Untouched
    BY <1>5 DEF Fail, Untouched
  <2> QED
    BY <2>1, IdleType, GoesOnTInv
<1>6. ASSUME NEW q \in Reqs, NEW r \in Rows, LockNext(q, r) PROVE TInv'
  <2> DEFINE k == [req[q] EXCEPT !.left = @ \ {r}, !.held = @ \union {r}]
  <2>1. req[q] \in Requests /\ req[q].pc = "tx"
    BY <1>6, RequestType DEF TInv, LockNext
  <2>2. k \in Requests /\ k.x = req[q].x /\ k.op = req[q].op /\ k.seen = req[q].seen
        /\ k.sets = req[q].sets
    BY <2>1 DEF Requests
  <2>3. req' = [req EXCEPT ![q] = k] /\ Untouched
    BY <1>6 DEF LockNext, Untouched
  <2> HIDE DEF k
  <2> QED
    BY <2>1, <2>2, <2>3, GoesOnTInv
<1>7. ASSUME NEW r \in Rows, OrderReserves(r) \/ OrderReleases(r) PROVE TInv'
  BY <1>7, OrderTInv
<1>8. CASE UNCHANGED vars
  <2>1. TypeOK'
    BY <1>8 DEF TInv, TypeOK, PossibleContents, vars
  <2> QED
    BY <1>8, <2>1 DEF TInv, NonNegative, OneRequestEach, ReadsCurrent, vars
<1> QED
  BY <1>1, <1>2, <1>3, <1>4, <1>5, <1>6, <1>7, <1>8 DEF Next

\* The types of the documents, the stock and the requests hold in every
\* state, and the invariant behind them.
THEOREM TypeCorrect == Spec => []TypeOK
<1>1. TInv => TypeOK
  BY DEF TInv
<1> QED
  BY <1>1, InitTInv, NextTInv, PTL DEF Spec

-----------------------------------------------------------------------------
(* Reservations and transit.                                               *)

\* What Units adds up, for given statuses and contents.
UnitsAt(st, ct, r, s, end) ==
    [x \in Transfers |-> IF st[x] = s THEN Share(ct[x], r, end) ELSE 0]

\* The units held or on the way, as sums over the transfers.
LEMMA UnitsAre ==
    ASSUME NEW r, NEW s, NEW end
    PROVE  /\ Units(r, s, end) =
                SumFunctionOnSet(UnitsAt(status, content, r, s, end), Transfers)
           /\ Units(r, s, end)' =
                SumFunctionOnSet(UnitsAt(status', content', r, s, end), Transfers)
BY DEF Units, UnitsAt

\* When one document changes, the units change by its share.
LEMMA UnitsChange ==
    ASSUME NEW st, NEW ct \in [Transfers -> AllContents],
           NEW tt, NEW du \in [Transfers -> AllContents],
           NEW x \in Transfers, NEW r, NEW s, NEW end,
           \A y \in Transfers \ {x} : tt[y] = st[y] /\ du[y] = ct[y]
    PROVE  LET before == IF st[x] = s THEN Share(ct[x], r, end) ELSE 0
               after == IF tt[x] = s THEN Share(du[x], r, end) ELSE 0
           IN  SumFunctionOnSet(UnitsAt(tt, du, r, s, end), Transfers) =
                 SumFunctionOnSet(UnitsAt(st, ct, r, s, end), Transfers) + after - before
<1> DEFINE f == UnitsAt(st, ct, r, s, end)
           g == UnitsAt(tt, du, r, s, end)
<1>1. /\ \A y \in Transfers : f[y] = IF st[y] = s THEN Share(ct[y], r, end) ELSE 0
      /\ \A y \in Transfers : g[y] = IF tt[y] = s THEN Share(du[y], r, end) ELSE 0
  BY DEF UnitsAt
<1>2. \A y \in Transfers : Share(ct[y], r, end) \in Nat /\ Share(du[y], r, end) \in Nat
  BY ShareType
<1>3. \A y \in Transfers : f[y] \in Int /\ g[y] \in Int
  BY <1>1, <1>2
<1>4. \A y \in Transfers \ {x} : g[y] = f[y]
  BY <1>1
<1> HIDE DEF f, g
<1>5. SumFunctionOnSet(g, Transfers) = SumFunctionOnSet(f, Transfers) + g[x] - f[x]
  BY <1>3, <1>4, SetsAssumption, SumChange
<1> QED
  BY <1>1, <1>5 DEF f, g

\* The units are a number, at least the share of each document they count.
LEMMA UnitsBound ==
    ASSUME TInv, NEW r, NEW s, NEW end
    PROVE  /\ Units(r, s, end) \in Nat
           /\ \A x \in Transfers :
                 status[x] = s => Share(content[x], r, end) <= Units(r, s, end)
<1> DEFINE f == UnitsAt(status, content, r, s, end)
<1>1. \A x \in Transfers : content[x] \in AllContents
  BY ContentsAre DEF TInv, TypeOK
<1>2. \A x \in Transfers : f[x] \in Nat /\ (status[x] = s => f[x] = Share(content[x], r, end))
  BY <1>1, ShareType DEF UnitsAt
<1> HIDE DEF f
<1>3. /\ SumFunctionOnSet(f, Transfers) \in Nat
      /\ \A x \in Transfers : f[x] <= SumFunctionOnSet(f, Transfers)
  BY <1>2, SetsAssumption, SumBounds
<1> QED
  BY <1>2, <1>3, UnitsAre DEF f

\* In the beginning nothing is reserved or on the road.
LEMMA InitExact == Init => ReservationsAndTransitExact
<1> SUFFICES ASSUME Init PROVE ReservationsAndTransitExact
  OBVIOUS
<1>1. ASSUME NEW r, NEW s \in {"pending", "transferring"}, NEW end
      PROVE  Units(r, s, end) = 0
  <2> DEFINE f == UnitsAt(status, content, r, s, end)
  <2>1. \A x \in Transfers : f[x] = 0
    BY DEF Init, UnitsAt
  <2> HIDE DEF f
  <2>2. SumFunctionOnSet(f, Transfers) = 0
    BY <2>1, SetsAssumption, SumOfZeros
  <2> QED
    BY <2>2, UnitsAre DEF f
<1>2. level = OpeningLevel /\ \A r \in Rows : ordered[r] = 0
  BY DEF Init
<1>3. \A r \in Rows : /\ OpeningLevel[r]["committed"] \in Int
                      /\ OpeningLevel[r]["incoming"] \in Int
  <2>1. "committed" \in Buckets /\ "incoming" \in Buckets
    BY DEF Buckets
  <2> QED
    BY <2>1, OpeningAssumption
<1> QED
  BY <1>1, <1>2, <1>3 DEF ReservationsAndTransitExact

\* A committed operation moves its document's share from one sum to another.
LEMMA CommitExact ==
    ASSUME TInv, ~overlap, ReservationsAndTransitExact, NEW q \in Reqs, Commit(q)
    PROVE  ReservationsAndTransitExact'
<1> DEFINE k == req[q]
           op == k.op
           c == k.seen
           x == k.x
<1>1. /\ x \in Transfers /\ op \in Ops /\ c \in AllContents
      /\ \A y \in Transfers : content[y] \in AllContents
      /\ content \in [Transfers -> AllContents]
  <2>1. content \in [Transfers -> PossibleContents]
    BY DEF TInv, TypeOK
  <2> QED
    BY <2>1, RequestType, ContentsAre DEF TInv
<1>2. /\ UNCHANGED <<ordered, overlap>>
      /\ status[x] = StatusFor(op) /\ status'[x] = StatusAfter(op, StatusFor(op))
      /\ content'[x] = c /\ (op # "update" => content[x] = c)
      /\ \A y \in Transfers \ {x} : status'[y] = status[y] /\ content'[y] = content[y]
      /\ content' = [y \in Transfers |-> content'[y]]
  BY CommitEffect
<1>3. content' \in [Transfers -> AllContents]
  BY <1>1, <1>2
<1> SUFFICES ASSUME NEW r \in Rows
             PROVE  /\ level'[r]["committed"] = OpeningLevel[r]["committed"] + ordered[r]
                                                  + Units(r, "pending", "from")'
                    /\ level'[r]["incoming"] = OpeningLevel[r]["incoming"]
                                                 + Units(r, "transferring", "to")'
  BY <1>2 DEF ReservationsAndTransitExact
<1>4. /\ level'[r]["committed"] = level[r]["committed"] + CommittedChange(op, c, r)
      /\ level'[r]["incoming"] = level[r]["incoming"] + IncomingChange(op, c, r)
  BY CommitLevels DEF Differs
<1>5. /\ level[r]["committed"] = OpeningLevel[r]["committed"] + ordered[r]
                                    + Units(r, "pending", "from")
      /\ level[r]["incoming"] = OpeningLevel[r]["incoming"]
                                   + Units(r, "transferring", "to")
  BY DEF ReservationsAndTransitExact
<1>6. /\ OpeningLevel[r]["committed"] \in Int /\ OpeningLevel[r]["incoming"] \in Int
      /\ ordered[r] \in Int
      /\ Units(r, "pending", "from") \in Nat /\ Units(r, "transferring", "to") \in Nat
      /\ Share(c, r, "from") \in Nat /\ Share(c, r, "to") \in Nat
      /\ Share(content[x], r, "from") \in Nat /\ Share(content[x], r, "to") \in Nat
  <2>1. "committed" \in Buckets /\ "incoming" \in Buckets
    BY DEF Buckets
  <2>2. ordered \in [Rows -> 0..MaxOrders] /\ MaxOrders \in Nat
    BY BoundAssumption DEF TInv, TypeOK
  <2> QED
    BY <1>1, <2>1, <2>2, OpeningAssumption, UnitsBound, ShareType
<1> HIDE DEF x, op, c, k
<1>7. /\ Units(r, "pending", "from")' = Units(r, "pending", "from")
            + (IF status'[x] = "pending" THEN Share(c, r, "from") ELSE 0)
            - (IF status[x] = "pending" THEN Share(content[x], r, "from") ELSE 0)
      /\ Units(r, "transferring", "to")' = Units(r, "transferring", "to")
            + (IF status'[x] = "transferring" THEN Share(c, r, "to") ELSE 0)
            - (IF status[x] = "transferring" THEN Share(content[x], r, "to") ELSE 0)
  BY <1>1, <1>2, <1>3, UnitsAre, UnitsChange
<1>8. CASE op \in {"update", "cancel_draft"}
  <2>1. /\ status[x] = "draft" /\ status'[x] \in {"draft", "deleted"}
        /\ CommittedChange(op, c, r) = 0 /\ IncomingChange(op, c, r) = 0
    BY <1>2, <1>8 DEF StatusFor, StatusAfter, CommittedChange, IncomingChange
  <2> QED
    BY <1>4, <1>5, <1>6, <1>7, <2>1
<1>9. CASE op = "submit"
  <2>1. /\ status[x] = "draft" /\ status'[x] = "pending"
        /\ CommittedChange(op, c, r) = Share(c, r, "from") /\ IncomingChange(op, c, r) = 0
    BY <1>2, <1>9 DEF StatusFor, StatusAfter, CommittedChange, IncomingChange
  <2> QED
    BY <1>4, <1>5, <1>6, <1>7, <2>1
<1>10. CASE op = "ship"
  <2>1. /\ status[x] = "pending" /\ status'[x] = "transferring" /\ content[x] = c
        /\ CommittedChange(op, c, r) = -Share(c, r, "from")
        /\ IncomingChange(op, c, r) = Share(c, r, "to")
    BY <1>2, <1>10 DEF StatusFor, StatusAfter, CommittedChange, IncomingChange
  <2> QED
    BY <1>4, <1>5, <1>6, <1>7, <2>1
<1>11. CASE op = "receive"
  <2>1. /\ status[x] = "transferring" /\ status'[x] = "received" /\ content[x] = c
        /\ CommittedChange(op, c, r) = 0
        /\ IncomingChange(op, c, r) = -Share(c, r, "to")
    BY <1>2, <1>11 DEF StatusFor, StatusAfter, CommittedChange, IncomingChange
  <2> QED
    BY <1>4, <1>5, <1>6, <1>7, <2>1
<1>12. CASE op = "cancel_pending"
  <2>1. /\ status[x] = "pending" /\ status'[x] = "cancelled" /\ content[x] = c
        /\ CommittedChange(op, c, r) = -Share(c, r, "from")
        /\ IncomingChange(op, c, r) = 0
    BY <1>2, <1>12 DEF StatusFor, StatusAfter, CommittedChange, IncomingChange
  <2> QED
    BY <1>4, <1>5, <1>6, <1>7, <2>1
<1>13. CASE op = "cancel_transferring"
  <2>1. /\ status[x] = "transferring" /\ status'[x] = "cancelled" /\ content[x] = c
        /\ CommittedChange(op, c, r) = 0
        /\ IncomingChange(op, c, r) = -Share(c, r, "to")
    BY <1>2, <1>13 DEF StatusFor, StatusAfter, CommittedChange, IncomingChange
  <2> QED
    BY <1>4, <1>5, <1>6, <1>7, <2>1
<1> QED
  BY <1>1, <1>8, <1>9, <1>10, <1>11, <1>12, <1>13 DEF Ops

\* A new draft counts in no sum.
LEMMA CreateExact ==
    ASSUME TInv, ~overlap, ReservationsAndTransitExact, NEW x \in Transfers, Create(x)
    PROVE  ReservationsAndTransitExact'
<1>1. /\ UNCHANGED <<level, ordered, overlap>> /\ status[x] = "none" /\ status'[x] = "draft"
      /\ \A y \in Transfers \ {x} : status'[y] = status[y] /\ content'[y] = content[y]
  BY DEF Create, TInv, TypeOK
<1>2. content \in [Transfers -> AllContents] /\ content' \in [Transfers -> AllContents]
  <2>1. content \in [Transfers -> PossibleContents]
    BY DEF TInv, TypeOK
  <2>2. PICK c \in Contents : content' = [content EXCEPT ![x] = c]
    BY DEF Create
  <2>3. c \in AllContents
    BY ContentsAre
  <2> QED
    BY <2>1, <2>2, <2>3, ContentsAre
<1> SUFFICES ASSUME NEW r \in Rows
             PROVE  /\ Units(r, "pending", "from")' = Units(r, "pending", "from")
                    /\ Units(r, "transferring", "to")' = Units(r, "transferring", "to")
  BY <1>1 DEF ReservationsAndTransitExact
<1>3. Units(r, "pending", "from") \in Nat /\ Units(r, "transferring", "to") \in Nat
  BY UnitsBound
<1>4. /\ Units(r, "pending", "from")' = Units(r, "pending", "from") + 0 - 0
      /\ Units(r, "transferring", "to")' = Units(r, "transferring", "to") + 0 - 0
  BY <1>1, <1>2, UnitsAre, UnitsChange
<1> QED
  BY <1>3, <1>4

\* An order changes what orders reserve.
LEMMA OrderExact ==
    ASSUME TInv, ReservationsAndTransitExact, ~overlap,
           NEW s \in Rows, OrderReserves(s) \/ OrderReleases(s)
    PROVE  ReservationsAndTransitExact'
<1>1. UNCHANGED <<status, content, overlap>>
  BY DEF OrderReserves, OrderReleases
<1> SUFFICES ASSUME NEW r \in Rows
             PROVE  /\ level'[r]["committed"] = OpeningLevel[r]["committed"] + ordered'[r]
                                                  + Units(r, "pending", "from")
                    /\ level'[r]["incoming"] = OpeningLevel[r]["incoming"]
                                                 + Units(r, "transferring", "to")
  BY <1>1 DEF ReservationsAndTransitExact, Units
<1> DEFINE n == IF r # s THEN 0 ELSE ordered'[s] - ordered[s]
<1>2. /\ n \in Int /\ level'[r]["committed"] = level[r]["committed"] + n
      /\ level'[r]["incoming"] = level[r]["incoming"] + 0
  BY OrderLevels DEF Differs
<1>3. /\ level[r]["committed"] = OpeningLevel[r]["committed"] + ordered[r]
                                    + Units(r, "pending", "from")
      /\ level[r]["incoming"] = OpeningLevel[r]["incoming"]
                                   + Units(r, "transferring", "to")
  BY DEF ReservationsAndTransitExact
<1>4. /\ OpeningLevel[r]["committed"] \in Int /\ OpeningLevel[r]["incoming"] \in Int
      /\ ordered[r] \in Int /\ ordered'[r] \in Int
      /\ Units(r, "pending", "from") \in Nat /\ Units(r, "transferring", "to") \in Nat
  <2>1. "committed" \in Buckets /\ "incoming" \in Buckets
    BY DEF Buckets
  <2>2. ordered \in [Rows -> 0..MaxOrders] /\ MaxOrders \in Nat
    BY BoundAssumption DEF TInv, TypeOK
  <2>3. ordered' \in [Rows -> 0..MaxOrders]
    BY OrderTInv DEF TInv, TypeOK
  <2> QED
    BY <2>1, <2>2, <2>3, OpeningAssumption, UnitsBound
<1>5. ordered'[r] = ordered[r] + n
  <2>1. CASE r = s
    BY <1>4, <2>1
  <2>2. CASE r # s
    <3>1. ordered'[r] = ordered[r]
      BY <2>2 DEF OrderReserves, OrderReleases, TInv, TypeOK
    <3> QED
      BY <1>4, <2>2, <3>1
  <2> QED
    BY <2>1, <2>2
<1> HIDE DEF n
<1> QED
  BY <1>2, <1>3, <1>4, <1>5

\* Every step keeps the sums exact.
LEMMA NextExact ==
    TInv /\ ReservationsAndTransitExact /\ [Next]_vars => ReservationsAndTransitExact'
<1> SUFFICES ASSUME TInv, ReservationsAndTransitExact, [Next]_vars
             PROVE  ReservationsAndTransitExact'
  OBVIOUS
<1>1. CASE overlap
  <2>1. overlap' = overlap
    BY DEF Next, vars, Create, Read, Validate, Commit, Fail, LockNext, OrderReserves,
       OrderReleases
  <2> QED
    BY <1>1, <2>1 DEF ReservationsAndTransitExact
<1>2. CASE ~overlap
  <2>1. ASSUME UNCHANGED <<status, content, level, ordered, overlap>>
        PROVE  ReservationsAndTransitExact'
    BY <2>1 DEF ReservationsAndTransitExact, Units
  <2>2. ASSUME NEW q \in Reqs, Commit(q) PROVE ReservationsAndTransitExact'
    BY <1>2, <2>2, CommitExact
  <2>3. ASSUME NEW x \in Transfers, Create(x) PROVE ReservationsAndTransitExact'
    BY <1>2, <2>3, CreateExact
  <2>4. ASSUME NEW r \in Rows, OrderReserves(r) \/ OrderReleases(r)
        PROVE  ReservationsAndTransitExact'
    BY <1>2, <2>4, OrderExact
  <2> QED
    BY <2>1, <2>2, <2>3, <2>4 DEF Next, vars, Read, Validate, Fail, LockNext
<1> QED
  BY <1>1, <1>2

\* As long as nobody works on a document somebody else works on, what is
\* reserved is what orders and pending transfers reserve, and what is announced
\* is what transfers on the road carry, in whatever order requests interleave.
THEOREM TransfersExact == Spec => []ReservationsAndTransitExact
BY InitTInv, NextTInv, InitExact, NextExact, PTL DEF Spec

-----------------------------------------------------------------------------
(* A transfer can always be finished.                                      *)

\* What an entry that puts away or calls back needs to pass.
LEMMA EntryPasses ==
    ASSUME NEW l \in Level, NEW n \in Nat, \A b \in Buckets : l[b] >= 0
    PROVE  /\ ~Refused(l, Entry("on_hand", n, "transfer_in"))
           /\ n <= l["committed"] => ~Refused(l, Entry("committed", -n, "transfer_release"))
           /\ n <= l["incoming"] => ~Refused(l, Entry("incoming", -n, "incoming_receipt"))
           /\ n <= l["incoming"] => ~Refused(l, Entry("incoming", -n, "incoming_cancel"))
<1>1. /\ "on_hand" \in Buckets /\ "committed" \in Buckets /\ "incoming" \in Buckets
      /\ \A b \in Buckets : l[b] \in Int
  BY DEF Buckets, Level
<1>2. ASSUME NEW b \in {"on_hand", "committed", "incoming"}, NEW k \in Int,
             NEW t \in MovementTypes, l[b] + k >= 0,
             b = "on_hand" => k >= 0, b # "incoming" /\ b # "on_hand" => k <= 0
      PROVE  ~Refused(l, Entry(b, k, t))
  <2> DEFINE e == Entry(b, k, t)
  <2>1. e.bucket = b /\ e.change = k /\ Moved(l, e)[b] = l[b] + k
    BY <1>1, <1>2, EntryMoves DEF Entry
  <2> HIDE DEF e
  <2>2. ~RefusedNegative(l, e)
    BY <1>1, <1>2, <2>1 DEF RefusedNegative
  <2>3. ~WorsensAvailable(e)
    BY <1>1, <1>2, <2>1 DEF WorsensAvailable
  <2> QED
    BY <2>2, <2>3 DEF Refused, RefusedOversell, e
<1>3. /\ "transfer_in" \in MovementTypes /\ "transfer_release" \in MovementTypes
      /\ "incoming_receipt" \in MovementTypes /\ "incoming_cancel" \in MovementTypes
  BY DEF MovementTypes
<1>4. /\ -n \in Int /\ -n <= 0 /\ n >= 0 /\ l["on_hand"] + n >= 0
      /\ n <= l["committed"] => l["committed"] + -n >= 0
      /\ n <= l["incoming"] => l["incoming"] + -n >= 0
  BY <1>1
<1>5. ~Refused(l, Entry("on_hand", n, "transfer_in"))
  BY <1>2, <1>3, <1>4
<1>6. n <= l["committed"] => ~Refused(l, Entry("committed", -n, "transfer_release"))
  BY <1>2, <1>3, <1>4
<1>7. n <= l["incoming"] => ~Refused(l, Entry("incoming", -n, "incoming_receipt"))
  BY <1>2, <1>3, <1>4
<1>8. n <= l["incoming"] => ~Refused(l, Entry("incoming", -n, "incoming_cancel"))
  BY <1>2, <1>3, <1>4
<1> QED
  BY <1>5, <1>6, <1>7, <1>8

\* A pending transfer's line at the sending warehouse is among what is
\* committed there, and a line on the road among what is incoming.
LEMMA ShareThere ==
    ASSUME TInv, ReservationsAndTransitExact, ~overlap,
           NEW x \in Transfers, NEW r \in Rows
    PROVE  /\ status[x] = "pending" =>
                  Share(content[x], r, "from") <= level[r]["committed"]
           /\ status[x] = "transferring" =>
                  Share(content[x], r, "to") <= level[r]["incoming"]
<1>1. /\ OpeningLevel[r]["committed"] \in Nat /\ OpeningLevel[r]["incoming"] \in Nat
      /\ ordered[r] \in Nat
  <2>1. "committed" \in Buckets /\ "incoming" \in Buckets
    BY DEF Buckets
  <2>2. ordered \in [Rows -> 0..MaxOrders] /\ MaxOrders \in Nat
    BY BoundAssumption DEF TInv, TypeOK
  <2> QED
    BY <2>1, <2>2, OpeningAssumption
<1>2. /\ Units(r, "pending", "from") \in Nat /\ Units(r, "transferring", "to") \in Nat
      /\ status[x] = "pending" =>
            Share(content[x], r, "from") <= Units(r, "pending", "from")
      /\ status[x] = "transferring" =>
            Share(content[x], r, "to") <= Units(r, "transferring", "to")
  BY UnitsBound
<1>3. Share(content[x], r, "from") \in Nat /\ Share(content[x], r, "to") \in Nat
  <2>1. content[x] \in AllContents
    BY ContentsAre DEF TInv, TypeOK
  <2> QED
    BY <2>1, ShareType
<1> QED
  BY <1>1, <1>2, <1>3 DEF ReservationsAndTransitExact

\* With the sums exact, nothing can refuse a receipt or a cancellation.
LEMMA NothingRefuses == TInv /\ ReservationsAndTransitExact => NeverStranded
<1> SUFFICES ASSUME TInv, ReservationsAndTransitExact, ~overlap,
                    NEW q \in Reqs, ReadyToCommit(q),
                    req[q].op \in {"receive", "cancel_pending", "cancel_transferring"},
                    NEW r \in DOMAIN LinesOf(req[q].op, req[q].seen)
             PROVE  LinePasses(level[r], LinesOf(req[q].op, req[q].seen)[r])
  BY DEF NeverStranded, DocumentPasses
<1> DEFINE op == req[q].op
           c == req[q].seen
           x == req[q].x
           l == level[r]
           n == c.qty[r[1]]
<1>1. /\ x \in Transfers /\ c \in AllContents /\ c \in PossibleContents
      /\ op \in Ops /\ op # "update"
  BY RequestType DEF TInv
<1>2. status[x] = StatusFor(op) /\ content[x] = c
  <2>1. req[q].pc # "idle" /\ ReadsCurrent
    BY DEF ReadyToCommit, TInv
  <2> QED
    BY <1>1, <2>1 DEF ReadsCurrent
<1>3. c.from # c.to
  BY <1>1 DEF PossibleContents, EditedContents
<1>4. r \in Rows
  BY <1>1, LinesDomain
<1>5. l \in Level /\ \A b \in Buckets : l[b] >= 0
  <2>1. level[r] \in [Buckets -> Nat] /\ level[r] \in Level
    BY <1>4 DEF TInv, TypeOK, NonNegative
  <2> QED
    BY <2>1
<1>6. /\ status[x] = "pending" => Share(c, r, "from") <= l["committed"]
      /\ status[x] = "transferring" => Share(c, r, "to") <= l["incoming"]
  BY <1>1, <1>2, <1>4, ShareThere
<1>7. /\ Share(c, r, "from") = (IF r[2] = c.from /\ r[1] \in DOMAIN c.qty THEN n ELSE 0)
      /\ Share(c, r, "to") = (IF r[2] = c.to /\ r[1] \in DOMAIN c.qty THEN n ELSE 0)
      /\ r[1] \in DOMAIN c.qty => n \in Nat
  BY <1>1, <1>4, Shares, ContentType
<1>8. r \in DOMAIN LinesOf(op, c) /\ op \in {"receive", "cancel_pending", "cancel_transferring"}
  OBVIOUS
<1> SUFFICES LinePasses(l, LinesOf(op, c)[r])
  OBVIOUS
<1> HIDE DEF op, c, x, l, n
<1>9. CASE op = "cancel_pending"
  <2>1. /\ r[1] \in DOMAIN c.qty /\ r[2] = c.from
        /\ LinesOf(op, c)[r] = PostLine(<<Entry("committed", -n, "transfer_release")>>)
    BY <1>1, <1>4, <1>8, <1>9, CancelPendingLine DEF LinesOf, n
  <2>2. n \in Nat /\ n <= l["committed"]
    BY <1>2, <1>6, <1>7, <1>9, <2>1 DEF StatusFor
  <2>3. ~Refused(l, Entry("committed", -n, "transfer_release"))
    BY <1>5, <2>2, EntryPasses
  <2> QED
    BY <2>1, <2>3, BatchOfOne
<1>10. CASE op = "receive"
  <2> DEFINE a == Entry("incoming", -n, "incoming_receipt")
             b == Entry("on_hand", n, "transfer_in")
  <2>1. /\ r[1] \in DOMAIN c.qty /\ r[2] = c.to
        /\ LinesOf(op, c)[r] = PostLine(<<a, b>>)
    BY <1>1, <1>4, <1>8, <1>10, ReceiveLine DEF LinesOf, n
  <2>2. n \in Nat /\ n <= l["incoming"]
    BY <1>2, <1>6, <1>7, <1>10, <2>1 DEF StatusFor
  <2>3. ~Refused(l, a)
    BY <1>5, <2>2, EntryPasses
  <2>4. a \in Movement
    <3>1. -n \in Int /\ "incoming_receipt" \in MovementTypes /\ "incoming" \in Buckets
      BY <2>2 DEF MovementTypes, Buckets
    <3> QED
      BY <1>5, <3>1, EntryMoves
  <2>5. Moved(l, a) \in Level /\ \A d \in Buckets : Moved(l, a)[d] >= 0
    <3> HIDE DEF a
    <3> QED
      BY <1>5, <2>3, <2>4, PassedKeepsNonNegative, MovedType
  <2> HIDE DEF a
  <2>6. ~Refused(Moved(l, a), b)
    BY <2>2, <2>5, EntryPasses
  <2> HIDE DEF b
  <2> QED
    BY <2>1, <2>3, <2>6, BatchOfTwo
<1>11. CASE op = "cancel_transferring"
  <2> DEFINE a == Entry("on_hand", n, "transfer_in")
             b == Entry("incoming", -n, "incoming_cancel")
  <2>1. /\ r[1] \in DOMAIN c.qty /\ (r[2] = c.from \/ r[2] = c.to)
        /\ LinesOf(op, c)[r] = PostLine((IF r[2] = c.from THEN <<a>> ELSE << >>)
                                          \o (IF r[2] = c.to THEN <<b>> ELSE << >>))
    BY <1>1, <1>4, <1>8, <1>11, CancelTransferringLine DEF LinesOf, n
  <2>2. /\ n \in Nat /\ r[2] = c.to => n <= l["incoming"]
    BY <1>2, <1>6, <1>7, <1>11, <2>1 DEF StatusFor
  <2>3. n \in Nat
    BY <1>7, <2>1
  <2>4. a \in Movement /\ b \in Movement
    <3>1. /\ n \in Int /\ -n \in Int /\ "transfer_in" \in MovementTypes
          /\ "incoming_cancel" \in MovementTypes
          /\ "incoming" \in Buckets /\ "on_hand" \in Buckets
      BY <2>3 DEF MovementTypes, Buckets
    <3> QED
      BY <1>5, <3>1, EntryMoves
  <2>5. ~Refused(l, a) /\ (n <= l["incoming"] => ~Refused(l, b))
    BY <1>5, <2>3, EntryPasses
  <2> HIDE DEF a, b
  <2>6. <<a>> \o << >> = <<a>> /\ << >> \o <<b>> = <<b>>
    BY <2>4, Joined
  <2>7. CASE r[2] = c.from
    <3>1. LinesOf(op, c)[r] = PostLine(<<a>>)
      BY <1>3, <2>1, <2>6, <2>7
    <3> QED
      BY <2>5, <3>1, BatchOfOne
  <2>8. CASE r[2] = c.to
    <3>1. LinesOf(op, c)[r] = PostLine(<<b>>)
      BY <1>3, <2>1, <2>6, <2>8
    <3> QED
      BY <2>2, <2>3, <2>5, <2>8, <3>1, BatchOfOne
  <2> QED
    BY <2>1, <2>7, <2>8
<1> QED
  BY <1>8, <1>9, <1>10, <1>11

\* A transfer that has been reserved or sent can always be received or
\* cancelled, whatever else has happened to the stock since.
THEOREM TransfersNeverStranded == Spec => []NeverStranded
BY InitTInv, NextTInv, InitExact, NextExact, NothingRefuses, PTL DEF Spec

-----------------------------------------------------------------------------
(* Goods.                                                                  *)

\* The stock of one variant, warehouse by warehouse.
GoodsAt(stock, v) ==
    [l \in Locations |-> stock[<<v, l>>]["on_hand"] + stock[<<v, l>>]["incoming"]]

\* A row's goods are a number, and change as its buckets do.
LEMMA RowGoods ==
    ASSUME NEW k \in Level, NEW m, NEW a \in Int, NEW b \in Int, NEW c \in Int,
           Differs(k, m, a, b, c)
    PROVE  /\ k["on_hand"] + k["incoming"] \in Int
           /\ m["on_hand"] + m["incoming"] = k["on_hand"] + k["incoming"] + (a + c)
<1>1. "on_hand" \in Buckets /\ "incoming" \in Buckets
  BY DEF Buckets
<1>2. k["on_hand"] \in Int /\ k["incoming"] \in Int
  BY <1>1 DEF Level
<1> QED
  BY <1>2 DEF Differs

\* What an operation does to the goods of variant v: n units go from warehouse
\* b to warehouse a.
Carries(op, c, v, n, a, b) ==
    \A l \in Locations :
        /\ OnHandChange(op, c, <<v, l>>) \in Int
        /\ CommittedChange(op, c, <<v, l>>) \in Int
        /\ IncomingChange(op, c, <<v, l>>) \in Int
        /\ OnHandChange(op, c, <<v, l>>) + IncomingChange(op, c, <<v, l>>)
              = (IF l = a THEN n ELSE 0) - (IF l = b THEN n ELSE 0)

\* What each operation carries from one place to another, variant by variant.
LEMMA GoodsChange ==
    ASSUME NEW op \in Ops, NEW c \in AllContents, NEW v \in Variants
    PROVE  \E n \in Int, a \in Locations, b \in Locations : Carries(op, c, v, n, a, b)
<1> DEFINE n == IF v \in DOMAIN c.qty THEN c.qty[v] ELSE 0
<1>1. n \in Int /\ -n \in Int /\ c.from \in Locations /\ c.to \in Locations
  BY ContentType
<1>2. \A l \in Locations :
         /\ Share(c, <<v, l>>, "from") = IF l = c.from THEN n ELSE 0
         /\ Share(c, <<v, l>>, "to") = IF l = c.to THEN n ELSE 0
  BY DEF Share
<1> HIDE DEF n
<1>3. \A l \in Locations :
         /\ Share(c, <<v, l>>, "from") \in Int /\ Share(c, <<v, l>>, "to") \in Int
         /\ -Share(c, <<v, l>>, "from") \in Int /\ -Share(c, <<v, l>>, "to") \in Int
  BY <1>1, <1>2
<1>4. \A l \in Locations :
         /\ OnHandChange(op, c, <<v, l>>) \in Int
         /\ CommittedChange(op, c, <<v, l>>) \in Int
         /\ IncomingChange(op, c, <<v, l>>) \in Int
  BY <1>3 DEF OnHandChange, CommittedChange, IncomingChange
<1>5. CASE op = "ship"
  <2>1. Carries(op, c, v, n, c.to, c.from)
    BY <1>1, <1>2, <1>4, <1>5 DEF OnHandChange, IncomingChange, Carries
  <2> QED
    BY <1>1, <2>1
<1>6. CASE op = "cancel_transferring"
  <2>1. Carries(op, c, v, n, c.from, c.to)
    BY <1>1, <1>2, <1>4, <1>6 DEF OnHandChange, IncomingChange, Carries
  <2> QED
    BY <1>1, <2>1
<1>7. CASE op \notin {"ship", "cancel_transferring"}
  <2>1. Carries(op, c, v, 0, c.to, c.to)
    <3>1. CASE op = "receive"
      BY <1>1, <1>2, <1>4, <3>1 DEF OnHandChange, IncomingChange, Carries
    <3>2. CASE op # "receive"
      BY <1>4, <1>7, <3>2 DEF OnHandChange, IncomingChange, Carries
    <3> QED
      BY <3>1, <3>2
  <2> QED
    BY <1>1, <2>1
<1> QED
  BY <1>5, <1>6, <1>7

\* A step of the system leaves the goods of a variant as they were.
LEMMA NextGoods ==
    TInv /\ [Next]_vars => \A v \in Variants : Goods(level, v)' = Goods(level, v)
<1> SUFFICES ASSUME TInv, [Next]_vars, NEW v \in Variants
             PROVE  Goods(level, v)' = Goods(level, v)
  OBVIOUS
<1> DEFINE f == GoodsAt(level, v)
           g == GoodsAt(level', v)
<1>1. /\ Goods(level, v) = SumFunctionOnSet(f, Locations)
      /\ Goods(level, v)' = SumFunctionOnSet(g, Locations)
  BY DEF Goods, GoodsAt
<1>2. \A l \in Locations :
         /\ <<v, l>> \in Rows
         /\ f[l] = level[<<v, l>>]["on_hand"] + level[<<v, l>>]["incoming"]
         /\ g[l] = level'[<<v, l>>]["on_hand"] + level'[<<v, l>>]["incoming"]
  BY DEF GoodsAt, Rows
<1> HIDE DEF f, g
<1>3. CASE level' = level
  BY <1>1, <1>3 DEF Goods
<1>4. ASSUME NEW q \in Reqs, Commit(q) PROVE Goods(level, v)' = Goods(level, v)
  <2> DEFINE op == req[q].op
             c == req[q].seen
  <2>1. op \in Ops /\ c \in AllContents
    BY RequestType DEF TInv
  <2>2. \A l \in Locations :
           /\ level[<<v, l>>] \in Level
           /\ Differs(level[<<v, l>>], level'[<<v, l>>], OnHandChange(op, c, <<v, l>>),
                      CommittedChange(op, c, <<v, l>>), IncomingChange(op, c, <<v, l>>))
    BY <1>2, <1>4, CommitLevels
  <2> HIDE DEF op, c
  <2>3. PICK n \in Int, a \in Locations, b \in Locations : Carries(op, c, v, n, a, b)
    BY <2>1, GoodsChange
  <2>4. \A l \in Locations :
           /\ f[l] \in Int
           /\ g[l] = f[l] + (OnHandChange(op, c, <<v, l>>) + IncomingChange(op, c, <<v, l>>))
    BY <1>2, <2>2, <2>3, RowGoods DEF Carries
  <2>5. /\ \A l \in Locations : f[l] \in Int
        /\ \A l \in Locations \ {a, b} : g[l] = f[l]
        /\ a = b => g[a] = f[a]
        /\ a # b => g[a] = f[a] + n /\ g[b] = f[b] - n
    <3>1. \A l \in Locations : f[l] \in Int
             /\ g[l] = f[l] + ((IF l = a THEN n ELSE 0) - (IF l = b THEN n ELSE 0))
      BY <2>3, <2>4 DEF Carries
    <3> QED
      BY <3>1
  <2>6. SumFunctionOnSet(g, Locations) = SumFunctionOnSet(f, Locations)
    BY <2>5, SetsAssumption, SumMoved
  <2> QED
    BY <1>1, <2>6
<1>5. ASSUME NEW r \in Rows, OrderReserves(r) \/ OrderReleases(r)
      PROVE  Goods(level, v)' = Goods(level, v)
  <2>3. ASSUME NEW l \in Locations PROVE g[l] = f[l]
    <3> DEFINE n == IF <<v, l>> # r THEN 0 ELSE ordered'[r] - ordered[r]
    <3>1. /\ level[<<v, l>>] \in Level /\ n \in Int
          /\ Differs(level[<<v, l>>], level'[<<v, l>>], 0, n, 0)
      BY <1>2, <1>5, OrderLevels
    <3> HIDE DEF n
    <3>2. f[l] \in Int /\ g[l] = f[l] + (0 + 0)
      BY <1>2, <3>1, RowGoods
    <3> QED
      BY <3>2
  <2>4. SumFunctionOnSet(g, Locations) = SumFunctionOnSet(f, Locations)
    BY <2>3, SetsAssumption, SumSame
  <2> QED
    BY <1>1, <2>4
<1> QED
  BY <1>3, <1>4, <1>5 DEF Next, vars, Create, Read, Validate, Fail, LockNext

\* Goods on hand and on the road together are what they were at the opening: a
\* transfer neither makes nor loses goods, however requests interleave, on one
\* document too.
THEOREM TransfersConserveGoods == Spec => []GoodsConserved
<1>1. Init => GoodsConserved
  BY DEF Init, GoodsConserved
<1>2. TInv /\ GoodsConserved /\ [Next]_vars => GoodsConserved'
  <2> SUFFICES ASSUME TInv, GoodsConserved, [Next]_vars, NEW v \in Variants
               PROVE  Goods(level, v)' = Goods(OpeningLevel, v)
    BY DEF GoodsConserved, Goods
  <2> QED
    BY NextGoods DEF GoodsConserved
<1> QED
  BY <1>1, <1>2, InitTInv, NextTInv, PTL DEF Spec
=============================================================================
