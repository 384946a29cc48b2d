-------------------------------- MODULE MCShop --------------------------------
(***************************************************************************)
(* The shop on small instances.                                            *)
(***************************************************************************)
EXTENDS Shop, TLC

CONSTANTS
    c1, c2,             \* customers, categories or users
    g1,                 \* groups
    e1, e2,             \* orders waiting in the queue file
    l1, l2,             \* locations
    q1, q2              \* requests, items that may be wrong, or Sapo's locations

MCReqs == {q1, q2}

\* A number in two forms; rules that look at a gender, at the places of a customer with
\* several addresses or none, at the state and at whether there is a number.
Phone(form) == [key |-> "1", form |-> form]
Unphoned == [key |-> "none", form |-> "none"]
Profile(phone, gender, places) ==
    [st |-> "there", phone |-> phone, gender |-> gender, places |-> places,
     state |-> "enabled"]
Rule(column, relation, value) == [column |-> column, relation |-> relation, value |-> value]

MCCustomers == {c1, c2}
MCGroups == {g1}
MCSavers == {q1}
MCPhones == {Phone("0"), Phone("+84")}
MCProfiles ==
    {Profile(Phone("0"), "female", {}), Profile(Phone("+84"), "none", {"hanoi"}),
     Profile(Unphoned, "none", {})}
MCRuleSets ==
    {{Rule("gender", "not_equals", "female"), Rule("province", "equals", "hanoi")},
     {Rule("state", "equals", "enabled"), Rule("phone", "is_set", "none")}}
MCTroubles == {"channel", "failure"}
MCSaversOverlap == {FALSE}

\* Sapo's product has two variants, which the staff edit as two combinations.
MCVariants == 1..3
MCSapoOrder == <<"s1", "s2">>
MCCombinations == {"s1", "s2"}
MCSkus == {"A", "B"}
MCEditorsOverlap == {TRUE}

\* A run reads at most two pages of one order.
MCPasses == MCReqs
MCMayBeOpen == {2}
MCUnknown == {2}
MCExplicit == {3}
MCEntries == {e1, e2}

\* A unit older than the variant lies at the first location.
MCStores == {l1, l2}
MCOpening == l1 :> 1 @@ l2 :> 0

\* A product that has a word, or has not; categories that ask for it, or for nothing.
MCTagged == {"A"}
MCWords == {"v"}
MCRules == {{}, {"v"}}
MCCategories == {c1, c2}

MCUsers == {c1, c2}
MCItems == MCReqs
MCRows == [on : BOOLEAN, to : {{c1, c2}}]

\* A list of the branch's and one of a group's; lines that differ in price or discount.
MCDrawers == {q1}
MCLists == {"branch", "group"}
MCPrices == {1, 2}
MCLines ==
    {[price |-> 1, quantity |-> 1, discount |-> 0],
     [price |-> 2, quantity |-> 1, discount |-> 0],
     [price |-> 2, quantity |-> 1, discount |-> 1]}
MCDiscounts == {0, 1}
MCRates == {<<1, 2>>}

\* Two codes, which Sapo's two locations and one of the staff's ask for.
MCSapoIds == MCReqs
MCCodes == {"A", "B"}
MCForms == {[code |-> "A", text |-> "ours", default |-> TRUE]}
MCViews ==
    {[code |-> "A", text |-> "sapo", phone |-> "none", default |-> TRUE],
     [code |-> "B", text |-> "sapo", phone |-> "sapo", default |-> FALSE]}

Symmetry == Permutations(MCCustomers)

-----------------------------------------------------------------------------
\* What rests does so in one initial state.
MCInit ==
    /\ Init
    /\ area # "pricing" => base = 1
    /\ area # "notices" => setting.on
    /\ area # "catalogue" => sapoSku = ("s1" :> "A" @@ "s2" :> "B")

MCSpec == MCInit /\ [][Next]_vars

\* Bound: the shop closes with the first snapshot, which nothing changes later.
UntilSnapshot == area = "aged" => snapshot.st = "none"
=============================================================================
