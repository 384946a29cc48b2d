------------------------------- MODULE Customers -------------------------------
(***************************************************************************)
(* CustomerService and CustomerGroupService: customers are told apart by   *)
(* their phone number, whatever form it is written in; groups are kept by  *)
(* hand or by rules.  Saving a customer looks at every group with rules,   *)
(* saving a group at every customer; both do so after the save, in steps   *)
(* of their own.  The queue of channel orders makes customers by itself.   *)
(***************************************************************************)
EXTENDS Integers, FiniteSets

CONSTANTS
    Customers, Groups, Reqs,
    Phones,         \* numbers as they are written: [key, form]
    Profiles,       \* bound: what customers are saved as, see Profile
    RuleSets,       \* bound: the sets of rules groups are given
    Troubles,       \* what may go wrong: "channel", "failure"
    Overlaps        \* whether requests run at the same time in this run's behaviours

None == "none"
NoPhone == [key |-> None, form |-> None]
Genders == {"male", "female"}

Profile(phone, gender, places) ==
    [st |-> "there", phone |-> phone, gender |-> gender, places |-> places,
     state |-> "enabled"]

\* The values of the constants, assumed by the module that instantiates this one.
CustomersAssumption ==
    /\ \A p \in Profiles : /\ p = Profile(p.phone, p.gender, p.places)
                           /\ p.gender \in Genders \union {None}
    /\ Troubles \subseteq {"channel", "failure"} /\ Overlaps \subseteq BOOLEAN
    /\ {} \notin RuleSets

VARIABLES
    customer,   \* customers and customer_addresses
    orders,     \* customers who have orders
    group,      \* customer_groups
    members,    \* customer_group_members
    req,        \* requests of the staff
    behind,     \* history: pairs whose customer or group changed since it was looked at
    overlap

vars == <<customer, orders, group, members, req, behind, overlap>>

NoCustomer == [Profile(NoPhone, None, {}) EXCEPT !.st = "none"]
NoGroup == [st |-> "none", type |-> "manual", rules |-> {}, any |-> FALSE]
Idle == [pc |-> "idle"]

There(c) == customer[c].st = "there"
Present(g) == group[g].st = "there"
Auto(g) == Present(g) /\ group[g].type = "auto"
Manual(g) == Present(g) /\ group[g].type = "manual"

Init ==
    /\ customer = [c \in Customers |-> NoCustomer]
    /\ orders = {}
    /\ group = [g \in Groups |-> NoGroup]
    /\ members = {} /\ behind = {}
    /\ req = [q \in Reqs |-> Idle]
    /\ overlap \in Overlaps

MayStart(q) ==
    /\ req[q] = Idle
    /\ overlap \/ \A p \in Reqs : req[p] = Idle

Step(q, pc) == req' = [req EXCEPT ![q].pc = pc]
Done(q) == req' = [req EXCEPT ![q] = Idle]

-----------------------------------------------------------------------------
(* The rules.                                                              *)

\* RULE_COLUMNS: what the columns hold of a customer, a place of any of the addresses.
Holds(c) == [gender |-> {c.gender}, state |-> {c.state}, province |-> c.places,
             phone |-> {c.phone} \ {NoPhone}]

\* One rule.  A column left empty differs from every value.
Meets(c, rule) ==
    LET held == Holds(c)[rule.column]
    IN  CASE rule.relation = "equals" -> rule.value \in held
          [] rule.relation = "not_equals" -> rule.value \notin held
          [] rule.relation = "is_set" -> held # {}
          [] rule.relation = "is_not_set" -> held = {}

\* buildCustomerGroupWhere; a group without rules is refused.
Matches(c, rules, any) ==
    /\ c.st = "there"
    /\ IF any THEN \E r \in rules : Meets(c, r) ELSE \A r \in rules : Meets(c, r)

Matching(rules, any) == {c \in Customers : Matches(customer[c], rules, any)}

-----------------------------------------------------------------------------
(* Customers.                                                              *)

\* phoneKey: the same number in every form.
PhoneKey(phone) == phone.key

\* customersWithPhone
Holders(phone) ==
    {c \in Customers : There(c) /\ phone # NoPhone /\ PhoneKey(customer[c].phone) = PhoneKey(phone)}

\* create and update find the number free; update asks only if it is another number.
BeginSave(q, c, data, groups) ==
    /\ MayStart(q)
    /\ \/ customer[c].st = "none" /\ Holders(data.phone) = {}
       \/ /\ There(c) /\ data.st = "there"
          /\ \/ PhoneKey(data.phone) = PhoneKey(customer[c].phone)
             \/ Holders(data.phone) \ {c} = {}
    /\ req' = [req EXCEPT ![q] =
         [pc |-> "save", c |-> c, new |-> customer[c].st = "none", groups |-> groups,
          data |-> data, work |-> {}]]
    /\ UNCHANGED <<customer, orders, group, members, behind, overlap>>

\* replaceManualGroups: groups with rules are not given by hand.
WithManualGroups(c, groups) ==
    LET manual == {g \in Groups : Manual(g)}
    IN  {m \in members : m[1] # c \/ m[2] \notin manual}
            \union ({c} \X (groups \intersect manual))

\* The customer's row and hand-kept groups.
Save(q) ==
    LET r == req[q] IN
    /\ r.pc = "save"
    /\ r.new = (customer[r.c].st = "none")
    /\ r.new \/ There(r.c)
    /\ customer' = [customer EXCEPT ![r.c] = r.data]
    /\ members' = WithManualGroups(r.c, r.groups)
    /\ behind' = behind \union ({r.c} \X Groups)
    /\ Step(q, "read")
    /\ UNCHANGED <<orders, group, overlap>>

\* syncCustomerAutoGroups reads the groups with rules ...
ReadGroups(q) ==
    /\ req[q].pc = "read"
    /\ req' = [req EXCEPT ![q].pc = "sync",
                          ![q].work = {[g |-> g, rules |-> group[g].rules, any |-> group[g].any] :
                                         g \in {h \in Groups : Auto(h)}}]
    /\ UNCHANGED <<customer, orders, group, members, behind, overlap>>

\* Mutant: the customer is added, and never taken out.
MembershipAdded(c, w) ==
    IF Matches(customer[c], w.rules, w.any) THEN members \union {<<c, w.g>>} ELSE members

\* ... and sees to the customer's membership in one after the other.
Membership(c, w) ==
    IF Matches(customer[c], w.rules, w.any)
    THEN members \union {<<c, w.g>>} ELSE members \ {<<c, w.g>>}

SyncGroup(q) ==
    LET r == req[q] IN
    /\ r.pc = "sync"
    /\ \E w \in r.work :
        /\ Present(w.g) \/ ~Matches(customer[r.c], w.rules, w.any)
        /\ members' = Membership(r.c, w)
        /\ behind' = behind \ {<<r.c, w.g>>}
        /\ req' = [req EXCEPT ![q].work = @ \ {w}]
    /\ UNCHANGED <<customer, orders, group, overlap>>

\* The counts of the groups are written, which nothing reads.
Saved(q) ==
    /\ req[q].pc = "sync" /\ req[q].work = {}
    /\ Done(q)
    /\ UNCHANGED <<customer, orders, group, members, behind, overlap>>

\* remove: whether there are orders ...
BeginRemove(q, c) ==
    /\ MayStart(q) /\ There(c)
    /\ req' = [req EXCEPT ![q] = [pc |-> IF c \in orders THEN "disable" ELSE "delete", c |-> c]]
    /\ UNCHANGED <<customer, orders, group, members, behind, overlap>>

\* ... decides between switching off, which leaves the groups alone,
Disable(q) ==
    LET c == req[q].c IN
    /\ req[q].pc = "disable" /\ There(c)
    /\ customer' = [customer EXCEPT ![c].state = "disabled"]
    /\ behind' = behind \union ({c} \X Groups)
    /\ Done(q)
    /\ UNCHANGED <<orders, group, members, overlap>>

\* and deleting, with the memberships (and the orders made meanwhile lose their
\* customer).
Delete(q) ==
    LET c == req[q].c IN
    /\ req[q].pc = "delete" /\ There(c)
    /\ customer' = [customer EXCEPT ![c] = [NoCustomer EXCEPT !.st = "gone"]]
    /\ members' = {m \in members : m[1] # c}
    /\ orders' = orders \ {c}
    /\ Done(q)
    /\ UNCHANGED <<group, behind, overlap>>

\* An order is made for the customer.
Order(c) ==
    /\ There(c) /\ c \notin orders
    /\ orders' = orders \union {c}
    /\ UNCHANGED <<customer, group, members, req, behind, overlap>>

\* handleWebhook: a number that nobody has, written like this, is a new customer's.
ChannelCustomer(c, phone) ==
    /\ "channel" \in Troubles
    /\ customer[c].st = "none" /\ phone # NoPhone
    /\ ~\E d \in Customers : There(d) /\ customer[d].phone = phone
    /\ customer' = [customer EXCEPT ![c] =
                      [NoCustomer EXCEPT !.st = "there", !.phone = phone]]
    /\ orders' = orders \union {c}
    /\ behind' = behind \union ({c} \X Groups)
    /\ UNCHANGED <<group, members, req, overlap>>

-----------------------------------------------------------------------------
(* Groups.                                                                 *)

\* create and update; what they find of the group is read before.
BeginGroup(q, g, data) ==
    /\ MayStart(q)
    /\ group[g].st # "gone"
    /\ req' = [req EXCEPT ![q] = [pc |-> "group", g |-> g, data |-> data]]
    /\ UNCHANGED <<customer, orders, group, members, behind, overlap>>

\* The row; a group that goes over to being kept by hand keeps its members.
SaveGroup(q) ==
    LET r == req[q] IN
    /\ r.pc = "group" /\ group[r.g].st # "gone"
    /\ group' = [group EXCEPT ![r.g] = r.data]
    /\ behind' = behind \union (Customers \X {r.g})
    /\ IF r.data.type = "auto" THEN Step(q, "recalculate") ELSE Done(q)
    /\ UNCHANGED <<customer, orders, members, overlap>>

Recalculate(q, g) ==
    /\ MayStart(q) /\ Auto(g)
    /\ req' = [req EXCEPT ![q] = [pc |-> "recalculate", g |-> g]]
    /\ UNCHANGED <<customer, orders, group, members, behind, overlap>>

\* recalculate reads who matches and who is in the group ...
ReadMatching(q) ==
    LET g == req[q].g
        is == {c \in Customers : <<c, g>> \in members}
        should == Matching(group[g].rules, group[g].any)
    IN  /\ req[q].pc = "recalculate" /\ Auto(g)
        /\ req' = [req EXCEPT ![q] = [pc |-> "replace", g |-> g,
                                      add |-> should \ is, remove |-> is \ should]]
        /\ behind' = behind \ (Customers \X {g})
        /\ UNCHANGED <<customer, orders, group, members, overlap>>

\* ... and writes the difference, in one transaction.
Replace(q) ==
    LET r == req[q] IN
    /\ r.pc = "replace" /\ Present(r.g) /\ \A c \in r.add : There(c)
    /\ members' = (members \ (r.remove \X {r.g})) \union (r.add \X {r.g})
    /\ Done(q)
    /\ UNCHANGED <<customer, orders, group, behind, overlap>>

\* addMembers, removeMember
ByHand(g, c) ==
    /\ Manual(g) /\ There(c)
    /\ members' = IF <<c, g>> \in members THEN members \ {<<c, g>>} ELSE members \union {<<c, g>>}
    /\ UNCHANGED <<customer, orders, group, req, behind, overlap>>

\* remove, unless a price list is for the group.
RemoveGroup(g) ==
    /\ Present(g)
    /\ group' = [group EXCEPT ![g] = [NoGroup EXCEPT !.st = "gone"]]
    /\ members' = {m \in members : m[2] # g}
    /\ UNCHANGED <<customer, orders, req, behind, overlap>>

\* A request breaks off: the row it needs is gone, the database fails, the process
\* dies.
Fail(q) ==
    /\ "failure" \in Troubles /\ req[q] # Idle
    /\ behind' = IF req[q].pc = "replace"
                 THEN behind \union (Customers \X {req[q].g}) ELSE behind
    /\ Done(q)
    /\ UNCHANGED <<customer, orders, group, members, overlap>>

GroupData ==
    [st : {"there"}, type : {"manual", "auto"}, rules : RuleSets, any : BOOLEAN]

Next ==
    \/ \E q \in Reqs :
        \/ \E c \in Customers, data \in Profiles, groups \in SUBSET Groups :
              BeginSave(q, c, data, groups)
        \/ Save(q) \/ ReadGroups(q) \/ SyncGroup(q) \/ Saved(q)
        \/ \E c \in Customers : BeginRemove(q, c)
        \/ Disable(q) \/ Delete(q)
        \/ \E g \in Groups, data \in GroupData : BeginGroup(q, g, data)
        \/ \E g \in Groups : Recalculate(q, g)
        \/ SaveGroup(q) \/ ReadMatching(q) \/ Replace(q) \/ Fail(q)
    \/ \E c \in Customers : Order(c) \/ \E phone \in Phones : ChannelCustomer(c, phone)
    \/ \E g \in Groups : RemoveGroup(g) \/ \E c \in Customers : ByHand(g, c)

Spec == Init /\ [][Next]_vars

-----------------------------------------------------------------------------
\* The types of customers, groups and requests; members are there.
TypeOK ==
    /\ \A c \in Customers : /\ customer[c].st \in {"none", "there", "gone"}
                            /\ customer[c].gender \in Genders \union {None}
    /\ \A g \in Groups : /\ group[g].st \in {"none", "there", "gone"}
                         /\ Auto(g) => group[g].rules # {}
    /\ \A m \in members : There(m[1]) /\ Present(m[2])
    /\ orders \subseteq {c \in Customers : There(c)}
    /\ behind \subseteq Customers \X Groups
    /\ overlap \in Overlaps

\* Requests that follow one another keep a group's members those whom its rules
\* say, looking at one customer or one group at a time; customers whom nothing has
\* looked at since they or the group changed aside (made by the channel queue,
\* switched off by remove, or saved by a request that broke off).
GroupsFollowRules ==
    ~overlap =>
        \A g \in Groups, c \in Customers :
            /\ Auto(g) /\ <<c, g>> \notin behind
            /\ \A q \in Reqs : ~(req[q].pc = "replace" /\ req[q].g = g)
            =>
                (<<c, g>> \in members <=> Matches(customer[c], group[g].rules, group[g].any))

\* The comment of syncCustomerAutoGroups: groups with rules are always right without
\* going through all customers again.  Asked of moments when nothing is under way.
AutoGroupsAlwaysRight ==
    (\A q \in Reqs : req[q] = Idle) =>
        \A g \in Groups : Auto(g) =>
            {c \in Customers : <<c, g>> \in members} = Matching(group[g].rules, group[g].any)
=============================================================================
