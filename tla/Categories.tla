------------------------------- MODULE Categories ------------------------------
(***************************************************************************)
(* CategoryService, and what ProductService and the Excel import do to the *)
(* categories of a product: an automatic category holds the products its   *)
(* conditions fit, looked at when a product is written and when such a     *)
(* category is made.  A product has one variant, and its SKU names it; its *)
(* vendor, type and tags are the words it has.                             *)
(***************************************************************************)
EXTENDS FiniteSets

CONSTANTS
    Skus, Words,
    Rules,          \* conditions of automatic categories: the words they ask for
    Categories, Reqs

\* The values of the constants, assumed by the module that instantiates this one.
CategoriesAssumption == \A rule \in Rules : rule \subseteq Words

VARIABLES
    product,    \* the words of each product
    category,   \* categories
    link,       \* product_categories
    req,        \* requests under way
    over,       \* history: requests that others, or a synchronisation, overlapped
    behind      \* history: products that changed and were not looked at undisturbed

vars == <<product, category, link, req, over, behind>>

NoProduct == [st |-> "none", words |-> {}]
NoCategory == [type |-> "none", rule |-> {}]
Idle == [pc |-> "idle"]

There(s) == product[s].st = "there"
Auto == {c \in Categories : category[c].type = "auto"}
Busy == {r \in Reqs : req[r] # Idle}

Init ==
    /\ product = [s \in Skus |-> NoProduct]
    /\ category = [c \in Categories |-> NoCategory]
    /\ link = {}
    /\ req = [r \in Reqs |-> Idle]
    /\ over = {} /\ behind = {}

\* matchesAuto
Matches(words, rule) == rule # {} /\ rule \subseteq words

\* A request begins; the others that are under way and it overlap.
Start(r, work) ==
    /\ req[r] = Idle
    /\ req' = [req EXCEPT ![r] = work]
    /\ over' = IF Busy = {} THEN over ELSE over \union Busy \union {r}

Finish(r) ==
    /\ req' = [req EXCEPT ![r] = Idle]
    /\ over' = over \ {r}

-----------------------------------------------------------------------------
(* Products.                                                               *)

\* create or update, by the staff or for a row of an import, once the SKU has been
\* looked up: with manual categories or, as the import, without a word on them.
BeginProduct(r, s, words, chosen) ==
    /\ Start(r, [pc |-> "write", sku |-> s, words |-> words, chosen |-> chosen,
                 new |-> ~There(s)])
    /\ UNCHANGED <<product, category, link, behind>>

\* The transaction writes the row, which it then holds, and reads the automatic
\* categories; a SKU that came to be taken is refused.
WriteProduct(r) ==
    /\ req[r].pc = "write"
    /\ req[r].new => ~There(req[r].sku)
    /\ \A q \in Reqs : req[q].pc = "commit" => req[q].sku # req[r].sku
    /\ req' = [req EXCEPT ![r] = [pc |-> "commit", sku |-> @.sku, words |-> @.words,
                                  chosen |-> @.chosen, new |-> @.new, autos |-> Auto]]
    /\ UNCHANGED <<product, category, link, over, behind>>

\* evaluateAutoForProduct
EvaluatedAuto(s, words, autos, links) ==
    {l \in links : l[1] = s /\ l[2] \in autos => Matches(words, category[l[2]].rule)}
        \union {<<s, c>> : c \in {a \in autos : Matches(words, category[a].rule)}}

\* The chosen categories take the place of the manual ones.
WithChosen(s, chosen, links) ==
    {l \in links : l[1] = s => category[l[2]].type # "manual"}
        \union {<<s, c>> : c \in chosen}

CommitProduct(r) ==
    /\ req[r].pc = "commit"
    /\ LET s == req[r].sku
           kept == IF req[r].chosen = {} THEN link ELSE WithChosen(s, req[r].chosen, link)
       IN  /\ product' = [product EXCEPT ![s] = [st |-> "there", words |-> req[r].words]]
           /\ link' = EvaluatedAuto(s, req[r].words, req[r].autos, kept)
           /\ behind' = IF r \in over THEN behind \union {s} ELSE behind \ {s}
    /\ Finish(r)
    /\ UNCHANGED category

\* Sapo's synchronisation writes a product and looks at no category.
SyncProduct(s, words) ==
    /\ words # product[s].words \/ ~There(s)
    /\ product' = [product EXCEPT ![s] = [st |-> "there", words |-> words]]
    /\ behind' = behind \union {s}
    /\ over' = over \union Busy
    /\ UNCHANGED <<category, link, req>>

-----------------------------------------------------------------------------
(* Categories.                                                             *)

\* create: with an alias of its own, under a parent that is there; categories are never
\* changed.  An automatic one has all products looked at.
CreateCategory(r, c, type, rule) ==
    /\ category[c] = NoCategory
    /\ category' = [category EXCEPT ![c] = [type |-> type, rule |-> rule]]
    /\ IF type = "auto" THEN Start(r, [pc |-> "products"])
       ELSE UNCHANGED <<req, over>>
    /\ UNCHANGED <<product, link, behind>>

\* assignProducts
AssignProduct(s, c) ==
    /\ There(s) /\ category[c].type = "manual"
    /\ link' = link \union {<<s, c>>}
    /\ UNCHANGED <<product, category, req, over, behind>>

\* evaluateAutoForAllProducts: the categories and the products, once, ...
ReadProducts(r) ==
    /\ req[r].pc = "products"
    /\ req' = [req EXCEPT ![r] = [pc |-> "links", autos |-> Auto, read |-> product]]
    /\ UNCHANGED <<product, category, link, over, behind>>

\* ... then category by category what it holds, what it lacks and what it must lose.
ReadLinks(r, c) ==
    /\ req[r].pc = "links" /\ c \in req[r].autos
    /\ req' = [req EXCEPT ![r] = [pc |-> "add", autos |-> @.autos, read |-> @.read, cat |-> c,
                                  held |-> {s \in Skus : <<s, c>> \in link}]]
    /\ UNCHANGED <<product, category, link, over, behind>>

Fitting(r) ==
    {s \in Skus : /\ req[r].read[s].st = "there"
                  /\ Matches(req[r].read[s].words, category[req[r].cat].rule)}

AddLinks(r) ==
    /\ req[r].pc = "add"
    /\ link' = link \union {<<s, req[r].cat>> : s \in Fitting(r) \ req[r].held}
    /\ req' = [req EXCEPT ![r].pc = "remove"]
    /\ UNCHANGED <<product, category, over, behind>>

RemoveLinks(r) ==
    /\ req[r].pc = "remove"
    /\ link' = link \ {<<s, req[r].cat>> : s \in req[r].held \ Fitting(r)}
    /\ req' = [req EXCEPT ![r] = [pc |-> "links", autos |-> @.autos \ {@.cat},
                                  read |-> @.read]]
    /\ UNCHANGED <<product, category, over, behind>>

EndEvaluation(r) ==
    /\ req[r].pc = "links" /\ req[r].autos = {}
    /\ behind' = IF r \in over THEN behind ELSE {}
    /\ Finish(r)
    /\ UNCHANGED <<product, category, link>>

\* A product's transaction is rolled back; a category remains, and with it the products
\* nobody looked at.
Fail(r) ==
    /\ req[r] # Idle
    /\ behind' = IF req[r].pc \in {"write", "commit"} THEN behind ELSE Skus
    /\ Finish(r)
    /\ UNCHANGED <<product, category, link>>

Next ==
    \/ \E s \in Skus, words \in SUBSET Words :
        \/ SyncProduct(s, words)
        \/ \E r \in Reqs, chosen \in SUBSET {c \in Categories : category[c] # NoCategory} :
              BeginProduct(r, s, words, chosen)
    \/ \E r \in Reqs : \/ WriteProduct(r) \/ CommitProduct(r)
                       \/ ReadProducts(r) \/ AddLinks(r) \/ RemoveLinks(r)
                       \/ EndEvaluation(r) \/ Fail(r)
    \/ \E c \in Categories :
        \/ \E r \in Reqs : \/ ReadLinks(r, c)
                           \/ CreateCategory(r, c, "manual", {})
                           \/ \E rule \in Rules : CreateCategory(r, c, "auto", rule)
        \/ \E s \in Skus : AssignProduct(s, c)

Spec == Init /\ [][Next]_vars

-----------------------------------------------------------------------------
\* The types of products and links.
TypeOK ==
    /\ \A s \in Skus : product[s].words \subseteq Words
    /\ \A l \in link : There(l[1]) /\ category[l[2]] # NoCategory
    /\ over \subseteq Busy

\* When nothing is under way an automatic category holds just the products its
\* conditions fit, those excepted that Sapo or overlapping requests left behind.
CategoriesFollowRules ==
    Busy = {} => \A s \in Skus \ behind, c \in Auto :
        <<s, c>> \in link <=> There(s) /\ Matches(product[s].words, category[c].rule)
=============================================================================
