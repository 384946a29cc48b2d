------------------------------- MODULE Catalogue -------------------------------
(***************************************************************************)
(* ProductService and SapoProductSyncService.  The staff draw up a product *)
(* with its variants and edit them, which removes variants and makes       *)
(* others in their place; documents of other services come to name a       *)
(* variant meanwhile.  A synchronisation run by hand copies Sapo's product *)
(* from a reading of the tables that may be old, and gives way to whoever  *)
(* holds a SKU already.  Prices, texts and pictures are left out, of the   *)
(* opening stock all but that its movements name the variant, and aliases, *)
(* which are resolved as SKUs are.                                         *)
(***************************************************************************)
EXTENDS Integers, FiniteSets, SequencesExt

CONSTANTS
    Variants,       \* bound: rows of product_variants, each used once
    SapoOrder,      \* Sapo's variants, in the order it lists them
    Combinations,   \* option values of a variant
    Skus,
    Overlaps        \* whether documents come between an edit's check and its end

\* The values of the constants, assumed by the module that instantiates this one.
CatalogueAssumption ==
    /\ Variants \subseteq Nat /\ Overlaps \subseteq BOOLEAN
    /\ Skus \intersect {"none", "pending"} = {}
    /\ SapoOrder \in Seq(ToSet(SapoOrder)) /\ IsInjective(SapoOrder)
    /\ "none" \notin ToSet(SapoOrder)

VARIABLES
    variant,    \* product_variants, of "ours" or of "sapo"'s product
    named,      \* variants named by documents or by movements of stock
    counted,    \* variants named by stocktakes
    edit,       \* the staff's request
    sapoSku,    \* Sapo's catalogue
    listing,    \* the synchronisation: what it read, <<>>: nothing
    settled,    \* history: the last pass wrote no SKU, and nothing happened since
    overlap

vars == <<variant, named, counted, edit, sapoSku, listing, settled, overlap>>

SapoVariants == ToSet(SapoOrder)
None == "none"
Pending == "pending"    \* SKU-PENDING- and Sapo's id
NoVariant == [st |-> "none", of |-> None, key |-> None, sku |-> None, sapo |-> None]
NoEdit == [pc |-> "idle"]
NoListing == [pc |-> "idle"]

There(v) == variant[v].st = "there"
VariantsOf(p) == {v \in Variants : There(v) /\ variant[v].of = p}
HolderOf(table, sku) == {v \in Variants : table[v].st = "there" /\ table[v].sku = sku}

Init ==
    /\ variant = [v \in Variants |-> NoVariant]
    /\ named = {} /\ counted = {}
    /\ edit = NoEdit /\ listing = NoListing
    /\ sapoSku \in [SapoVariants -> Skus]
    /\ settled = FALSE
    /\ overlap \in Overlaps

-----------------------------------------------------------------------------
(* The staff.                                                              *)

\* variantIdsBlockedFromDelete, which does not look at stocktakes.
InUse(v) == v \in named

\* existingByKey: the variant of a combination, the last of them.
Match(p, k) ==
    {v \in VariantsOf(p) :
        variant[v].key = k /\ \A w \in VariantsOf(p) : variant[w].key = k => w <= v}

\* buildVariantRows: the SKU of each combination asked for; one that is not sent stays
\* as it is, "none" where there is none to stay.
Desired(p, sent) ==
    [k \in DOMAIN sent |->
        IF sent[k] # None \/ Match(p, k) = {} THEN sent[k]
        ELSE variant[CHOOSE v \in Match(p, k) : TRUE].sku]

\* validateSkus: those that are sent differ, and no other product has them.
SkusValid(p, sent) ==
    /\ \A k, l \in DOMAIN sent : k # l /\ sent[k] # None => sent[k] # sent[l]
    /\ \A k \in DOMAIN sent : HolderOf(variant, sent[k]) \subseteq VariantsOf(p)

\* validateInitialInventories: stock comes with the product, never with a change of it.
StockAllowed(p, ks) == IF VariantsOf(p) = {} THEN {{}, ks} ELSE {{}}

\* create, update and syncVariants: a combination's variant stays if it has the SKU
\* already.  Those that are to go must not be found in use.  `sent' gives combinations
\* their SKUs, `stock' is those that get opening stock.
BeginEdit(p, sent, stock) ==
    LET want == Desired(p, sent)
        keeps == {k \in DOMAIN want : \E v \in Match(p, k) : variant[v].sku = want[k]}
        gone == {v \in VariantsOf(p) : variant[v].key \notin DOMAIN want}
                    \union UNION {Match(p, k) : k \in DOMAIN want \ keeps}
    IN  /\ edit = NoEdit
        /\ VariantsOf(p) # {} \/ p = "ours"
        /\ SkusValid(p, sent)
        /\ \A k \in DOMAIN want : want[k] # None
        /\ \A v \in gone : ~InUse(v)
        /\ edit' = [pc |-> "check", of |-> p, want |-> want, gone |-> gone,
                    new |-> DOMAIN want \ keeps, stock |-> stock]
        /\ UNCHANGED <<variant, named, counted, sapoSku, listing, settled, overlap>>

Free(table) == {v \in Variants : table[v].st = "none"}

\* Ids are given in order, the lowest that are free, to the keys in some order.
Made(keys, table) ==
    {made \in Injection(keys, Free(table)) :
        \A k \in keys, v \in Free(table) : v < made[k] => \E l \in keys : made[l] = v}

\* The foreign keys on product_variants restrict: what names a variant keeps it.
DeleteAllowed(gone) == gone \intersect (named \union counted) = {}

\* The rows come one after the other: a SKU must have been given up by the variant of a
\* combination that came before.  What has no combination left goes last.
SkusFreeInTurn(e) ==
    \E turn \in [e.new -> 1..Cardinality(e.new)] :
        \A k \in e.new :
            /\ \A l \in e.new \ {k} : turn[l] # turn[k] /\ e.want[l] # e.want[k]
            /\ \A v \in HolderOf(variant, e.want[k]) :
                  v \in e.gone /\ \E l \in e.new : l = variant[v].key /\ turn[l] <= turn[k]

\* The transaction's end: rows go and others, with new ids and without Sapo's, are
\* made for the combinations that have none.  The movements of opening stock name them
\* (seedInventory).
EndEdit ==
    LET e == edit
        left == [v \in Variants |->
                    IF v \in e.gone THEN [NoVariant EXCEPT !.st = "gone"] ELSE variant[v]]
        made == CHOOSE m \in Made(e.new, left) : TRUE
    IN  /\ e.pc = "check"
        /\ \A v \in e.gone : There(v)
        /\ DeleteAllowed(e.gone)
        /\ SkusFreeInTurn(e)
        /\ Made(e.new, left) # {}
        /\ variant' = [v \in Variants |->
                IF v \notin Range(made) THEN left[v]
                ELSE LET k == CHOOSE k \in e.new : made[k] = v
                     IN  [st |-> "there", of |-> e.of, key |-> k, sku |-> e.want[k],
                          sapo |-> None]]
        /\ named' = named \union {made[k] : k \in e.new \intersect e.stock}
        /\ edit' = NoEdit /\ settled' = FALSE
        /\ UNCHANGED <<counted, sapoSku, listing, overlap>>

\* Refused by a constraint, or broken off: nothing of it remains.
FailEdit ==
    /\ edit # NoEdit
    /\ edit' = NoEdit
    /\ UNCHANGED <<variant, named, counted, sapoSku, listing, settled, overlap>>

\* Another service's document, or a stocktake, comes to name the variant; one of
\* either is enough.
Document(v) ==
    /\ There(v) /\ (edit # NoEdit => overlap) /\ v \notin named \union counted
    /\ \/ named' = named \union {v} /\ UNCHANGED counted
       \/ counted' = counted \union {v} /\ UNCHANGED named
    /\ UNCHANGED <<variant, edit, sapoSku, listing, settled, overlap>>

-----------------------------------------------------------------------------
(* SapoProductSyncService.                                                 *)

ChangeAtSapo(s, sku) ==
    /\ sku # sapoSku[s]
    /\ sapoSku' = [sapoSku EXCEPT ![s] = sku]
    /\ settled' = FALSE
    /\ UNCHANGED <<variant, named, counted, edit, listing, overlap>>

CopiesOf(table, s) == {v \in Variants : table[v].st = "there" /\ table[v].sapo = s}

\* syncBatch reads Sapo's page and its products here.
ReadBatch ==
    /\ listing = NoListing
    /\ LET local == [s \in SapoVariants |-> CopiesOf(variant, s)]
       IN  listing' = [pc |-> "read", sku |-> sapoSku, local |-> local,
                       seen |-> [v \in UNION {local[s] : s \in SapoVariants} |->
                                    variant[v].sku]]
    /\ UNCHANGED <<variant, named, counted, edit, sapoSku, settled, overlap>>

\* Mutant: nobody asks who holds the SKU.
SkuTaken(table, v, want) == want

\* updateVariant: the SKU stays when another row holds the one wanted.
SkuUpdated(table, v, want) ==
    IF HolderOf(table, want) \subseteq {v} THEN want ELSE table[v].sku

\* resolveSkuForCreate
SkuCreated(table, want) == IF HolderOf(table, want) = {} THEN want ELSE Pending

\* One of Sapo's variants, in the transaction of its product; a new row has its id.
Copied(table, s, made) ==
    LET want == listing.sku[s]
        local == listing.local[s]
    IN  IF local # {}
        THEN [v \in Variants |->
                IF v \in local
                THEN [table[v] EXCEPT !.sku =
                        IF want = listing.seen[v] THEN @ ELSE SkuUpdated(table, v, want)]
                ELSE table[v]]
        ELSE [table EXCEPT ![made[s]] = [st |-> "there", of |-> "sapo", key |-> s,
                                         sku |-> SkuCreated(table, want), sapo |-> s]]

\* All of them, in Sapo's order.
AllCopied(made) ==
    LET table[n \in 0..Len(SapoOrder)] ==
            IF n = 0 THEN variant ELSE Copied(table[n - 1], SapoOrder[n], made)
    IN  table[Len(SapoOrder)]

\* Mutant: a product whose texts are the same is not looked at further.
ChangedInText ==
    \E s \in SapoVariants : listing.local[s] = {}

\* productOrVariantChanged, by what was read.
ChangedAtAll ==
    \E s \in SapoVariants :
        \/ listing.local[s] = {}
        \/ \E v \in listing.local[s] : listing.seen[v] # listing.sku[s]

Missing == {s \in SapoVariants : listing.local[s] = {}}

\* updateExistingProduct fails on a row that has gone and on one that has been copied
\* meanwhile, whose id at Sapo is there already.
Undisturbed == \A s \in SapoVariants : listing.local[s] = CopiesOf(variant, s)

\* createNewProduct, updateExistingProduct: one transaction.
Copy ==
    /\ listing.pc = "read" /\ ChangedAtAll
    /\ Undisturbed
    /\ Made(Missing, variant) # {}
    /\ variant' = AllCopied(CHOOSE m \in Made(Missing, variant) : TRUE)
    /\ settled' = (variant' = variant /\ sapoSku = listing.sku)
    /\ listing' = NoListing
    /\ UNCHANGED <<named, counted, edit, sapoSku, overlap>>

\* Nothing to write.
Skip ==
    /\ listing.pc = "read" /\ ~ChangedAtAll
    /\ listing' = NoListing
    /\ settled' = /\ sapoSku = listing.sku /\ Undisturbed
                  /\ \A v \in DOMAIN listing.seen : variant[v].sku = listing.seen[v]
    /\ UNCHANGED <<variant, named, counted, edit, sapoSku, overlap>>

FailSync ==
    /\ listing # NoListing
    /\ listing' = NoListing
    /\ UNCHANGED <<variant, named, counted, edit, sapoSku, settled, overlap>>

Next ==
    \/ \E p \in {"ours", "sapo"}, K \in (SUBSET Combinations) \ {{}} :
          \E sent \in [K -> Skus \union {None}], stock \in StockAllowed(p, K) :
              BeginEdit(p, sent, stock)
    \/ EndEdit \/ FailEdit
    \/ \E v \in Variants : Document(v)
    \/ \E s \in SapoVariants, sku \in Skus : ChangeAtSapo(s, sku)
    \/ ReadBatch \/ Copy \/ Skip \/ FailSync

Spec == Init /\ [][Next]_vars

-----------------------------------------------------------------------------
\* The types of variants; a real SKU and a variant of Sapo's have one row.
TypeOK ==
    /\ \A v \in Variants : /\ variant[v].st \in {"none", "there", "gone"}
                           /\ variant[v].sku \in Skus \union {None, Pending}
    /\ \A k \in Skus : Cardinality(HolderOf(variant, k)) <= 1
    /\ \A s \in SapoVariants : Cardinality(CopiesOf(variant, s)) <= 1
    /\ settled \in BOOLEAN

\* What a document, a movement or a stocktake names is there, though edits remove
\* variants by a check that is over before they end.
NamedVariantsKept == \A v \in named \union counted : There(v)

\* A synchronisation that has nothing left to write has given every copy Sapo's SKU,
\* unless another row holds it.
SyncSettles ==
    settled => \A s \in SapoVariants : \A v \in CopiesOf(variant, s) :
        variant[v].sku = sapoSku[s] \/ HolderOf(variant, sapoSku[s]) \ {v} # {}
=============================================================================
