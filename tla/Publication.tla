---------------------------- MODULE Publication ----------------------------
(***************************************************************************)
(* The publication of a product, the state of its variants and the numbers *)
(* of their SKUs (catalog/models.py, services.py, sku.py and the product   *)
(* editor of backoffice/catalog_serializers.py).                           *)
(*                                                                         *)
(* The editor loads a product without a lock and saves its whole row       *)
(* later, the SKU counter with it; the services lock the product.          *)
(***************************************************************************)
EXTENDS Integers

CONSTANTS
  Writers,      \* requests of the product editor
  LastNumber    \* VARIANT_SEQUENCE_END

ASSUME PublicationAssumption == LastNumber \in Nat \ {0}

Numbers == 1..LastNumber
States == {"none", "active", "inactive"}
Product == [sellable : BOOLEAN, next : 1..(LastNumber + 1)]

VARIABLES
  product,  \* its row: is_sellable and next_variant_sequence
  variant,  \* state of the variant with each number
  given,    \* numbers that have been given to variants
  draft,    \* what each editor loaded and how far it is
  raced     \* a write has relied on a check that had become false

pubVars == <<product, variant, given, draft, raced>>

NoDraft == [at |-> "idle", copy |-> [sellable |-> FALSE, next |-> 1]]

PubInit ==
  /\ product = [sellable |-> FALSE, next |-> 1]
  /\ variant = [n \in Numbers |-> "none"]
  /\ given = {}
  /\ draft = [e \in Writers |-> NoDraft]
  /\ raced = FALSE

-----------------------------------------------------------------------------
Active(vs) == {n \in Numbers : vs[n] = "active"}

(* "Cannot deactivate the last active variant".                            *)
LastActive(vs, n) == Active(vs) = {n}
MayLeave(sellable, vs, n) == ~(sellable /\ LastActive(vs, n))

(* reserve_variant_sku: the counter is read and moved under the lock of    *)
(* the product; a number that a variant has is refused by the database.    *)
HasNumber(row, vs) == row.next <= LastNumber /\ vs[row.next] = "none"

-----------------------------------------------------------------------------
LoadProduct(e) ==
  /\ draft[e].at = "idle"
  /\ draft' = [draft EXCEPT ![e] = [at |-> "loaded", copy |-> product]]
  /\ UNCHANGED <<product, variant, given, raced>>

(* Product.save: clean, and no activation over what the row says now.      *)
SaveMayGo(copy) == copy.sellable => Active(variant) # {} /\ product.sellable

CheckProduct(e) ==
  /\ draft[e].at = "loaded" /\ SaveMayGo(draft[e].copy)
  /\ draft' = [draft EXCEPT ![e].at = "checked"]
  /\ UNCHANGED <<product, variant, given, raced>>

(* The form may bring a new variant, active or not, ...                    *)
WithNew(row, vs) ==
  {<<row, vs, {}>>} \cup
  {<<[row EXCEPT !.next = @ + 1], [vs EXCEPT ![row.next] = s], {row.next}>> :
      s \in IF HasNumber(row, vs) THEN {"active", "inactive"} ELSE {}}

(* ... change the state of one (set_variant_active), ...                   *)
WithState(row, vs) ==
  {vs} \cup
  {[vs EXCEPT ![n] = "active"] : n \in {m \in Numbers : vs[m] = "inactive"}} \cup
  {[vs EXCEPT ![n] = "inactive"] : n \in {m \in Active(vs) : MayLeave(row.sellable, vs, m)}}

(* ... and publish the product (activate_product) or withdraw it.          *)
WithPublication(row, vs) ==
  {row, [row EXCEPT !.sellable = FALSE]} \cup
  (IF Active(vs) # {} THEN {[row EXCEPT !.sellable = TRUE]} ELSE {})

(* update: one transaction, which holds the product from its first write,  *)
(* the one of the whole row as it was loaded.                              *)
SaveProduct(e) ==
  LET copy == draft[e].copy IN
  /\ draft[e].at = "checked"
  /\ \E new \in WithNew(copy, variant) :
       /\ given' = given \cup new[3]
       /\ \E vs \in WithState(new[1], new[2]) :
            /\ variant' = vs
            /\ product' \in WithPublication(new[1], vs)
  /\ raced' = (raced \/ ~SaveMayGo(copy))
  /\ draft' = [draft EXCEPT ![e] = NoDraft]

DropDraft(e) ==
  /\ draft[e].at # "idle"
  /\ draft' = [draft EXCEPT ![e] = NoDraft]
  /\ UNCHANGED <<product, variant, given, raced>>

-----------------------------------------------------------------------------
(* delete_variant, which locks the variant and then its product.           *)
DeleteVariant(n) ==
  /\ variant[n] # "none" /\ MayLeave(product.sellable, variant, n)
  /\ variant' = [variant EXCEPT ![n] = "none"]
  /\ UNCHANGED <<product, given, draft, raced>>

PubNext ==
  \/ \E e \in Writers : LoadProduct(e) \/ CheckProduct(e) \/ SaveProduct(e) \/ DropDraft(e)
  \/ \E n \in Numbers : DeleteVariant(n)

PubSpec == PubInit /\ [][PubNext]_pubVars

-----------------------------------------------------------------------------
PubTypeOK ==
  /\ product \in Product /\ variant \in [Numbers -> States] /\ given \subseteq Numbers
  /\ draft \in [Writers -> [at : {"idle", "loaded", "checked"}, copy : Product]]
  /\ raced \in BOOLEAN

(* A product that is on sale has an active variant, whatever editors do at *)
(* once, as long as no write has relied on an unlocked check that had      *)
(* become false (models.py:170, services.py:66, 82).                       *)
SellableHasVariant == product.sellable /\ ~raced => Active(variant) # {}

(* "Un numero asignado no se reutiliza si se elimina un producto o una     *)
(* variante ... El contador no retrocede" (automatic-catalog-sku-design):  *)
(* the next number has not been given.                                     *)
NumbersAreNotReused == \A n \in given : n < product.next
=============================================================================
