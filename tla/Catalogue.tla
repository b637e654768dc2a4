----------------------------- MODULE Catalogue -----------------------------
(***************************************************************************)
(* The filters of the product list (catalog/storefront.py): candidates are *)
(* chosen by the database on list prices, with one subquery per filter,    *)
(* and, when a filter or an ordering is about prices, matched again one    *)
(* variant at a time on the prices that are charged.  Filters look at one  *)
(* product at a time, so the shelf holds the variants of one.              *)
(***************************************************************************)
EXTENDS Integers

CONSTANTS
  ListPrices,   \* prices of variants
  Limits,       \* prices that are asked for
  Markdowns,  \* promotions of the product, zero for none
  Values,       \* values of a filterable attribute
  Unset         \* a parameter that is not in the query

ASSUME CatalogueAssumption ==
  /\ ListPrices \subseteq Nat /\ Limits \subseteq Nat
  /\ Markdowns \subseteq 0..100
  /\ Unset \notin Limits \cup Values

Variant == [active : BOOLEAN, price : ListPrices, percentage : Markdowns,
            stocked : BOOLEAN, value : Values]

(* Bound: at most two variants, enough for two filters to be met apart.    *)
Shelves == {{}} \cup {{v, w} : v, w \in Variant}

Query == [minimum : Limits \cup {Unset}, maximum : Limits \cup {Unset},
          offer : {TRUE, Unset}, availability : {"in_stock", "out_of_stock", Unset},
          attribute : Values \cup {Unset}, byPrice : BOOLEAN]

VARIABLES
  shelf,   \* variants of the product
  query,   \* what is asked
  answer   \* "none", or whether the product was in the answer

shopVars == <<shelf, query, answer>>

AnyQuery == [minimum |-> Unset, maximum |-> Unset, offer |-> Unset, availability |-> Unset,
             attribute |-> Unset, byPrice |-> FALSE]

ShopInit ==
  /\ shelf \in Shelves
  /\ query = AnyQuery
  /\ answer = "none"

-----------------------------------------------------------------------------
OnShelf == {v \in shelf : v.active}
Effective(v) == v.price - (v.price * v.percentage) \div 100
OnOffer(v) == Effective(v) < v.price

(* catalog_candidate_queryset: a product has some variant for each filter. *)
(* The price filter is a first sieve on list prices; the other form sieves *)
(* the upper limit too.                                                    *)
SieveByBothLimits(q) ==
  /\ q.minimum # Unset => \E v \in OnShelf : v.price >= q.minimum
  /\ q.maximum # Unset => \E v \in OnShelf : v.price <= q.maximum
SieveByPrice(q) == q.minimum # Unset => \E v \in OnShelf : v.price >= q.minimum

Stocked(q) ==
  CASE q.availability = "in_stock" -> \E v \in OnShelf : v.stocked
    [] q.availability = "out_of_stock" -> \A v \in OnShelf : ~v.stocked
    [] OTHER -> TRUE

Candidate(q) ==
  /\ OnShelf # {}
  /\ Stocked(q)
  /\ q.attribute # Unset => \E v \in OnShelf : v.value = q.attribute
  /\ SieveByPrice(q)

(* _variant_matches                                                        *)
Matches(v, q) ==
  /\ q.availability = "in_stock" => v.stocked
  /\ q.availability = "out_of_stock" => ~v.stocked
  /\ q.offer # Unset => OnOffer(v) = q.offer
  /\ q.minimum # Unset => Effective(v) >= q.minimum
  /\ q.maximum # Unset => Effective(v) <= q.maximum
  /\ q.attribute # Unset => v.value = q.attribute

(* _commercial_filter_required                                             *)
IsCommercial(q) ==
  q.minimum # Unset \/ q.maximum # Unset \/ q.offer # Unset \/ q.byPrice

(* query_catalog                                                           *)
QueryCatalog(q) ==
  Candidate(q) /\ (IsCommercial(q) => \E v \in OnShelf : Matches(v, q))

Ask(q) ==
  /\ answer = "none"
  /\ query' = q
  /\ answer' = IF QueryCatalog(q) THEN "listed" ELSE "left out"
  /\ UNCHANGED shelf

ShopNext == \E q \in Query : Ask(q)

ShopSpec == ShopInit /\ [][ShopNext]_shopVars

-----------------------------------------------------------------------------
ShopTypeOK == shelf \subseteq Variant /\ query \in Query /\ answer \in {"none", "listed", "left out"}

(* A query about prices lists the product exactly when one of its active   *)
(* variants meets every filter at the price that is charged (and, when     *)
(* products out of stock are asked for, none is in stock): the first sieve *)
(* loses nothing (storefront.py:149-262, 303-318).                         *)
FilterIsExact ==
  answer # "none" /\ IsCommercial(query) =>
    ((answer = "listed") <=> (Stocked(query) /\ \E v \in OnShelf : Matches(v, query)))
=============================================================================
