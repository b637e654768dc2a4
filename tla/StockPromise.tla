---------------------------- MODULE StockPromise ----------------------------
(***************************************************************************)
(* What reserving stock promises a buyer, whatever rows, clock and tasks   *)
(* implement it: the free stock of a variant pays for every claim made on  *)
(* it, a claim ends once, as a sale or dropped, and a dropped claim goes   *)
(* back to the free stock at once.                                         *)
(***************************************************************************)
EXTENDS Integers

CONSTANTS Variants, Claims, VariantOfClaim, MaxQuantity, Opening

VARIABLES
  free,     \* stock of a variant nobody has a claim on
  amount,   \* units a claim is for; 0 when the variant has no limited stock
  claim     \* "none", "held", "sold" or "dropped"

promiseVars == <<free, amount, claim>>

Init ==
  /\ free = Opening
  /\ amount = [c \in Claims |-> 0]
  /\ claim = [c \in Claims |-> "none"]

Becomes(c, from, to) == claim[c] = from /\ claim' = [claim EXCEPT ![c] = to]
Freed(c, n) == free' = [free EXCEPT ![VariantOfClaim[c]] = @ + n]

(* A claim is only made on stock that is free.                             *)
Take(c) ==
  \E n \in 0..MaxQuantity :
    /\ n > 0 => free[VariantOfClaim[c]] >= n
    /\ Becomes(c, "none", "held")
    /\ amount' = [amount EXCEPT ![c] = n]
    /\ Freed(c, -n)

Sell(c) == Becomes(c, "held", "sold") /\ UNCHANGED <<free, amount>>

Drop(c) == Becomes(c, "held", "dropped") /\ Freed(c, amount[c]) /\ UNCHANGED amount

Restock(c) == claim[c] = "sold" /\ Freed(c, amount[c]) /\ UNCHANGED <<claim, amount>>

(* The owner counts the shelf.                                             *)
Recount(v) ==
  /\ \A w \in Variants \ {v} : free'[w] = free[w]
  /\ free' \in [Variants -> Int]
  /\ UNCHANGED <<claim, amount>>

Next ==
  \/ \E c \in Claims : Take(c) \/ Sell(c) \/ Drop(c) \/ Restock(c)
  \/ \E v \in Variants : Recount(v)

Spec == Init /\ [][Next]_promiseVars
=============================================================================
