----------------------------- MODULE MCCheckout -----------------------------
(* One order, its attempts and the payments made for them, for TLC.        *)
EXTENDS Checkout, TLC

CONSTANTS p1, p2, k1, k2

Interchangeable == Permutations(Payments) \cup Permutations(Keys)
=============================================================================
