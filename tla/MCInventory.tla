---------------------------- MODULE MCInventory ----------------------------
(* One variant and the reservations that contend for it, for TLC.          *)
EXTENDS Inventory

CONSTANTS v1, r1, r2, r3

MCVariantOf == [r \in Reservations |-> v1]
MCMaxPurchase == [v \in Variants |-> 2]
MCOpeningStock == [v \in Variants |-> 3]
=============================================================================
