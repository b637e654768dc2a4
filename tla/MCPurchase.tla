----------------------------- MODULE MCPurchase -----------------------------
(***************************************************************************)
(* An order and the customer's cart afterwards, for TLC.                   *)
(***************************************************************************)
EXTENDS Purchase

CONSTANTS pa, pb, l1, q1, t1, o1
=============================================================================
