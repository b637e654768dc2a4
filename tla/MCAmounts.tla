----------------------------- MODULE MCAmounts -----------------------------
(***************************************************************************)
(* What a cart amounts to, for TLC: its prices, its parcels, and the       *)
(* coupon that its order contends for.  They share no state: each          *)
(* behaviour takes the steps of one, and the others stay as they begin.    *)
(***************************************************************************)
EXTENDS Coupons, Pricing, Packing, TLC

CONSTANTS o1, o2, o3

VARIABLE part

Interchangeable == Permutations(Orders)

SmallBoxes == <<[sides |-> <<1, 2, 2>>, tare |-> 1, max |-> 4],
                [sides |-> <<3, 2, 2>>, tare |-> 1, max |-> 6]>>

AmountsInit ==
  /\ part \in {"coupons", "pricing", "packing"}
  /\ Init /\ (part = "coupons" \/ limit = 1)
  /\ IF part = "pricing" THEN PriceInit ELSE basket = <<>> /\ priced = <<>>
  /\ IF part = "packing" THEN PackInit ELSE job = <<>> /\ packed = Unpacked

AtRest ==
  /\ UNCHANGED part
  /\ part # "coupons" => UNCHANGED vars
  /\ part # "pricing" => UNCHANGED priceVars
  /\ part # "packing" => UNCHANGED packVars

AmountsNext ==
  \/ part = "coupons" /\ Next /\ AtRest
  \/ part = "pricing" /\ PriceNext /\ AtRest
  \/ part = "packing" /\ PackNext /\ AtRest

AmountsSpec == AmountsInit /\ [][AmountsNext]_<<part, vars, priceVars, packVars>>
=============================================================================
