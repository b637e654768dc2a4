------------------------------- MODULE Pricing -------------------------------
(***************************************************************************)
(* What a cart costs (commerce/services.py): every line takes its best     *)
(* automatic promotion, the coupon is added to them or replaces them, and  *)
(* its amount is spread over the lines to the cent.                        *)
(*                                                                         *)
(* Amounts are whole cents.  A basket is one input of price_cart_lines; a  *)
(* behaviour prices it once.                                               *)
(***************************************************************************)
EXTENDS Integers, Sequences, FiniteSetsExt, SequencesExt

CONSTANTS
  Amounts,      \* bound: what a line may cost before discounts
  MaxLines,     \* bound: lines of a cart
  Percentages,  \* discounts in force, in per cent
  Fixed         \* discounts in force, as an amount

ASSUME PricingAssumption ==
  /\ Amounts \subseteq Nat \ {0} /\ MaxLines \in Nat \ {0}
  /\ Percentages \subseteq 1..100 /\ Fixed \subseteq Nat \ {0} /\ IsFiniteSet(Fixed)

VARIABLES
  basket,   \* the lines, the rules that apply to each, and the coupon
  priced    \* the discounts of the lines, empty before they are priced

priceVars == <<basket, priced>>

Percentage(n) == [kind |-> "percentage", value |-> n, combinable |-> FALSE]
FixedOff(n) == [kind |-> "fixed", value |-> n, combinable |-> FALSE]
Rules == {Percentage(n) : n \in Percentages} \cup {FixedOff(n) : n \in Fixed}
CouponTerms == Rules \cup {[r EXCEPT !.combinable = TRUE] : r \in Rules}
Line == [amount : Amounts, rules : {R \in SUBSET Rules : Cardinality(R) <= 1}]
NoCoupon == [kind |-> "none", value |-> 0, combinable |-> FALSE]

Total(amounts) == SumFunction(amounts)
Least(a, b) == IF a < b THEN a ELSE b

(* discount_amount: a percentage is rounded half up.                       *)
Discount(rule, amount) ==
  IF rule.kind = "percentage"
    THEN ((2 * amount * rule.value) + 100) \div 200
    ELSE Least(rule.value, amount)

(* best_automatic_discount                                                 *)
BestAutomatic(line) == Max({Discount(r, line.amount) : r \in line.rules} \cup {0})

(* _allocate_discount: shares rounded down, and the cents that remain go   *)
(* round the lines that have room.  The other form rounds the shares to    *)
(* the nearest cent.                                                       *)
SharesToNearest(total, room) ==
  LET all == Total(room) IN
  [i \in DOMAIN room |-> Least(room[i], (2 * total * room[i] + all) \div (2 * all))]
Shares(total, room) ==
  [i \in DOMAIN room |-> Least(room[i], (total * room[i]) \div Total(room))]

GiveCent(room, s, i) ==
  IF s.rest > 0 /\ s.alloc[i] < room[i]
    THEN [alloc |-> [s.alloc EXCEPT ![i] = @ + 1], rest |-> s.rest - 1]
    ELSE s
RoundOfCents(room, s) ==
  FoldLeft(LAMBDA t, i : GiveCent(room, t, i), s, [i \in DOMAIN room |-> i])
SpreadRest(room, start) ==
  LET spread[s \in [alloc : Seq(Nat), rest : Int]] ==
        LET t == RoundOfCents(room, s) IN IF t = s THEN s ELSE spread[t]
  IN spread[start].alloc

Allocate(total, room) ==
  IF total <= 0 \/ Total(room) <= 0
    THEN [i \in DOMAIN room |-> 0]
    ELSE LET shares == Shares(total, room)
         IN SpreadRest(room, [alloc |-> shares, rest |-> total - Total(shares)])

(* price_cart_lines: a coupon that combines takes what the promotions      *)
(* leave, one that does not replaces them if it is larger.                 *)
Replaces(coupon, off, automatic) == ~coupon.combinable /\ off > Total(automatic)

PriceLines(b) ==
  LET amounts   == [i \in DOMAIN b.lines |-> b.lines[i].amount]
      automatic == [i \in DOMAIN b.lines |-> BestAutomatic(b.lines[i])]
      off       == IF b.coupon = NoCoupon THEN 0 ELSE Discount(b.coupon, Total(amounts))
      replaced  == Replaces(b.coupon, off, automatic)
      base      == [i \in DOMAIN b.lines |-> IF replaced THEN 0 ELSE automatic[i]]
      spread    == IF b.coupon.combinable THEN Least(off, Total(amounts) - Total(automatic))
                   ELSE IF replaced THEN off ELSE 0
      room      == [i \in DOMAIN b.lines |-> amounts[i] - base[i]]
      coupon    == Allocate(spread, room)
  IN [i \in DOMAIN b.lines |->
        [discount |-> Least(amounts[i], base[i] + coupon[i]),
         coupon |-> coupon[i], room |-> room[i]]]

-----------------------------------------------------------------------------
PriceInit ==
  /\ basket \in [lines : SeqOf(Line, MaxLines) \ {<<>>}, coupon : CouponTerms \cup {NoCoupon}]
  /\ priced = <<>>

PriceNext ==
  /\ priced = <<>>
  /\ priced' = PriceLines(basket)
  /\ UNCHANGED basket

PriceSpec == PriceInit /\ [][PriceNext]_priceVars

-----------------------------------------------------------------------------
(* What the terms promise: all promotions and a coupon that combines up to *)
(* the subtotal, or the better of the two.                                 *)
Promised(b) ==
  LET subtotal  == Total([i \in DOMAIN b.lines |-> b.lines[i].amount])
      automatic == Total([i \in DOMAIN b.lines |-> BestAutomatic(b.lines[i])])
      off       == IF b.coupon = NoCoupon THEN 0 ELSE Discount(b.coupon, subtotal)
  IN IF b.coupon.combinable THEN Least(subtotal, automatic + off) ELSE Max({automatic, off})

(* The lines' discounts add up to the promised one, to the cent.           *)
DiscountsAddUp == Total([i \in DOMAIN priced |-> priced[i].discount]) = Promised(basket)

(* A coupon is spread in proportion: no line is more than a cent away from *)
(* its share, and none is discounted below zero.                           *)
SharesAreEven ==
  LET room == Total([i \in DOMAIN priced |-> priced[i].room])
      all  == Total([i \in DOMAIN priced |-> priced[i].coupon])
  IN \A i \in DOMAIN priced :
       /\ priced[i].discount \in 0..basket.lines[i].amount
       /\ room > 0 => LET gap == priced[i].coupon * room - all * priced[i].room
                      IN gap <= room /\ -gap <= room

(* Order items and order total agree to the cent, and every line bears its *)
(* share of the coupon (services.py:85-101, 662).                          *)
PricingIsSound == priced # <<>> => DiscountsAddUp /\ SharesAreEven
=============================================================================
