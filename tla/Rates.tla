------------------------------- MODULE Rates -------------------------------
(***************************************************************************)
(* What delivery costs (commerce/shipping.py 181-441 and 612-757,          *)
(* provider_config.py): every usable carrier is asked for its rate of the  *)
(* cart's parcels, its surcharge is added, an amount of merchandise makes  *)
(* it free, and a quote is offered again while it is in force.             *)
(*                                                                         *)
(* A request reads the carriers once and asks them one after the other; an *)
(* owner may change their configuration meanwhile.  Amounts are in cents.  *)
(***************************************************************************)
EXTENDS Integers, FiniteSetsExt, SequencesExt

CONSTANTS
  Goods,        \* what the cart's merchandise amounts to, after discounts
  Tariffs,      \* rates of a parcel
  MostParcels,  \* bound on the parcels of a cart
  Policies,     \* each a surcharge, a type with its value, and a threshold of free delivery
  NoThreshold

ASSUME RatesAssumption ==
  /\ Goods \subseteq Nat /\ Tariffs \subseteq Nat /\ MostParcels \in Nat \ {0}
  /\ \A p \in Policies : p.type \in {"exact", "percentage"} /\ p.value \in Nat
  /\ \A p \in Policies : p.free = NoThreshold \/ p.free \in Nat

VARIABLES
  setup,   \* what each carrier's row allows
  quoted,  \* quotes in force, with the parcels' rates and the policy they were made with
  offer    \* the request and its answer

rateVars == <<setup, quoted, offer>>

Carriers == {"correo_argentino", "andreani"}
NotUsable == [usable |-> FALSE]
Setups == {NotUsable} \cup [usable : {TRUE}, policy : Policies]

NoOffer == [at |-> "rest", goods |-> 0, bindings |-> <<>>, todo |-> {}, quotes |-> {},
            errors |-> {}, manual |-> FALSE]

RatesInit ==
  /\ setup \in [Carriers -> Setups]
  /\ quoted = {}
  /\ offer = NoOffer

(* _money(base * value / 100): half a cent goes up.                        *)
PercentOf(base, value) == (2 * base * value + 100) \div 200
Rounded(base, value) == PercentOf(base, value)

SurchargeOf(policy, base) ==
  IF policy.type = "percentage" THEN Rounded(base, policy.value) ELSE policy.value

(* The other form asks for more than the amount.                           *)
IsReached(goods, threshold) == threshold # NoThreshold /\ goods >= threshold
IsExceeded(goods, threshold) == threshold # NoThreshold /\ goods > threshold
IsFree(goods, threshold) == IsReached(goods, threshold)

(* MiCorreo prices each parcel, Andreani all of them.                      *)
Quote(c, goods, policy, rates) ==
  LET base == FoldFunction(+, 0, rates)
      surcharge == IF IsFree(goods, policy.free) THEN 0 ELSE SurchargeOf(policy, base) IN
  [carrier |-> c, goods |-> goods, rates |-> rates, policy |-> policy, surcharge |-> surcharge,
   total |-> IF IsFree(goods, policy.free) THEN 0 ELSE base + surcharge]

RatesOf(c) == UNION {[1..n -> Tariffs] : n \in 1..(IF c = "andreani" THEN 1 ELSE MostParcels)}

(* IntegrationDetailView.patch, for all that it may do to a carrier.       *)
Reconfigure ==
  /\ \E c \in Carriers, new \in Setups : new # setup[c] /\ setup' = [setup EXCEPT ![c] = new]
  /\ UNCHANGED <<quoted, offer>>

(* get_carrier_bindings; without any, the cost is left to be agreed.       *)
BeginOffer ==
  LET bound == {c \in Carriers : setup[c].usable} IN
  /\ offer.at = "rest"
  /\ \E goods \in Goods :
       offer' = [NoOffer EXCEPT !.at = IF bound = {} THEN "answered" ELSE "asking", !.goods = goods,
                   !.bindings = [c \in bound |-> setup[c].policy], !.todo = bound,
                   !.manual = (bound = {})]
  /\ UNCHANGED <<setup, quoted>>

Turn(c) ==
  /\ offer.at = "asking" /\ c \in offer.todo
  /\ c = "andreani" => "correo_argentino" \notin offer.todo

(* create_shipping_quote: one of the same cart that is in force, or a new  *)
(* one at the carrier's rates.                                             *)
Held(c) == {q \in quoted : q.carrier = c /\ q.goods = offer.goods}

TakeHeld(c) ==
  /\ Turn(c) /\ Held(c) # {}
  /\ \E q \in Held(c) : offer' = [offer EXCEPT !.todo = @ \ {c}, !.quotes = @ \cup {q}]
  /\ UNCHANGED <<setup, quoted>>

AskRate(c) ==
  /\ Turn(c) /\ Held(c) = {}
  /\ \E rates \in RatesOf(c) :
       LET q == Quote(c, offer.goods, offer.bindings[c], rates) IN
       /\ offer' = [offer EXCEPT !.todo = @ \ {c}, !.quotes = @ \cup {q}]
       /\ quoted' = quoted \cup {q}
  /\ UNCHANGED setup

(* A ProviderError of one carrier leaves the others.                       *)
CarrierFails(c) ==
  /\ Turn(c) /\ Held(c) = {}
  /\ offer' = [offer EXCEPT !.todo = @ \ {c}, !.errors = @ \cup {c}]
  /\ UNCHANGED <<setup, quoted>>

AnswerOffer ==
  /\ offer.at = "asking" /\ offer.todo = {}
  /\ offer' = [offer EXCEPT !.at = IF offer.quotes = {} THEN "failed" ELSE "answered"]
  /\ UNCHANGED <<setup, quoted>>

EndOffer ==
  /\ offer.at \in {"answered", "failed"}
  /\ offer' = NoOffer
  /\ UNCHANGED <<setup, quoted>>

(* A request compares their ends with the time it began.                   *)
QuoteEnds ==
  /\ offer.at = "rest"
  /\ \E q \in quoted : quoted' = quoted \ {q}
  /\ UNCHANGED <<setup, offer>>

RatesNext ==
  \/ Reconfigure \/ BeginOffer \/ AnswerOffer \/ EndOffer \/ QuoteEnds
  \/ \E c \in Carriers : TakeHeld(c) \/ AskRate(c) \/ CarrierFails(c)

RatesSpec == RatesInit /\ [][RatesNext]_rateVars

-----------------------------------------------------------------------------
RatesTypeOK ==
  /\ setup \in [Carriers -> Setups]
  /\ \A q \in quoted : q.carrier \in Carriers /\ q.goods \in Goods /\ q.total \in Nat
  /\ offer.at \in {"rest", "asking", "answered", "failed"}
  /\ offer.todo \cup offer.errors \subseteq Carriers /\ offer.quotes \subseteq quoted \cup offer.quotes

(* What a customer pays is the carrier's rate of every parcel, with the    *)
(* surcharge to the nearest cent, and nothing at all from the threshold on.*)
IsFair(q) ==
  LET base == FoldFunction(+, 0, q.rates)
      free == q.policy.free # NoThreshold /\ q.policy.free <= q.goods
      exact == q.policy.value * IF q.policy.type = "percentage" THEN base ELSE 100
      off == 100 * (q.total - base) - exact IN
  IF free THEN q.total = 0 /\ q.surcharge = 0
  ELSE q.total = base + q.surcharge /\ -50 < off /\ off <= 50

(* An answer has of every carrier that was usable a fair quote or an error,*)
(* and at least one quote; the cost is left to be agreed only when none    *)
(* was, and not when those there are do not answer.                        *)
OfferIsSound ==
  offer.at = "answered" =>
    IF offer.manual THEN offer.bindings = <<>>
    ELSE /\ {q.carrier : q \in offer.quotes} \cup offer.errors = DOMAIN offer.bindings
         /\ offer.quotes # {} /\ {q.carrier : q \in offer.quotes} \cap offer.errors = {}
         /\ \A q \in offer.quotes : IsFair(q) /\ q.goods = offer.goods
=============================================================================
