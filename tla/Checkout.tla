------------------------------ MODULE Checkout ------------------------------
(***************************************************************************)
(* One order from checkout to refund: commerce/checkout.py opens payment   *)
(* attempts, commerce/payments.py applies what the payment provider says   *)
(* about them and refunds, commerce/cancellation.py and admin_services.py  *)
(* cancel.  Stock and coupon are what the order makes of them; Inventory   *)
(* and Coupons have the contention for both.                               *)
(*                                                                         *)
(* Every operation locks the order's row and is one transaction.  What the *)
(* provider said is fetched before that transaction, so it is old by the   *)
(* time it is applied, it may be applied again, and the results of several *)
(* payments are applied in any order.                                      *)
(***************************************************************************)
EXTENDS Integers, FiniteSets

CONSTANTS
  MaxAttempts,   \* bound: payment attempts of the order
  Payments,      \* payments the provider may create
  Keys,          \* idempotency keys of refunds
  Workers,       \* bound: fetched results not applied yet
  OpeningStock,  \* most units the order finds on hand; it is for one unit
  None           \* no payment, no key

Attempts == 1..MaxAttempts

ASSUME CheckoutAssumption ==
  /\ MaxAttempts \in Nat \ {0}
  /\ OpeningStock \in Nat \ {0}
  /\ Workers \in Nat
  /\ None \notin Payments /\ None \notin Keys

VARIABLES
  payment,      \* Order.payment_status; "absent" until there is an order
  fulfillment,  \* Order.fulfillment_status; "open" is not delivered yet
  waits,        \* what must be settled before the first attempt
  opened,       \* number of PaymentTransaction rows, in order of creation
  tx,           \* PaymentTransaction.status
  payment_id,   \* PaymentTransaction.payment_id
  hold,         \* status of the StockReservation made with an attempt
  elapsed,      \* 20 minutes since: reservation and checkout link are over
  coupon,       \* status of the order's CouponRedemption
  on_hand,      \* ProductVariant.on_hand
  refund,       \* Refund.status by idempotency key
  refund_of,    \* Refund.transaction
  provider,     \* the provider's own view of its payments
  made_for,     \* the attempt whose external_reference a payment carries
  wrong,        \* payments of another amount, currency, collector or order
  claimed,      \* key of the refund the provider has accepted for a payment
  fetched       \* results fetched by workers and not yet applied

orderVars == <<payment, fulfillment, waits>>
attemptVars == <<opened, tx, payment_id>>
stockVars == <<hold, on_hand>>
refundVars == <<refund, refund_of>>
providerVars == <<provider, made_for, wrong, claimed>>
vars == <<orderVars, attemptVars, stockVars, elapsed, coupon, refundVars,
          providerVars, fetched>>

Opened == 1..opened
Live(a) == hold[a] = "active" /\ ~elapsed[a]
Free == on_hand - Cardinality({a \in Opened : Live(a)})

-----------------------------------------------------------------------------
Init ==
  /\ payment = "absent" /\ fulfillment = "open" /\ waits = {}
  /\ opened = 0
  /\ tx = [a \in Attempts |-> "none"]
  /\ payment_id = [a \in Attempts |-> None]
  /\ hold = [a \in Attempts |-> "none"]
  /\ elapsed = [a \in Attempts |-> FALSE]
  /\ coupon = "none"
  /\ on_hand \in 1..OpeningStock
  /\ refund = [k \in Keys |-> "none"]
  /\ refund_of = [k \in Keys |-> 0]
  /\ provider = [p \in Payments |-> "none"]
  /\ made_for = [p \in Payments |-> 0]
  /\ wrong = {}
  /\ claimed = [p \in Payments |-> None]
  /\ fetched = {}

(* A new attempt: a reservation (create_reservation first releases what    *)
(* has lapsed), a transaction and a preference at the provider; if any of  *)
(* them fails the database transaction leaves nothing.                     *)
OpenAttempt ==
  /\ opened < MaxAttempts
  /\ Free >= 1
  /\ opened' = opened + 1
  /\ tx' = [tx EXCEPT ![opened + 1] = "pending"]
  /\ hold' = [a \in Attempts |->
                IF a = opened + 1 THEN "active"
                ELSE IF hold[a] = "active" /\ elapsed[a] THEN "released" ELSE hold[a]]
  /\ payment' = "pending"
  /\ UNCHANGED <<payment_id, on_hand>>

(* confirm_checkout, with or without a coupon.  Identity review or an      *)
(* unknown shipping cost leave an order that waits, without an attempt.    *)
Confirm ==
  /\ payment = "absent"
  /\ coupon' \in {"none", "reserved"}
  /\ \/ /\ waits' \in (SUBSET {"identity", "shipping_cost"}) \ {{}}
        /\ payment' = "not_started"
        /\ UNCHANGED <<attemptVars, stockVars>>
     \/ OpenAttempt /\ UNCHANGED waits
  /\ UNCHANGED <<fulfillment, elapsed, refundVars, providerVars, fetched>>

(* approve_identity_manually; resolve_manual_shipping_cost.                *)
Settle(w) ==
  /\ w \in waits
  /\ waits' = waits \ {w}
  /\ UNCHANGED <<payment, fulfillment, attemptVars, stockVars, elapsed, coupon,
                 refundVars, providerVars, fetched>>

(* The link of the last attempt can still be paid; resume_checkout hands   *)
(* it out again instead of opening another.  The other form never does.    *)
LinkNeverReused(a) == FALSE
LinkActive(a) == a > 0 /\ tx[a] = "pending" /\ ~elapsed[a]

(* resume_checkout opens the next attempt.  The reservations of earlier    *)
(* attempts stay as they are and stay the order's.                         *)
Resume ==
  /\ payment # "absent"
  /\ waits = {}
  /\ ~LinkActive(opened)
  /\ coupon' = IF coupon = "released" THEN "reserved" ELSE coupon
  /\ OpenAttempt
  /\ UNCHANGED <<fulfillment, waits, elapsed, refundVars, providerVars, fetched>>

(* Time: attempts are over in the order they were opened.                  *)
Elapse(a) ==
  /\ a \in Opened
  /\ ~elapsed[a]
  /\ \A b \in 1..(a - 1) : elapsed[b]
  /\ elapsed' = [elapsed EXCEPT ![a] = TRUE]
  /\ UNCHANGED <<orderVars, attemptVars, stockVars, coupon, refundVars,
                 providerVars, fetched>>

(* release_expired_reservations reaches a reservation ...                  *)
ReleaseHold(a) ==
  /\ hold[a] = "active"
  /\ elapsed[a]
  /\ hold' = [hold EXCEPT ![a] = "released"]
  /\ UNCHANGED <<orderVars, attemptVars, on_hand, elapsed, coupon, refundVars,
                 providerVars, fetched>>

(* ... and the coupon's redemption (its clock is in Coupons).              *)
ReleaseCoupon ==
  /\ coupon = "reserved"
  /\ coupon' = "released"
  /\ UNCHANGED <<orderVars, attemptVars, stockVars, elapsed, refundVars,
                 providerVars, fetched>>

-----------------------------------------------------------------------------
(* The payment provider, as the adapter uses it: a link creates payments   *)
(* while it is valid, each is approved or rejected, also after the link is *)
(* over, and the money of an approved one may go back.                     *)
Turns(p, s) == provider' = [provider EXCEPT ![p] = s]

ProviderStep(p) ==
  /\ \/ /\ provider[p] = "none"
        /\ \E a \in Opened : ~elapsed[a] /\ made_for' = [made_for EXCEPT ![p] = a]
        /\ wrong' \in {wrong, wrong \cup {p}}
        /\ Turns(p, "pending")
     \/ /\ \/ provider[p] = "pending" /\ \E s \in {"approved", "rejected"} : Turns(p, s)
           \/ provider[p] \in {"approved", "refunding"} /\ Turns(p, "refunded")
        /\ UNCHANGED <<made_for, wrong>>
  /\ UNCHANGED <<orderVars, attemptVars, stockVars, elapsed, coupon, refundVars,
                 claimed, fetched>>

(* A worker (process_webhook_event or reconcile_pending_payments) asks the *)
(* provider.                                                               *)
Fetch(p) ==
  /\ provider[p] # "none"
  /\ Cardinality(fetched) < Workers
  /\ fetched' = fetched \cup
       {[payment |-> p,
         status |-> IF provider[p] = "refunding" THEN "approved" ELSE provider[p]]}
  /\ UNCHANGED <<orderVars, attemptVars, stockVars, elapsed, coupon, refundVars,
                 providerVars>>

-----------------------------------------------------------------------------
(* What applying a result does to the order and to the attempt: their new  *)
(* statuses, and the payment that the attempt remembers.                   *)
Becomes(a, attempt_status, order_status) ==
  /\ tx' = [tx EXCEPT ![a] = attempt_status]
  /\ payment' = order_status
Remembers(a, p) == payment_id' = [payment_id EXCEPT ![a] = p]
CouponTaken == coupon' = IF coupon = "none" THEN coupon ELSE "consumed"
CouponReleased == coupon' = IF coupon = "none" THEN coupon ELSE "released"

(* consume_reservation on every reservation of the order, those of earlier *)
(* attempts included.  Live reservations are covered (see Inventory), so   *)
(* on_hand suffices.                                                       *)
Consumable == {a \in Opened : Live(a)}
ConsumeAll ==
  /\ hold' = [a \in Attempts |->
                IF a \in Consumable THEN "consumed"
                ELSE IF hold[a] = "active" THEN "released" ELSE hold[a]]
  /\ on_hand' = on_hand - Cardinality(Consumable)

(* Every one of them is consumed after that; and the test that is content  *)
(* with one.                                                               *)
SomeConsumed == \E a \in Opened : Live(a) \/ hold[a] = "consumed"
AllConsumed == \A a \in Opened : Live(a) \/ hold[a] = "consumed"

(* The statuses that mean the money is in; and the same with one of the    *)
(* statuses of a payment that may still fail.                              *)
MoneyInIfAuthorized(s) == s \in {"approved", "pending"}
MoneyIn(s) == s = "approved"

(* _apply_payment_atomic, case by case: a payment that is not the one the  *)
(* attempt asked for,                                                      *)
ApplyMismatch(a) ==
  /\ Becomes(a, "needs_attention", "needs_attention")
  /\ UNCHANGED <<payment_id, stockVars, coupon>>

(* one without an answer yet, of which nothing is saved, not even its id,  *)
ApplyPending == UNCHANGED <<payment, tx, payment_id, stockVars, coupon>>

(* an approved one, for an order whose coupon others have used up in the   *)
(* meantime, ...                                                           *)
ApplyWithoutCoupon(a, p) ==
  /\ coupon \in {"reserved", "released"}
  /\ Becomes(a, "needs_attention", "needs_attention")
  /\ Remembers(a, p)
  /\ UNCHANGED <<stockVars, coupon>>

(* ... whose stock is all there, ...                                       *)
ApplyApproved(a, p) ==
  /\ AllConsumed
  /\ CouponTaken
  /\ ConsumeAll
  /\ Becomes(a, "approved", "paid")
  /\ Remembers(a, p)

(* ... or is not: the coupon, just consumed, is released again; what was   *)
(* consumed of the stock stays consumed.  The other form forgets the       *)
(* coupon.                                                                 *)
ApplyLateKeepingCoupon(a, p) ==
  /\ ~AllConsumed
  /\ CouponTaken
  /\ ConsumeAll
  /\ Becomes(a, "needs_attention", "needs_attention")
  /\ Remembers(a, p)
ApplyLate(a, p) ==
  /\ ~AllConsumed
  /\ CouponReleased
  /\ ConsumeAll
  /\ Becomes(a, "needs_attention", "needs_attention")
  /\ Remembers(a, p)

(* a rejected one, whatever the order has become since,                    *)
ApplyRejected(a, p) ==
  /\ CouponReleased
  /\ Becomes(a, "rejected", "failed")
  /\ Remembers(a, p)
  /\ UNCHANGED stockVars

(* and one whose money went back at the provider.                          *)
ApplyReturned(a, p) ==
  /\ Becomes(a, "needs_attention", "needs_attention")
  /\ Remembers(a, p)
  /\ UNCHANGED <<stockVars, coupon>>

Apply(m) ==
  LET p == m.payment
      a == made_for[p]
  IN
  /\ m \in fetched
  /\ fetched' = fetched \ {m}
  /\ \/ p \in wrong /\ ApplyMismatch(a)
     \/ /\ p \notin wrong
        /\ \/ /\ MoneyIn(m.status)
              /\ ApplyWithoutCoupon(a, p) \/ ApplyApproved(a, p) \/ ApplyLate(a, p)
           \/ /\ ~MoneyIn(m.status)
              /\ \/ m.status = "pending" /\ ApplyPending
                 \/ m.status = "rejected" /\ ApplyRejected(a, p)
                 \/ m.status = "refunded" /\ ApplyReturned(a, p)
  /\ UNCHANGED <<fulfillment, waits, opened, elapsed, refundVars, providerVars>>

-----------------------------------------------------------------------------
(* The attempt a refund with key k is about: the one it was begun for, or  *)
(* the last approved one.                                                  *)
Refundable == {a \in Opened : tx[a] = "approved"}
RefundTarget(k, a) ==
  IF refund[k] # "none" THEN a = refund_of[k]
  ELSE a \in Refundable /\ \A b \in Refundable : b <= a

(* The provider gives money back with key k, or has begun to.  A key it    *)
(* knows gets the same refund; another key on the same payment is an       *)
(* error, and so no step here.                                             *)
ProviderRefunds(p, k, s) ==
  /\ \/ provider[p] = "approved" /\ claimed[p] = None
     \/ provider[p] = "refunding" /\ claimed[p] = k
     \/ provider[p] = "refunded" /\ claimed[p] = k /\ s = "refunded"
  /\ Turns(p, s)
  /\ claimed' = [claimed EXCEPT ![p] = k]
  /\ UNCHANGED <<made_for, wrong>>

(* refund_order answered "pending": the Refund row waits for the next try. *)
RefundPending(k) ==
  \E a \in Opened :
    LET p == payment_id[a] IN
    /\ refund[k] # "approved"
    /\ RefundTarget(k, a)
    /\ p # None
    /\ ProviderRefunds(p, k, "refunding")
    /\ refund' = [refund EXCEPT ![k] = "pending"]
    /\ refund_of' = [refund_of EXCEPT ![k] = a]
    /\ UNCHANGED <<orderVars, attemptVars, stockVars, elapsed, coupon, fetched>>

(* The provider acts, and the database transaction that asked is lost.     *)
RefundLost(k) ==
  \E a \in Opened :
    LET p == payment_id[a] IN
    /\ refund[k] # "approved"
    /\ RefundTarget(k, a)
    /\ p # None
    /\ \E s \in {"refunding", "refunded"} : ProviderRefunds(p, k, s)
    /\ provider' # provider
    /\ UNCHANGED <<orderVars, attemptVars, stockVars, elapsed, coupon, refundVars, fetched>>

(* Stock comes back unless the goods are with the customer.                *)
ReleaseActive == hold' = [a \in Attempts |-> IF hold[a] = "active" THEN "released" ELSE hold[a]]
Restored ==
  IF fulfillment = "fulfilled" THEN UNCHANGED stockVars
  ELSE /\ ReleaseActive
       /\ on_hand' = on_hand + Cardinality({a \in Opened : hold[a] = "consumed"})

(* refund_order answered "approved"; with cancel, as the first half of     *)
(* cancelling a paid order (perform_order_admin_action).                   *)
AnswerUnread(p, k) == ProviderRefunds(p, k, "refunding") \/ ProviderRefunds(p, k, "refunded")
AnswerApproved(p, k) == ProviderRefunds(p, k, "refunded")
Refund(k, cancel) ==
  \E a \in Opened :
    LET p == payment_id[a] IN
    /\ cancel => payment = "paid" /\ fulfillment # "fulfilled"
    /\ refund[k] # "approved"
    /\ RefundTarget(k, a)
    /\ p # None
    /\ AnswerApproved(p, k)
    /\ refund' = [refund EXCEPT ![k] = "approved"]
    /\ refund_of' = [refund_of EXCEPT ![k] = a]
    /\ Restored
    /\ Becomes(a, "refunded", "refunded")
    /\ CouponReleased
    /\ fulfillment' = IF cancel THEN "cancelled" ELSE fulfillment
    /\ UNCHANGED <<waits, opened, payment_id, elapsed, fetched>>

(* cancel_order.                                                           *)
Cancel ==
  /\ payment \notin {"absent", "paid", "needs_attention"}
  /\ fulfillment = "open"
  /\ fulfillment' = "cancelled"
  /\ ReleaseActive
  /\ CouponReleased
  /\ UNCHANGED <<payment, waits, attemptVars, on_hand, elapsed, refundVars,
                 providerVars, fetched>>

(* mark_preparing, mark_ready_for_pickup and mark_fulfilled ask nothing    *)
(* about the order.                                                        *)
Mark(f) ==
  /\ payment # "absent"
  /\ fulfillment # f
  /\ fulfillment' = f
  /\ UNCHANGED <<payment, waits, attemptVars, stockVars, elapsed, coupon,
                 refundVars, providerVars, fetched>>

Next ==
  \/ Confirm \/ Resume \/ ReleaseCoupon \/ Cancel
  \/ \E w \in {"identity", "shipping_cost"} : Settle(w)
  \/ \E a \in Attempts : Elapse(a) \/ ReleaseHold(a)
  \/ \E p \in Payments : ProviderStep(p) \/ Fetch(p)
  \/ \E m \in fetched : Apply(m)
  \/ \E k \in Keys : RefundPending(k) \/ RefundLost(k)
  \/ \E k \in Keys, cancel \in BOOLEAN : Refund(k, cancel)
  \/ \E f \in {"open", "fulfilled"} : Mark(f)

Spec == Init /\ [][Next]_vars
-----------------------------------------------------------------------------
(* The fields hold what their columns can hold.                            *)
TypeOK ==
  /\ payment \in {"absent", "not_started", "pending", "paid", "failed",
                  "refunded", "needs_attention"}
  /\ fulfillment \in {"open", "fulfilled", "cancelled"}
  /\ waits \subseteq {"identity", "shipping_cost"}
  /\ opened \in 0..MaxAttempts
  /\ tx \in [Attempts -> {"none", "pending", "approved", "rejected",
                          "needs_attention", "refunded"}]
  /\ payment_id \in [Attempts -> Payments \cup {None}]
  /\ hold \in [Attempts -> {"none", "active", "consumed", "released"}]
  /\ elapsed \in [Attempts -> BOOLEAN]
  /\ coupon \in {"none", "reserved", "consumed", "released"}
  /\ on_hand \in Nat
  /\ refund \in [Keys -> {"none", "pending", "approved"}]
  /\ refund_of \in [Keys -> 0..MaxAttempts]
  /\ provider \in [Payments -> {"none", "pending", "approved", "rejected",
                                "refunding", "refunded"}]
  /\ made_for \in [Payments -> 0..MaxAttempts]
  /\ wrong \subseteq Payments
  /\ claimed \in [Payments -> Keys \cup {None}]
  /\ fetched \subseteq [payment : Payments,
                        status : {"pending", "approved", "rejected", "refunded"}]

(* A paid order has what it was paid for: an approved attempt, all its     *)
(* stock taken, and its coupon used; whatever arrived late, twice or out   *)
(* of order before, and with the clock and the release task running.       *)
PaidIsCovered ==
  payment = "paid" =>
    /\ \E a \in Opened : tx[a] = "approved"
    /\ \A a \in Opened : hold[a] = "consumed"
    /\ coupon \in {"none", "consumed"}

(* Stock leaves the shelf only for money: some payment of the order was    *)
(* approved (it may have gone back since).                                 *)
StockFollowsMoney ==
  (\E a \in Opened : hold[a] = "consumed") =>
    \E p \in Payments : provider[p] \in {"approved", "refunding", "refunded"}

(* A coupon is used up only by an order that took its stock: the payment   *)
(* that finds its reservation gone gives the coupon back with the order.   *)
CouponNeedsStock ==
  coupon = "consumed" => \E a \in Opened : hold[a] = "consumed"

(* An attempt marked refunded is one whose money went back: a refund the   *)
(* provider has not confirmed changes nothing, also when its first answer  *)
(* was lost or pending and another payment took the attempt over.          *)
RefundedMoneyIsBack ==
  \A a \in Opened :
    tx[a] = "refunded" =>
      \E p \in Payments : made_for[p] = a /\ provider[p] = "refunded"

(* A customer who clicks twice or comes back gets the link again: no two   *)
(* attempts of an order wait for their first payment in time.              *)
Awaited(a) == tx[a] = "pending" /\ hold[a] = "active" /\ ~elapsed[a]
OneAwaitedAttempt ==
  \A a, b \in Opened : Awaited(a) /\ Awaited(b) => a = b

-----------------------------------------------------------------------------
(* What the repository says of an order and the code does not keep.        *)

(* "Resume appears only for server-permitted payment states": an order     *)
(* that is paid is not charged again.  resume_checkout asks for the        *)
(* shipping cost and for the link, never for the state of the payment.     *)
PaidIsNotChargedAgain == [][payment = "paid" => opened' = opened]_vars

(* "El pedido pagado debe reembolsarse antes de cancelarlo": cancel_order  *)
(* does not touch an order that was never refunded, whose payment is at    *)
(* the provider and whose stock that payment took.  A rejection of an      *)
(* earlier try with the same link, applied late, makes the paid order      *)
(* "failed", which may be cancelled: the stock is gone and the money is    *)
(* kept.  (Of the last attempt only: opening another one makes a paid      *)
(* order "pending" too.)                                                   *)
PaidIsRefundedBeforeCancel ==
  [][Cancel => \A p \in Payments \ wrong :
       ~(/\ provider[p] = "approved"
         /\ made_for[p] = opened
         /\ \A k \in Keys : refund[k] = "none"
         /\ hold[opened] = "consumed")]_vars

(* "Idempotent total refunds, automatic pre-fulfillment stock              *)
(* restoration": refunds put back what the order took, once.  A second     *)
(* payment applied after the refund makes the order paid again and takes   *)
(* nothing, for its reservations are still "consumed"; refunding it        *)
(* restores them again.  So does the second refund of an order with two    *)
(* approved attempts.                                                      *)
RestoredOnce == on_hand <= OpeningStock
=============================================================================
