--------------------------- MODULE CheckoutProofs ---------------------------
(***************************************************************************)
(* What holds of an order for any number of attempts, payments, refunds    *)
(* and workers, whatever arrives late, twice or out of order.              *)
(***************************************************************************)
EXTENDS Checkout, FiniteSetTheorems, TLAPS

PaymentStatus == {"absent", "not_started", "pending", "paid", "failed",
                  "refunded", "needs_attention"}
TxStatus == {"none", "pending", "approved", "rejected", "needs_attention", "refunded"}
HoldStatus == {"none", "active", "consumed", "released"}
CouponStatus == {"none", "reserved", "consumed", "released"}
ProviderStatus == {"none", "pending", "approved", "rejected", "refunding", "refunded"}
Results == [payment : Payments, status : {"pending", "approved", "rejected", "refunded"}]

(* The type invariant in the parts that steps change together.             *)
OrderType ==
  /\ payment \in PaymentStatus
  /\ fulfillment \in {"open", "fulfilled", "cancelled"}
  /\ waits \subseteq {"identity", "shipping_cost"}
  /\ coupon \in CouponStatus
AttemptType ==
  /\ opened \in 0..MaxAttempts
  /\ tx \in [Attempts -> TxStatus]
  /\ payment_id \in [Attempts -> Payments \cup {None}]
  /\ hold \in [Attempts -> HoldStatus]
  /\ elapsed \in [Attempts -> BOOLEAN]
RefundType ==
  /\ refund \in [Keys -> {"none", "pending", "approved"}]
  /\ refund_of \in [Keys -> 0..MaxAttempts]
ProviderType ==
  /\ provider \in [Payments -> ProviderStatus]
  /\ made_for \in [Payments -> 0..MaxAttempts]
  /\ wrong \subseteq Payments
  /\ claimed \in [Payments -> Keys \cup {None}]
  /\ fetched \subseteq Results
Types == OrderType /\ AttemptType /\ RefundType /\ ProviderType

(* The live reservations of the order never exceed the stock there is.     *)
LiveHolds == {a \in Opened : Live(a)}
HoldsCovered == on_hand \in Nat /\ Cardinality(LiveHolds) <= on_hand

(* A new attempt fills the next row.                                       *)
LEMMA OpenAttemptType ==
  ASSUME AttemptType, OpenAttempt, UNCHANGED elapsed PROVE AttemptType'
BY CheckoutAssumption DEF AttemptType, OpenAttempt, Attempts, TxStatus, HoldStatus

(* No step takes a column out of its type.                                 *)
LEMMA TypesStay == Types /\ [Next]_vars => Types'
<1> SUFFICES ASSUME Types, [Next]_vars PROVE Types'
  OBVIOUS
<1> USE CheckoutAssumption
     DEF Types, orderVars, attemptVars, stockVars, refundVars, providerVars
<1>1. CASE Confirm
  <2>1. OrderType'
    BY <1>1 DEF Confirm, OpenAttempt, OrderType, PaymentStatus, CouponStatus
  <2>2. AttemptType'
    BY <1>1, OpenAttemptType DEF Confirm, AttemptType
  <2> QED BY <1>1, <2>1, <2>2 DEF Confirm, RefundType, ProviderType
<1>2. CASE Resume
  <2>1. OrderType'
    BY <1>2 DEF Resume, OpenAttempt, OrderType, PaymentStatus, CouponStatus
  <2>2. AttemptType'
    BY <1>2, OpenAttemptType DEF Resume
  <2> QED BY <1>2, <2>1, <2>2 DEF Resume, RefundType, ProviderType
<1>3. CASE ReleaseCoupon
  BY <1>3 DEF ReleaseCoupon, OrderType, CouponStatus, AttemptType, RefundType, ProviderType
<1>4. CASE Cancel
  BY <1>4 DEF Cancel, CouponReleased, ReleaseActive, OrderType, CouponStatus, AttemptType,
              HoldStatus, RefundType, ProviderType
<1>5. ASSUME NEW w \in {"identity", "shipping_cost"}, Settle(w) PROVE Types'
  BY <1>5 DEF Settle, OrderType, AttemptType, RefundType, ProviderType
<1>6. ASSUME NEW a \in Attempts, Elapse(a) PROVE Types'
  BY <1>6 DEF Elapse, OrderType, AttemptType, RefundType, ProviderType
<1>7. ASSUME NEW a \in Attempts, ReleaseHold(a) PROVE Types'
  BY <1>7 DEF ReleaseHold, OrderType, AttemptType, HoldStatus, RefundType, ProviderType
<1>8. ASSUME NEW p \in Payments, ProviderStep(p) PROVE Types'
  <2>1. ProviderType'
    BY <1>8 DEF ProviderStep, Turns, Opened, ProviderType, ProviderStatus, AttemptType
  <2> QED BY <1>8, <2>1 DEF ProviderStep, OrderType, AttemptType, RefundType
<1>9. ASSUME NEW p \in Payments, Fetch(p) PROVE Types'
  <2>1. fetched' \subseteq Results
    BY <1>9 DEF Fetch, ProviderType, ProviderStatus, Results
  <2> QED BY <1>9, <2>1 DEF Fetch, OrderType, AttemptType, RefundType, ProviderType
<1>10. ASSUME NEW m \in fetched, Apply(m) PROVE Types'
  <2> DEFINE p == m.payment
             a == made_for[p]
  <2>1. p \in Payments
    BY DEF ProviderType, Results
  <2>2. /\ fetched' = fetched \ {m}
        /\ UNCHANGED <<fulfillment, waits, opened, elapsed, refundVars, providerVars>>
        /\ \/ ApplyMismatch(a) \/ ApplyPending \/ ApplyWithoutCoupon(a, p)
           \/ ApplyApproved(a, p) \/ ApplyLate(a, p) \/ ApplyRejected(a, p)
           \/ ApplyReturned(a, p)
    BY <1>10 DEF Apply
  <2>3. payment' \in PaymentStatus /\ coupon' \in CouponStatus
    BY <2>2 DEF ApplyMismatch, ApplyPending, ApplyWithoutCoupon, ApplyApproved, ApplyLate,
                ApplyRejected, ApplyReturned, Becomes, CouponTaken, CouponReleased,
                OrderType, PaymentStatus, CouponStatus
  <2>4. tx' \in [Attempts -> TxStatus]
    BY <2>2 DEF ApplyMismatch, ApplyPending, ApplyWithoutCoupon, ApplyApproved, ApplyLate,
                ApplyRejected, ApplyReturned, Becomes, AttemptType, TxStatus
  <2>5. payment_id' \in [Attempts -> Payments \cup {None}]
    BY <2>1, <2>2 DEF ApplyMismatch, ApplyPending, ApplyWithoutCoupon, ApplyApproved,
                      ApplyLate, ApplyRejected, ApplyReturned, Remembers, AttemptType
  <2>6. hold' \in [Attempts -> HoldStatus]
    BY <2>2 DEF ApplyMismatch, ApplyPending, ApplyWithoutCoupon, ApplyApproved, ApplyLate,
                ApplyRejected, ApplyReturned, ConsumeAll, AttemptType, HoldStatus
  <2> QED BY <2>2, <2>3, <2>4, <2>5, <2>6
          DEF OrderType, AttemptType, RefundType, ProviderType
<1>11. ASSUME NEW k \in Keys, RefundPending(k) PROVE Types'
  <2> PICK a \in Opened :
        /\ ProviderRefunds(payment_id[a], k, "refunding")
        /\ refund' = [refund EXCEPT ![k] = "pending"]
        /\ refund_of' = [refund_of EXCEPT ![k] = a]
        /\ UNCHANGED <<orderVars, attemptVars, stockVars, elapsed, coupon, fetched>>
    BY <1>11 DEF RefundPending
  <2>1. ProviderType'
    BY DEF ProviderRefunds, Turns, ProviderType, ProviderStatus
  <2>2. RefundType'
    BY DEF RefundType, Opened, AttemptType
  <2> QED BY <2>1, <2>2 DEF OrderType, AttemptType
<1>12. ASSUME NEW k \in Keys, RefundLost(k) PROVE Types'
  <2> PICK a \in Opened, s \in {"refunding", "refunded"} :
        /\ ProviderRefunds(payment_id[a], k, s)
        /\ UNCHANGED <<orderVars, attemptVars, stockVars, elapsed, coupon, refundVars, fetched>>
    BY <1>12 DEF RefundLost
  <2>1. ProviderType'
    BY DEF ProviderRefunds, Turns, ProviderType, ProviderStatus
  <2> QED BY <2>1 DEF OrderType, AttemptType, RefundType
<1>13. ASSUME NEW k \in Keys, NEW cancel \in BOOLEAN, Refund(k, cancel) PROVE Types'
  <2> PICK a \in Opened :
        /\ AnswerApproved(payment_id[a], k)
        /\ refund' = [refund EXCEPT ![k] = "approved"]
        /\ refund_of' = [refund_of EXCEPT ![k] = a]
        /\ Restored
        /\ Becomes(a, "refunded", "refunded")
        /\ CouponReleased
        /\ fulfillment' = IF cancel THEN "cancelled" ELSE fulfillment
        /\ UNCHANGED <<waits, opened, payment_id, elapsed, fetched>>
    BY <1>13 DEF Refund
  <2>1. ProviderType'
    BY DEF AnswerApproved, ProviderRefunds, Turns, ProviderType, ProviderStatus
  <2>2. RefundType'
    BY DEF RefundType, Opened, AttemptType
  <2>3. OrderType'
    BY DEF OrderType, Becomes, CouponReleased, CouponStatus, PaymentStatus
  <2>4. hold' \in [Attempts -> HoldStatus]
    BY DEF Restored, ReleaseActive, AttemptType, HoldStatus
  <2>5. AttemptType'
    BY <2>4 DEF AttemptType, Becomes, TxStatus
  <2> QED BY <2>1, <2>2, <2>3, <2>5
<1>14. ASSUME NEW f \in {"open", "fulfilled"}, Mark(f) PROVE Types'
  BY <1>14 DEF Mark, OrderType, AttemptType, RefundType, ProviderType
<1>15. CASE UNCHANGED vars
  BY <1>15 DEF vars, OrderType, AttemptType, RefundType, ProviderType
<1> QED BY <1>1, <1>2, <1>3, <1>4, <1>5, <1>6, <1>7, <1>8, <1>9, <1>10, <1>11, <1>12,
           <1>13, <1>14, <1>15 DEF Next

-----------------------------------------------------------------------------
(* The rows of the order's attempts are finitely many.                     *)
LEMMA OpenedFinite == Types => IsFiniteSet(Opened)
<1> SUFFICES ASSUME Types PROVE IsFiniteSet(1..opened)
  BY DEF Opened
<1>1. 1 \in Int /\ opened \in Int
  BY CheckoutAssumption DEF Types, AttemptType
<1> QED BY <1>1, FS_Interval

(* Reservations that elapse, end or stay leave the stock they held.        *)
LEMMA CoverShrinks ==
  ASSUME Types, HoldsCovered, LiveHolds' \subseteq LiveHolds,
         on_hand' \in Nat, on_hand' >= on_hand
  PROVE  HoldsCovered'
<1>1. IsFiniteSet(LiveHolds)
  BY OpenedFinite, FS_Subset DEF LiveHolds
<1>2. Cardinality(LiveHolds') \in Nat /\ Cardinality(LiveHolds) \in Nat
      /\ Cardinality(LiveHolds') <= Cardinality(LiveHolds)
  BY <1>1, FS_Subset, FS_CardinalityType
<1> QED BY <1>2 DEF HoldsCovered

(* A sale takes what the live reservations hold, and leaves none.          *)
LEMMA CoverSold ==
  ASSUME Types, HoldsCovered, ConsumeAll, UNCHANGED <<opened, elapsed>>
  PROVE  HoldsCovered'
<1>1. IsFiniteSet(LiveHolds)
  BY OpenedFinite, FS_Subset DEF LiveHolds
<1>2. Consumable = LiveHolds
  BY DEF Consumable, LiveHolds
<1>3. Cardinality(LiveHolds) \in Nat
  BY <1>1, FS_CardinalityType
<1>4. LiveHolds' = {}
  <2> SUFFICES ASSUME NEW a \in Opened, hold'[a] = "active", ~elapsed[a] PROVE FALSE
    BY DEF LiveHolds, Live, Opened
  <2>1. a \in Attempts
    BY CheckoutAssumption DEF Opened, Attempts, Types, AttemptType
  <2> QED BY <2>1 DEF ConsumeAll, Consumable, Live
<1>5. on_hand' \in Nat
  BY <1>2, <1>3 DEF ConsumeAll, HoldsCovered
<1> QED BY <1>4, <1>5, FS_EmptySet DEF HoldsCovered

(* A new attempt reserves a unit that is free.                             *)
LEMMA CoverGrows ==
  ASSUME Types, HoldsCovered, OpenAttempt, UNCHANGED elapsed
  PROVE  HoldsCovered'
<1>1. IsFiniteSet(LiveHolds)
  BY OpenedFinite, FS_Subset DEF LiveHolds
<1>2. LiveHolds' \subseteq LiveHolds \cup {opened + 1}
  <2> SUFFICES ASSUME NEW a \in 1..(opened + 1), hold'[a] = "active", ~elapsed[a],
                      a # opened + 1
               PROVE  a \in Opened /\ hold[a] = "active"
    BY DEF OpenAttempt, LiveHolds, Live, Opened
  <2>1. a \in Opened /\ a \in Attempts
    BY CheckoutAssumption DEF Opened, Attempts, Types, AttemptType
  <2> QED BY <2>1 DEF OpenAttempt
<1>3. opened + 1 \notin LiveHolds
  BY DEF LiveHolds, Opened, Types, AttemptType
<1>4. IsFiniteSet(LiveHolds \cup {opened + 1})
      /\ Cardinality(LiveHolds \cup {opened + 1}) = Cardinality(LiveHolds) + 1
  BY <1>1, <1>3, FS_AddElement
<1>5. Cardinality(LiveHolds') <= Cardinality(LiveHolds) + 1
  BY <1>2, <1>4, FS_Subset
<1>6. Cardinality(LiveHolds) + 1 <= on_hand
  BY <1>1, FS_CardinalityType DEF OpenAttempt, Free, LiveHolds, HoldsCovered
<1>7. Cardinality(LiveHolds) \in Nat /\ Cardinality(LiveHolds') \in Nat
  BY <1>1, <1>2, <1>4, FS_Subset, FS_CardinalityType
<1> QED BY <1>5, <1>6, <1>7 DEF OpenAttempt, HoldsCovered

(* The cover holds through every step of the order.                        *)
LEMMA CoverStays == Types /\ HoldsCovered /\ [Next]_vars => HoldsCovered'
<1> SUFFICES ASSUME Types, HoldsCovered, [Next]_vars PROVE HoldsCovered'
  OBVIOUS
<1> USE DEF orderVars, attemptVars, stockVars, refundVars, providerVars
<1>0. on_hand \in Nat
  BY DEF HoldsCovered
<1>1. ASSUME UNCHANGED <<hold, elapsed, opened, on_hand>> PROVE HoldsCovered'
  BY <1>1 DEF HoldsCovered, LiveHolds, Live, Opened
<1>2. ASSUME ReleaseActive, UNCHANGED <<opened, elapsed>>, on_hand' \in Nat,
             on_hand' >= on_hand
      PROVE  HoldsCovered'
  <2>1. LiveHolds' \subseteq LiveHolds
    <3> SUFFICES ASSUME NEW a \in Opened, hold'[a] = "active", ~elapsed[a] PROVE FALSE
      BY <1>2 DEF LiveHolds, Live, Opened
    <3>1. a \in Attempts
      BY CheckoutAssumption DEF Opened, Attempts, Types, AttemptType
    <3> QED BY <1>2, <3>1 DEF ReleaseActive
  <2> QED BY <1>2, <2>1, CoverShrinks
<1>3. CASE Confirm
  BY <1>1, <1>3, CoverGrows DEF Confirm
<1>4. CASE Resume
  BY <1>4, CoverGrows DEF Resume
<1>5. CASE Cancel
  BY <1>0, <1>2, <1>5 DEF Cancel
<1>6. ASSUME NEW a \in Attempts, Elapse(a) PROVE HoldsCovered'
  <2>1. LiveHolds' \subseteq LiveHolds
    BY <1>6 DEF Elapse, LiveHolds, Live, Opened, Attempts, Types, AttemptType
  <2> QED BY <1>0, <1>6, <2>1, CoverShrinks DEF Elapse
<1>7. ASSUME NEW a \in Attempts, ReleaseHold(a) PROVE HoldsCovered'
  <2>1. LiveHolds' \subseteq LiveHolds
    BY <1>7 DEF ReleaseHold, LiveHolds, Live, Opened, Attempts, Types, AttemptType
  <2> QED BY <1>0, <1>7, <2>1, CoverShrinks DEF ReleaseHold
<1>8. ASSUME NEW m \in fetched, Apply(m) PROVE HoldsCovered'
  <2>1. UNCHANGED <<opened, elapsed>> /\ (UNCHANGED stockVars \/ ConsumeAll)
    BY <1>8 DEF Apply, ApplyMismatch, ApplyPending, ApplyWithoutCoupon, ApplyApproved,
                ApplyLate, ApplyRejected, ApplyReturned
  <2> QED BY <1>1, <2>1, CoverSold
<1>9. ASSUME NEW k \in Keys, NEW cancel \in BOOLEAN, Refund(k, cancel) PROVE HoldsCovered'
  <2>1. Restored /\ UNCHANGED <<opened, elapsed>>
    BY <1>9 DEF Refund
  <2>2. CASE UNCHANGED stockVars
    BY <1>1, <2>1, <2>2
  <2>3. CASE ReleaseActive
             /\ on_hand' = on_hand + Cardinality({a \in Opened : hold[a] = "consumed"})
    <3>1. Cardinality({a \in Opened : hold[a] = "consumed"}) \in Nat
      BY OpenedFinite, FS_Subset, FS_CardinalityType
    <3> QED BY <1>0, <1>2, <2>1, <2>3, <3>1
  <2> QED BY <2>1, <2>2, <2>3 DEF Restored
<1>10. CASE UNCHANGED vars \/ ReleaseCoupon
  BY <1>1, <1>10 DEF vars, ReleaseCoupon
<1>11. ASSUME NEW w \in {"identity", "shipping_cost"}, Settle(w) PROVE HoldsCovered'
  BY <1>1, <1>11 DEF Settle
<1>12. ASSUME NEW p \in Payments, ProviderStep(p) \/ Fetch(p) PROVE HoldsCovered'
  BY <1>1, <1>12 DEF ProviderStep, Fetch
<1>13. ASSUME NEW k \in Keys, RefundPending(k) \/ RefundLost(k) PROVE HoldsCovered'
  BY <1>1, <1>13 DEF RefundPending, RefundLost
<1>14. ASSUME NEW f \in {"open", "fulfilled"}, Mark(f) PROVE HoldsCovered'
  BY <1>1, <1>14 DEF Mark
<1> QED BY <1>3, <1>4, <1>5, <1>6, <1>7, <1>8, <1>9, <1>10, <1>11, <1>12, <1>13, <1>14
        DEF Next

(* The columns' types, among them that on_hand is never negative: the      *)
(* sale of an order's reservations finds the units they hold               *)
(* (create_reservation, consume_reservation, refund_order).                *)
THEOREM TypeCorrect == Spec => []TypeOK
<1>1. Init => Types /\ HoldsCovered
  <2> SUFFICES ASSUME Init PROVE Types /\ HoldsCovered
    OBVIOUS
  <2>1. Types
    BY CheckoutAssumption
       DEF Init, Types, OrderType, AttemptType, RefundType, ProviderType, PaymentStatus,
           TxStatus, HoldStatus, CouponStatus, ProviderStatus, Results
  <2>2. LiveHolds = {}
    BY DEF Init, LiveHolds, Opened
  <2>3. on_hand \in Nat
    BY CheckoutAssumption DEF Init
  <2> QED BY <2>1, <2>2, <2>3, FS_EmptySet DEF HoldsCovered
<1>2. Types /\ HoldsCovered => TypeOK
  BY DEF Types, OrderType, AttemptType, RefundType, ProviderType, PaymentStatus,
         TxStatus, HoldStatus, CouponStatus, ProviderStatus, Results, HoldsCovered, TypeOK
<1> QED BY <1>1, <1>2, TypesStay, CoverStays, PTL DEF Spec

-----------------------------------------------------------------------------
(* Where payments, results and attempts come from.  None of the invariants *)
(* below is inductive without this: a result is applied to the attempt its *)
(* payment was made for, and that attempt must be one of the order's.      *)
Known(p) == provider[p] # "none"
MoneyMoved(p) == provider[p] \in {"approved", "refunding", "refunded"}
Provenance ==
  /\ \A p \in Payments : Known(p) => made_for[p] \in Opened
  /\ \A m \in fetched : Known(m.payment) /\ (m.status = "approved" => MoneyMoved(m.payment))
  /\ \A a \in Attempts : payment_id[a] # None =>
       Known(payment_id[a]) /\ made_for[payment_id[a]] = a

(* The provider never takes a payment back, and never gives the money of a *)
(* refunded one away again.                                                *)
Advances(p) ==
  /\ Known(p) => Known(p)' /\ made_for'[p] = made_for[p]
  /\ MoneyMoved(p) => MoneyMoved(p)'
  /\ provider[p] = "refunded" => provider'[p] = "refunded"
  /\ ~Known(p) /\ Known(p)' => made_for'[p] \in Opened

LEMMA ProviderAdvances ==
  ASSUME Types, [Next]_vars, NEW p \in Payments PROVE Advances(p)
<1> USE DEF orderVars, attemptVars, stockVars, refundVars, providerVars
<1>1. ASSUME UNCHANGED <<provider, made_for>> PROVE Advances(p)
  BY <1>1 DEF Advances, Known, MoneyMoved
<1>2. ASSUME NEW q \in Payments \cup {None}, NEW k \in Keys,
             NEW s \in {"refunding", "refunded"}, ProviderRefunds(q, k, s)
      PROVE  Advances(p)
  BY <1>2 DEF ProviderRefunds, Turns, Advances, Known, MoneyMoved, Types, ProviderType
<1>3. ASSUME NEW a \in Opened PROVE payment_id[a] \in Payments \cup {None}
  BY CheckoutAssumption DEF Opened, Attempts, Types, AttemptType
<1>4. ASSUME NEW q \in Payments, ProviderStep(q) PROVE Advances(p)
  BY <1>4 DEF ProviderStep, Turns, Advances, Known, MoneyMoved, Types, ProviderType
<1>5. ASSUME NEW k \in Keys, RefundPending(k) \/ RefundLost(k) PROVE Advances(p)
  <2> PICK a \in Opened, s \in {"refunding", "refunded"} :
        ProviderRefunds(payment_id[a], k, s)
    BY <1>5 DEF RefundPending, RefundLost
  <2> QED BY <1>2, <1>3
<1>6. ASSUME NEW k \in Keys, NEW cancel \in BOOLEAN, Refund(k, cancel) PROVE Advances(p)
  <2> PICK a \in Opened : ProviderRefunds(payment_id[a], k, "refunded")
    BY <1>6 DEF Refund, AnswerApproved
  <2> QED BY <1>2, <1>3
<1>7. CASE Confirm \/ Resume \/ ReleaseCoupon \/ Cancel \/ UNCHANGED vars
  BY <1>1, <1>7 DEF Confirm, Resume, ReleaseCoupon, Cancel, vars
<1>8. ASSUME NEW w \in {"identity", "shipping_cost"}, Settle(w) PROVE Advances(p)
  BY <1>1, <1>8 DEF Settle
<1>9. ASSUME NEW a \in Attempts, Elapse(a) \/ ReleaseHold(a) PROVE Advances(p)
  BY <1>1, <1>9 DEF Elapse, ReleaseHold
<1>10. ASSUME NEW q \in Payments, Fetch(q) PROVE Advances(p)
  BY <1>1, <1>10 DEF Fetch
<1>11. ASSUME NEW m \in fetched, Apply(m) PROVE Advances(p)
  BY <1>1, <1>11 DEF Apply
<1>12. ASSUME NEW f \in {"open", "fulfilled"}, Mark(f) PROVE Advances(p)
  BY <1>1, <1>12 DEF Mark
<1> QED BY <1>4, <1>5, <1>6, <1>7, <1>8, <1>9, <1>10, <1>11, <1>12 DEF Next

(* The rows of an order only grow in number; attempts are never deleted.   *)
LEMMA RowsStay == Types /\ [Next]_vars => Opened \subseteq Opened'
<1> SUFFICES ASSUME Types, [Next]_vars PROVE opened' \in {opened, opened + 1}
  BY CheckoutAssumption DEF Opened, Types, AttemptType
<1> QED
  BY DEF Next, vars, orderVars, attemptVars, Confirm, OpenAttempt, Resume, ReleaseCoupon,
         Cancel, Settle, Elapse, ReleaseHold, ProviderStep, Fetch, Apply, RefundPending,
         RefundLost, Refund, Mark

(* Provenance holds through every step: a worker's result and an attempt's *)
(* payment are of a payment the provider has, and still has later.         *)
LEMMA ProvenanceStays == Types /\ Provenance /\ [Next]_vars => Provenance'
<1> SUFFICES ASSUME Types, Provenance, [Next]_vars PROVE Provenance'
  OBVIOUS
<1> USE DEF orderVars, attemptVars, stockVars, refundVars, providerVars
<1>1. \A p \in Payments : Advances(p)
  BY ProviderAdvances
<1>2. ASSUME NEW p \in Payments, Known(p)' PROVE made_for'[p] \in Opened'
  BY <1>1, <1>2, RowsStay DEF Advances, Provenance
<1>3. ASSUME NEW m \in fetched'
      PROVE  Known(m.payment)' /\ (m.status = "approved" => MoneyMoved(m.payment)')
  <2>1. CASE m \in fetched
    <3>1. m.payment \in Payments
      BY <2>1 DEF Types, ProviderType, Results
    <3> QED BY <1>1, <2>1, <3>1 DEF Advances, Provenance
  <2>2. CASE m \notin fetched
    <3>1. PICK p \in Payments : Fetch(p)
      BY <1>3, <2>2 DEF Next, vars, Confirm, Resume, ReleaseCoupon, Cancel, Settle, Elapse,
                        ReleaseHold, ProviderStep, Apply, RefundPending, RefundLost,
                        Refund, Mark
    <3>2. /\ m.payment = p /\ provider[p] # "none" /\ provider' = provider
          /\ m.status = IF provider[p] = "refunding" THEN "approved" ELSE provider[p]
      BY <1>3, <2>2, <3>1 DEF Fetch
    <3> QED BY <3>2 DEF Known, MoneyMoved
  <2> QED BY <2>1, <2>2
<1>4. ASSUME NEW a \in Attempts, payment_id'[a] # None
      PROVE  (Known(payment_id[a]) /\ made_for[payment_id[a]] = a)'
  <2>1. CASE payment_id' = payment_id
    <3>1. payment_id[a] \in Payments
      BY <1>4, <2>1 DEF Types, AttemptType
    <3> QED BY <1>1, <1>4, <2>1, <3>1 DEF Advances, Provenance
  <2>2. CASE payment_id' # payment_id
    <3>1. PICK m \in fetched : Apply(m)
      BY <2>2 DEF Next, vars, Confirm, OpenAttempt, Resume, ReleaseCoupon, Cancel, Settle,
                  Elapse, ReleaseHold, ProviderStep, Fetch, RefundPending, RefundLost,
                  Refund, Mark
    <3>2. /\ UNCHANGED <<provider, made_for>>
          /\ Remembers(made_for[m.payment], m.payment)
      BY <2>2, <3>1 DEF Apply, ApplyMismatch, ApplyPending, ApplyWithoutCoupon,
                        ApplyApproved, ApplyLate, ApplyRejected, ApplyReturned
    <3>3. payment_id'[a] = IF a = made_for[m.payment] THEN m.payment ELSE payment_id[a]
      BY <3>2 DEF Remembers, Types, AttemptType
    <3> QED BY <1>4, <3>1, <3>2, <3>3 DEF Provenance, Known
  <2> QED BY <2>1, <2>2
<1> QED BY <1>2, <1>3, <1>4 DEF Provenance

(* The invariant the theorems below start from.                            *)
Traced == Types /\ Provenance

LEMMA AlwaysTraced == Spec => []Traced
<1>1. Init => Traced
  <2> SUFFICES ASSUME Init PROVE Traced
    OBVIOUS
  <2>1. Types
    BY CheckoutAssumption
       DEF Init, Types, OrderType, AttemptType, RefundType, ProviderType, PaymentStatus,
           TxStatus, HoldStatus, CouponStatus, ProviderStatus, Results
  <2> QED BY <2>1 DEF Init, Traced, Provenance, Known
<1>2. Traced /\ [Next]_vars => Traced'
  BY TypesStay, ProvenanceStays DEF Traced
<1> QED BY <1>1, <1>2, PTL DEF Spec

-----------------------------------------------------------------------------
(* A consumed reservation stays consumed, and becomes so only when an      *)
(* approved result is applied (consume_reservation has no other caller).   *)
Consumed(a) == a \in Opened /\ hold[a] = "consumed"
LEMMA ConsumedStays ==
  ASSUME Types, [Next]_vars, NEW a \in Attempts
  PROVE  /\ Consumed(a) => Consumed(a)'
         /\ ~Consumed(a) /\ Consumed(a)' =>
              \E m \in fetched : Apply(m) /\ m.status = "approved"
<1> USE DEF orderVars, attemptVars, stockVars, refundVars, providerVars
<1>0. hold \in [Attempts -> HoldStatus] /\ opened \in Int
  BY CheckoutAssumption DEF Types, AttemptType
<1>1. ASSUME UNCHANGED <<hold, opened>> PROVE Consumed(a) <=> Consumed(a)'
  BY <1>1 DEF Consumed, Opened
<1>2. ASSUME ReleaseActive, UNCHANGED opened PROVE Consumed(a) <=> Consumed(a)'
  BY <1>0, <1>2 DEF ReleaseActive, Consumed, Opened
<1>3. ASSUME OpenAttempt PROVE Consumed(a) <=> Consumed(a)'
  <2>1. hold'[a] = IF a = opened + 1 THEN "active"
                   ELSE IF hold[a] = "active" /\ elapsed[a] THEN "released" ELSE hold[a]
    BY <1>3 DEF OpenAttempt
  <2>2. a \in Opened' <=> a \in Opened \/ a = opened + 1
    BY <1>0, <1>3, CheckoutAssumption DEF OpenAttempt, Opened, Attempts, Types, AttemptType
  <2>3. a \in Opened => a # opened + 1
    BY <1>0 DEF Opened
  <2> QED BY <2>1, <2>2, <2>3 DEF Consumed
<1>4. CASE Confirm \/ Resume \/ ReleaseCoupon \/ Cancel \/ UNCHANGED vars
  BY <1>1, <1>2, <1>3, <1>4 DEF Confirm, Resume, ReleaseCoupon, Cancel, vars
<1>5. ASSUME NEW w \in {"identity", "shipping_cost"}, Settle(w)
      PROVE  Consumed(a) <=> Consumed(a)'
  BY <1>1, <1>5 DEF Settle
<1>6. ASSUME NEW b \in Attempts, Elapse(b) \/ ReleaseHold(b)
      PROVE  Consumed(a) <=> Consumed(a)'
  BY <1>0, <1>1, <1>6 DEF Elapse, ReleaseHold, Consumed, Opened
<1>7. ASSUME NEW p \in Payments, ProviderStep(p) \/ Fetch(p)
      PROVE  Consumed(a) <=> Consumed(a)'
  BY <1>1, <1>7 DEF ProviderStep, Fetch
<1>8. ASSUME NEW k \in Keys, RefundPending(k) \/ RefundLost(k)
      PROVE  Consumed(a) <=> Consumed(a)'
  BY <1>1, <1>8 DEF RefundPending, RefundLost
<1>9. ASSUME NEW k \in Keys, NEW cancel \in BOOLEAN, Refund(k, cancel)
      PROVE  Consumed(a) <=> Consumed(a)'
  BY <1>1, <1>2, <1>9 DEF Refund, Restored
<1>10. ASSUME NEW f \in {"open", "fulfilled"}, Mark(f) PROVE Consumed(a) <=> Consumed(a)'
  BY <1>1, <1>10 DEF Mark
<1>11. ASSUME NEW m \in fetched, Apply(m)
       PROVE  /\ Consumed(a) => Consumed(a)'
              /\ ~Consumed(a) /\ Consumed(a)' => m.status = "approved"
  <2>1. CASE UNCHANGED stockVars
    BY <1>1, <1>11, <2>1 DEF Apply
  <2>2. CASE ~UNCHANGED stockVars
    <3>1. ConsumeAll /\ m.status = "approved" /\ UNCHANGED opened
      BY <1>11, <2>2 DEF Apply, MoneyIn, ApplyMismatch, ApplyPending, ApplyWithoutCoupon,
                         ApplyApproved, ApplyLate, ApplyRejected, ApplyReturned
    <3> QED BY <1>0, <3>1 DEF ConsumeAll, Consumable, Live, Consumed, Opened
  <2> QED BY <2>1, <2>2
<1> QED BY <1>4, <1>5, <1>6, <1>7, <1>8, <1>9, <1>10, <1>11 DEF Next

(* Rows of the order are rows.                                             *)
LEMMA OpenedAttempts == Types => Opened \subseteq Attempts
BY CheckoutAssumption DEF Opened, Attempts, Types, AttemptType

(* Stock leaves the shelf only for money: consume_reservation is reached   *)
(* from an approved payment alone, and the provider, which may give the    *)
(* money back, never un-approves a payment.                                *)
THEOREM StockIsPaidFor == Spec => []StockFollowsMoney
<1> DEFINE Sold == \E a \in Attempts : Consumed(a)
           Money == \E p \in Payments : MoneyMoved(p)
<1>1. Init => (Sold => Money)
  BY DEF Init, Consumed, Opened
<1>2. Traced /\ (Sold => Money) /\ [Next]_vars => (Sold => Money)'
  <2> SUFFICES ASSUME Traced, Sold => Money, [Next]_vars, Sold' PROVE Money'
    OBVIOUS
  <2>1. Types /\ Provenance
    BY DEF Traced
  <2>2. CASE Money
    <3> PICK p \in Payments : MoneyMoved(p)
      BY <2>2
    <3> QED BY <2>1, ProviderAdvances DEF Advances
  <2>3. CASE ~Money
    <3>1. PICK a \in Attempts : ~Consumed(a) /\ Consumed(a)'
      BY <2>3 DEF Attempts
    <3>2. PICK m \in fetched : Apply(m) /\ m.status = "approved"
      BY <2>1, <3>1, ConsumedStays
    <3>3. m.payment \in Payments /\ MoneyMoved(m.payment)
      BY <2>1, <3>2 DEF Provenance, Types, ProviderType, Results
    <3> QED BY <2>3, <3>3
  <2> QED BY <2>2, <2>3
<1>3. Traced /\ (Sold => Money) => StockFollowsMoney
  BY OpenedAttempts DEF Traced, StockFollowsMoney, Consumed, MoneyMoved
<1> QED BY <1>1, <1>2, <1>3, AlwaysTraced, PTL DEF Spec

(* A coupon is used up only together with stock: of the two ways an        *)
(* approved payment can end, the one that finds a reservation gone         *)
(* releases the coupon it has just consumed (_apply_payment_atomic), and   *)
(* stock once consumed stays so.                                           *)
THEOREM CouponGoesWithStock == Spec => []CouponNeedsStock
<1> DEFINE Sold == \E a \in Attempts : Consumed(a)
           Inv == coupon = "consumed" => Sold
<1>1. Init => Inv
  BY DEF Init
<1>2. Traced /\ Inv /\ [Next]_vars => Inv'
  <2> SUFFICES ASSUME Traced, Inv, [Next]_vars, coupon' = "consumed" PROVE Sold'
    OBVIOUS
  <2>1. Types /\ Provenance
    BY DEF Traced
  <2>2. CASE coupon = "consumed"
    <3>1. PICK a \in Attempts : Consumed(a)
      BY <2>2
    <3> QED BY <2>1, <3>1, ConsumedStays DEF Attempts
  <2>3. CASE coupon # "consumed"
    <3>1. PICK m \in fetched : Apply(m) /\ ApplyApproved(made_for[m.payment], m.payment)
      BY <2>3 DEF Next, vars, orderVars, attemptVars, stockVars, refundVars, providerVars,
                  Confirm, Resume, ReleaseCoupon, Cancel, Settle, Elapse, ReleaseHold,
                  ProviderStep, Fetch, Apply, RefundPending, RefundLost, Refund, Mark,
                  CouponReleased, ApplyMismatch, ApplyPending, ApplyWithoutCoupon,
                  ApplyLate, ApplyRejected, ApplyReturned
    <3>2. PICK a \in Attempts : a = made_for[m.payment] /\ a \in Opened
      BY <2>1, OpenedAttempts DEF Provenance, Types, ProviderType, Results
    <3>3. hold'[a] = "consumed" /\ opened' = opened
      BY <3>1, <3>2 DEF Apply, ApplyApproved, AllConsumed, ConsumeAll, Consumable
    <3>4. Consumed(a)'
      BY <3>2, <3>3 DEF Consumed, Opened
    <3> QED BY <3>2, <3>4 DEF Attempts
  <2> QED BY <2>2, <2>3
<1>3. Traced /\ Inv => CouponNeedsStock
  BY OpenedAttempts DEF Traced, CouponNeedsStock, Consumed
<1> QED BY <1>1, <1>2, <1>3, AlwaysTraced, PTL DEF Spec

(* An order is paid by applying an approved payment, and while it stays so *)
(* no step but the coupons' release task touches what paid for it.         *)
LEMMA PaidSteps ==
  ASSUME [Next]_vars, payment' = "paid"
  PROVE  \/ UNCHANGED <<payment, opened, tx>>
            /\ (coupon' = coupon \/ coupon = "reserved")
         \/ \E m \in fetched :
              /\ Apply(m) /\ UNCHANGED <<opened, made_for>>
              /\ ApplyApproved(made_for[m.payment], m.payment)
BY DEF Next, vars, orderVars, attemptVars, stockVars, refundVars, providerVars,
       Confirm, OpenAttempt, Resume, ReleaseCoupon, Cancel, Settle, Elapse, ReleaseHold,
       ProviderStep, Fetch, Apply, RefundPending, RefundLost, Refund, Mark, Becomes,
       ApplyMismatch, ApplyPending, ApplyWithoutCoupon, ApplyLate, ApplyRejected,
       ApplyReturned

(* A paid order has an approved attempt, all its stock taken and its       *)
(* coupon used, whatever was late, repeated or out of order before         *)
(* (_apply_payment_atomic, cancel_order, the release tasks).               *)
THEOREM PaidOrdersAreCovered == Spec => []PaidIsCovered
<1>1. Init => PaidIsCovered
  BY DEF Init, PaidIsCovered
<1>2. Traced /\ PaidIsCovered /\ [Next]_vars => PaidIsCovered'
  <2> SUFFICES ASSUME Traced, PaidIsCovered, [Next]_vars, payment' = "paid"
               PROVE  /\ \E a \in Opened' : tx'[a] = "approved"
                      /\ \A a \in Opened' : hold'[a] = "consumed"
                      /\ coupon' \in {"none", "consumed"}
    BY DEF PaidIsCovered
  <2>1. Types /\ Provenance
    BY DEF Traced
  <2>2. CASE UNCHANGED <<payment, opened, tx>> /\ (coupon' = coupon \/ coupon = "reserved")
    <3>1. Opened' = Opened
      BY <2>2 DEF Opened
    <3>2. \A a \in Opened : hold'[a] = "consumed"
      BY <2>1, <2>2, ConsumedStays, OpenedAttempts DEF PaidIsCovered, Consumed
    <3> QED BY <2>2, <3>1, <3>2 DEF PaidIsCovered
  <2>3. ASSUME NEW m \in fetched, Apply(m), UNCHANGED <<opened, made_for>>,
               ApplyApproved(made_for[m.payment], m.payment)
        PROVE  /\ \E a \in Opened' : tx'[a] = "approved"
               /\ \A a \in Opened' : hold'[a] = "consumed"
               /\ coupon' \in {"none", "consumed"}
    <3> DEFINE b == made_for[m.payment]
    <3>1. b \in Opened /\ b \in Attempts
      BY <2>1, OpenedAttempts DEF Provenance, Types, ProviderType, Results
    <3>2. tx'[b] = "approved"
      BY <2>1, <2>3, <3>1 DEF ApplyApproved, Becomes, Types, AttemptType
    <3>3. \A a \in Opened : hold'[a] = "consumed"
      BY <2>1, <2>3, OpenedAttempts DEF ApplyApproved, AllConsumed, ConsumeAll, Consumable
    <3>4. Opened' = Opened
      BY <2>3 DEF Opened
    <3>5. coupon' \in {"none", "consumed"}
      BY <2>3 DEF ApplyApproved, CouponTaken
    <3> QED BY <3>1, <3>2, <3>3, <3>4, <3>5
  <2> QED BY <2>2, <2>3, PaidSteps
<1> QED BY <1>1, <1>2, AlwaysTraced, PTL DEF Spec

(* An attempt is marked refunded only by refund_order's approved branch,   *)
(* of the payment the attempt remembers, which was made for that attempt.  *)
THEOREM RefundsAreReal == Spec => []RefundedMoneyIsBack
<1> DEFINE Back(a) == \E p \in Payments : made_for[p] = a /\ provider[p] = "refunded"
           Inv == \A a \in Attempts : tx[a] = "refunded" => Back(a)
<1>1. Init => Inv
  BY DEF Init
<1>2. Traced /\ Inv /\ [Next]_vars => Inv'
  <2> SUFFICES ASSUME Traced, Inv, [Next]_vars, NEW a \in Attempts, tx'[a] = "refunded"
               PROVE  \E p \in Payments : made_for'[p] = a /\ provider'[p] = "refunded"
    OBVIOUS
  <2>1. Types /\ Provenance
    BY DEF Traced
  <2>2. CASE tx[a] = "refunded"
    <3>1. PICK p \in Payments : made_for[p] = a /\ provider[p] = "refunded"
      BY <2>2
    <3> QED BY <2>1, <3>1, ProviderAdvances DEF Advances, Known
  <2>3. CASE tx[a] # "refunded"
    <3>1. ASSUME NEW m \in fetched, Apply(m) PROVE FALSE
      BY <2>1, <2>3, <3>1
         DEF Apply, Becomes, ApplyMismatch, ApplyPending, ApplyWithoutCoupon, ApplyApproved,
             ApplyLate, ApplyRejected, ApplyReturned, Types, AttemptType
    <3>2. ~OpenAttempt
      BY <2>1, <2>3 DEF OpenAttempt, Types, AttemptType
    <3>3. PICK k \in Keys, cancel \in BOOLEAN : Refund(k, cancel)
      BY <2>3, <3>1, <3>2
         DEF Next, vars, orderVars, attemptVars, stockVars, refundVars, providerVars,
             Confirm, Resume, ReleaseCoupon, Cancel, Settle, Elapse, ReleaseHold,
             ProviderStep, Fetch, RefundPending, RefundLost, Mark
    <3>4. PICK b \in Opened : /\ Becomes(b, "refunded", "refunded")
                              /\ payment_id[b] # None
                              /\ ProviderRefunds(payment_id[b], k, "refunded")
      BY <3>3 DEF Refund, AnswerApproved
    <3>5. a = b
      BY <2>1, <2>3, <3>4, OpenedAttempts DEF Becomes, Types, AttemptType
    <3>6. payment_id[a] \in Payments /\ made_for[payment_id[a]] = a
      BY <2>1, <3>4, <3>5 DEF Provenance, Types, AttemptType
    <3>7. made_for' = made_for /\ provider'[payment_id[a]] = "refunded"
      BY <2>1, <3>4, <3>5, <3>6 DEF ProviderRefunds, Turns, Types, ProviderType
    <3> QED BY <3>6, <3>7
  <2> QED BY <2>2, <2>3
<1>3. Traced /\ Inv => RefundedMoneyIsBack
  BY OpenedAttempts DEF Traced, RefundedMoneyIsBack
<1> QED BY <1>1, <1>2, <1>3, AlwaysTraced, PTL DEF Spec

(* The only attempt that can wait for a payment in time is the last one:   *)
(* resume_checkout opens another only when the link of the last is over    *)
(* (_checkout_url_is_active) and nothing makes an attempt wait again.      *)
THEOREM OneLinkAtATime == Spec => []OneAwaitedAttempt
<1> DEFINE Inv == /\ payment = "absent" => opened = 0
                  /\ \A a \in Opened : a < opened => ~Awaited(a)
<1>1. Init => Inv
  BY DEF Init, Opened
<1>2. Traced /\ Inv /\ [Next]_vars => Inv'
  <2> SUFFICES ASSUME Traced, Inv, [Next]_vars PROVE Inv'
    OBVIOUS
  <2> USE DEF orderVars, attemptVars, stockVars, refundVars, providerVars
  <2>1. Types
    BY DEF Traced
  <2>2. ASSUME NEW a \in Opened, Awaited(a)' PROVE Awaited(a)
    <3>0. a \in Attempts /\ a # opened + 1
      BY <2>1, OpenedAttempts, CheckoutAssumption DEF Opened, Types, AttemptType
    <3> HIDE DEF Inv
    <3>1. CASE OpenAttempt /\ elapsed' = elapsed
      BY <2>1, <2>2, <3>0, <3>1 DEF OpenAttempt, Awaited, Types, AttemptType
    <3>2. CASE ReleaseActive
      BY <2>2, <3>0, <3>2 DEF ReleaseActive, Awaited
    <3>3. ASSUME NEW b \in Attempts, Elapse(b) \/ ReleaseHold(b) PROVE Awaited(a)
      BY <2>1, <2>2, <3>0, <3>3 DEF Elapse, ReleaseHold, Awaited, Types, AttemptType
    <3>4. ASSUME NEW m \in fetched, Apply(m) PROVE Awaited(a)
      <4>1. tx'[a] = "pending" => tx[a] = "pending"
        BY <2>1, <3>0, <3>4 DEF Apply, Becomes, ApplyMismatch, ApplyPending,
           ApplyWithoutCoupon, ApplyApproved, ApplyLate, ApplyRejected, ApplyReturned,
           Types, AttemptType
      <4>2. hold'[a] = "active" => hold[a] = "active"
        BY <2>1, <3>0, <3>4 DEF Apply, ApplyMismatch, ApplyPending,
           ApplyWithoutCoupon, ApplyApproved, ApplyLate, ApplyRejected, ApplyReturned,
           ConsumeAll
      <4> QED BY <2>2, <3>4, <4>1, <4>2 DEF Awaited, Apply
    <3>5. ASSUME NEW k \in Keys, NEW cancel \in BOOLEAN, Refund(k, cancel) PROVE Awaited(a)
      <4>1. tx'[a] = "pending" => tx[a] = "pending"
        BY <2>1, <3>0, <3>5 DEF Refund, Becomes, Types, AttemptType
      <4> QED BY <2>2, <3>2, <3>5, <4>1 DEF Refund, Restored, Awaited
    <3>6. ASSUME UNCHANGED <<tx, hold, elapsed>> PROVE Awaited(a)
      BY <2>2, <3>6 DEF Awaited
    <3> QED BY <3>1, <3>2, <3>3, <3>4, <3>5, <3>6
            DEF Next, vars, Confirm, Resume, ReleaseCoupon, Cancel, Settle, ProviderStep,
                Fetch, RefundPending, RefundLost, Mark
  <2>3. CASE UNCHANGED opened
    <3>1. payment' = "absent" => payment = "absent"
      BY <2>3 DEF Next, vars, Confirm, OpenAttempt, Resume, ReleaseCoupon, Cancel, Settle,
                  Elapse, ReleaseHold, ProviderStep, Fetch, Apply, RefundPending,
                  RefundLost, Refund, Mark, Becomes, ApplyMismatch, ApplyPending,
                  ApplyWithoutCoupon, ApplyApproved, ApplyLate, ApplyRejected, ApplyReturned
    <3> QED BY <2>2, <2>3, <3>1 DEF Opened
  <2>4. CASE ~UNCHANGED opened
    <3>1. /\ OpenAttempt /\ elapsed' = elapsed
          /\ payment = "absent" \/ ~LinkActive(opened)
      BY <2>4 DEF Next, vars, Confirm, Resume, ReleaseCoupon, Cancel, Settle,
                  Elapse, ReleaseHold, ProviderStep, Fetch, Apply, RefundPending,
                  RefundLost, Refund, Mark
    <3>2. opened' = opened + 1 /\ payment' = "pending" /\ opened \in Nat
      BY <2>1, <3>1, CheckoutAssumption DEF OpenAttempt, Types, AttemptType
    <3>3. ASSUME NEW a \in Opened', a < opened' PROVE ~Awaited(a)'
      <4>1. a \in Opened
        BY <3>2, <3>3 DEF Opened
      <4>2. ~Awaited(a)
        BY <3>1, <3>2, <4>1 DEF Awaited, LinkActive, Opened
      <4> QED BY <2>2, <4>1, <4>2
    <3> QED BY <3>2, <3>3
  <2> QED BY <2>3, <2>4
<1>3. Traced /\ Inv => OneAwaitedAttempt
  BY CheckoutAssumption DEF Traced, Types, AttemptType, OneAwaitedAttempt, Opened
<1> QED BY <1>1, <1>2, <1>3, AlwaysTraced, PTL DEF Spec
=============================================================================
