------------------------------- MODULE Coupons -------------------------------
(***************************************************************************)
(* The redemptions of one coupon with a limited number of uses             *)
(* (commerce/services.py).  Each order has at most one redemption.  Its    *)
(* checkout reserves a place for 20 minutes, its payment consumes it, its  *)
(* cancellation, rejection or refund releases it.                          *)
(*                                                                         *)
(* reserve and consume read the clock first and then wait for the coupon's *)
(* row lock, so the time they reason with may be old when they get it: a   *)
(* call is an action that reads the clock and one that does the rest.      *)
(* The rest is one transaction under the lock, undone when it raises.      *)
(* A payment reads its clock holding the order's row lock, so nothing else *)
(* happens to the order's redemption until it is done; a checkout reads it *)
(* before it locks anything.                                               *)
(***************************************************************************)
EXTENDS Integers, FiniteSets

CONSTANTS
  Orders,      \* orders whose cart carries the coupon
  Quotas,      \* values Coupon.max_redemptions takes
  Unlimited,   \* NULL in that column
  Lifetime,    \* the 20 minutes of a reservation, in ticks
  MaxNow,      \* bound of the clock
  Idle         \* no such call is under way

ASSUME CouponAssumption ==
  /\ IsFiniteSet(Orders)
  /\ Unlimited \notin Nat /\ Idle \notin Nat
  /\ Quotas \subseteq (Nat \ {0}) \cup {Unlimited}
  /\ Lifetime \in Nat \ {0}
  /\ MaxNow \in Nat

VARIABLES
  now,       \* the clock
  limit,     \* Coupon.max_redemptions
  status,    \* CouponRedemption.status of an order; "none" without a row
  expires,   \* CouponRedemption.expires_at
  since      \* the clock a call of an order has read, or Idle

vars == <<now, limit, status, expires, since>>

Status == {"none", "reserved", "consumed", "released"}
Ops == {"reserve", "consume"}

(* Redemptions that count as in use at time t.                             *)
InUse(t) ==
  {o \in Orders : \/ status[o] = "consumed"
                  \/ status[o] = "reserved" /\ expires[o] > t}

(* There is room for o beside the others; the check that counts the        *)
(* order's own redemption among them; and the one that spares an order     *)
(* that once had a place.                                                  *)
RoomCountingOneself(o, t) ==
  limit # Unlimited => Cardinality(InUse(t)) < limit
RoomOnceGranted(o, t) ==
  status[o] = "none" /\ limit # Unlimited => Cardinality(InUse(t) \ {o}) < limit
Room(o, t) ==
  limit # Unlimited => Cardinality(InUse(t) \ {o}) < limit

(* The rows after o gets status s at time t: making room first releases    *)
(* every reservation that is over at that time.                            *)
Granted(o, s, t) ==
  [x \in Orders |->
     IF x = o THEN s
     ELSE IF status[x] = "reserved" /\ expires[x] <= t THEN "released"
     ELSE status[x]]

(* When a reservation made at time t ends.                                 *)
Deadline(o, t) == t + Lifetime

-----------------------------------------------------------------------------
Init ==
  /\ now = 0
  /\ limit \in Quotas
  /\ status = [o \in Orders |-> "none"]
  /\ expires = [o \in Orders |-> 0]
  /\ since = [o \in Orders |-> [op \in Ops |-> Idle]]

(* A checkout or a payment calls, and reads the clock.                     *)
Call(o, op) ==
  /\ since[o][op] = Idle
  /\ since[o]["consume"] = Idle
  /\ since' = [since EXCEPT ![o][op] = now]
  /\ UNCHANGED <<now, limit, status, expires>>

Paying(o) == since[o]["consume"] # Idle
Reserving(o) == since[o]["reserve"] # Idle /\ ~Paying(o)
Returned(o, op) == since' = [since EXCEPT ![o][op] = Idle]

(* reserve_coupon_redemption finds a place the order already has ...       *)
Has(o, t) ==
  \/ status[o] = "consumed"
  \/ status[o] = "reserved" /\ expires[o] > t
ReserveAgain(o) ==
  /\ Reserving(o)
  /\ Has(o, since[o]["reserve"])
  /\ Returned(o, "reserve")
  /\ UNCHANGED <<now, limit, status, expires>>

(* ... or takes one.                                                       *)
Reserve(o) ==
  LET t == since[o]["reserve"] IN
  /\ Reserving(o)
  /\ ~Has(o, t)
  /\ Room(o, t)
  /\ status' = Granted(o, "reserved", t)
  /\ expires' = [expires EXCEPT ![o] = Deadline(o, t)]
  /\ Returned(o, "reserve")
  /\ UNCHANGED <<now, limit>>

(* consume_coupon_redemption has nothing to do ...                         *)
ConsumeAgain(o) ==
  /\ Paying(o)
  /\ status[o] \in {"none", "consumed"}
  /\ Returned(o, "consume")
  /\ UNCHANGED <<now, limit, status, expires>>

(* ... or consumes, from a reservation in time, an elapsed one or one that *)
(* was released: whichever fits.                                           *)
Consume(o) ==
  LET t == since[o]["consume"] IN
  /\ Paying(o)
  /\ status[o] \in {"reserved", "released"}
  /\ Room(o, t)
  /\ status' = Granted(o, "consumed", t)
  /\ Returned(o, "consume")
  /\ UNCHANGED <<now, limit, expires>>

(* No room: ValidationError, and the call leaves nothing behind.           *)
RefuseReserve(o) ==
  /\ Reserving(o)
  /\ ~Has(o, since[o]["reserve"])
  /\ ~Room(o, since[o]["reserve"])
  /\ Returned(o, "reserve")
  /\ UNCHANGED <<now, limit, status, expires>>
RefuseConsume(o) ==
  /\ Paying(o)
  /\ status[o] \in {"reserved", "released"}
  /\ ~Room(o, since[o]["consume"])
  /\ Returned(o, "consume")
  /\ UNCHANGED <<now, limit, status, expires>>

(* release_coupon_redemption takes only the redemption's lock, and gives   *)
(* back a consumed place as well.                                          *)
Release(o) ==
  /\ ~Paying(o)
  /\ status[o] \in {"reserved", "consumed"}
  /\ status' = [status EXCEPT ![o] = "released"]
  /\ UNCHANGED <<now, limit, expires, since>>

(* release_expired_coupon_redemptions, one UPDATE of the release task.     *)
Sweep ==
  /\ \E o \in Orders : status[o] = "reserved" /\ expires[o] <= now
  /\ status' = [x \in Orders |->
                  IF status[x] = "reserved" /\ expires[x] <= now THEN "released"
                  ELSE status[x]]
  /\ UNCHANGED <<now, limit, expires, since>>

(* The backoffice edits max_redemptions, below what is in use if it likes. *)
SetLimit(m) ==
  /\ limit' = m
  /\ UNCHANGED <<now, status, expires, since>>

Tick ==
  /\ now < MaxNow
  /\ now' = now + 1
  /\ UNCHANGED <<limit, status, expires, since>>

Next ==
  \/ \E o \in Orders, op \in Ops : Call(o, op)
  \/ \E o \in Orders : \/ ReserveAgain(o) \/ Reserve(o)
                       \/ ConsumeAgain(o) \/ Consume(o)
                       \/ RefuseReserve(o) \/ RefuseConsume(o)
                       \/ Release(o)
  \/ Sweep
  \/ \E m \in Quotas : SetLimit(m)
  \/ Tick

Spec == Init /\ [][Next]_vars
-----------------------------------------------------------------------------
(* The fields hold what their columns can hold, and no call waits with a   *)
(* time that has not come.                                                 *)
TypeOK ==
  /\ now \in 0..MaxNow
  /\ limit \in Quotas
  /\ status \in [Orders -> Status]
  /\ expires \in [Orders -> 0..(MaxNow + Lifetime)]
  /\ since \in [Orders -> [Ops -> (0..now) \cup {Idle}]]

Within(n) == limit # Unlimited => n <= limit

(* Whoever gets a place gets it within the quota, although the count is    *)
(* made with a clock read before the lock, places lapse and are retaken    *)
(* meanwhile, released redemptions are paid late, and the quota is edited  *)
(* to less than what is in use.                                            *)
JoinsWithinQuota ==
  [][InUse(now)' \subseteq InUse(now) \/ Within(Cardinality(InUse(now)))']_vars

(* A payment does not lose the place its checkout holds: an order whose    *)
(* redemption still counts is not refused when it is paid, although its    *)
(* call may have read the clock long before.  Under the highest quota the  *)
(* staff ever sets, that is: a quota lowered below what is in use refuses  *)
(* the payment of a place that was granted before.                         *)
Highest(m) == m # Unlimited => Unlimited \notin Quotas /\ \A q \in Quotas : q <= m
PlaceIsHonoured ==
  \A o \in Orders :
    Paying(o) /\ o \in InUse(now) /\ Highest(limit) => Room(o, since[o]["consume"])
=============================================================================
