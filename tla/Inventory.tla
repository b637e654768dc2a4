------------------------------ MODULE Inventory ------------------------------
(***************************************************************************)
(* Stock of the catalogue variants and the reservations held on it         *)
(* (commerce/services.py, commerce/inventory.py, the restock loop of       *)
(* commerce/payments.py and the release task of commerce/tasks.py).        *)
(*                                                                         *)
(* Every operation below locks the variant row first (SELECT ... FOR       *)
(* UPDATE) and runs in one database transaction, so it is one action; an   *)
(* exception rolls the transaction back, so a path that raises is no step  *)
(* at all.  The release task is the exception: it reads the ids that are   *)
(* due in one query and releases them one transaction at a time.           *)
(*                                                                         *)
(* The clock is abstracted to what the code asks of it: elapsed[r] says    *)
(* that expires_at <= now.  Nothing ever extends expires_at.               *)
(***************************************************************************)
EXTENDS Integers, FiniteSets

CONSTANTS
  Variants,       \* ProductVariant rows
  Reservations,   \* StockReservation rows, existing or to come
  VariantOf,      \* the variant each reservation is made on
  MaxQuantity,    \* settings.MAX_CART_LINE_QUANTITY
  MaxPurchase,    \* max_purchase_quantity of each variant; NULL is MaxQuantity
  OpeningStock,   \* on_hand of each variant when the behaviour starts
  Targets,        \* levels a stock correction can set
  MaxRestocks     \* bound: refunds that restock one reservation

ASSUME InventoryAssumption ==
  /\ IsFiniteSet(Reservations)
  /\ VariantOf \in [Reservations -> Variants]
  /\ MaxQuantity \in Nat \ {0}
  /\ MaxPurchase \in [Variants -> 1..MaxQuantity]
  /\ OpeningStock \in [Variants -> Nat]
  /\ Targets \subseteq Nat
  /\ MaxRestocks \in Nat

VARIABLES
  on_hand,    \* ProductVariant.on_hand
  infinite,   \* ProductVariant.stock_is_infinite
  status,     \* StockReservation.status; "none" until the row exists
  quantity,   \* StockReservation.quantity
  tracks,     \* StockReservation.tracks_inventory
  elapsed,    \* expires_at <= now
  moves,      \* InventoryMovement rows of a reservation, counted by kind
  ledger,     \* sum of quantity_delta over the movements of a variant
  due         \* ids the running release task still has to visit

stockVars == <<on_hand, ledger>>
rowVars == <<quantity, tracks>>
vars == <<on_hand, infinite, status, quantity, tracks, elapsed, moves, ledger, due>>

Status == {"none", "active", "consumed", "released"}
Kinds == {"reservation", "release", "sale", "refund"}

(* Units of v held by reservations that are active and not yet elapsed;    *)
(* their number is the Sum("quantity") of the reservation query.           *)
Holds(r) == status[r] = "active" /\ tracks[r] /\ ~elapsed[r]
HeldUnits(v) ==
  {u \in Reservations \X (1..MaxQuantity) :
     /\ VariantOf[u[1]] = v
     /\ Holds(u[1])
     /\ u[2] <= quantity[u[1]]}
Reserved(v) == Cardinality(HeldUnits(v))

(* A change of on_hand and the movement row that logs it; the second form  *)
(* is the mistake of logging only what leaves the shelf.                   *)
MovedLoggingOnlySales(v, delta) ==
  /\ on_hand' = [on_hand EXCEPT ![v] = @ + delta]
  /\ ledger' = IF delta < 0 THEN [ledger EXCEPT ![v] = @ + delta] ELSE ledger
Moved(v, delta) ==
  /\ on_hand' = [on_hand EXCEPT ![v] = @ + delta]
  /\ ledger' = [ledger EXCEPT ![v] = @ + delta]

(* One InventoryMovement row of kind k for every reservation in S that     *)
(* tracks its inventory.                                                   *)
Recorded(S, k) ==
  [r \in Reservations |->
     IF r \in S /\ tracks[r] THEN [moves[r] EXCEPT ![k] = @ + 1] ELSE moves[r]]

-----------------------------------------------------------------------------
Init ==
  /\ on_hand = OpeningStock
  /\ infinite \in [Variants -> BOOLEAN]
  /\ status = [r \in Reservations |-> "none"]
  /\ quantity = [r \in Reservations |-> 0]
  /\ tracks = [r \in Reservations |-> FALSE]
  /\ elapsed = [r \in Reservations |-> FALSE]
  /\ moves = [r \in Reservations |-> [k \in Kinds |-> 0]]
  /\ ledger = [v \in Variants |-> 0]
  /\ due = {}

(* Reservations of the same variant that create_reservation releases on    *)
(* its way, because their time is over; and without the filter on status.  *)
LapsedInAnyStatus(v) == {x \in Reservations : VariantOf[x] = v /\ elapsed[x]}
Lapsed(v) ==
  {x \in Reservations : VariantOf[x] = v /\ status[x] = "active" /\ elapsed[x]}

(* The stock check; and the same check blind to what others hold.          *)
AvailableIgnoringHolds(v, q) == infinite[v] \/ on_hand[v] >= q
Available(v, q) == infinite[v] \/ on_hand[v] - Reserved(v) >= q

(* create_reservation: release what has lapsed, check the purchase limit   *)
(* and the available stock, then insert the row.                           *)
Reserve(r, q) ==
  LET v == VariantOf[r] IN
  /\ status[r] = "none"
  /\ q <= MaxPurchase[v]
  /\ Available(v, q)
  /\ status' = [x \in Reservations |->
                  IF x = r THEN "active"
                  ELSE IF x \in Lapsed(v) THEN "released" ELSE status[x]]
  /\ quantity' = [quantity EXCEPT ![r] = q]
  /\ tracks' = [tracks EXCEPT ![r] = ~infinite[v]]
  /\ moves' = [Recorded(Lapsed(v), "release") EXCEPT
                 ![r]["reservation"] = IF infinite[v] THEN @ ELSE @ + 1]
  /\ UNCHANGED <<stockVars, infinite, elapsed, due>>

(* expires_at > now, as the payment asks; and a payment that does not ask. *)
InTimeUnchecked(r) == status[r] = "active"
InTime(r) == status[r] = "active" /\ ~elapsed[r]

(* The variant's full_clean on saving on_hand.                             *)
Solvent(v, taken) == on_hand[v] - taken >= 0

(* consume_reservation on an active reservation whose time is over.        *)
ConsumeLapsed(r) ==
  /\ status[r] = "active"
  /\ elapsed[r]
  /\ status' = [status EXCEPT ![r] = "released"]
  /\ moves' = Recorded({r}, "release")
  /\ UNCHANGED <<stockVars, rowVars, infinite, elapsed, due>>

(* consume_reservation on a live reservation.  Saving a negative on_hand   *)
(* fails the variant's full_clean, which undoes the whole transaction.     *)
Consume(r) ==
  LET v == VariantOf[r]
      taken == IF tracks[r] THEN quantity[r] ELSE 0
  IN
  /\ InTime(r)
  /\ Solvent(v, taken)
  /\ Moved(v, -taken)
  /\ status' = [status EXCEPT ![r] = "consumed"]
  /\ moves' = Recorded({r}, "sale")
  /\ UNCHANGED <<rowVars, infinite, elapsed, due>>

(* release_reservation, as the cancellation and the refund of an order     *)
(* call it: the reservation may still have time left.                      *)
Release(r) ==
  /\ status[r] = "active"
  /\ status' = [status EXCEPT ![r] = "released"]
  /\ moves' = Recorded({r}, "release")
  /\ UNCHANGED <<stockVars, rowVars, infinite, elapsed, due>>

(* The restock loop of refund_order on one consumed reservation.  The      *)
(* reservation stays consumed.                                             *)
Restock(r) ==
  /\ status[r] = "consumed"
  /\ tracks[r]
  /\ moves[r]["refund"] < MaxRestocks
  /\ Moved(VariantOf[r], quantity[r])
  /\ moves' = Recorded({r}, "refund")
  /\ UNCHANGED <<rowVars, status, infinite, elapsed, due>>

(* adjust_inventory: the level is set whatever is reserved.                *)
Adjust(v, target) ==
  /\ target # on_hand[v]
  /\ Moved(v, target - on_hand[v])
  /\ UNCHANGED <<rowVars, status, infinite, elapsed, moves, due>>

(* The backoffice edits stock_is_infinite under the variant's row lock.    *)
SetInfinite(v) ==
  /\ infinite' = [infinite EXCEPT ![v] = ~@]
  /\ UNCHANGED <<stockVars, rowVars, status, elapsed, moves, due>>

(* The clock reaches expires_at; of a settled reservation nobody asks.     *)
Elapse(r) ==
  /\ status[r] = "active"
  /\ ~elapsed[r]
  /\ elapsed' = [elapsed EXCEPT ![r] = TRUE]
  /\ UNCHANGED <<stockVars, rowVars, status, infinite, moves, due>>

(* The ids whose time is over; and the query with its comparison reversed. *)
ExpiredReversed == {r \in Reservations : status[r] = "active" /\ ~elapsed[r]}
Expired == {r \in Reservations : status[r] = "active" /\ elapsed[r]}

(* release_expired_reservations: the query that selects the ids ...        *)
SweepSelect ==
  /\ due = {}
  /\ Expired # {}
  /\ due' = Expired
  /\ UNCHANGED <<stockVars, rowVars, status, infinite, elapsed, moves>>

(* ... and release_reservation on each, which looks at the row again.      *)
SweepRelease(r) ==
  /\ r \in due
  /\ due' = due \ {r}
  /\ \/ /\ status[r] = "active"
        /\ status' = [status EXCEPT ![r] = "released"]
        /\ moves' = Recorded({r}, "release")
     \/ /\ status[r] # "active"
        /\ UNCHANGED <<status, moves>>
  /\ UNCHANGED <<stockVars, rowVars, infinite, elapsed>>

Next ==
  \/ \E r \in Reservations : \E q \in 1..MaxQuantity : Reserve(r, q)
  \/ \E r \in Reservations :
       ConsumeLapsed(r) \/ Consume(r) \/ Release(r) \/ Restock(r) \/ Elapse(r)
  \/ \E v \in Variants : SetInfinite(v)
  \/ \E v \in Variants, t \in Targets : Adjust(v, t)
  \/ SweepSelect
  \/ \E r \in Reservations : SweepRelease(r)

Spec == Init /\ [][Next]_vars

(* Celery beat enqueues the release task every minute and a worker runs it *)
(* to its end; customers and staff owe nothing.                            *)
Fairness ==
  /\ WF_vars(SweepSelect)
  /\ \A r \in Reservations : WF_vars(SweepRelease(r))

FairSpec == Spec /\ Fairness
-----------------------------------------------------------------------------
(* The fields hold what their columns can hold.                            *)
TypeOK ==
  /\ on_hand \in [Variants -> Nat]
  /\ infinite \in [Variants -> BOOLEAN]
  /\ status \in [Reservations -> Status]
  /\ quantity \in [Reservations -> 0..MaxQuantity]
  /\ tracks \in [Reservations -> BOOLEAN]
  /\ elapsed \in [Reservations -> BOOLEAN]
  /\ moves \in [Reservations -> [Kinds -> Nat]]
  /\ ledger \in [Variants -> Int]
  /\ due \subseteq Reservations

(* Every change of on_hand has its movement row: the stock of a variant is *)
(* what it opened with plus the sum of its ledger, through sales, refunds  *)
(* and corrections in any order.                                           *)
LedgerBalances ==
  \A v \in Variants : on_hand[v] = OpeningStock[v] + ledger[v]

(* The movement rows of a reservation tell its life: one reservation row,  *)
(* then either one release or one sale, and refunds only after a sale, for *)
(* every interleaving of payment, cancellation, release task and new       *)
(* reservations that find it lapsed; none when stock was infinite.         *)
TrailTellsLife ==
  \A r \in Reservations :
    LET expected(b) == IF tracks[r] /\ b THEN 1 ELSE 0 IN
    /\ moves[r]["reservation"] = expected(status[r] # "none")
    /\ moves[r]["sale"] = expected(status[r] = "consumed")
    /\ moves[r]["release"] = expected(status[r] = "released")
    /\ moves[r]["refund"] > 0 => status[r] = "consumed"

(* What is reserved can be sold: no reservation, sale, release, restock,   *)
(* expiry or change of the infinite flag ever leaves the live reservations *)
(* of a variant without the stock to serve them.  Only a stock correction  *)
(* can (adjust_inventory does not look at reservations).                   *)
Covered(v) == Reserved(v) <= on_hand[v]
Corrected(v) == \E t \in Targets : Adjust(v, t)
ReservedStaysCovered ==
  [][\A v \in Variants : Covered(v) /\ ~Corrected(v) => Covered(v)']_vars

(* A reservation whose time is over does not stay active: the release task *)
(* gets to it even if no payment or new reservation does.                  *)
ElapsedIsReleased ==
  \A r \in Reservations :
    (status[r] = "active" /\ elapsed[r]) ~> status[r] # "active"

(* What the reservations promise, without rows, clock or release task:     *)
(* StockPromise.  An elapsed hold is given back the moment its time is     *)
(* over, although its row still says "active" until somebody visits it, so *)
(* releasing it later changes nothing a buyer can see.                     *)
Free == [v \in Variants |-> on_hand[v] - Reserved(v)]
Amount == [r \in Reservations |-> IF tracks[r] THEN quantity[r] ELSE 0]
ClaimOf(r) ==
  CASE status[r] = "none" -> "none"
    [] status[r] = "active" /\ ~elapsed[r] -> "held"
    [] status[r] = "consumed" -> "sold"
    [] OTHER -> "dropped"
Claim == [r \in Reservations |-> ClaimOf(r)]

Promise == INSTANCE StockPromise WITH
  Claims <- Reservations, VariantOfClaim <- VariantOf, Opening <- OpeningStock,
  free <- Free, amount <- Amount, claim <- Claim
KeepsPromise == Promise!Spec

(* "Infinite stock is never decremented or restored" (PRODUCT.md): while a *)
(* variant is infinite only a correction changes its on_hand.  The code    *)
(* keeps the variant's setting at the time of the reservation instead, so  *)
(* a variant made infinite while one is held is decremented by its sale.   *)
InfiniteStockStands ==
  [][\A v \in Variants :
       infinite[v] /\ ~Corrected(v) => on_hand'[v] = on_hand[v]]_vars
=============================================================================
