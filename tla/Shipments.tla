----------------------------- MODULE Shipments -----------------------------
(***************************************************************************)
(* The shipment of one order (commerce/shipping.py): its parcels are       *)
(* imported at the carrier one by one, each with a record made beforehand, *)
(* and then tracked.                                                       *)
(*                                                                         *)
(* create_order_shipment and refresh_shipment_tracking are called by the   *)
(* resume and tracking tasks and by the API, where every step of a call is *)
(* a transaction of its own, and by the management panel, where            *)
(* perform_order_admin_action makes the whole call one transaction: it     *)
(* keeps its locks and a failure undoes all of it, except at the carrier.  *)
(***************************************************************************)
EXTENDS Integers, FiniteSets

CONSTANTS
  NumParcels,  \* parcels of the order's quote
  Requests,    \* callers that commit each step: tasks and the API
  Panel,       \* callers of perform_order_admin_action
  MaxFaults,   \* bound: lost answers, provider errors and crashes
  None         \* no transaction is open

ASSUME ShipmentsAssumption ==
  /\ NumParcels \in Nat \ {0}
  /\ MaxFaults \in Nat
  /\ Requests \cap Panel = {}
  /\ None \notin Requests \cup Panel

Parcels == 1..NumParcels
Callers == Requests \cup Panel

VARIABLES
  eligible,  \* _shipment_eligible: verified, paid, not fulfilled, quoted
  shipment,  \* Shipment.status; "none" without a row
  parcel,    \* ShipmentParcelImport rows
  aged,      \* 24 hours since the rows were created
  orders,    \* idempotency keys the carrier has accepted, by parcel
  verdict,   \* the carrier's own state of a parcel's order
  journey,   \* the last tracking event the carrier publishes
  call,      \* where each caller is
  undo,      \* what the panel's transaction would restore
  faults     \* faults so far

orderVars == <<eligible, aged>>
carrierVars == <<orders, verdict>>
shipVars == <<eligible, shipment, parcel, aged, orders, verdict, journey, call,
              undo, faults>>

Words == {"in_transit", "delivered"}
Unfinished == {"importing", "rejected", "attention_required"}
ShipmentStatus == {"none", "imported"} \cup Unfinished \cup Words
ParcelStatus == {"none", "pending", "submitted", "imported", "rejected",
                 "attention_required"}
Verdicts == {"undecided", "created", "rejected"}

(* The key of a parcel's record is derived (uuid5) from the order and the  *)
(* parcel; a drawn one (uuid4) would be its creator's.                     *)
RowKeyDrawn(c) == c
RowKey(c) == None
NoRow == [status |-> "none", key |-> None, waits |-> FALSE]

Idle == [step |-> "idle", at |-> 1, force |-> FALSE, track |-> FALSE, seen |-> "none"]
At(c, step) == call[c].step = step
Nothing == [by |-> None, shipment |-> "none", parcels |-> {}, parcel |-> [p \in Parcels |-> NoRow]]

-----------------------------------------------------------------------------
(* What other transactions see while the panel's is open.                  *)
SeenShipment == IF undo.by = None THEN shipment ELSE undo.shipment
SeenParcel(p) == IF p \in undo.parcels THEN undo.parcel[p] ELSE parcel[p]

MayLockOrder(c) == undo.by \in {None, c}
MayLockParcel(c, p) == undo.by = c \/ p \notin undo.parcels

(* The panel's transaction begins with its first lock; a row it changes is *)
(* remembered once.                                                        *)
Opened(c) ==
  IF c \in Panel /\ undo.by = None
  THEN [Nothing EXCEPT !.by = c, !.shipment = shipment, !.parcel = parcel]
  ELSE undo
Touched(c, ps) ==
  LET u == Opened(c) IN
  IF c \notin Panel THEN u
  ELSE [u EXCEPT !.parcels = @ \cup ps,
                 !.parcel = [p \in Parcels |-> IF p \in ps \ u.parcels THEN parcel[p] ELSE u.parcel[p]]]

Return(c) ==
  /\ call' = [call EXCEPT ![c] = Idle]
  /\ undo' = IF undo.by = c THEN Nothing ELSE undo

(* An exception or a crash: committed steps stay, the panel's do not.      *)
Abort(c) ==
  /\ faults < MaxFaults
  /\ faults' = faults + 1
  /\ shipment' = IF undo.by = c THEN undo.shipment ELSE shipment
  /\ parcel' = IF undo.by = c THEN [p \in Parcels |-> SeenParcel(p)] ELSE parcel
  /\ Return(c)

-----------------------------------------------------------------------------
ShipInit ==
  /\ eligible = TRUE /\ aged = FALSE /\ faults = 0
  /\ shipment = "none"
  /\ parcel = [p \in Parcels |-> NoRow]
  /\ orders = [p \in Parcels |-> {}]
  /\ verdict = [p \in Parcels |-> "undecided"]
  /\ journey = "none"
  /\ call = [c \in Callers |-> Idle]
  /\ undo = Nothing

(* create_order_shipment is called without force_poll; the resume task     *)
(* does so for the shipments it lists as importing.                        *)
Create(c) ==
  /\ At(c, "idle")
  /\ call' = [call EXCEPT ![c].step = "prepare"]
  /\ UNCHANGED <<orderVars, shipment, parcel, carrierVars, journey, undo, faults>>

Resume(c) == c \in Requests /\ SeenShipment = "importing" /\ Create(c)

(* refresh_shipment_tracking decides on the shipment its caller has read;  *)
(* the tracking task reads those past their import.                        *)
Refresh(c) ==
  /\ At(c, "idle")
  /\ SeenShipment \notin {"none", "rejected"}
  /\ call' = [call EXCEPT ![c] =
       IF SeenShipment \in {"importing", "attention_required"}
       THEN [Idle EXCEPT !.step = "prepare", !.force = TRUE, !.track = TRUE]
       ELSE [Idle EXCEPT !.step = "fetch", !.seen = SeenShipment]]
  /\ UNCHANGED <<orderVars, shipment, parcel, carrierVars, journey, undo, faults>>

(* _prepare_shipment: under the order's lock, the shipment and all its     *)
(* import records are made together.                                       *)
AlreadyImported(c) ==
  /\ At(c, "prepare") /\ MayLockOrder(c)
  /\ shipment = "imported"
  /\ IF call[c].track
     THEN /\ call' = [call EXCEPT ![c].step = "fetch", ![c].seen = "imported"]
          /\ undo' = Opened(c)
     ELSE Return(c)
  /\ UNCHANGED <<orderVars, shipment, parcel, carrierVars, journey, faults>>

NotEligible(c) ==
  /\ At(c, "prepare") /\ MayLockOrder(c)
  /\ shipment # "imported" /\ ~eligible
  /\ Return(c)
  /\ UNCHANGED <<orderVars, shipment, parcel, carrierVars, journey, faults>>

Prepare(c) ==
  /\ At(c, "prepare") /\ MayLockOrder(c)
  /\ shipment # "imported" /\ eligible
  /\ IF shipment = "none"
     THEN /\ shipment' = "importing"
          /\ parcel' = [p \in Parcels |-> [status |-> "pending", key |-> RowKey(c), waits |-> FALSE]]
          /\ undo' = Touched(c, Parcels)
     ELSE undo' = Opened(c) /\ UNCHANGED <<shipment, parcel>>
  /\ call' = [call EXCEPT ![c].step = "visit"]
  /\ UNCHANGED <<orderVars, carrierVars, journey, faults>>

(* _import_parcel, one call per record and in order, under its lock.       *)
Visits(c) == At(c, "visit") /\ MayLockParcel(c, call[c].at)
GoOn(c) ==
  IF call[c].at < NumParcels THEN call' = [call EXCEPT ![c].at = @ + 1]
                             ELSE call' = [call EXCEPT ![c].step = "finish"]

Settled == {"imported", "rejected"}
Asked == {"submitted", "attention_required"}

(* _apply_parcel_response on what the carrier says of its order.           *)
Answer(v) == CASE v = "created" -> "imported"
               [] v = "rejected" -> "rejected"
               [] v = "undecided" -> "submitted"
Applied(row, v) == [row EXCEPT !.status = Answer(v), !.waits = Answer(v) = "submitted"]

SkipParcel(c) ==
  LET p == call[c].at IN
  /\ Visits(c)
  /\ \/ parcel[p].status \in Settled
     \/ parcel[p].status \in Asked /\ ~call[c].force /\ ~aged /\ parcel[p].waits
  /\ GoOn(c)
  /\ UNCHANGED <<orderVars, shipment, parcel, carrierVars, journey, undo, faults>>

(* After a day only staff keep asking; the other form never gives up.      *)
OutOfTimeNever(c) == FALSE
OutOfTime(c) == aged /\ ~call[c].force

GiveUpParcel(c) ==
  LET p == call[c].at IN
  /\ Visits(c)
  /\ parcel[p].status \in Asked /\ OutOfTime(c)
  /\ parcel' = [parcel EXCEPT ![p].status = "attention_required", ![p].waits = FALSE]
  /\ undo' = Touched(c, {p})
  /\ GoOn(c)
  /\ UNCHANGED <<orderVars, shipment, carrierVars, journey, faults>>

MayPoll(c) ==
  LET p == call[c].at IN
  /\ Visits(c)
  /\ parcel[p].status \in Asked
  /\ ~OutOfTime(c)
  /\ call[c].force \/ ~parcel[p].waits

PollParcel(c) ==
  LET p == call[c].at IN
  /\ MayPoll(c)
  /\ parcel' = [parcel EXCEPT ![p] = Applied(@, verdict[p])]
  /\ undo' = Touched(c, {p})
  /\ GoOn(c)
  /\ UNCHANGED <<orderVars, shipment, carrierVars, journey, faults>>

(* A poll that fails is recorded before the error ends the call; in the    *)
(* panel the error takes the record with it.                               *)
PollFails(c) ==
  /\ MayPoll(c) /\ c \in Requests
  /\ faults < MaxFaults
  /\ faults' = faults + 1
  /\ parcel' = [parcel EXCEPT ![call[c].at].waits = TRUE]
  /\ Return(c)
  /\ UNCHANGED <<orderVars, shipment, carrierVars, journey>>

(* The carrier creates one order for each key.                             *)
Accept(p, key) ==
  /\ orders' = [orders EXCEPT ![p] = @ \cup {key}]
  /\ IF orders[p] = {} THEN \E v \in Verdicts : verdict' = [verdict EXCEPT ![p] = v]
                       ELSE UNCHANGED verdict

ImportParcel(c) ==
  LET p == call[c].at IN
  /\ Visits(c)
  /\ parcel[p].status = "pending"
  /\ Accept(p, parcel[p].key)
  /\ parcel' = [parcel EXCEPT ![p] = Applied(@, verdict'[p])]
  /\ undo' = Touched(c, {p})
  /\ GoOn(c)
  /\ UNCHANGED <<orderVars, shipment, journey, faults>>

(* The carrier has the order and the caller never learns.                  *)
ImportIsLost(c) ==
  LET p == call[c].at IN
  /\ Visits(c)
  /\ parcel[p].status = "pending"
  /\ Accept(p, parcel[p].key)
  /\ Abort(c)
  /\ UNCHANGED <<orderVars, journey>>

(* The shipment's status follows its parcels; the other form takes that    *)
(* of the first, whose tracking number it takes too.                       *)
StatusOfFirst(rows) == rows[1].status
StatusOf(rows) ==
  LET some(status) == \E p \in Parcels : rows[p].status = status IN
  CASE \A p \in Parcels : rows[p].status = "imported" -> "imported"
    [] some("rejected") -> "rejected"
    [] ~some("rejected") /\ some("attention_required") -> "attention_required"
    [] OTHER -> "importing"

Finish(c) ==
  /\ At(c, "finish") /\ MayLockOrder(c)
  /\ shipment' = StatusOf(parcel)
  /\ IF call[c].track /\ shipment' = "imported"
     THEN /\ call' = [call EXCEPT ![c].step = "fetch", ![c].seen = "imported"]
          /\ UNCHANGED undo
     ELSE Return(c)
  /\ UNCHANGED <<orderVars, parcel, carrierVars, journey, faults>>

(* Tracking is fetched without a lock; without an event the status the     *)
(* caller has read is saved again.                                         *)
FetchTracking(c) ==
  /\ At(c, "fetch")
  /\ call' = [call EXCEPT ![c].step = "save",
                          ![c].seen = IF journey = "none" THEN @ ELSE journey]
  /\ UNCHANGED <<orderVars, shipment, parcel, carrierVars, journey, undo, faults>>

SaveTracking(c) ==
  /\ At(c, "save") /\ MayLockOrder(c)
  /\ shipment' = call[c].seen
  /\ Return(c)
  /\ UNCHANGED <<orderVars, parcel, carrierVars, journey, faults>>

Stop(c) ==
  /\ ~At(c, "idle")
  /\ Abort(c)
  /\ UNCHANGED <<orderVars, carrierVars, journey>>

(* The carrier works on the orders it has; time passes; the order is       *)
(* refunded, or its fulfilment begins.                                     *)
CarrierDecides(p) ==
  /\ orders[p] # {} /\ verdict[p] = "undecided"
  /\ \E v \in {"created", "rejected"} : verdict' = [verdict EXCEPT ![p] = v]
  /\ UNCHANGED <<orderVars, shipment, parcel, orders, journey, call, undo, faults>>

CarrierMoves ==
  /\ \A p \in Parcels : verdict[p] = "created"
  /\ \/ journey = "none" /\ journey' = "in_transit"
     \/ journey = "in_transit" /\ journey' = "delivered"
  /\ UNCHANGED <<orderVars, shipment, parcel, carrierVars, call, undo, faults>>

PollIsDue(p) ==
  /\ p \notin undo.parcels /\ parcel[p].waits
  /\ parcel' = [parcel EXCEPT ![p].waits = FALSE]
  /\ UNCHANGED <<orderVars, shipment, carrierVars, journey, call, undo, faults>>

Age ==
  /\ ~aged /\ SeenShipment # "none"
  /\ aged' = TRUE
  /\ UNCHANGED <<eligible, shipment, parcel, carrierVars, journey, call, undo, faults>>

OrderChanges ==
  /\ eligible /\ undo.by = None
  /\ eligible' = FALSE
  /\ UNCHANGED <<aged, shipment, parcel, carrierVars, journey, call, undo, faults>>

Work(c) ==
  \/ AlreadyImported(c) \/ NotEligible(c) \/ Prepare(c)
  \/ SkipParcel(c) \/ GiveUpParcel(c) \/ PollParcel(c) \/ ImportParcel(c)
  \/ Finish(c) \/ FetchTracking(c) \/ SaveTracking(c)

ShipNext ==
  \/ \E c \in Callers :
       \/ Create(c) \/ Refresh(c) \/ Work(c)
       \/ PollFails(c) \/ ImportIsLost(c) \/ Stop(c)
  \/ \E p \in Parcels : CarrierDecides(p) \/ PollIsDue(p)
  \/ CarrierMoves \/ Age \/ OrderChanges

ShipSpec == ShipInit /\ [][ShipNext]_shipVars

(* The resume task runs every minute; calls run to their end; time passes. *)
(* The carrier is not promised to decide.                                  *)
ShipFairness ==
  /\ \A c \in Requests : SF_shipVars(Resume(c))
  /\ \A c \in Callers : SF_shipVars(Work(c))
  /\ \A p \in Parcels : WF_shipVars(PollIsDue(p))
  /\ WF_shipVars(Age)

ShipFairSpec == ShipSpec /\ ShipFairness

-----------------------------------------------------------------------------
ShipTypeOK ==
  /\ eligible \in BOOLEAN /\ aged \in BOOLEAN
  /\ shipment \in ShipmentStatus
  /\ parcel \in [Parcels -> [status : ParcelStatus, key : Callers \cup {None}, waits : BOOLEAN]]
  /\ orders \in [Parcels -> SUBSET (Callers \cup {None})]
  /\ verdict \in [Parcels -> Verdicts]
  /\ journey \in {"none"} \cup Words
  /\ call \in [Callers -> [step : {"idle", "prepare", "visit", "finish", "fetch", "save"},
                           at : Parcels, force : BOOLEAN, track : BOOLEAN,
                           seen : ShipmentStatus]]
  /\ undo.by \in Panel \cup {None} /\ undo.shipment \in ShipmentStatus
  /\ undo.parcels \subseteq Parcels
  /\ faults \in 0..MaxFaults

(* Whatever callers overlap, fail or are undone, a shipment that counts as *)
(* imported or on its way has every parcel imported (shipping.py:1105, and *)
(* 1153 where a status read earlier is saved without a lock).              *)
ImportedIsWhole ==
  SeenShipment \in {"imported"} \cup Words =>
    \A p \in Parcels : SeenParcel(p).status = "imported"

(* A parcel is imported again after a lost answer, a crash or an undone    *)
(* transaction that took its record, and the carrier still has one order   *)
(* for it (shipping.py:943, 960: keys are derived, not drawn).             *)
OneCarrierOrder == \A p \in Parcels : Cardinality(orders[p]) <= 1

(* A shipment does not stay importing while its order may be shipped, even *)
(* if the carrier never decides: the resume task imports, asks, and after  *)
(* a day calls for attention (tasks.py:139, shipping.py:1039).  It takes   *)
(* that staff at some time stop refreshing it by hand: a forced poll puts  *)
(* a parcel that needed attention back to submitted.                       *)
ImportingIsSettled ==
  <>[](\A c \in Callers : ~call[c].force) =>
    (SeenShipment = "importing" /\ eligible) ~> (SeenShipment # "importing" \/ ~eligible)
=============================================================================
