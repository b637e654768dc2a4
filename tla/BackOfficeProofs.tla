-------------------------- MODULE BackOfficeProofs --------------------------
(***************************************************************************)
(* What a shipment's status says of its parcels and the carrier's orders of*)
(* each, why an authorisation of Mercado Pago is used once, and the types  *)
(* of these and of the conversions: for any number of parcels, callers,    *)
(* states, accounts, orders and sessions.                                  *)
(***************************************************************************)
EXTENDS MCBackOffice, FiniteSetTheorems, TLAPS

Row == [status : ParcelStatus, key : Callers \cup {None}, waits : BOOLEAN]
Complete == {"imported"} \cup Words

(* The rows, what the panel's transaction would restore, and the callers.  *)
RowsTypeOK ==
  /\ shipment \in ShipmentStatus
  /\ parcel \in [Parcels -> Row]
  /\ undo \in [by : Panel \cup {None}, shipment : ShipmentStatus, parcels : SUBSET Parcels,
               parcel : [Parcels -> Row]]
  /\ verdict \in [Parcels -> Verdicts]
  /\ journey \in {"none"} \cup Words
CallsTypeOK ==
  call \in [Callers -> [step : {"idle", "prepare", "visit", "finish", "fetch", "save"},
                        at : Parcels, force : BOOLEAN, track : BOOLEAN, seen : ShipmentStatus]]

(* A transaction's rows were not imported when it changed them.            *)
UndoIsOfTheOpen ==
  /\ undo.by = None => undo.parcels = {}
  /\ \A p \in undo.parcels : undo.parcel[p].status # "imported"

(* No shipment, no import records: now and in what others see.             *)
RowsComeTogether ==
  /\ shipment = "none" => \A p \in Parcels : parcel[p].status = "none"
  /\ SeenShipment = "none" => \A p \in Parcels : SeenParcel(p).status = "none"

(* A complete shipment has its parcels: now and in what others see.        *)
CompleteIsWhole ==
  /\ shipment \in Complete => \A p \in Parcels : parcel[p].status = "imported"
  /\ SeenShipment \in Complete => \A p \in Parcels : SeenParcel(p).status = "imported"

(* Where a caller is tells what it has found.  The caller whose            *)
(* transaction is open sees the rows, the others what was committed.       *)
CallsKnow ==
  \A c \in Callers :
    /\ call[c].step \in {"visit", "finish", "fetch", "save"} =>
         /\ shipment # "none"
         /\ undo.by # c => SeenShipment # "none"
    /\ call[c].step \in {"fetch", "save"} =>
         /\ call[c].seen \in Complete
         /\ \A p \in Parcels : parcel[p].status = "imported"
         /\ undo.by # c => \A p \in Parcels : SeenParcel(p).status = "imported"
    /\ c \in Panel /\ call[c].step \in {"visit", "finish"} => undo.by = c
    /\ undo.by = c => call[c].step \in {"visit", "finish", "fetch", "save"}

RowsInv ==
  RowsTypeOK /\ CallsTypeOK /\ UndoIsOfTheOpen /\ RowsComeTogether /\ CompleteIsWhole /\ CallsKnow

-----------------------------------------------------------------------------
(* What remembering some rows does.                                        *)
LEMMA TouchedRemembers ==
  ASSUME ShipmentsAssumption, RowsTypeOK, UndoIsOfTheOpen, NEW c \in Callers, NEW ps \in SUBSET Parcels,
         c \in Panel => undo.by \in {None, c}
  PROVE  LET u == Touched(c, ps) IN
         /\ u \in [by : Panel \cup {None}, shipment : ShipmentStatus, parcels : SUBSET Parcels,
                   parcel : [Parcels -> Row]]
         /\ c \notin Panel => u = undo
         /\ c \in Panel =>
              /\ u.by = c /\ u.shipment = SeenShipment
              /\ u.parcels = undo.parcels \cup ps
              /\ \A p \in undo.parcels : u.parcel[p] = undo.parcel[p]
              /\ \A p \in ps \ undo.parcels : u.parcel[p] = parcel[p]
<1>1. CASE c \notin Panel
  BY <1>1 DEF Touched, Opened, RowsTypeOK, ShipmentsAssumption, Callers
<1>2. CASE c \in Panel
  <2> DEFINE o == Opened(c)
  <2>1. /\ o \in [by : Panel \cup {None}, shipment : ShipmentStatus, parcels : SUBSET Parcels,
                  parcel : [Parcels -> Row]]
        /\ o.by = c /\ o.shipment = SeenShipment /\ o.parcels = undo.parcels
        /\ \A p \in undo.parcels : o.parcel[p] = undo.parcel[p]
    <3>1. CASE undo.by = None
      BY <1>2, <3>1 DEF Opened, Nothing, RowsTypeOK, UndoIsOfTheOpen, SeenShipment
    <3>2. CASE undo.by = c
      BY <1>2, <3>2 DEF Opened, RowsTypeOK, SeenShipment, ShipmentsAssumption
    <3> QED BY <1>2, <3>1, <3>2
  <2> DEFINE kept == [p \in Parcels |-> IF p \in ps \ o.parcels THEN parcel[p] ELSE o.parcel[p]]
  <2>2. Touched(c, ps) = [o EXCEPT !.parcels = @ \cup ps, !.parcel = kept]
    BY <1>2 DEF Touched
  <2> HIDE DEF o
  <2>3. kept \in [Parcels -> Row]
    BY <2>1 DEF RowsTypeOK
  <2> HIDE DEF kept
  <2>4. /\ Touched(c, ps) \in [by : Panel \cup {None}, shipment : ShipmentStatus,
                               parcels : SUBSET Parcels, parcel : [Parcels -> Row]]
        /\ Touched(c, ps).by = o.by /\ Touched(c, ps).shipment = o.shipment
        /\ Touched(c, ps).parcels = o.parcels \cup ps /\ Touched(c, ps).parcel = kept
    BY <2>1, <2>2, <2>3
  <2>5. /\ \A p \in undo.parcels : kept[p] = undo.parcel[p]
        /\ \A p \in ps \ undo.parcels : kept[p] = parcel[p]
    BY <2>1 DEF kept, RowsTypeOK
  <2> QED BY <1>2, <2>1, <2>4, <2>5
<1> QED BY <1>1, <1>2

(* Calls keep their types: a parcel after the last one is never visited.   *)
LEMMA CallsTypeStays == CallsTypeOK /\ RowsTypeOK /\ [ShipNext]_shipVars => CallsTypeOK'
<1> SUFFICES ASSUME CallsTypeOK, RowsTypeOK, [ShipNext]_shipVars PROVE CallsTypeOK'
  OBVIOUS
<1> DEFINE CallRow == [step : {"idle", "prepare", "visit", "finish", "fetch", "save"},
                    at : Parcels, force : BOOLEAN, track : BOOLEAN, seen : ShipmentStatus]
<1> USE ShipmentsAssumption DEF CallsTypeOK, Parcels, ShipmentStatus, Unfinished, Words
<1>1. ASSUME NEW c \in Callers, NEW row \in CallRow, call' = [call EXCEPT ![c] = row]
      PROVE  CallsTypeOK'
  BY <1>1
<1>2. Idle \in CallRow
  BY DEF Idle
<1>3. ASSUME NEW c \in Callers, Return(c) PROVE CallsTypeOK'
  BY <1>1, <1>2, <1>3 DEF Return
<1>4. ASSUME NEW c \in Callers, GoOn(c) PROVE CallsTypeOK'
  BY <1>4 DEF GoOn
<1>5. ASSUME NEW c \in Callers, Create(c) \/ FetchTracking(c) PROVE CallsTypeOK'
  <2>1. CASE Create(c)
    BY <2>1 DEF Create
  <2>2. CASE FetchTracking(c)
    <3> DEFINE found == IF journey = "none" THEN call[c].seen ELSE journey
    <3>1. found \in ShipmentStatus
      BY DEF RowsTypeOK
    <3>2. call' = [call EXCEPT ![c].step = "save", ![c].seen = found]
      BY <2>2, Zenon DEF FetchTracking
    <3> HIDE DEF found
    <3>3. call[c] \in CallRow
      OBVIOUS
    <3>4. [call[c] EXCEPT !.step = "save", !.seen = found] \in CallRow
      BY <3>1, <3>3
    <3>5. call' = [call EXCEPT ![c] = [call[c] EXCEPT !.step = "save", !.seen = found]]
      BY <3>2
    <3> QED BY <1>1, <3>4, <3>5, Zenon
  <2> QED BY <1>5, <2>1, <2>2
<1>6. ASSUME NEW c \in Callers, Refresh(c) PROVE CallsTypeOK'
  <2>1. SeenShipment \in ShipmentStatus
    BY DEF SeenShipment, RowsTypeOK
  <2>2. /\ [Idle EXCEPT !.step = "prepare", !.force = TRUE, !.track = TRUE] \in CallRow
        /\ [Idle EXCEPT !.step = "fetch", !.seen = SeenShipment] \in CallRow
    BY <1>2, <2>1
  <2> QED BY <1>1, <1>6, <2>2 DEF Refresh
<1>7. ASSUME NEW c \in Callers, AlreadyImported(c) \/ Prepare(c) \/ Finish(c) PROVE CallsTypeOK'
  BY <1>3, <1>7 DEF AlreadyImported, Prepare, Finish
<1>8. ASSUME NEW c \in Callers,
             NotEligible(c) \/ SaveTracking(c) \/ PollFails(c) \/ ImportIsLost(c) \/ Stop(c)
      PROVE  CallsTypeOK'
  BY <1>3, <1>8 DEF NotEligible, SaveTracking, PollFails, ImportIsLost, Stop, Abort
<1>9. ASSUME NEW c \in Callers, SkipParcel(c) \/ GiveUpParcel(c) \/ PollParcel(c) \/ ImportParcel(c)
      PROVE  CallsTypeOK'
  BY <1>4, <1>9 DEF SkipParcel, GiveUpParcel, PollParcel, ImportParcel
<1>10. ASSUME UNCHANGED call PROVE CallsTypeOK'
  BY <1>10
<1> QED
  BY <1>5, <1>6, <1>7, <1>8, <1>9, <1>10
     DEF ShipNext, Work, shipVars, CarrierDecides, PollIsDue, CarrierMoves, Age, OrderChanges

(* A row whose status is written is a row, ...                             *)
LEMMA WrittenIsRow ==
  ASSUME NEW row \in Row, NEW word \in ParcelStatus, NEW waits \in BOOLEAN
  PROVE  LET new == [row EXCEPT !.status = word, !.waits = waits] IN
         new \in Row /\ new.key = row.key /\ new.status = word
BY DEF Row

(* ... as the one that the carrier has answered for.                       *)
LEMMA AppliedIsRow ==
  ASSUME NEW row \in Row, NEW v \in Verdicts
  PROVE  /\ Applied(row, v) \in Row
         /\ Applied(row, v).key = row.key /\ Applied(row, v).status # "none"
<1>1. Answer(v) \in ParcelStatus /\ Answer(v) # "none"
  BY DEF Answer, Verdicts, ParcelStatus
<1>2. (Answer(v) = "submitted") \in BOOLEAN
  OBVIOUS
<1> QED BY <1>1, <1>2, WrittenIsRow DEF Applied

(* What a step that changes the row of the parcel a caller visits does.    *)
LEMMA RowChange ==
  ASSUME ShipmentsAssumption, RowsTypeOK, CallsTypeOK, NEW c \in Callers, Visits(c),
         GiveUpParcel(c) \/ PollParcel(c) \/ ImportParcel(c)
  PROVE  LET p == call[c].at IN
         /\ parcel[p].status \notin {"none", "imported"}
         /\ verdict' \in [Parcels -> Verdicts]
         /\ parcel' \in [Parcels -> Row]
         /\ \A q \in Parcels \ {p} : parcel'[q] = parcel[q]
         /\ parcel'[p].status # "none"
         /\ undo' = Touched(c, {p})
         /\ UNCHANGED <<shipment, journey>> /\ GoOn(c)
<1> DEFINE p == call[c].at
<1> USE DEF RowsTypeOK
<1>0. p \in Parcels
  BY DEF CallsTypeOK
<1>1. CASE GiveUpParcel(c)
  <2> DEFINE new == [parcel[p] EXCEPT !.status = "attention_required", !.waits = FALSE]
  <2>1. new \in Row /\ new.status = "attention_required"
    BY <1>0, WrittenIsRow DEF ParcelStatus
  <2>2. parcel' = [parcel EXCEPT ![p] = new]
    BY <1>1 DEF GiveUpParcel
  <2> HIDE DEF new
  <2> QED BY <1>0, <1>1, <2>1, <2>2 DEF GiveUpParcel, Asked, carrierVars
<1>2. CASE PollParcel(c)
  BY <1>0, <1>2, AppliedIsRow DEF PollParcel, MayPoll, Asked, carrierVars
<1>3. CASE ImportParcel(c)
  <2>1. verdict' \in [Parcels -> Verdicts]
    BY <1>0, <1>3 DEF ImportParcel, Accept
  <2>2. parcel' = [parcel EXCEPT ![p] = Applied(parcel[p], verdict'[p])]
    BY <1>3 DEF ImportParcel
  <2>3. verdict'[p] \in Verdicts /\ parcel[p] \in Row
    BY <1>0, <2>1
  <2> DEFINE new == Applied(parcel[p], verdict'[p])
  <2>4. new \in Row /\ new.status # "none"
    BY <2>3, AppliedIsRow
  <2> HIDE DEF new
  <2> QED BY <1>0, <1>3, <2>1, <2>2, <2>4 DEF ImportParcel, new
<1> QED BY <1>1, <1>2, <1>3

-----------------------------------------------------------------------------
(* A call that moves leaves the others where they are.                     *)
LEMMA OneCallMoves ==
  ASSUME CallsTypeOK, NEW c \in Callers, NEW row, call' = [call EXCEPT ![c] = row]
  PROVE  call'[c] = row /\ \A d \in Callers \ {c} : call'[d] = call[d]
BY DEF CallsTypeOK

LEMMA ReturnFrees ==
  ASSUME CallsTypeOK, NEW c \in Callers, Return(c)
  PROVE  /\ call'[c].step = "idle" /\ \A d \in Callers \ {c} : call'[d] = call[d]
         /\ undo.by = c => undo'.by = None /\ undo'.parcels = {}
         /\ undo.by # c => undo' = undo
BY DEF Return, CallsTypeOK, Idle, Nothing

LEMMA GoOnKeeps ==
  ASSUME CallsTypeOK, NEW c \in Callers, GoOn(c)
  PROVE  /\ call'[c].step \in {call[c].step, "finish"}
         /\ \A d \in Callers \ {c} : call'[d] = call[d]
BY DEF GoOn, CallsTypeOK

(* Others wait, or learn of what was committed.                            *)
LEMMA QuietStays ==
  ASSUME ShipmentsAssumption, RowsInv, CallsTypeOK', UNCHANGED <<shipment, parcel, undo>>,
         verdict' \in [Parcels -> Verdicts], journey' \in {"none"} \cup Words,
         CallsKnow'
  PROVE  RowsInv'
BY DEF RowsInv, RowsTypeOK, UndoIsOfTheOpen, RowsComeTogether, CompleteIsWhole, SeenShipment, SeenParcel

(* A call that ends, and commits the transaction it may have.              *)
LEMMA CommitStays ==
  ASSUME ShipmentsAssumption, RowsInv, CallsTypeOK', NEW c \in Callers, Return(c),
         MayLockOrder(c) \/ UNCHANGED shipment,
         UNCHANGED <<verdict, journey>>, shipment' \in ShipmentStatus,
         parcel' \in [Parcels -> Row],
         \A p \in Parcels : parcel'[p].status = parcel[p].status,
         shipment' = "none" => shipment = "none",
         shipment' \in Complete => \A p \in Parcels : parcel[p].status = "imported"
  PROVE  RowsInv'
<1> USE ShipmentsAssumption DEF RowsInv
<1> DEFINE Calls == \A d \in Callers \ {c} : call'[d] = call[d]
<1>1. /\ call'[c].step = "idle" /\ Calls
      /\ undo.by = c => undo'.by = None /\ undo'.parcels = {}
      /\ undo.by # c => undo' = undo
  BY ReturnFrees
<1>2. RowsTypeOK'
  BY DEF RowsTypeOK, Return, Nothing, NoRow, Row, ParcelStatus, Parcels, ShipmentStatus
<1>3. UndoIsOfTheOpen'
  BY <1>1 DEF UndoIsOfTheOpen
<1>4. undo'.by # c
  BY <1>1 DEF Callers
<1>5. CASE undo.by \in {None, c}
  <2>1. undo'.by = None /\ undo'.parcels = {}
    BY <1>1, <1>5 DEF UndoIsOfTheOpen
  <2>2. SeenShipment' = shipment' /\ \A p \in Parcels : SeenParcel(p)' = parcel'[p]
    BY <2>1 DEF SeenShipment, SeenParcel
  <2>3. RowsComeTogether' /\ CompleteIsWhole'
    BY <2>2 DEF RowsComeTogether, CompleteIsWhole
  <2>4. CallsKnow'
    BY <1>1, <2>1, <2>2 DEF CallsKnow, Callers
  <2> QED BY <1>2, <1>3, <2>3, <2>4
<1>6. CASE undo.by \notin {None, c}
  <2>1. undo' = undo /\ shipment' = shipment
    BY <1>1, <1>6 DEF MayLockOrder
  <2>2. SeenShipment' = SeenShipment
    BY <2>1 DEF SeenShipment
  <2>3. \A p \in Parcels : (SeenParcel(p).status)' = SeenParcel(p).status
    BY <2>1 DEF SeenParcel
  <2>4. RowsComeTogether' /\ CompleteIsWhole'
    BY <2>1, <2>2, <2>3 DEF RowsComeTogether, CompleteIsWhole
  <2>5. CallsKnow'
    <3>1. \A d \in Callers : d # c => call'[d] = call[d]
      BY <1>1
    <3> QED BY <1>1, <1>4, <2>1, <2>2, <2>3, <3>1 DEF CallsKnow
  <2> QED BY <1>2, <1>3, <2>4, <2>5
<1> QED BY <1>5, <1>6

(* A row that is not imported changes: nobody is past the import, and what *)
(* others see stays what they have seen.                                   *)
LEMMA RowChangeStays ==
  ASSUME ShipmentsAssumption, RowsInv, CallsTypeOK', NEW c \in Callers, Visits(c),
         GiveUpParcel(c) \/ PollParcel(c) \/ ImportParcel(c)
  PROVE  RowsInv'
<1> DEFINE p == call[c].at
<1> USE ShipmentsAssumption DEF RowsInv
<1>0. p \in Parcels
  BY DEF CallsTypeOK
<1>1. /\ parcel[p].status \notin {"none", "imported"}
      /\ verdict' \in [Parcels -> Verdicts]
      /\ parcel' \in [Parcels -> Row]
      /\ \A q \in Parcels \ {p} : parcel'[q] = parcel[q]
      /\ parcel'[p].status # "none"
      /\ undo' = Touched(c, {p})
      /\ UNCHANGED <<shipment, journey>> /\ GoOn(c)
  BY RowChange
<1>2. At(c, "visit") /\ (c \in Panel => undo.by = c) /\ shipment # "none"
      /\ (undo.by # c => SeenShipment # "none")
  BY DEF Visits, At, CallsKnow
<1>3. /\ undo' \in [by : Panel \cup {None}, shipment : ShipmentStatus, parcels : SUBSET Parcels,
                    parcel : [Parcels -> Row]]
      /\ c \notin Panel => undo' = undo
      /\ c \in Panel => /\ undo'.by = c /\ undo'.shipment = SeenShipment
                        /\ undo'.parcels = undo.parcels \cup {p}
                        /\ \A q \in undo.parcels : undo'.parcel[q] = undo.parcel[q]
                        /\ \A q \in {p} \ undo.parcels : undo'.parcel[q] = parcel[q]
  BY <1>0, <1>1, <1>2, TouchedRemembers
<1> HIDE DEF p
<1>4. undo'.by = undo.by /\ SeenShipment' = SeenShipment
  BY <1>1, <1>2, <1>3 DEF SeenShipment, Callers
<1>5. RowsTypeOK'
  BY <1>1, <1>3 DEF RowsTypeOK
<1>6. UndoIsOfTheOpen'
  BY <1>1, <1>2, <1>3, <1>4 DEF UndoIsOfTheOpen, Callers
<1>7. SeenParcel(p).status # "imported"
  BY <1>0, <1>1 DEF SeenParcel, UndoIsOfTheOpen
<1>8. shipment \notin Complete /\ SeenShipment \notin Complete
  BY <1>0, <1>1, <1>7 DEF CompleteIsWhole
<1>9. CompleteIsWhole'
  BY <1>1, <1>4, <1>8 DEF CompleteIsWhole
<1>10. RowsComeTogether'
  <2>1. CASE SeenShipment # "none"
    BY <1>1, <1>2, <1>4, <2>1 DEF RowsComeTogether
  <2>2. CASE SeenShipment = "none"
    <3>1. c \in Panel /\ undo.by = c
      BY <1>2, <2>2 DEF Callers, RowsTypeOK
    <3>2. \A q \in Parcels : SeenParcel(q)' = SeenParcel(q)
      BY <1>1, <1>3, <3>1 DEF SeenParcel
    <3> QED BY <1>1, <1>2, <2>2, <3>2 DEF RowsComeTogether
  <2> QED BY <2>1, <2>2
<1>11. CallsKnow'
  <2>1. /\ call'[c].step \in {"visit", "finish"}
        /\ \A d \in Callers \ {c} : call'[d] = call[d]
    BY <1>1, <1>2, GoOnKeeps DEF At
  <2>2. \A d \in Callers : call'[d].step \notin {"fetch", "save"}
    BY <1>0, <1>1, <2>1 DEF CallsKnow
  <2> QED BY <1>1, <1>2, <1>4, <2>1, <2>2 DEF CallsKnow
<1> QED BY <1>5, <1>6, <1>9, <1>10, <1>11

(* The shipment and its records are made: nobody has met them before.      *)
LEMMA PrepareStays ==
  ASSUME ShipmentsAssumption, RowsInv, CallsTypeOK', NEW c \in Callers, Prepare(c)
  PROVE  RowsInv'
<1> USE ShipmentsAssumption DEF RowsInv
<1>1. call[c].step = "prepare" /\ undo.by = None
  BY DEF Prepare, At, MayLockOrder, CallsKnow
<1>2. undo.parcels = {} /\ SeenShipment = shipment /\ \A p \in Parcels : SeenParcel(p) = parcel[p]
  BY <1>1 DEF UndoIsOfTheOpen, SeenShipment, SeenParcel
<1>3. call'[c].step = "visit" /\ \A d \in Callers \ {c} : call'[d] = call[d]
  BY DEF Prepare, CallsTypeOK
<1>4. CASE shipment = "none"
  <2>1. /\ shipment' = "importing" /\ undo' = Touched(c, Parcels)
        /\ \A p \in Parcels : parcel'[p] = [status |-> "pending", key |-> None, waits |-> FALSE]
        /\ parcel' \in [Parcels -> Row]
        /\ UNCHANGED <<verdict, journey>>
    <3> DEFINE new == [status |-> "pending", key |-> None, waits |-> FALSE]
    <3>1. shipment' = "importing" /\ undo' = Touched(c, Parcels) /\ parcel' = [p \in Parcels |-> new]
      BY <1>4, Zenon DEF Prepare, RowKey
    <3>2. new \in Row
      BY DEF Row, ParcelStatus
    <3>3. UNCHANGED <<verdict, journey>>
      BY DEF Prepare, carrierVars
    <3> HIDE DEF new
    <3>4. parcel' \in [Parcels -> Row] /\ \A p \in Parcels : parcel'[p] = new
      BY <3>1, <3>2
    <3> QED BY <3>1, <3>3, <3>4 DEF new
  <2>2. /\ undo' \in [by : Panel \cup {None}, shipment : ShipmentStatus, parcels : SUBSET Parcels,
                      parcel : [Parcels -> Row]]
        /\ c \notin Panel => undo' = undo
        /\ c \in Panel => /\ undo'.by = c /\ undo'.shipment = "none" /\ undo'.parcels = Parcels
                          /\ \A p \in Parcels : undo'.parcel[p] = parcel[p]
    BY <1>1, <1>2, <1>4, <2>1, TouchedRemembers
  <2>3. \A p \in Parcels : parcel[p].status = "none"
    BY <1>4 DEF RowsComeTogether
  <2>4. RowsTypeOK'
    BY <2>1, <2>2 DEF RowsTypeOK, ShipmentStatus, Unfinished
  <2>5. UndoIsOfTheOpen'
    BY <1>1, <1>2, <2>2, <2>3 DEF UndoIsOfTheOpen, Callers
  <2>6. CASE c \notin Panel
    <3>1. undo' = undo /\ SeenShipment' = "importing"
      BY <1>1, <2>1, <2>2, <2>6 DEF SeenShipment
    <3>2. RowsComeTogether' /\ CompleteIsWhole'
      BY <2>1, <3>1 DEF RowsComeTogether, CompleteIsWhole, Complete, Words
    <3>3. \A d \in Callers \ {c} : call'[d].step \notin {"visit", "finish", "fetch", "save"}
      BY <1>2, <1>3, <1>4 DEF CallsKnow
    <3>4. CallsKnow'
      BY <1>1, <1>3, <2>1, <2>6, <3>1, <3>3 DEF CallsKnow, Callers
    <3> QED BY <2>4, <2>5, <3>2, <3>4
  <2>7. CASE c \in Panel
    <3>1. undo'.by = c /\ SeenShipment' = "none" /\ \A p \in Parcels : SeenParcel(p)' = parcel[p]
      BY <2>2, <2>7 DEF SeenShipment, SeenParcel
    <3>2. RowsComeTogether' /\ CompleteIsWhole'
      BY <2>1, <2>3, <3>1 DEF RowsComeTogether, CompleteIsWhole, Complete, Words
    <3>3. \A d \in Callers \ {c} : call'[d].step \notin {"visit", "finish", "fetch", "save"}
      BY <1>2, <1>3, <1>4 DEF CallsKnow
    <3>4. CallsKnow'
      BY <1>3, <2>1, <3>1, <3>3 DEF CallsKnow
    <3> QED BY <2>4, <2>5, <3>2, <3>4
  <2> QED BY <2>6, <2>7
<1>5. CASE shipment # "none"
  <2>1. UNCHANGED <<shipment, parcel, verdict, journey>> /\ undo' = Opened(c)
    BY <1>5 DEF Prepare, carrierVars
  <2>2. /\ RowsTypeOK' /\ undo'.parcels = {} /\ undo'.by \in {None, c}
        /\ SeenShipment' = shipment /\ \A p \in Parcels : SeenParcel(p)' = parcel[p]
        /\ c \in Panel => undo'.by = c
        /\ c \notin Panel => undo'.by = None
    <3>1. CASE c \in Panel
      BY <1>1, <2>1, <3>1 DEF Opened, Nothing, RowsTypeOK, SeenShipment, SeenParcel
    <3>2. CASE c \notin Panel
      BY <1>1, <1>2, <2>1, <3>2 DEF Opened, RowsTypeOK, SeenShipment, SeenParcel
    <3> QED BY <3>1, <3>2
  <2>3. UndoIsOfTheOpen'
    BY <2>2 DEF UndoIsOfTheOpen
  <2>4. RowsComeTogether' /\ CompleteIsWhole'
    BY <2>1, <2>2 DEF RowsComeTogether, CompleteIsWhole
  <2>5. CallsKnow'
    BY <1>1, <1>2, <1>3, <1>5, <2>1, <2>2 DEF CallsKnow, Callers
  <2> QED BY <2>2, <2>3, <2>4, <2>5
<1> QED BY <1>4, <1>5

(* A call is undone: everybody sees what all but the caller saw before.    *)
LEMMA AbortStays ==
  ASSUME ShipmentsAssumption, RowsInv, CallsTypeOK', NEW c \in Callers, Abort(c),
         verdict' \in [Parcels -> Verdicts], UNCHANGED journey
  PROVE  RowsInv'
<1> USE ShipmentsAssumption DEF RowsInv
<1>1. /\ call'[c].step = "idle" /\ \A d \in Callers \ {c} : call'[d] = call[d]
      /\ undo.by = c => undo'.by = None /\ undo'.parcels = {}
      /\ undo.by # c => undo' = undo
  BY ReturnFrees DEF Abort
<1>2. CASE undo.by # c
  <2>1. UNCHANGED <<shipment, parcel, undo>>
    BY <1>1, <1>2 DEF Abort
  <2>2. SeenShipment' = SeenShipment /\ \A p \in Parcels : SeenParcel(p)' = SeenParcel(p)
    BY <2>1 DEF SeenShipment, SeenParcel
  <2>3. CallsKnow'
    BY <1>1, <1>2, <2>1, <2>2 DEF CallsKnow
  <2> QED BY <2>1, <2>3, QuietStays DEF RowsTypeOK
<1>3. CASE undo.by = c
  <2>1. /\ undo'.by = None /\ undo'.parcels = {} /\ undo' = Nothing
        /\ shipment' = SeenShipment
        /\ parcel' = [p \in Parcels |-> SeenParcel(p)]
    BY <1>1, <1>3 DEF Abort, Return, SeenShipment, Callers
  <2>2. SeenShipment' = SeenShipment
        /\ \A p \in Parcels : parcel'[p] = SeenParcel(p) /\ SeenParcel(p)' = SeenParcel(p)
    BY <2>1 DEF SeenShipment, SeenParcel
  <2>3. SeenShipment \in ShipmentStatus /\ \A p \in Parcels : SeenParcel(p) \in Row
    BY DEF SeenShipment, SeenParcel, RowsTypeOK
  <2>4. Nothing \in [by : Panel \cup {None}, shipment : ShipmentStatus, parcels : SUBSET Parcels,
                     parcel : [Parcels -> Row]]
    BY DEF Nothing, NoRow, Row, ParcelStatus, ShipmentStatus
  <2>5. parcel' \in [Parcels -> Row]
    BY <2>1, <2>3
  <2>6. RowsTypeOK'
    BY <2>1, <2>3, <2>4, <2>5 DEF RowsTypeOK
  <2>7. UndoIsOfTheOpen'
    BY <2>1 DEF UndoIsOfTheOpen
  <2>8. RowsComeTogether' /\ CompleteIsWhole'
    BY <2>1, <2>2 DEF RowsComeTogether, CompleteIsWhole
  <2>9. CallsKnow'
    BY <1>1, <1>3, <2>1, <2>2 DEF CallsKnow, Callers
  <2> QED BY <2>6, <2>7, <2>8, <2>9
<1> QED BY <1>2, <1>3

(* Steps of a call that change its place only.                             *)
LEMMA PlaceStays ==
  ASSUME ShipmentsAssumption, RowsInv, CallsTypeOK', NEW c \in Callers,
         Create(c) \/ Refresh(c) \/ SkipParcel(c) \/ FetchTracking(c)
  PROVE  RowsInv'
<1> USE ShipmentsAssumption DEF RowsInv
<1>1. UNCHANGED <<shipment, parcel, undo, verdict, journey>>
  BY DEF Create, Refresh, SkipParcel, FetchTracking, carrierVars
<1>2. SeenShipment' = SeenShipment /\ \A p \in Parcels : SeenParcel(p)' = SeenParcel(p)
  BY <1>1 DEF SeenShipment, SeenParcel
<1>3. \A d \in Callers \ {c} : call'[d] = call[d]
  BY GoOnKeeps DEF Create, Refresh, SkipParcel, FetchTracking, CallsTypeOK
<1>4. CASE Create(c)
  <2>1. call[c].step = "idle" /\ call'[c].step = "prepare"
    BY <1>4 DEF Create, At, CallsTypeOK
  <2>2. CallsKnow'
    BY <1>1, <1>2, <1>3, <2>1 DEF CallsKnow
  <2> QED BY <1>1, <2>2, QuietStays DEF RowsTypeOK
<1>5. CASE Refresh(c)
  <2>1. call[c].step = "idle" /\ SeenShipment \notin {"none", "rejected"}
    BY <1>5 DEF Refresh, At
  <2>2. undo.by # c
    BY <2>1 DEF CallsKnow
  <2>3. CASE SeenShipment \in {"importing", "attention_required"}
    <3>1. call'[c].step = "prepare"
      BY <1>5, <2>3 DEF Refresh, CallsTypeOK, Idle
    <3>2. CallsKnow'
      BY <1>1, <1>2, <1>3, <2>2, <3>1 DEF CallsKnow
    <3> QED BY <1>1, <3>2, QuietStays DEF RowsTypeOK
  <2>4. CASE SeenShipment \notin {"importing", "attention_required"}
    <3>1. call'[c].step = "fetch" /\ call'[c].seen = SeenShipment
      BY <1>5, <2>4 DEF Refresh, CallsTypeOK, Idle
    <3>2. SeenShipment \in Complete
      BY <2>1, <2>4 DEF SeenShipment, RowsTypeOK, ShipmentStatus, Unfinished, Complete
    <3>3. \A p \in Parcels : SeenParcel(p).status = "imported"
      BY <3>2 DEF CompleteIsWhole
    <3>4. \A p \in Parcels : parcel[p].status = "imported"
      BY <3>3 DEF SeenParcel, UndoIsOfTheOpen
    <3>5. shipment # "none"
      BY <3>4 DEF RowsComeTogether, Parcels
    <3>6. CallsKnow'
      BY <1>1, <1>2, <1>3, <2>1, <2>2, <3>1, <3>2, <3>3, <3>4, <3>5 DEF CallsKnow
    <3> QED BY <1>1, <3>6, QuietStays DEF RowsTypeOK
  <2> QED BY <2>3, <2>4
<1>6. CASE SkipParcel(c)
  <2>1. call[c].step = "visit" /\ call'[c].step \in {"visit", "finish"}
    BY <1>6, GoOnKeeps DEF SkipParcel, Visits, At
  <2>2. CallsKnow'
    BY <1>1, <1>2, <1>3, <2>1 DEF CallsKnow
  <2> QED BY <1>1, <2>2, QuietStays DEF RowsTypeOK
<1>7. CASE FetchTracking(c)
  <2>1. call[c].step = "fetch" /\ call'[c].step = "save"
        /\ call'[c].seen = IF journey = "none" THEN call[c].seen ELSE journey
    BY <1>7 DEF FetchTracking, At, CallsTypeOK
  <2>2. call'[c].seen \in Complete
    BY <2>1 DEF CallsKnow, RowsTypeOK, Complete, Words
  <2>3. CallsKnow'
    BY <1>1, <1>2, <1>3, <2>1, <2>2 DEF CallsKnow
  <2> QED BY <1>1, <2>3, QuietStays DEF RowsTypeOK
<1> QED BY <1>4, <1>5, <1>6, <1>7

(* A call goes on to the tracking with what it has just committed to.      *)
LEMMA TrackingStays ==
  ASSUME ShipmentsAssumption, RowsInv, CallsTypeOK', NEW c \in Callers, MayLockOrder(c),
         UNCHANGED <<parcel, verdict, journey>>, undo' \in {undo, Opened(c)},
         c \in Panel /\ undo' = undo => undo.by = c,
         shipment # "none", shipment' = "imported",
         shipment' = shipment \/ undo' = undo,
         \A p \in Parcels : parcel[p].status = "imported",
         call[c].step \in {"prepare", "finish"},
         call' = [call EXCEPT ![c].step = "fetch", ![c].seen = "imported"]
  PROVE  RowsInv'
<1> USE ShipmentsAssumption DEF RowsInv
<1>1. /\ call'[c].step = "fetch" /\ call'[c].seen = "imported"
      /\ \A d \in Callers \ {c} : call'[d] = call[d]
  BY DEF CallsTypeOK
<1>2. /\ undo' \in [by : Panel \cup {None}, shipment : ShipmentStatus, parcels : SUBSET Parcels,
                    parcel : [Parcels -> Row]]
      /\ undo'.parcels = undo.parcels /\ undo'.by \in {None, c}
      /\ \A p \in undo.parcels : undo'.parcel[p] = undo.parcel[p]
      /\ undo'.by = c => c \in Panel /\ undo'.shipment = SeenShipment
      /\ undo'.by = None => c \notin Panel /\ undo.by = None
  BY DEF MayLockOrder, Opened, Nothing, RowsTypeOK, UndoIsOfTheOpen, SeenShipment, Callers
<1>3. \A p \in Parcels : SeenParcel(p)' = SeenParcel(p)
  BY <1>2 DEF SeenParcel
<1>4. /\ undo'.by = c => SeenShipment' = SeenShipment
      /\ undo'.by = None => SeenShipment' = "imported"
  BY <1>2 DEF SeenShipment, Callers
<1>5. undo'.by = None => \A p \in Parcels : SeenParcel(p)' = parcel[p]
  BY <1>2 DEF SeenParcel, UndoIsOfTheOpen
<1>6. RowsTypeOK'
  BY <1>2 DEF RowsTypeOK, ShipmentStatus
<1>7. UndoIsOfTheOpen'
  BY <1>2 DEF UndoIsOfTheOpen
<1>8. RowsComeTogether' /\ CompleteIsWhole'
  BY <1>2, <1>3, <1>4, <1>5 DEF RowsComeTogether, CompleteIsWhole
<1>9. CallsKnow'
  <2>1. undo.by \in {None, c} /\ \A d \in Callers \ {c} : undo.by # d /\ undo'.by # d
    BY <1>2 DEF MayLockOrder, Callers
  <2>2. UNCHANGED parcel /\ shipment' # "none"
    OBVIOUS
  <2>3. ASSUME NEW d \in Callers, d # c,
               call[d].step \in {"visit", "finish", "fetch", "save"}
        PROVE  SeenShipment' # "none" /\ (d \in Panel => call[d].step \in {"fetch", "save"})
    <3>1. SeenShipment # "none" /\ (d \in Panel => call[d].step \in {"fetch", "save"})
      BY <2>1, <2>3 DEF CallsKnow
    <3> QED BY <1>2, <1>4, <2>3, <3>1
  <2>4. ASSUME NEW d \in Callers, d # c, call[d].step \in {"fetch", "save"}
        PROVE  /\ call[d].seen \in Complete
               /\ \A p \in Parcels : parcel[p].status = "imported" /\ SeenParcel(p).status = "imported"
    BY <2>1, <2>4 DEF CallsKnow
  <2>5. ASSUME undo'.by # c
        PROVE  SeenShipment' # "none" /\ \A p \in Parcels : SeenParcel(p)' = parcel[p]
    BY <1>2, <1>4, <1>5, <2>5
  <2>6. \A d \in Callers \ {c} : call'[d] = call[d]
    BY <1>1
  <2> SUFFICES ASSUME NEW d \in Callers
               PROVE  /\ call'[d].step \in {"visit", "finish", "fetch", "save"} =>
                           /\ shipment' # "none"
                           /\ undo'.by # d => SeenShipment' # "none"
                      /\ call'[d].step \in {"fetch", "save"} =>
                           /\ call'[d].seen \in Complete
                           /\ \A p \in Parcels : parcel'[p].status = "imported"
                           /\ undo'.by # d => \A p \in Parcels : (SeenParcel(p).status)' = "imported"
                      /\ d \in Panel /\ call'[d].step \in {"visit", "finish"} => undo'.by = d
                      /\ undo'.by = d => call'[d].step \in {"visit", "finish", "fetch", "save"}
    BY DEF CallsKnow
  <2>7. CASE d = c
    BY <1>1, <2>2, <2>5, <2>7 DEF Complete
  <2>8. CASE d # c
    <3>1. call'[d] = call[d] /\ undo'.by # d
      BY <2>1, <2>6, <2>8
    <3> QED BY <1>3, <2>2, <2>3, <2>4, <2>8, <3>1
  <2> QED BY <2>7, <2>8
<1> QED BY <1>6, <1>7, <1>8, <1>9

-----------------------------------------------------------------------------
LEMMA RowsInvStarts == ShipInit => RowsInv
<1> SUFFICES ASSUME ShipInit PROVE RowsInv
  OBVIOUS
<1> USE ShipmentsAssumption DEF ShipInit
<1>1. NoRow \in Row
  BY DEF NoRow, Row, ParcelStatus
<1>2. Nothing \in [by : Panel \cup {None}, shipment : ShipmentStatus, parcels : SUBSET Parcels,
                   parcel : [Parcels -> Row]]
  BY <1>1 DEF Nothing, ShipmentStatus
<1>3. RowsTypeOK
  BY <1>1, <1>2 DEF RowsTypeOK, ShipmentStatus, Verdicts
<1>4. CallsTypeOK
  BY DEF CallsTypeOK, Idle, Parcels, ShipmentStatus
<1>5. undo.by = None /\ undo.parcels = {} /\ shipment = "none" /\ \A p \in Parcels : parcel[p] = NoRow
  BY DEF Nothing
<1>6. \A c \in Callers : call[c].step = "idle" /\ undo.by # c
  BY <1>5 DEF Idle, Callers
<1>7. UndoIsOfTheOpen
  BY <1>5 DEF UndoIsOfTheOpen
<1>8. RowsComeTogether /\ CompleteIsWhole
  BY <1>5 DEF RowsComeTogether, CompleteIsWhole, SeenShipment, SeenParcel, NoRow, Complete, Words
<1>9. CallsKnow
  BY <1>6 DEF CallsKnow
<1> QED BY <1>3, <1>4, <1>7, <1>8, <1>9 DEF RowsInv

LEMMA StatusOfIsWhole ==
  /\ StatusOf(parcel) \in {"imported"} \cup Unfinished
  /\ StatusOf(parcel) = "imported" => \A p \in Parcels : parcel[p].status = "imported"
BY DEF StatusOf, Unfinished

LEMMA RowsInvStays == RowsInv /\ [ShipNext]_shipVars => RowsInv'
<1> SUFFICES ASSUME RowsInv, [ShipNext]_shipVars PROVE RowsInv'
  OBVIOUS
<1> USE ShipmentsAssumption
<1>0. CallsTypeOK'
  BY CallsTypeStays DEF RowsInv
<1>1. ASSUME NEW c \in Callers, AlreadyImported(c) PROVE RowsInv'
  <2>1. /\ MayLockOrder(c) /\ shipment = "imported" /\ call[c].step = "prepare"
        /\ UNCHANGED <<shipment, parcel, verdict, journey>>
    BY <1>1 DEF AlreadyImported, At, carrierVars
  <2>2. \A p \in Parcels : parcel[p].status = "imported"
    BY <2>1 DEF RowsInv, CompleteIsWhole, Complete
  <2>3. CASE call[c].track
    <3>1. call' = [call EXCEPT ![c].step = "fetch", ![c].seen = "imported"] /\ undo' = Opened(c)
      BY <1>1, <2>3 DEF AlreadyImported
    <3>2. c \in Panel /\ undo' = undo => undo.by = c
      <4>1. CASE undo.by = None
        BY <3>1, <4>1 DEF Opened, Callers, Nothing
      <4> QED BY <2>1, <4>1 DEF MayLockOrder
    <3> QED BY <1>0, <2>1, <2>2, <3>1, <3>2, TrackingStays
  <2>4. CASE ~call[c].track
    <3>1. Return(c)
      BY <1>1, <2>4 DEF AlreadyImported
    <3> QED BY <1>0, <2>1, <2>2, <3>1, CommitStays DEF RowsInv, RowsTypeOK
  <2> QED BY <2>3, <2>4
<1>2. ASSUME NEW c \in Callers, NotEligible(c) PROVE RowsInv'
  BY <1>0, <1>2, CommitStays DEF NotEligible, RowsInv, RowsTypeOK, CompleteIsWhole, carrierVars
<1>3. ASSUME NEW c \in Callers, Prepare(c) PROVE RowsInv'
  BY <1>0, <1>3, PrepareStays
<1>4. ASSUME NEW c \in Callers, GiveUpParcel(c) \/ PollParcel(c) \/ ImportParcel(c) PROVE RowsInv'
  BY <1>0, <1>4, RowChangeStays DEF GiveUpParcel, PollParcel, MayPoll, ImportParcel
<1>5. ASSUME NEW c \in Callers, Finish(c) PROVE RowsInv'
  <2>1. /\ MayLockOrder(c) /\ shipment' = StatusOf(parcel) /\ call[c].step = "finish"
        /\ UNCHANGED <<parcel, verdict, journey>>
    BY <1>5 DEF Finish, At, carrierVars
  <2>2. shipment # "none" /\ (c \in Panel => undo.by = c)
    BY <2>1 DEF RowsInv, CallsKnow
  <2>3. /\ shipment' \in {"imported"} \cup Unfinished
        /\ shipment' = "imported" => \A p \in Parcels : parcel[p].status = "imported"
    BY <2>1, StatusOfIsWhole
  <2>4. CASE call[c].track /\ shipment' = "imported"
    <3>1. call' = [call EXCEPT ![c].step = "fetch", ![c].seen = "imported"] /\ undo' = undo
      BY <1>5, <2>4 DEF Finish
    <3> QED BY <1>0, <2>1, <2>2, <2>3, <2>4, <3>1, TrackingStays
  <2>5. CASE ~(call[c].track /\ shipment' = "imported")
    <3>1. Return(c)
      BY <1>5, <2>5 DEF Finish
    <3>2. /\ shipment' \in ShipmentStatus /\ shipment' # "none"
          /\ shipment' \in Complete => shipment' = "imported"
      BY <2>3 DEF ShipmentStatus, Unfinished, Complete, Words
    <3> QED BY <1>0, <2>1, <2>3, <3>1, <3>2, CommitStays DEF RowsInv, RowsTypeOK
  <2> QED BY <2>4, <2>5
<1>6. ASSUME NEW c \in Callers, SaveTracking(c) PROVE RowsInv'
  <2>1. /\ MayLockOrder(c) /\ shipment' = call[c].seen /\ call[c].step = "save" /\ Return(c)
        /\ UNCHANGED <<parcel, verdict, journey>>
    BY <1>6 DEF SaveTracking, At, carrierVars
  <2>2. call[c].seen \in Complete /\ \A p \in Parcels : parcel[p].status = "imported"
    BY <2>1 DEF RowsInv, CallsKnow
  <2>3. shipment' \in ShipmentStatus /\ shipment' # "none"
    BY <2>1, <2>2 DEF ShipmentStatus, Complete, Words
  <2> QED BY <1>0, <2>1, <2>2, <2>3, CommitStays DEF RowsInv, RowsTypeOK
<1>7. ASSUME NEW c \in Callers, PollFails(c) PROVE RowsInv'
  <2> DEFINE p == call[c].at
  <2>1. p \in Parcels /\ parcel[p] \in Row
    BY DEF RowsInv, CallsTypeOK, RowsTypeOK
  <2>2. /\ parcel' = [parcel EXCEPT ![p].waits = TRUE] /\ Return(c)
        /\ UNCHANGED <<shipment, verdict, journey>>
    BY <1>7 DEF PollFails, carrierVars
  <2>3. [parcel[p] EXCEPT !.waits = TRUE] \in Row /\ [parcel[p] EXCEPT !.waits = TRUE].status = parcel[p].status
    BY <2>1 DEF Row
  <2> HIDE DEF p
  <2>4. parcel' \in [Parcels -> Row] /\ \A q \in Parcels : parcel'[q].status = parcel[q].status
    BY <2>1, <2>2, <2>3 DEF RowsInv, RowsTypeOK
  <2> QED BY <1>0, <2>2, <2>4, CommitStays DEF RowsInv, RowsTypeOK, CompleteIsWhole
<1>8. ASSUME NEW c \in Callers, ImportIsLost(c) \/ Stop(c) PROVE RowsInv'
  <2>1. Abort(c) /\ UNCHANGED journey
    BY <1>8 DEF ImportIsLost, Stop
  <2>2. verdict' \in [Parcels -> Verdicts]
    BY <1>8 DEF ImportIsLost, Stop, Accept, carrierVars, RowsInv, RowsTypeOK
  <2> QED BY <1>0, <2>1, <2>2, AbortStays
<1>9. ASSUME NEW c \in Callers, Create(c) \/ Refresh(c) \/ SkipParcel(c) \/ FetchTracking(c) PROVE RowsInv'
  BY <1>0, <1>9, PlaceStays
<1>10. ASSUME UNCHANGED <<shipment, parcel, undo, call>>, verdict' \in [Parcels -> Verdicts],
              journey' \in {"none"} \cup Words
       PROVE  RowsInv'
  <2>1. CallsKnow'
    BY <1>10 DEF RowsInv, CallsKnow, SeenShipment, SeenParcel
  <2> QED BY <1>0, <1>10, <2>1, QuietStays
<1>11. ASSUME NEW p \in Parcels, CarrierDecides(p) PROVE RowsInv'
  BY <1>10, <1>11 DEF CarrierDecides, RowsInv, RowsTypeOK, Verdicts
<1>12. ASSUME NEW p \in Parcels, PollIsDue(p) PROVE RowsInv'
  <2>1. /\ parcel' = [parcel EXCEPT ![p].waits = FALSE] /\ p \notin undo.parcels
        /\ UNCHANGED <<shipment, verdict, journey, undo, call>>
    BY <1>12 DEF PollIsDue, carrierVars
  <2>2. parcel[p] \in Row
    BY DEF RowsInv, RowsTypeOK
  <2>3. [parcel[p] EXCEPT !.waits = FALSE] \in Row /\ [parcel[p] EXCEPT !.waits = FALSE].status = parcel[p].status
    BY <2>2 DEF Row
  <2>4. parcel' \in [Parcels -> Row] /\ \A q \in Parcels : parcel'[q].status = parcel[q].status
    BY <2>1, <2>2, <2>3 DEF RowsInv, RowsTypeOK
  <2>5. SeenShipment' = SeenShipment /\ \A q \in Parcels : (SeenParcel(q).status)' = SeenParcel(q).status
    BY <2>1, <2>4 DEF SeenShipment, SeenParcel
  <2>6. RowsTypeOK' /\ UndoIsOfTheOpen'
    BY <2>1, <2>4 DEF RowsInv, RowsTypeOK, UndoIsOfTheOpen
  <2>7. RowsComeTogether' /\ CompleteIsWhole'
    BY <2>1, <2>4, <2>5 DEF RowsInv, RowsComeTogether, CompleteIsWhole
  <2>8. CallsKnow'
    BY <2>1, <2>4, <2>5 DEF RowsInv, CallsKnow
  <2> QED BY <1>0, <2>6, <2>7, <2>8 DEF RowsInv
<1>13. ASSUME CarrierMoves \/ Age \/ OrderChanges \/ UNCHANGED shipVars PROVE RowsInv'
  BY <1>10, <1>13 DEF CarrierMoves, Age, OrderChanges, shipVars, carrierVars, Words, RowsInv, RowsTypeOK
<1> QED
  BY <1>1, <1>2, <1>3, <1>4, <1>5, <1>6, <1>7, <1>8, <1>9, <1>11, <1>12, <1>13, Zenon
     DEF ShipNext, Work

(* Whatever the number of parcels, tasks, requests and staff, a shipment   *)
(* that counts as imported or on its way has every parcel imported, in     *)
(* what any caller sees (shipping.py:1105, 1153).                          *)
THEOREM ImportedStaysWhole == ShipSpec => []ImportedIsWhole
<1>1. RowsInv => ImportedIsWhole
  BY DEF RowsInv, CompleteIsWhole, Complete, ImportedIsWhole
<1> QED BY <1>1, RowsInvStarts, RowsInvStays, PTL DEF ShipSpec

-----------------------------------------------------------------------------
(* Every record of a parcel, also one made anew after its transaction was  *)
(* undone, has the key derived from its order; the carrier knows no other. *)
KeysAreDerived ==
  /\ \A p \in Parcels : parcel[p].key = None /\ undo.parcel[p].key = None
  /\ orders \in [Parcels -> SUBSET {None}]

LEMMA TouchedKeys ==
  ASSUME ShipmentsAssumption, RowsTypeOK, KeysAreDerived, NEW c \in Callers, NEW ps \in SUBSET Parcels
  PROVE  \A p \in Parcels : Touched(c, ps).parcel[p].key = None /\ Opened(c).parcel[p].key = None
<1> SUFFICES ASSUME NEW p \in Parcels
             PROVE  Touched(c, ps).parcel[p].key = None /\ Opened(c).parcel[p].key = None
  OBVIOUS
<1>1. Opened(c).parcel[p].key = None
  BY DEF Opened, Nothing, KeysAreDerived
<1> DEFINE o == Opened(c)
<1>2. CASE c \notin Panel
  BY <1>1, <1>2 DEF Touched
<1>3. CASE c \in Panel
  <2>1. Touched(c, ps).parcel = [q \in Parcels |-> IF q \in ps \ o.parcels THEN parcel[q] ELSE o.parcel[q]]
    BY <1>3 DEF Touched, Opened, Nothing, RowsTypeOK
  <2> HIDE DEF o
  <2>2. Touched(c, ps).parcel[p] \in {parcel[p], o.parcel[p]}
    BY <2>1
  <2> QED BY <1>1, <2>2 DEF o, KeysAreDerived
<1> QED BY <1>2, <1>3

LEMMA KeysStayDerived == RowsInv /\ KeysAreDerived /\ [ShipNext]_shipVars => KeysAreDerived'
<1> SUFFICES ASSUME RowsInv, KeysAreDerived, [ShipNext]_shipVars PROVE KeysAreDerived'
  OBVIOUS
<1> USE ShipmentsAssumption DEF KeysAreDerived
<1>0. /\ \A c \in Callers : call[c].at \in Parcels
      /\ \A p \in Parcels : parcel[p] \in Row
  BY DEF RowsInv, CallsTypeOK, RowsTypeOK
<1>1. ASSUME \A p \in Parcels : parcel'[p].key = None, orders' \in [Parcels -> SUBSET {None}],
             \/ undo' \in {undo, Nothing}
             \/ \E c \in Callers : \/ undo' = Opened(c)
                                   \/ \E ps \in SUBSET Parcels : undo' = Touched(c, ps)
      PROVE  KeysAreDerived'
  <2>1. \A p \in Parcels : Nothing.parcel[p].key = None
    BY DEF Nothing, NoRow
  <2>2. \A p \in Parcels : undo'.parcel[p].key = None
    BY <1>1, <2>1, TouchedKeys DEF RowsInv
  <2> QED BY <1>1, <2>2
<1>2. ASSUME NEW c \in Callers, Return(c) PROVE undo' \in {undo, Nothing}
  BY <1>2 DEF Return
<1>3. ASSUME NEW c \in Callers,
             AlreadyImported(c) \/ NotEligible(c) \/ Finish(c) \/ SaveTracking(c)
      PROVE  KeysAreDerived'
  <2>1. UNCHANGED <<parcel, orders>>
    BY <1>3 DEF AlreadyImported, NotEligible, Finish, SaveTracking, carrierVars
  <2>2. undo' \in {undo, Nothing} \/ undo' = Opened(c)
    BY <1>2, <1>3 DEF AlreadyImported, NotEligible, Finish, SaveTracking
  <2> QED BY <1>1, <2>1, <2>2
<1>4. ASSUME NEW c \in Callers, Prepare(c) PROVE KeysAreDerived'
  <2>1. UNCHANGED orders
    BY <1>4 DEF Prepare, carrierVars
  <2>2. CASE shipment = "none"
    <3>1. \A p \in Parcels : parcel'[p].key = None
      BY <1>4, <2>2 DEF Prepare, RowKey
    <3>2. \E ps \in SUBSET Parcels : undo' = Touched(c, ps)
      BY <1>4, <2>2 DEF Prepare
    <3> QED BY <1>1, <2>1, <3>1, <3>2
  <2>3. CASE shipment # "none"
    BY <1>1, <1>4, <2>1, <2>3 DEF Prepare
  <2> QED BY <2>2, <2>3
<1>5. ASSUME NEW c \in Callers, GiveUpParcel(c) \/ PollParcel(c) \/ ImportParcel(c) PROVE KeysAreDerived'
  <2> DEFINE p == call[c].at
  <2>1. p \in Parcels /\ parcel[p] \in Row /\ parcel[p].key = None
    BY <1>0
  <2>2. verdict' \in [Parcels -> Verdicts] /\ undo' = Touched(c, {p})
    BY <1>5, RowChange DEF RowsInv, GiveUpParcel, PollParcel, MayPoll, ImportParcel
  <2>3. \A v \in Verdicts : Applied(parcel[p], v).key = None
    BY <2>1, AppliedIsRow
  <2>4. CASE GiveUpParcel(c)
    <3>1. parcel' = [parcel EXCEPT ![p] = [parcel[p] EXCEPT !.status = "attention_required", !.waits = FALSE]]
      BY <2>4 DEF GiveUpParcel
    <3>2. [parcel[p] EXCEPT !.status = "attention_required", !.waits = FALSE].key = None
      BY <2>1, WrittenIsRow DEF ParcelStatus
    <3> HIDE DEF p
    <3>3. \A q \in Parcels : parcel'[q].key = None
      BY <3>1, <3>2 DEF RowsInv, RowsTypeOK
    <3> QED BY <1>1, <2>1, <2>2, <2>4, <3>3 DEF GiveUpParcel, carrierVars
  <2>5. CASE PollParcel(c)
    <3>1. parcel' = [parcel EXCEPT ![p] = Applied(parcel[p], verdict[p])] /\ UNCHANGED <<orders, verdict>>
      BY <2>5 DEF PollParcel, carrierVars
    <3> HIDE DEF p
    <3>2. \A q \in Parcels : parcel'[q].key = None
      BY <2>1, <2>2, <2>3, <3>1 DEF RowsInv, RowsTypeOK
    <3> QED BY <1>1, <2>1, <2>2, <3>1, <3>2
  <2>6. CASE ImportParcel(c)
    <3>1. /\ parcel' = [parcel EXCEPT ![p] = Applied(parcel[p], verdict'[p])]
          /\ orders' = [orders EXCEPT ![p] = orders[p] \cup {parcel[p].key}]
      BY <2>6 DEF ImportParcel, Accept
    <3> HIDE DEF p
    <3>2. \A q \in Parcels : parcel'[q].key = None
      BY <2>1, <2>2, <2>3, <3>1 DEF RowsInv, RowsTypeOK
    <3>3. orders' \in [Parcels -> SUBSET {None}]
      BY <2>1, <3>1
    <3> QED BY <1>1, <2>1, <2>2, <3>2, <3>3
  <2> QED BY <1>5, <2>4, <2>5, <2>6
<1>6. ASSUME NEW c \in Callers, PollFails(c) PROVE KeysAreDerived'
  <2> DEFINE p == call[c].at
  <2>1. parcel' = [parcel EXCEPT ![p].waits = TRUE] /\ Return(c) /\ UNCHANGED orders
    BY <1>6 DEF PollFails, carrierVars
  <2>2. [parcel[p] EXCEPT !.waits = TRUE].key = None
    BY <1>0 DEF Row
  <2> HIDE DEF p
  <2>3. \A q \in Parcels : parcel'[q].key = None
    BY <2>1, <2>2 DEF RowsInv, RowsTypeOK
  <2> QED BY <1>1, <1>2, <2>1, <2>3
<1>7. ASSUME NEW c \in Callers, ImportIsLost(c) \/ Stop(c) PROVE KeysAreDerived'
  <2>1. Abort(c)
    BY <1>7 DEF ImportIsLost, Stop
  <2>2. \A p \in Parcels : parcel'[p].key = None
    BY <2>1 DEF Abort, SeenParcel
  <2>3. orders' \in [Parcels -> SUBSET {None}]
    <3>1. CASE ImportIsLost(c)
      <4>1. orders' = [orders EXCEPT ![call[c].at] = orders[call[c].at] \cup {parcel[call[c].at].key}]
        BY <3>1 DEF ImportIsLost, Accept
      <4> QED BY <1>0, <4>1
    <3>2. CASE Stop(c)
      BY <3>2 DEF Stop, carrierVars
    <3> QED BY <1>7, <3>1, <3>2
  <2> QED BY <1>1, <1>2, <2>1, <2>2, <2>3 DEF Abort
<1>8. ASSUME NEW p \in Parcels, PollIsDue(p) PROVE KeysAreDerived'
  <2>1. parcel' = [parcel EXCEPT ![p].waits = FALSE] /\ UNCHANGED <<orders, undo>>
    BY <1>8 DEF PollIsDue, carrierVars
  <2>2. [parcel[p] EXCEPT !.waits = FALSE].key = None
    BY <1>0 DEF Row
  <2>3. \A q \in Parcels : parcel'[q].key = None
    BY <2>1, <2>2 DEF RowsInv, RowsTypeOK
  <2> QED BY <1>1, <2>1, <2>3
<1>9. ASSUME UNCHANGED <<parcel, orders, undo>> PROVE KeysAreDerived'
  BY <1>9
<1>10. ASSUME NEW c \in Callers, Create(c) \/ Refresh(c) \/ SkipParcel(c) \/ FetchTracking(c)
       PROVE  KeysAreDerived'
  BY <1>9, <1>10 DEF Create, Refresh, SkipParcel, FetchTracking, carrierVars
<1>11. ASSUME (\E p \in Parcels : CarrierDecides(p)) \/ CarrierMoves \/ Age \/ OrderChanges \/ UNCHANGED shipVars
       PROVE  KeysAreDerived'
  BY <1>9, <1>11 DEF CarrierDecides, CarrierMoves, Age, OrderChanges, shipVars, carrierVars
<1> QED
  BY <1>3, <1>4, <1>5, <1>6, <1>7, <1>8, <1>10, <1>11, Zenon DEF ShipNext, Work

(* Whatever is lost, undone and imported again, the carrier has at most    *)
(* one order for a parcel (shipping.py:943, 960).                          *)
THEOREM OneOrderPerParcel == ShipSpec => []OneCarrierOrder
<1>1. ShipInit => KeysAreDerived
  BY DEF ShipInit, KeysAreDerived, Nothing, NoRow
<1>2. KeysAreDerived => OneCarrierOrder
  <2> SUFFICES ASSUME KeysAreDerived, NEW p \in Parcels PROVE Cardinality(orders[p]) <= 1
    BY DEF OneCarrierOrder
  <2>1. orders[p] \in {{}, {None}}
    BY DEF KeysAreDerived
  <2> QED BY <2>1, FS_EmptySet, FS_Singleton
<1> QED BY <1>1, <1>2, KeysStayDerived, RowsInvStarts, RowsInvStays, PTL DEF ShipSpec

-----------------------------------------------------------------------------
(* The order's own state, and the bound on the faults.                     *)
OrderTyped == eligible \in BOOLEAN /\ aged \in BOOLEAN /\ faults \in 0..MaxFaults

LEMMA OrderStaysTyped == OrderTyped /\ [ShipNext]_shipVars => OrderTyped'
<1> SUFFICES ASSUME OrderTyped, [ShipNext]_shipVars PROVE OrderTyped'
  OBVIOUS
<1> USE ShipmentsAssumption
<1>1. ASSUME UNCHANGED <<eligible, aged, faults>> PROVE OrderTyped'
  BY <1>1 DEF OrderTyped
<1>2. ASSUME UNCHANGED <<eligible, aged>>, faults < MaxFaults, faults' = faults + 1 PROVE OrderTyped'
  BY <1>2 DEF OrderTyped
<1>3. ASSUME NEW c \in Callers, Create(c) \/ Refresh(c) \/ Work(c) PROVE OrderTyped'
  <2>1. UNCHANGED <<eligible, aged, faults>>
    BY <1>3, Zenon DEF Create, Refresh, Work, AlreadyImported, NotEligible, Prepare, SkipParcel,
       GiveUpParcel, PollParcel, ImportParcel, Finish, FetchTracking, SaveTracking, orderVars
  <2> QED BY <1>1, <2>1
<1>4. ASSUME NEW c \in Callers, PollFails(c) \/ ImportIsLost(c) \/ Stop(c) PROVE OrderTyped'
  BY <1>2, <1>4, Zenon DEF PollFails, ImportIsLost, Stop, Abort, orderVars
<1>5. ASSUME NEW p \in Parcels, CarrierDecides(p) \/ PollIsDue(p) PROVE OrderTyped'
  BY <1>1, <1>5, Zenon DEF CarrierDecides, PollIsDue, orderVars
<1>6. CASE CarrierMoves \/ UNCHANGED shipVars
  BY <1>1, <1>6, Zenon DEF CarrierMoves, orderVars, shipVars
<1>7. CASE Age
  BY <1>7 DEF Age, OrderTyped
<1>8. CASE OrderChanges
  BY <1>8 DEF OrderChanges, OrderTyped
<1> QED BY <1>3, <1>4, <1>5, <1>6, <1>7, <1>8, Zenon DEF ShipNext

(* The shipment's rows, its callers and the carrier's orders keep their    *)
(* types.                                                                  *)
THEOREM ShipmentTypes == ShipSpec => []ShipTypeOK
<1>1. ShipInit => OrderTyped /\ KeysAreDerived
  <2>1. ShipInit => OrderTyped
    <3>1. 0 \in 0..MaxFaults
      BY ShipmentsAssumption
    <3>2. ShipInit => eligible \in BOOLEAN /\ aged \in BOOLEAN /\ faults = 0
      BY Zenon DEF ShipInit
    <3> QED BY <3>1, <3>2 DEF OrderTyped
  <2>2. ShipInit => KeysAreDerived
    BY DEF ShipInit, KeysAreDerived, Nothing, NoRow
  <2> QED BY <2>1, <2>2
<1>2. RowsInv /\ KeysAreDerived /\ OrderTyped => ShipTypeOK
  BY DEF RowsInv, RowsTypeOK, CallsTypeOK, Row, KeysAreDerived, OrderTyped, ShipTypeOK
<1> QED BY <1>1, <1>2, KeysStayDerived, OrderStaysTyped, RowsInvStarts, RowsInvStays, PTL DEF ShipSpec

-----------------------------------------------------------------------------
(* The cache, the codes and the callbacks.                                 *)
StatesTypeOK ==
  /\ pending \subseteq States /\ used \subseteq States
  /\ exchanged \in [States -> Nat]
  /\ callback \in [Callbacks -> [at : {"rest", "claimed", "read", "exchange"}, state : States]]

Holds(b, s, steps) == callback[b].state = s /\ callback[b].at \in steps

(* While a state is pending, whoever has claimed it is alone, has left the *)
(* used mark, and has yet to exchange the code.                            *)
PendingIsClaimedOnce ==
  \A s \in pending :
    /\ exchanged[s] = 0
    /\ \A b \in Callbacks : ~Holds(b, s, {"exchange"})
    /\ \A b \in Callbacks : Holds(b, s, {"claimed", "read"}) => s \in used
    /\ \A b, c \in Callbacks :
         Holds(b, s, {"claimed", "read"}) /\ Holds(c, s, {"claimed", "read"}) => b = c

(* And so is whoever has read it.                                          *)
ReadOnce ==
  \A s \in States :
    /\ exchanged[s] <= 1
    /\ \A b \in Callbacks : Holds(b, s, {"read", "exchange"}) => exchanged[s] = 0
    /\ \A b, c \in Callbacks :
         Holds(b, s, {"read", "exchange"}) /\ Holds(c, s, {"read", "exchange"}) => b = c

ConnInv == StatesTypeOK /\ PendingIsClaimedOnce /\ ReadOnce

(* No step of a callback, a reader, the owner or the clock breaks it.      *)
LEMMA ConnInvStays == ConnInv /\ [ConnNext]_connVars => ConnInv'
<1> SUFFICES ASSUME ConnInv, [ConnNext]_connVars PROVE ConnInv'
  OBVIOUS
<1> USE DEF ConnInv, StatesTypeOK, PendingIsClaimedOnce, ReadOnce, Holds
<1>1. ASSUME NEW s \in States, StartAuthorization(s) PROVE ConnInv'
  BY <1>1 DEF StartAuthorization
<1>2. ASSUME NEW s \in States, ExpirePending(s) \/ ExpireUsed(s) PROVE ConnInv'
  BY <1>2 DEF ExpirePending, ExpireUsed, UsedMayGo
<1>3. ASSUME NEW b \in Callbacks, NEW s \in States, ClaimState(b, s) PROVE ConnInv'
  BY <1>3 DEF ClaimState, MayClaim
<1>4. ASSUME NEW b \in Callbacks, ReadPending(b) PROVE ConnInv'
  BY <1>4 DEF ReadPending
<1>5. ASSUME NEW b \in Callbacks, DeletePending(b) PROVE ConnInv'
  BY <1>5 DEF DeletePending
<1>6. ASSUME NEW b \in Callbacks, NEW account \in Accounts, Connect(b, account) PROVE ConnInv'
  BY <1>6 DEF Connect
<1>7. ASSUME NEW b \in Callbacks, CallbackEnds(b) PROVE ConnInv'
  BY <1>7 DEF CallbackEnds
<1>8. ASSUME UNCHANGED stateVars PROVE ConnInv'
  BY <1>8 DEF stateVars
<1>9. ASSUME NEW r \in Readers, Look(r) \/ Renewed(r) \/ MarkReconnect(r) PROVE ConnInv'
  BY <1>8, <1>9, Zenon DEF Look, Renewed, MarkReconnect
<1>10. CASE ConnectOwn \/ Disconnect \/ Configure \/ TokenExpires
  BY <1>8, <1>10, Zenon DEF ConnectOwn, Disconnect, Configure, TokenExpires
<1>11. CASE UNCHANGED connVars
  BY <1>8, <1>11, Zenon DEF connVars
<1> QED
  BY <1>1, <1>2, <1>3, <1>4, <1>5, <1>6, <1>7, <1>9, <1>10, <1>11 DEF ConnNext

(* Cache, codes and callbacks keep their types, and each state its one     *)
(* reader.                                                                 *)
THEOREM StatesAreClaimedOnce == ConnSpec => []ConnInv
<1>1. ConnInit => ConnInv
  BY ConnectionAssumption DEF ConnInit, ConnInv, StatesTypeOK, PendingIsClaimedOnce, ReadOnce, Holds
<1> QED BY <1>1, ConnInvStays, PTL DEF ConnSpec

(* However callbacks are repeated, overlap or crash, and whatever the      *)
(* cache lets go, the code of a state is exchanged once                    *)
(* (commerce/mercadopago_oauth.py:146-156).                                *)
THEOREM OneExchange == ConnSpec => []AuthorisedOnce
<1>1. ConnInv => AuthorisedOnce
  <2> SUFFICES ASSUME ConnInv, NEW s \in States
               PROVE  exchanged[s] + Cardinality({b \in Callbacks :
                        callback[b] = [at |-> "exchange", state |-> s]}) <= 1
    BY DEF AuthorisedOnce
  <2> DEFINE busy == {b \in Callbacks : callback[b] = [at |-> "exchange", state |-> s]}
  <2>1. \A b \in busy : Holds(b, s, {"read", "exchange"})
    BY DEF Holds
  <2>2. exchanged[s] \in 0..1
    BY DEF ConnInv, ReadOnce, StatesTypeOK
  <2>3. CASE busy = {}
    BY <2>2, <2>3, FS_EmptySet
  <2>4. ASSUME NEW b \in busy PROVE exchanged[s] + Cardinality(busy) <= 1
    <3>1. exchanged[s] = 0
      BY <2>1 DEF ConnInv, ReadOnce
    <3>2. busy = {b}
      BY <2>1 DEF ConnInv, ReadOnce
    <3>3. Cardinality({b}) = 1
      BY FS_Singleton
    <3> QED BY <3>1, <3>2, <3>3
  <2> QED BY <2>3, <2>4
<1> QED BY <1>1, StatesAreClaimedOnce, PTL

-----------------------------------------------------------------------------
(* The row and the readers of its token.  A reader that asks with a        *)
(* refresh token has read one.                                             *)
PublicConfig == [account : Someone, grant : {"code", "client_credentials"},
                 expires : {"unknown", "later", "soon"}, reconnect : BOOLEAN]
ReaderRecord == [at : {"rest", "own", "refresh", "mark"}, copy : PublicConfig, refresh : Someone]

RowTyped ==
  /\ enabled \in BOOLEAN
  /\ public \in PublicConfig
  /\ secret \in [access : Someone, refresh : Someone]
  /\ reader \in [Readers -> ReaderRecord]
  /\ \A r \in Readers : reader[r].at = "refresh" => reader[r].refresh # Nobody

LEMMA StoredIsTyped ==
  ASSUME RowTyped, NEW account \in Accounts, Store(account) \/ (account = Own /\ StoreOwn)
  PROVE  /\ enabled' \in BOOLEAN /\ public' \in PublicConfig
         /\ secret' \in [access : Someone, refresh : Someone]
<1> USE ConnectionAssumption DEF RowTyped, Someone
<1>1. CASE Store(account)
  <2>1. PICK later \in {"unknown", "later", "soon"} : later = "later"
    OBVIOUS
  <2>2. public' = [public EXCEPT !.account = account, !.expires = later, !.reconnect = FALSE]
    BY <1>1, <2>1, Zenon DEF Store
  <2>3. public' \in PublicConfig
    BY <2>2 DEF PublicConfig
  <2> QED BY <1>1, <2>3 DEF Store
<1>2. CASE account = Own /\ StoreOwn
  BY <1>2 DEF StoreOwn, PublicConfig
<1> QED BY <1>1, <1>2

LEMMA RowStaysTyped == RowTyped /\ [ConnNext]_connVars => RowTyped'
<1> SUFFICES ASSUME RowTyped, [ConnNext]_connVars PROVE RowTyped'
  OBVIOUS
<1> USE ConnectionAssumption
<1>1. ASSUME UNCHANGED <<rowVars, reader>> PROVE RowTyped'
  BY <1>1 DEF RowTyped, rowVars
<1>2. AtRest \in ReaderRecord /\ AtRest.at = "rest"
  BY DEF AtRest, ReaderRecord, PublicConfig, Blank, Someone
<1>3. ASSUME NEW s \in States, StartAuthorization(s) \/ ExpirePending(s) \/ ExpireUsed(s)
      PROVE  RowTyped'
  BY <1>1, <1>3, Zenon DEF StartAuthorization, ExpirePending, ExpireUsed
<1>4. ASSUME NEW b \in Callbacks, NEW s \in States, ClaimState(b, s) PROVE RowTyped'
  BY <1>1, <1>4, Zenon DEF ClaimState
<1>5. ASSUME NEW b \in Callbacks, ReadPending(b) \/ DeletePending(b) \/ CallbackEnds(b)
      PROVE  RowTyped'
  BY <1>1, <1>5, Zenon DEF ReadPending, DeletePending, CallbackEnds
<1>6. ASSUME NEW b \in Callbacks, NEW account \in Accounts, Connect(b, account) PROVE RowTyped'
  BY <1>6, StoredIsTyped DEF Connect, RowTyped
<1>7. ASSUME NEW r \in Readers, Look(r) PROVE RowTyped'
  <2>1. PICK at \in {"rest", "own", "refresh", "mark"} :
          /\ reader' = [reader EXCEPT ![r] = [at |-> at, copy |-> public, refresh |-> secret.refresh]]
          /\ at = "refresh" => secret.refresh # Nobody
    <3>1. CASE public.grant = "client_credentials"
      BY <1>7, <3>1 DEF Look
    <3>2. CASE public.grant # "client_credentials" /\ secret.refresh # Nobody
      BY <1>7, <3>2 DEF Look
    <3>3. CASE public.grant # "client_credentials" /\ secret.refresh = Nobody
      BY <1>7, <3>3 DEF Look
    <3> QED BY <3>1, <3>2, <3>3
  <2> DEFINE new == [at |-> at, copy |-> public, refresh |-> secret.refresh]
  <2>2. new \in ReaderRecord /\ new.at = at /\ new.refresh = secret.refresh
    BY DEF ReaderRecord, RowTyped
  <2> HIDE DEF new
  <2>3. /\ reader' \in [Readers -> ReaderRecord] /\ reader'[r] = new
        /\ \A q \in Readers \ {r} : reader'[q] = reader[q]
    BY <2>1, <2>2 DEF RowTyped, new
  <2>4. \A q \in Readers : reader'[q].at = "refresh" => reader'[q].refresh # Nobody
    BY <2>1, <2>2, <2>3 DEF RowTyped
  <2> QED BY <1>7, <2>3, <2>4 DEF Look, RowTyped, rowVars
<1>8. ASSUME NEW r \in Readers, reader' = [reader EXCEPT ![r] = AtRest]
      PROVE  /\ reader' \in [Readers -> ReaderRecord]
             /\ \A q \in Readers : reader'[q].at = "refresh" => reader'[q].refresh # Nobody
  BY <1>2, <1>8 DEF RowTyped
<1>9. ASSUME NEW r \in Readers, Renewed(r) PROVE RowTyped'
  <2>1. \E account \in Accounts : Store(account) \/ (account = Own /\ StoreOwn)
    <3>1. reader[r] \in ReaderRecord
      BY DEF RowTyped
    <3>2. reader[r].at = "refresh" => reader[r].refresh \in Accounts
      BY <3>1 DEF RowTyped, ReaderRecord, Someone
    <3> QED BY <1>9, <3>2 DEF Renewed
  <2> QED BY <1>8, <1>9, <2>1, StoredIsTyped DEF Renewed, RowTyped
<1>10. ASSUME NEW r \in Readers, MarkReconnect(r) PROVE RowTyped'
  <2>1. [reader[r].copy EXCEPT !.reconnect = TRUE] \in PublicConfig
    BY DEF RowTyped, ReaderRecord, PublicConfig
  <2> QED BY <1>8, <1>10, <2>1 DEF MarkReconnect, RowTyped
<1>11. CASE ConnectOwn
  BY <1>11, StoredIsTyped DEF ConnectOwn, RowTyped
<1>12. CASE Disconnect
  BY <1>12 DEF Disconnect, RowTyped, PublicConfig, Blank, NoTokens, Someone
<1>13. CASE Configure
  BY <1>13 DEF Configure, RowTyped, Someone
<1>14. CASE TokenExpires
  BY <1>14 DEF TokenExpires, RowTyped, PublicConfig
<1>15. CASE UNCHANGED connVars
  BY <1>1, <1>15, Zenon DEF connVars
<1> QED
  BY <1>3, <1>4, <1>5, <1>6, <1>7, <1>9, <1>10, <1>11, <1>12, <1>13, <1>14, <1>15, Zenon DEF ConnNext

LEMMA RowStartsTyped == ConnInit => RowTyped
<1>1. Blank \in PublicConfig /\ NoTokens \in [access : Someone, refresh : Someone]
  BY DEF Blank, NoTokens, PublicConfig, Someone
<1>2. AtRest \in ReaderRecord /\ AtRest.at = "rest"
  BY <1>1 DEF AtRest, ReaderRecord, Someone
<1> QED BY <1>1, <1>2 DEF ConnInit, RowTyped

(* The row, its tokens, the cache and those who read them keep their types.*)
THEOREM ConnectionTypes == ConnSpec => []ConnTypeOK
<1>1. ConnInv /\ RowTyped => ConnTypeOK
  BY DEF ConnInv, StatesTypeOK, RowTyped, PublicConfig, ReaderRecord, ConnTypeOK
<1> QED BY <1>1, RowStartsTyped, RowStaysTyped, StatesAreClaimedOnce, PTL DEF ConnSpec

-----------------------------------------------------------------------------
(* ANALYTICS.  The stored visits, the conversions and the calls that       *)
(* record them keep their types: a call is of an order and an attempt.     *)
CallRecord == [at : {"idle", "read", "insert", "flag"}, order : Sold, attempt : 0..Attempts,
               visit : Sessions \cup {NoVisit}]

(* A call begins and ends as a call.                                       *)
LEMMA CallsAreCalls ==
  /\ NoCall \in CallRecord
  /\ \A p \in Paid : Call(p) \in CallRecord
<1> USE AnalyticsAssumption
<1> DEFINE first == CHOOSE o \in Sold : TRUE
<1>1. first \in Sold
  OBVIOUS
<1>2. NoCall = [at |-> "idle", order |-> first, attempt |-> 0, visit |-> NoVisit]
  BY DEF NoCall
<1> HIDE DEF first
<1>3. NoCall \in CallRecord
  BY <1>1, <1>2 DEF CallRecord
<1>4. ASSUME NEW p \in Paid PROVE Call(p) \in CallRecord
  <2>1. p[1] \in Sold /\ p[2] \in 0..Attempts
    BY DEF Paid
  <2>2. PICK read \in {"idle", "read", "insert", "flag"} : read = "read"
    OBVIOUS
  <2>3. Call(p) = [NoCall EXCEPT !.at = read, !.order = p[1], !.attempt = p[2]]
    BY <2>2, Zenon DEF Call
  <2> QED BY <1>3, <2>1, <2>2, <2>3 DEF CallRecord
<1> QED BY <1>3, <1>4

LEMMA AnaTyped == AnaTypeOK /\ [AnaNext]_anaVars => AnaTypeOK'
<1> SUFFICES ASSUME AnaTypeOK, [AnaNext]_anaVars PROVE AnaTypeOK'
  OBVIOUS
<1> USE AnalyticsAssumption
<1>0. record \in [Recorders -> CallRecord]
  BY DEF AnaTypeOK, CallRecord
<1>1. ASSUME NEW c \in Recorders, NEW new \in CallRecord, record' = [record EXCEPT ![c] = new]
      PROVE  record' \in [Recorders -> CallRecord]
  BY <1>0, <1>1
<1>2. ASSUME NEW o \in Sold, LinkOrder(o) PROVE AnaTypeOK'
  BY <1>2 DEF LinkOrder, AnaTypeOK
<1>3. ASSUME NEW p \in Paid, Approve(p) PROVE AnaTypeOK'
  <2>1. record' \in [Recorders -> CallRecord]
    BY <1>1, <1>3, CallsAreCalls DEF Approve, Recorders
  <2> QED BY <1>3, <2>1 DEF Approve, AnaTypeOK, CallRecord
<1>4. ASSUME NEW p \in Paid, Refund(p) PROVE AnaTypeOK'
  BY <1>4 DEF Refund, AnaTypeOK
<1>5. ASSUME NEW v \in Sessions, Purge(v) PROVE AnaTypeOK'
  BY <1>5 DEF Purge, AnaTypeOK
<1>6. ASSUME NEW c \in Recorders, ReadAttribution(c) PROVE AnaTypeOK'
  <2> DEFINE v == attribution[record[c].order]
  <2>1. CASE v \in Sessions
    <3>1. PICK insert \in {"idle", "read", "insert", "flag"} : insert = "insert"
      OBVIOUS
    <3>2. record' = [record EXCEPT ![c] = [record[c] EXCEPT !.at = insert, !.visit = v]]
      BY <1>6, <2>1, <3>1 DEF ReadAttribution
    <3>3. [record[c] EXCEPT !.at = insert, !.visit = v] \in CallRecord
      BY <1>0, <2>1 DEF CallRecord
    <3>4. record' \in [Recorders -> CallRecord]
      BY <1>1, <3>2, <3>3
    <3> QED BY <1>6, <3>4 DEF ReadAttribution, AnaTypeOK, CallRecord
  <2>2. CASE v \notin Sessions
    <3>1. record' \in [Recorders -> CallRecord]
      BY <1>1, <1>6, <2>2, CallsAreCalls DEF ReadAttribution
    <3> QED BY <1>6, <3>1 DEF ReadAttribution, AnaTypeOK, CallRecord
  <2> QED BY <2>1, <2>2
<1>7. ASSUME NEW c \in Recorders, Insert(c) PROVE AnaTypeOK'
  <2>1. record' \in [Recorders -> CallRecord]
    BY <1>0, <1>7 DEF Insert, CallRecord
  <2>2. record[c] \in CallRecord
    BY <1>0
  <2>3. [made |-> TRUE, attempt |-> record[c].attempt] \in [made : BOOLEAN, attempt : 0..Attempts]
    BY <2>2 DEF CallRecord
  <2>4. conversion' \in [Sold -> [made : BOOLEAN, attempt : 0..Attempts]]
    BY <1>7, <2>2, <2>3 DEF Insert, AnaTypeOK, CallRecord
  <2> QED BY <1>7, <2>1, <2>4 DEF Insert, AnaTypeOK, CallRecord
<1>8. ASSUME NEW c \in Recorders, FlagSession(c) PROVE AnaTypeOK'
  <2>1. record' \in [Recorders -> CallRecord]
    BY <1>1, <1>8, CallsAreCalls DEF FlagSession
  <2> QED BY <1>8, <2>1 DEF FlagSession, AnaTypeOK, CallRecord
<1>9. ASSUME NEW c \in Recorders, ForeignKeyFails(c) PROVE AnaTypeOK'
  <2>1. record' \in [Recorders -> CallRecord]
    BY <1>1, <1>9, CallsAreCalls DEF ForeignKeyFails
  <2> QED BY <1>9, <2>1 DEF ForeignKeyFails, AnaTypeOK, CallRecord
<1>10. ASSUME NEW c \in Recorders, IsLost(c) PROVE AnaTypeOK'
  <2>1. record' \in [Recorders -> CallRecord]
    BY <1>1, <1>10, CallsAreCalls DEF IsLost
  <2>2. losses' \in 0..MaxLost
    BY <1>10 DEF IsLost, AnaTypeOK
  <2> QED BY <1>10, <2>1, <2>2 DEF IsLost, AnaTypeOK, CallRecord
<1>11. CASE Tick
  BY <1>11 DEF Tick, AnaTypeOK
<1>12. CASE TickNext
  <2>1. record' \in [Recorders -> CallRecord]
    <3>1. PICK p \in todo : record' = [record EXCEPT ![Ticker] = Call(p)]
      BY <1>12 DEF TickNext
    <3>2. p \in Paid /\ Ticker \in Recorders
      BY DEF AnaTypeOK, Recorders
    <3> QED BY <1>1, <3>1, <3>2, CallsAreCalls
  <2> QED BY <1>12, <2>1 DEF TickNext, AnaTypeOK, CallRecord
<1>13. CASE UNCHANGED anaVars
  BY <1>13 DEF anaVars, AnaTypeOK
<1> QED
  BY <1>2, <1>3, <1>4, <1>5, <1>6, <1>7, <1>8, <1>9, <1>10, <1>11, <1>12, <1>13, Zenon
     DEF AnaNext, CallStep

(* Visits, conversions and calls keep their types, for any number of       *)
(* orders, payments and sessions.                                          *)
THEOREM AnalyticsTypes == AnaSpec => []AnaTypeOK
<1>1. AnaInit => AnaTypeOK
  <2> SUFFICES ASSUME AnaInit PROVE AnaTypeOK
    OBVIOUS
  <2>1. record \in [Recorders -> CallRecord]
    BY CallsAreCalls DEF AnaInit
  <2>2. NoConversion \in [made : BOOLEAN, attempt : 0..Attempts]
    BY AnalyticsAssumption DEF NoConversion
  <2> QED BY <2>1, <2>2, AnalyticsAssumption DEF AnaInit, AnaTypeOK, CallRecord
<1> QED BY <1>1, AnaTyped, PTL DEF AnaSpec

-----------------------------------------------------------------------------
(* THE WHOLE.  A behaviour takes the steps of one component: what the      *)
(* others promise holds of the state they stay in.                         *)
LEMMA BackOfficeSteps ==
  ASSUME [BoNext]_boVars
  PROVE  [ShipNext]_shipVars /\ [ConnNext]_connVars /\ [AnaNext]_anaVars
BY Zenon DEF BoNext, boVars, ShipmentsStep, ConnectionStep, AnalyticsStep

(* Every step of the whole is a step of each component or leaves it alone. *)
LEMMA BackOfficeIsItsParts == BoSpec => ShipSpec /\ ConnSpec /\ AnaSpec
<1>1. BoInit => ShipInit /\ ConnInit /\ AnaInit
  BY DEF BoInit
<1> QED BY <1>1, BackOfficeSteps, PTL DEF BoSpec, ShipSpec, ConnSpec, AnaSpec

(* The types of all components' states, for any value of the constants.    *)
THEOREM BackOfficeTypes == BoSpec => []BoTypeOK
<1>1. ShipTypeOK /\ ConnTypeOK /\ AnaTypeOK => BoTypeOK
  BY DEF BoTypeOK
<1> QED BY <1>1, BackOfficeIsItsParts, ShipmentTypes, ConnectionTypes, AnalyticsTypes, PTL

(* What the shipments and the connection promise holds of the whole.       *)
THEOREM BackOfficeCorrect == BoSpec => [](ImportedIsWhole /\ OneCarrierOrder /\ AuthorisedOnce)
BY BackOfficeIsItsParts, ImportedStaysWhole, OneOrderPerParcel, OneExchange, PTL
=============================================================================
