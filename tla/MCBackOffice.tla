---------------------------- MODULE MCBackOffice ----------------------------
(***************************************************************************)
(* The components that tasks and the panel drive, for TLC.  They share no  *)
(* state: each behaviour takes the steps of one of them, and the others    *)
(* stay at rest.                                                           *)
(***************************************************************************)
EXTENDS Shipments, Connection, Analytics

CONSTANTS task, staff, a1, a2, s1, b1, b2, r1, o1, o2, v1

VARIABLE part

boVars == <<part, shipVars, connVars, anaVars>>

BoInit ==
  /\ part \in {"shipments", "connection", "analytics"}
  /\ ShipInit /\ ConnInit /\ AnaInit

ShipmentsStep == part = "shipments" /\ ShipNext /\ UNCHANGED <<part, connVars, anaVars>>
ConnectionStep == part = "connection" /\ ConnNext /\ UNCHANGED <<part, shipVars, anaVars>>
AnalyticsStep == part = "analytics" /\ AnaNext /\ UNCHANGED <<part, shipVars, connVars>>

BoNext == ShipmentsStep \/ ConnectionStep \/ AnalyticsStep

(* The fairness of each component, in the behaviours that are its own.     *)
BoFairness ==
  /\ \A c \in Requests : SF_shipVars(part = "shipments" /\ Resume(c))
  /\ \A c \in Callers : SF_shipVars(part = "shipments" /\ Work(c))
  /\ \A p \in Parcels : WF_shipVars(part = "shipments" /\ PollIsDue(p))
  /\ WF_shipVars(part = "shipments" /\ Age)
  /\ WF_anaVars(part = "analytics" /\ Tick)
  /\ WF_anaVars(part = "analytics" /\ TickNext)
  /\ WF_anaVars(part = "analytics" /\ CallStep(Ticker))

BoSpec == BoInit /\ [][BoNext]_boVars /\ BoFairness

(* The types of the three components' states (see each).                   *)
BoTypeOK == ShipTypeOK /\ ConnTypeOK /\ AnaTypeOK
=============================================================================
