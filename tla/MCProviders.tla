---------------------------- MODULE MCProviders ----------------------------
(***************************************************************************)
(* The shop and the services outside it, for TLC: notifications of         *)
(* payments, calls to the carriers, the configuration of every service,    *)
(* the taxpayers' register and the verification of identities.  They share *)
(* no state: each behaviour takes the steps of one, and the others stay as *)
(* they begin.                                                             *)
(***************************************************************************)
EXTENDS WebhookEvents, CarrierCalls, Integrations, Fiscal, Identity

CONSTANTS d1, d2, d3, w1, w2

VARIABLE part

OneDocumentEach == [c1 |-> "p1", c2 |-> "p2"]

(* Deliveries differ in nothing but in being genuine: by symmetry the ones *)
(* that are may be taken to come first.                                    *)
GenuineFirst == (d3 \in genuine => d2 \in genuine) /\ (d2 \in genuine => d1 \in genuine)

ProvidersInit ==
  /\ part \in {"webhook", "carriers", "integrations", "fiscal", "identity"}
  /\ Init /\ GenuineFirst /\ (part = "webhook" \/ genuine = {})
  /\ CarrierInit /\ (part = "carriers" \/ carrier = "andreani")
  /\ IntInit /\ (part = "integrations" \/ service = "smtp")
  /\ FiscInit /\ IdInit

AtRest ==
  /\ UNCHANGED part
  /\ part # "webhook" => UNCHANGED vars
  /\ part # "carriers" => UNCHANGED carrierVars
  /\ part # "integrations" => UNCHANGED intVars
  /\ part # "fiscal" => UNCHANGED fiscVars
  /\ part # "identity" => UNCHANGED idVars

ProvidersNext ==
  \/ part = "webhook" /\ Next /\ AtRest
  \/ part = "carriers" /\ CarrierNext /\ AtRest
  \/ part = "integrations" /\ IntNext /\ AtRest
  \/ part = "fiscal" /\ FiscNext /\ AtRest
  \/ part = "identity" /\ IdNext /\ AtRest

(* The fairness of WebhookEvents: none of its actions is enabled before a  *)
(* delivery, so it asks nothing of the others' behaviours.                 *)
ProvidersSpec ==
  /\ ProvidersInit
  /\ [][ProvidersNext]_<<part, vars, carrierVars, intVars, fiscVars, idVars>>
  /\ Fairness

(* The types of the components' states (see each).                         *)
ProvidersTypeOK == TypeOK /\ CarrierTypeOK /\ IntTypeOK /\ FiscTypeOK /\ IdTypeOK
=============================================================================
