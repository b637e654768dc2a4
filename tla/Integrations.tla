---------------------------- MODULE Integrations ----------------------------
(***************************************************************************)
(* The configuration of an external service (backoffice/integrations.py    *)
(* and views.py): owners save it field by field and test it, the panel     *)
(* says what state it is in, and the parts of the shop that use the        *)
(* service read the row for themselves (commerce/provider_config.py,       *)
(* accounts/fiscal_identity.py, accounts/email_policy.py,                  *)
(* accounts/google_identity.py, locations/map_config.py).                  *)
(*                                                                         *)
(* A field is a text that is filled or not, and some have a value that     *)
(* counts for more.  The CUIT that ARCA is asked for may be no CUIT, the   *)
(* maps may not be Google's, Mercado Pago may have been connected as the   *)
(* application's own account: "special" says that it is, that they are,    *)
(* that it was.  And nothing looks, when they are saved, whether the       *)
(* amounts of a carrier's policy are numbers, or Google's client_id and    *)
(* what is filled of Mercado Pago's application are more than spaces, for  *)
(* which their readers look: "legible" says so.                            *)
(***************************************************************************)
EXTENDS Integers, FiniteSets

CONSTANTS
  Configuring,        \* owners at the panel
  AppInSettings,      \* whether the environment names an application of Mercado
                      \* Pago and the secret of its webhook
  HttpsBackUrl        \* whether the environment's address of the shop is https

ASSUME IntegrationsAssumption == AppInSettings \in BOOLEAN /\ HttpsBackUrl \in BOOLEAN

(* INTEGRATION_DEFINITIONS: the required fields of each, and the others    *)
(* that decide something.  The fields of an origin and of a sender, and    *)
(* those of a mail server, are required together and stand here as one.    *)
(* The ninth, "backups", is left out: no part of the shop reads it.        *)
RequiredPublic ==
  [mercadopago |-> {"collector_id"}, correo_argentino |-> {"customer_id", "origin"},
   andreani |-> {"customer_id", "contract", "origin", "sender"}, sid_renaper |-> {"base_url"},
   arca_a13 |-> {"represented_cuit"}, smtp |-> {"host", "from_email"},
   google_identity |-> {"client_id"}, geolocation |-> {"provider"}]

RequiredSecrets ==
  [mercadopago |-> {"access_token", "webhook_secret"}, correo_argentino |-> {"username", "password"},
   andreani |-> {"username", "password"}, sid_renaper |-> {"access_token"}, arca_a13 |-> {},
   smtp |-> {"username", "password"}, google_identity |-> {}, geolocation |-> {}]

Optional ==
  [p \in DOMAIN RequiredPublic |->
     CASE p = "mercadopago" -> {"refresh_token", "oauth_client_id", "oauth_client_secret"}
       [] p = "arca_a13"    -> {"certificate_pem", "private_key_pem", "pfx_base64"}
       [] p = "geolocation" -> {"google_maps_browser_key"}
       [] OTHER             -> {}]

Services == DOMAIN RequiredPublic
Fields(p) == RequiredPublic[p] \cup RequiredSecrets[p] \cup Optional[p]
Carriers == {"correo_argentino", "andreani"}
Application == {"oauth_client_id", "oauth_client_secret"}
AccountFields == {"collector_id", "oauth_client_id"}  \* public, of Mercado Pago

VARIABLES
  service,     \* the service this behaviour is about
  row,         \* its IntegrationConfiguration
  otherFails,  \* for a carrier: the other one's row gives an adapter but no policy
  tester       \* where each owner's test is

intVars == <<service, row, otherFails, tester>>

NotStored ==
  [exists |-> FALSE, enabled |-> FALSE, filled |-> {}, special |-> FALSE, legible |-> TRUE,
   expires |-> "unknown", test |-> ""]

IntInit ==
  /\ service \in Services
  /\ row = NotStored /\ otherFails = FALSE
  /\ tester = [o \in Configuring |-> "rest"]

HasPem(r) == {"certificate_pem", "private_key_pem"} \subseteq r.filled
HasBundle(r) == HasPem(r) \/ "pfx_base64" \in r.filled

(* get_configuration_status.  The other form forgets the secrets.          *)
Complete(r) == RequiredPublic[service] \cup RequiredSecrets[service] \subseteq r.filled
PublicComplete(r) == RequiredPublic[service] \subseteq r.filled
FieldsComplete(r) == Complete(r)

Status(r) ==
  IF ~r.exists THEN "incomplete"
  ELSE IF ~r.enabled THEN "disabled"
  ELSE IF \/ ~FieldsComplete(r)
          \/ service = "arca_a13" /\ ~(r.special /\ HasBundle(r))
          \/ service = "geolocation" /\ r.special /\ "google_maps_browser_key" \notin r.filled
    THEN "incomplete"
  ELSE IF r.test = "error" THEN "error" ELSE "configured"

(* The application's id and secret, of the row or of the environment.      *)
OauthIsReady(r) ==
  /\ AppInSettings \/ Application \subseteq r.filled
  /\ r.legible \/ Application \cap r.filled = {}

(* What a user of the row gets: an adapter (whose calls may yet fail, for  *)
(* an address, a certificate or a password that is wrong), nothing, as if  *)
(* it were switched off, or an error.  (Without a row the payments and the *)
(* identities go by the environment.)  The token of an account that was    *)
(* connected has to be renewed first when it is due, ...                   *)
PaymentUse(r) ==
  LET given == "access_token" \in r.filled
      connected == "refresh_token" \in r.filled \/ r.special
  IN IF ~r.enabled \/ "webhook_secret" \notin r.filled \/ ~(connected \/ given) THEN "absent"
     ELSE IF ~HttpsBackUrl THEN "raises"
     ELSE IF given /\ (connected => r.expires # "soon") THEN "adapter"
     ELSE IF OauthIsReady(r) THEN "renews" ELSE "raises"

(* ... the policy is read once the adapter is made, for both carriers one  *)
(* after the other, ...                                                    *)
CarrierNeeds ==
  [correo_argentino |-> {"username", "password", "customer_id", "origin"},
   andreani |-> {"username", "password", "customer_id", "contract", "origin", "sender"}]

CarrierUse(r) ==
  LET made == r.enabled /\ CarrierNeeds[service] \subseteq r.filled IN
  IF otherFails \/ (made /\ ~r.legible) THEN "raises" ELSE IF made THEN "adapter" ELSE "absent"

(* ... and the others ask for their fields.  (The maps: whether they are   *)
(* what was chosen and not the other ones.)                                *)
Suffices(r) ==
  CASE service = "sid_renaper" -> {"base_url", "access_token"} \subseteq r.filled
    [] service = "arca_a13" -> "represented_cuit" \in r.filled /\ r.special /\ HasBundle(r)
    [] service = "smtp" -> {"host", "from_email", "username", "password"} \subseteq r.filled
    [] service = "google_identity" -> "client_id" \in r.filled /\ r.legible
    [] service = "geolocation" -> r.special => "google_maps_browser_key" \in r.filled

Use(r) ==
  IF service = "mercadopago" THEN PaymentUse(r)
  ELSE IF service \in Carriers THEN CarrierUse(r)
  ELSE IF r.enabled /\ Suffices(r) THEN "adapter" ELSE "absent"

(* IntegrationDetailView.patch, under the row's lock: what is given is     *)
(* merged, an empty secret keeps the old one and only clearing drops it;   *)
(* the result of a test is forgotten.  When the token expires, and whose   *)
(* account it is for, is not among the fields of the panel.                *)
Saved(enabled, filled, special, legible) ==
  [row EXCEPT !.exists = TRUE, !.enabled = enabled, !.filled = filled, !.special = special,
              !.legible = legible, !.test = ""]

SaveConfiguration ==
  /\ \E enabled \in BOOLEAN, fields \in {{f} : f \in Fields(service)} \cup {{}, Fields(service)},
        special \in (IF service \in {"arca_a13", "geolocation"} THEN BOOLEAN ELSE {row.special}),
        legible \in (IF service \in Carriers \cup {"mercadopago", "google_identity"}
                      THEN BOOLEAN ELSE {row.legible}) :
       \E filled \in {row.filled \cup fields, row.filled \ fields} :
         row' = Saved(enabled, filled, special, legible)
  /\ UNCHANGED <<service, otherFails, tester>>

(* The other carrier is saved, and its policy may become one, or none.     *)
SaveOtherCarrier ==
  /\ service \in Carriers
  /\ otherFails' = ~otherFails
  /\ UNCHANGED <<service, row, tester>>

(* IntegrationTestView.post.  The services it can call are called between  *)
(* the reading of the row and the writing of the result, which replaces    *)
(* the three columns of the test whatever the row has become.              *)
IsCalled == service \in {"arca_a13", "correo_argentino", "andreani"}

TestAtOnce ==
  /\ row.exists /\ ~IsCalled
  /\ IF service = "mercadopago" THEN OauthIsReady(row) ELSE Status(row) \in {"configured", "error"}
  /\ row' = [row EXCEPT !.test =
       IF service = "mercadopago" /\ (AppInSettings \/ "webhook_secret" \in row.filled)
         THEN "success" ELSE "pending"]
  /\ UNCHANGED <<service, otherFails, tester>>

StartTest(o) ==
  /\ tester[o] = "rest" /\ IsCalled
  /\ Status(row) \in {"configured", "error"}
  /\ tester' = [tester EXCEPT ![o] = "read"]
  /\ UNCHANGED <<service, row, otherFails>>

(* The adapter is made of the row as it is now; when it no longer gives    *)
(* one the request ends (ARCA's with an answer, a carrier's in an error    *)
(* that is not recorded).                                                  *)
MakeAdapter(o) ==
  /\ tester[o] = "read"
  /\ tester' = [tester EXCEPT ![o] = IF Use(row) = "adapter" THEN "call" ELSE "rest"]
  /\ UNCHANGED <<service, row, otherFails>>

FinishTest(o) ==
  /\ tester[o] = "call"
  /\ \E result \in {"success", "error"} : row' = [row EXCEPT !.test = result]
  /\ tester' = [tester EXCEPT ![o] = "rest"]
  /\ UNCHANGED <<service, otherFails>>

(* A renewal of Mercado Pago's token that fails is written as a test, with *)
(* the public fields as they were read before the call: here any, module   *)
(* Connection has the steps.                                               *)
MarkReconnect ==
  /\ service = "mercadopago" /\ row.exists
  /\ \E read \in SUBSET AccountFields, special, legible \in BOOLEAN,
        expires \in {"unknown", "later", "soon"} :
       row' = [row EXCEPT !.filled = read \cup (@ \ AccountFields), !.special = special,
                          !.legible = legible, !.expires = expires, !.test = "error"]
  /\ UNCHANGED <<service, otherFails, tester>>

(* store_oauth_credentials keeps or gets a refresh token; the application's*)
(* own account, in _store_own_account_credentials, has none.               *)
AppSecrets == IF AppInSettings THEN {"webhook_secret"} ELSE {}

Stored(filled, special) ==
  [Saved(TRUE, filled \cup {"collector_id", "access_token"} \cup AppSecrets, special, row.legible)
     EXCEPT !.expires = "later", !.test = "success"]

StoreTokens ==
  /\ service = "mercadopago"
  /\ \/ row' = Stored(row.filled \cup {"refresh_token"}, row.special)
     \/ row' = Stored(row.filled \ {"refresh_token"}, TRUE)
  /\ UNCHANGED <<service, otherFails, tester>>

(* Five minutes before the token expires.                                  *)
TokenIsDue ==
  /\ row.expires = "later"
  /\ row' = [row EXCEPT !.expires = "soon"]
  /\ UNCHANGED <<service, otherFails, tester>>

DisconnectAccount ==
  /\ service = "mercadopago"
  /\ row' = [Saved(FALSE, row.filled \ {"collector_id", "access_token", "refresh_token"}, FALSE,
                   row.legible) EXCEPT !.expires = "unknown"]
  /\ UNCHANGED <<service, otherFails, tester>>

IntNext ==
  \/ SaveConfiguration \/ SaveOtherCarrier \/ TestAtOnce
  \/ MarkReconnect \/ StoreTokens \/ TokenIsDue \/ DisconnectAccount
  \/ \E o \in Configuring : StartTest(o) \/ MakeAdapter(o) \/ FinishTest(o)

IntSpec == IntInit /\ [][IntNext]_intVars

IntTypeOK ==
  /\ service \in Services
  /\ row \in [exists : BOOLEAN, enabled : BOOLEAN, filled : SUBSET Fields(service),
              special : BOOLEAN, legible : BOOLEAN, expires : {"unknown", "later", "soon"},
              test : {"", "success", "pending", "error"}]
  /\ otherFails \in BOOLEAN
  /\ tester \in [Configuring -> {"rest", "read", "call"}]

(* What the panel calls configured is in use: none of the parts that read  *)
(* the row, each with conditions of its own, takes it for switched off,    *)
(* after any saves, tests, connections and failed renewals (but Google's   *)
(* client_id of spaces, google_identity.py:16); and a use that fails, fails*)
(* in an error, for what the panel does not look at: a policy that is no   *)
(* number, of either carrier (provider_config.py:125), a token that is due *)
(* without an application to renew it (mercadopago_oauth.py:538), or an    *)
(* environment without https (mercadopago.py:41).                          *)
ConfiguredIsInUse ==
  Status(row) = "configured" =>
    /\ Use(row) = "absent" => service = "google_identity" /\ ~row.legible
    /\ Use(row) = "raises" =>
         IF service \in Carriers THEN ~row.legible \/ otherFails
         ELSE ~HttpsBackUrl \/ (row.expires = "soon" /\ ~OauthIsReady(row))
=============================================================================
