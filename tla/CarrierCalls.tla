---------------------------- MODULE CarrierCalls ----------------------------
(***************************************************************************)
(* How requests and tasks call the carriers (providers.py and the adapters *)
(* of commerce/shipping.py): a token from a login, kept in the adapter     *)
(* and, by Andreani's, in the cache that all processes share; requests     *)
(* that are repeated when nothing answers; and a token that is refused.    *)
(*                                                                         *)
(* Andreani's adapter drops a refused token and tries once more; MiCorreo's*)
(* fails.  Other processes log in and drop tokens at the same time: the    *)
(* cache is written and cleared without a lock.                            *)
(***************************************************************************)
EXTENDS Integers, FiniteSets

CONSTANTS
  Lines,             \* processes that call the carrier, each with an adapter
  Retries,           \* how often a request may be sent again
  MaxTokens          \* bound on the tokens that the carrier gives

ASSUME CarrierCallsAssumption == Retries \in Nat /\ MaxTokens \in Nat

NoToken == 0

VARIABLES
  carrier,   \* which of the two is called: they share nothing
  live,      \* tokens that the carrier takes
  tokens,    \* how many it has given
  cached,    \* the entry of its token in the shared cache, if it has one
  calls      \* where each caller is, what its adapter holds, what was refused to this call

carrierVars == <<carrier, live, tokens, cached, calls>>

CallKinds == IF carrier = "andreani" THEN {"safe"} ELSE {"safe", "rate"}
AtRestCall(memory) ==
  [at |-> "rest", kind |-> "safe", memory |-> memory, round |-> 0, attempt |-> 0, refused |-> {}]

CarrierInit ==
  /\ carrier \in {"andreani", "micorreo"}
  /\ live = {} /\ tokens = 0 /\ cached = NoToken
  /\ calls = [c \in Lines |-> AtRestCall(NoToken)]

(* ProviderHttpClient sends a GET again when nothing answers, and a POST   *)
(* that it is told is idempotent, as the import of a shipment is.  Logins  *)
(* and rates are a GET of Andreani and a plain POST of MiCorreo.           *)
IsIdempotent(kind) == kind = "safe" \/ carrier = "andreani"
Attempts(kind) == IF IsIdempotent(kind) THEN 1 + Retries ELSE 1

Step(c, new) == calls' = [calls EXCEPT ![c] = new]
Ends(c) == Step(c, AtRestCall(calls[c].memory))

BeginCall(c, kind) ==
  /\ calls[c].at = "rest"
  /\ Step(c, [AtRestCall(calls[c].memory) EXCEPT !.at = "authenticate", !.kind = kind])
  /\ UNCHANGED <<carrier, live, tokens, cached>>

(* _authenticate: the adapter's token, else the shared one, else a login.  *)
Authenticate(c) ==
  /\ calls[c].at = "authenticate"
  /\ \/ calls[c].memory # NoToken /\ Step(c, [calls[c] EXCEPT !.at = "send", !.attempt = 1])
     \/ /\ calls[c].memory = NoToken /\ cached # NoToken
        /\ Step(c, [calls[c] EXCEPT !.at = "send", !.attempt = 1, !.memory = cached])
     \/ /\ calls[c].memory = NoToken /\ cached = NoToken
        /\ Step(c, [calls[c] EXCEPT !.at = "login", !.attempt = 1])
  /\ UNCHANGED <<carrier, live, tokens, cached>>

LogInAtCarrier(c) ==
  /\ calls[c].at = "login" /\ tokens < MaxTokens
  /\ tokens' = tokens + 1
  /\ live' = live \cup {tokens'}
  /\ Step(c, [calls[c] EXCEPT !.memory = tokens', !.attempt = 1,
                             !.at = IF carrier = "andreani" THEN "keep" ELSE "send"])
  /\ UNCHANGED <<carrier, cached>>

KeepToken(c) ==
  /\ calls[c].at = "keep"
  /\ cached' = calls[c].memory
  /\ Step(c, [calls[c] EXCEPT !.at = "send"])
  /\ UNCHANGED <<carrier, live, tokens>>

(* A timeout, no connection, or a status that says to come back.           *)
NoAnswer(c) ==
  /\ calls[c].at \in {"login", "send"}
  /\ IF calls[c].attempt < Attempts(IF calls[c].at = "login" THEN "rate" ELSE calls[c].kind)
       THEN Step(c, [calls[c] EXCEPT !.attempt = @ + 1])
       ELSE Ends(c)
  /\ UNCHANGED <<carrier, live, tokens, cached>>

(* An answer, good or not, other than a refusal of the token: the call     *)
(* returns it, or fails with it; so does a login without a token.          *)
Answered(c) ==
  /\ calls[c].at = "login" \/ (calls[c].at = "send" /\ calls[c].memory \in live)
  /\ Ends(c)
  /\ UNCHANGED <<carrier, live, tokens, cached>>

(* A refusal, of the token or of the credentials, ends a call of MiCorreo; *)
(* one of Andreani drops the token before it goes on.                      *)
Refused(c) ==
  /\ calls[c].at = "login" \/ (calls[c].at = "send" /\ calls[c].memory \notin live)
  /\ IF carrier = "micorreo" THEN Ends(c)
       ELSE Step(c, [calls[c] EXCEPT !.at = "invalidate", !.refused = @ \cup {calls[c].memory}])
  /\ UNCHANGED <<carrier, live, tokens, cached>>

(* _invalidate_token drops both copies; the other form leaves the shared.  *)
DroppedCopy == NoToken
OwnCopyOnly == cached
AfterInvalidation == DroppedCopy

InvalidateToken(c) ==
  /\ calls[c].at = "invalidate"
  /\ cached' = AfterInvalidation
  /\ IF calls[c].round = 0
       THEN Step(c, [calls[c] EXCEPT !.at = "authenticate", !.round = 1, !.memory = NoToken])
       ELSE Step(c, AtRestCall(NoToken))
  /\ UNCHANGED <<carrier, live, tokens>>

(* An adapter lives as long as its request or task.                        *)
DropAdapter(c) ==
  /\ calls[c].at = "rest" /\ calls[c].memory # NoToken
  /\ Step(c, AtRestCall(NoToken))
  /\ UNCHANGED <<carrier, live, tokens, cached>>

TokenExpires(t) ==
  /\ t \in live
  /\ live' = live \ {t}
  /\ UNCHANGED <<carrier, tokens, cached, calls>>

CachedTokenExpires ==
  /\ cached # NoToken /\ cached' = NoToken
  /\ UNCHANGED <<carrier, live, tokens, calls>>

CarrierNext ==
  \/ \E c \in Lines :
       \/ \E kind \in CallKinds : BeginCall(c, kind)
       \/ Authenticate(c) \/ LogInAtCarrier(c) \/ KeepToken(c) \/ NoAnswer(c) \/ Answered(c)
       \/ Refused(c) \/ InvalidateToken(c) \/ DropAdapter(c)
  \/ \E t \in live : TokenExpires(t)
  \/ CachedTokenExpires

CarrierSpec == CarrierInit /\ [][CarrierNext]_carrierVars

CarrierTypeOK ==
  /\ carrier \in {"andreani", "micorreo"} /\ live \subseteq 1..MaxTokens
  /\ tokens \in 0..MaxTokens /\ cached \in 0..MaxTokens
  /\ calls \in [Lines ->
       [at : {"rest", "authenticate", "login", "keep", "send", "invalidate"}, kind : CallKinds,
        memory : 0..MaxTokens, round : 0..1, attempt : 0..1 + Retries, refused : SUBSET (0..MaxTokens)]]

(* A call never presents a token that it has been refused: its second and  *)
(* last chance is not spent on the token another process had left in the   *)
(* cache, whatever processes log in, drop tokens or are late to store one. *)
RefusedIsNotReused ==
  \A c \in Lines : calls[c].at = "send" => calls[c].memory \notin calls[c].refused
=============================================================================
