----------------------------- MODULE Connection -----------------------------
(***************************************************************************)
(* The shop's connection to Mercado Pago (commerce/mercadopago_oauth.py):  *)
(* an owner authorises an account, or connects the application's own, the  *)
(* checkout and the tasks renew the access token when they need it, and    *)
(* the owner disconnects.                                                  *)
(*                                                                         *)
(* The row is locked where credentials are stored and where they are       *)
(* dropped.  It is not locked between a reader's look at an expired token  *)
(* and the answer of Mercado Pago, nor when a failure is marked: then the  *)
(* reader's copy of public_config replaces whatever the row has become.    *)
(***************************************************************************)
EXTENDS Integers, FiniteSets

CONSTANTS
  Accounts,    \* accounts of Mercado Pago that may be connected
  Own,         \* the account of the application itself
  States,      \* states handed out with an authorisation
  Callbacks,   \* requests to the callback's address
  Readers,     \* requests and tasks that need an access token
  Nobody       \* no account

ASSUME ConnectionAssumption == Own \in Accounts /\ Nobody \notin Accounts /\ States # {}

VARIABLES
  enabled,     \* IntegrationConfiguration.enabled
  public,      \* its public_config
  secret,      \* its sealed tokens, each by the account it is for
  pending,     \* states in the cache with their code verifier
  used,        \* states in the cache as used
  exchanged,   \* how often the code of a state was exchanged
  callback,    \* where each callback is
  reader       \* where each reader is, and the copy it has read

rowVars == <<enabled, public, secret>>
stateVars == <<pending, used, exchanged, callback>>
connVars == <<rowVars, stateVars, reader>>

Someone == Accounts \cup {Nobody}
Blank == [account |-> Nobody, grant |-> "code", expires |-> "unknown", reconnect |-> FALSE]
NoTokens == [access |-> Nobody, refresh |-> Nobody]
AtRest == [at |-> "rest", copy |-> Blank, refresh |-> Nobody]

-----------------------------------------------------------------------------
ConnInit ==
  /\ enabled = FALSE /\ public = Blank /\ secret = NoTokens
  /\ pending = {} /\ used = {}
  /\ exchanged = [s \in States |-> 0]
  /\ callback = [b \in Callbacks |-> [at |-> "rest", state |-> CHOOSE s \in States : TRUE]]
  /\ reader = [r \in Readers |-> AtRest]

(* store_oauth_credentials, under the row's lock: the grant type stays, a  *)
(* refresh token that the answer lacks is kept.                            *)
Store(account) ==
  /\ enabled' = TRUE
  /\ public' = [public EXCEPT !.account = account, !.expires = "later", !.reconnect = FALSE]
  /\ \E refresh \in {account, secret.refresh} \ {Nobody} :
       secret' = [access |-> account, refresh |-> refresh]

(* _store_own_account_credentials                                          *)
StoreOwn ==
  /\ enabled' = TRUE
  /\ public' = [account |-> Own, grant |-> "client_credentials", expires |-> "later",
                reconnect |-> FALSE]
  /\ secret' = [access |-> Own, refresh |-> Nobody]

(* create_authorization_session draws a state of its own.                  *)
StartAuthorization(s) ==
  /\ s \notin pending \cup used /\ exchanged[s] = 0
  /\ \A b \in Callbacks : callback[b].state # s \/ callback[b].at = "rest"
  /\ pending' = pending \cup {s}
  /\ UNCHANGED <<rowVars, used, exchanged, callback, reader>>

(* consume_authorization_state adds the used mark, and only who adds it    *)
(* goes on to read and delete what is pending; the other form looks at the *)
(* pending entry alone.                                                    *)
ClaimPending(s) == s \in pending
MayClaim(s) == s \notin used

ClaimState(b, s) ==
  /\ callback[b].at = "rest" /\ MayClaim(s)
  /\ used' = used \cup {s}
  /\ callback' = [callback EXCEPT ![b] = [at |-> "claimed", state |-> s]]
  /\ UNCHANGED <<rowVars, pending, exchanged, reader>>

ReadPending(b) ==
  /\ callback[b].at = "claimed"
  /\ callback' = [callback EXCEPT ![b].at = IF callback[b].state \in pending THEN "read" ELSE "rest"]
  /\ UNCHANGED <<rowVars, pending, used, exchanged, reader>>

DeletePending(b) ==
  /\ callback[b].at = "read"
  /\ pending' = pending \ {callback[b].state}
  /\ callback' = [callback EXCEPT ![b].at = "exchange"]
  /\ UNCHANGED <<rowVars, used, exchanged, reader>>

(* The callback exchanges the code and stores what Mercado Pago gives.     *)
Connect(b, account) ==
  /\ callback[b].at = "exchange"
  /\ Store(account)
  /\ exchanged' = [exchanged EXCEPT ![callback[b].state] = @ + 1]
  /\ callback' = [callback EXCEPT ![b].at = "rest"]
  /\ UNCHANGED <<pending, used, reader>>

(* Mercado Pago refuses, the actor has lost the permission, a crash.       *)
CallbackEnds(b) ==
  /\ callback[b].at # "rest"
  /\ callback' = [callback EXCEPT ![b].at = "rest"]
  /\ UNCHANGED <<rowVars, pending, used, exchanged, reader>>

(* Both entries live for ten minutes.  The used mark is younger than the   *)
(* pending entry, so it is the last to go; the other form lets it go first.*)
UsedGoesFirst(s) == TRUE
UsedMayGo(s) == s \notin pending

ExpirePending(s) ==
  /\ s \in pending
  /\ pending' = pending \ {s}
  /\ UNCHANGED <<rowVars, used, exchanged, callback, reader>>

ExpireUsed(s) ==
  /\ s \in used /\ UsedMayGo(s)
  /\ used' = used \ {s}
  /\ UNCHANGED <<rowVars, pending, exchanged, callback, reader>>

ConnectOwn ==
  /\ StoreOwn
  /\ UNCHANGED <<stateVars, reader>>

Disconnect ==
  /\ enabled' = FALSE /\ public' = Blank /\ secret' = NoTokens
  /\ UNCHANGED <<stateVars, reader>>

(* IntegrationDetailView.patch: the owner switches the row on or off, or   *)
(* clears a token.                                                         *)
Configure ==
  /\ enabled' \in BOOLEAN
  /\ secret' \in {secret, [secret EXCEPT !.access = Nobody], [secret EXCEPT !.refresh = Nobody]}
  /\ UNCHANGED <<public, stateVars, reader>>

(* resolve_oauth_access_token looks at the row: a good token is returned   *)
(* and nothing happens; otherwise it asks Mercado Pago for another, with   *)
(* the application's credentials or with the refresh token it has read.    *)
NeedsRenewal == secret.access = Nobody \/ public.expires = "soon"

Look(r) ==
  /\ reader[r].at = "rest"
  /\ enabled /\ NeedsRenewal
  /\ reader' = [reader EXCEPT ![r] =
       [at |-> IF public.grant = "client_credentials" THEN "own"
               ELSE IF secret.refresh # Nobody THEN "refresh" ELSE "mark",
        copy |-> public, refresh |-> secret.refresh]]
  /\ UNCHANGED <<rowVars, stateVars>>

Renewed(r) ==
  /\ \/ reader[r].at = "refresh" /\ Store(reader[r].refresh)
     \/ reader[r].at = "own" /\ StoreOwn
  /\ reader' = [reader EXCEPT ![r] = AtRest]
  /\ UNCHANGED <<stateVars>>

(* _mark_reconnect_required saves the public_config read before the call.  *)
MarkReconnect(r) ==
  /\ reader[r].at # "rest"
  /\ public' = [reader[r].copy EXCEPT !.reconnect = TRUE]
  /\ reader' = [reader EXCEPT ![r] = AtRest]
  /\ UNCHANGED <<enabled, secret, stateVars>>

TokenExpires ==
  /\ public.expires = "later"
  /\ public' = [public EXCEPT !.expires = "soon"]
  /\ UNCHANGED <<enabled, secret, stateVars, reader>>

ConnNext ==
  \/ \E s \in States : StartAuthorization(s) \/ ExpirePending(s) \/ ExpireUsed(s)
  \/ \E b \in Callbacks :
       \/ \E s \in States : ClaimState(b, s)
       \/ \E account \in Accounts : Connect(b, account)
       \/ ReadPending(b) \/ DeletePending(b) \/ CallbackEnds(b)
  \/ \E r \in Readers : Look(r) \/ Renewed(r) \/ MarkReconnect(r)
  \/ ConnectOwn \/ Disconnect \/ Configure \/ TokenExpires

ConnSpec == ConnInit /\ [][ConnNext]_connVars

-----------------------------------------------------------------------------
ConnTypeOK ==
  /\ enabled \in BOOLEAN
  /\ public \in [account : Someone, grant : {"code", "client_credentials"},
                 expires : {"unknown", "later", "soon"}, reconnect : BOOLEAN]
  /\ secret \in [access : Someone, refresh : Someone]
  /\ pending \subseteq States /\ used \subseteq States
  /\ exchanged \in [States -> Nat]
  /\ callback \in [Callbacks -> [at : {"rest", "claimed", "read", "exchange"}, state : States]]
  /\ \A r \in Readers : reader[r].at \in {"rest", "own", "refresh", "mark"}

(* However callbacks are repeated, overlap or crash, and whatever the      *)
(* cache lets go, an authorisation is used once                            *)
(* (mercadopago_oauth.py:146-156, two cache entries and no transaction).   *)
AuthorisedOnce ==
  \A s \in States :
    exchanged[s] + Cardinality({b \in Callbacks : callback[b] = [at |-> "exchange", state |-> s]}) <= 1
=============================================================================
