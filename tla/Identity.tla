------------------------------ MODULE Identity ------------------------------
(***************************************************************************)
(* A customer's document and its verification for an order                 *)
(* (commerce/identity_service.py, identity.py, checkout.py 201-246 and     *)
(* 306-431, the views of api_views.py and operations_views.py).            *)
(*                                                                         *)
(* A confirmation reads the document, asks the registry (SID) outside any  *)
(* transaction, and later places the order, or finds that the same one was *)
(* placed by a repeated request; the staff may correct the document and    *)
(* approve a review meanwhile.                                             *)
(***************************************************************************)
EXTENDS Integers, FiniteSets

CONSTANTS
  Documents,     \* values of a DNI
  Keys,          \* orders, by the idempotency key of their checkout
  Confirming,    \* requests that confirm: each makes at most one attempt
  Checking,      \* requests that only verify (IdentityValidateView)
  NoDocument,
  NoKey

ASSUME IdentityAssumption ==
  NoDocument \notin Documents /\ NoKey \notin Keys /\ Confirming \cap Checking = {}

VARIABLES
  dni,        \* what the customer's profile holds
  attempt,    \* IdentityVerification row of each request that made one
  placed,     \* the order of each key
  confirm     \* where each request is, and the copy of the document it read

idVars == <<dni, attempt, placed, confirm>>

Askers == Confirming \cup Checking
Decided == {"approved", "pending_review", "rejected"}

NoAttempt == [status |-> "none", document |-> NoDocument, order |-> NoKey]
NotPlaced == [status |-> "none", document |-> NoDocument, required |-> FALSE]
NotAsking == [at |-> "new", key |-> NoKey, document |-> NoDocument, required |-> FALSE]

IdInit ==
  /\ dni = NoDocument
  /\ attempt = [c \in Askers |-> NoAttempt]
  /\ placed = [k \in Keys |-> NotPlaced]
  /\ confirm = [c \in Askers |-> NotAsking]

Moves(c, place) == confirm' = [confirm EXCEPT ![c].at = place]

-----------------------------------------------------------------------------
(* CustomerMeView.patch, under the row's lock: the first value stays.      *)
(* Afterwards the staff correct it.                                        *)
SaveDni ==
  /\ dni = NoDocument
  /\ \E d \in Documents : dni' = d
  /\ UNCHANGED <<attempt, placed, confirm>>

CorrectDni ==
  /\ \E d \in Documents \ {dni} : dni' = d
  /\ UNCHANGED <<attempt, placed, confirm>>

-----------------------------------------------------------------------------
(* Whether the shop verifies is what its configuration says at the time.   *)
BeginConfirm(c, k, required) ==
  /\ confirm[c].at = "new" /\ dni # NoDocument
  /\ confirm' = [confirm EXCEPT ![c] =
       [at |-> IF placed[k].status # "none" THEN "done" ELSE IF required THEN "verify" ELSE "place",
        key |-> k, document |-> dni, required |-> required]]
  /\ UNCHANGED <<dni, attempt, placed>>

BeginCheck(c) ==
  /\ confirm[c].at = "new" /\ dni # NoDocument
  /\ confirm' = [confirm EXCEPT ![c] = [NotAsking EXCEPT !.at = "verify", !.document = dni,
                                                         !.required = TRUE]]
  /\ UNCHANGED <<dni, attempt, placed>>

(* validate_identity.  No configuration or no answer is left to the staff; *)
(* a rejection is kept and ends the request.                               *)
Verify(c) ==
  /\ confirm[c].at = "verify"
  /\ \E status \in Decided :
       /\ attempt' = [attempt EXCEPT ![c] = [status |-> status, document |-> confirm[c].document,
                                             order |-> NoKey]]
       /\ Moves(c, IF status = "rejected" \/ c \in Checking THEN "done" ELSE "place")
  /\ UNCHANGED <<dni, placed>>

(* An answer that makes no sense, or refused credentials: no row.          *)
VerifyFails(c) ==
  /\ confirm[c].at = "verify" /\ Moves(c, "done")
  /\ UNCHANGED <<dni, attempt, placed>>

(* The document that the order names is the one that was looked up; the    *)
(* other form reads the profile again.                                     *)
VerifiedCopy(c) == confirm[c].document
ProfileNow(c) == dni
DocumentOf(c) == VerifiedCopy(c)

(* The transaction of confirm_checkout: the key is unique, the attempt is  *)
(* tied to the order, which a review keeps pending.                        *)
PlaceOrder(c) ==
  LET k == confirm[c].key
      review == confirm[c].required /\ attempt[c].status = "pending_review" IN
  /\ confirm[c].at = "place" /\ placed[k].status = "none"
  /\ placed' = [placed EXCEPT ![k] =
       [status |-> IF review THEN "pending" ELSE "verified",
        document |-> DocumentOf(c), required |-> confirm[c].required]]
  /\ attempt' = IF confirm[c].required THEN [attempt EXCEPT ![c].order = k] ELSE attempt
  /\ Moves(c, "done")
  /\ UNCHANGED dni

(* The key was taken in between, or the transaction failed (no stock, no   *)
(* preference): nothing of it stays.                                       *)
PlacingFails(c) ==
  /\ confirm[c].at = "place" /\ Moves(c, "undo")
  /\ UNCHANGED <<dni, attempt, placed>>

(* The attempt that no order got is deleted.                               *)
DropAttempt(c) ==
  /\ confirm[c].at = "undo"
  /\ attempt' = IF attempt[c].order = NoKey THEN [attempt EXCEPT ![c] = NoAttempt] ELSE attempt
  /\ Moves(c, "done")
  /\ UNCHANGED <<dni, placed>>

IsKilled(c) ==
  /\ confirm[c].at \in {"verify", "place", "undo"} /\ Moves(c, "killed")
  /\ UNCHANGED <<dni, attempt, placed>>

-----------------------------------------------------------------------------
(* approve_identity_manually, from the order or by itself.                 *)
ApproveManually(c) ==
  /\ attempt[c].status = "pending_review" /\ attempt[c].order # NoKey
  /\ attempt' = [attempt EXCEPT ![c].status = "approved"]
  /\ UNCHANGED <<dni, placed, confirm>>

(* resume_checkout looks for an approved attempt of the order.             *)
MayGoOnPaying(k) == \E c \in Askers : attempt[c].status = "approved" /\ attempt[c].order = k

ResumeOrder(k) ==
  /\ placed[k].status = "pending" /\ MayGoOnPaying(k)
  /\ placed' = [placed EXCEPT ![k].status = "verified"]
  /\ UNCHANGED <<dni, attempt, confirm>>

IdNext ==
  \/ SaveDni \/ CorrectDni
  \/ \E c \in Confirming :
       \/ \E k \in Keys, required \in BOOLEAN : BeginConfirm(c, k, required)
       \/ PlaceOrder(c) \/ PlacingFails(c) \/ DropAttempt(c)
  \/ \E c \in Checking : BeginCheck(c)
  \/ \E c \in Askers : Verify(c) \/ VerifyFails(c) \/ IsKilled(c) \/ ApproveManually(c)
  \/ \E k \in Keys : ResumeOrder(k)

IdSpec == IdInit /\ [][IdNext]_idVars

-----------------------------------------------------------------------------
IdTypeOK ==
  /\ dni \in Documents \cup {NoDocument}
  /\ attempt \in [Askers -> [status : Decided \cup {"none"}, document : Documents \cup {NoDocument},
                             order : Keys \cup {NoKey}]]
  /\ placed \in [Keys -> [status : {"none", "pending", "verified"},
                          document : Documents \cup {NoDocument}, required : BOOLEAN]]
  /\ confirm \in [Askers -> [at : {"new", "verify", "place", "undo", "done", "killed"},
                             key : Keys \cup {NoKey}, document : Documents \cup {NoDocument},
                             required : BOOLEAN]]

(* An order that had to be verified has one attempt, about the document    *)
(* that it names, and counts as verified only with that one's approval.    *)
AttemptIsTheOrders ==
  \A k \in Keys : placed[k].required =>
    \E c \in Confirming :
      /\ attempt[c].order = k /\ attempt[c].document = placed[k].document
      /\ placed[k].status = "verified" => attempt[c].status = "approved"
      /\ \A d \in Askers \ {c} : attempt[d].order # k

(* A confirmation that failed leaves no attempt that could pass for one of *)
(* an order, unless it was killed.                                         *)
FailedLeavesNothing ==
  \A c \in Confirming : confirm[c].at = "done" /\ attempt[c].order = NoKey =>
    attempt[c].status \in {"none", "rejected"}

(* Both, whatever corrections, repeated confirmations, reviews and crashes *)
(* come in between (checkout.py 242-246, 306-350, 397-431).                *)
OrderIsIdentified == AttemptIsTheOrders /\ FailedLeavesNothing
=============================================================================
