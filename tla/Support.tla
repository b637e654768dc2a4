------------------------------ MODULE Support ------------------------------
(***************************************************************************)
(* Support conversations (support/services.py and its views): a customer   *)
(* or a guest opens a case, customer and staff reply, each message perhaps *)
(* with an attachment, staff change the status, and a guest's case is      *)
(* claimed by an account.                                                  *)
(*                                                                         *)
(* Creating a case locks its owner, everything else locks the case.  Files *)
(* are stored while the transaction is open, under names that are never    *)
(* used twice: a failure takes them back, and what a crash leaves behind   *)
(* belongs to nobody and is left out.                                      *)
(***************************************************************************)
EXTENDS FiniteSets, Naturals

CONSTANTS
  MaxCases,   \* bound: cases that can be opened
  Users,      \* accounts of customers
  Guests,     \* guest sessions
  Posts,      \* requests that open a case or reply
  PostKeys,   \* idempotency keys of those requests
  Attaching,  \* keys of the requests that bring an attachment
  NoOne       \* no owner, no account

Cases == 1..MaxCases
Owners == Users \cup Guests
ASSUME SupportAssumption ==
  /\ MaxCases \in Nat \ {0} /\ Attaching \subseteq PostKeys
  /\ Users \cap Guests = {} /\ NoOne \notin Owners \cup PostKeys

VARIABLES
  case,     \* SupportCase rows; status "none" is no row
  access,   \* SupportGuestAccess rows
  message,  \* idempotency keys of the messages of each case
  attached, \* messages with a SupportAttachment row
  stored,   \* files of messages, and of requests, in the private storage
  post,     \* where each request is
  claimed   \* history: cases that an account took from their opener

suppVars == <<case, access, message, attached, stored, post, claimed>>

CaseStatus == {"waiting_staff", "waiting_customer", "resolved", "closed"}
NoCase == [status |-> "none", closed_at |-> FALSE,
           customer |-> NoOne, opener |-> NoOne, key |-> NoOne]
Waiting == [at |-> "rest", owner |-> NoOne, key |-> NoOne, case |-> 0]
Storing == {"open_file", "file"}

Exists(c) == case[c].status # "none"
Sees(o, c) == case[c].customer = o \/ <<c, o>> \in access

(* Row locks, held by the requests whose transaction is open.              *)
Opening == {"open_file", "open"}
OwnerIsFree(o) == \A q \in Posts : post[q].at \in Opening => post[q].owner # o
CaseIsFree(c) == \A q \in Posts : post[q].at # "rest" => post[q].case # c
NextCase(c) == \A d \in Cases : d < c => Exists(d) \/ ~CaseIsFree(d)

-----------------------------------------------------------------------------
SuppInit ==
  /\ case = [c \in Cases |-> NoCase]
  /\ access = {}
  /\ message = [c \in Cases |-> {}]
  /\ attached = {} /\ stored = {}
  /\ post = [q \in Posts |-> Waiting]
  /\ claimed = {}

Upload(q) == IF post[q].key \in Attaching THEN {<<post[q].case, post[q].key>>} ELSE {}

(* create_case locks its owner and looks for the message of an earlier     *)
(* attempt; the other form does not lock.                                  *)
NoOwnerLock(o) == TRUE
MayOpen(o) == OwnerIsFree(o)

OpenCase(q, o, k, c) ==
  /\ post[q].at = "rest" /\ MayOpen(o)
  /\ ~ \E d \in Cases : k \in message[d] /\ Sees(o, d)
  /\ ~Exists(c) /\ CaseIsFree(c) /\ NextCase(c)
  /\ post' = [post EXCEPT ![q] = [at |-> IF k \in Attaching THEN "open_file" ELSE "open",
                                  owner |-> o, key |-> k, case |-> c]]
  /\ UNCHANGED <<case, access, message, attached, stored, claimed>>

CommitCase(q) ==
  LET o == post[q].owner
      c == post[q].case IN
  /\ post[q].at = "open"
  /\ case' = [case EXCEPT ![c] = [NoCase EXCEPT !.status = "waiting_staff",
                                    !.customer = IF o \in Users THEN o ELSE NoOne,
                                    !.opener = o, !.key = post[q].key]]
  /\ access' = IF o \in Guests THEN access \cup {<<c, o>>} ELSE access
  /\ message' = [message EXCEPT ![c] = {post[q].key}]
  /\ attached' = attached \cup Upload(q)
  /\ post' = [post EXCEPT ![q] = Waiting]
  /\ UNCHANGED <<stored, claimed>>

(* append_message under the case's lock: a key that is there returns its   *)
(* message, a closed case takes none.                                      *)
TakesMessages(c) == case[c].status # "closed"

Reply(q, o, c, k) ==
  /\ post[q].at = "rest" /\ Exists(c) /\ CaseIsFree(c)
  /\ o = NoOne \/ Sees(o, c)
  /\ k \notin message[c]
  /\ TakesMessages(c)
  /\ post' = [post EXCEPT ![q] = [at |-> IF k \in Attaching THEN "file" ELSE "write",
                                  owner |-> o, key |-> k, case |-> c]]
  /\ UNCHANGED <<case, access, message, attached, stored, claimed>>

(* The files are there before the rows are committed.                      *)
StoreFile(q) ==
  /\ post[q].at \in Storing
  /\ stored' = stored \cup {<<post[q].case, post[q].key>>}
  /\ post' = [post EXCEPT ![q].at = IF @ = "file" THEN "write" ELSE "open"]
  /\ UNCHANGED <<case, access, message, attached, claimed>>

(* Message, attachment rows and status are committed together, by staff    *)
(* with an audit event.                                                    *)
CommitReply(q) ==
  /\ post[q].at = "write"
  /\ message' = [message EXCEPT ![post[q].case] = @ \cup {post[q].key}]
  /\ attached' = attached \cup Upload(q)
  /\ case' = [case EXCEPT ![post[q].case].status =
                IF post[q].owner = NoOne THEN "waiting_customer" ELSE "waiting_staff"]
  /\ post' = [post EXCEPT ![q] = Waiting]
  /\ UNCHANGED <<access, stored, claimed>>

(* An exception: create_case and append_message delete what they stored.   *)
(* A crash does not, nor an error after append_message.                    *)
FailPost(q) ==
  /\ post[q].at # "rest"
  /\ stored' = stored \ Upload(q)
  /\ post' = [post EXCEPT ![q] = Waiting]
  /\ UNCHANGED <<case, access, message, attached, claimed>>

(* ManagementSupportCaseDetailView.patch keeps closed_at with the status;  *)
(* a reply does not.  (Its query locks the case with the customer and the  *)
(* assignee it joins, which may be null: the tests' database does that,    *)
(* PostgreSQL refuses, and then nothing changes.)                          *)
Patch(c, status) ==
  /\ Exists(c) /\ CaseIsFree(c)
  /\ status # case[c].status
  /\ case' = [case EXCEPT ![c].status = status,
                          ![c].closed_at = status = "closed"]
  /\ UNCHANGED <<access, message, attached, stored, post, claimed>>

(* With the recovery code: an account takes the case, a guest gets in.     *)
ClaimCase(c, u) ==
  /\ Exists(c) /\ CaseIsFree(c)
  /\ case' = [case EXCEPT ![c].customer = u]
  /\ access' = {a \in access : a[1] # c}
  /\ claimed' = claimed \cup (IF case[c].opener = u THEN {} ELSE {c})
  /\ UNCHANGED <<message, attached, stored, post>>

EnterCase(c, g) ==
  /\ Exists(c)
  /\ access' = access \cup {<<c, g>>}
  /\ UNCHANGED <<case, message, attached, stored, post, claimed>>

SuppNext ==
  \/ \E q \in Posts :
       \/ \E o \in Owners, c \in Cases, k \in PostKeys :
            OpenCase(q, o, k, c)
       \/ \E o \in Owners \cup {NoOne}, c \in Cases, k \in PostKeys :
            Reply(q, o, c, k)
       \/ StoreFile(q) \/ CommitCase(q) \/ CommitReply(q)
       \/ FailPost(q)
  \/ \E c \in Cases :
       \/ \E status \in CaseStatus : Patch(c, status)
       \/ \E u \in Users : ClaimCase(c, u)
       \/ \E g \in Guests : EnterCase(c, g)

SuppSpec == SuppInit /\ [][SuppNext]_suppVars

-----------------------------------------------------------------------------
SuppTypeOK ==
  /\ case \in [Cases -> [status : CaseStatus \cup {"none"}, closed_at : BOOLEAN,
                         customer : Users \cup {NoOne}, opener : Owners \cup {NoOne},
                         key : PostKeys \cup {NoOne}]]
  /\ access \subseteq Cases \X Guests
  /\ message \in [Cases -> SUBSET PostKeys]
  /\ claimed \subseteq Cases
  /\ attached \subseteq Cases \X PostKeys /\ stored \subseteq Cases \X PostKeys
  /\ post \in [Posts -> [at : {"rest", "open", "write"} \cup Storing, owner : Owners \cup {NoOne},
                         key : PostKeys \cup {NoOne}, case : 0..MaxCases]]

(* Requests that overlap, are repeated, fail or crash leave no attachment  *)
(* whose file is gone (services.py:81, 134; storage.py:36).                *)
AttachmentHasFile == attached \subseteq stored

(* A closed case stays closed until staff open it, whatever replies were   *)
(* under way: its closing time and its status go together                  *)
(* (services.py:111, management_views.py:263).                             *)
ClosedIsClosed == \A c \in Cases : case[c].closed_at <=> case[c].status = "closed"

(* A repeated request opens one case: two with the same key and opener are *)
(* there only if one was, at some time, claimed by another (services.py:29,*)
(* 39).                                                                    *)
OneCasePerRequest ==
  \A c, d \in Cases :
    /\ Exists(c) /\ Exists(d) /\ c # d
    /\ case[c].opener = case[d].opener /\ case[c].key = case[d].key
    => c \in claimed \/ d \in claimed
=============================================================================
