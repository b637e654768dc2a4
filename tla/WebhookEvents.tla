---------------------------- MODULE WebhookEvents ----------------------------
(***************************************************************************)
(* One notification of the payment provider, from its deliveries to the    *)
(* worker that applies the payment it announces: ingest_webhook and        *)
(* process_webhook_event (commerce/payments.py), their tasks and the sweep *)
(* that recovers what was lost (commerce/tasks.py).                        *)
(*                                                                         *)
(* A delivery runs outside a transaction: it inserts the event's row, or   *)
(* reads the row that is there, and saves it later without looking again.  *)
(* A worker claims the event under the row's lock, asks the provider and   *)
(* applies the answer without it, and then writes the outcome with a plain *)
(* UPDATE.  The sweep selects ids in one statement and updates them in     *)
(* another.  What applying the payment does is in Checkout.                *)
(***************************************************************************)
EXTENDS Integers, FiniteSets

CONSTANTS
  Deliveries,    \* HTTP requests that carry this event's id
  Workers,       \* Celery workers
  MaxMessages,   \* bound: tasks for the event waiting in the broker
  MaxLosses      \* bound: tasks and workers that are lost

ASSUME WebhookAssumption ==
  /\ MaxMessages \in Nat \ {0}
  /\ MaxLosses \in Nat

VARIABLES
  status,      \* PaymentWebhookEvent.status; "absent" without a row
  valid,       \* signature_valid
  done,        \* processed_at is set
  stale,       \* updated_at is five minutes old
  genuine,     \* the deliveries whose signature and timestamp are valid
  request,     \* how far each delivery is
  messages,    \* process_payment_webhook tasks in the broker
  worker,      \* how far each worker is with the event
  due,         \* the running sweep has selected the event
  handled,     \* the payment was applied, or found not to match
  losses       \* tasks and workers lost so far

rowVars == <<status, valid, done, stale>>
requestVars == <<genuine, request>>
queueVars == <<messages, losses>>
vars == <<rowVars, requestVars, queueVars, worker, due, handled>>

Open == {"queued", "processing"}
Sent(n) == messages + n <= MaxMessages /\ messages' = messages + n
Lost == losses < MaxLosses /\ losses' = losses + 1

-----------------------------------------------------------------------------
Init ==
  /\ status = "absent" /\ valid = FALSE /\ done = FALSE /\ stale = FALSE
  /\ genuine \in SUBSET Deliveries
  /\ request = [d \in Deliveries |-> "new"]
  /\ messages = 0 /\ losses = 0
  /\ worker = [w \in Workers |-> "idle"]
  /\ due = FALSE /\ handled = FALSE

Goes(d, s) == request' = [request EXCEPT ![d] = s] /\ UNCHANGED genuine

(* ingest_webhook inserts the row ...                                      *)
Create(d) ==
  /\ request[d] = "new"
  /\ status = "absent"
  /\ status' = "received"
  /\ Goes(d, "creating")
  /\ UNCHANGED <<valid, done, stale, queueVars, worker, due, handled>>

(* ... or finds it: a duplicate, unless this delivery may replace one that *)
(* was not valid.                                                          *)
Find(d) ==
  /\ request[d] = "new"
  /\ status # "absent"
  /\ Goes(d, IF valid \/ d \notin genuine THEN "answered" ELSE "replacing")
  /\ UNCHANGED <<rowVars, queueVars, worker, due, handled>>

(* The delivery that made the row and is not valid rejects it.             *)
Reject(d) ==
  /\ request[d] = "creating"
  /\ d \notin genuine
  /\ status' = "rejected" /\ valid' = FALSE /\ stale' = FALSE
  /\ Goes(d, "answered")
  /\ UNCHANGED <<done, queueVars, worker, due, handled>>

Accept(d) ==
  /\ request[d] \in {"creating", "replacing"}
  /\ d \in genuine
  /\ status' = "queued" /\ valid' = TRUE /\ done' = FALSE /\ stale' = FALSE
  /\ Goes(d, "saved")
  /\ UNCHANGED <<queueVars, worker, due, handled>>

Enqueue(d) ==
  /\ request[d] = "saved"
  /\ Sent(1)
  /\ Goes(d, "answered")
  /\ UNCHANGED <<rowVars, losses, worker, due, handled>>

-----------------------------------------------------------------------------
Is(w, s) == worker' = [worker EXCEPT ![w] = s]

(* process_webhook_event has nothing to do for an event that is processed  *)
(* or claimed ...                                                          *)
Claimable == ~done /\ status # "processing"
Skip(w) ==
  /\ worker[w] = "idle"
  /\ messages > 0
  /\ ~Claimable
  /\ messages' = messages - 1
  /\ UNCHANGED <<rowVars, requestVars, losses, worker, due, handled>>

(* ... and claims it otherwise.                                            *)
Claim(w) ==
  /\ worker[w] = "idle"
  /\ messages > 0
  /\ Claimable
  /\ messages' = messages - 1
  /\ status' = "processing" /\ stale' = FALSE
  /\ Is(w, "asking")
  /\ UNCHANGED <<valid, done, requestVars, losses, due, handled>>

(* The provider answers and the payment is applied, or does not match.     *)
Answer(w) ==
  /\ worker[w] = "asking"
  /\ \E outcome \in {"processed", "needs_attention"} : Is(w, outcome)
  /\ handled' = TRUE
  /\ UNCHANGED <<rowVars, requestVars, queueVars, due>>

Finish(w) ==
  /\ worker[w] \in {"processed", "needs_attention"}
  /\ status' = worker[w] /\ done' = TRUE
  /\ Is(w, "idle")
  /\ UNCHANGED <<valid, stale, requestVars, queueVars, due, handled>>

(* The provider fails, and Celery tries again (up to five times); or the   *)
(* payment cannot be applied, and nobody does.  The other forms put the    *)
(* event back to where it was before it was validated, or misspell its     *)
(* status, a column without choices.                                       *)
RequeueReceived == status' = "received"
RequeueMisspelt == status' = "queue"
Requeue == status' = "queued"
Fail(w) ==
  /\ worker[w] = "asking"
  /\ Requeue
  /\ Is(w, "idle")
  /\ \E n \in 0..1 : Sent(n)
  /\ UNCHANGED <<valid, done, stale, requestVars, losses, due, handled>>

(* The worker gets no adapter, because the access token cannot be renewed  *)
(* (or for any other reason): before anything was claimed, and whatever    *)
(* the event has become, it is queued.                                     *)
NoAdapter(w) ==
  /\ worker[w] = "idle"
  /\ messages > 0
  /\ Requeue
  /\ messages' \in {messages - 1, messages}
  /\ UNCHANGED <<valid, done, stale, requestVars, losses, worker, due, handled>>

-----------------------------------------------------------------------------
(* Five minutes pass since the row was last saved.                         *)
Age ==
  /\ status \in Open
  /\ ~stale
  /\ stale' = TRUE
  /\ UNCHANGED <<status, valid, done, requestVars, queueVars, worker, due, handled>>

(* sweep_stale_webhook_events selects the event; and the sweep that only   *)
(* looks for claims nobody finished.                                       *)
ForgottenInProcessing == stale /\ status = "processing"
Forgotten == stale /\ status \in Open
SweepSelect ==
  /\ ~due
  /\ Forgotten
  /\ due' = TRUE
  /\ UNCHANGED <<rowVars, requestVars, queueVars, worker, handled>>

(* It updates and enqueues what it selected, whatever that has become.     *)
SweepEnqueue ==
  /\ due
  /\ due' = FALSE
  /\ status' = "queued" /\ stale' = FALSE
  /\ Sent(1)
  /\ UNCHANGED <<valid, done, requestVars, losses, worker, handled>>

(* The broker loses a task; a web process stops between saving the event   *)
(* and enqueueing it, or before saving it; a worker stops.                 *)
LoseMessage ==
  /\ Lost
  /\ messages > 0 /\ messages' = messages - 1
  /\ UNCHANGED <<rowVars, requestVars, worker, due, handled>>
LoseRequest(d) ==
  /\ Lost
  /\ request[d] \in {"creating", "replacing", "saved"}
  /\ Goes(d, "answered")
  /\ UNCHANGED <<rowVars, messages, worker, due, handled>>
LoseWorker(w) ==
  /\ Lost
  /\ worker[w] # "idle"
  /\ Is(w, "idle")
  /\ UNCHANGED <<rowVars, requestVars, messages, due, handled>>

Next ==
  \/ \E d \in Deliveries : \/ Create(d) \/ Find(d) \/ Reject(d) \/ Accept(d)
                           \/ Enqueue(d) \/ LoseRequest(d)
  \/ \E w \in Workers : \/ Skip(w) \/ Claim(w) \/ Answer(w) \/ Finish(w)
                        \/ Fail(w) \/ NoAdapter(w) \/ LoseWorker(w)
  \/ Age \/ SweepSelect \/ SweepEnqueue \/ LoseMessage

Spec == Init /\ [][Next]_vars

(* Time passes, beat enqueues the sweep every minute, and the workers take *)
(* their tasks; an adapter, asked for again and again, is there at last,   *)
(* and the provider, asked again and again, answers.                       *)
Fairness ==
  /\ WF_vars(Age) /\ WF_vars(SweepSelect) /\ WF_vars(SweepEnqueue)
  /\ \A w \in Workers : WF_vars(Finish(w))
  /\ SF_vars(\E w \in Workers : Skip(w) \/ Claim(w))
  /\ SF_vars(\E w \in Workers : Answer(w))

FairSpec == Spec /\ Fairness
-----------------------------------------------------------------------------
(* The fields hold what their columns can hold.                            *)
TypeOK ==
  /\ status \in {"absent", "received", "rejected", "queued", "processing",
                 "processed", "needs_attention"}
  /\ valid \in BOOLEAN /\ done \in BOOLEAN /\ stale \in BOOLEAN
  /\ genuine \subseteq Deliveries
  /\ request \in [Deliveries -> {"new", "creating", "replacing", "saved", "answered"}]
  /\ messages \in 0..MaxMessages
  /\ worker \in [Workers -> {"idle", "asking", "processed", "needs_attention"}]
  /\ due \in BOOLEAN /\ handled \in BOOLEAN
  /\ losses \in 0..MaxLosses

(* An accepted event whose payment is not applied yet is one the sweep can *)
(* still see, and only an applied one counts as processed: no interleaving *)
(* of deliveries, workers, failures and sweeps files it away.              *)
UnhandledIsOpen ==
  /\ valid /\ ~handled => status \in Open
  /\ done => handled

(* An accepted event is applied at last, though tasks and workers are lost *)
(* and the provider fails.  (Unless an invalid delivery of the same event  *)
(* rejects the row it made after a valid one was accepted on it.)          *)
AcceptedIsHandled == valid ~> (handled \/ ~valid)
=============================================================================
