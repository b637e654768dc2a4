--------------------------- MODULE ProvidersProofs --------------------------
(***************************************************************************)
(* What holds of the services outside the shop, for any number of          *)
(* deliveries, workers, processes, owners, requests and documents.         *)
(***************************************************************************)
EXTENDS MCProviders, TLAPS

(* NOTIFICATIONS.  The flags of the row, the sweep and the history ...     *)
Flags ==
  /\ valid \in BOOLEAN /\ done \in BOOLEAN /\ stale \in BOOLEAN
  /\ due \in BOOLEAN /\ handled \in BOOLEAN

(* ... and everything else.                                                *)
Columns ==
  /\ status \in {"absent", "received", "rejected", "queued", "processing",
                 "processed", "needs_attention"}
  /\ genuine \subseteq Deliveries
  /\ request \in [Deliveries -> {"new", "creating", "replacing", "saved", "answered"}]
  /\ messages \in 0..MaxMessages
  /\ worker \in [Workers -> {"idle", "asking", "processed", "needs_attention"}]
  /\ losses \in 0..MaxLosses

(* No step makes a flag anything but true or false.                        *)
LEMMA FlagsStay == Flags /\ [Next]_vars => Flags'
<1> SUFFICES ASSUME Flags, [Next]_vars PROVE Flags'
  OBVIOUS
<1> USE DEF Flags, rowVars
<1>1. ASSUME NEW d \in Deliveries, Create(d) PROVE Flags'
  BY <1>1, Zenon DEF Create
<1>2. ASSUME NEW d \in Deliveries, Find(d) PROVE Flags'
  BY <1>2, Zenon DEF Find
<1>3. ASSUME NEW d \in Deliveries, Reject(d) PROVE Flags'
  BY <1>3, Zenon DEF Reject
<1>4. ASSUME NEW d \in Deliveries, Accept(d) PROVE Flags'
  BY <1>4, Zenon DEF Accept
<1>5. ASSUME NEW d \in Deliveries, Enqueue(d) PROVE Flags'
  BY <1>5, Zenon DEF Enqueue
<1>6. ASSUME NEW d \in Deliveries, LoseRequest(d) PROVE Flags'
  BY <1>6, Zenon DEF LoseRequest
<1>7. ASSUME NEW w \in Workers, Skip(w) PROVE Flags'
  BY <1>7, Zenon DEF Skip
<1>8. ASSUME NEW w \in Workers, Claim(w) PROVE Flags'
  BY <1>8, Zenon DEF Claim
<1>9. ASSUME NEW w \in Workers, Answer(w) PROVE Flags'
  BY <1>9, Zenon DEF Answer
<1>10. ASSUME NEW w \in Workers, Finish(w) PROVE Flags'
  BY <1>10, Zenon DEF Finish
<1>11. ASSUME NEW w \in Workers, Fail(w) PROVE Flags'
  BY <1>11, Zenon DEF Fail
<1>18. ASSUME NEW w \in Workers, NoAdapter(w) PROVE Flags'
  BY <1>18, Zenon DEF NoAdapter
<1>12. ASSUME NEW w \in Workers, LoseWorker(w) PROVE Flags'
  BY <1>12, Zenon DEF LoseWorker
<1>13. CASE Age
  BY <1>13, Zenon DEF Age
<1>14. CASE SweepSelect
  BY <1>14, Zenon DEF SweepSelect
<1>15. CASE SweepEnqueue
  BY <1>15, Zenon DEF SweepEnqueue
<1>16. CASE LoseMessage
  BY <1>16, Zenon DEF LoseMessage
<1>17. CASE UNCHANGED vars
  BY <1>17, Zenon DEF vars
<1> QED
  BY <1>1, <1>2, <1>3, <1>4, <1>5, <1>6, <1>7, <1>8, <1>9, <1>10, <1>11, <1>12,
     <1>13, <1>14, <1>15, <1>16, <1>17, <1>18 DEF Next

(* No step takes another column, queue or worker out of its range.         *)
LEMMA ColumnsStay == Columns /\ [Next]_vars => Columns'
<1> SUFFICES ASSUME Columns, [Next]_vars PROVE Columns'
  OBVIOUS
<1> USE WebhookAssumption DEF Columns
<1>1. ASSUME NEW d \in Deliveries,
             Create(d) \/ Find(d) \/ Reject(d) \/ Accept(d) \/ Enqueue(d) \/ LoseRequest(d)
      PROVE  Columns'
  BY <1>1 DEF Create, Find, Reject, Accept, Enqueue, LoseRequest, Goes, Sent, Lost,
              rowVars, queueVars
<1>2. ASSUME NEW w \in Workers, Skip(w) \/ Claim(w) \/ Answer(w)
      PROVE  Columns'
  BY <1>2 DEF Skip, Claim, Answer, Is, rowVars, requestVars, queueVars
<1>3. ASSUME NEW w \in Workers, Finish(w) \/ Fail(w) \/ NoAdapter(w) \/ LoseWorker(w)
      PROVE  Columns'
  BY <1>3 DEF Finish, Fail, NoAdapter, Requeue, LoseWorker, Is, Sent, Lost,
              rowVars, requestVars, queueVars
<1>4. CASE Age \/ SweepSelect \/ SweepEnqueue \/ LoseMessage
  BY <1>4 DEF Age, SweepSelect, SweepEnqueue, LoseMessage, Sent, Lost,
              rowVars, requestVars, queueVars
<1>5. CASE UNCHANGED vars
  BY <1>5 DEF vars, rowVars, requestVars, queueVars
<1> QED BY <1>1, <1>2, <1>3, <1>4, <1>5 DEF Next

(* The columns' types, and that the bounds of the model are respected.     *)
THEOREM WebhookTypes == Spec => []TypeOK
<1>1. Init => Flags /\ Columns
  <2>1. Init => Flags
    BY Zenon DEF Init, Flags
  <2>2. Init => Columns
    BY WebhookAssumption DEF Init, Columns
  <2> QED BY <2>1, <2>2
<1>2. Flags /\ Columns <=> TypeOK
  BY Zenon DEF Flags, Columns, TypeOK
<1> QED BY <1>1, <1>2, FlagsStay, ColumnsStay, PTL DEF Spec

(* Strengthening: a row that is not there was not accepted, and a worker   *)
(* with an outcome to write has applied the payment.                       *)
Pending ==
  /\ UnhandledIsOpen
  /\ status = "absent" => ~valid
  /\ \A w \in Workers : worker[w] \in {"processed", "needs_attention"} => handled

(* No delivery, failure, loss or sweep files an accepted event away before *)
(* its payment is applied: the sweep of commerce/tasks.py can always find  *)
(* it (ingest_webhook, process_webhook_event).                             *)
THEOREM UnhandledStaysOpen == Spec => []UnhandledIsOpen
<1>1. Init => Pending
  BY DEF Init, Pending, UnhandledIsOpen
<1>2. TypeOK /\ Pending /\ [Next]_vars => Pending'
  <2> SUFFICES ASSUME TypeOK, Pending, [Next]_vars PROVE Pending'
    OBVIOUS
  <2> USE DEF TypeOK, Pending, UnhandledIsOpen, Open
  <2>1. ASSUME NEW d \in Deliveries,
               Create(d) \/ Find(d) \/ Reject(d) \/ Accept(d) \/ Enqueue(d) \/ LoseRequest(d)
        PROVE  Pending'
    BY <2>1 DEF Create, Find, Reject, Accept, Enqueue, LoseRequest, rowVars
  <2>2. ASSUME NEW w \in Workers, Skip(w) \/ Claim(w) \/ Answer(w)
        PROVE  Pending'
    BY <2>2 DEF Skip, Claim, Claimable, Answer, Is, rowVars
  <2>3. ASSUME NEW w \in Workers, Finish(w) \/ Fail(w) \/ NoAdapter(w) \/ LoseWorker(w)
        PROVE  Pending'
    BY <2>3 DEF Finish, Fail, NoAdapter, Requeue, LoseWorker, Is, rowVars
  <2>4. CASE Age \/ SweepSelect \/ SweepEnqueue \/ LoseMessage
    BY <2>4 DEF Age, SweepSelect, Forgotten, SweepEnqueue, LoseMessage, rowVars
  <2>5. CASE UNCHANGED vars
    BY <2>5 DEF vars, rowVars
  <2> QED BY <2>1, <2>2, <2>3, <2>4, <2>5 DEF Next
<1>3. Pending => UnhandledIsOpen
  BY DEF Pending
<1> QED BY <1>1, <1>2, <1>3, WebhookTypes, PTL DEF Spec

-----------------------------------------------------------------------------
(* CALLS TO THE CARRIERS.  A call is about tokens that were given ...      *)
TokensWereGiven ==
  /\ cached <= tokens
  /\ \A c \in Lines : calls[c].memory <= tokens /\ \A t \in calls[c].refused : t <= tokens

(* ... a token that is about to be stored is held by nobody else, and was  *)
(* refused to nobody ...                                                   *)
UnstoredIsPrivate ==
  \A c \in Lines : calls[c].at = "keep" =>
    /\ calls[c].memory # NoToken /\ calls[c].memory # cached
    /\ \A d \in Lines : calls[c].memory \notin calls[d].refused
    /\ \A d \in Lines \ {c} : calls[c].memory # calls[d].memory

(* ... and the one that was refused is gone from the adapter and the cache *)
(* once it has been dropped, for as long as the call lasts.                *)
RefusedIsGone ==
  \A c \in Lines : calls[c].at # "invalidate" =>
    /\ calls[c].memory # NoToken => calls[c].memory \notin calls[c].refused
    /\ cached # NoToken => cached \notin calls[c].refused

SendHasToken == \A c \in Lines : calls[c].at = "send" => calls[c].memory # NoToken

CarrierInv ==
  CarrierTypeOK /\ TokensWereGiven /\ UnstoredIsPrivate /\ RefusedIsGone /\ SendHasToken

(* The record of a call, whose fields change within their types.           *)
CallPlaces == {"rest", "authenticate", "login", "keep", "send", "invalidate"}
CallRecord ==
  [at : CallPlaces, kind : CallKinds, memory : 0..MaxTokens, round : 0..1,
   attempt : 0..1 + Retries, refused : SUBSET (0..MaxTokens)]

LEMMA CallRecords ==
  ASSUME NEW r \in CallRecord, NEW at \in CallPlaces
  PROVE  /\ [r EXCEPT !.at = at] \in CallRecord
         /\ \A kind \in CallKinds : [r EXCEPT !.at = at, !.kind = kind] \in CallRecord
         /\ \A a \in 0..1 + Retries :
              /\ [r EXCEPT !.attempt = a] \in CallRecord
              /\ [r EXCEPT !.at = at, !.attempt = a] \in CallRecord
              /\ \A m \in 0..MaxTokens :
                   /\ [r EXCEPT !.at = at, !.attempt = a, !.memory = m] \in CallRecord
                   /\ [r EXCEPT !.memory = m, !.attempt = a, !.at = at] \in CallRecord
         /\ \A s \in SUBSET (0..MaxTokens) : [r EXCEPT !.at = at, !.refused = s] \in CallRecord
         /\ \A n \in 0..1, m \in 0..MaxTokens :
              [r EXCEPT !.at = at, !.round = n, !.memory = m] \in CallRecord
BY DEF CallRecord, CallPlaces

(* A caller's step changes its own record only.                            *)
LEMMA CallSteps ==
  ASSUME CarrierTypeOK, NEW c \in Lines, NEW new, Step(c, new)
  PROVE  calls'[c] = new /\ \A d \in Lines \ {c} : calls'[d] = calls[d]
BY DEF CarrierTypeOK, Step

(* Types: no attempt is counted beyond the retries.                        *)
LEMMA CarrierTypesStay == CarrierTypeOK /\ [CarrierNext]_carrierVars => CarrierTypeOK'
<1> SUFFICES ASSUME CarrierTypeOK, [CarrierNext]_carrierVars PROVE CarrierTypeOK'
  OBVIOUS
<1> USE CarrierCallsAssumption DEF NoToken
<1>1. /\ calls \in [Lines -> CallRecord] /\ calls = [d \in Lines |-> calls[d]]
      /\ cached \in 0..MaxTokens /\ tokens \in 0..MaxTokens /\ live \subseteq 1..MaxTokens
      /\ "safe" \in CallKinds
  BY DEF CarrierTypeOK, CallRecord, CallPlaces, CallKinds
<1>2. ASSUME carrier' = carrier, live' \subseteq 1..MaxTokens, tokens' \in 0..MaxTokens,
             cached' \in 0..MaxTokens, calls' \in [Lines -> CallRecord]
      PROVE  CarrierTypeOK'
  BY <1>1, <1>2 DEF CarrierTypeOK, CallRecord, CallPlaces, CallKinds
<1>3. ASSUME NEW c \in Lines, NEW new \in CallRecord, Step(c, new),
             UNCHANGED <<carrier, live, tokens>>, cached' \in 0..MaxTokens
      PROVE  CarrierTypeOK'
  BY <1>1, <1>2, <1>3 DEF Step
<1> DEFINE Literals == /\ "rest" \in CallPlaces /\ "authenticate" \in CallPlaces
                       /\ "login" \in CallPlaces /\ "keep" \in CallPlaces
                       /\ "send" \in CallPlaces /\ "invalidate" \in CallPlaces
                       /\ 1 \in 0..1 /\ 1 \in 0..1 + Retries /\ 0 \in 0..MaxTokens
<1>l. Literals
  BY DEF CallPlaces
<1>0. \A c \in Lines : calls[c] \in CallRecord /\ calls[c].memory \in 0..MaxTokens
  <2>1. \A c \in Lines : calls[c] \in CallRecord
    BY <1>1
  <2> QED BY <2>1 DEF CallRecord
<1>4. \A m \in 0..MaxTokens : AtRestCall(m) \in CallRecord
  BY <1>1 DEF AtRestCall, CallRecord, CallPlaces
<1>5. ASSUME NEW c \in Lines, NEW kind \in CallKinds, BeginCall(c, kind) PROVE CarrierTypeOK'
  <2>1. [AtRestCall(calls[c].memory) EXCEPT !.at = "authenticate", !.kind = kind] \in CallRecord
    BY <1>0, <1>1, <1>4, <1>l, CallRecords
  <2> QED BY <1>1, <1>3, <1>5, <2>1 DEF BeginCall
<1>6. ASSUME NEW c \in Lines, Authenticate(c) PROVE CarrierTypeOK'
  <2>1. /\ [calls[c] EXCEPT !.at = "send", !.attempt = 1] \in CallRecord
        /\ [calls[c] EXCEPT !.at = "send", !.attempt = 1, !.memory = cached] \in CallRecord
        /\ [calls[c] EXCEPT !.at = "login", !.attempt = 1] \in CallRecord
    BY <1>0, <1>1, <1>l, CallRecords
  <2> QED BY <1>1, <1>3, <1>6, <2>1 DEF Authenticate
<1>7. ASSUME NEW c \in Lines, LogInAtCarrier(c) PROVE CarrierTypeOK'
  <2>1. tokens' \in 1..MaxTokens /\ live' \subseteq 1..MaxTokens
    BY <1>1, <1>7 DEF LogInAtCarrier
  <2>2. [calls[c] EXCEPT !.memory = tokens', !.attempt = 1,
                         !.at = IF carrier = "andreani" THEN "keep" ELSE "send"] \in CallRecord
    <3>1. (IF carrier = "andreani" THEN "keep" ELSE "send") \in CallPlaces /\ tokens' \in 0..MaxTokens
      BY <2>1, <1>l
    <3>2. ASSUME NEW at \in CallPlaces, NEW m \in 0..MaxTokens
          PROVE  [calls[c] EXCEPT !.memory = m, !.attempt = 1, !.at = at] \in CallRecord
      BY <1>0, <1>l, CallRecords, Zenon
    <3> QED BY <3>1, <3>2, Zenon
  <2>3. calls' \in [Lines -> CallRecord]
    BY <1>1, <1>7, <2>2 DEF LogInAtCarrier, Step
  <2> QED BY <1>1, <1>2, <1>7, <2>1, <2>3 DEF LogInAtCarrier
<1>8. ASSUME NEW c \in Lines, KeepToken(c) PROVE CarrierTypeOK'
  <2>1. [calls[c] EXCEPT !.at = "send"] \in CallRecord /\ calls[c].memory \in 0..MaxTokens
    BY <1>0, <1>1, <1>l, CallRecords
  <2> QED BY <1>3, <1>8, <2>1 DEF KeepToken
<1>9. ASSUME NEW c \in Lines, Ends(c), UNCHANGED <<carrier, live, tokens, cached>>
      PROVE  CarrierTypeOK'
  <2>1. calls[c].memory \in 0..MaxTokens
    BY <1>0, <1>1, <1>l, CallRecords
  <2> QED BY <1>1, <1>3, <1>4, <1>9, <2>1 DEF Ends
<1>10. ASSUME NEW c \in Lines, NoAnswer(c) PROVE CarrierTypeOK'
  <2>1. calls[c].attempt \in 0..1 + Retries
    BY <1>0 DEF CallRecord
  <2>2. CASE calls[c].attempt < Attempts(IF calls[c].at = "login" THEN "rate" ELSE calls[c].kind)
    <3>1. calls[c].attempt + 1 \in 0..1 + Retries
      BY <2>1, <2>2 DEF Attempts
    <3>2. [calls[c] EXCEPT !.attempt = @ + 1] \in CallRecord
      BY <1>1, <3>1 DEF CallRecord
    <3> QED BY <1>1, <1>3, <1>10, <2>2, <3>2 DEF NoAnswer
  <2> QED BY <1>9, <1>10, <2>2 DEF NoAnswer
<1>11. ASSUME NEW c \in Lines, Refused(c) PROVE CarrierTypeOK'
  <2>1. [calls[c] EXCEPT !.at = "invalidate", !.refused = @ \cup {calls[c].memory}] \in CallRecord
    <3>1. calls[c].refused \cup {calls[c].memory} \in SUBSET (0..MaxTokens)
      BY <1>0 DEF CallRecord
    <3>2. ASSUME NEW s \in SUBSET (0..MaxTokens)
          PROVE  [calls[c] EXCEPT !.at = "invalidate", !.refused = s] \in CallRecord
      BY <1>0, <1>l, CallRecords, Zenon
    <3> QED BY <3>1, <3>2, Zenon
  <2> QED BY <1>1, <1>3, <1>9, <1>11, <2>1 DEF Refused
<1>12. ASSUME NEW c \in Lines, InvalidateToken(c) PROVE CarrierTypeOK'
  <2>1. [calls[c] EXCEPT !.at = "authenticate", !.round = 1, !.memory = NoToken] \in CallRecord
    BY <1>0, <1>1, <1>l, CallRecords
  <2> QED BY <1>1, <1>3, <1>4, <1>12, <2>1 DEF InvalidateToken, AfterInvalidation, DroppedCopy
<1>13. ASSUME NEW c \in Lines, DropAdapter(c) PROVE CarrierTypeOK'
  BY <1>1, <1>3, <1>4, <1>13 DEF DropAdapter
<1>14. ASSUME NEW t \in live, TokenExpires(t) PROVE CarrierTypeOK'
  BY <1>1, <1>2, <1>14 DEF TokenExpires
<1>15. CASE CachedTokenExpires
  BY <1>1, <1>2, <1>15 DEF CachedTokenExpires
<1>16. CASE UNCHANGED carrierVars
  BY <1>1, <1>2, <1>16 DEF carrierVars
<1>17. ASSUME NEW c \in Lines, Answered(c) PROVE CarrierTypeOK'
  BY <1>9, <1>17 DEF Answered
<1> QED BY <1>5, <1>6, <1>7, <1>8, <1>10, <1>11, <1>12, <1>13, <1>14, <1>15, <1>16, <1>17
        DEF CarrierNext

(* Every step leaves the refused token out of reach of the call it was     *)
(* refused to.                                                             *)
LEMMA CarrierInvStays == CarrierInv /\ [CarrierNext]_carrierVars => CarrierInv'
<1> SUFFICES ASSUME CarrierInv, [CarrierNext]_carrierVars PROVE CarrierInv'
  OBVIOUS
<1> USE DEF NoToken
<1>1. CarrierTypeOK /\ CarrierTypeOK'
  BY CarrierTypesStay DEF CarrierInv
<1>2. /\ tokens \in Int /\ cached \in Int
      /\ \A c \in Lines : calls[c].memory \in Int /\ \A t \in calls[c].refused : t \in Int
  BY <1>1, CarrierCallsAssumption DEF CarrierTypeOK
<1>r. \A c \in Lines : calls[c] = [at |-> calls[c].at, kind |-> calls[c].kind,
                                 memory |-> calls[c].memory, round |-> calls[c].round,
                                 attempt |-> calls[c].attempt, refused |-> calls[c].refused]
  BY <1>1 DEF CarrierTypeOK
<1>3. TokensWereGiven /\ UnstoredIsPrivate /\ RefusedIsGone /\ SendHasToken
  BY DEF CarrierInv
<1> DEFINE Goal == TokensWereGiven' /\ UnstoredIsPrivate' /\ RefusedIsGone' /\ SendHasToken'
<1> SUFFICES Goal
  BY <1>1 DEF CarrierInv
<1> USE DEF TokensWereGiven, UnstoredIsPrivate, RefusedIsGone, SendHasToken
(* A step of a call that takes no token keeps its own or has none, is not  *)
(* about to store one, and leaves the cache as it is.                      *)
<1>4. ASSUME NEW c \in Lines, NEW new, Step(c, new), UNCHANGED <<tokens, cached>>,
             new.at # "keep", new.memory = calls[c].memory, new.refused \in {{}, calls[c].refused},
             calls[c].at # "invalidate",
             new.at = "send" => new.memory # NoToken
      PROVE  Goal
  <2>1. calls'[c] = new /\ \A d \in Lines \ {c} : calls'[d] = calls[d]
    BY <1>1, <1>4, CallSteps
  <2> QED BY <1>2, <1>3, <1>4, <2>1
<1>5. ASSUME NEW c \in Lines, NEW kind \in CallKinds, BeginCall(c, kind) PROVE Goal
  BY <1>4, <1>5 DEF BeginCall, AtRestCall
<1>6. ASSUME NEW c \in Lines, Authenticate(c) PROVE Goal
  <2>1. CASE /\ calls[c].memory = NoToken /\ cached # NoToken
             /\ Step(c, [calls[c] EXCEPT !.at = "send", !.attempt = 1, !.memory = cached])
    <3>1. /\ calls'[c].at = "send" /\ calls'[c].memory = cached
          /\ calls'[c].refused = calls[c].refused
          /\ \A d \in Lines \ {c} : calls'[d] = calls[d]
      BY <1>1, <1>2, <2>1 DEF Step, CarrierTypeOK
    <3>2. UNCHANGED <<tokens, cached>> /\ calls[c].at = "authenticate"
      BY <1>6 DEF Authenticate
    <3> QED BY <1>2, <1>3, <2>1, <3>1, <3>2
  <2>2. CASE calls[c].memory # NoToken /\ Step(c, [calls[c] EXCEPT !.at = "send", !.attempt = 1])
    BY <1>2, <1>4, <1>6, <1>r, <2>2 DEF Authenticate
  <2>3. CASE Step(c, [calls[c] EXCEPT !.at = "login", !.attempt = 1])
    BY <1>2, <1>4, <1>6, <1>r, <2>3 DEF Authenticate
  <2> QED BY <1>6, <2>1, <2>2, <2>3 DEF Authenticate
<1>7. ASSUME NEW c \in Lines, LogInAtCarrier(c) PROVE Goal
  <2>1. /\ tokens' = tokens + 1 /\ cached' = cached
        /\ calls'[c].at \in {"keep", "send"} /\ calls'[c].memory = tokens'
        /\ calls'[c].refused = calls[c].refused
        /\ \A d \in Lines \ {c} : calls'[d] = calls[d]
        /\ calls[c].at # "invalidate"
    BY <1>1, <1>2, <1>7 DEF LogInAtCarrier, Step, CarrierTypeOK
  <2>2. tokens >= 0
    BY <1>1, CarrierCallsAssumption DEF CarrierTypeOK
  <2>3. TokensWereGiven'
    <3>1. \A d \in Lines : calls'[d].refused = calls[d].refused
      BY <2>1
    <3>2. \A d \in Lines : \A t \in calls[d].refused : t <= tokens + 1
      BY <1>2, <1>3
    <3>3. \A d \in Lines : calls'[d].memory <= tokens + 1
      BY <1>2, <1>3, <2>1
    <3> QED BY <1>2, <1>3, <2>1, <3>1, <3>2, <3>3
  <2>4. UnstoredIsPrivate'
    BY <1>2, <1>3, <2>1, <2>2
  <2>5. RefusedIsGone' /\ SendHasToken'
    BY <1>2, <1>3, <2>1, <2>2
  <2> QED BY <2>3, <2>4, <2>5
<1>8. ASSUME NEW c \in Lines, KeepToken(c) PROVE Goal
  <2>1. /\ tokens' = tokens /\ cached' = calls[c].memory /\ calls[c].at = "keep"
        /\ calls'[c].at = "send" /\ calls'[c].memory = calls[c].memory
        /\ calls'[c].refused = calls[c].refused
        /\ \A d \in Lines \ {c} : calls'[d] = calls[d]
    BY <1>1, <1>2, <1>8 DEF KeepToken, Step, CarrierTypeOK
  <2> QED BY <1>2, <1>3, <2>1
<1>9. ASSUME NEW c \in Lines, NoAnswer(c) \/ Answered(c) PROVE Goal
  <2>1. calls[c].at \in {"login", "send"} /\ UNCHANGED <<tokens, cached>>
    BY <1>9 DEF NoAnswer, Answered
  <2>2. CASE Ends(c)
    BY <1>4, <2>1, <2>2 DEF Ends, AtRestCall
  <2>3. CASE Step(c, [calls[c] EXCEPT !.attempt = @ + 1])
    BY <1>2, <1>3, <1>4, <1>r, <2>1, <2>3
  <2> QED BY <1>9, <2>2, <2>3 DEF NoAnswer, Answered
<1>10. ASSUME NEW c \in Lines, Refused(c) PROVE Goal
  <2>1. CASE carrier = "micorreo"
    BY <1>4, <1>10, <2>1 DEF Refused, Ends, AtRestCall
  <2>2. CASE carrier # "micorreo"
    <3>1. /\ UNCHANGED <<tokens, cached>> /\ calls[c].at # "keep"
          /\ calls'[c].at = "invalidate" /\ calls'[c].memory = calls[c].memory
          /\ calls'[c].refused = calls[c].refused \cup {calls[c].memory}
          /\ \A d \in Lines \ {c} : calls'[d] = calls[d]
      <4>1. calls'[c] = [calls[c] EXCEPT !.at = "invalidate", !.refused = @ \cup {calls[c].memory}]
        BY <1>1, <1>10, <2>2, CallSteps DEF Refused
      <4>2. calls[c] \in CallRecord
        BY <1>1 DEF CarrierTypeOK, CallRecord, CallPlaces
      <4> QED BY <1>1, <1>10, <2>2, <4>1, <4>2, CallSteps DEF Refused, CallRecord
    <3> QED BY <1>2, <1>3, <3>1
  <2> QED BY <2>1, <2>2
<1>11. ASSUME NEW c \in Lines, InvalidateToken(c) PROVE Goal
  <2>1. /\ tokens' = tokens /\ cached' = NoToken
        /\ calls'[c].at \in {"authenticate", "rest"} /\ calls'[c].memory = NoToken
        /\ calls'[c].refused \in {{}, calls[c].refused}
        /\ \A d \in Lines \ {c} : calls'[d] = calls[d]
    <3>1. calls[c] \in CallRecord
      BY <1>1 DEF CarrierTypeOK, CallRecord, CallPlaces
    <3>2. CASE calls[c].round = 0
      <4>1. calls'[c] = [calls[c] EXCEPT !.at = "authenticate", !.round = 1, !.memory = NoToken]
        BY <1>1, <1>11, <3>2, CallSteps DEF InvalidateToken
      <4> QED BY <1>1, <1>11, <3>1, <3>2, <4>1, CallSteps
              DEF InvalidateToken, AfterInvalidation, DroppedCopy, CallRecord
    <3>3. CASE calls[c].round # 0
      BY <1>1, <1>11, <3>3, CallSteps
         DEF InvalidateToken, AfterInvalidation, DroppedCopy, AtRestCall
    <3> QED BY <3>2, <3>3
  <2>2. tokens >= 0
    BY <1>1, CarrierCallsAssumption DEF CarrierTypeOK
  <2> QED BY <1>2, <1>3, <2>1, <2>2
<1>12. ASSUME NEW c \in Lines, DropAdapter(c) PROVE Goal
  <2>1. /\ UNCHANGED <<tokens, cached>>
        /\ calls'[c].at = "rest" /\ calls'[c].memory = NoToken /\ calls'[c].refused = {}
        /\ \A d \in Lines \ {c} : calls'[d] = calls[d]
    BY <1>1, <1>12, CallSteps DEF DropAdapter, AtRestCall
  <2>2. tokens >= 0
    BY <1>1, CarrierCallsAssumption DEF CarrierTypeOK
  <2> QED BY <1>2, <1>3, <2>1, <2>2
<1>13. ASSUME NEW t \in live, TokenExpires(t) PROVE Goal
  BY <1>3, <1>13 DEF TokenExpires
<1>14. CASE CachedTokenExpires
  <2>1. tokens >= 0
    BY <1>1, CarrierCallsAssumption DEF CarrierTypeOK
  <2> QED BY <1>2, <1>3, <1>14, <2>1 DEF CachedTokenExpires
<1>15. CASE UNCHANGED carrierVars
  <2>1. UNCHANGED <<tokens, cached, calls>>
    BY <1>15 DEF carrierVars
  <2> QED BY <1>3, <2>1
<1> QED BY <1>5, <1>6, <1>7, <1>8, <1>9, <1>10, <1>11, <1>12, <1>13, <1>14, <1>15 DEF CarrierNext

(* A call never presents a token that it has been refused, for any number  *)
(* of processes, retries and tokens.                                       *)
THEOREM CarrierCorrect == CarrierSpec => [](CarrierTypeOK /\ RefusedIsNotReused)
<1>1. CarrierInit => CarrierInv
  BY CarrierCallsAssumption
     DEF CarrierInit, CarrierInv, CarrierTypeOK, TokensWereGiven, UnstoredIsPrivate,
         RefusedIsGone, SendHasToken, AtRestCall, NoToken, CallKinds
<1>2. CarrierInv => CarrierTypeOK /\ RefusedIsNotReused
  BY DEF CarrierInv, RefusedIsGone, SendHasToken, RefusedIsNotReused
<1> QED BY <1>1, <1>2, CarrierInvStays, PTL DEF CarrierSpec

-----------------------------------------------------------------------------
(* THE CONFIGURATION OF SERVICES.  What each service asks for.             *)
LEMMA RequiredFields ==
  /\ Services = {"mercadopago", "correo_argentino", "andreani", "sid_renaper", "arca_a13",
                 "smtp", "google_identity", "geolocation"}
  /\ RequiredPublic["mercadopago"] \cup RequiredSecrets["mercadopago"] =
       {"collector_id", "access_token", "webhook_secret"}
  /\ RequiredPublic["correo_argentino"] \cup RequiredSecrets["correo_argentino"] =
       {"customer_id", "origin", "username", "password"}
  /\ RequiredPublic["andreani"] \cup RequiredSecrets["andreani"] =
       {"customer_id", "contract", "origin", "sender", "username", "password"}
  /\ RequiredPublic["sid_renaper"] \cup RequiredSecrets["sid_renaper"] = {"base_url", "access_token"}
  /\ RequiredPublic["arca_a13"] \cup RequiredSecrets["arca_a13"] = {"represented_cuit"}
  /\ RequiredPublic["smtp"] \cup RequiredSecrets["smtp"] =
       {"host", "from_email", "username", "password"}
  /\ RequiredPublic["google_identity"] \cup RequiredSecrets["google_identity"] = {"client_id"}
  /\ RequiredPublic["geolocation"] \cup RequiredSecrets["geolocation"] = {"provider"}
BY DEF Services, RequiredPublic, RequiredSecrets

(* A service that the panel shows as configured is in use, or its use      *)
(* fails for what the panel does not look at.                              *)
InUse(r) ==
  /\ Use(r) = "absent" => service = "google_identity" /\ ~r.legible
  /\ Use(r) = "raises" =>
       IF service \in Carriers THEN ~r.legible \/ otherFails
       ELSE ~HttpsBackUrl \/ (r.expires = "soon" /\ ~OauthIsReady(r))

(* What the panel asks of a row covers what each part that reads it asks.  *)
LEMMA ConfiguredSuffices ==
  ASSUME service \in Services, NEW r, Status(r) = "configured"
  PROVE  InUse(r)
<1>1. /\ r.exists /\ r.enabled
      /\ RequiredPublic[service] \cup RequiredSecrets[service] \subseteq r.filled
      /\ service = "arca_a13" => r.special /\ HasBundle(r)
      /\ service = "geolocation" => (r.special => "google_maps_browser_key" \in r.filled)
  BY DEF Status, FieldsComplete, Complete
<1>2. CASE service = "mercadopago"
  <2>1. {"collector_id", "access_token", "webhook_secret"} \subseteq r.filled
    BY <1>1, <1>2, RequiredFields
  <2>2. Use(r) = PaymentUse(r)
    BY <1>2 DEF Use
  <2> QED BY <1>1, <1>2, <2>1, <2>2 DEF InUse, PaymentUse, Carriers
<1>3. CASE service \in Carriers
  <2>1. CarrierNeeds[service] \subseteq RequiredPublic[service] \cup RequiredSecrets[service]
    BY <1>3, RequiredFields DEF Carriers, CarrierNeeds
  <2>2. Use(r) = CarrierUse(r)
    BY <1>3 DEF Use, Carriers
  <2> QED BY <1>1, <1>3, <2>1, <2>2 DEF InUse, CarrierUse
<1>4. CASE service = "google_identity"
  <2>1. "client_id" \in r.filled
    BY <1>1, <1>4, RequiredFields
  <2>2. Suffices(r) <=> r.legible
    BY <1>4, <2>1 DEF Suffices
  <2>3. Use(r) = IF r.legible THEN "adapter" ELSE "absent"
    BY <1>1, <1>4, <2>2 DEF Use, Carriers
  <2> QED BY <1>4, <2>3 DEF InUse
<1>5. CASE service \in Services \ (Carriers \cup {"mercadopago", "google_identity"})
  <2>1. Suffices(r)
    <3>1. CASE service = "sid_renaper"
      BY <1>1, <3>1, RequiredFields DEF Suffices
    <3>2. CASE service = "arca_a13"
      BY <1>1, <3>2, RequiredFields DEF Suffices
    <3>3. CASE service = "smtp"
      BY <1>1, <3>3, RequiredFields DEF Suffices
    <3>4. CASE service = "geolocation"
      BY <1>1, <3>4, RequiredFields DEF Suffices
    <3> QED BY <1>5, <3>1, <3>2, <3>3, <3>4, RequiredFields DEF Carriers
  <2>2. Use(r) = "adapter"
    BY <1>1, <1>5, <2>1 DEF Use
  <2> QED BY <2>2 DEF InUse
<1> QED BY <1>2, <1>3, <1>4, <1>5

(* The row of a service, and the fields of one that Mercado Pago's writes  *)
(* name.                                                                   *)
RowRecord ==
  [exists : BOOLEAN, enabled : BOOLEAN, filled : SUBSET Fields(service), special : BOOLEAN,
   legible : BOOLEAN, expires : {"unknown", "later", "soon"},
   test : {"", "success", "pending", "error"}]

LEMMA MercadoPagoFields ==
  service = "mercadopago" =>
    {"collector_id", "access_token", "webhook_secret", "refresh_token", "oauth_client_id"}
      \subseteq Fields(service)
BY RequiredFields DEF Fields, Optional, RequiredPublic, RequiredSecrets

LEMMA IntTypesStay == IntTypeOK /\ [IntNext]_intVars => IntTypeOK'
<1> SUFFICES ASSUME IntTypeOK, [IntNext]_intVars PROVE IntTypeOK'
  OBVIOUS
<1> DEFINE Places == {"rest", "read", "call"}
           Times == {"unknown", "later", "soon"}
           Results == {"", "success", "pending", "error"}
<1>1. /\ service \in Services /\ row \in RowRecord /\ tester \in [Configuring -> Places]
      /\ row.filled \subseteq Fields(service) /\ row.enabled \in BOOLEAN
      /\ row.special \in BOOLEAN /\ row.legible \in BOOLEAN
      /\ otherFails \in BOOLEAN
  BY DEF IntTypeOK, RowRecord
<1>2. ASSUME service' = service, row' \in RowRecord, otherFails' \in BOOLEAN,
             tester' \in [Configuring -> Places]
      PROVE  IntTypeOK'
  BY <1>1, <1>2 DEF IntTypeOK, RowRecord
<1>3. ASSUME NEW e \in BOOLEAN, NEW f \in SUBSET Fields(service), NEW s \in BOOLEAN,
             NEW p \in BOOLEAN
      PROVE  /\ Saved(e, f, s, p) \in RowRecord
             /\ \A x \in Times : [Saved(e, f, s, p) EXCEPT !.expires = x] \in RowRecord
             /\ \A x \in Times, t \in Results :
                  [Saved(e, f, s, p) EXCEPT !.expires = x, !.test = t] \in RowRecord
  BY <1>1 DEF Saved, RowRecord
<1>4. ASSUME NEW t \in Results
      PROVE  [row EXCEPT !.test = t] \in RowRecord
  BY <1>1 DEF RowRecord
<1>5. CASE SaveConfiguration
  <2>1. PICK enabled \in BOOLEAN, special \in BOOLEAN, legible \in BOOLEAN,
             filled \in SUBSET Fields(service) :
          row' = Saved(enabled, filled, special, legible)
    BY <1>1, <1>5 DEF SaveConfiguration
  <2>2. row' \in RowRecord
    BY <1>3, <2>1
  <2> QED BY <1>1, <1>2, <1>5, <2>2 DEF SaveConfiguration
<1>6. CASE SaveOtherCarrier
  BY <1>1, <1>2, <1>6 DEF SaveOtherCarrier
<1>7. CASE TestAtOnce
  <2>1. \E t \in Results : row' = [row EXCEPT !.test = t]
    BY <1>7 DEF TestAtOnce
  <2>2. row' \in RowRecord
    BY <1>4, <2>1, Zenon
  <2> QED BY <1>1, <1>2, <1>7, <2>2 DEF TestAtOnce
<1>8. CASE MarkReconnect
  <2>1. PICK read \in SUBSET AccountFields, special \in BOOLEAN, legible \in BOOLEAN, expires \in Times :
          row' = [row EXCEPT !.filled = read \cup (row.filled \ AccountFields), !.special = special,
                             !.legible = legible, !.expires = expires, !.test = "error"]
    BY <1>8 DEF MarkReconnect
  <2>2. read \cup (row.filled \ AccountFields) \in SUBSET Fields(service)
    BY <1>1, <1>8, MercadoPagoFields DEF MarkReconnect, AccountFields
  <2>3. row' \in RowRecord
    BY <1>1, <2>1, <2>2 DEF RowRecord
  <2> QED BY <1>1, <1>2, <1>8, <2>3 DEF MarkReconnect
<1>9. CASE StoreTokens
  <2>1. PICK refresh \in {row.filled \cup {"refresh_token"}, row.filled \ {"refresh_token"}},
             special \in BOOLEAN :
          row' = [Saved(TRUE, refresh \cup {"collector_id", "access_token"} \cup AppSecrets, special,
                        row.legible)
                    EXCEPT !.expires = "later", !.test = "success"]
    BY <1>1, <1>9 DEF StoreTokens, Stored
  <2>2. refresh \cup {"collector_id", "access_token"} \cup AppSecrets \in SUBSET Fields(service)
    BY <1>1, <1>9, MercadoPagoFields DEF StoreTokens, AppSecrets
  <2>3. row' \in RowRecord
    BY <1>1, <1>3, <2>1, <2>2
  <2> QED BY <1>1, <1>2, <1>9, <2>3 DEF StoreTokens
<1>10. CASE TokenIsDue
  BY <1>1, <1>2, <1>10 DEF TokenIsDue, RowRecord
<1>11. CASE DisconnectAccount
  <2>1. row.filled \ {"collector_id", "access_token", "refresh_token"} \in SUBSET Fields(service)
    BY <1>1
  <2>2. row' \in RowRecord
    BY <1>1, <1>3, <1>11, <2>1 DEF DisconnectAccount
  <2> QED BY <1>1, <1>2, <1>11, <2>2 DEF DisconnectAccount
<1>12. ASSUME NEW o \in Configuring, StartTest(o) \/ MakeAdapter(o) PROVE IntTypeOK'
  BY <1>1, <1>2, <1>12 DEF StartTest, MakeAdapter
<1>13. ASSUME NEW o \in Configuring, FinishTest(o) PROVE IntTypeOK'
  <2>1. \E t \in Results : row' = [row EXCEPT !.test = t]
    BY <1>13 DEF FinishTest
  <2>2. row' \in RowRecord
    BY <1>4, <2>1, Zenon
  <2>3. service' = service /\ otherFails' = otherFails /\ tester' \in [Configuring -> Places]
    BY <1>1, <1>13 DEF FinishTest
  <2> QED BY <1>1, <1>2, <2>2, <2>3
<1>14. CASE UNCHANGED intVars
  BY <1>1, <1>2, <1>14 DEF intVars
<1> QED
  BY <1>5, <1>6, <1>7, <1>8, <1>9, <1>10, <1>11, <1>12, <1>13, <1>14 DEF IntNext

(* A service that the panel shows as configured is never taken for one     *)
(* that is switched off (but by Google's reader, for spaces), and its use  *)
(* fails only for a policy that is no number, a token that is due without  *)
(* an application or an environment without https: for any number of owners*)
(* and whatever the environment holds.                                     *)
THEOREM IntegrationsCorrect == IntSpec => [](IntTypeOK /\ ConfiguredIsInUse)
<1>1. IntInit => IntTypeOK
  <2>1. NotStored \in RowRecord
    BY DEF NotStored, RowRecord
  <2> SUFFICES ASSUME IntInit PROVE IntTypeOK
    OBVIOUS
  <2>2. service \in Services /\ row \in RowRecord
    BY <2>1 DEF IntInit
  <2>3. otherFails \in BOOLEAN /\ tester \in [Configuring -> {"rest", "read", "call"}]
    BY DEF IntInit
  <2> QED BY <2>2, <2>3, Zenon DEF IntTypeOK, RowRecord
<1>2. IntTypeOK => ConfiguredIsInUse
  BY ConfiguredSuffices DEF IntTypeOK, ConfiguredIsInUse, InUse
<1> QED BY <1>1, <1>2, IntTypesStay, PTL DEF IntSpec

-----------------------------------------------------------------------------
(* TAXPAYERS.  No answer is awaited longer than the timeout, and a query   *)
(* begins with a ticket that outlasts two of them.                         *)
WaitsAreShort ==
  \A f \in Filers : AwaitsArca(f) =>
    filing[f].since <= clock /\ clock <= filing[f].since + Timeout

TicketsLast ==
  \A f \in Filers : filing[f].at = "ask" =>
    filing[f].expires > filing[f].since + Margin - Timeout

FiscInv == FiscTypeOK /\ WaitsAreShort /\ TicketsLast /\ CuitIsTheirs

FilingPlaces == {"new", "ticket", "login", "ask", "done"}
Identifiers == Cuits \cup Papers \cup {"none"}
FilingRecord ==
  [at : FilingPlaces, given : Identifiers, cuit : Cuits \cup {"none"},
   expires : 0..LastNow + MaxLife, since : 0..LastNow, asks : {"list", "person"}]

LEMMA FilingRecords ==
  ASSUME NEW r \in FilingRecord, NEW at \in FilingPlaces
  PROVE  /\ [r EXCEPT !.at = at] \in FilingRecord
         /\ \A s \in 0..LastNow :
              /\ [r EXCEPT !.at = at, !.since = s] \in FilingRecord
              /\ \A e \in 0..LastNow + MaxLife :
                   /\ [r EXCEPT !.at = at, !.expires = e, !.since = s] \in FilingRecord
                   /\ \A c \in Cuits, a \in {"list", "person"} :
                        [r EXCEPT !.at = at, !.asks = a, !.cuit = c, !.expires = e, !.since = s]
                          \in FilingRecord
         /\ \A g \in Identifiers :
              /\ [r EXCEPT !.at = at, !.given = g] \in FilingRecord
              /\ \A c \in Cuits, a \in {"list", "person"} :
                   [r EXCEPT !.at = at, !.given = g, !.cuit = c, !.asks = a] \in FilingRecord
BY DEF FilingRecord, FilingPlaces

LEMMA EmptyFiling == NotFiling \in FilingRecord /\ [NotFiling EXCEPT !.at = "done"] \in FilingRecord
<1>1. NotFiling \in FilingRecord
  BY FiscalAssumption DEF NotFiling, FilingRecord, FilingPlaces, Identifiers, NoTicket
<1>2. "done" \in FilingPlaces
  BY DEF FilingPlaces
<1> QED BY <1>1, <1>2, FilingRecords

LEMMA FiscTypesStay == FiscTypeOK /\ [FiscNext]_fiscVars => FiscTypeOK'
<1> SUFFICES ASSUME FiscTypeOK, [FiscNext]_fiscVars PROVE FiscTypeOK'
  OBVIOUS
<1> USE FiscalAssumption
<1> DEFINE Filed == [cuit : Cuits \cup {"none"}, given : Identifiers]
<1>1. /\ clock \in 1..LastNow /\ ticket \in 0..LastNow + MaxLife
      /\ filing \in [Filers -> FilingRecord] /\ cuit \in [Filers -> Filed]
      /\ \A f \in Filers : filing[f] \in FilingRecord
  BY DEF FiscTypeOK, FilingRecord, FilingPlaces, Identifiers
<1>2. ASSUME clock' \in 1..LastNow, ticket' \in 0..LastNow + MaxLife,
             filing' \in [Filers -> FilingRecord], cuit' \in [Filers -> Filed]
      PROVE  FiscTypeOK'
  BY <1>2 DEF FiscTypeOK, FilingRecord, FilingPlaces, Identifiers
<1>l. /\ "ticket" \in FilingPlaces /\ "login" \in FilingPlaces /\ "ask" \in FilingPlaces
      /\ "list" \in {"list", "person"} /\ "person" \in {"list", "person"}
      /\ Cuits \subseteq Identifiers /\ Papers \subseteq Identifiers
      /\ NoTicket \in 0..LastNow + MaxLife /\ 0 \in 0..LastNow /\ clock \in 0..LastNow
  BY <1>1 DEF FilingPlaces, Identifiers, NoTicket
<1>3. ASSUME NEW f \in Filers, NEW new \in FilingRecord, Continues(f, new),
             clock' = clock, ticket' \in 0..LastNow + MaxLife, cuit' \in [Filers -> Filed]
      PROVE  FiscTypeOK'
  BY <1>1, <1>2, <1>3 DEF Continues
<1>4. ASSUME NEW f \in Filers, GiveIdentifier(f) PROVE FiscTypeOK'
  <2>1. CASE \E c \in Cuits : Continues(f, [NotFiling EXCEPT !.at = "ticket", !.given = c,
                                                           !.cuit = c, !.asks = "person"])
    <3>1. PICK c \in Cuits : Continues(f, [NotFiling EXCEPT !.at = "ticket", !.given = c,
                                                           !.cuit = c, !.asks = "person"])
      BY <2>1
    <3>2. [NotFiling EXCEPT !.at = "ticket", !.given = c, !.cuit = c, !.asks = "person"]
            \in FilingRecord
      BY <1>l, EmptyFiling, FilingRecords
    <3> QED BY <1>1, <1>3, <1>4, <3>1, <3>2 DEF GiveIdentifier
  <2>2. CASE \E p \in Papers : Continues(f, [NotFiling EXCEPT !.at = "ticket", !.given = p])
    <3>1. PICK p \in Papers : Continues(f, [NotFiling EXCEPT !.at = "ticket", !.given = p])
      BY <2>2
    <3>2. [NotFiling EXCEPT !.at = "ticket", !.given = p] \in FilingRecord
      BY <1>l, EmptyFiling, FilingRecords
    <3> QED BY <1>1, <1>3, <1>4, <3>1, <3>2 DEF GiveIdentifier
  <2> QED BY <1>4, <2>1, <2>2 DEF GiveIdentifier
<1>5. ASSUME NEW f \in Filers, GivesUp(f), clock' = clock, ticket' = ticket,
             cuit' \in [Filers -> Filed]
      PROVE  FiscTypeOK'
  BY <1>1, <1>3, <1>5, EmptyFiling DEF GivesUp
<1>6. ASSUME NEW f \in Filers, FileUnasked(f) PROVE FiscTypeOK'
  <2>1. PICK c \in Cuits : cuit' = [cuit EXCEPT ![f] = [cuit |-> c, given |-> c]]
    BY <1>6 DEF FileUnasked
  <2>2. cuit' \in [Filers -> Filed]
    BY <1>1, <1>l, <2>1
  <2> QED BY <1>5, <1>6, <2>2 DEF FileUnasked
<1>7. ASSUME NEW f \in Filers, TakeTicket(f) PROVE FiscTypeOK'
  <2>1. [filing[f] EXCEPT !.at = "ask", !.expires = ticket, !.since = clock] \in FilingRecord
    BY <1>1, <1>l, FilingRecords
  <2> QED BY <1>1, <1>3, <1>7, <2>1 DEF TakeTicket
<1>8. ASSUME NEW f \in Filers, AskForTicket(f) PROVE FiscTypeOK'
  <2>1. [filing[f] EXCEPT !.at = "login", !.since = clock] \in FilingRecord
    BY <1>1, <1>l, FilingRecords
  <2> QED BY <1>1, <1>3, <1>8, <2>1 DEF AskForTicket
<1>9. ASSUME NEW f \in Filers, GetTicket(f) PROVE FiscTypeOK'
  <2>1. PICK life \in 1..MaxLife :
          IF clock + life > filing[f].since + Margin
            THEN /\ ticket' = clock + life
                 /\ Continues(f, [filing[f] EXCEPT !.at = "ask", !.expires = clock + life,
                                                   !.since = clock])
            ELSE GivesUp(f) /\ UNCHANGED ticket
    BY <1>9 DEF GetTicket
  <2>2. clock + life \in 0..LastNow + MaxLife
    BY <1>1
  <2>3. [filing[f] EXCEPT !.at = "ask", !.expires = clock + life, !.since = clock] \in FilingRecord
    BY <1>1, <1>l, <2>2, FilingRecords
  <2> QED BY <1>1, <1>3, <1>5, <1>9, <2>1, <2>2, <2>3 DEF GetTicket
<1>10. ASSUME NEW f \in Filers, ListByDocument(f) PROVE FiscTypeOK'
  <2>1. CASE \E c \in Cuits : Continues(f, [filing[f] EXCEPT !.at = "ticket", !.asks = "person",
                                              !.cuit = c, !.expires = NoTicket, !.since = 0])
    <3>1. PICK c \in Cuits : Continues(f, [filing[f] EXCEPT !.at = "ticket", !.asks = "person",
                                              !.cuit = c, !.expires = NoTicket, !.since = 0])
      BY <2>1
    <3>2. [filing[f] EXCEPT !.at = "ticket", !.asks = "person", !.cuit = c,
                            !.expires = NoTicket, !.since = 0] \in FilingRecord
      BY <1>1, <1>l, FilingRecords
    <3> QED BY <1>1, <1>3, <1>10, <3>1, <3>2 DEF ListByDocument
  <2>2. CASE GivesUp(f)
    BY <1>1, <1>5, <1>10, <2>2 DEF ListByDocument
  <2> QED BY <1>10, <2>1, <2>2 DEF ListByDocument
<1>11. ASSUME NEW f \in Filers, GetPerson(f) PROVE FiscTypeOK'
  <2>1. filing[f].cuit \in Cuits \cup {"none"} /\ filing[f].given \in Identifiers
    BY <1>1 DEF FilingRecord
  <2>2. cuit' \in [Filers -> Filed]
    BY <1>1, <1>11, <2>1 DEF GetPerson
  <2> QED BY <1>5, <1>11, <2>2 DEF GetPerson
<1>12. ASSUME NEW f \in Filers, ArcaFails(f) PROVE FiscTypeOK'
  BY <1>1, <1>5, <1>12 DEF ArcaFails
<1>13. CASE CacheForgets
  BY <1>1, <1>2, <1>13, <1>l DEF CacheForgets
<1>14. CASE TimePasses
  BY <1>1, <1>2, <1>14 DEF TimePasses
<1>15. CASE UNCHANGED fiscVars
  BY <1>1, <1>2, <1>15 DEF fiscVars
<1> QED BY <1>4, <1>6, <1>7, <1>8, <1>9, <1>10, <1>11, <1>12, <1>13, <1>14, <1>15 DEF FiscNext

(* Waits, tickets and profiles stay as they should be.                     *)
LEMMA FiscInvStays == FiscInv /\ [FiscNext]_fiscVars => FiscInv'
<1> SUFFICES ASSUME FiscInv, [FiscNext]_fiscVars PROVE FiscInv'
  OBVIOUS
<1> USE FiscalAssumption
<1>1. FiscTypeOK /\ FiscTypeOK'
  BY FiscTypesStay DEF FiscInv
<1>2. /\ clock \in Int /\ ticket \in Int /\ Timeout \in Int /\ Margin \in Int
      /\ \A f \in Filers : filing[f].since \in Int /\ filing[f].expires \in Int
      /\ \A f \in Filers : filing[f] \in FilingRecord
  BY <1>1 DEF FiscTypeOK, FilingRecord, FilingPlaces, Identifiers
<1>3. WaitsAreShort /\ TicketsLast /\ CuitIsTheirs
  BY DEF FiscInv
<1> DEFINE Waits(r) == r.at \in {"login", "ask"} => r.since <= clock /\ clock <= r.since + Timeout
<1> DEFINE Lasts(r) == r.at = "ask" => r.expires > r.since + Margin - Timeout
(* A request that changes its own state must leave it sound.               *)
<1>4. ASSUME NEW f \in Filers, NEW new, Continues(f, new), clock' = clock,
             Waits(new), Lasts(new)
      PROVE  WaitsAreShort' /\ TicketsLast'
  <2>1. filing'[f] = new /\ \A g \in Filers \ {f} : filing'[g] = filing[g]
    BY <1>1, <1>4 DEF Continues, FiscTypeOK
  <2> QED BY <1>2, <1>3, <1>4, <2>1 DEF WaitsAreShort, TicketsLast, AwaitsArca
<1>5. ASSUME NEW f \in Filers, NEW new, Continues(f, new), UNCHANGED <<clock, cuit>>,
             Waits(new), Lasts(new)
      PROVE  FiscInv'
  BY <1>1, <1>3, <1>4, <1>5 DEF FiscInv, CuitIsTheirs
<1>6. ASSUME NEW f \in Filers, GivesUp(f), UNCHANGED <<clock, cuit>> PROVE FiscInv'
  BY <1>5, <1>6 DEF GivesUp, NotFiling
<1>7. ASSUME NEW f \in Filers, GiveIdentifier(f) PROVE FiscInv'
  BY <1>5, <1>7 DEF GiveIdentifier, NotFiling
<1>8. ASSUME NEW f \in Filers, NEW c \in Cuits \cup {"none"}, NEW g \in Identifiers,
             g \in Papers => PaperOf[c] = g,
             cuit' = [cuit EXCEPT ![f] = [cuit |-> c, given |-> g]], GivesUp(f), clock' = clock
      PROVE  FiscInv'
  <2>1. CuitIsTheirs'
    BY <1>1, <1>3, <1>8 DEF CuitIsTheirs, FiscTypeOK
  <2>2. WaitsAreShort' /\ TicketsLast'
    BY <1>4, <1>8 DEF GivesUp, NotFiling
  <2> QED BY <1>1, <2>1, <2>2 DEF FiscInv
<1>9. ASSUME NEW f \in Filers, FileUnasked(f) PROVE FiscInv'
  <2>1. PICK c \in Cuits : cuit' = [cuit EXCEPT ![f] = [cuit |-> c, given |-> c]]
    BY <1>9 DEF FileUnasked
  <2> QED BY <1>8, <1>9, <2>1 DEF FileUnasked, Identifiers
<1>10. ASSUME NEW f \in Filers, TakeTicket(f) PROVE FiscInv'
  <2> DEFINE new == [filing[f] EXCEPT !.at = "ask", !.expires = ticket, !.since = clock]
  <2>1. new.since = clock /\ new.expires = ticket
    BY <1>2 DEF FilingRecord
  <2>2. ticket > clock + Margin
    BY <1>10 DEF TakeTicket, MayReuse, LongEnough
  <2>3. Waits(new) /\ Lasts(new)
    BY <1>2, <2>1, <2>2
  <2>4. Continues(f, new) /\ UNCHANGED <<clock, cuit>>
    BY <1>10 DEF TakeTicket
  <2> HIDE DEF new
  <2> QED BY <1>5, <2>3, <2>4
<1>11. ASSUME NEW f \in Filers, AskForTicket(f) PROVE FiscInv'
  <2> DEFINE new == [filing[f] EXCEPT !.at = "login", !.since = clock]
  <2>1. new.since = clock /\ new.at = "login"
    BY <1>2 DEF FilingRecord
  <2>2. Waits(new) /\ Lasts(new)
    BY <1>2, <2>1
  <2>3. Continues(f, new) /\ UNCHANGED <<clock, cuit>>
    BY <1>11 DEF AskForTicket
  <2> HIDE DEF new
  <2> QED BY <1>5, <2>2, <2>3
<1>12. ASSUME NEW f \in Filers, GetTicket(f) PROVE FiscInv'
  <2>1. PICK life \in 1..MaxLife :
          IF clock + life > filing[f].since + Margin
            THEN /\ ticket' = clock + life
                 /\ Continues(f, [filing[f] EXCEPT !.at = "ask", !.expires = clock + life,
                                                   !.since = clock])
            ELSE GivesUp(f) /\ UNCHANGED ticket
    BY <1>12 DEF GetTicket
  <2>2. CASE clock + life > filing[f].since + Margin
    <3> DEFINE new == [filing[f] EXCEPT !.at = "ask", !.expires = clock + life, !.since = clock]
    <3>1. new.since = clock /\ new.expires = clock + life
      BY <1>2 DEF FilingRecord
    <3>2. clock <= filing[f].since + Timeout
      BY <1>3, <1>12 DEF WaitsAreShort, AwaitsArca, GetTicket
    <3>3. Waits(new) /\ Lasts(new)
      BY <1>2, <2>2, <3>1, <3>2
    <3>4. Continues(f, new) /\ UNCHANGED <<clock, cuit>>
      BY <1>12, <2>1, <2>2 DEF GetTicket
    <3> HIDE DEF new
    <3> QED BY <1>5, <3>3, <3>4
  <2>3. CASE ~(clock + life > filing[f].since + Margin)
    BY <1>6, <1>12, <2>1, <2>3 DEF GetTicket
  <2> QED BY <2>2, <2>3
<1>13. ASSUME NEW f \in Filers, ListByDocument(f) PROVE FiscInv'
  <2>1. CASE \E c \in Cuits : Continues(f, [filing[f] EXCEPT !.at = "ticket", !.asks = "person",
                                              !.cuit = c, !.expires = NoTicket, !.since = 0])
    <3>1. PICK c \in Cuits : Continues(f, [filing[f] EXCEPT !.at = "ticket", !.asks = "person",
                                              !.cuit = c, !.expires = NoTicket, !.since = 0])
      BY <2>1
    <3>2. [filing[f] EXCEPT !.at = "ticket", !.asks = "person", !.cuit = c,
                            !.expires = NoTicket, !.since = 0].at = "ticket"
      BY <1>2 DEF FilingRecord
    <3> QED BY <1>5, <1>13, <3>1, <3>2 DEF ListByDocument
  <2>2. CASE GivesUp(f)
    BY <1>6, <1>13, <2>2 DEF ListByDocument
  <2> QED BY <1>13, <2>1, <2>2 DEF ListByDocument
<1>14. ASSUME NEW f \in Filers, GetPerson(f) PROVE FiscInv'
  <2>1. filing[f].cuit \in Cuits \cup {"none"} /\ filing[f].given \in Identifiers
    BY <1>2 DEF FilingRecord
  <2>2. CASE UNCHANGED cuit
    BY <1>6, <1>14, <2>2 DEF GetPerson
  <2>3. CASE cuit' # cuit
    BY <1>8, <1>14, <2>1, <2>3 DEF GetPerson, DocumentAgrees
  <2> QED BY <2>2, <2>3
<1>15. ASSUME NEW f \in Filers, ArcaFails(f) PROVE FiscInv'
  BY <1>6, <1>15 DEF ArcaFails
<1>16. CASE CacheForgets
  BY <1>1, <1>3, <1>16 DEF CacheForgets, FiscInv, WaitsAreShort, TicketsLast, CuitIsTheirs, AwaitsArca
<1>17. CASE TimePasses
  <2>1. WaitsAreShort'
    BY <1>2, <1>3, <1>17 DEF TimePasses, WaitsAreShort, AwaitsArca
  <2> QED BY <1>1, <1>3, <1>17, <2>1 DEF TimePasses, FiscInv, TicketsLast, CuitIsTheirs
<1>18. CASE UNCHANGED fiscVars
  BY <1>1, <1>3, <1>18 DEF fiscVars, FiscInv, WaitsAreShort, TicketsLast, CuitIsTheirs, AwaitsArca
<1> QED BY <1>7, <1>9, <1>10, <1>11, <1>12, <1>13, <1>14, <1>15, <1>16, <1>17, <1>18 DEF FiscNext

(* A query never outlives its ticket, because the margin is longer than    *)
(* two timeouts, and a CUIT saved for a document is of that document; for  *)
(* any number of requests, taxpayers and documents.                        *)
THEOREM FiscalCorrect == FiscSpec => [](FiscTypeOK /\ TaxpayerIsSound)
<1>1. FiscInit => FiscInv
  <2> SUFFICES ASSUME FiscInit PROVE FiscInv
    OBVIOUS
  <2>1. \A f \in Filers : filing[f] = NotFiling /\ cuit[f] = NoCuit
    BY DEF FiscInit
  <2>2. FiscTypeOK
    <3>1. filing \in [Filers -> FilingRecord]
      BY EmptyFiling DEF FiscInit
    <3>2. cuit \in [Filers -> [cuit : Cuits \cup {"none"}, given : Identifiers]]
      BY DEF FiscInit, NoCuit, Identifiers
    <3>3. clock \in 1..LastNow /\ ticket \in 0..LastNow + MaxLife
      BY FiscalAssumption DEF FiscInit, NoTicket
    <3> QED BY <3>1, <3>2, <3>3 DEF FiscTypeOK, FilingRecord, FilingPlaces, Identifiers
  <2>3. WaitsAreShort /\ TicketsLast
    BY <2>1 DEF WaitsAreShort, TicketsLast, AwaitsArca, NotFiling
  <2>4. CuitIsTheirs
    BY <2>1, FiscalAssumption DEF CuitIsTheirs, NoCuit
  <2> QED BY <2>2, <2>3, <2>4 DEF FiscInv
<1>2. FiscInv => FiscTypeOK /\ TaxpayerIsSound
  <2> SUFFICES ASSUME FiscInv PROVE FiscTypeOK /\ TaxpayerIsSound
    OBVIOUS
  <2>1. \A f \in Filers : filing[f].since \in Int /\ filing[f].expires \in Int
    BY FiscalAssumption DEF FiscInv, FiscTypeOK
  <2>2. clock \in Int /\ Margin \in Int /\ Timeout \in Int /\ 2 * Timeout < Margin
    BY FiscalAssumption DEF FiscInv, FiscTypeOK
  <2>3. TicketOutlivesQuery
    BY <2>1, <2>2 DEF FiscInv, WaitsAreShort, TicketsLast, AwaitsArca, TicketOutlivesQuery
  <2> QED BY <2>3 DEF FiscInv, TaxpayerIsSound
<1> QED BY <1>1, <1>2, FiscInvStays, PTL DEF FiscSpec

-----------------------------------------------------------------------------
(* IDENTITIES.  What the attempt of a request is at each of its places ... *)
AttemptFollows(c) ==
  /\ confirm[c].at \in {"new", "verify"} => attempt[c] = NoAttempt
  /\ confirm[c].at = "verify" => confirm[c].required
  /\ confirm[c].at # "new" /\ c \in Confirming => confirm[c].key \in Keys
  /\ confirm[c].at = "place" =>
       /\ c \in Confirming /\ attempt[c].order = NoKey
       /\ confirm[c].required =>
            /\ attempt[c].status \in {"approved", "pending_review"}
            /\ attempt[c].document = confirm[c].document
       /\ ~confirm[c].required => attempt[c] = NoAttempt
  /\ confirm[c].at = "undo" => attempt[c].order = NoKey

(* ... and an attempt that is tied to an order is tied to one that exists. *)
TiedToAnOrder ==
  \A c \in Askers : attempt[c].order # NoKey => placed[attempt[c].order].status # "none"

IdInv ==
  /\ IdTypeOK /\ TiedToAnOrder /\ AttemptIsTheOrders /\ FailedLeavesNothing
  /\ \A c \in Askers : AttemptFollows(c)

RequestPlaces == {"new", "verify", "place", "undo", "done", "killed"}
RequestRecord ==
  [at : RequestPlaces, key : Keys \cup {NoKey}, document : Documents \cup {NoDocument},
   required : BOOLEAN]
AttemptRecord ==
  [status : Decided \cup {"none"}, document : Documents \cup {NoDocument}, order : Keys \cup {NoKey}]
OrderRecord ==
  [status : {"none", "pending", "verified"}, document : Documents \cup {NoDocument},
   required : BOOLEAN]

LEMMA IdTypes ==
  IdTypeOK <=> /\ dni \in Documents \cup {NoDocument}
               /\ attempt \in [Askers -> AttemptRecord] /\ placed \in [Keys -> OrderRecord]
               /\ confirm \in [Askers -> RequestRecord]
BY DEF IdTypeOK, RequestPlaces, RequestRecord, AttemptRecord, OrderRecord

LEMMA IdRecords ==
  /\ \A r \in RequestRecord, at \in RequestPlaces : [r EXCEPT !.at = at] \in RequestRecord
  /\ \A a \in AttemptRecord :
       /\ [a EXCEPT !.status = "approved"] \in AttemptRecord
       /\ \A k \in Keys : [a EXCEPT !.order = k] \in AttemptRecord
  /\ \A o \in OrderRecord : [o EXCEPT !.status = "verified"] \in OrderRecord
  /\ NoAttempt \in AttemptRecord
<1>1. ASSUME NEW r \in RequestRecord, NEW at \in RequestPlaces
      PROVE  [r EXCEPT !.at = at] \in RequestRecord
  BY DEF RequestRecord, RequestPlaces
<1>2. ASSUME NEW a \in AttemptRecord
      PROVE  /\ [a EXCEPT !.status = "approved"] \in AttemptRecord
             /\ \A k \in Keys : [a EXCEPT !.order = k] \in AttemptRecord
  BY DEF AttemptRecord, Decided
<1>3. ASSUME NEW o \in OrderRecord PROVE [o EXCEPT !.status = "verified"] \in OrderRecord
  BY DEF OrderRecord
<1>4. NoAttempt \in AttemptRecord
  BY DEF NoAttempt, AttemptRecord
<1> QED BY <1>1, <1>2, <1>3, <1>4

(* A step that moves a request to a place moves no other.                  *)
LEMMA MovesOne ==
  ASSUME IdTypeOK, NEW c \in Askers, NEW place, Moves(c, place)
  PROVE  /\ confirm'[c].at = place /\ confirm'[c].key = confirm[c].key
         /\ confirm'[c].document = confirm[c].document /\ confirm'[c].required = confirm[c].required
         /\ \A d \in Askers \ {c} : confirm'[d] = confirm[d]
         /\ place \in RequestPlaces => confirm' \in [Askers -> RequestRecord]
BY IdTypes DEF Moves, RequestRecord

LEMMA IdTypesStay == IdInv /\ [IdNext]_idVars => IdTypeOK'
<1> SUFFICES ASSUME IdInv, [IdNext]_idVars PROVE IdTypeOK'
  OBVIOUS
<1>1. /\ IdTypeOK /\ \A c \in Askers : AttemptFollows(c)
      /\ dni \in Documents \cup {NoDocument}
      /\ attempt \in [Askers -> AttemptRecord] /\ placed \in [Keys -> OrderRecord]
      /\ confirm \in [Askers -> RequestRecord]
      /\ \A c \in Askers : attempt[c] \in AttemptRecord /\ confirm[c] \in RequestRecord
      /\ \A k \in Keys : placed[k] \in OrderRecord
      /\ Confirming \subseteq Askers /\ Checking \subseteq Askers
      /\ \A p \in RequestPlaces : p \in {"new", "verify", "place", "undo", "done", "killed"}
  BY IdTypes DEF IdInv, Askers, RequestPlaces
<1>2. ASSUME dni' \in Documents \cup {NoDocument}, attempt' \in [Askers -> AttemptRecord],
             placed' \in [Keys -> OrderRecord], confirm' \in [Askers -> RequestRecord]
      PROVE  IdTypeOK'
  BY <1>2 DEF IdTypeOK, RequestPlaces, RequestRecord, AttemptRecord, OrderRecord
<1>3. /\ "new" \in RequestPlaces /\ "verify" \in RequestPlaces /\ "place" \in RequestPlaces
      /\ "undo" \in RequestPlaces /\ "done" \in RequestPlaces /\ "killed" \in RequestPlaces
  BY DEF RequestPlaces
<1>4. CASE SaveDni \/ CorrectDni
  BY <1>1, <1>2, <1>4 DEF SaveDni, CorrectDni
<1>5. ASSUME NEW c \in Confirming, NEW k \in Keys, NEW required \in BOOLEAN,
             BeginConfirm(c, k, required)
      PROVE  IdTypeOK'
  <2>1. confirm' \in [Askers -> RequestRecord]
    BY <1>1, <1>3, <1>5 DEF BeginConfirm, RequestRecord
  <2> QED BY <1>1, <1>2, <1>5, <2>1 DEF BeginConfirm
<1>6. ASSUME NEW c \in Checking, BeginCheck(c) PROVE IdTypeOK'
  <2>1. [NotAsking EXCEPT !.at = "verify", !.document = dni, !.required = TRUE] \in RequestRecord
    BY <1>1, <1>3 DEF NotAsking, RequestRecord
  <2>2. confirm' \in [Askers -> RequestRecord]
    BY <1>1, <1>6, <2>1 DEF BeginCheck
  <2> QED BY <1>1, <1>2, <1>6, <2>2 DEF BeginCheck
<1>7. ASSUME NEW c \in Askers, Verify(c) PROVE IdTypeOK'
  <2>1. PICK outcome \in Decided :
          /\ attempt' = [attempt EXCEPT ![c] = [status |-> outcome, document |-> confirm[c].document,
                                                order |-> NoKey]]
          /\ Moves(c, IF outcome = "rejected" \/ c \in Checking THEN "done" ELSE "place")
    BY <1>7 DEF Verify
  <2>2. confirm' \in [Askers -> RequestRecord]
    BY <1>1, <1>3, <2>1, MovesOne
  <2>3. [status |-> outcome, document |-> confirm[c].document, order |-> NoKey] \in AttemptRecord
    BY <1>1 DEF AttemptRecord, RequestRecord
  <2> QED BY <1>1, <1>2, <1>7, <2>1, <2>2, <2>3 DEF Verify
<1>8. ASSUME NEW c \in Askers, VerifyFails(c) \/ IsKilled(c) PROVE IdTypeOK'
  <2>1. confirm' \in [Askers -> RequestRecord]
    BY <1>1, <1>3, <1>8, MovesOne DEF VerifyFails, IsKilled
  <2> QED BY <1>1, <1>2, <1>8, <2>1 DEF VerifyFails, IsKilled
<1>9. ASSUME NEW c \in Confirming, PlaceOrder(c) PROVE IdTypeOK'
  <2>1. confirm' \in [Askers -> RequestRecord]
    BY <1>1, <1>3, <1>9, MovesOne DEF PlaceOrder
  <2>2. confirm[c].key \in Keys
    BY <1>1, <1>9 DEF AttemptFollows, PlaceOrder
  <2>3. attempt' \in [Askers -> AttemptRecord]
    BY <1>1, <1>9, <2>2, IdRecords DEF PlaceOrder
  <2>4. placed' \in [Keys -> OrderRecord]
    BY <1>1, <1>9 DEF PlaceOrder, OrderRecord, RequestRecord, DocumentOf, VerifiedCopy
  <2> QED BY <1>1, <1>2, <1>9, <2>1, <2>3, <2>4 DEF PlaceOrder
<1>10. ASSUME NEW c \in Confirming, PlacingFails(c) PROVE IdTypeOK'
  <2>1. confirm' \in [Askers -> RequestRecord]
    BY <1>1, <1>3, <1>10, MovesOne DEF PlacingFails
  <2> QED BY <1>1, <1>2, <1>10, <2>1 DEF PlacingFails
<1>11. ASSUME NEW c \in Confirming, DropAttempt(c) PROVE IdTypeOK'
  <2>1. confirm' \in [Askers -> RequestRecord]
    BY <1>1, <1>3, <1>11, MovesOne DEF DropAttempt
  <2>2. attempt' \in [Askers -> AttemptRecord]
    BY <1>1, <1>11, IdRecords DEF DropAttempt
  <2> QED BY <1>1, <1>2, <1>11, <2>1, <2>2 DEF DropAttempt
<1>12. ASSUME NEW c \in Askers, ApproveManually(c) PROVE IdTypeOK'
  <2>1. attempt' \in [Askers -> AttemptRecord]
    BY <1>1, <1>12, IdRecords DEF ApproveManually
  <2> QED BY <1>1, <1>2, <1>12, <2>1 DEF ApproveManually
<1>13. ASSUME NEW k \in Keys, ResumeOrder(k) PROVE IdTypeOK'
  <2>1. placed' \in [Keys -> OrderRecord]
    BY <1>1, <1>13, IdRecords DEF ResumeOrder
  <2> QED BY <1>1, <1>2, <1>13, <2>1 DEF ResumeOrder
<1>14. CASE UNCHANGED idVars
  BY <1>1, <1>2, <1>14 DEF idVars
<1> QED BY <1>4, <1>5, <1>6, <1>7, <1>8, <1>9, <1>10, <1>11, <1>12, <1>13, <1>14 DEF IdNext

(* Every step keeps attempts and orders together.                          *)
LEMMA IdInvStays == IdInv /\ [IdNext]_idVars => IdInv'
<1> SUFFICES ASSUME IdInv, [IdNext]_idVars PROVE IdInv'
  OBVIOUS
<1> USE IdentityAssumption
<1>1. IdTypeOK /\ IdTypeOK'
  BY IdTypesStay DEF IdInv
<1>2. /\ attempt \in [Askers -> AttemptRecord] /\ placed \in [Keys -> OrderRecord]
      /\ confirm \in [Askers -> RequestRecord]
      /\ \A c \in Askers : attempt[c].order \in Keys \cup {NoKey}
      /\ \A k \in Keys : placed[k].required \in BOOLEAN
      /\ Confirming \subseteq Askers /\ Checking \subseteq Askers
  BY <1>1, IdTypes DEF Askers, AttemptRecord, OrderRecord
<1>3. /\ TiedToAnOrder /\ AttemptIsTheOrders /\ FailedLeavesNothing
      /\ \A c \in Askers : AttemptFollows(c)
  BY DEF IdInv
<1> DEFINE Goal == /\ TiedToAnOrder' /\ AttemptIsTheOrders' /\ FailedLeavesNothing'
                   /\ \A c \in Askers : AttemptFollows(c)'
<1> SUFFICES Goal
  BY <1>1 DEF IdInv
<1> USE DEF TiedToAnOrder, AttemptIsTheOrders, FailedLeavesNothing, AttemptFollows
<1>4. ASSUME UNCHANGED <<attempt, placed, confirm>> PROVE Goal
  BY <1>3, <1>4
(* A step of one request that ties nothing to an order.                    *)
<1>5. ASSUME NEW c \in Askers, attempt[c].order = NoKey, placed' = placed,
             \A d \in Askers \ {c} : attempt'[d] = attempt[d] /\ confirm'[d] = confirm[d],
             attempt'[c].order = NoKey, AttemptFollows(c)',
             c \in Confirming /\ confirm'[c].at = "done" => attempt'[c].status \in {"none", "rejected"}
      PROVE  Goal
  <2>1. TiedToAnOrder'
    BY <1>2, <1>3, <1>5
  <2>2. AttemptIsTheOrders'
    <3> SUFFICES ASSUME NEW k \in Keys, placed[k].required
                 PROVE  \E e \in Confirming :
                          /\ attempt'[e].order = k /\ attempt'[e].document = placed[k].document
                          /\ placed[k].status = "verified" => attempt'[e].status = "approved"
                          /\ \A d \in Askers \ {e} : attempt'[d].order # k
      BY <1>5
    <3>1. PICK e \in Confirming :
                          /\ attempt[e].order = k /\ attempt[e].document = placed[k].document
                          /\ placed[k].status = "verified" => attempt[e].status = "approved"
                          /\ \A d \in Askers \ {e} : attempt[d].order # k
      BY <1>3
    <3>2. e # c /\ attempt'[e] = attempt[e] /\ k # NoKey
      BY <1>2, <1>5, <3>1
    <3> QED BY <1>5, <3>1, <3>2
  <2>3. FailedLeavesNothing' /\ \A d \in Askers : AttemptFollows(d)'
    BY <1>2, <1>3, <1>5
  <2> QED BY <2>1, <2>2, <2>3
<1>6. CASE SaveDni \/ CorrectDni
  BY <1>4, <1>6 DEF SaveDni, CorrectDni
<1>7. ASSUME NEW c \in Confirming, NEW k \in Keys, NEW required \in BOOLEAN,
             BeginConfirm(c, k, required)
      PROVE  Goal
  <2>1. /\ confirm[c].at = "new" /\ UNCHANGED <<attempt, placed>> /\ c \in Askers
        /\ confirm'[c] = [at |-> IF placed[k].status # "none" THEN "done"
                                 ELSE IF required THEN "verify" ELSE "place",
                          key |-> k, document |-> dni, required |-> required]
        /\ \A d \in Askers \ {c} : confirm'[d] = confirm[d]
    BY <1>2, <1>7 DEF BeginConfirm
  <2>2. attempt[c] = NoAttempt /\ NoAttempt.order = NoKey /\ NoAttempt.status = "none"
    BY <1>3, <2>1 DEF NoAttempt
  <2> QED BY <1>5, <2>1, <2>2
<1>8. ASSUME NEW c \in Checking, BeginCheck(c) PROVE Goal
  <2>1. /\ confirm[c].at = "new" /\ UNCHANGED <<attempt, placed>> /\ c \in Askers /\ c \notin Confirming
        /\ confirm'[c].at = "verify" /\ confirm'[c].required
        /\ \A d \in Askers \ {c} : confirm'[d] = confirm[d]
    BY <1>2, <1>8 DEF BeginCheck, NotAsking
  <2>2. attempt[c] = NoAttempt /\ NoAttempt.order = NoKey
    BY <1>3, <2>1 DEF NoAttempt
  <2> QED BY <1>5, <2>1, <2>2
<1>9. ASSUME NEW c \in Askers, Verify(c) PROVE Goal
  <2>1. PICK outcome \in Decided :
          /\ attempt' = [attempt EXCEPT ![c] = [status |-> outcome, document |-> confirm[c].document,
                                                order |-> NoKey]]
          /\ Moves(c, IF outcome = "rejected" \/ c \in Checking THEN "done" ELSE "place")
    BY <1>9 DEF Verify
  <2>2. /\ attempt'[c] = [status |-> outcome, document |-> confirm[c].document, order |-> NoKey]
        /\ \A d \in Askers \ {c} : attempt'[d] = attempt[d]
    BY <1>2, <2>1
  <2>3. attempt[c] = NoAttempt /\ NoAttempt.order = NoKey /\ confirm[c].at = "verify"
        /\ placed' = placed
    BY <1>3, <1>9 DEF Verify, NoAttempt
  <2>4. CASE outcome = "rejected" \/ c \in Checking
    BY <1>1, <1>3, <1>5, <2>1, <2>2, <2>3, <2>4, MovesOne
  <2>5. CASE ~(outcome = "rejected" \/ c \in Checking)
    <3>1. Moves(c, "place") /\ c \in Confirming
      BY <2>1, <2>5 DEF Askers
    <3>2. /\ confirm'[c].at = "place" /\ confirm'[c].key = confirm[c].key
          /\ confirm'[c].document = confirm[c].document
          /\ confirm'[c].required = confirm[c].required
          /\ \A d \in Askers \ {c} : confirm'[d] = confirm[d]
      BY <1>1, <3>1, MovesOne
    <3>3. outcome \in {"approved", "pending_review"}
      BY <2>5 DEF Decided
    <3>4. confirm[c].required
      BY <1>3, <2>3
    <3> QED BY <1>3, <1>5, <2>2, <2>3, <3>1, <3>2, <3>3
  <2> QED BY <2>4, <2>5
<1>10. ASSUME NEW c \in Askers, VerifyFails(c) \/ IsKilled(c) \/ (c \in Confirming /\ PlacingFails(c))
       PROVE  Goal
  <2>1. /\ attempt[c].order = NoKey /\ UNCHANGED <<attempt, placed>>
        /\ Moves(c, "done") \/ Moves(c, "killed") \/ Moves(c, "undo")
    BY <1>3, <1>10 DEF VerifyFails, IsKilled, PlacingFails, NoAttempt
  <2>2. VerifyFails(c) => attempt[c].status = "none"
    BY <1>3 DEF VerifyFails, NoAttempt
  <2> QED BY <1>1, <1>3, <1>5, <1>10, <2>1, <2>2, MovesOne DEF VerifyFails, IsKilled, PlacingFails
<1>11. ASSUME NEW c \in Confirming, DropAttempt(c) PROVE Goal
  <2>1. attempt'[c] = NoAttempt /\ \A d \in Askers \ {c} : attempt'[d] = attempt[d]
    BY <1>2, <1>3, <1>11 DEF DropAttempt
  <2>2. /\ Moves(c, "done") /\ placed' = placed /\ attempt[c].order = NoKey /\ c \in Askers
        /\ confirm[c].at = "undo"
    BY <1>2, <1>3, <1>11 DEF DropAttempt
  <2> QED BY <1>1, <1>3, <1>5, <2>1, <2>2, MovesOne DEF NoAttempt
<1>12. ASSUME NEW c \in Confirming, PlaceOrder(c) PROVE Goal
  <2> DEFINE k == confirm[c].key
  <2>1. /\ k \in Keys /\ placed[k].status = "none" /\ c \in Askers /\ attempt[c].order = NoKey
        /\ confirm[c].at = "place" /\ k # NoKey
        /\ placed'[k].document = confirm[c].document
        /\ placed'[k].required = confirm[c].required
        /\ placed'[k].status # "none"
        /\ \A m \in Keys \ {k} : placed'[m] = placed[m]
    BY <1>2, <1>3, <1>12 DEF PlaceOrder, DocumentOf, VerifiedCopy
  <2>2. /\ confirm'[c].at = "done" /\ confirm'[c].key = k
        /\ \A d \in Askers \ {c} : confirm'[d] = confirm[d]
    BY <1>1, <1>12, <2>1, MovesOne DEF PlaceOrder
  <2>3. \A d \in Askers : attempt[d].order # k
    BY <1>2, <1>3, <2>1
  <2>4. CASE confirm[c].required
    <3>1. /\ attempt'[c].order = k /\ attempt'[c].document = confirm[c].document
          /\ attempt'[c].status = attempt[c].status
          /\ attempt[c].status \in {"approved", "pending_review"}
          /\ placed'[k].status = "verified" => attempt[c].status = "approved"
          /\ \A d \in Askers \ {c} : attempt'[d] = attempt[d]
      BY <1>2, <1>3, <1>12, <2>1, <2>4 DEF PlaceOrder, AttemptRecord
    <3>2. AttemptIsTheOrders'
      <4>1. ASSUME NEW m \in Keys \ {k}, placed'[m].required
            PROVE  \E e \in Confirming :
                     /\ attempt'[e].order = m /\ attempt'[e].document = placed'[m].document
                     /\ placed'[m].status = "verified" => attempt'[e].status = "approved"
                     /\ \A d \in Askers \ {e} : attempt'[d].order # m
        <5>1. PICK e \in Confirming :
                     /\ attempt[e].order = m /\ attempt[e].document = placed[m].document
                     /\ placed[m].status = "verified" => attempt[e].status = "approved"
                     /\ \A d \in Askers \ {e} : attempt[d].order # m
          BY <1>3, <2>1, <4>1
        <5>2. e # c
          BY <2>1, <5>1
        <5> QED BY <1>2, <2>1, <3>1, <5>1, <5>2
      <4>2. \A d \in Askers \ {c} : attempt'[d].order # k
        BY <2>3, <3>1
      <4> QED BY <2>1, <3>1, <4>1, <4>2
    <3>3. TiedToAnOrder'
      BY <1>2, <1>3, <2>1, <3>1
    <3>4. FailedLeavesNothing'
      BY <1>2, <1>3, <2>1, <2>2, <3>1
    <3>5. \A d \in Askers : AttemptFollows(d)'
      BY <1>3, <2>1, <2>2, <3>1
    <3> QED BY <3>2, <3>3, <3>4, <3>5
  <2>5. CASE ~confirm[c].required
    <3>1. attempt' = attempt /\ attempt[c] = NoAttempt
      BY <1>3, <1>12, <2>1, <2>5 DEF PlaceOrder
    <3>2. AttemptIsTheOrders'
      BY <1>3, <2>1, <2>5, <3>1
    <3>3. TiedToAnOrder'
      BY <1>2, <1>3, <2>1, <3>1
    <3>4. FailedLeavesNothing'
      BY <1>2, <1>3, <2>1, <2>2, <3>1 DEF NoAttempt
    <3>5. \A d \in Askers : AttemptFollows(d)'
      BY <1>3, <2>1, <2>2, <3>1
    <3> QED BY <3>2, <3>3, <3>4, <3>5
  <2> QED BY <2>4, <2>5
<1>13. ASSUME NEW c \in Askers, ApproveManually(c) PROVE Goal
  <2>1. /\ UNCHANGED <<placed, confirm>> /\ attempt[c].order # NoKey
        /\ attempt'[c].status = "approved" /\ attempt'[c].order = attempt[c].order
        /\ attempt'[c].document = attempt[c].document
        /\ \A d \in Askers \ {c} : attempt'[d] = attempt[d]
    BY <1>2, <1>13 DEF ApproveManually, AttemptRecord
  <2>2. \A d \in Askers : attempt'[d].order = attempt[d].order
                       /\ attempt'[d].document = attempt[d].document
                       /\ attempt[d].status = "approved" => attempt'[d].status = "approved"
    BY <2>1
  <2>3. AttemptIsTheOrders'
    BY <1>2, <1>3, <2>1, <2>2
  <2>4. TiedToAnOrder'
    BY <1>3, <2>1, <2>2
  <2>5. confirm[c].at \notin {"new", "verify", "place", "undo"}
    BY <1>3, <2>1 DEF NoAttempt
  <2>6. FailedLeavesNothing'
    BY <1>2, <1>3, <2>1
  <2>7. \A d \in Askers : AttemptFollows(d)'
    BY <1>3, <2>1, <2>5
  <2> QED BY <2>3, <2>4, <2>6, <2>7
<1>14. ASSUME NEW k \in Keys, ResumeOrder(k) PROVE Goal
  <2>1. /\ UNCHANGED <<attempt, confirm>>
        /\ placed'[k].status = "verified" /\ placed'[k].document = placed[k].document
        /\ placed'[k].required = placed[k].required
        /\ \A m \in Keys \ {k} : placed'[m] = placed[m]
    BY <1>2, <1>14 DEF ResumeOrder, OrderRecord
  <2>2. PICK a \in Askers : attempt[a].status = "approved" /\ attempt[a].order = k
    BY <1>14 DEF ResumeOrder, MayGoOnPaying
  <2>3. AttemptIsTheOrders'
    BY <1>2, <1>3, <2>1, <2>2
  <2>4. TiedToAnOrder'
    BY <1>2, <1>3, <2>1
  <2> QED BY <1>3, <2>1, <2>3, <2>4
<1>15. CASE UNCHANGED idVars
  BY <1>4, <1>15 DEF idVars
<1> QED BY <1>6, <1>7, <1>8, <1>9, <1>10, <1>11, <1>12, <1>13, <1>14, <1>15, <1>2 DEF IdNext

(* An order that had to be verified has the one attempt about its document,*)
(* and no attempt of a failed confirmation is left, for any number of      *)
(* requests, documents and orders.                                         *)
THEOREM IdentityCorrect == IdSpec => [](IdTypeOK /\ OrderIsIdentified)
<1>1. IdInit => IdInv
  <2> SUFFICES ASSUME IdInit PROVE IdInv
    OBVIOUS
  <2>1. /\ \A c \in Askers : attempt[c] = NoAttempt /\ confirm[c] = NotAsking
        /\ \A k \in Keys : placed[k] = NotPlaced
        /\ NoAttempt.order = NoKey /\ NotAsking.at = "new" /\ ~NotPlaced.required
    BY DEF IdInit, NoAttempt, NotAsking, NotPlaced
  <2>2. NoAttempt \in AttemptRecord /\ NotAsking \in RequestRecord /\ NotPlaced \in OrderRecord
    BY DEF NoAttempt, NotAsking, NotPlaced, AttemptRecord, RequestRecord, RequestPlaces, OrderRecord
  <2>3. IdTypeOK
    BY <2>2, IdTypes DEF IdInit
  <2>4. Confirming \subseteq Askers
    BY DEF Askers
  <2> QED BY <2>1, <2>3, <2>4 DEF IdInv, TiedToAnOrder, AttemptIsTheOrders, FailedLeavesNothing, AttemptFollows
<1>2. IdInv => IdTypeOK /\ OrderIsIdentified
  BY DEF IdInv, OrderIsIdentified
<1> QED BY <1>1, <1>2, IdInvStays, PTL DEF IdSpec

-----------------------------------------------------------------------------
(* THE WHOLE.  A behaviour takes the steps of one component: what the      *)
(* others promise holds of the state they stay in.                         *)
LEMMA ProvidersSteps ==
  ASSUME [ProvidersNext]_<<part, vars, carrierVars, intVars, fiscVars, idVars>>
  PROVE  /\ [Next]_vars /\ [CarrierNext]_carrierVars /\ [IntNext]_intVars
         /\ [FiscNext]_fiscVars /\ [IdNext]_idVars
BY Zenon DEF ProvidersNext, AtRest

(* Every step of the whole is a step of each component or leaves it alone. *)
LEMMA ProvidersAreTheirParts ==
  ProvidersSpec => Spec /\ CarrierSpec /\ IntSpec /\ FiscSpec /\ IdSpec
<1>1. ProvidersInit => Init /\ CarrierInit /\ IntInit /\ FiscInit /\ IdInit
  BY DEF ProvidersInit
<1> QED BY <1>1, ProvidersSteps, PTL DEF ProvidersSpec, Spec, CarrierSpec, IntSpec, FiscSpec, IdSpec

(* The types of all components' states, for any value of the constants.    *)
THEOREM ProvidersTypes == ProvidersSpec => []ProvidersTypeOK
<1>1. TypeOK /\ CarrierTypeOK /\ IntTypeOK /\ FiscTypeOK /\ IdTypeOK => ProvidersTypeOK
  BY DEF ProvidersTypeOK
<1> QED BY <1>1, ProvidersAreTheirParts, WebhookTypes, CarrierCorrect, IntegrationsCorrect,
           FiscalCorrect, IdentityCorrect, PTL

(* What the shop promises of the services outside it: no accepted          *)
(* notification is filed away unhandled, no refused token is presented     *)
(* again, what is shown as configured is in use or fails in an error, no   *)
(* query outlives its ticket, and an order names the identity that was     *)
(* verified.                                                               *)
THEOREM ProvidersCorrect ==
  ProvidersSpec => [](/\ UnhandledIsOpen /\ RefusedIsNotReused /\ ConfiguredIsInUse
                      /\ TaxpayerIsSound /\ OrderIsIdentified)
BY ProvidersAreTheirParts, UnhandledStaysOpen, CarrierCorrect, IntegrationsCorrect,
   FiscalCorrect, IdentityCorrect, PTL
=============================================================================
