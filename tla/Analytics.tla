----------------------------- MODULE Analytics -----------------------------
(***************************************************************************)
(* Attribution of orders to visits and the conversions recorded for paid   *)
(* orders (analytics/services.py, analytics/tasks.py).                     *)
(*                                                                         *)
(* A conversion is recorded by a callback of the webhook's worker, after   *)
(* the payment's transaction has committed, and a periodic task records    *)
(* the ones that were lost.  Every statement commits by itself, and the    *)
(* retention task deletes sessions in between.                             *)
(***************************************************************************)
EXTENDS Integers

CONSTANTS
  Sold,        \* orders
  Attempts,    \* bound: payment transactions of an order
  Sessions,    \* analytics sessions
  Ticker,      \* the reconciliation task
  NoVisit,     \* no attribution row
  Gone,        \* a row whose session was deleted (SET NULL)
  MaxLost      \* bound: callbacks or ticks that are killed or fail

ASSUME AnalyticsAssumption ==
  /\ Attempts \in Nat \ {0} /\ MaxLost \in Nat /\ Sold # {}
  /\ NoVisit \notin Sessions /\ Gone \notin Sessions /\ Gone # NoVisit

Paid == Sold \X (1..Attempts)
Recorders == Paid \cup {Ticker}

VARIABLES
  visits,      \* sessions that are stored
  attribution, \* session of each order
  status,      \* status of each payment transaction
  conversion,  \* whether each order has its row, and of which payment
  converted,   \* sessions with first_converted_at
  record,      \* record_paid_conversion in each caller
  todo,        \* what the task has still to go through
  losses

anaVars == <<visits, attribution, status, conversion, converted, record, todo, losses>>

NoConversion == [made |-> FALSE, attempt |-> 0]
NoCall == [at |-> "idle", order |-> CHOOSE o \in Sold : TRUE, attempt |-> 0, visit |-> NoVisit]
Call(p) == [NoCall EXCEPT !.at = "read", !.order = p[1], !.attempt = p[2]]

AnaInit ==
  /\ visits = Sessions
  /\ attribution = [o \in Sold |-> NoVisit]
  /\ status = [p \in Paid |-> "pending"]
  /\ conversion = [o \in Sold |-> NoConversion]
  /\ converted = {}
  /\ record = [c \in Recorders |-> NoCall]
  /\ todo = {}
  /\ losses = 0

-----------------------------------------------------------------------------
(* link_order_to_request_session, in a step of its own after the order has *)
(* committed: its payment may be approved first.                           *)
LinkOrder(o) ==
  /\ attribution[o] = NoVisit
  /\ \E v \in visits : attribution' = [attribution EXCEPT ![o] = v]
  /\ UNCHANGED <<visits, status, conversion, converted, record, todo, losses>>

(* apply_payment; its callback is called once it has committed.            *)
Approve(p) ==
  /\ status[p] = "pending"
  /\ status' = [status EXCEPT ![p] = "approved"]
  /\ record' = [record EXCEPT ![p] = Call(p)]
  /\ UNCHANGED <<visits, attribution, conversion, converted, todo, losses>>

Refund(p) ==
  /\ status[p] = "approved"
  /\ status' = [status EXCEPT ![p] = "refunded"]
  /\ UNCHANGED <<visits, attribution, conversion, converted, record, todo, losses>>

(* purge_expired_analytics: attributions lose the session.                 *)
Purge(v) ==
  /\ v \in visits
  /\ visits' = visits \ {v}
  /\ attribution' = [o \in Sold |-> IF attribution[o] = v THEN Gone ELSE attribution[o]]
  /\ converted' = converted \ {v}
  /\ UNCHANGED <<status, conversion, record, todo, losses>>

-----------------------------------------------------------------------------
(* record_paid_conversion.  The caller's copy of the payment is approved.  *)
ReadAttribution(c) ==
  LET v == attribution[record[c].order] IN
  /\ record[c].at = "read"
  /\ record' = [record EXCEPT ![c] = IF v \in Sessions THEN [@ EXCEPT !.at = "insert", !.visit = v]
                                                   ELSE NoCall]
  /\ UNCHANGED <<visits, attribution, status, conversion, converted, todo, losses>>

(* get_or_create by order: another caller may have made the row.           *)
Insert(c) ==
  LET k == record[c] IN
  /\ k.at = "insert"
  /\ conversion[k.order].made \/ k.visit \in visits
  /\ conversion' = [conversion EXCEPT ![k.order] =
                      IF @.made THEN @ ELSE [made |-> TRUE, attempt |-> k.attempt]]
  /\ record' = [record EXCEPT ![c].at = "flag"]
  /\ UNCHANGED <<visits, attribution, status, converted, todo, losses>>

FlagSession(c) ==
  /\ record[c].at = "flag"
  /\ converted' = converted \cup ({record[c].visit} \cap visits)
  /\ record' = [record EXCEPT ![c] = NoCall]
  /\ UNCHANGED <<visits, attribution, status, conversion, todo, losses>>

(* The session is gone: the foreign key refuses the row, and the exception *)
(* ends a tick with all it had still to do.                                *)
ForeignKeyFails(c) ==
  /\ record[c].at = "insert" /\ ~conversion[record[c].order].made
  /\ record[c].visit \notin visits
  /\ record' = [record EXCEPT ![c] = NoCall]
  /\ todo' = IF c = Ticker THEN {} ELSE todo
  /\ UNCHANGED <<visits, attribution, status, conversion, converted, losses>>

(* The worker is killed or the database fails.                             *)
IsLost(c) ==
  /\ record[c].at # "idle" /\ losses < MaxLost
  /\ losses' = losses + 1
  /\ record' = [record EXCEPT ![c] = NoCall]
  /\ todo' = IF c = Ticker THEN {} ELSE todo
  /\ UNCHANGED <<visits, attribution, status, conversion, converted>>

-----------------------------------------------------------------------------
(* reconcile_missing_conversions: approved payments that are not the one   *)
(* of a conversion, of orders that have an attribution row; the other form *)
(* looks at the sessions that have not been converted.                     *)
Reconciled(p) == conversion[p[1]] = [made |-> TRUE, attempt |-> p[2]]
SelectedByVisit(p) == status[p] = "approved" /\ attribution[p[1]] \notin converted \cup {NoVisit}
Selected(p) == status[p] = "approved" /\ ~Reconciled(p) /\ attribution[p[1]] # NoVisit

Tick ==
  /\ record[Ticker].at = "idle" /\ todo = {}
  /\ todo' = {p \in Paid : Selected(p)}
  /\ todo' # {}
  /\ UNCHANGED <<visits, attribution, status, conversion, converted, record, losses>>

(* In any order; the rows are the ones that were read at the start.        *)
TickNext ==
  /\ record[Ticker].at = "idle"
  /\ \E p \in todo :
       /\ todo' = todo \ {p}
       /\ record' = [record EXCEPT ![Ticker] = Call(p)]
  /\ UNCHANGED <<visits, attribution, status, conversion, converted, losses>>

CallStep(c) == ReadAttribution(c) \/ Insert(c) \/ FlagSession(c) \/ ForeignKeyFails(c)

AnaNext ==
  \/ \E o \in Sold : LinkOrder(o)
  \/ \E p \in Paid : Approve(p) \/ Refund(p)
  \/ \E v \in Sessions : Purge(v)
  \/ \E c \in Recorders : CallStep(c) \/ IsLost(c)
  \/ Tick \/ TickNext

AnaSpec == AnaInit /\ [][AnaNext]_anaVars

(* The task is scheduled for ever and its calls come to an end; nothing is *)
(* promised of the callbacks (settings.py:454-457).                        *)
AnaFairness ==
  /\ WF_anaVars(Tick) /\ WF_anaVars(TickNext)
  /\ WF_anaVars(CallStep(Ticker))

AnaFairSpec == AnaSpec /\ AnaFairness

-----------------------------------------------------------------------------
AnaTypeOK ==
  /\ visits \subseteq Sessions
  /\ attribution \in [Sold -> Sessions \cup {NoVisit, Gone}]
  /\ status \in [Paid -> {"pending", "approved", "refunded"}]
  /\ conversion \in [Sold -> [made : BOOLEAN, attempt : 0..Attempts]]
  /\ converted \subseteq Sessions
  /\ record \in [Recorders -> [at : {"idle", "read", "insert", "flag"}, order : Sold,
                             attempt : 0..Attempts, visit : Sessions \cup {NoVisit}]]
  /\ todo \subseteq Paid
  /\ losses \in 0..MaxLost

(* A paid order that came from a stored visit does not stay without its    *)
(* conversion, whichever callbacks are lost, sessions are purged and ticks *)
(* break off (analytics/tasks.py:196-214, payments.py:270-276).            *)
Missing(o) ==
  /\ ~conversion[o].made /\ attribution[o] \in visits
  /\ \E n \in 1..Attempts : status[<<o, n>>] = "approved"
ConversionIsRecorded == \A o \in Sold : Missing(o) ~> ~Missing(o)
=============================================================================
