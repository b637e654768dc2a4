------------------------------ MODULE Rollups ------------------------------
(***************************************************************************)
(* The visits and events that pages post and the daily tables counted from *)
(* them (analytics/services.py, views.py, tasks.py).                       *)
(*                                                                         *)
(* Visits, events and flags are statements that commit one by one, in      *)
(* requests that may be lost and sent again.  A task that beat starts once *)
(* a day counts the last days anew, each in a transaction of its own; runs *)
(* may be lost or break off, and events are deleted when they are old.     *)
(***************************************************************************)
EXTENDS Integers, FiniteSets

CONSTANTS
  Tours,        \* visits, each with a session cookie
  PageViews,    \* product views, by the event_id their page draws
  Checkouts,    \* checkouts, by the event_id that their order gives them
  Conversions,  \* paid orders
  Window,       \* days that each run counts
  EventDays,    \* days that events are kept
  LastDay,      \* bound on the days
  MaxOver,      \* bound: midnights that a visit, or a payment before its conversion, may pass
  MaxMissed     \* bound: days without a complete run, one after another

ASSUME RollupsAssumption ==
  /\ Window \in Nat \ {0} /\ EventDays \in Nat /\ Window <= EventDays
  /\ LastDay \in Nat /\ MaxOver \in Nat /\ MaxMissed \in Nat
  /\ MaxOver + MaxMissed + 1 < Window
  /\ PageViews # {}

VARIABLES
  today,
  visit,      \* AnalyticsSession rows: the day each began, and its flags
  request,    \* where the request of each is
  event,      \* AnalyticsEvent rows
  ever,       \* all the events that have been stored
  sale,       \* the day each conversion's payment was approved
  daily,      \* the tables' rows of each day
  missed      \* days since one that had a complete run, this one included if it has none

rollVars == <<today, visit, request, event, ever, sale, daily, missed>>

Days == 0..LastDay
Never == -1
Hits == PageViews \cup Checkouts
FlagOf(h) == IF h \in PageViews THEN "viewed_product" ELSE "started_checkout"
SessionFlags == {"viewed_product", "started_checkout"}

NotBegun == [began |-> Never, flags |-> {}]
NoRequest == [at |-> "rest", hit |-> CHOOSE h \in Hits : TRUE]

-----------------------------------------------------------------------------
(* What the tables say of a day: _channel_rows counts the sessions that    *)
(* began on it and their flags, _product_rows the views, the sessions they *)
(* are of, and the orders paid.                                            *)
Count(d, rows) ==
  LET seen == {e \in rows : e.day = d /\ e.hit \in PageViews}
      sessions == {v \in Tours : visit[v].began = d} IN
  [views |-> Cardinality(seen),
   viewing |-> Cardinality({e.visit : e \in seen}),
   sessions |-> Cardinality(sessions),
   flagged |-> [f \in SessionFlags |-> Cardinality({v \in sessions : f \in visit[v].flags})],
   paid |-> Cardinality({o \in Conversions : sale[o] = d})]

NothingCounted ==
  [views |-> 0, viewing |-> 0, sessions |-> 0, flagged |-> [f \in SessionFlags |-> 0], paid |-> 0]

RollInit ==
  /\ today = 0
  /\ visit = [v \in Tours |-> NotBegun]
  /\ request = [v \in Tours |-> NoRequest]
  /\ event = {} /\ ever = {}
  /\ sale = [o \in Conversions |-> Never]
  /\ daily = [d \in Days |-> NothingCounted]
  /\ missed = 1

-----------------------------------------------------------------------------
(* resolve_tracking_context: the cookie's session goes on while it is seen *)
(* every half hour, past midnight too; later than that a request begins    *)
(* another one.  The server's own events never begin one.                  *)
GoesOn(v) == visit[v].began # Never /\ today - visit[v].began <= MaxOver

PostView(v) ==
  /\ request[v].at = "rest"
  /\ visit[v].began = Never \/ GoesOn(v)
  /\ visit' = [visit EXCEPT ![v].began = IF @ = Never THEN today ELSE @]
  /\ \E h \in PageViews : request' = [request EXCEPT ![v] = [at |-> "insert", hit |-> h]]
  /\ UNCHANGED <<today, event, ever, sale, daily, missed>>

MarkCheckout(v) ==
  /\ request[v].at = "rest" /\ GoesOn(v)
  /\ \E h \in Checkouts : request' = [request EXCEPT ![v] = [at |-> "insert", hit |-> h]]
  /\ UNCHANGED <<today, visit, event, ever, sale, daily, missed>>

(* get_or_create by event_id: one sent again finds its row, if it is kept. *)
InsertEvent(v) ==
  LET h == request[v].hit
      new == IF \E e \in event : e.hit = h THEN {} ELSE {[hit |-> h, visit |-> v, day |-> today]} IN
  /\ request[v].at = "insert"
  /\ event' = event \cup new /\ ever' = ever \cup new
  /\ request' = [request EXCEPT ![v].at = "flag"]
  /\ UNCHANGED <<today, visit, sale, daily, missed>>

FlagVisit(v) ==
  /\ request[v].at = "flag"
  /\ visit' = [visit EXCEPT ![v].flags = @ \cup {FlagOf(request[v].hit)}]
  /\ request' = [request EXCEPT ![v] = NoRequest]
  /\ UNCHANGED <<today, event, ever, sale, daily, missed>>

VisitRequestIsLost(v) ==
  /\ request[v].at # "rest"
  /\ request' = [request EXCEPT ![v] = NoRequest]
  /\ UNCHANGED <<today, visit, event, ever, sale, daily, missed>>

(* record_paid_conversion, dated the day the payment was approved on; the  *)
(* task that looks for lost ones may record it later.                      *)
Convert(o) ==
  /\ sale[o] = Never
  /\ \E d \in Days : d <= today /\ today - d <= MaxOver /\ sale' = [sale EXCEPT ![o] = d]
  /\ UNCHANGED <<today, visit, request, event, ever, daily, missed>>

-----------------------------------------------------------------------------
(* rollup_recent_analytics counts today and the days before, one after the *)
(* other, each in a transaction: a run that breaks off has counted some.   *)
(* The other form of the window is a day short.                            *)
LastDays == {d \in Days : d <= today /\ today - d < Window}
OneDayLess == {d \in Days : d <= today /\ today - d < Window - 1}
RecentDays == LastDays

RollupRecent ==
  /\ missed > 0
  /\ \E first \in RecentDays :
       /\ daily' = [d \in Days |-> IF d \in RecentDays /\ d >= first THEN Count(d, event)
                                                                    ELSE daily[d]]
       /\ missed' = IF \E d \in RecentDays : d < first THEN missed ELSE 0
  /\ UNCHANGED <<today, visit, request, event, ever, sale>>

(* Requests and runs are far shorter than a day.                           *)
Midnight ==
  /\ today < LastDay /\ missed <= MaxMissed
  /\ \A v \in Tours : request[v].at = "rest" \/ today - visit[v].began < MaxOver
  /\ today' = today + 1 /\ missed' = missed + 1
  /\ UNCHANGED <<visit, request, event, ever, sale, daily>>

(* purge_expired_analytics: what is older than the retention, to the hour. *)
PurgeEvents ==
  /\ \E old \in SUBSET {e \in event : today - e.day >= EventDays} :
       old # {} /\ event' = event \ old
  /\ UNCHANGED <<today, visit, request, ever, sale, daily, missed>>

RollNext ==
  \/ \E v \in Tours :
       PostView(v) \/ MarkCheckout(v) \/ InsertEvent(v) \/ FlagVisit(v) \/ VisitRequestIsLost(v)
  \/ \E o \in Conversions : Convert(o)
  \/ RollupRecent \/ Midnight \/ PurgeEvents

RollSpec == RollInit /\ [][RollNext]_rollVars

-----------------------------------------------------------------------------
EventRows == [hit : Hits, visit : Tours, day : Days]

RollTypeOK ==
  /\ today \in Days
  /\ visit \in [Tours -> [began : Days \cup {Never}, flags : SUBSET SessionFlags]]
  /\ request \in [Tours -> [at : {"rest", "insert", "flag"}, hit : Hits]]
  /\ event \subseteq EventRows /\ ever \subseteq EventRows
  /\ sale \in [Conversions -> Days \cup {Never}]
  /\ DOMAIN daily = Days
  /\ missed \in 0..MaxMissed + 1

(* A day that runs no longer count keeps what happened on it: the views    *)
(* and their sessions, the sessions and what they went on to do after      *)
(* midnight, and payments heard of later, whatever requests are lost or    *)
(* sent again, runs missed or broken off, and events deleted.              *)
ClosedDayIsComplete ==
  \A d \in Days : today - d >= Window => daily[d] = Count(d, ever)
=============================================================================
