------------------------------- MODULE Fiscal -------------------------------
(***************************************************************************)
(* The CUIT of a billing profile, asked of ARCA's register of taxpayers    *)
(* (accounts/arca_a13.py, fiscal_identity.py, serializers.py): a ticket    *)
(* from WSAA, kept in the cache that all processes share until shortly     *)
(* before it expires, and one or two queries with it.                      *)
(*                                                                         *)
(* Time passes while an answer is awaited, never longer than the timeout.  *)
(***************************************************************************)
EXTENDS Integers, FiniteSets

CONSTANTS
  Filers,    \* requests that save a billing profile
  Cuits,     \* taxpayers
  Papers,    \* documents
  PaperOf,   \* the document of each taxpayer
  Margin,    \* a ticket is not used in the last two minutes of its life
  Timeout,   \* longest wait for an answer (five seconds to connect, twenty to read)
  LastNow,   \* bound on the time
  MaxLife    \* bound on how long a ticket is given for

ASSUME FiscalAssumption ==
  /\ Margin \in Nat /\ Timeout \in Nat /\ 2 * Timeout < Margin
  /\ LastNow \in Nat \ {0} /\ MaxLife \in Nat
  /\ PaperOf \in [Cuits -> Papers]
  /\ Cuits \cap Papers = {} /\ "none" \notin Papers   \* eleven digits, and eight at most

VARIABLES
  clock,
  ticket,   \* when the cached ticket expires; 0 when there is none
  filing,   \* each request: what it was given, what it has found, its ticket and how long it waits
  cuit      \* what each profile has

fiscVars == <<clock, ticket, filing, cuit>>

NoTicket == 0
NoCuit == [cuit |-> "none", given |-> "none"]
NotFiling ==
  [at |-> "new", given |-> "none", cuit |-> "none", expires |-> NoTicket, since |-> 0, asks |-> "list"]

FiscInit ==
  /\ clock = 1 /\ ticket = NoTicket
  /\ filing = [f \in Filers |-> NotFiling]
  /\ cuit = [f \in Filers |-> NoCuit]

Continues(f, new) == filing' = [filing EXCEPT ![f] = new]
GivesUp(f) == Continues(f, [NotFiling EXCEPT !.at = "done"])

(* resolve_fiscal_identifier: a CUIT is asked for itself, or taken as it is*)
(* when ARCA is not configured; a DNI for its taxpayers first.             *)
GiveIdentifier(f) ==
  /\ filing[f].at = "new"
  /\ \/ \E c \in Cuits : Continues(f, [NotFiling EXCEPT !.at = "ticket", !.given = c,
                                                         !.cuit = c, !.asks = "person"])
     \/ \E p \in Papers : Continues(f, [NotFiling EXCEPT !.at = "ticket", !.given = p])
  /\ UNCHANGED <<clock, ticket, cuit>>

FileUnasked(f) ==
  /\ filing[f].at = "new"
  /\ \E c \in Cuits : cuit' = [cuit EXCEPT ![f] = [cuit |-> c, given |-> c]]
  /\ GivesUp(f)
  /\ UNCHANGED <<clock, ticket>>

(* _ticket: the cached one, unless it has less than the margin to live.    *)
LongEnough(expires) == expires > clock + Margin
StillValid(expires) == expires > clock
MayReuse(expires) == LongEnough(expires)

TakeTicket(f) ==
  /\ filing[f].at = "ticket" /\ MayReuse(ticket)
  /\ Continues(f, [filing[f] EXCEPT !.at = "ask", !.expires = ticket, !.since = clock])
  /\ UNCHANGED <<clock, ticket, cuit>>

AskForTicket(f) ==
  /\ filing[f].at = "ticket" /\ ~MayReuse(ticket)
  /\ Continues(f, [filing[f] EXCEPT !.at = "login", !.since = clock])
  /\ UNCHANGED <<clock, ticket, cuit>>

(* The life that is left is reckoned from before the login.                *)
GetTicket(f) ==
  /\ filing[f].at = "login"
  /\ \E life \in 1..MaxLife :
       LET expires == clock + life IN
       IF expires > filing[f].since + Margin
         THEN /\ ticket' = expires
              /\ Continues(f, [filing[f] EXCEPT !.at = "ask", !.expires = expires, !.since = clock])
         ELSE GivesUp(f) /\ UNCHANGED ticket
  /\ UNCHANGED <<clock, cuit>>

ListByDocument(f) ==
  /\ filing[f].at = "ask" /\ filing[f].asks = "list"
  /\ \E found \in SUBSET Cuits :
       \/ \E c \in found : found = {c}
            /\ Continues(f, [filing[f] EXCEPT !.at = "ticket", !.asks = "person", !.cuit = c,
                                        !.expires = NoTicket, !.since = 0])
       \/ Cardinality(found) # 1 /\ GivesUp(f)
  /\ UNCHANGED <<clock, ticket, cuit>>

(* getPersona: the one that was asked for, active, and of the document.    *)
DocumentAgrees(f, c) == filing[f].given \in Papers => PaperOf[c] = filing[f].given

GetPerson(f) ==
  LET c == filing[f].cuit IN
  /\ filing[f].at = "ask" /\ filing[f].asks = "person"
  /\ \E active \in BOOLEAN :
       cuit' = IF active /\ DocumentAgrees(f, c)
                 THEN [cuit EXCEPT ![f] = [cuit |-> c, given |-> filing[f].given]] ELSE cuit
  /\ GivesUp(f)
  /\ UNCHANGED <<clock, ticket>>

(* No answer in time, a fault, or one that makes no sense.                 *)
ArcaFails(f) ==
  /\ filing[f].at \in {"login", "ask"} /\ GivesUp(f)
  /\ UNCHANGED <<clock, ticket, cuit>>

(* The entry is cached for what is left of its life without the margin,    *)
(* counted from after the login, and may be dropped sooner.                *)
CacheForgets ==
  /\ ticket # NoTicket /\ ticket' = NoTicket
  /\ UNCHANGED <<clock, filing, cuit>>

AwaitsArca(f) == filing[f].at \in {"login", "ask"}

TimePasses ==
  /\ clock < LastNow
  /\ \A f \in Filers : AwaitsArca(f) => clock - filing[f].since < Timeout
  /\ clock' = clock + 1
  /\ UNCHANGED <<ticket, filing, cuit>>

FiscNext ==
  \/ \E f \in Filers :
       \/ GiveIdentifier(f) \/ FileUnasked(f) \/ TakeTicket(f) \/ AskForTicket(f) \/ GetTicket(f)
       \/ ListByDocument(f) \/ GetPerson(f) \/ ArcaFails(f)
  \/ CacheForgets \/ TimePasses

FiscSpec == FiscInit /\ [][FiscNext]_fiscVars

-----------------------------------------------------------------------------
FiscTypeOK ==
  /\ clock \in 1..LastNow /\ ticket \in 0..LastNow + MaxLife
  /\ filing \in [Filers ->
       [at : {"new", "ticket", "login", "ask", "done"}, given : Cuits \cup Papers \cup {"none"},
        cuit : Cuits \cup {"none"}, expires : 0..LastNow + MaxLife, since : 0..LastNow,
        asks : {"list", "person"}]]
  /\ cuit \in [Filers -> [cuit : Cuits \cup {"none"}, given : Cuits \cup Papers \cup {"none"}]]

(* A query that is under way bears a ticket that has not expired, however  *)
(* late the answer comes and whoever put the ticket into the cache.        *)
TicketOutlivesQuery ==
  \A f \in Filers : filing[f].at = "ask" => filing[f].expires > clock

(* A CUIT that was saved for a document is of a taxpayer with it, or the   *)
(* one that was given.                                                     *)
CuitIsTheirs ==
  \A f \in Filers : cuit[f].given \in Papers => PaperOf[cuit[f].cuit] = cuit[f].given

(* Both (arca_a13.py 275-308, fiscal_identity.py 67-119).                  *)
TaxpayerIsSound == TicketOutlivesQuery /\ CuitIsTheirs
=============================================================================
