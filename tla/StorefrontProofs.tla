-------------------------- MODULE StorefrontProofs --------------------------
(***************************************************************************)
(* What holds of carts, delivery, orders, cases, accounts, addresses and   *)
(* the daily tables, and of the storefront as a whole, for any number of   *)
(* customers, variants, carriers, quotes, requests and days.               *)
(***************************************************************************)
EXTENDS MCStorefront, CatalogProofs, FiniteFacts

(* The code is issued at most once: by the request that made the account.  *)
IssuedOnce ==
  /\ account = "none" => ~challenge.issued
  /\ ~challenge.issued => challenge.attempts = 0 /\ ~challenge.open
  /\ \A g \in People : guess[g].at = "issue" => account # "none" /\ ~challenge.issued
  /\ \A g, h \in People : guess[g].at = "issue" /\ guess[h].at = "issue" => g = h

(* Its row counts the wrong answers, and one request at a time reads it.   *)
Counting ==
  /\ wrong = challenge.attempts
  /\ challenge.open => challenge.attempts < MaxAttempts
  /\ \A g \in People :
       guess[g].at = "guess" => challenge.open /\ guess[g].attempts = challenge.attempts
  /\ \A g, h \in People : guess[g].at = "guess" /\ guess[h].at = "guess" => g = h

(* A request that ends forgets what it has read.                           *)
LEMMA IdleAgain ==
  ASSUME NEW g \in People
  PROVE  Now(g, "idle") => guess' = [guess EXCEPT ![g] = [at |-> "idle", attempts |-> 0]]
<1>1. [[at |-> "idle", attempts |-> 0] EXCEPT !.at = "idle"] = [at |-> "idle", attempts |-> 0]
  OBVIOUS
<1> QED BY <1>1, Zenon DEF Now, NoGuess

(* Every step of a request, the administrator and the clock keeps them.    *)
LEMMA GuessingStays ==
  AccTypeOK /\ IssuedOnce /\ Counting /\ [AccNext]_accVars => (AccTypeOK /\ IssuedOnce /\ Counting)'
<1> SUFFICES ASSUME AccTypeOK, IssuedOnce, Counting, [AccNext]_accVars
             PROVE  AccTypeOK' /\ IssuedOnce' /\ Counting'
  OBVIOUS
<1> USE AccountsAssumption DEF AccTypeOK, IssuedOnce, Counting, NoGuess
<1> DEFINE Goal == AccTypeOK' /\ IssuedOnce' /\ Counting'
<1>1. ASSUME NEW g \in People, LookForEmail(g) PROVE Goal
  BY <1>1 DEF LookForEmail, Now
<1>2. ASSUME NEW g \in People, CreateAccount(g) PROVE Goal
  BY <1>2 DEF CreateAccount, Now
<1>3. ASSUME NEW g \in People, IssueCode(g) PROVE Goal
  BY <1>3 DEF IssueCode, Now
<1>4. ASSUME NEW g \in People, SignInWithGoogle(g) PROVE Goal
  BY <1>4 DEF SignInWithGoogle, Now
<1>5. ASSUME NEW g \in People, SignIn(g) PROVE Goal
  BY <1>5 DEF SignIn
<1>6. ASSUME NEW g \in People, ReadChallenge(g) PROVE Goal
  BY <1>6 DEF ReadChallenge, MayRead, Guessing
<1>7. ASSUME NEW g \in People, WrongCode(g) PROVE Goal
  <2>1. /\ guess[g].at = "guess" /\ challenge.open /\ challenge.issued
        /\ guess[g].attempts = challenge.attempts /\ challenge.attempts < MaxAttempts
    BY <1>7 DEF WrongCode
  <2>2. /\ challenge'.issued = challenge.issued /\ challenge'.attempts = challenge.attempts + 1
        /\ challenge'.open \in BOOLEAN
        /\ challenge'.open => challenge.attempts + 1 < MaxAttempts
        /\ challenge' \in [issued : BOOLEAN, attempts : 0..MaxAttempts, open : BOOLEAN]
    <3> DEFINE count == challenge.attempts + 1
    <3>1. challenge' = [challenge EXCEPT !.attempts = count,
                                         !.open = challenge.open /\ count < MaxAttempts]
      BY <1>7, <2>1 DEF WrongCode, MayGoOn
    <3>2. /\ count \in 0..MaxAttempts
          /\ challenge \in [issued : BOOLEAN, attempts : 0..MaxAttempts, open : BOOLEAN]
      BY <2>1
    <3> HIDE DEF count
    <3>3. /\ challenge'.issued = challenge.issued /\ challenge'.attempts = count
          /\ challenge'.open = (challenge.open /\ count < MaxAttempts)
          /\ challenge' \in [issued : BOOLEAN, attempts : 0..MaxAttempts, open : BOOLEAN]
      BY <3>1, <3>2 DEF AccTypeOK
    <3> QED BY <3>3 DEF count
  <2>3. wrong' = wrong + 1 /\ UNCHANGED <<account, linked, mailed>>
    BY <1>7 DEF WrongCode
  <2>4. /\ guess' = [guess EXCEPT ![g] = [at |-> "idle", attempts |-> 0]]
        /\ \A h \in People \ {g} : guess[h].at # "guess"
    BY <1>7, <2>1, IdleAgain DEF WrongCode
  <2>5. AccTypeOK'
    BY <2>2, <2>3, <2>4
  <2>6. IssuedOnce'
    BY <2>1, <2>2, <2>3, <2>4
  <2>7. Counting'
    BY <2>1, <2>2, <2>3, <2>4
  <2> QED BY <2>5, <2>6, <2>7
<1>8. ASSUME NEW g \in People, RightCode(g) PROVE Goal
  <2>1. guess[g].at = "guess" /\ challenge.open /\ challenge.issued
    BY <1>8 DEF RightCode
  <2>2. /\ challenge' = [challenge EXCEPT !.open = FALSE] /\ wrong' = wrong
        /\ account' = "verified" /\ UNCHANGED <<linked, mailed>>
        /\ guess' = [guess EXCEPT ![g] = [at |-> "idle", attempts |-> 0]]
        /\ \A h \in People \ {g} : guess[h].at # "guess"
    BY <1>8, <2>1, IdleAgain DEF RightCode
  <2>3. /\ challenge'.issued /\ challenge'.attempts = challenge.attempts /\ ~challenge'.open
        /\ challenge' \in [issued : BOOLEAN, attempts : 0..MaxAttempts, open : BOOLEAN]
    BY <2>1, <2>2
  <2> QED BY <2>2, <2>3
<1>9. ASSUME NEW g \in People, GiveUp(g) PROVE Goal
  BY <1>9 DEF GiveUp, Now
<1>10. CASE SetDelivery
  BY <1>10 DEF SetDelivery
<1>11. CASE ExpireCode
  BY <1>11 DEF ExpireCode, Guessing
<1>12. CASE UNCHANGED accVars
  BY <1>12 DEF accVars
<1> QED
  BY <1>1, <1>2, <1>3, <1>4, <1>5, <1>6, <1>7, <1>8, <1>9, <1>10, <1>11, <1>12 DEF AccNext

(* The columns keep their types: no count goes past the last attempt.      *)
THEOREM AccountTypes == AccSpec => [](AccTypeOK /\ IssuedOnce /\ Counting)
<1>1. AccInit => AccTypeOK /\ IssuedOnce /\ Counting
  <2> SUFFICES ASSUME AccInit PROVE AccTypeOK /\ IssuedOnce /\ Counting
    OBVIOUS
  <2>1. NoCode \in [issued : BOOLEAN, attempts : 0..MaxAttempts, open : BOOLEAN]
    BY AccountsAssumption DEF NoCode
  <2>2. AccTypeOK
    <3>1. guess \in [People -> [at : {"idle", "register", "admit", "google", "issue", "guess"},
                               attempts : 0..MaxAttempts]]
      BY AccountsAssumption DEF AccInit, NoGuess
    <3>2. wrong \in Nat /\ account \in {"none", "unverified", "verified"}
      BY DEF AccInit
    <3>3. linked \in BOOLEAN /\ mailed \in BOOLEAN
      BY Zenon DEF AccInit
    <3>4. challenge = NoCode
      BY DEF AccInit
    <3> QED BY <2>1, <3>1, <3>2, <3>3, <3>4 DEF AccTypeOK
  <2>3. \A g \in People : guess[g].at = "idle"
    BY DEF AccInit, NoGuess
  <2>4. challenge.attempts = 0 /\ ~challenge.issued /\ ~challenge.open
    BY DEF AccInit, NoCode
  <2> QED BY <2>2, <2>3, <2>4 DEF AccInit, IssuedOnce, Counting
<1> QED BY <1>1, GuessingStays, PTL DEF AccSpec

(* However many requests try codes at once, so many wrong ones are         *)
(* answered and no more (accounts/services.py:19-40).                      *)
THEOREM FewGuesses == AccSpec => []GuessesAreFew
<1>1. AccTypeOK /\ Counting => GuessesAreFew
  BY AccountsAssumption DEF AccTypeOK, Counting, GuessesAreFew
<1> QED BY <1>1, AccountTypes, PTL

-----------------------------------------------------------------------------
(* CASES.  What a request whose transaction is open has seen still is so:  *)
(* the case it opens is not there, the one it replies to takes messages,   *)
(* its message is not there, and its files are.                            *)
PostFollows(q) ==
  post[q].at # "rest" =>
    /\ post[q].case \in Cases /\ post[q].key \in PostKeys
    /\ post[q].key \notin message[post[q].case]
    /\ post[q].at \in Opening => post[q].owner \in Owners /\ ~Exists(post[q].case)
    /\ post[q].at \notin Opening => Exists(post[q].case) /\ TakesMessages(post[q].case)
    /\ post[q].at \notin Storing => Upload(q) \subseteq stored

(* Its row locks keep others out.                                          *)
LocksHold ==
  \A q, p \in Posts :
    /\ post[q].at # "rest" /\ post[p].at # "rest" /\ post[q].case = post[p].case => q = p
    /\ post[q].at \in Opening /\ post[p].at \in Opening /\ post[q].owner = post[p].owner => q = p

(* A case has the message that opened it, and its opener sees it until     *)
(* somebody else claims it.                                                *)
OpenerSees ==
  \A c \in Cases :
    /\ ~Exists(c) => message[c] = {}
    /\ Exists(c) => /\ case[c].key \in message[c] /\ case[c].opener \in Owners
                    /\ c \in claimed \/ Sees(case[c].opener, c)

AttachedIsSent == \A c \in Cases, k \in PostKeys : <<c, k>> \in attached => k \in message[c]

(* A request opens a case only where its opener sees none of its earlier   *)
(* attempts.                                                               *)
OpensOnce ==
  \A q \in Posts, c \in Cases :
    /\ post[q].at \in Opening /\ Exists(c)
    /\ case[c].opener = post[q].owner /\ case[c].key = post[q].key
    => c \in claimed

SuppInv ==
  /\ SuppTypeOK /\ LocksHold /\ OpenerSees /\ AttachedIsSent /\ OpensOnce
  /\ AttachmentHasFile /\ ClosedIsClosed /\ OneCasePerRequest
  /\ \A q \in Posts : PostFollows(q)

PostPlaces == {"rest", "open", "write"} \cup Storing
PostRecord ==
  [at : PostPlaces, owner : Owners \cup {NoOne}, key : PostKeys \cup {NoOne}, case : 0..MaxCases]
CaseRecord ==
  [status : CaseStatus \cup {"none"}, closed_at : BOOLEAN, customer : Users \cup {NoOne},
   opener : Owners \cup {NoOne}, key : PostKeys \cup {NoOne}]

LEMMA SuppTypes ==
  SuppTypeOK <=>
    /\ case \in [Cases -> CaseRecord] /\ post \in [Posts -> PostRecord]
    /\ access \subseteq Cases \X Guests /\ message \in [Cases -> SUBSET PostKeys]
    /\ claimed \subseteq Cases
    /\ attached \subseteq Cases \X PostKeys /\ stored \subseteq Cases \X PostKeys
BY DEF SuppTypeOK, PostRecord, PostPlaces, CaseRecord

LEMMA SuppRecords ==
  /\ \A r \in PostRecord, at \in PostPlaces : [r EXCEPT !.at = at] \in PostRecord
  /\ \A r \in CaseRecord, s \in CaseStatus, b \in BOOLEAN :
       /\ [r EXCEPT !.status = s] \in CaseRecord
       /\ [r EXCEPT !.status = s, !.closed_at = b] \in CaseRecord
  /\ \A r \in CaseRecord, u \in Users : [r EXCEPT !.customer = u] \in CaseRecord
  /\ \A at \in PostPlaces, o \in Owners \cup {NoOne}, k \in PostKeys \cup {NoOne}, c \in 0..MaxCases :
       [at |-> at, owner |-> o, key |-> k, case |-> c] \in PostRecord
  /\ Waiting \in PostRecord
<1>1. \A r \in PostRecord, at \in PostPlaces : [r EXCEPT !.at = at] \in PostRecord
  BY DEF PostRecord
<1>2. ASSUME NEW r \in CaseRecord, NEW s \in CaseStatus, NEW b \in BOOLEAN
      PROVE  /\ [r EXCEPT !.status = s] \in CaseRecord
             /\ [r EXCEPT !.status = s, !.closed_at = b] \in CaseRecord
  BY DEF CaseRecord
<1>3. \A r \in CaseRecord, u \in Users : [r EXCEPT !.customer = u] \in CaseRecord
  BY DEF CaseRecord
<1>4. \A at \in PostPlaces, o \in Owners \cup {NoOne}, k \in PostKeys \cup {NoOne}, c \in 0..MaxCases :
        [at |-> at, owner |-> o, key |-> k, case |-> c] \in PostRecord
  BY DEF PostRecord
<1>5. Waiting \in PostRecord
  BY SupportAssumption DEF PostRecord, Waiting, PostPlaces
<1> QED BY <1>1, <1>2, <1>3, <1>4, <1>5

(* The row of a case that is opened.                                       *)
NewCase(o, k) ==
  [NoCase EXCEPT !.status = "waiting_staff", !.customer = IF o \in Users THEN o ELSE NoOne,
                 !.opener = o, !.key = k]

LEMMA NewCaseIs ==
  ASSUME NEW o \in Owners, NEW k \in PostKeys
  PROVE  /\ NewCase(o, k) \in CaseRecord
         /\ NewCase(o, k).status = "waiting_staff" /\ ~NewCase(o, k).closed_at
         /\ NewCase(o, k).customer = (IF o \in Users THEN o ELSE NoOne)
         /\ NewCase(o, k).opener = o /\ NewCase(o, k).key = k
<1> DEFINE OpenedRow(s, u) == [NoCase EXCEPT !.status = s, !.customer = u, !.opener = o, !.key = k]
<1>1. ASSUME NEW s \in CaseStatus, NEW u \in Users \cup {NoOne}
      PROVE  /\ OpenedRow(s, u) \in CaseRecord /\ OpenedRow(s, u).status = s /\ ~OpenedRow(s, u).closed_at
             /\ OpenedRow(s, u).customer = u /\ OpenedRow(s, u).opener = o /\ OpenedRow(s, u).key = k
  BY SupportAssumption DEF NoCase, CaseRecord
<1> DEFINE who == IF o \in Users THEN o ELSE NoOne
<1>2. who \in Users \cup {NoOne}
  OBVIOUS
<1>3. "waiting_staff" \in CaseStatus
  BY DEF CaseStatus
<1>4. NewCase(o, k) = OpenedRow("waiting_staff", who)
  BY Zenon DEF NewCase
<1> HIDE DEF OpenedRow, who
<1>5. /\ NewCase(o, k) \in CaseRecord
      /\ NewCase(o, k).status = "waiting_staff" /\ ~NewCase(o, k).closed_at
      /\ NewCase(o, k).customer = who /\ NewCase(o, k).opener = o /\ NewCase(o, k).key = k
  <2>1. /\ OpenedRow("waiting_staff", who) \in CaseRecord
        /\ OpenedRow("waiting_staff", who).status = "waiting_staff"
        /\ ~OpenedRow("waiting_staff", who).closed_at
        /\ OpenedRow("waiting_staff", who).customer = who
        /\ OpenedRow("waiting_staff", who).opener = o /\ OpenedRow("waiting_staff", who).key = k
    BY <1>1, <1>2, <1>3, Zenon
  <2> QED BY <1>4, <2>1, Zenon
<1> QED BY <1>5 DEF who

LEMMA SuppTypesStay == SuppInv /\ [SuppNext]_suppVars => SuppTypeOK'
<1> SUFFICES ASSUME SuppInv, [SuppNext]_suppVars PROVE SuppTypeOK'
  OBVIOUS
<1>0. Cases \subseteq 0..MaxCases
  BY SupportAssumption DEF Cases
<1>1. /\ case \in [Cases -> CaseRecord] /\ post \in [Posts -> PostRecord]
      /\ access \subseteq Cases \X Guests /\ message \in [Cases -> SUBSET PostKeys]
      /\ claimed \subseteq Cases
      /\ attached \subseteq Cases \X PostKeys /\ stored \subseteq Cases \X PostKeys
      /\ \A c \in Cases : case[c] \in CaseRecord
      /\ \A q \in Posts : post[q] \in PostRecord /\ PostFollows(q)
      /\ Cases \subseteq 0..MaxCases /\ Waiting \in PostRecord
  BY <1>0, SuppTypes, SuppRecords DEF SuppInv
<1>2. /\ "open" \in PostPlaces /\ "open_file" \in PostPlaces /\ "write" \in PostPlaces
      /\ "file" \in PostPlaces
      /\ "waiting_customer" \in CaseStatus /\ "waiting_staff" \in CaseStatus
  BY DEF PostPlaces, Storing, CaseStatus
<1> DEFINE Typed ==
      /\ case' \in [Cases -> CaseRecord] /\ post' \in [Posts -> PostRecord]
      /\ access' \subseteq Cases \X Guests /\ message' \in [Cases -> SUBSET PostKeys]
      /\ claimed' \subseteq Cases
      /\ attached' \subseteq Cases \X PostKeys /\ stored' \subseteq Cases \X PostKeys
<1> SUFFICES Typed
  BY SuppTypes DEF SuppTypeOK, PostRecord, PostPlaces, CaseRecord
<1>3. ASSUME NEW q \in Posts, NEW o \in Owners \cup {NoOne}, NEW c \in Cases, NEW k \in PostKeys,
             OpenCase(q, o, k, c) \/ Reply(q, o, c, k)
      PROVE  Typed
  <2>1. PICK at \in PostPlaces :
          post' = [post EXCEPT ![q] = [at |-> at, owner |-> o, key |-> k, case |-> c]]
    BY <1>2, <1>3, Zenon DEF OpenCase, Reply
  <2>2. [at |-> at, owner |-> o, key |-> k, case |-> c] \in PostRecord
    BY <1>1, SuppRecords
  <2>3. post' \in [Posts -> PostRecord]
    BY <1>1, <2>1, <2>2
  <2> QED BY <1>1, <1>3, <2>3 DEF OpenCase, Reply
<1>4. ASSUME NEW q \in Posts, CommitCase(q) PROVE Typed
  <2> DEFINE o == post[q].owner
             c == post[q].case
             k == post[q].key
  <2>1. c \in Cases /\ k \in PostKeys /\ o \in Owners
    BY <1>1, <1>4 DEF CommitCase, PostFollows, Opening
  <2>2. /\ case' = [case EXCEPT ![c] = NewCase(o, k)] /\ NewCase(o, k) \in CaseRecord
        /\ access' = IF o \in Guests THEN access \cup {<<c, o>>} ELSE access
        /\ attached' = attached \cup Upload(q) /\ post' = [post EXCEPT ![q] = Waiting]
        /\ message' = [message EXCEPT ![c] = {k}] /\ UNCHANGED <<stored, claimed>>
    BY <1>4, <2>1, NewCaseIs DEF CommitCase, NewCase
  <2>3. Upload(q) \subseteq Cases \X PostKeys
    BY <2>1 DEF Upload
  <2> HIDE DEF o, c, k
  <2>4. case' \in [Cases -> CaseRecord] /\ post' \in [Posts -> PostRecord]
    BY <1>1, <2>1, <2>2
  <2>5. access' \subseteq Cases \X Guests /\ message' \in [Cases -> SUBSET PostKeys]
    BY <1>1, <2>1, <2>2
  <2> QED BY <1>1, <2>2, <2>3, <2>4, <2>5
<1>5. ASSUME NEW q \in Posts, CommitReply(q) PROVE Typed
  <2>1. post[q].case \in Cases /\ post[q].key \in PostKeys
    BY <1>1, <1>5 DEF CommitReply, PostFollows
  <2>2. Upload(q) \subseteq Cases \X PostKeys
    BY <2>1 DEF Upload
  <2>3. PICK s \in CaseStatus : case' = [case EXCEPT ![post[q].case].status = s]
    BY <1>2, <1>5 DEF CommitReply
  <2>4. case' \in [Cases -> CaseRecord]
    BY <1>1, <2>1, <2>3, SuppRecords
  <2>5. message' \in [Cases -> SUBSET PostKeys] /\ post' \in [Posts -> PostRecord]
    BY <1>1, <1>5, <2>1 DEF CommitReply
  <2> QED BY <1>1, <1>5, <2>2, <2>4, <2>5 DEF CommitReply
<1>6. ASSUME NEW q \in Posts, StoreFile(q) PROVE Typed
  <2>1. post[q].case \in Cases /\ post[q].key \in PostKeys
    BY <1>1, <1>6 DEF StoreFile, PostFollows, Storing
  <2>2. PICK at \in PostPlaces : post' = [post EXCEPT ![q].at = at]
    BY <1>2, <1>6 DEF StoreFile
  <2>3. post' \in [Posts -> PostRecord]
    BY <1>1, <2>2, SuppRecords
  <2> QED BY <1>1, <1>6, <2>1, <2>3 DEF StoreFile
<1>7. ASSUME NEW q \in Posts, FailPost(q) PROVE Typed
  BY <1>1, <1>7 DEF FailPost
<1>8. ASSUME NEW c \in Cases, NEW s \in CaseStatus, Patch(c, s) PROVE Typed
  <2>1. PICK b \in BOOLEAN : case' = [case EXCEPT ![c].status = s, ![c].closed_at = b]
    BY <1>8, Zenon DEF Patch
  <2>2. case'= [case EXCEPT ![c] = [case[c] EXCEPT !.status = s, !.closed_at = b]]
    BY <1>1, <2>1
  <2>3. case' \in [Cases -> CaseRecord]
    BY <1>1, <2>2, SuppRecords
  <2> QED BY <1>1, <1>8, <2>3 DEF Patch
<1>9. ASSUME NEW c \in Cases, NEW u \in Users, ClaimCase(c, u) PROVE Typed
  <2>1. case' \in [Cases -> CaseRecord]
    BY <1>1, <1>9, SuppRecords DEF ClaimCase
  <2> QED BY <1>1, <1>9, <2>1 DEF ClaimCase
<1>10. ASSUME NEW c \in Cases, NEW g \in Guests, EnterCase(c, g) PROVE Typed
  BY <1>1, <1>10 DEF EnterCase
<1>11. CASE UNCHANGED suppVars
  BY <1>1, <1>11 DEF suppVars
<1> QED BY <1>3, <1>4, <1>5, <1>6, <1>7, <1>8, <1>9, <1>10, <1>11, Zenon DEF SuppNext

(* Every step keeps the locks, what requests have seen, and the promises.  *)
LEMMA SuppInvStays == SuppInv /\ [SuppNext]_suppVars => SuppInv'
<1> SUFFICES ASSUME SuppInv, [SuppNext]_suppVars PROVE SuppInv'
  OBVIOUS
<1>1. /\ case \in [Cases -> CaseRecord] /\ post \in [Posts -> PostRecord]
      /\ message \in [Cases -> SUBSET PostKeys]
      /\ access \subseteq Cases \X Guests /\ attached \subseteq Cases \X PostKeys
      /\ LocksHold /\ OpenerSees /\ AttachedIsSent /\ OpensOnce
      /\ AttachmentHasFile /\ ClosedIsClosed /\ OneCasePerRequest
  BY SuppTypes DEF SuppInv
<1>2. \A q \in Posts : post[q] \in PostRecord /\ PostFollows(q)
  BY <1>1 DEF SuppInv
<1>3. \A c \in Cases : case[c] \in CaseRecord /\ message[c] \subseteq PostKeys
  BY <1>1
<1>4. SuppTypeOK'
  BY SuppTypesStay
<1> DEFINE Kept == /\ LocksHold' /\ OpenerSees' /\ AttachedIsSent' /\ OpensOnce'
                   /\ AttachmentHasFile' /\ ClosedIsClosed' /\ OneCasePerRequest'
                   /\ \A q \in Posts : PostFollows(q)'
<1> SUFFICES Kept
  BY <1>4 DEF SuppInv
<1>5. ASSUME NEW q \in Posts, NEW o \in Owners, NEW c \in Cases, NEW k \in PostKeys,
             OpenCase(q, o, k, c)
      PROVE  Kept
  <2>1. /\ post'[q].at \in Opening /\ post'[q].owner = o /\ post'[q].key = k
        /\ post'[q].case = c /\ (post'[q].at \notin Storing => k \notin Attaching)
    BY <1>1, <1>5 DEF OpenCase, Opening, Storing
  <2>2. \A p \in Posts \ {q} : post'[p] = post[p]
    BY <1>1, <1>5 DEF OpenCase
  <2>3. UNCHANGED <<case, access, message, attached, stored, claimed>>
    BY <1>5 DEF OpenCase
  <2>4. /\ ~Exists(c) /\ \A p \in Posts : post[p].at # "rest" => post[p].case # c
        /\ \A p \in Posts : post[p].at \in Opening => post[p].owner # o
        /\ \A d \in Cases : k \in message[d] => ~Sees(o, d)
    BY <1>5 DEF OpenCase, CaseIsFree, MayOpen, OwnerIsFree
  <2>5. k \notin message[c]
    BY <1>1, <2>4 DEF OpenerSees
  <2>6. LocksHold'
    BY <1>1, <2>1, <2>2, <2>4 DEF LocksHold, Opening
  <2>7. OpenerSees' /\ AttachedIsSent'
    BY <1>1, <2>3 DEF OpenerSees, AttachedIsSent, Exists, Sees
  <2>8. OpensOnce'
    <3>1. ASSUME NEW d \in Cases, Exists(d), case[d].opener = o, case[d].key = k PROVE d \in claimed
      BY <1>1, <2>4, <3>1 DEF OpenerSees
    <3> QED BY <1>1, <2>1, <2>2, <2>3, <3>1 DEF OpensOnce, Exists
  <2>9. AttachmentHasFile' /\ ClosedIsClosed' /\ OneCasePerRequest'
    BY <1>1, <2>3 DEF AttachmentHasFile, ClosedIsClosed, OneCasePerRequest, Exists
  <2>10. PostFollows(q)'
    BY <2>1, <2>3, <2>4, <2>5 DEF PostFollows, Exists, Upload
  <2>11. ASSUME NEW p \in Posts \ {q} PROVE PostFollows(p)'
    BY <1>2, <2>2, <2>3 DEF PostFollows, Exists, Upload, TakesMessages
  <2> QED BY <2>6, <2>7, <2>8, <2>9, <2>10, <2>11
<1>6. ASSUME NEW q \in Posts, NEW o \in Owners \cup {NoOne}, NEW c \in Cases, NEW k \in PostKeys,
             Reply(q, o, c, k)
      PROVE  Kept
  <2>1. /\ post'[q].at \in {"file", "write"} /\ post'[q].key = k
        /\ post'[q].case = c /\ (post'[q].at \notin Storing => k \notin Attaching)
    BY <1>1, <1>6 DEF Reply, Storing
  <2>2. \A p \in Posts \ {q} : post'[p] = post[p]
    BY <1>1, <1>6 DEF Reply
  <2>3. UNCHANGED <<case, access, message, attached, stored, claimed>>
    BY <1>6 DEF Reply
  <2>4. /\ Exists(c) /\ TakesMessages(c) /\ k \notin message[c]
        /\ \A p \in Posts : post[p].at # "rest" => post[p].case # c
    BY <1>6 DEF Reply, CaseIsFree
  <2>5. LocksHold'
    BY <1>1, <2>1, <2>2, <2>4 DEF LocksHold, Opening
  <2>6. OpenerSees' /\ AttachedIsSent'
    BY <1>1, <2>3 DEF OpenerSees, AttachedIsSent, Exists, Sees
  <2>7. OpensOnce'
    BY <1>1, <2>1, <2>2, <2>3 DEF OpensOnce, Exists, Opening
  <2>8. AttachmentHasFile' /\ ClosedIsClosed' /\ OneCasePerRequest'
    BY <1>1, <2>3 DEF AttachmentHasFile, ClosedIsClosed, OneCasePerRequest, Exists
  <2>9. PostFollows(q)'
    BY <2>1, <2>3, <2>4 DEF PostFollows, Exists, Upload, TakesMessages, Opening
  <2>10. ASSUME NEW p \in Posts \ {q} PROVE PostFollows(p)'
    BY <1>2, <2>2, <2>3 DEF PostFollows, Exists, Upload, TakesMessages
  <2> QED BY <2>5, <2>6, <2>7, <2>8, <2>9, <2>10
<1>7. ASSUME NEW q \in Posts, StoreFile(q) PROVE Kept
  <2> DEFINE c == post[q].case
             k == post[q].key
  <2>1. /\ post[q].at \in Storing /\ stored' = stored \cup {<<c, k>>}
        /\ UNCHANGED <<case, access, message, attached, claimed>>
        /\ post'[q].key = k /\ post'[q].case = c /\ post'[q].owner = post[q].owner
        /\ post'[q].at \in {"open", "write"}
        /\ post'[q].at \in Opening <=> post[q].at \in Opening
    <3> DEFINE Then(at) == /\ at \in {"open", "write"}
                           /\ at \in Opening <=> post[q].at \in Opening
    <3>1. PICK at : Then(at) /\ post' = [post EXCEPT ![q].at = at]
      BY <1>7 DEF StoreFile, Storing, Opening
    <3> HIDE DEF Then
    <3>2. post'[q] = [post[q] EXCEPT !.at = at]
      BY <1>1, <3>1
    <3>3. /\ post'[q].key = k /\ post'[q].case = c /\ post'[q].owner = post[q].owner
          /\ post'[q].at = at
      BY <1>2, <3>2 DEF PostRecord
    <3> QED BY <1>7, <3>1, <3>3 DEF StoreFile, Then
  <2>2. \A p \in Posts \ {q} : post'[p] = post[p]
    BY <1>1, <1>7 DEF StoreFile
  <2>3. LocksHold'
    BY <1>1, <2>1, <2>2 DEF LocksHold, Opening, Storing
  <2>4. OpenerSees' /\ AttachedIsSent'
    BY <1>1, <2>1 DEF OpenerSees, AttachedIsSent, Exists, Sees
  <2>5. OpensOnce'
    BY <1>1, <2>1, <2>2 DEF OpensOnce, Exists
  <2>6. AttachmentHasFile' /\ ClosedIsClosed' /\ OneCasePerRequest'
    BY <1>1, <2>1 DEF AttachmentHasFile, ClosedIsClosed, OneCasePerRequest, Exists
  <2>7. PostFollows(q)'
    BY <1>2, <2>1 DEF PostFollows, Exists, Upload, TakesMessages, Storing
  <2>8. ASSUME NEW p \in Posts \ {q} PROVE PostFollows(p)'
    BY <1>2, <2>1, <2>2 DEF PostFollows, Exists, Upload, TakesMessages
  <2> QED BY <2>3, <2>4, <2>5, <2>6, <2>7, <2>8
<1>8. ASSUME NEW q \in Posts, FailPost(q) PROVE Kept
  <2>1. /\ post'[q] = Waiting /\ \A p \in Posts \ {q} : post'[p] = post[p]
        /\ UNCHANGED <<case, access, message, attached, claimed>>
        /\ stored' = stored \ Upload(q)
    BY <1>1, <1>8 DEF FailPost
  <2>2. /\ post[q].at # "rest" /\ post[q].case \in Cases /\ post[q].key \in PostKeys
        /\ post[q].key \notin message[post[q].case]
    BY <1>2, <1>8 DEF FailPost, PostFollows
  <2>3. post'[q].at = "rest"
    BY <2>1 DEF Waiting
  <2>4. LocksHold'
    BY <1>1, <2>1, <2>3 DEF LocksHold, Opening
  <2>5. OpenerSees' /\ AttachedIsSent'
    BY <1>1, <2>1 DEF OpenerSees, AttachedIsSent, Exists, Sees
  <2>6. OpensOnce'
    BY <1>1, <2>1, <2>3 DEF OpensOnce, Exists, Opening
  <2>7. ClosedIsClosed' /\ OneCasePerRequest'
    BY <1>1, <2>1 DEF ClosedIsClosed, OneCasePerRequest, Exists
  <2>8. AttachmentHasFile'
    <3>1. <<post[q].case, post[q].key>> \notin attached
      BY <1>1, <2>2 DEF AttachedIsSent
    <3> QED BY <1>1, <2>1, <3>1 DEF AttachmentHasFile, Upload
  <2>9. ASSUME NEW p \in Posts \ {q} PROVE PostFollows(p)'
    <3>1. CASE post[p].at = "rest"
      BY <2>1, <3>1 DEF PostFollows
    <3>2. CASE post[p].at # "rest"
      <4>1. post[p].case # post[q].case
        BY <1>1, <2>2, <3>2 DEF LocksHold
      <4> QED BY <1>2, <2>1, <4>1 DEF PostFollows, Exists, Upload, TakesMessages
    <3> QED BY <3>1, <3>2
  <2>10. PostFollows(q)'
    BY <2>3 DEF PostFollows
  <2> QED BY <2>4, <2>5, <2>6, <2>7, <2>8, <2>9, <2>10
<1>9. ASSUME NEW q \in Posts, CommitReply(q) PROVE Kept
  <2> DEFINE c == post[q].case
             k == post[q].key
  <2>1. /\ post[q].at = "write" /\ c \in Cases /\ k \in PostKeys /\ Exists(c) /\ TakesMessages(c)
        /\ Upload(q) \subseteq stored
    BY <1>2, <1>9 DEF CommitReply, PostFollows, Opening, Storing
  <2>2. /\ post'[q] = Waiting /\ \A p \in Posts \ {q} : post'[p] = post[p]
        /\ UNCHANGED <<access, stored, claimed>>
        /\ attached' = attached \cup Upload(q) /\ Upload(q) \subseteq {<<c, k>>}
    BY <1>1, <1>9 DEF CommitReply, Upload
  <2>3. /\ message'[c] = message[c] \cup {k}
        /\ \A d \in Cases \ {c} : message'[d] = message[d] /\ case'[d] = case[d]
        /\ case'[c].status \in {"waiting_customer", "waiting_staff"}
        /\ case'[c].closed_at = case[c].closed_at /\ case'[c].opener = case[c].opener
        /\ case'[c].customer = case[c].customer /\ case'[c].key = case[c].key
    BY <1>1, <1>3, <1>9, <2>1 DEF CommitReply, CaseRecord
  <2>4. post'[q].at = "rest"
    BY <2>2 DEF Waiting
  <2> HIDE DEF c, k
  <2>5. LocksHold'
    BY <1>1, <2>2, <2>4 DEF LocksHold, Opening
  <2>6. \A d \in Cases : /\ Exists(d)' <=> Exists(d)
                         /\ case'[d].opener = case[d].opener /\ case'[d].key = case[d].key
                         /\ case'[d].customer = case[d].customer /\ message[d] \subseteq message'[d]
    BY <2>1, <2>3 DEF Exists
  <2>7. OpenerSees'
    BY <1>1, <2>1, <2>2, <2>3, <2>6 DEF OpenerSees, Sees
  <2>8. AttachedIsSent'
    BY <1>1, <2>1, <2>2, <2>3, <2>6 DEF AttachedIsSent
  <2>9. OpensOnce'
    BY <1>1, <2>2, <2>4, <2>6 DEF OpensOnce, Opening
  <2>10. AttachmentHasFile'
    BY <1>1, <2>1, <2>2 DEF AttachmentHasFile
  <2>11. ClosedIsClosed'
    BY <1>1, <2>1, <2>3 DEF ClosedIsClosed, TakesMessages
  <2>12. OneCasePerRequest'
    BY <1>1, <2>2, <2>6 DEF OneCasePerRequest
  <2>13. ASSUME NEW p \in Posts \ {q} PROVE PostFollows(p)'
    <3>1. CASE post[p].at = "rest"
      BY <2>2, <3>1 DEF PostFollows
    <3>2. CASE post[p].at # "rest"
      <4>1. post[p].case # c
        BY <1>1, <2>1, <3>2 DEF LocksHold, c
      <4> QED BY <1>2, <2>2, <2>3, <4>1 DEF PostFollows, Exists, Upload, TakesMessages
    <3> QED BY <3>1, <3>2
  <2>14. PostFollows(q)'
    BY <2>4 DEF PostFollows
  <2> QED BY <2>5, <2>7, <2>8, <2>9, <2>10, <2>11, <2>12, <2>13, <2>14
<1>10. ASSUME NEW q \in Posts, CommitCase(q) PROVE Kept
  <2>0. PICK o \in Owners, c \in Cases, k \in PostKeys :
          post[q].owner = o /\ post[q].case = c /\ post[q].key = k
    BY <1>2, <1>10 DEF CommitCase, PostFollows, Opening
  <2>1. /\ post[q].at = "open" /\ c \in Cases /\ k \in PostKeys /\ ~Exists(c) /\ o \in Owners
        /\ Upload(q) \subseteq stored
    BY <1>2, <1>10, <2>0 DEF CommitCase, PostFollows, Opening, Storing
  <2>2. /\ post'[q] = Waiting /\ \A p \in Posts \ {q} : post'[p] = post[p]
        /\ UNCHANGED <<stored, claimed>>
        /\ attached' = attached \cup Upload(q) /\ Upload(q) \subseteq {<<c, k>>}
    BY <1>1, <1>10, <2>0 DEF CommitCase, Upload
  <2>3. case' = [case EXCEPT ![c] = NewCase(o, k)] /\ message' = [message EXCEPT ![c] = {k}]
    BY <1>10, <2>0 DEF CommitCase, NewCase
  <2>4. access' = IF o \in Guests THEN access \cup {<<c, o>>} ELSE access
    BY <1>10, <2>0 DEF CommitCase
  <2>5. post'[q].at = "rest"
    BY <2>2 DEF Waiting
  <2>6. /\ \A p \in Posts \ {q} : post[p].at # "rest" => post[p].case # c
        /\ \A p \in Posts \ {q} : post[p].at \in Opening => post[p].owner # o
    BY <1>1, <2>0, <2>1 DEF LocksHold, Opening
  <2>7. ASSUME NEW d \in Cases, Exists(d), case[d].opener = o, case[d].key = k PROVE d \in claimed
    BY <1>1, <2>0, <2>1, <2>7 DEF OpensOnce, Opening
  <2>8. /\ message'[c] = {k} /\ \A d \in Cases \ {c} : message'[d] = message[d] /\ case'[d] = case[d]
        /\ case'[c].status = "waiting_staff" /\ ~case'[c].closed_at
        /\ case'[c].opener = o /\ case'[c].key = k
        /\ case'[c].customer = (IF o \in Users THEN o ELSE NoOne)
    <3>1. case'[c] = NewCase(o, k)
      BY <1>1, <2>1, <2>3
    <3>2. /\ case'[c].status = "waiting_staff" /\ ~case'[c].closed_at
          /\ case'[c].opener = o /\ case'[c].key = k
          /\ case'[c].customer = (IF o \in Users THEN o ELSE NoOne)
      <4>1. /\ NewCase(o, k).status = "waiting_staff" /\ ~NewCase(o, k).closed_at
            /\ NewCase(o, k).opener = o /\ NewCase(o, k).key = k
            /\ NewCase(o, k).customer = (IF o \in Users THEN o ELSE NoOne)
        BY <2>1, NewCaseIs
      <4> QED BY <3>1, <4>1, Zenon
    <3>3. message'[c] = {k} /\ \A d \in Cases \ {c} : message'[d] = message[d] /\ case'[d] = case[d]
      BY <1>1, <2>1, <2>3
    <3> QED BY <3>2, <3>3, Zenon
  <2>9. Exists(c)' /\ \A d \in Cases \ {c} : Exists(d)' <=> Exists(d)
    BY <2>8 DEF Exists
  <2>10. LocksHold'
    BY <1>1, <2>2, <2>5 DEF LocksHold, Opening
  <2>11. OpenerSees'
    <3>1. Sees(case[c].opener, c)'
      BY <2>0, <2>4, <2>8 DEF Sees, Owners
    <3>2. \A d \in Cases \ {c} : Sees(case[d].opener, d) => Sees(case[d].opener, d)'
      BY <2>4, <2>8 DEF Sees
    <3>3. ASSUME NEW d \in Cases \ {c}, ~Exists(d)' PROVE message'[d] = {}
      BY <1>1, <2>8, <2>9, <3>3 DEF OpenerSees
    <3>4. ASSUME NEW d \in Cases \ {c}, Exists(d)'
          PROVE  /\ case'[d].key \in message'[d] /\ case'[d].opener \in Owners
                 /\ d \in claimed' \/ Sees(case[d].opener, d)'
      <4>1. /\ case[d].key \in message[d] /\ case[d].opener \in Owners
            /\ d \in claimed \/ Sees(case[d].opener, d)
        BY <1>1, <2>9, <3>4 DEF OpenerSees
      <4>2. case'[d] = case[d] /\ message'[d] = message[d]
        BY <2>8
      <4> QED BY <2>2, <3>2, <4>1, <4>2
    <3>5. /\ case'[c].key \in message'[c] /\ case'[c].opener \in Owners
          /\ Sees(case[c].opener, c)'
      BY <2>1, <2>8, <3>1
    <3> QED BY <2>9, <3>3, <3>4, <3>5 DEF OpenerSees
  <2>12. AttachedIsSent'
    <3>1. message[c] = {}
      BY <1>1, <2>1 DEF OpenerSees
    <3> QED BY <1>1, <2>1, <2>2, <2>8, <3>1 DEF AttachedIsSent
  <2>13. OpensOnce'
    BY <1>1, <2>2, <2>5, <2>6, <2>8, <2>9 DEF OpensOnce, Opening
  <2>14. AttachmentHasFile'
    BY <1>1, <2>1, <2>2 DEF AttachmentHasFile
  <2>15. ClosedIsClosed'
    BY <1>1, <2>1, <2>8 DEF ClosedIsClosed
  <2>16. OneCasePerRequest'
    BY <1>1, <2>1, <2>2, <2>7, <2>8, <2>9 DEF OneCasePerRequest
  <2>17. ASSUME NEW p \in Posts \ {q} PROVE PostFollows(p)'
    <3>1. CASE post[p].at = "rest"
      BY <2>2, <3>1 DEF PostFollows
    <3>2. CASE post[p].at # "rest"
      BY <1>2, <2>2, <2>6, <2>8, <2>9, <3>2 DEF PostFollows, Exists, Upload, TakesMessages
    <3> QED BY <3>1, <3>2
  <2>18. PostFollows(q)'
    BY <2>5 DEF PostFollows
  <2> QED BY <2>10, <2>11, <2>12, <2>13, <2>14, <2>15, <2>16, <2>17, <2>18
<1>11. ASSUME NEW c \in Cases, NEW s \in CaseStatus, Patch(c, s) PROVE Kept
  <2>1. /\ case'[c].status = s /\ (case'[c].closed_at <=> s = "closed")
        /\ case'[c].opener = case[c].opener
        /\ case'[c].customer = case[c].customer /\ case'[c].key = case[c].key
        /\ \A d \in Cases \ {c} : case'[d] = case[d]
    <3> DEFINE b == s = "closed"
    <3>1. case' = [case EXCEPT ![c] = [case[c] EXCEPT !.status = s, !.closed_at = b]]
      BY <1>1, <1>11 DEF Patch
    <3>2. b \in BOOLEAN
      OBVIOUS
    <3> HIDE DEF b
    <3>3. /\ case'[c].status = s /\ (case'[c].closed_at <=> b) /\ case'[c].opener = case[c].opener
          /\ case'[c].customer = case[c].customer /\ case'[c].key = case[c].key
          /\ \A d \in Cases \ {c} : case'[d] = case[d]
      BY <1>1, <1>3, <3>1, <3>2 DEF CaseRecord
    <3> QED BY <3>3 DEF b
  <2>2. /\ Exists(c) /\ s # "none" /\ \A p \in Posts : post[p].at # "rest" => post[p].case # c
        /\ UNCHANGED <<access, message, attached, stored, post, claimed>>
    BY <1>11 DEF Patch, CaseIsFree, CaseStatus
  <2>3. \A d \in Cases : /\ Exists(d)' <=> Exists(d)
                         /\ case'[d].opener = case[d].opener /\ case'[d].key = case[d].key
                         /\ case'[d].customer = case[d].customer
    BY <2>1, <2>2 DEF Exists
  <2>4. LocksHold' /\ AttachedIsSent' /\ AttachmentHasFile'
    BY <1>1, <2>2 DEF LocksHold, AttachedIsSent, AttachmentHasFile
  <2>5. OpenerSees'
    BY <1>1, <2>2, <2>3 DEF OpenerSees, Sees
  <2>6. OpensOnce'
    BY <1>1, <2>2, <2>3 DEF OpensOnce
  <2>7. ClosedIsClosed'
    BY <1>1, <2>1 DEF ClosedIsClosed
  <2>8. OneCasePerRequest'
    BY <1>1, <2>2, <2>3 DEF OneCasePerRequest
  <2>9. ASSUME NEW p \in Posts PROVE PostFollows(p)'
    BY <1>2, <2>1, <2>2 DEF PostFollows, Exists, Upload, TakesMessages
  <2> QED BY <2>4, <2>5, <2>6, <2>7, <2>8, <2>9
<1>12. ASSUME NEW c \in Cases, NEW u \in Users, ClaimCase(c, u) PROVE Kept
  <2>1. /\ case'[c].customer = u /\ case'[c].status = case[c].status
        /\ case'[c].closed_at = case[c].closed_at
        /\ case'[c].opener = case[c].opener /\ case'[c].key = case[c].key
        /\ \A d \in Cases \ {c} : case'[d] = case[d]
    BY <1>1, <1>3, <1>12 DEF ClaimCase, CaseRecord
  <2>2. /\ UNCHANGED <<message, attached, stored, post>> /\ claimed \subseteq claimed'
        /\ u = case[c].opener \/ c \in claimed'
        /\ access' = {a \in access : a[1] # c}
    BY <1>12 DEF ClaimCase
  <2>3. \A d \in Cases : /\ Exists(d)' <=> Exists(d)
                         /\ case'[d].opener = case[d].opener /\ case'[d].key = case[d].key
    BY <2>1 DEF Exists
  <2>4. LocksHold' /\ AttachedIsSent' /\ AttachmentHasFile'
    BY <1>1, <2>2 DEF LocksHold, AttachedIsSent, AttachmentHasFile
  <2>5. OpenerSees'
    <3>1. c \in claimed' \/ Sees(case[c].opener, c)'
      BY <2>1, <2>2 DEF Sees
    <3>2. \A d \in Cases \ {c} : Sees(case[d].opener, d) => Sees(case[d].opener, d)'
      BY <2>1, <2>2 DEF Sees
    <3> QED BY <1>1, <2>2, <2>3, <3>1, <3>2 DEF OpenerSees
  <2>6. OpensOnce'
    BY <1>1, <2>2, <2>3 DEF OpensOnce
  <2>7. ClosedIsClosed'
    BY <1>1, <2>1 DEF ClosedIsClosed
  <2>8. OneCasePerRequest'
    BY <1>1, <2>2, <2>3 DEF OneCasePerRequest
  <2>9. ASSUME NEW p \in Posts PROVE PostFollows(p)'
    BY <1>2, <2>1, <2>2 DEF PostFollows, Exists, Upload, TakesMessages
  <2> QED BY <2>4, <2>5, <2>6, <2>7, <2>8, <2>9
<1>13. ASSUME NEW c \in Cases, NEW g \in Guests, EnterCase(c, g) PROVE Kept
  <2>1. UNCHANGED <<case, message, attached, stored, post, claimed>> /\ access \subseteq access'
    BY <1>13 DEF EnterCase
  <2>2. OpenerSees'
    BY <1>1, <2>1 DEF OpenerSees, Sees, Exists
  <2> QED BY <1>1, <1>2, <2>1, <2>2 DEF LocksHold, AttachedIsSent, AttachmentHasFile, OpensOnce,
        ClosedIsClosed, OneCasePerRequest, PostFollows, Exists, Upload, TakesMessages
<1>14. CASE UNCHANGED suppVars
  <2>1. UNCHANGED <<case, access, message, attached, stored, post, claimed>>
    BY <1>14 DEF suppVars
  <2> QED BY <1>1, <1>2, <2>1 DEF LocksHold, OpenerSees, AttachedIsSent, AttachmentHasFile, OpensOnce,
        ClosedIsClosed, OneCasePerRequest, PostFollows, Exists, Upload, TakesMessages, Sees
<1> QED
  BY <1>5, <1>6, <1>7, <1>8, <1>9, <1>10, <1>11, <1>12, <1>13, <1>14, Zenon DEF SuppNext

(* Whatever customers, guests and staff do at once, and whatever fails, no *)
(* message names a file that is gone, closing times say what statuses say, *)
(* and a repeated request opens one case (support/services.py).            *)
THEOREM SupportCorrect ==
  SuppSpec => [](SuppTypeOK /\ AttachmentHasFile /\ ClosedIsClosed /\ OneCasePerRequest)
<1>1. SuppInit => SuppInv
  <2> SUFFICES ASSUME SuppInit PROVE SuppInv
    OBVIOUS
  <2>1. SuppTypeOK
    <3>1. NoCase \in CaseRecord
      BY SupportAssumption DEF NoCase, CaseRecord
    <3>2. case \in [Cases -> CaseRecord] /\ post \in [Posts -> PostRecord]
      BY <3>1, SuppRecords DEF SuppInit
    <3> QED BY <3>2, SuppTypes DEF SuppInit
  <2>2. \A q \in Posts : post[q].at = "rest"
    BY DEF SuppInit, Waiting
  <2>3. \A c \in Cases : ~Exists(c) /\ ~case[c].closed_at /\ message[c] = {}
    BY DEF SuppInit, NoCase, Exists
  <2>4. LocksHold /\ OpensOnce /\ \A q \in Posts : PostFollows(q)
    BY <2>2 DEF LocksHold, OpensOnce, Opening, PostFollows
  <2>5. OpenerSees /\ OneCasePerRequest
    BY <2>3 DEF OpenerSees, OneCasePerRequest
  <2>6. ClosedIsClosed
    BY <2>3 DEF ClosedIsClosed, Exists
  <2>7. AttachedIsSent /\ AttachmentHasFile
    BY DEF SuppInit, AttachedIsSent, AttachmentHasFile
  <2> QED BY <2>1, <2>4, <2>5, <2>6, <2>7 DEF SuppInv
<1>2. SuppInv => SuppTypeOK /\ AttachmentHasFile /\ ClosedIsClosed /\ OneCasePerRequest
  BY DEF SuppInv
<1> QED BY <1>1, <1>2, SuppInvStays, PTL DEF SuppSpec

-----------------------------------------------------------------------------
(* ADDRESSES.  Unless it was edited since, a row that was found or pinned   *)
(* has a place, and one that was pinned is not rough; one that needs no    *)
(* review is agreed, and exact unless it was edited; ...                   *)
RowIsSound(row) ==
  /\ ~row.edited /\ row.source # "" => row.place # NoPoint
  /\ ~row.edited /\ row.source = "manual" => ~row.rough
  /\ ~row.review => /\ row.agreed /\ row.source # ""
                    /\ ~row.edited => row.place # NoPoint /\ ~row.rough

(* ... so is the copy of the row that an edit holds, since it writes it.   *)
AddrInv ==
  /\ AddrTypeOK /\ RowIsSound(address)
  /\ \A t \in Tabs : tab[t].at = "edit" => RowIsSound(tab[t].copy)

TabRecord == [at : AskKinds \cup {"rest"}, copy : AddressRows]

LEMMA AddressesAreWritten ==
  ASSUME NEW point \in Points, NEW rough \in BOOLEAN
  PROVE  /\ Written(point, rough) \in AddressRows
         /\ Written(point, rough).source = "" /\ Written(point, rough).review
<1>1. PICK known \in BOOLEAN : known = (point # NoPoint)
  OBVIOUS
<1>2. PICK changed \in BOOLEAN : changed = (point # NoPoint \/ rough)
  OBVIOUS
<1>3. Written(point, rough) =
        [exists |-> TRUE, place |-> point, source |-> "", rough |-> rough, review |-> TRUE,
         agreed |-> known, edited |-> changed]
  BY <1>1, <1>2, Zenon DEF Written
<1> DEFINE row == [exists |-> TRUE, place |-> point, source |-> "", rough |-> rough,
                   review |-> TRUE, agreed |-> known, edited |-> changed]
<1>4. row \in AddressRows
  BY DEF AddressRows, Sources
<1>5. row.source = "" /\ row.review
  OBVIOUS
<1> HIDE DEF row
<1>6. Written(point, rough) = row
  BY <1>3 DEF row
<1> QED BY <1>4, <1>5, <1>6

LEMMA NewAddressIsSound ==
  /\ NewAddress \in AddressRows /\ RowIsSound(NewAddress)
  /\ NewAddress.source = "" /\ NewAddress.review
  /\ Closed \in TabRecord /\ Closed.at = "rest"
<1>1. NewAddress \in AddressRows /\ NewAddress.source = "" /\ NewAddress.review
  BY AddressesAreWritten DEF NewAddress, Points
<1> QED BY <1>1 DEF RowIsSound, Closed, TabRecord

LEMMA AddrParts ==
  ASSUME AddrInv
  PROVE  /\ address \in AddressRows /\ RowIsSound(address) /\ tab \in [Tabs -> TabRecord]
         /\ \A t \in Tabs : tab[t].at = "edit" => RowIsSound(tab[t].copy)
BY DEF AddrInv, AddrTypeOK, TabRecord

(* What a row is made of.                                                  *)
LEMMA AddressColumns ==
  ASSUME NEW row \in AddressRows
  PROVE  /\ row.exists \in BOOLEAN /\ row.place \in Points /\ row.source \in Sources
         /\ row.rough \in BOOLEAN /\ row.review \in BOOLEAN /\ row.agreed \in BOOLEAN
         /\ row.edited \in BOOLEAN
BY DEF AddressRows

LEMMA RequestCloses ==
  ASSUME AddrInv, NEW t \in Tabs, Close(t), address' \in AddressRows, RowIsSound(address')
  PROVE  AddrInv'
<1>1. /\ tab' \in [Tabs -> TabRecord]
      /\ tab'[t] = Closed /\ \A u \in Tabs \ {t} : tab'[u] = tab[u]
  BY AddrParts, NewAddressIsSound DEF Close
<1>2. \A u \in Tabs : tab'[u].at = "edit" => RowIsSound(tab'[u].copy)
  BY <1>1, AddrParts, NewAddressIsSound
<1>3. RowIsSound(address)'
  BY DEF RowIsSound
<1> QED BY <1>1, <1>2, <1>3 DEF AddrInv, AddrTypeOK, RowIsSound, TabRecord

LEMMA AddrInitially == AddrInit => AddrInv
<1> SUFFICES ASSUME AddrInit PROVE AddrInv
  OBVIOUS
<1>1. PICK point \in Points, rough \in BOOLEAN : address = Written(point, rough)
  BY DEF AddrInit
<1>2. address \in AddressRows /\ RowIsSound(address)
  BY <1>1, AddressesAreWritten DEF RowIsSound
<1>3. tab \in [Tabs -> TabRecord] /\ \A t \in Tabs : tab[t].at = "rest"
  BY NewAddressIsSound DEF AddrInit
<1> QED BY <1>2, <1>3 DEF AddrInv, AddrTypeOK, TabRecord

LEMMA RowIsRead ==
  ASSUME AddrInv, NEW t \in Tabs, NEW kind \in AskKinds, OpenRequest(t, kind)
  PROVE  AddrInv'
<1>1. Copied(kind) \in AddressRows /\ (kind = "edit" => Copied(kind) = address)
  <2>1. address \in AddressRows /\ NewAddress \in AddressRows
    BY AddrParts, NewAddressIsSound
  <2>2. /\ address.place \in Points /\ address.source \in Sources /\ address.rough \in BOOLEAN
    BY <2>1, AddressColumns
  <2>3. /\ [NewAddress EXCEPT !.place = address.place] \in AddressRows
        /\ [NewAddress EXCEPT !.place = address.place, !.source = address.source,
                              !.rough = address.rough] \in AddressRows
    BY <2>1, <2>2 DEF AddressRows
  <2> QED BY <2>1, <2>3 DEF Copied, AskKinds
<1>2. /\ address' = address /\ tab' \in [Tabs -> TabRecord]
      /\ tab'[t].at = kind /\ tab'[t].copy = Copied(kind)
      /\ \A u \in Tabs \ {t} : tab'[u] = tab[u]
  BY <1>1, AddrParts DEF OpenRequest, TabRecord
<1>3. \A u \in Tabs : tab'[u].at = "edit" => RowIsSound(tab'[u].copy)
  BY <1>1, <1>2, AddrParts
<1>4. RowIsSound(address)'
  BY <1>2, AddrParts DEF RowIsSound
<1> QED BY <1>2, <1>3, <1>4, AddrParts DEF AddrInv, AddrTypeOK, RowIsSound, TabRecord

LEMMA AddrSteps == AddrInv /\ [AddrNext]_addrVars => AddrInv'
<1> SUFFICES ASSUME AddrInv, [AddrNext]_addrVars PROVE AddrInv'
  OBVIOUS
<1>1. /\ address \in AddressRows /\ RowIsSound(address) /\ tab \in [Tabs -> TabRecord]
      /\ \A t \in Tabs : tab[t].at = "edit" => RowIsSound(tab[t].copy)
  BY AddrParts
<1>2. ASSUME NEW t \in Tabs, NEW kind \in AskKinds, OpenRequest(t, kind) PROVE AddrInv'
  BY <1>2, RowIsRead
<1>3. ASSUME NEW t \in Tabs, Edit(t) PROVE AddrInv'
  <2> DEFINE copy == tab[t].copy
  <2>1. copy \in AddressRows /\ RowIsSound(copy)
    BY <1>1, <1>3 DEF Edit, TabRecord
  <2>2. PICK point \in Points, rough \in BOOLEAN :
          address' = [copy EXCEPT !.place = point, !.rough = rough,
                        !.agreed = @ \/ point # copy.place,
                        !.edited = @ \/ point # copy.place \/ rough # copy.rough]
    BY <1>3 DEF Edit
  <2> HIDE DEF copy
  <2>3. copy.agreed \in BOOLEAN /\ copy.edited \in BOOLEAN /\ copy.rough \in BOOLEAN
    BY <2>1, AddressColumns
  <2>4. PICK agreed \in BOOLEAN, edited \in BOOLEAN :
          /\ agreed = (copy.agreed \/ point # copy.place)
          /\ edited = (copy.edited \/ point # copy.place \/ rough # copy.rough)
    BY <2>3
  <2>5. address' = [copy EXCEPT !.place = point, !.rough = rough, !.agreed = agreed, !.edited = edited]
    BY <2>1, <2>2, <2>4, Zenon
  <2>6. /\ address' \in AddressRows /\ address'.place = point /\ address'.rough = rough
        /\ address'.agreed = agreed /\ address'.edited = edited
        /\ address'.source = copy.source /\ address'.review = copy.review
    BY <2>1, <2>5 DEF AddressRows
  <2>7. copy.agreed => agreed
    BY <2>3, <2>4
  <2>8. ~edited => ~copy.edited /\ point = copy.place /\ rough = copy.rough
    BY <2>3, <2>4
  <2>9. RowIsSound(address')
    BY <2>1, <2>6, <2>7, <2>8 DEF RowIsSound
  <2> QED BY <1>3, <2>6, <2>9, RequestCloses DEF Edit
<1>4. ASSUME NEW t \in Tabs, Geocode(t) PROVE AddrInv'
  <2>1. PICK point \in Metres, rough \in BOOLEAN :
          address' = [address EXCEPT !.place = point, !.source = "geocoder", !.rough = rough,
                        !.review = TRUE, !.agreed = FALSE, !.edited = FALSE]
    BY <1>4 DEF Geocode, Answers
  <2>2. /\ address' \in AddressRows /\ address'.place = point /\ address'.source = "geocoder"
        /\ address'.review
    BY <1>1, <2>1 DEF AddressRows, Sources, Points
  <2>3. RowIsSound(address')
    BY <2>2, AddressesAssumption DEF RowIsSound
  <2> QED BY <1>4, <2>2, <2>3, RequestCloses DEF Geocode
<1>5. ASSUME NEW t \in Tabs, MovePin(t) PROVE AddrInv'
  <2>1. PICK point \in Metres :
          address' = [address EXCEPT !.place = point, !.source = "manual", !.rough = FALSE,
                        !.review = MovedFar(tab[t].copy.place, point),
                        !.agreed = TRUE, !.edited = FALSE]
    BY <1>5 DEF MovePin
  <2>2. PICK far \in BOOLEAN : far = MovedFar(tab[t].copy.place, point)
    BY DEF MovedFar
  <2>3. address' = [address EXCEPT !.place = point, !.source = "manual", !.rough = FALSE,
                      !.review = far, !.agreed = TRUE, !.edited = FALSE]
    BY <2>1, <2>2, Zenon
  <2>4. /\ address' \in AddressRows /\ address'.place = point /\ address'.source = "manual"
        /\ ~address'.rough /\ address'.agreed /\ ~address'.edited
    BY <1>1, <2>3 DEF AddressRows, Sources, Points
  <2>5. RowIsSound(address')
    BY <2>4, AddressesAssumption DEF RowIsSound
  <2> QED BY <1>5, <2>4, <2>5, RequestCloses DEF MovePin
<1>6. ASSUME NEW t \in Tabs, ConfirmAddress(t) PROVE AddrInv'
  <2>1. PICK point \in Metres, choice \in {"written", "reverse"} :
          /\ MayConfirm(address, point, choice)
          /\ address' = [address EXCEPT !.review = FALSE,
                           !.agreed = address.place # NoPoint /\ IsWithin(address.place, point, 2)]
    BY <1>6 DEF ConfirmAddress, LookedAt, LockedRow
  <2>2. /\ address.source # "" /\ address.place # NoPoint
        /\ ~(address.source = "geocoder" /\ address.rough)
        /\ IsWithin(address.place, point, 2)
    BY <2>1 DEF MayConfirm
  <2>3. PICK yes \in BOOLEAN :
          yes /\ yes = (address.place # NoPoint /\ IsWithin(address.place, point, 2))
    BY <2>2 DEF IsWithin
  <2>4. address' = [address EXCEPT !.review = FALSE, !.agreed = yes]
    BY <2>1, <2>3, Zenon
  <2>5. /\ address' \in AddressRows /\ address'.agreed /\ address'.place = address.place
        /\ address'.source = address.source /\ address'.rough = address.rough
        /\ address'.edited = address.edited
    BY <1>1, <2>3, <2>4 DEF AddressRows
  <2>6. address.source \in Sources
    BY <1>1, AddressColumns
  <2>7. RowIsSound(address')
    BY <1>1, <2>2, <2>5, <2>6 DEF RowIsSound, Sources
  <2> QED BY <1>6, <2>5, <2>7, RequestCloses DEF ConfirmAddress
<1>7. ASSUME NEW t \in Tabs, RequestFails(t) PROVE AddrInv'
  BY <1>1, <1>7, RequestCloses DEF RequestFails
<1>8. CASE DeleteAddress
  <2>1. tab' = tab /\ address' = [NewAddress EXCEPT !.exists = FALSE]
    BY <1>8 DEF DeleteAddress
  <2>2. /\ address' \in AddressRows /\ address'.source = "" /\ address'.review
    BY <2>1, NewAddressIsSound DEF AddressRows
  <2>3. RowIsSound(address)'
    BY <2>2 DEF RowIsSound
  <2> QED BY <1>1, <2>1, <2>2, <2>3 DEF AddrInv, AddrTypeOK, RowIsSound, TabRecord
<1>9. CASE UNCHANGED addrVars
  BY <1>1, <1>9 DEF addrVars, AddrInv, AddrTypeOK, RowIsSound, TabRecord
<1> QED
  <2>1. CASE AddrNext
    BY <1>2, <1>3, <1>4, <1>5, <1>6, <1>7, <1>8, <2>1 DEF AddrNext
  <2> QED BY <1>9, <2>1

(* The place that the checkout takes is one that the customer pointed at,  *)
(* and that of the door unless an edit set it, for any number of requests  *)
(* that overlap and any places (locations/services.py).                    *)
THEOREM AddressesCorrect == AddrSpec => [](AddrTypeOK /\ ConfirmedIsAgreed)
<1>1. AddrInv => AddrTypeOK /\ ConfirmedIsAgreed
  BY DEF AddrInv, RowIsSound, ConfirmedIsAgreed
<1> QED BY <1>1, AddrInitially, AddrSteps, PTL DEF AddrSpec

-----------------------------------------------------------------------------
(* DELIVERY.  The rates of a carrier's parcels add up to an amount.        *)
LEMMA RatesAddUp ==
  ASSUME NEW c \in Carriers, NEW rates \in RatesOf(c)
  PROVE  FoldFunction(+, 0, rates) \in Nat
<1>1. PICK n \in 1..(IF c = "andreani" THEN 1 ELSE MostParcels) : rates \in [1..n -> Tariffs]
  BY DEF RatesOf
<1>2. n \in Nat
  BY <1>1, RatesAssumption
<1>3. IsFiniteSet(DOMAIN rates) /\ \A i \in DOMAIN rates : rates[i] \in Nat
  <2>1. IsFiniteSet(1..n)
    BY <1>2, FS_Interval
  <2>2. DOMAIN rates = 1..n /\ \A i \in 1..n : rates[i] \in Tariffs
    BY <1>1
  <2> QED BY <2>1, <2>2, RatesAssumption
<1>4. SumFunctionOnSet(rates, DOMAIN rates) \in Nat
  BY <1>3, SumIsNat
<1> QED BY <1>4 DEF FoldFunction, FoldFunctionOnSet, SumFunctionOnSet, MapThenFoldSet

(* A percentage to the nearest cent, half a cent up.                       *)
LEMMA NearestCent ==
  ASSUME NEW base \in Nat, NEW value \in Nat
  PROVE  /\ PercentOf(base, value) \in Nat
         /\ -50 < 100 * PercentOf(base, value) - value * base
         /\ 100 * PercentOf(base, value) - value * base <= 50
<1>1. base * value \in Nat /\ value * base = base * value /\ 2 * base * value = 2 * (base * value)
  OBVIOUS
<1>2. \A n \in Nat : LET p == (2 * n + 100) \div 200 IN
        p \in Nat /\ -50 < 100 * p - n /\ 100 * p - n <= 50
  OBVIOUS
<1>3. PercentOf(base, value) = (2 * (base * value) + 100) \div 200
  BY <1>1 DEF PercentOf
<1> QED BY <1>1, <1>2, <1>3

(* The quotes that may be in force, and what a request may hold.           *)
FairQuotes ==
  {q \in [carrier : Carriers, goods : Goods, rates : UNION {RatesOf(c) : c \in Carriers},
          policy : Policies, surcharge : Nat, total : Nat] : IsFair(q)}
Bindings == UNION {[S -> Policies] : S \in SUBSET Carriers}
OfferRecord ==
  [at : {"rest", "asking", "answered", "failed"}, goods : Goods \cup {0}, bindings : Bindings,
   todo : SUBSET Carriers, quotes : SUBSET FairQuotes, errors : SUBSET Carriers, manual : BOOLEAN]

LEMMA QuotesAreFair ==
  ASSUME NEW c \in Carriers, NEW amount \in Goods, NEW policy \in Policies, NEW rates \in RatesOf(c)
  PROVE  /\ Quote(c, amount, policy, rates) \in FairQuotes
         /\ Quote(c, amount, policy, rates).carrier = c
         /\ Quote(c, amount, policy, rates).goods = amount
<1> DEFINE base == FoldFunction(+, 0, rates)
           free == IsFree(amount, policy.free)
           surcharge == IF free THEN 0 ELSE SurchargeOf(policy, base)
           total == IF free THEN 0 ELSE base + surcharge
           q == Quote(c, amount, policy, rates)
<1>1. base \in Nat
  BY RatesAddUp
<1>2. policy.value \in Nat /\ policy.type \in {"exact", "percentage"} /\ amount \in Nat
  BY RatesAssumption
<1>3. SurchargeOf(policy, base) \in Nat
  BY <1>1, <1>2, NearestCent DEF SurchargeOf, Rounded
<1>4. surcharge \in Nat /\ total \in Nat
  <2> HIDE DEF base, free
  <2> QED BY <1>1, <1>3
<1>5. /\ q.carrier = c /\ q.goods = amount /\ q.rates = rates /\ q.policy = policy
      /\ q.surcharge = surcharge /\ q.total = total
  <2>1. q = [carrier |-> c, goods |-> amount, rates |-> rates, policy |-> policy,
             surcharge |-> surcharge, total |-> total]
    BY Zenon DEF Quote
  <2> HIDE DEF surcharge, total, q
  <2> QED BY <2>1
<1>6. q \in [carrier : Carriers, goods : Goods, rates : UNION {RatesOf(d) : d \in Carriers},
             policy : Policies, surcharge : Nat, total : Nat]
  <2>1. rates \in UNION {RatesOf(d) : d \in Carriers}
    OBVIOUS
  <2>2. q = [carrier |-> c, goods |-> amount, rates |-> rates, policy |-> policy,
             surcharge |-> surcharge, total |-> total]
    BY Zenon DEF Quote
  <2> HIDE DEF surcharge, total, q
  <2> QED BY <1>4, <2>1, <2>2
<1>7. IsFair(q)
  <2>1. free <=> policy.free # NoThreshold /\ policy.free <= amount
    BY <1>2, RatesAssumption DEF IsFree, IsReached
  <2>2. CASE free
    BY <1>5, <2>1, <2>2, Zenon DEF IsFair
  <2>3. CASE ~free
    <3> DEFINE exact == policy.value * IF policy.type = "percentage" THEN base ELSE 100
    <3>1. q.total = base + surcharge /\ surcharge = SurchargeOf(policy, base)
      BY <1>5, <2>3, Zenon
    <3>2. -50 < 100 * surcharge - exact /\ 100 * surcharge - exact <= 50
      <4>1. CASE policy.type = "percentage"
        BY <1>1, <1>2, <3>1, <4>1, NearestCent DEF SurchargeOf, Rounded
      <4>2. CASE policy.type = "exact"
        <5>1. surcharge = policy.value /\ exact = policy.value * 100
          BY <3>1, <4>2 DEF SurchargeOf
        <5> HIDE DEF surcharge, exact
        <5> QED BY <1>2, <5>1
      <4> QED BY <1>2, <4>1, <4>2
    <3>3. 100 * (q.total - base) - exact = 100 * surcharge - exact
      <4> HIDE DEF base, surcharge, exact, q
      <4>1. q.total - base = surcharge
        BY <1>1, <1>4, <3>1
      <4> QED BY <4>1
    <3>4. LET off == 100 * (q.total - base) - exact IN -50 < off /\ off <= 50
      <4> HIDE DEF base, surcharge, exact, q
      <4> QED BY <3>2, <3>3
    <3> QED BY <1>5, <2>1, <2>3, <3>1, <3>4, Zenon DEF IsFair
  <2> QED BY <2>2, <2>3
<1> QED BY <1>5, <1>6, <1>7 DEF FairQuotes

(* Every carrier that was bound has a quote, an error, or its turn to come,*)
(* and only one of them.                                                   *)
CarriersOf(quotes) == {q.carrier : q \in quotes}

RatesInv ==
  /\ setup \in [Carriers -> Setups] /\ quoted \subseteq FairQuotes /\ offer \in OfferRecord
  /\ \A q \in offer.quotes : q.goods = offer.goods
  /\ offer.at = "asking" => offer.goods \in Goods /\ ~offer.manual
  /\ offer.at \in {"asking", "answered"} /\ ~offer.manual =>
       /\ CarriersOf(offer.quotes) \cup offer.errors \cup offer.todo = DOMAIN offer.bindings
       /\ CarriersOf(offer.quotes) \cap offer.errors = {}
       /\ offer.todo \cap (CarriersOf(offer.quotes) \cup offer.errors) = {}
  /\ offer.at = "answered" =>
       IF offer.manual THEN offer.bindings = << >> ELSE offer.todo = {} /\ offer.quotes # {}

LEMMA NothingBound == << >> \in Bindings /\ \A p : [c \in {} |-> p] = << >>
<1>1. << >> \in [{} -> Policies]
  OBVIOUS
<1> QED BY <1>1 DEF Bindings

LEMMA NoOfferIsSound == NoOffer \in OfferRecord /\ NoOffer.at = "rest" /\ NoOffer.quotes = {}
BY NothingBound DEF NoOffer, OfferRecord

LEMMA RatesInitially == RatesInit => RatesInv
BY NoOfferIsSound DEF RatesInit, RatesInv

LEMMA SetupsBind ==
  ASSUME NEW s \in Setups
  PROVE  s.usable \in BOOLEAN /\ (s.usable => s.policy \in Policies)
<1>1. CASE s = NotUsable
  BY <1>1 DEF NotUsable
<1>2. CASE s \in [usable : {TRUE}, policy : Policies]
  BY <1>2
<1> QED BY <1>1, <1>2 DEF Setups

(* The request's steps at one carrier.                                     *)
LEMMA CarrierIsAsked ==
  ASSUME RatesInv, NEW c \in Carriers, TakeHeld(c) \/ AskRate(c) \/ CarrierFails(c)
  PROVE  RatesInv'
<1>1. /\ offer.at = "asking" /\ c \in offer.todo /\ offer \in OfferRecord /\ setup' = setup
      /\ quoted \subseteq FairQuotes /\ offer.goods \in Goods /\ ~offer.manual
  BY DEF TakeHeld, AskRate, CarrierFails, Turn, RatesInv
<1>2. ASSUME NEW q \in FairQuotes, q.carrier = c, q.goods = offer.goods,
             offer' = [offer EXCEPT !.todo = @ \ {c}, !.quotes = @ \cup {q}],
             quoted' \subseteq FairQuotes
      PROVE  RatesInv'
  <2>1. /\ offer' \in OfferRecord /\ offer'.at = offer.at /\ offer'.goods = offer.goods
        /\ (offer'.manual <=> offer.manual) /\ offer'.errors = offer.errors
        /\ offer'.bindings = offer.bindings
        /\ offer'.todo = offer.todo \ {c} /\ offer'.quotes = offer.quotes \cup {q}
    BY <1>1, <1>2 DEF OfferRecord
  <2>2. CarriersOf(offer'.quotes) = CarriersOf(offer.quotes) \cup {c}
    BY <1>2, <2>1 DEF CarriersOf
  <2>3. /\ CarriersOf(offer.quotes) \cup offer.errors \cup offer.todo = DOMAIN offer.bindings
        /\ CarriersOf(offer.quotes) \cap offer.errors = {}
        /\ offer.todo \cap (CarriersOf(offer.quotes) \cup offer.errors) = {}
    BY <1>1 DEF RatesInv
  <2>4. /\ CarriersOf(offer'.quotes) \cup offer'.errors \cup offer'.todo = DOMAIN offer'.bindings
        /\ CarriersOf(offer'.quotes) \cap offer'.errors = {}
        /\ offer'.todo \cap (CarriersOf(offer'.quotes) \cup offer'.errors) = {}
    BY <1>1, <2>1, <2>2, <2>3
  <2> QED BY <1>1, <1>2, <2>1, <2>4 DEF RatesInv
<1>3. CASE TakeHeld(c)
  <2>1. PICK q \in Held(c) : offer' = [offer EXCEPT !.todo = @ \ {c}, !.quotes = @ \cup {q}]
    BY <1>3 DEF TakeHeld
  <2>2. q \in FairQuotes /\ q.carrier = c /\ q.goods = offer.goods /\ quoted' = quoted
    BY <1>1, <1>3, <2>1 DEF TakeHeld, Held
  <2> QED BY <1>1, <1>2, <2>1, <2>2
<1>4. CASE AskRate(c)
  <2>1. PICK rates \in RatesOf(c) :
          LET q == Quote(c, offer.goods, offer.bindings[c], rates) IN
          /\ offer' = [offer EXCEPT !.todo = @ \ {c}, !.quotes = @ \cup {q}]
          /\ quoted' = quoted \cup {q}
    BY <1>4 DEF AskRate
  <2>2. c \in DOMAIN offer.bindings /\ offer.bindings \in Bindings
    BY <1>1 DEF RatesInv, OfferRecord
  <2>3. offer.bindings[c] \in Policies
    BY <2>2 DEF Bindings
  <2> DEFINE q == Quote(c, offer.goods, offer.bindings[c], rates)
  <2>4. q \in FairQuotes /\ q.carrier = c /\ q.goods = offer.goods
    BY <1>1, <2>3, QuotesAreFair
  <2>5. /\ offer' = [offer EXCEPT !.todo = @ \ {c}, !.quotes = @ \cup {q}]
        /\ quoted' = quoted \cup {q}
    BY <2>1
  <2> HIDE DEF q
  <2> QED BY <1>1, <1>2, <2>4, <2>5
<1>5. CASE CarrierFails(c)
  <2>1. /\ offer' \in OfferRecord /\ offer'.at = offer.at /\ offer'.goods = offer.goods
        /\ (offer'.manual <=> offer.manual) /\ offer'.quotes = offer.quotes
        /\ offer'.bindings = offer.bindings
        /\ offer'.todo = offer.todo \ {c} /\ offer'.errors = offer.errors \cup {c}
        /\ quoted' = quoted
    BY <1>1, <1>5 DEF CarrierFails, OfferRecord
  <2>2. /\ CarriersOf(offer.quotes) \cup offer.errors \cup offer.todo = DOMAIN offer.bindings
        /\ CarriersOf(offer.quotes) \cap offer.errors = {}
        /\ offer.todo \cap (CarriersOf(offer.quotes) \cup offer.errors) = {}
    BY <1>1 DEF RatesInv
  <2>3. /\ CarriersOf(offer'.quotes) \cup offer'.errors \cup offer'.todo = DOMAIN offer'.bindings
        /\ CarriersOf(offer'.quotes) \cap offer'.errors = {}
        /\ offer'.todo \cap (CarriersOf(offer'.quotes) \cup offer'.errors) = {}
    BY <1>1, <2>1, <2>2
  <2> QED BY <1>1, <2>1, <2>3 DEF RatesInv
<1> QED BY <1>3, <1>4, <1>5

LEMMA RatesSteps == RatesInv /\ [RatesNext]_rateVars => RatesInv'
<1> SUFFICES ASSUME RatesInv, [RatesNext]_rateVars PROVE RatesInv'
  OBVIOUS
<1>1. setup \in [Carriers -> Setups] /\ quoted \subseteq FairQuotes /\ offer \in OfferRecord
  BY DEF RatesInv
<1>2. CASE Reconfigure
  BY <1>1, <1>2 DEF Reconfigure, RatesInv
<1>3. CASE BeginOffer
  <2> DEFINE bound == {c \in Carriers : setup[c].usable}
             bindings == [c \in bound |-> setup[c].policy]
  <2>1. PICK amount \in Goods :
          offer' = [NoOffer EXCEPT !.at = IF bound = {} THEN "answered" ELSE "asking",
                      !.goods = amount, !.bindings = bindings, !.todo = bound,
                      !.manual = (bound = {})]
    BY <1>3 DEF BeginOffer
  <2>2. bound \subseteq Carriers /\ bindings \in Bindings /\ DOMAIN bindings = bound
    <3>1. \A c \in bound : setup[c].policy \in Policies
      BY <1>1, SetupsBind
    <3>2. bindings \in [bound -> Policies] /\ bound \in SUBSET Carriers
      BY <3>1
    <3> HIDE DEF bound, bindings
    <3> QED BY <3>2 DEF Bindings
  <2>3. PICK at \in {"rest", "asking", "answered", "failed"} :
          at = IF bound = {} THEN "answered" ELSE "asking"
    OBVIOUS
  <2>4. PICK manual \in BOOLEAN : manual <=> bound = {}
    OBVIOUS
  <2>5. offer' = [NoOffer EXCEPT !.at = at, !.goods = amount, !.bindings = bindings,
                    !.todo = bound, !.manual = manual]
    <3>1. manual = (bound = {})
      BY <2>4, Zenon
    <3> QED BY <2>1, <2>3, <3>1, Zenon
  <2>6. bound = {} => bindings = << >>
    BY NothingBound
  <2> HIDE DEF bound, bindings
  <2>7. /\ offer' \in OfferRecord /\ offer'.at = at /\ offer'.goods = amount
        /\ offer'.bindings = bindings /\ offer'.todo = bound /\ (offer'.manual <=> manual)
        /\ offer'.quotes = {} /\ offer'.errors = {}
    <3>1. NoOffer.errors = {} /\ NoOffer.quotes = {}
      BY DEF NoOffer
    <3> QED BY <2>2, <2>5, <3>1, NoOfferIsSound DEF OfferRecord
  <2>8. CarriersOf({}) = {}
    BY DEF CarriersOf
  <2> QED BY <1>1, <1>3, <2>2, <2>3, <2>4, <2>6, <2>7, <2>8 DEF BeginOffer, RatesInv
<1>4. CASE AnswerOffer
  <2>1. PICK at \in {"rest", "asking", "answered", "failed"} :
          at = IF offer.quotes = {} THEN "failed" ELSE "answered"
    OBVIOUS
  <2>2. offer' = [offer EXCEPT !.at = at] /\ UNCHANGED <<setup, quoted>>
        /\ offer.at = "asking" /\ offer.todo = {}
    BY <1>4, <2>1, Zenon DEF AnswerOffer
  <2>3. /\ offer' \in OfferRecord /\ offer'.at = at /\ offer'.goods = offer.goods
        /\ offer'.bindings = offer.bindings /\ offer'.todo = offer.todo
        /\ (offer'.manual <=> offer.manual)
        /\ offer'.quotes = offer.quotes /\ offer'.errors = offer.errors
    BY <1>1, <2>2 DEF OfferRecord
  <2> QED BY <1>1, <2>1, <2>2, <2>3 DEF RatesInv
<1>5. CASE EndOffer
  BY <1>1, <1>5, NoOfferIsSound DEF EndOffer, RatesInv
<1>6. CASE QuoteEnds
  BY <1>1, <1>6 DEF QuoteEnds, RatesInv
<1>7. CASE UNCHANGED rateVars
  BY <1>1, <1>7 DEF rateVars, RatesInv
<1>8. CASE \E c \in Carriers : TakeHeld(c) \/ AskRate(c) \/ CarrierFails(c)
  BY <1>8, CarrierIsAsked
<1> QED BY <1>2, <1>3, <1>4, <1>5, <1>6, <1>7, <1>8, Zenon DEF RatesNext

(* A customer is offered every usable carrier at a fair price or told that *)
(* it failed, for any rates, surcharges and thresholds (shipping.py).      *)
THEOREM RatesCorrect == RatesSpec => [](RatesTypeOK /\ OfferIsSound)
<1>1. ASSUME RatesInv PROVE RatesTypeOK
  BY <1>1 DEF RatesInv, OfferRecord, FairQuotes, RatesTypeOK
<1>2. ASSUME RatesInv PROVE OfferIsSound
  <2>1. \A q \in offer.quotes : IsFair(q) /\ q.goods = offer.goods
    BY <1>2 DEF RatesInv, OfferRecord, FairQuotes
  <2> QED BY <1>2, <2>1 DEF RatesInv, OfferIsSound, CarriersOf
<1> QED BY <1>1, <1>2, RatesInitially, RatesSteps, PTL DEF RatesSpec

-----------------------------------------------------------------------------
(* FROM A CART TO AN ORDER.  The records of requests, quotes and orders.   *)
Addressed == Places \cup {NoPlace}
Prints == [lines : Contents, place : Addressed, parcels : Contents]
AskRecord == [at : {"rest", "fetched", "packed", "rate"}, place : Addressed, parcels : Contents,
              print : Prints, raced : BOOLEAN]
QuoteRecord == [maker : {"none", "carrier", "manual"}, print : Prints, parcels : Contents,
                pending : BOOLEAN, live : BOOLEAN, raced : BOOLEAN]
OrderRecord == [status : {"none", "review", "approved", "verified"}, items : Contents,
                place : Addressed, quote : Quotes \cup {NoQuote},
                cost : {"none", "pending", "ready"}, link : BOOLEAN, checked : BOOLEAN,
                reserved : Seq(Contents)]

PurTyped ==
  /\ goods \in Contents /\ place \in Places /\ edits \in 0..MaxEdits
  /\ ask \in [Asks -> AskRecord] /\ quote \in [Quotes -> QuoteRecord]
  /\ order \in [Bought -> OrderRecord]

(* A request whose cart was not edited after it was packed has packed what *)
(* it prints; ...                                                          *)
AskHolds ==
  \A a \in Asks :
    /\ ask[a].at = "fetched" => ~ask[a].raced
    /\ ask[a].at = "packed" /\ ~ask[a].raced => ask[a].parcels = goods
    /\ ask[a].at = "rate" /\ ~ask[a].raced => ask[a].parcels = ask[a].print.lines

(* ... so has its quote; ...                                               *)
QuoteHolds ==
  \A q \in Quotes : quote[q].maker = "carrier" /\ ~quote[q].raced =>
                       quote[q].parcels = quote[q].print.lines

(* ... and an order's lines are those that its quote was printed for.      *)
OrderHolds ==
  \A o \in Bought : order[o].quote # NoQuote =>
    quote[order[o].quote].maker # "none" /\ quote[order[o].quote].print.lines = order[o].items

PurInv == PurTyped /\ AskHolds /\ QuoteHolds /\ OrderHolds

LEMMA EmptyIsContents == Empty \in Contents /\ NoPrint \in Prints
BY PurchaseAssumption DEF Empty, Contents, NoPrint, Fingerprint, Prints, Addressed

LEMMA RecordsBegin ==
  /\ NoAsk \in AskRecord /\ NoAsk.at = "rest"
  /\ Unquoted \in QuoteRecord /\ Unquoted.maker = "none"
  /\ Unordered \in OrderRecord /\ Unordered.status = "none" /\ Unordered.quote = NoQuote
<1>1. NoAsk \in AskRecord
  BY EmptyIsContents DEF NoAsk, AskRecord, Addressed
<1>2. Unquoted \in QuoteRecord
  BY EmptyIsContents DEF Unquoted, QuoteRecord
<1>3. << >> \in Seq(Contents)
  OBVIOUS
<1>4. Unordered \in OrderRecord
  BY EmptyIsContents, <1>3 DEF Unordered, OrderRecord, Addressed
<1> QED BY <1>1, <1>2, <1>4 DEF NoAsk, Unquoted, Unordered

LEMMA PurInitially == PurchaseInit => PurInv
<1> SUFFICES ASSUME PurchaseInit PROVE PurInv
  OBVIOUS
<1>1. PurTyped
  BY PurchaseAssumption, EmptyIsContents, RecordsBegin DEF PurchaseInit, PurTyped
<1>2. AskHolds /\ QuoteHolds /\ OrderHolds
  BY RecordsBegin DEF PurchaseInit, AskHolds, QuoteHolds, OrderHolds
<1> QED BY <1>1, <1>2 DEF PurInv

(* A step of one request for a quote.                                      *)
LEMMA RequestMoves ==
  ASSUME PurInv, NEW a \in Asks, UNCHANGED <<goods, place, edits, quote, order>>,
         NEW new \in AskRecord, ask' = [ask EXCEPT ![a] = new],
         new.at = "fetched" => ~new.raced,
         new.at = "packed" /\ ~new.raced => new.parcels = goods,
         new.at = "rate" /\ ~new.raced => new.parcels = new.print.lines
  PROVE  PurInv'
<1>1. PurTyped'
  BY DEF PurInv, PurTyped
<1>2. AskHolds'
  BY DEF PurInv, PurTyped, AskHolds
<1>3. QuoteHolds' /\ OrderHolds'
  BY DEF PurInv, QuoteHolds, OrderHolds
<1> QED BY <1>1, <1>2, <1>3 DEF PurInv

(* A quote is made, for nobody's order yet, and its request ends.          *)
LEMMA QuoteIsMade ==
  ASSUME PurInv, NEW a \in Asks, NEW q \in Quotes, UNCHANGED <<goods, place, edits, order>>,
         NEW new \in QuoteRecord, quote' = [quote EXCEPT ![q] = new], quote[q].maker = "none",
         new.maker = "carrier" /\ ~new.raced => new.parcels = new.print.lines,
         ask' = [ask EXCEPT ![a] = NoAsk]
  PROVE  PurInv'
<1>1. PurTyped'
  BY RecordsBegin DEF PurInv, PurTyped
<1>2. AskHolds'
  BY RecordsBegin DEF PurInv, PurTyped, AskHolds
<1>3. QuoteHolds'
  BY DEF PurInv, PurTyped, QuoteHolds
<1>4. ASSUME NEW o \in Bought, order[o].quote # NoQuote
      PROVE  order[o].quote \in Quotes \ {q} /\ quote'[order[o].quote] = quote[order[o].quote]
  BY <1>4 DEF PurInv, PurTyped, OrderHolds, OrderRecord
<1>5. OrderHolds'
  BY <1>4 DEF PurInv, PurTyped, OrderHolds
<1> QED BY <1>1, <1>2, <1>3, <1>5 DEF PurInv

(* A step of one order that keeps what it sells and its quote, or gives it *)
(* a quote of what it sells.                                               *)
LEMMA OrderMoves ==
  ASSUME PurInv, NEW o \in Bought, UNCHANGED <<goods, place, edits, ask, quote>>,
         NEW new \in OrderRecord, order' = [order EXCEPT ![o] = new],
         \/ new.items = order[o].items /\ new.quote = order[o].quote
         \/ new.quote = NoQuote
         \/ quote[new.quote].maker # "none" /\ quote[new.quote].print.lines = new.items
  PROVE  PurInv'
<1>1. PurTyped'
  BY DEF PurInv, PurTyped
<1>2. AskHolds' /\ QuoteHolds'
  BY DEF PurInv, AskHolds, QuoteHolds
<1>3. order'[o] = new /\ \A p \in Bought \ {o} : order'[p] = order[p]
  BY DEF PurInv, PurTyped
<1>4. ASSUME NEW p \in Bought, order'[p].quote # NoQuote
      PROVE  quote[order'[p].quote].maker # "none" /\ quote[order'[p].quote].print.lines = order'[p].items
  <2>1. CASE p = o
    BY <1>3, <1>4, <2>1 DEF PurInv, OrderHolds
  <2>2. CASE p # o
    BY <1>3, <1>4, <2>2 DEF PurInv, OrderHolds
  <2> QED BY <2>1, <2>2
<1>5. OrderHolds'
  BY <1>4 DEF OrderHolds
<1> QED BY <1>1, <1>2, <1>5 DEF PurInv

(* Quotes that end or whose amount is agreed keep what they were made of.  *)
LEMMA QuotesStay ==
  ASSUME PurInv, UNCHANGED <<goods, place, edits, ask>>, quote' \in [Quotes -> QuoteRecord],
         \A q \in Quotes : /\ quote'[q].maker = quote[q].maker /\ quote'[q].print = quote[q].print
                           /\ quote'[q].parcels = quote[q].parcels
                           /\ quote'[q].raced <=> quote[q].raced,
         order' \in [Bought -> OrderRecord],
         \A o \in Bought : order'[o].items = order[o].items /\ order'[o].quote = order[o].quote
  PROVE  PurInv'
<1>1. PurTyped'
  BY DEF PurInv, PurTyped
<1>2. AskHolds'
  BY DEF PurInv, AskHolds
<1>3. QuoteHolds'
  BY DEF PurInv, QuoteHolds
<1>4. \A o \in Bought : order[o].quote \in Quotes \cup {NoQuote}
  BY DEF PurInv, PurTyped, OrderRecord
<1>5. OrderHolds'
  BY <1>4 DEF PurInv, OrderHolds
<1> QED BY <1>1, <1>2, <1>3, <1>5 DEF PurInv

(* Edits of the cart and of the address, with the requests they overtake.  *)
LEMMA CartEdits ==
  ASSUME PurInv, NEW p \in Products, NEW n \in 0..MaxUnits, EditCart(p, n)
  PROVE  PurInv'
<1>1. /\ goods' = [goods EXCEPT ![p] = n] /\ edits < MaxEdits /\ edits' = edits + 1
      /\ ask' = [a \in Asks |-> IF ask[a].at = "packed" THEN [ask[a] EXCEPT !.raced = TRUE] ELSE ask[a]]
      /\ UNCHANGED <<place, quote, order>>
  BY DEF EditCart
<1>2. goods' \in Contents /\ edits' \in 0..MaxEdits
  BY <1>1, PurchaseAssumption DEF PurInv, PurTyped, Contents
<1>3. ASSUME NEW a \in Asks
      PROVE  /\ ask'[a] \in AskRecord
             /\ ask[a].at = "packed" => ask'[a].at = "packed" /\ ask'[a].raced
             /\ ask[a].at # "packed" => ask'[a] = ask[a]
  <2>1. ask[a] \in AskRecord
    BY DEF PurInv, PurTyped
  <2>2. /\ [ask[a] EXCEPT !.raced = TRUE] \in AskRecord
        /\ [ask[a] EXCEPT !.raced = TRUE].at = ask[a].at
        /\ [ask[a] EXCEPT !.raced = TRUE].raced
    BY <2>1 DEF AskRecord
  <2> QED BY <1>1, <2>1, <2>2
<1>4. ask' \in [Asks -> AskRecord]
  BY <1>1, <1>3
<1>5. PurTyped'
  BY <1>1, <1>2, <1>4 DEF PurInv, PurTyped
<1>6. AskHolds'
  BY <1>3 DEF PurInv, AskHolds
<1>7. QuoteHolds' /\ OrderHolds'
  BY <1>1 DEF PurInv, QuoteHolds, OrderHolds
<1> QED BY <1>5, <1>6, <1>7 DEF PurInv

LEMMA AddressEdits ==
  ASSUME PurInv, NEW text \in Places, EditAddress(text)
  PROVE  PurInv'
<1>1. /\ place' = text /\ edits < MaxEdits /\ edits' = edits + 1
      /\ UNCHANGED <<goods, ask, quote, order>>
  BY DEF EditAddress
<1>2. PurTyped'
  BY <1>1, PurchaseAssumption DEF PurInv, PurTyped
<1> QED BY <1>1, <1>2 DEF PurInv, AskHolds, QuoteHolds, OrderHolds

LEMMA Requests ==
  ASSUME PurInv, NEW a \in Asks, FetchAddress(a) \/ PackCart(a) \/ PrintCart(a) \/ AskFails(a)
  PROVE  PurInv'
<1> DEFINE stages == {"rest", "fetched", "packed", "rate"}
<1>1. ask \in [Asks -> AskRecord] /\ ask[a] \in AskRecord /\ goods \in Contents /\ place \in Addressed
  BY DEF PurInv, PurTyped, Addressed
<1>2. NoAsk \in AskRecord /\ NoAsk.at = "rest" /\ ~NoAsk.raced
  BY RecordsBegin DEF NoAsk
<1>3. CASE FetchAddress(a)
  <2>1. PICK at \in stages : at = "fetched"
    OBVIOUS
  <2>2. ask' = [ask EXCEPT ![a] = [NoAsk EXCEPT !.at = at, !.place = place]]
        /\ UNCHANGED <<goods, place, edits, quote, order>>
    BY <1>3, <2>1, Zenon DEF FetchAddress
  <2> DEFINE new == [NoAsk EXCEPT !.at = at, !.place = place]
  <2>3. new \in AskRecord /\ new.at = at /\ ~new.raced
    BY <1>1, <1>2 DEF AskRecord
  <2> HIDE DEF new
  <2> QED BY <2>1, <2>2, <2>3, RequestMoves DEF new
<1>4. CASE PackCart(a)
  <2>1. PICK at \in stages : at = "packed"
    OBVIOUS
  <2> DEFINE new == [ask[a] EXCEPT !.at = at, !.parcels = goods]
  <2>2. ask' = [ask EXCEPT ![a] = new] /\ UNCHANGED <<goods, place, edits, quote, order>>
    BY <1>4, <2>1, Zenon DEF PackCart
  <2>3. new \in AskRecord /\ new.at = at /\ new.parcels = goods
    BY <1>1 DEF AskRecord
  <2> HIDE DEF new
  <2> QED BY <2>1, <2>2, <2>3, RequestMoves
<1>5. CASE PrintCart(a)
  <2>1. PICK at \in stages : at = "rate"
    OBVIOUS
  <2> DEFINE print == Fingerprint(goods, ask[a].place, ask[a].parcels)
             new == [ask[a] EXCEPT !.at = at, !.print = print]
  <2>2. print \in Prints /\ print.lines = goods
    BY <1>1 DEF Fingerprint, Prints, AskRecord
  <2>3. /\ ask[a].at = "packed" /\ UNCHANGED <<goods, place, edits, quote, order>>
        /\ ask' = [ask EXCEPT ![a] = NoAsk] \/ ask' = [ask EXCEPT ![a] = new]
    BY <1>5, <2>1, Zenon DEF PrintCart
  <2>4. /\ new \in AskRecord /\ new.at = at /\ new.print = print
        /\ new.parcels = ask[a].parcels /\ (new.raced <=> ask[a].raced)
    <3> HIDE DEF print
    <3> QED BY <1>1, <2>2 DEF AskRecord
  <2>5. ~ask[a].raced => ask[a].parcels = goods
    BY <2>3 DEF PurInv, AskHolds
  <2>6. CASE ask' = [ask EXCEPT ![a] = NoAsk]
    BY <1>2, <2>3, <2>6, RequestMoves
  <2>7. CASE ask' = [ask EXCEPT ![a] = new]
    <3> HIDE DEF new, print
    <3> QED BY <2>1, <2>2, <2>3, <2>4, <2>5, <2>7, RequestMoves
  <2> QED BY <2>3, <2>6, <2>7
<1>6. CASE AskFails(a)
  <2>1. ask' = [ask EXCEPT ![a] = NoAsk] /\ UNCHANGED <<goods, place, edits, quote, order>>
    BY <1>6 DEF AskFails
  <2> QED BY <1>2, <2>1, RequestMoves
<1> QED BY <1>3, <1>4, <1>5, <1>6

LEMMA QuotesAreMade ==
  ASSUME PurInv, NEW a \in Asks, NEW q \in Quotes, Rate(a, q) \/ QuoteByHand(a, q)
  PROVE  PurInv'
<1>1. ask[a] \in AskRecord /\ goods \in Contents /\ NoAsk \in AskRecord /\ Empty \in Contents
  BY RecordsBegin, EmptyIsContents DEF PurInv, PurTyped
<1>2. CASE Rate(a, q)
  <2> DEFINE new == [maker |-> "carrier", print |-> ask[a].print, parcels |-> ask[a].parcels,
                     pending |-> FALSE, live |-> TRUE, raced |-> ask[a].raced]
  <2>1. new \in QuoteRecord
    BY <1>1 DEF AskRecord, QuoteRecord
  <2>2. ~new.raced => new.parcels = new.print.lines
    BY <1>2 DEF Rate, PurInv, AskHolds
  <2>3. /\ quote' = [quote EXCEPT ![q] = new] /\ quote[q].maker = "none"
        /\ ask' = [ask EXCEPT ![a] = NoAsk] /\ UNCHANGED <<goods, place, edits, order>>
    BY <1>2, Zenon DEF Rate
  <2> HIDE DEF new
  <2> QED BY <2>1, <2>2, <2>3, QuoteIsMade
<1>3. CASE QuoteByHand(a, q)
  <2> DEFINE print == Fingerprint(goods, ask[a].place, Empty)
             new == [maker |-> "manual", print |-> print, parcels |-> Empty,
                     pending |-> TRUE, live |-> TRUE, raced |-> FALSE]
  <2>1. print \in Prints
    BY <1>1 DEF Fingerprint, Prints, AskRecord
  <2>2. new \in QuoteRecord /\ new.maker # "carrier"
    <3> HIDE DEF print
    <3> QED BY <1>1, <2>1 DEF QuoteRecord
  <2>3. /\ ask' = [ask EXCEPT ![a] = NoAsk] /\ UNCHANGED <<goods, place, edits, order>>
        /\ \/ quote' = quote
           \/ quote' = [quote EXCEPT ![q] = new] /\ quote[q].maker = "none"
    BY <1>3, Zenon DEF QuoteByHand
  <2> HIDE DEF new
  <2>4. CASE quote' = quote
    BY <2>3, <2>4, RecordsBegin, RequestMoves
  <2>5. CASE quote' = [quote EXCEPT ![q] = new] /\ quote[q].maker = "none"
    BY <2>2, <2>3, <2>5, QuoteIsMade
  <2> QED BY <2>3, <2>4, <2>5
<1> QED BY <1>2, <1>3

LEMMA QuoteEndsAlone ==
  ASSUME PurInv, NEW q \in Quotes, QuoteElapses(q)
  PROVE  PurInv'
<1>1. quote' = [quote EXCEPT ![q].live = FALSE] /\ UNCHANGED <<goods, place, edits, ask, order>>
  BY DEF QuoteElapses
<1>2. quote \in [Quotes -> QuoteRecord] /\ order \in [Bought -> OrderRecord]
  BY DEF PurInv, PurTyped
<1>3. quote' \in [Quotes -> QuoteRecord]
  BY <1>1, <1>2 DEF QuoteRecord
<1>4. \A r \in Quotes : /\ quote'[r].maker = quote[r].maker /\ quote'[r].print = quote[r].print
                        /\ quote'[r].parcels = quote[r].parcels
                        /\ quote'[r].raced <=> quote[r].raced
  BY <1>1, <1>2 DEF QuoteRecord
<1> QED BY <1>1, <1>2, <1>3, <1>4, QuotesStay

LEMMA OrdersArePlaced ==
  ASSUME PurInv, NEW o \in Bought, NEW verified \in BOOLEAN,
         (\E q \in Quotes : Confirm(o, q, verified)) \/ ConfirmPickup(o, verified)
  PROVE  PurInv'
<1>1. goods \in Contents /\ place \in Addressed /\ Unordered \in OrderRecord /\ quote \in [Quotes -> QuoteRecord]
      /\ order \in [Bought -> OrderRecord] /\ <<goods>> \in Seq(Contents) /\ << >> \in Seq(Contents)
  BY RecordsBegin DEF PurInv, PurTyped, Addressed
<1>2. ASSUME NEW q \in Quotes, Confirm(o, q, verified) PROVE PurInv'
  <2>1. PICK cost \in {"none", "pending", "ready"} :
          cost = IF quote[q].pending THEN "pending" ELSE "ready"
    OBVIOUS
  <2>2. PICK review \in {"none", "review", "approved", "verified"} : review = "review"
    OBVIOUS
  <2>3. PICK done \in {"none", "review", "approved", "verified"} : done = "verified"
    OBVIOUS
  <2> DEFINE placed == [Unordered EXCEPT !.items = goods, !.place = place, !.quote = q, !.cost = cost]
             open == [placed EXCEPT !.status = review]
             costly == [placed EXCEPT !.status = done]
             ready == [placed EXCEPT !.status = done, !.link = TRUE, !.reserved = <<goods>>]
  <2>4. placed \in OrderRecord /\ placed.items = goods /\ placed.quote = q
    BY <1>1 DEF OrderRecord
  <2>5. /\ quote[q].maker # "none" /\ quote[q].print.lines = goods
        /\ UNCHANGED <<goods, place, edits, ask, quote>>
    <3>1. quote[q].print = [lines |-> goods, place |-> place, parcels |-> quote[q].parcels]
      BY <1>2, Zenon DEF Confirm, QuoteFits, Fingerprint
    <3>2. quote[q].maker # "none" /\ UNCHANGED <<goods, place, edits, ask, quote>>
      BY <1>2, Zenon DEF Confirm
    <3> QED BY <3>1, <3>2
  <2>6. \E new \in {open, costly, ready} : order' = [order EXCEPT ![o] = new]
    BY <1>2, <2>1, <2>2, <2>3, Zenon DEF Confirm
  <2> HIDE DEF placed
  <2>7. \A new \in {open, costly, ready} : new \in OrderRecord /\ new.items = goods /\ new.quote = q
    BY <1>1, <2>4 DEF OrderRecord
  <2> HIDE DEF open, costly, ready
  <2>8. PICK new \in OrderRecord : order' = [order EXCEPT ![o] = new] /\ new.items = goods /\ new.quote = q
    BY <2>6, <2>7
  <2> QED BY <2>5, <2>8, OrderMoves
<1>3. CASE ConfirmPickup(o, verified)
  <2>1. PICK cost \in {"none", "pending", "ready"} : cost = "ready"
    OBVIOUS
  <2>2. PICK status \in {"none", "review", "approved", "verified"} :
          status = IF verified THEN "verified" ELSE "review"
    OBVIOUS
  <2> DEFINE reserved == IF verified THEN <<goods>> ELSE << >>
             new == [Unordered EXCEPT !.items = goods, !.cost = cost, !.status = status,
                                      !.link = verified, !.reserved = reserved]
  <2>3. order' = [order EXCEPT ![o] = new] /\ UNCHANGED <<goods, place, edits, ask, quote>>
    BY <1>3, <2>1, <2>2, Zenon DEF ConfirmPickup
  <2>4. reserved \in Seq(Contents)
    BY <1>1
  <2> HIDE DEF reserved
  <2>5. new \in OrderRecord /\ new.quote = NoQuote
    BY <1>1, <2>4, RecordsBegin DEF OrderRecord
  <2> HIDE DEF new
  <2> QED BY <2>3, <2>5, OrderMoves
<1> QED BY <1>2, <1>3

(* The steps of an order that has been placed.                             *)
LEMMA OrdersGoOn ==
  ASSUME PurInv, NEW o \in Bought,
         \/ ApproveIdentity(o) \/ AgreeCost(o) \/ LinkExpires(o)
         \/ CheckResume(o) \/ ReserveCart(o) \/ ResumeFails(o)
  PROVE  PurInv'
<1>1. /\ goods \in Contents /\ quote \in [Quotes -> QuoteRecord]
      /\ order \in [Bought -> OrderRecord] /\ order[o] \in OrderRecord
  BY DEF PurInv, PurTyped
<1>2. CASE ApproveIdentity(o)
  <2>1. PICK status \in {"none", "review", "approved", "verified"} : status = "approved"
    OBVIOUS
  <2> DEFINE new == [order[o] EXCEPT !.status = status]
  <2>2. /\ order' = [order EXCEPT ![o] = new]
        /\ UNCHANGED <<goods, place, edits, ask, quote>>
    BY <1>2, <2>1, Zenon DEF ApproveIdentity
  <2>3. new \in OrderRecord /\ new.items = order[o].items /\ new.quote = order[o].quote
    BY <1>1 DEF OrderRecord
  <2> HIDE DEF new
  <2> QED BY <2>2, <2>3, OrderMoves
<1>3. CASE AgreeCost(o)
  <2>1. PICK cost \in {"none", "pending", "ready"} : cost = "ready"
    OBVIOUS
  <2>2. /\ order' = [order EXCEPT ![o].cost = cost]
        /\ quote' = [quote EXCEPT ![order[o].quote].pending = FALSE, ![order[o].quote].live = TRUE]
        /\ UNCHANGED <<goods, place, edits, ask>>
    BY <1>3, <2>1, Zenon DEF AgreeCost
  <2>3. /\ order' \in [Bought -> OrderRecord]
        /\ \A p \in Bought : order'[p].items = order[p].items /\ order'[p].quote = order[p].quote
    BY <1>1, <2>2 DEF OrderRecord
  <2>4. ASSUME NEW r \in Quotes
        PROVE  /\ quote'[r] \in QuoteRecord
               /\ quote'[r].maker = quote[r].maker /\ quote'[r].print = quote[r].print
               /\ quote'[r].parcels = quote[r].parcels /\ (quote'[r].raced <=> quote[r].raced)
    <3>1. CASE r # order[o].quote
      BY <1>1, <2>2, <3>1
    <3>2. CASE r = order[o].quote
      <4>1. quote'[r] = [quote[r] EXCEPT !.pending = FALSE, !.live = TRUE]
        BY <1>1, <2>2, <3>2
      <4> QED BY <1>1, <4>1 DEF QuoteRecord
    <3> QED BY <3>1, <3>2
  <2>5. quote' \in [Quotes -> QuoteRecord]
    BY <1>1, <2>2, <2>4
  <2> QED BY <2>2, <2>3, <2>4, <2>5, QuotesStay
<1>4. CASE LinkExpires(o)
  <2> DEFINE after == [order EXCEPT ![o].link = FALSE]
  <2>1. order' = after /\ UNCHANGED <<goods, place, edits, ask, quote>>
    BY <1>4 DEF LinkExpires
  <2>2. /\ after \in [Bought -> OrderRecord]
        /\ \A p \in Bought : after[p].items = order[p].items /\ after[p].quote = order[p].quote
    BY <1>1 DEF OrderRecord
  <2> HIDE DEF after
  <2> QED BY <1>1, <2>1, <2>2, QuotesStay
<1>5. CASE CheckResume(o) \/ ResumeFails(o)
  <2>1. PICK checked \in BOOLEAN : order' = [order EXCEPT ![o].checked = checked]
    BY <1>5 DEF CheckResume, ResumeFails
  <2> DEFINE after == [order EXCEPT ![o].checked = checked]
  <2>2. order' = after /\ UNCHANGED <<goods, place, edits, ask, quote>>
    BY <1>5, <2>1 DEF CheckResume, ResumeFails
  <2>3. /\ after \in [Bought -> OrderRecord]
        /\ \A p \in Bought : after[p].items = order[p].items /\ after[p].quote = order[p].quote
    BY <1>1 DEF OrderRecord
  <2> HIDE DEF after
  <2> QED BY <1>1, <2>2, <2>3, QuotesStay
<1>6. CASE ReserveCart(o)
  <2>1. PICK status \in {"none", "review", "approved", "verified"} : status = "verified"
    OBVIOUS
  <2> DEFINE more == Append(order[o].reserved, goods)
             new == [order[o] EXCEPT !.checked = FALSE, !.status = status, !.link = TRUE,
                                     !.reserved = more]
  <2>2. /\ order' = [order EXCEPT ![o] = new]
        /\ UNCHANGED <<goods, place, edits, ask, quote>>
    BY <1>6, <2>1, Zenon DEF ReserveCart
  <2>3. more \in Seq(Contents)
    BY <1>1 DEF OrderRecord
  <2> HIDE DEF more
  <2>4. new \in OrderRecord /\ new.items = order[o].items /\ new.quote = order[o].quote
    BY <1>1, <2>3 DEF OrderRecord
  <2> HIDE DEF new
  <2> QED BY <2>2, <2>4, OrderMoves
<1> QED BY <1>2, <1>3, <1>4, <1>5, <1>6

LEMMA PurSteps == PurInv /\ [PurchaseNext]_purchaseVars => PurInv'
<1> SUFFICES ASSUME PurInv, [PurchaseNext]_purchaseVars PROVE PurInv'
  OBVIOUS
<1>1. CASE PurchaseNext
  BY <1>1, CartEdits, AddressEdits, Requests, QuotesAreMade, QuoteEndsAlone, OrdersArePlaced,
     OrdersGoOn, Zenon DEF PurchaseNext
<1>2. CASE UNCHANGED purchaseVars
  BY <1>2 DEF purchaseVars, PurInv, PurTyped, AskHolds, QuoteHolds, OrderHolds
<1> QED BY <1>1, <1>2

(* What the carrier is sent is what the customer bought, for any number of *)
(* products, requests, quotes and orders (checkout.py:174, shipping.py:608)*)
THEOREM PurchaseCorrect == PurchaseSpec => [](PurchaseTypeOK /\ ParcelsHoldOrder)
<1>1. ASSUME PurInv PROVE PurchaseTypeOK
  BY <1>1 DEF PurInv, PurTyped, PurchaseTypeOK, AskRecord, QuoteRecord, OrderRecord
<1>2. ASSUME PurInv PROVE ParcelsHoldOrder
  <2>1. \A o \in Bought : order[o].quote \in Quotes \cup {NoQuote}
    BY <1>2 DEF PurInv, PurTyped, OrderRecord
  <2> QED BY <1>2, <2>1 DEF PurInv, QuoteHolds, OrderHolds, ParcelsHoldOrder
<1> QED BY <1>1, <1>2, PurInitially, PurSteps, PTL DEF PurchaseSpec

-----------------------------------------------------------------------------
(* CARTS.  A cart that was never made is empty, and logins merge a         *)
(* visitor's cart into one that is there and stays there.                  *)
NewCartsAreEmpty ==
  \A c \in AllCarts \ (there \cup past) : \A v \in Variants : lines[c][v] = 0
MergesAreIntoOne ==
  /\ Account \notin past
  /\ \A r \in CartCalls : call[r].at = "merge" => call[r].cart \in Visitors /\ Account \in there

CartInv ==
  /\ CartTypeOK /\ IsFiniteSet(there) /\ NewCartsAreEmpty /\ MergesAreIntoOne
  /\ UnitsWereAsked

CallRecord ==
  [at : {"rest", "clear", "coupon", "merge"}, cart : AllCarts \cup {NoCart},
   copy : CartCoupons \cup {Bare}]

LEMMA UnitsAreNat == CartInv => \A v \in Variants : UnitsIn(v) \in Nat
<1> SUFFICES ASSUME CartInv, NEW v \in Variants PROVE UnitsIn(v) \in Nat
  OBVIOUS
<1> DEFINE f == [c \in AllCarts |-> lines[c][v]]
<1>1. \A c \in there : f[c] \in Nat
  BY DEF CartInv, CartTypeOK
<1> HIDE DEF f
<1>2. SumFunctionOnSet(f, there) \in Nat
  BY <1>1, SumIsNat DEF CartInv
<1> QED BY <1>2 DEF UnitsIn, f

(* The lines of one cart change.                                           *)
LEMMA LinesChange ==
  ASSUME CartInv, NEW c \in there, NEW wanted \in [Variants -> Nat], there' = there,
         lines' = [lines EXCEPT ![c] = wanted], NEW v \in Variants
  PROVE  UnitsIn(v)' = UnitsIn(v) - lines[c][v] + wanted[v]
<1> DEFINE f == [d \in AllCarts |-> lines[d][v]]
           g == [d \in AllCarts |-> lines'[d][v]]
<1>1. /\ lines \in [AllCarts -> [Variants -> Nat]] /\ there \subseteq AllCarts /\ IsFiniteSet(there)
      /\ lines' \in [AllCarts -> [Variants -> Nat]]
  BY DEF CartInv, CartTypeOK
<1>2. \A d \in there : f[d] \in Nat /\ g[d] \in Nat
  BY <1>1
<1>3. \A d \in there \ {c} : f[d] = g[d]
  BY <1>1
<1>4. f[c] = lines[c][v] /\ g[c] = wanted[v]
  BY <1>1
<1>5. UnitsIn(v) = SumFunctionOnSet(f, there) /\ UnitsIn(v)' = SumFunctionOnSet(g, there)
  BY DEF UnitsIn
<1> HIDE DEF f, g
<1>6. SumFunctionOnSet(g, there) = SumFunctionOnSet(f, there) - f[c] + g[c]
  BY <1>1, <1>2, <1>3, SumChanges
<1> QED BY <1>4, <1>5, <1>6

LEMMA CartInitially == CartInit => CartInv
<1> SUFFICES ASSUME CartInit PROVE CartInv
  OBVIOUS
<1>1. CartTypeOK
  BY DEF CartInit, CartTypeOK, IdleCall
<1>2. there = {} /\ IsFiniteSet({})
  BY FS_EmptySet DEF CartInit
<1>3. \A v \in Variants : UnitsIn(v) = 0
  BY <1>2, SumOfNone DEF UnitsIn
<1>4. NewCartsAreEmpty /\ MergesAreIntoOne
  BY DEF CartInit, NewCartsAreEmpty, MergesAreIntoOne, IdleCall, AllCarts
<1>5. UnitsWereAsked
  BY <1>3 DEF CartInit, UnitsWereAsked
<1> QED BY <1>1, <1>2, <1>4, <1>5 DEF CartInv

LEMMA CartSteps == CartInv /\ [CartNext]_cartVars => CartInv'
<1> SUFFICES ASSUME CartInv, [CartNext]_cartVars PROVE CartInv'
  OBVIOUS
<1> USE CartsAssumption
<1>1. /\ there \subseteq AllCarts /\ past \subseteq AllCarts /\ IsFiniteSet(there)
      /\ lines \in [AllCarts -> [Variants -> Nat]]
      /\ coupon \in [AllCarts -> CartCoupons \cup {Bare}]
      /\ limit \in [Variants -> 0..MaxStock]
      /\ asked \in [Variants -> Int]
      /\ call \in [CartCalls -> CallRecord]
  BY DEF CartInv, CartTypeOK, CallRecord
<1>2. \A v \in Variants : UnitsIn(v) \in Nat /\ UnitsIn(v) <= asked[v]
  BY UnitsAreNat DEF CartInv, UnitsWereAsked
<1>3. NewCartsAreEmpty /\ MergesAreIntoOne
  BY DEF CartInv
<1>4. IdleCall \in CallRecord /\ IdleCall.at = "rest"
  BY DEF IdleCall, CallRecord
<1>5. ASSUME NEW c \in AllCarts, Visit(c) PROVE CartInv'
  <2>1. /\ there' = there \cup {c} /\ c \notin there \cup past
        /\ UNCHANGED <<past, lines, coupon, limit, asked, call>>
    BY <1>5 DEF Visit
  <2>2. ASSUME NEW v \in Variants
        PROVE  UnitsIn(v)' = UnitsIn(v) /\ IsFiniteSet(there')
    <3> DEFINE f == [d \in AllCarts |-> lines[d][v]]
    <3>1. f[c] = 0 /\ \A d \in there \cup {c} : f[d] \in Nat
      BY <1>1, <1>3, <2>1 DEF NewCartsAreEmpty
    <3>2. UnitsIn(v) = SumFunctionOnSet(f, there) /\ UnitsIn(v)' = SumFunctionOnSet(f, there \cup {c})
      BY <2>1 DEF UnitsIn
    <3> HIDE DEF f
    <3> QED BY <1>1, <2>1, <3>1, <3>2, SumGrows
  <2>3. IsFiniteSet(there')
    BY <1>1, <2>1, FS_AddElement
  <2>4. CartTypeOK'
    BY <1>1, <2>1 DEF CartTypeOK, CallRecord
  <2>5. NewCartsAreEmpty' /\ MergesAreIntoOne'
    BY <1>3, <2>1 DEF NewCartsAreEmpty, MergesAreIntoOne
  <2> QED BY <1>2, <2>1, <2>2, <2>3, <2>4, <2>5 DEF CartInv, UnitsWereAsked
<1>6. ASSUME NEW c \in there, NEW v \in Variants, NEW n \in Nat,
             lines' = [lines EXCEPT ![c][v] = n],
             asked' = [asked EXCEPT ![v] = @ - lines[c][v] + n],
             UNCHANGED <<there, past, coupon, limit, call>>
      PROVE  CartInv'
  <2> DEFINE wanted == [lines[c] EXCEPT ![v] = n]
  <2>1. lines' = [lines EXCEPT ![c] = wanted]
    BY <1>6
  <2>2. wanted \in [Variants -> Nat] /\ wanted[v] = n /\ \A w \in Variants \ {v} : wanted[w] = lines[c][w]
    BY <1>1
  <2> HIDE DEF wanted
  <2>3. \A w \in Variants : UnitsIn(w)' = UnitsIn(w) - lines[c][w] + wanted[w]
    BY <1>6, <2>1, <2>2, LinesChange
  <2>4. CartTypeOK'
    BY <1>1, <1>6, <2>1, <2>2 DEF CartTypeOK, CallRecord
  <2>5. NewCartsAreEmpty' /\ MergesAreIntoOne'
    BY <1>1, <1>3, <1>6, <2>1 DEF NewCartsAreEmpty, MergesAreIntoOne
  <2>6. ASSUME NEW w \in Variants PROVE UnitsIn(w)' <= asked'[w]
    <3>1. /\ UnitsIn(w) \in Nat /\ UnitsIn(w) <= asked[w] /\ lines[c][w] \in Nat /\ asked[w] \in Int
          /\ wanted[w] \in Nat /\ UnitsIn(w)' = UnitsIn(w) - lines[c][w] + wanted[w]
      BY <1>1, <1>2, <2>2, <2>3
    <3>2. w = v => asked'[w] = asked[w] - lines[c][w] + wanted[w]
      BY <1>1, <1>6, <2>2
    <3>3. w # v => asked'[w] = asked[w] /\ wanted[w] = lines[c][w]
      BY <1>1, <1>6, <2>2
    <3> QED BY <3>1, <3>2, <3>3
  <2> QED BY <1>1, <1>6, <2>4, <2>5, <2>6 DEF CartInv, UnitsWereAsked
<1>7. ASSUME NEW c \in AllCarts, NEW v \in Variants, NEW n \in 1..MaxAsked, AddLine(c, v, n)
      PROVE  CartInv'
  <2> DEFINE sum == lines[c][v] + n
  <2>1. /\ c \in there /\ lines' = [lines EXCEPT ![c][v] = sum]
        /\ asked' = [asked EXCEPT ![v] = @ + n]
        /\ UNCHANGED <<there, past, coupon, limit, call>>
    BY <1>7 DEF AddLine
  <2>2. sum \in Nat /\ asked[v] + n = asked[v] - lines[c][v] + sum
    BY <1>1
  <2>3. asked' = [asked EXCEPT ![v] = @ - lines[c][v] + sum]
    BY <1>1, <2>1, <2>2
  <2> HIDE DEF sum
  <2> QED BY <1>6, <2>1, <2>2, <2>3
<1>8. ASSUME NEW c \in AllCarts, NEW v \in Variants, NEW n \in 0..MaxAsked, SetQuantity(c, v, n)
      PROVE  CartInv'
  <2>1. /\ n \in Nat /\ c \in there /\ lines' = [lines EXCEPT ![c][v] = n]
        /\ asked' = [asked EXCEPT ![v] = @ - lines[c][v] + n]
        /\ UNCHANGED <<there, past, coupon, limit, call>>
    BY <1>8 DEF SetQuantity
  <2> QED BY <1>6, <2>1
<1>9. ASSUME NEW c \in AllCarts, NEW v \in Variants, RemoveLine(c, v)
      PROVE  CartInv'
  <2>1. asked[v] - lines[c][v] = asked[v] - lines[c][v] + 0
    BY <1>1
  <2>2. asked' = [asked EXCEPT ![v] = @ - lines[c][v] + 0]
    BY <1>1, <1>9, <2>1 DEF RemoveLine
  <2> QED BY <1>6, <1>9, <2>2 DEF RemoveLine
<1>10. ASSUME NEW r \in CartCalls, NEW new \in CallRecord, call' = [call EXCEPT ![r] = new]
       PROVE  /\ call' \in [CartCalls -> CallRecord]
              /\ \A q \in CartCalls : call'[q] = new \/ call'[q] = call[q]
  BY <1>1, <1>10
<1>11. ASSUME NEW r \in CartCalls, NEW c \in AllCarts, ClearLines(r, c) PROVE CartInv'
  <2> DEFINE none == [v \in Variants |-> 0]
             new == [at |-> "clear", cart |-> c, copy |-> Bare]
  <2>1. /\ c \in there /\ lines' = [lines EXCEPT ![c] = none]
        /\ asked' = [v \in Variants |-> asked[v] - lines[c][v]]
        /\ call' = [call EXCEPT ![r] = new] /\ UNCHANGED <<there, past, coupon, limit>>
    BY <1>11 DEF ClearLines
  <2>2. none \in [Variants -> Nat] /\ \A v \in Variants : none[v] = 0
    OBVIOUS
  <2>3. new \in CallRecord /\ new.at # "merge"
    BY DEF CallRecord
  <2> HIDE DEF none, new
  <2>4. \A w \in Variants : UnitsIn(w)' = UnitsIn(w) - lines[c][w] + none[w]
    BY <2>1, <2>2, LinesChange
  <2>5. CartTypeOK'
    BY <1>1, <1>10, <2>1, <2>2, <2>3 DEF CartTypeOK, CallRecord
  <2>6. NewCartsAreEmpty' /\ MergesAreIntoOne'
    BY <1>1, <1>3, <1>10, <2>1, <2>3 DEF NewCartsAreEmpty, MergesAreIntoOne
  <2>7. ASSUME NEW w \in Variants PROVE UnitsIn(w)' <= asked'[w]
    BY <1>1, <1>2, <2>1, <2>2, <2>4
  <2> QED BY <1>1, <2>1, <2>5, <2>6, <2>7 DEF CartInv, UnitsWereAsked
<1>12. ASSUME NEW r \in CartCalls, NEW new \in CallRecord, call' = [call EXCEPT ![r] = new],
              coupon' \in [AllCarts -> CartCoupons \cup {Bare}],
              there' = there \/ there' = there \cup {Account},
              new.at = "merge" => new.cart \in Visitors /\ Account \in there',
              UNCHANGED <<past, lines, limit, asked>>
       PROVE  CartInv'
  <2>1. CartTypeOK'
    BY <1>1, <1>10, <1>12 DEF CartTypeOK, CallRecord, AllCarts
  <2>2. NewCartsAreEmpty' /\ MergesAreIntoOne'
    BY <1>3, <1>10, <1>12 DEF NewCartsAreEmpty, MergesAreIntoOne
  <2>3. IsFiniteSet(there')
    <3>1. IsFiniteSet(there \cup {Account})
      BY <1>1, FS_AddElement
    <3> QED BY <1>1, <1>12, <3>1
  <2>4. ASSUME NEW v \in Variants PROVE UnitsIn(v)' = UnitsIn(v)
    <3> DEFINE f == [d \in AllCarts |-> lines[d][v]]
    <3>1. /\ Account \in there \/ f[Account] = 0
          /\ \A d \in there \cup {Account} : f[d] \in Nat
      BY <1>1, <1>3 DEF NewCartsAreEmpty, MergesAreIntoOne, AllCarts
    <3>2. UnitsIn(v) = SumFunctionOnSet(f, there) /\ UnitsIn(v)' = SumFunctionOnSet(f, there')
      BY <1>12 DEF UnitsIn
    <3> HIDE DEF f
    <3>3. SumFunctionOnSet(f, there \cup {Account}) = SumFunctionOnSet(f, there)
      BY <1>1, <3>1, SumGrows
    <3> QED BY <1>12, <3>2, <3>3
  <2> QED BY <1>2, <1>12, <2>1, <2>2, <2>3, <2>4 DEF CartInv, UnitsWereAsked
<1>13. ASSUME NEW r \in CartCalls, ClearCoupon(r) PROVE CartInv'
  <2>1. coupon' \in [AllCarts -> CartCoupons \cup {Bare}]
    BY <1>1, <1>13 DEF ClearCoupon
  <2> QED BY <1>4, <1>12, <1>13, <2>1 DEF ClearCoupon
<1>14. ASSUME NEW r \in CartCalls, NEW c \in AllCarts, ReadCart(r, c) PROVE CartInv'
  <2> DEFINE new == [at |-> "coupon", cart |-> c, copy |-> coupon[c]]
  <2>1. new \in CallRecord /\ new.at # "merge"
    BY <1>1 DEF CallRecord
  <2>2. call' = [call EXCEPT ![r] = new] /\ UNCHANGED <<there, past, lines, coupon, limit, asked>>
    BY <1>14 DEF ReadCart
  <2> HIDE DEF new
  <2> QED BY <1>1, <1>12, <2>1, <2>2
<1>15. ASSUME NEW r \in CartCalls, NEW code \in CartCoupons, ApplyCoupon(r, code) PROVE CartInv'
  <2>1. coupon' \in [AllCarts -> CartCoupons \cup {Bare}]
    BY <1>1, <1>15 DEF ApplyCoupon
  <2> QED BY <1>4, <1>12, <1>15, <2>1 DEF ApplyCoupon
<1>16. ASSUME NEW r \in CartCalls, NEW c \in AllCarts, LogIn(r, c) PROVE CartInv'
  <2> DEFINE new == [at |-> "merge", cart |-> c, copy |-> Bare]
  <2>1. new \in CallRecord /\ new.cart = c
    BY DEF CallRecord
  <2>2. /\ call' = [call EXCEPT ![r] = new] /\ there' = there \cup {Account} /\ c \in Visitors
        /\ UNCHANGED <<past, lines, coupon, limit, asked>>
    BY <1>16 DEF LogIn
  <2> HIDE DEF new
  <2> QED BY <1>1, <1>12, <2>1, <2>2
<1>17. ASSUME NEW r \in CartCalls, Merge(r) PROVE CartInv'
  <2> DEFINE source == call[r].cart
             merged == [v \in Variants |->
                          IF lines[source][v] = 0 THEN lines[Account][v]
                          ELSE Accepted(v, lines[source][v], lines[Account][v])]
  <2>1. CASE source \notin there
    BY <1>1, <1>4, <1>12, <1>17, <2>1 DEF Merge
  <2>2. CASE source \in there
    <3>1. source \in Visitors /\ Account \in there /\ source # Account /\ Account \in AllCarts
      BY <1>3, <1>17 DEF Merge, MergesAreIntoOne, AllCarts
    <3>2. /\ there' = there \ {source} /\ past' = past \cup {source}
          /\ lines' = [lines EXCEPT ![Account] = merged]
          /\ coupon' = [coupon EXCEPT ![Account] = IF @ = Bare THEN coupon[source] ELSE @]
          /\ call' = [call EXCEPT ![r] = IdleCall] /\ UNCHANGED <<limit, asked>>
      BY <1>17, <2>2 DEF Merge, Remaining
    <3>3. ASSUME NEW v \in Variants
          PROVE  merged[v] \in Nat /\ merged[v] <= lines[source][v] + lines[Account][v]
      <4>1. lines[source][v] \in Nat /\ lines[Account][v] \in Nat /\ limit[v] \in Nat /\ MaxLine \in Nat
        BY <1>1, <2>2, <3>1
      <4> QED BY <4>1 DEF Accepted, Lesser
    <3>4. merged \in [Variants -> Nat]
      BY <3>3
    <3> HIDE DEF merged
    <3>5. IsFiniteSet(there')
      BY <1>1, <3>2, FS_Subset
    <3>6. coupon' \in [AllCarts -> CartCoupons \cup {Bare}]
      BY <1>1, <2>2, <3>1, <3>2
    <3>7. CartTypeOK'
      BY <1>1, <1>4, <1>10, <2>2, <3>2, <3>4, <3>6 DEF CartTypeOK, CallRecord
    <3>8. NewCartsAreEmpty'
      BY <1>1, <1>3, <3>1, <3>2 DEF NewCartsAreEmpty
    <3>9. MergesAreIntoOne'
      BY <1>3, <1>4, <1>10, <3>1, <3>2 DEF MergesAreIntoOne
    <3>10. ASSUME NEW v \in Variants PROVE UnitsIn(v)' <= UnitsIn(v)
      <4> DEFINE f == [d \in AllCarts |-> lines[d][v]]
                 g == [d \in AllCarts |-> lines'[d][v]]
                 rest == there \ {source}
      <4>1. /\ \A d \in there : f[d] \in Nat /\ g[d] \in Nat
            /\ \A d \in rest \ {Account} : f[d] = g[d]
            /\ g[Account] <= f[source] + f[Account]
        BY <1>1, <2>2, <3>1, <3>2, <3>3, <3>4
      <4>2. UnitsIn(v) = SumFunctionOnSet(f, there) /\ UnitsIn(v)' = SumFunctionOnSet(g, rest)
        BY <3>2 DEF UnitsIn
      <4>3. Account \in rest /\ IsFiniteSet(rest) /\ rest \subseteq there
        BY <3>1, <3>2, <3>5
      <4> HIDE DEF f, g
      <4>4. SumFunctionOnSet(f, there) = f[source] + SumFunctionOnSet(f, rest)
        BY <1>1, <2>2, <4>1, SumLess
      <4> HIDE DEF rest
      <4>5. SumFunctionOnSet(g, rest) = SumFunctionOnSet(f, rest) - f[Account] + g[Account]
        BY <4>1, <4>3, SumChanges
      <4>6. SumFunctionOnSet(f, rest) \in Nat
        BY <4>1, <4>3, SumIsNat
      <4>7. f[source] \in Nat /\ f[Account] \in Nat /\ g[Account] \in Nat
        BY <2>2, <3>1, <4>1
      <4> QED BY <4>1, <4>2, <4>4, <4>5, <4>6, <4>7
    <3>11. ASSUME NEW v \in Variants PROVE UnitsIn(v)' <= asked'[v]
      <4>1. UnitsIn(v)' \in Nat
        <5> DEFINE g == [d \in AllCarts |-> lines'[d][v]]
        <5>1. \A d \in there' : g[d] \in Nat
          BY <3>7 DEF CartTypeOK
        <5>2. UnitsIn(v)' = SumFunctionOnSet(g, there')
          BY DEF UnitsIn
        <5> HIDE DEF g
        <5> QED BY <3>5, <5>1, <5>2, SumIsNat
      <4> QED BY <1>1, <1>2, <3>2, <3>10, <4>1
    <3> QED BY <3>5, <3>7, <3>8, <3>9, <3>11 DEF CartInv, UnitsWereAsked
  <2> QED BY <2>1, <2>2
<1>18. ASSUME NEW v \in Variants, NEW n \in 0..MaxStock, LimitMoves(v, n) PROVE CartInv'
  <2>1. limit' \in [Variants -> 0..MaxStock] /\ UNCHANGED <<there, past, lines, coupon, asked, call>>
    BY <1>1, <1>18 DEF LimitMoves
  <2> QED BY <1>1, <1>2, <1>3, <2>1
       DEF CartInv, CartTypeOK, CallRecord, NewCartsAreEmpty, MergesAreIntoOne, UnitsWereAsked, UnitsIn
<1>19. CASE UNCHANGED cartVars
  BY <1>1, <1>2, <1>3, <1>19
     DEF cartVars, CartInv, CartTypeOK, CallRecord, NewCartsAreEmpty, MergesAreIntoOne, UnitsWereAsked, UnitsIn
<1> QED
  <2>1. CASE CartNext
    BY <1>5, <1>7, <1>8, <1>9, <1>11, <1>13, <1>14, <1>15, <1>16, <1>17, <1>18, <2>1, Zenon DEF CartNext
  <2> QED BY <1>19, <2>1

(* Carts hold what was asked for, for any number of visitors, variants and *)
(* logins (commerce/services.py:399).                                      *)
THEOREM CartsCorrect == CartSpec => [](CartTypeOK /\ UnitsWereAsked)
<1>1. CartInv => CartTypeOK /\ UnitsWereAsked
  BY DEF CartInv
<1> QED BY <1>1, CartInitially, CartSteps, PTL DEF CartSpec

-----------------------------------------------------------------------------
(* THE DAILY TABLES.  Requests go on for at most MaxOver midnights, what   *)
(* is counted is still there, and a day that a complete run has counted    *)
(* after its requests had ended is counted for good.                       *)
IsFinal(d) == today - missed - d > MaxOver

RequestsAreShort ==
  \A v \in Tours : request[v].at # "rest" => visit[v].began # Never /\ today - visit[v].began <= MaxOver
EventsAreKept ==
  event \subseteq ever /\ \A e \in ever : today - e.day < EventDays => e \in event
FinalIsCounted ==
  \A d \in Days : IsFinal(d) => daily[d] = Count(d, ever)

RollInv ==
  /\ RollTypeOK /\ daily = [d \in Days |-> daily[d]]
  /\ RequestsAreShort /\ EventsAreKept /\ FinalIsCounted

(* A count depends on the events, the visits and the payments of its day.  *)
LEMMA CountStays ==
  ASSUME NEW d,
         {e \in ever' : e.day = d /\ e.hit \in PageViews} = {e \in ever : e.day = d /\ e.hit \in PageViews},
         {v \in Tours : visit'[v].began = d} = {v \in Tours : visit[v].began = d},
         \A v \in Tours : visit[v].began = d => visit'[v].flags = visit[v].flags,
         {o \in Conversions : sale'[o] = d} = {o \in Conversions : sale[o] = d}
  PROVE  Count(d, ever)' = Count(d, ever)
<1> DEFINE seen == {e \in ever : e.day = d /\ e.hit \in PageViews}
           sessions == {v \in Tours : visit[v].began = d}
           after == {v \in Tours : visit'[v].began = d}
           paid == {o \in Conversions : sale[o] = d}
           flagged(f) == {v \in sessions : f \in visit[v].flags}
           flaggedAfter(f) == {v \in sessions : f \in visit'[v].flags}
<1>1. Count(d, ever) =
        [views |-> Cardinality(seen), viewing |-> Cardinality({e.visit : e \in seen}),
         sessions |-> Cardinality(sessions),
         flagged |-> [f \in SessionFlags |-> Cardinality(flagged(f))],
         paid |-> Cardinality(paid)]
  BY Zenon DEF Count
<1>2. Count(d, ever)' =
        [views |-> Cardinality(seen), viewing |-> Cardinality({e.visit : e \in seen}),
         sessions |-> Cardinality(sessions),
         flagged |-> [f \in SessionFlags |-> Cardinality(flaggedAfter(f))],
         paid |-> Cardinality(paid)]
  BY Zenon DEF Count
<1>3. \A f : flaggedAfter(f) = flagged(f)
  OBVIOUS
<1> HIDE DEF flagged, flaggedAfter
<1>4. [f \in SessionFlags |-> Cardinality(flaggedAfter(f))] = [f \in SessionFlags |-> Cardinality(flagged(f))]
  BY <1>3, Zenon
<1> QED BY <1>1, <1>2, <1>4, Zenon

(* A day of the window that is counted now has the events of all time.     *)
LEMMA CountIsWhole ==
  ASSUME RollInv, NEW d \in Days, today - d < Window
  PROVE  Count(d, event) = Count(d, ever)
<1>1. \A e \in ever : e.day = d => today - e.day < EventDays
  BY RollupsAssumption DEF RollInv, RollTypeOK, Days
<1>2. {e \in event : e.day = d /\ e.hit \in PageViews} = {e \in ever : e.day = d /\ e.hit \in PageViews}
  BY <1>1 DEF RollInv, EventsAreKept
<1> QED BY <1>2, Zenon DEF Count

LEMMA HitsAreThere == Hits # {} /\ NoRequest.at = "rest"
                      /\ NoRequest \in [at : {"rest", "insert", "flag"}, hit : Hits]
<1>1. (CHOOSE h \in Hits : TRUE) \in Hits /\ Hits # {}
  BY RollupsAssumption DEF Hits
<1> QED BY <1>1 DEF NoRequest

LEMMA RollInitially == RollInit => RollInv
<1> SUFFICES ASSUME RollInit PROVE RollInv
  OBVIOUS
<1> USE RollupsAssumption
<1>1. NotBegun \in [began : Days \cup {Never}, flags : SUBSET SessionFlags]
  BY DEF NotBegun
<1>2. RollTypeOK /\ daily = [d \in Days |-> daily[d]]
  BY <1>1, HitsAreThere DEF RollInit, RollTypeOK, Days
<1>3. RequestsAreShort
  BY HitsAreThere DEF RollInit, RequestsAreShort
<1>4. EventsAreKept
  BY DEF RollInit, EventsAreKept
<1>5. FinalIsCounted
  BY DEF RollInit, FinalIsCounted, IsFinal, Days
<1> QED BY <1>2, <1>3, <1>4, <1>5 DEF RollInv

(* Steps within a day that leave the tables alone: nothing that happens    *)
(* still belongs to a day that is counted for good.                        *)
LEMMA DayGoesOn ==
  ASSUME RollInv, RollTypeOK', UNCHANGED <<today, daily, missed>>, RequestsAreShort', EventsAreKept',
         \A e \in ever' : e \in ever \/ e.day = today, ever \subseteq ever',
         \A v \in Tours : visit'[v] # visit[v] =>
           /\ visit[v].began = Never => visit'[v].began = today
           /\ visit[v].began # Never => visit'[v].began = visit[v].began
           /\ visit[v].began # Never /\ visit'[v].flags # visit[v].flags =>
                today - visit[v].began <= MaxOver,
         \A o \in Conversions : sale'[o] # sale[o] => sale[o] = Never /\ today - sale'[o] <= MaxOver
  PROVE  RollInv'
<1> USE RollupsAssumption
<1>1. ASSUME NEW d \in Days, IsFinal(d) PROVE Count(d, ever)' = Count(d, ever)
  <2>1. d # today /\ d # Never /\ today - d > MaxOver /\ d \in Int /\ today \in Int
    BY <1>1 DEF IsFinal, RollInv, RollTypeOK, Days, Never
  <2>2. {e \in ever' : e.day = d /\ e.hit \in PageViews} = {e \in ever : e.day = d /\ e.hit \in PageViews}
    BY <2>1
  <2>3. {v \in Tours : visit'[v].began = d} = {v \in Tours : visit[v].began = d}
    BY <2>1
  <2>4. \A v \in Tours : visit[v].began = d => visit'[v].flags = visit[v].flags
    BY <2>1
  <2>5. {o \in Conversions : sale'[o] = d} = {o \in Conversions : sale[o] = d}
    BY <2>1
  <2> QED BY <2>2, <2>3, <2>4, <2>5, CountStays
<1>2. FinalIsCounted'
  BY <1>1 DEF RollInv, FinalIsCounted, IsFinal
<1> QED BY <1>2 DEF RollInv

LEMMA RollSteps == RollInv /\ [RollNext]_rollVars => RollInv'
<1> SUFFICES ASSUME RollInv, [RollNext]_rollVars PROVE RollInv'
  OBVIOUS
<1> USE RollupsAssumption
<1> DEFINE Visit0 == [began : Days \cup {Never}, flags : SUBSET SessionFlags]
           Request0 == [at : {"rest", "insert", "flag"}, hit : Hits]
<1>1. /\ today \in Days /\ visit \in [Tours -> Visit0] /\ request \in [Tours -> Request0]
      /\ event \subseteq EventRows /\ ever \subseteq EventRows
      /\ sale \in [Conversions -> Days \cup {Never}]
      /\ DOMAIN daily = Days /\ missed \in 0..MaxMissed + 1
      /\ daily = [d \in Days |-> daily[d]]
      /\ RequestsAreShort /\ EventsAreKept /\ FinalIsCounted
  BY DEF RollInv, RollTypeOK
<1>2. ASSUME today' \in Days, visit' \in [Tours -> Visit0], request' \in [Tours -> Request0],
             event' \subseteq EventRows, ever' \subseteq EventRows,
             sale' \in [Conversions -> Days \cup {Never}],
             DOMAIN daily' = Days, missed' \in 0..MaxMissed + 1
      PROVE  RollTypeOK'
  BY <1>2 DEF RollTypeOK
<1> HIDE DEF Visit0, Request0
<1>3. ASSUME NEW v \in Tours, PostView(v) PROVE RollInv'
  <2>1. PICK h \in PageViews : request' = [request EXCEPT ![v] = [at |-> "insert", hit |-> h]]
    BY <1>3 DEF PostView
  <2>2. request' \in [Tours -> Request0] /\ \A w \in Tours \ {v} : request'[w] = request[w]
    BY <1>1, <2>1 DEF Request0, Hits
  <2>3. /\ visit[v].began = Never \/ GoesOn(v)
        /\ visit' = [visit EXCEPT ![v].began = IF @ = Never THEN today ELSE @]
        /\ UNCHANGED <<today, event, ever, sale, daily, missed>>
    BY <1>3 DEF PostView
  <2>4. visit[v] \in Visit0
    BY <1>1
  <2>5. /\ visit' \in [Tours -> Visit0] /\ \A w \in Tours \ {v} : visit'[w] = visit[w]
        /\ visit'[v].flags = visit[v].flags
        /\ visit'[v].began = IF visit[v].began = Never THEN today ELSE visit[v].began
    BY <1>1, <2>3, <2>4 DEF Visit0
  <2>6. visit'[v].began # Never /\ today - visit'[v].began <= MaxOver
    BY <1>1, <2>3, <2>5 DEF GoesOn, Never, Days
  <2>7. RequestsAreShort'
    BY <1>1, <2>2, <2>3, <2>5, <2>6 DEF RequestsAreShort
  <2>8. EventsAreKept'
    BY <1>1, <2>3 DEF EventsAreKept
  <2>9. RollTypeOK'
    BY <1>1, <1>2, <2>2, <2>3, <2>5
  <2> QED BY <1>1, <2>3, <2>5, <2>7, <2>8, <2>9, DayGoesOn
<1>4. ASSUME NEW v \in Tours, MarkCheckout(v) PROVE RollInv'
  <2>1. PICK h \in Checkouts : request' = [request EXCEPT ![v] = [at |-> "insert", hit |-> h]]
    BY <1>4 DEF MarkCheckout
  <2>2. request' \in [Tours -> Request0] /\ \A w \in Tours \ {v} : request'[w] = request[w]
    BY <1>1, <2>1 DEF Request0, Hits
  <2>3. GoesOn(v) /\ UNCHANGED <<today, visit, event, ever, sale, daily, missed>>
    BY <1>4 DEF MarkCheckout
  <2>4. RequestsAreShort' /\ EventsAreKept'
    BY <1>1, <2>2, <2>3 DEF RequestsAreShort, GoesOn, EventsAreKept
  <2>5. RollTypeOK'
    BY <1>1, <1>2, <2>2, <2>3
  <2> QED BY <1>1, <2>3, <2>4, <2>5, DayGoesOn
<1>5. ASSUME NEW v \in Tours, InsertEvent(v) PROVE RollInv'
  <2> DEFINE h == request[v].hit
             new == IF \E e \in event : e.hit = h THEN {} ELSE {[hit |-> h, visit |-> v, day |-> today]}
  <2>1. /\ request[v].at = "insert" /\ event' = event \cup new /\ ever' = ever \cup new
        /\ request' = [request EXCEPT ![v].at = "flag"]
        /\ UNCHANGED <<today, visit, sale, daily, missed>>
    BY <1>5 DEF InsertEvent
  <2>2. request[v] \in Request0 /\ h \in Hits
    BY <1>1 DEF Request0
  <2>3. new \subseteq EventRows /\ \A e \in new : e.day = today
    BY <1>1, <2>2 DEF EventRows
  <2>4. request' \in [Tours -> Request0] /\ \A w \in Tours \ {v} : request'[w] = request[w]
    BY <1>1, <2>1 DEF Request0
  <2> HIDE DEF new
  <2>5. RequestsAreShort' /\ EventsAreKept'
    BY <1>1, <2>1, <2>4 DEF RequestsAreShort, EventsAreKept
  <2>6. RollTypeOK'
    BY <1>1, <1>2, <2>1, <2>3, <2>4
  <2> QED BY <1>1, <2>1, <2>3, <2>5, <2>6, DayGoesOn
<1>6. ASSUME NEW v \in Tours, FlagVisit(v) PROVE RollInv'
  <2>1. /\ request[v].at = "flag"
        /\ visit' = [visit EXCEPT ![v].flags = @ \cup {FlagOf(request[v].hit)}]
        /\ request' = [request EXCEPT ![v] = NoRequest]
        /\ UNCHANGED <<today, event, ever, sale, daily, missed>>
    BY <1>6 DEF FlagVisit
  <2>2. FlagOf(request[v].hit) \in SessionFlags /\ visit[v] \in Visit0
    BY <1>1 DEF FlagOf, SessionFlags
  <2>3. /\ visit' \in [Tours -> Visit0] /\ \A w \in Tours \ {v} : visit'[w] = visit[w]
        /\ visit'[v].began = visit[v].began
    BY <1>1, <2>1, <2>2 DEF Visit0
  <2>4. /\ request' \in [Tours -> Request0] /\ \A w \in Tours \ {v} : request'[w] = request[w]
        /\ request'[v].at = "rest"
    BY <1>1, <2>1, HitsAreThere DEF Request0
  <2>5. visit[v].began # Never /\ today - visit[v].began <= MaxOver
    BY <1>1, <2>1 DEF RequestsAreShort
  <2>6. RequestsAreShort' /\ EventsAreKept'
    BY <1>1, <2>1, <2>3, <2>4 DEF RequestsAreShort, EventsAreKept
  <2>7. RollTypeOK'
    BY <1>1, <1>2, <2>1, <2>3, <2>4
  <2> QED BY <1>1, <2>1, <2>3, <2>5, <2>6, <2>7, DayGoesOn
<1>7. ASSUME NEW v \in Tours, VisitRequestIsLost(v) PROVE RollInv'
  <2>1. /\ request' = [request EXCEPT ![v] = NoRequest]
        /\ UNCHANGED <<today, visit, event, ever, sale, daily, missed>>
    BY <1>7 DEF VisitRequestIsLost
  <2>2. /\ request' \in [Tours -> Request0] /\ \A w \in Tours \ {v} : request'[w] = request[w]
        /\ request'[v].at = "rest"
    BY <1>1, <2>1, HitsAreThere DEF Request0
  <2>3. RequestsAreShort' /\ EventsAreKept'
    BY <1>1, <2>1, <2>2 DEF RequestsAreShort, EventsAreKept
  <2>4. RollTypeOK'
    BY <1>1, <1>2, <2>1, <2>2
  <2> QED BY <1>1, <2>1, <2>3, <2>4, DayGoesOn
<1>8. ASSUME NEW o \in Conversions, Convert(o) PROVE RollInv'
  <2>1. PICK d \in Days : d <= today /\ today - d <= MaxOver /\ sale' = [sale EXCEPT ![o] = d]
    BY <1>8 DEF Convert
  <2>2. sale[o] = Never /\ UNCHANGED <<today, visit, request, event, ever, daily, missed>>
    BY <1>8 DEF Convert
  <2>3. /\ sale' \in [Conversions -> Days \cup {Never}] /\ sale'[o] = d
        /\ \A c \in Conversions \ {o} : sale'[c] = sale[c]
    BY <1>1, <2>1
  <2>4. RequestsAreShort' /\ EventsAreKept'
    BY <1>1, <2>2 DEF RequestsAreShort, EventsAreKept
  <2>5. RollTypeOK'
    BY <1>1, <1>2, <2>2, <2>3
  <2> QED BY <1>1, <2>1, <2>2, <2>3, <2>4, <2>5, DayGoesOn
<1>9. CASE RollupRecent
  <2>1. PICK first \in RecentDays :
          /\ daily' = [d \in Days |-> IF d \in RecentDays /\ d >= first THEN Count(d, event) ELSE daily[d]]
          /\ missed' = IF \E d \in RecentDays : d < first THEN missed ELSE 0
    BY <1>9 DEF RollupRecent
  <2>2. UNCHANGED <<today, visit, request, event, ever, sale>>
    BY <1>9 DEF RollupRecent
  <2>3. \A d \in Days : d \in RecentDays <=> d <= today /\ today - d < Window
    BY DEF RecentDays, LastDays
  <2>4. \A d \in Days : Count(d, ever)' = Count(d, ever)
    BY <2>2, CountStays
  <2>5. ASSUME NEW d \in Days, IsFinal(d)' PROVE daily'[d] = Count(d, ever)'
    <3>1. today \in Int /\ d \in Int /\ missed \in Int /\ missed >= 0 /\ missed <= MaxMissed + 1
          /\ today - missed' - d > MaxOver /\ d <= today /\ first \in Int
      BY <1>1, <2>1, <2>2, <2>5 DEF IsFinal, Days, RecentDays, LastDays
    <3>2. CASE d \in RecentDays /\ d >= first
      BY <2>1, <2>3, <2>4, <3>2, CountIsWhole
    <3>3. CASE ~(d \in RecentDays /\ d >= first)
      <4>1. daily'[d] = daily[d]
        BY <2>1, <3>3
      <4>2. IsFinal(d)
        <5>1. CASE missed' = missed
          BY <3>1, <5>1 DEF IsFinal
        <5>2. CASE missed' # missed
          <6>1. \A c \in RecentDays : c >= first
            BY <2>1, <5>2 DEF RecentDays, LastDays, Days
          <6>2. today - d >= Window
            BY <2>3, <3>1, <3>3, <6>1
          <6> QED BY <3>1, <6>2 DEF IsFinal
        <5> QED BY <5>1, <5>2
      <4> QED BY <1>1, <2>4, <4>1, <4>2 DEF FinalIsCounted
    <3> QED BY <3>2, <3>3
  <2>6. FinalIsCounted'
    BY <2>5 DEF FinalIsCounted
  <2>7. missed' \in 0..MaxMissed + 1 /\ DOMAIN daily' = Days /\ daily' = [d \in Days |-> daily'[d]]
    BY <1>1, <2>1
  <2>8. RequestsAreShort' /\ EventsAreKept'
    BY <1>1, <2>2 DEF RequestsAreShort, EventsAreKept
  <2>9. RollTypeOK'
    BY <1>1, <1>2, <2>2, <2>7
  <2> QED BY <2>6, <2>7, <2>8, <2>9 DEF RollInv
<1>10. CASE Midnight
  <2>1. /\ today < LastDay /\ missed <= MaxMissed /\ today' = today + 1 /\ missed' = missed + 1
        /\ \A v \in Tours : request[v].at = "rest" \/ today - visit[v].began < MaxOver
        /\ UNCHANGED <<visit, request, event, ever, sale, daily>>
    BY <1>10 DEF Midnight
  <2>2. today' \in Days /\ missed' \in 0..MaxMissed + 1
    BY <1>1, <2>1 DEF Days
  <2>3. RollTypeOK'
    BY <1>1, <1>2, <2>1, <2>2
  <2>4. \A v \in Tours : visit[v].began \in Int
    BY <1>1 DEF Visit0, Days, Never
  <2>5. RequestsAreShort'
    BY <1>1, <2>1, <2>4 DEF RequestsAreShort, Days
  <2>6. \A e \in ever : e.day \in Int
    BY <1>1 DEF EventRows, Days
  <2>7. EventsAreKept'
    BY <1>1, <2>1, <2>6 DEF EventsAreKept, Days
  <2>8. \A d \in Days : IsFinal(d)' <=> IsFinal(d)
    BY <1>1, <2>1 DEF IsFinal, Days
  <2>9. \A d \in Days : Count(d, ever)' = Count(d, ever)
    BY <2>1, CountStays
  <2>10. FinalIsCounted'
    BY <1>1, <2>1, <2>8, <2>9 DEF FinalIsCounted
  <2> QED BY <1>1, <2>1, <2>3, <2>5, <2>7, <2>10 DEF RollInv
<1>11. CASE PurgeEvents
  <2>1. PICK old \in SUBSET {e \in event : today - e.day >= EventDays} : event' = event \ old
    BY <1>11 DEF PurgeEvents
  <2>2. UNCHANGED <<today, visit, request, ever, sale, daily, missed>>
    BY <1>11 DEF PurgeEvents
  <2>3. \A e \in ever : today - e.day \in Int
    BY <1>1 DEF EventRows, Days
  <2>4. EventsAreKept' /\ RequestsAreShort'
    BY <1>1, <2>1, <2>2, <2>3 DEF EventsAreKept, RequestsAreShort
  <2>5. RollTypeOK'
    BY <1>1, <1>2, <2>1, <2>2
  <2> QED BY <1>1, <2>2, <2>4, <2>5, DayGoesOn
<1>12. CASE UNCHANGED rollVars
  <2>1. UNCHANGED <<today, visit, request, event, ever, sale, daily, missed>>
    BY <1>12 DEF rollVars
  <2>2. EventsAreKept' /\ RequestsAreShort' /\ RollTypeOK'
    BY <1>1, <1>2, <2>1 DEF EventsAreKept, RequestsAreShort
  <2> QED BY <1>1, <2>1, <2>2, DayGoesOn
<1> QED
  BY <1>3, <1>4, <1>5, <1>6, <1>7, <1>8, <1>9, <1>10, <1>11, <1>12, Zenon DEF RollNext

(* A day out of the window keeps what happened on it, for any window,      *)
(* retention and number of days, visits and payments, as long as runs are  *)
(* not missed for longer than the window allows.                           *)
THEOREM RollupsCorrect == RollSpec => [](RollTypeOK /\ ClosedDayIsComplete)
<1>1. ASSUME RollInv PROVE RollTypeOK /\ ClosedDayIsComplete
  <2> SUFFICES ASSUME NEW d \in Days, today - d >= Window PROVE daily[d] = Count(d, ever)
    BY <1>1 DEF RollInv, ClosedDayIsComplete
  <2>1. today \in Int /\ d \in Int /\ missed \in Int /\ missed <= MaxMissed + 1
    BY <1>1, RollupsAssumption DEF RollInv, RollTypeOK, Days
  <2>2. IsFinal(d)
    BY <2>1, RollupsAssumption DEF IsFinal
  <2> QED BY <1>1, <2>2 DEF RollInv, FinalIsCounted
<1> QED BY <1>1, RollInitially, RollSteps, PTL DEF RollSpec

-----------------------------------------------------------------------------
(* THE WHOLE.  A behaviour takes the steps of one component: what the      *)
(* others promise holds of the state they stay in.                         *)
LEMMA StorefrontStarts ==
  SfInit => /\ SuppInit /\ ImgInit /\ CacheInit /\ PubInit /\ AccInit /\ BackupsInit
            /\ AddrInit /\ RollInit /\ CartInit /\ CatInit /\ RatesInit /\ PurchaseInit
BY Zenon DEF SfInit

LEMMA StorefrontSteps ==
  ASSUME [SfNext]_<<part, suppVars, cartVars, rateVars, purchaseVars, catVars, imgVars,
                    cacheVars, pubVars, shopVars, accVars, addrVars, rollVars, bakVars>>
  PROVE  /\ [SuppNext]_suppVars /\ [CartNext]_cartVars /\ [RatesNext]_rateVars
         /\ [PurchaseNext]_purchaseVars /\ [CatNext]_catVars /\ [ImgNext]_imgVars
         /\ [CacheNext]_cacheVars /\ [PubNext]_pubVars /\ [ShopNext]_shopVars
         /\ [AccNext]_accVars /\ [AddrNext]_addrVars /\ [RollNext]_rollVars
         /\ [BackupsNext]_bakVars
BY DEF SfNext, AtRest

(* Every step of the whole is a step of each component or leaves it alone. *)
LEMMA StorefrontIsItsParts ==
  SfSpec => /\ SuppSpec /\ CartSpec /\ RatesSpec /\ PurchaseSpec /\ CatSpec /\ ImgSpec
            /\ CacheSpec /\ PubSpec /\ AccSpec /\ AddrSpec /\ RollSpec /\ BackupsSpec
BY StorefrontStarts, StorefrontSteps, PTL
   DEF SfSpec, SuppSpec, CartSpec, RatesSpec, PurchaseSpec, CatSpec, ImgSpec, CacheSpec, PubSpec,
       AccSpec, AddrSpec, RollSpec, BackupsSpec

(* The product list begins with any shelf in its own behaviours, and with  *)
(* an empty one in the others: its filter is exact in all of them.         *)
LEMMA ShopInWhole == SfSpec => [](ShopTypeOK /\ FilterIsExact)
<1>1. SfInit => ShopInv
  <2>1. CASE part = "catalogue"
    BY <2>1, ShopInitially DEF SfInit
  <2>2. ASSUME SfInit, part # "catalogue" PROVE ShopInv
    <3>1. shelf = {} /\ query = AnyQuery /\ answer = "none"
      BY <2>2 DEF SfInit
    <3>2. AnyQuery \in Query
      BY DEF AnyQuery, Query
    <3> QED BY <3>1, <3>2 DEF ShopInv, ShopTypeOK, FilterIsExact
  <2> QED BY <2>1, <2>2
<1>2. ShopInv => ShopTypeOK /\ FilterIsExact
  BY DEF ShopInv
<1> QED BY <1>1, <1>2, ShopSteps, StorefrontSteps, PTL DEF SfSpec

(* The types of all components' states, for any value of the constants.    *)
THEOREM StorefrontTypes == SfSpec => []SfTypeOK
<1>1. /\ SuppTypeOK /\ CartTypeOK /\ RatesTypeOK /\ PurchaseTypeOK /\ CatTypeOK /\ ImgTypeOK
      /\ CacheTypeOK /\ PubTypeOK /\ ShopTypeOK /\ AccTypeOK /\ AddrTypeOK /\ RollTypeOK
      /\ BackupsTypeOK
      => SfTypeOK
  BY Zenon DEF SfTypeOK
<1> QED BY <1>1, StorefrontIsItsParts, ShopInWhole, SupportCorrect, CartsCorrect, RatesCorrect,
           PurchaseCorrect, CategoryTypes, ImagesCorrect, CacheTypes, PublicationCorrect,
           AccountTypes, AddressesCorrect, RollupsCorrect, BackupsCorrect, PTL

(* In every behaviour of the whole a case is closed exactly while it has   *)
(* its closing time, and a request opens one case (support/services.py:29, *)
(* 111).                                                                   *)
THEOREM CasesStaySound == SfSpec => []CasesAreSound
BY StorefrontIsItsParts, SupportCorrect, PTL DEF CasesAreSound

(* A backup that was reported is there and whole while it is to be kept,   *)
(* and restored media have their database (backup.py:155, restore.py:117). *)
THEOREM BackupsStayWhole == SfSpec => []BackupsAreWhole
BY StorefrontIsItsParts, BackupsCorrect, PTL DEF BackupsAreWhole

(* A message's attachments are stored, and so are a picture and its        *)
(* derivatives while no other request writes over its row (support/        *)
(* storage.py:36, landing/models.py:275).                                  *)
THEOREM FilesStay == SfSpec => []FilesExist
BY StorefrontIsItsParts, SupportCorrect, ImagesCorrect, PTL DEF FilesExist

(* The categories are a forest that is not too deep, while no unlocked     *)
(* write overtakes its own check, and what is on sale has an active        *)
(* variant (catalog/services.py:28, models.py:43).                         *)
THEOREM CatalogueStaysSound == SfSpec => []CatalogueIsSound
BY StorefrontIsItsParts, CategoriesCorrect, PublicationCorrect, PTL DEF CatalogueIsSound

(* The other promises of the components hold of the whole as well.         *)
THEOREM StorefrontCorrect ==
  SfSpec => [](/\ UnitsWereAsked /\ OfferIsSound /\ ParcelsHoldOrder /\ ConfirmedIsAgreed
               /\ FilterIsExact /\ SellableHasVariant /\ ClosedDayIsComplete
               /\ FreshIsServed /\ GuessesAreFew)
BY StorefrontIsItsParts, ShopInWhole, CartsCorrect, RatesCorrect, PurchaseCorrect,
   AddressesCorrect, PublicationCorrect, RollupsCorrect, FreshPages, FewGuesses, PTL
=============================================================================
