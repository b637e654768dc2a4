------------------------------ MODULE Accounts ------------------------------
(***************************************************************************)
(* The account of one email address: registration, its verification code   *)
(* and sign-in (api_views.py, accounts/services.py, accounts/models.py).   *)
(* No other code is issued, so one challenge stands for all.               *)
(***************************************************************************)
EXTENDS Integers

CONSTANTS
  People,       \* requests of people who use the address
  MaxAttempts   \* MAX_VERIFICATION_ATTEMPTS

ASSUME AccountsAssumption == MaxAttempts \in Nat \ {0}

VARIABLES
  account,    \* "none", "unverified" or "verified"
  linked,     \* it has a Google identity
  challenge,  \* the code, which is issued at most once
  guess,      \* what each request is doing
  wrong,      \* wrong codes that have been answered
  mailed      \* email verification is required

accVars == <<account, linked, challenge, guess, wrong, mailed>>

NoCode == [issued |-> FALSE, attempts |-> 0, open |-> FALSE]
NoGuess == [at |-> "idle", attempts |-> 0]

AccInit ==
  /\ account = "none" /\ linked = FALSE
  /\ challenge = NoCode
  /\ guess = [g \in People |-> NoGuess]
  /\ wrong = 0
  /\ mailed = TRUE

-----------------------------------------------------------------------------
Now(g, step) == guess' = [guess EXCEPT ![g] = [NoGuess EXCEPT !.at = step]]

(* RegisterView: no such account when it looked, and the unique constraint *)
(* refuses a second one; whether a code is required is read at the start.  *)
LookForEmail(g) ==
  /\ guess[g].at = "idle" /\ account = "none"
  /\ \E step \in {IF mailed THEN "register" ELSE "admit", "google"} : Now(g, step)
  /\ UNCHANGED <<account, linked, challenge, wrong, mailed>>

CreateAccount(g) ==
  /\ account = "none"
  /\ \/ guess[g].at = "register" /\ account' = "unverified" /\ Now(g, "issue")
     \/ guess[g].at = "admit" /\ account' = "verified" /\ Now(g, "idle")
  /\ UNCHANGED <<linked, challenge, wrong, mailed>>

(* The challenge is issued in a transaction of its own.                    *)
IssueCode(g) ==
  /\ guess[g].at = "issue"
  /\ challenge' = [issued |-> TRUE, attempts |-> 0, open |-> TRUE]
  /\ Now(g, "idle")
  /\ UNCHANGED <<account, linked, wrong, mailed>>

(* GoogleAuthenticationView, of an account that is new or not.             *)
SignInWithGoogle(g) ==
  /\ \/ guess[g].at = "google" /\ account = "none"
     \/ guess[g].at = "idle" /\ account # "none"
  /\ account' = "verified" /\ linked' = TRUE
  /\ Now(g, "idle")
  /\ UNCHANGED <<challenge, wrong, mailed>>

(* ensure_email_verified_when_delivery_is_unavailable                      *)
SignIn(g) ==
  /\ guess[g].at = "idle" /\ account = "unverified" /\ ~mailed
  /\ account' = "verified"
  /\ UNCHANGED <<linked, challenge, guess, wrong, mailed>>

(* The administrator turns the delivery of email on or off.                *)
SetDelivery ==
  /\ mailed' = ~mailed
  /\ UNCHANGED <<account, linked, challenge, guess, wrong>>

-----------------------------------------------------------------------------
(* consume_email_verification_challenge locks the challenge before it      *)
(* reads the count; the other form reads it as it finds it.                *)
Guessing == \E g \in People : guess[g].at = "guess"
MayReadAtOnce(g) == challenge.open
MayRead(g) == challenge.open /\ ~Guessing

ReadChallenge(g) ==
  /\ guess[g].at = "idle" /\ MayRead(g)
  /\ guess' = [guess EXCEPT ![g] = [at |-> "guess", attempts |-> challenge.attempts]]
  /\ UNCHANGED <<account, linked, challenge, wrong, mailed>>

(* The code is closed at the last attempt; the other form allows one more. *)
OneMore(count) == count <= MaxAttempts
MayGoOn(count) == count < MaxAttempts

WrongCode(g) ==
  LET count == guess[g].attempts + 1 IN
  /\ guess[g].at = "guess"
  /\ challenge' = [challenge EXCEPT !.attempts = count, !.open = @ /\ MayGoOn(count)]
  /\ wrong' = wrong + 1
  /\ Now(g, "idle")
  /\ UNCHANGED <<account, linked, mailed>>

RightCode(g) ==
  /\ guess[g].at = "guess"
  /\ challenge' = [challenge EXCEPT !.open = FALSE]
  /\ account' = "verified"
  /\ Now(g, "idle")
  /\ UNCHANGED <<linked, wrong, mailed>>

(* Its time is over, or the task has consumed it.                          *)
ExpireCode ==
  /\ challenge.open /\ ~Guessing
  /\ challenge' = [challenge EXCEPT !.open = FALSE]
  /\ UNCHANGED <<account, linked, guess, wrong, mailed>>

(* The request fails, or ends with "email_already_registered".             *)
GiveUp(g) ==
  /\ guess[g].at # "idle"
  /\ Now(g, "idle")
  /\ UNCHANGED <<account, linked, challenge, wrong, mailed>>

AccNext ==
  \/ \E g \in People :
       \/ LookForEmail(g) \/ CreateAccount(g) \/ IssueCode(g) \/ SignInWithGoogle(g) \/ SignIn(g)
       \/ ReadChallenge(g) \/ WrongCode(g) \/ RightCode(g) \/ GiveUp(g)
  \/ SetDelivery \/ ExpireCode

AccSpec == AccInit /\ [][AccNext]_accVars

-----------------------------------------------------------------------------
AccTypeOK ==
  /\ account \in {"none", "unverified", "verified"} /\ linked \in BOOLEAN
  /\ challenge \in [issued : BOOLEAN, attempts : 0..MaxAttempts, open : BOOLEAN]
  /\ guess \in [People -> [at : {"idle", "register", "admit", "google", "issue", "guess"},
                           attempts : 0..MaxAttempts]]
  /\ wrong \in Nat /\ mailed \in BOOLEAN

(* A code is compared with so many wrong ones and no more, however many    *)
(* requests bring one at once (accounts/services.py:19-40).                *)
GuessesAreFew == wrong <= MaxAttempts
=============================================================================
