------------------------------- MODULE Carts -------------------------------
(***************************************************************************)
(* Carts before the checkout (commerce/services.py, CartView): visitors    *)
(* fill anonymous carts that a signed token names, a login merges one into *)
(* the cart of the account.                                                *)
(*                                                                         *)
(* Lines are added, set and merged under the lock of the cart, which a     *)
(* merge deletes.  Removing lines locks nothing, clearing takes two        *)
(* transactions, and a coupon is refused by a copy of the cart read        *)
(* before the lock.                                                        *)
(***************************************************************************)
EXTENDS Integers, FiniteSetsExt

CONSTANTS
  Visitors,   \* anonymous carts, by their token
  Account,    \* the cart of the user who logs in
  Variants,   \* variants in the catalogue
  CartCoupons,\* coupons in force
  CartCalls,  \* requests under way
  MaxLine,    \* settings.MAX_CART_LINE_QUANTITY
  MaxStock,   \* bound: stock and purchase limit of a variant
  MaxAsked,   \* bound: units asked for
  NoCart, Bare \* no cart, no coupon

ASSUME CartsAssumption ==
  /\ Account \notin Visitors /\ NoCart \notin Visitors \cup {Account} /\ Bare \notin CartCoupons
  /\ MaxLine \in Nat \ {0} /\ MaxStock \in Nat /\ MaxAsked \in Nat

VARIABLES
  there,   \* carts with a row
  past,    \* carts whose row is deleted
  lines,   \* CartLine.quantity, 0 where there is no line
  coupon,  \* Cart.coupon
  limit,   \* purchase_quantity_limit of each variant
  asked,   \* units the requests asked for, less those they gave back
  call     \* where each request is, and the copy of the cart it has read

cartVars == <<there, past, lines, coupon, limit, asked, call>>

AllCarts == Visitors \cup {Account}
IdleCall == [at |-> "rest", cart |-> NoCart, copy |-> Bare]
Lesser(a, b) == IF a < b THEN a ELSE b

-----------------------------------------------------------------------------
CartInit ==
  /\ there = {} /\ past = {}
  /\ lines = [c \in AllCarts |-> [v \in Variants |-> 0]]
  /\ coupon = [c \in AllCarts |-> Bare]
  /\ limit \in [Variants -> 0..MaxStock]
  /\ asked = [v \in Variants |-> 0]
  /\ call = [r \in CartCalls |-> IdleCall]

(* CartView._cart: a visitor's first request creates a cart, a customer's  *)
(* gets the one there is or creates it.                                    *)
Visit(c) ==
  /\ c \notin there \cup past
  /\ there' = there \cup {c}
  /\ UNCHANGED <<past, lines, coupon, limit, asked, call>>

(* validate_purchase_quantity                                              *)
MayHold(v, quantity) == quantity <= MaxLine /\ quantity <= limit[v]

AddLine(c, v, quantity) ==
  LET requested == lines[c][v] + quantity IN
  /\ c \in there
  /\ MayHold(v, requested)
  /\ asked[v] + quantity <= MaxAsked
  /\ lines' = [lines EXCEPT ![c][v] = requested]
  /\ asked' = [asked EXCEPT ![v] = @ + quantity]
  /\ UNCHANGED <<there, past, coupon, limit, call>>

SetQuantity(c, v, quantity) ==
  /\ c \in there /\ lines[c][v] > 0
  /\ quantity > 0 => MayHold(v, quantity)
  /\ asked[v] - lines[c][v] + quantity <= MaxAsked
  /\ lines' = [lines EXCEPT ![c][v] = quantity]
  /\ asked' = [asked EXCEPT ![v] = @ - lines[c][v] + quantity]
  /\ UNCHANGED <<there, past, coupon, limit, call>>

(* CartView.delete of one variant, or of all lines and then of the coupon. *)
RemoveLine(c, v) ==
  /\ c \in there /\ lines[c][v] > 0
  /\ lines' = [lines EXCEPT ![c][v] = 0]
  /\ asked' = [asked EXCEPT ![v] = @ - lines[c][v]]
  /\ UNCHANGED <<there, past, coupon, limit, call>>

ClearLines(r, c) ==
  /\ call[r].at = "rest" /\ c \in there
  /\ lines' = [lines EXCEPT ![c] = [v \in Variants |-> 0]]
  /\ asked' = [v \in Variants |-> asked[v] - lines[c][v]]
  /\ call' = [call EXCEPT ![r] = [at |-> "clear", cart |-> c, copy |-> Bare]]
  /\ UNCHANGED <<there, past, coupon, limit>>

ClearCoupon(r) ==
  /\ call[r].at = "clear"
  /\ coupon' = IF call[r].cart \in there THEN [coupon EXCEPT ![call[r].cart] = Bare] ELSE coupon
  /\ call' = [call EXCEPT ![r] = IdleCall]
  /\ UNCHANGED <<there, past, lines, limit, asked>>

(* apply_coupon refuses by the copy of the cart that the view has read.    *)
ReadCart(r, c) ==
  /\ call[r].at = "rest" /\ c \in there
  /\ call' = [call EXCEPT ![r] = [at |-> "coupon", cart |-> c, copy |-> coupon[c]]]
  /\ UNCHANGED <<there, past, lines, coupon, limit, asked>>

ApplyCoupon(r, code) ==
  /\ call[r].at = "coupon"
  /\ coupon' = IF call[r].copy = Bare /\ call[r].cart \in there
                 THEN [coupon EXCEPT ![call[r].cart] = code] ELSE coupon
  /\ call' = [call EXCEPT ![r] = IdleCall]
  /\ UNCHANGED <<there, past, lines, limit, asked>>

(* A login reads the cart of its token before it merges; a cart that is    *)
(* gone is passed over.                                                    *)
LogIn(r, c) ==
  /\ call[r].at = "rest" /\ c \in there \cap Visitors
  /\ there' = there \cup {Account}
  /\ call' = [call EXCEPT ![r] = [at |-> "merge", cart |-> c, copy |-> Bare]]
  /\ UNCHANGED <<past, lines, coupon, limit, asked>>

(* merge_carts: what a line takes of both carts.                           *)
Accepted(v, source, target) == Lesser(Lesser(source + target, MaxLine), limit[v])

(* The rows that remain: the source is deleted with its lines.  The other  *)
(* form keeps it.                                                          *)
KeepsSource(source) == there
Remaining(source) == there \ {source}

Merge(r) ==
  LET source == call[r].cart IN
  /\ call[r].at = "merge"
  /\ call' = [call EXCEPT ![r] = IdleCall]
  /\ IF source \notin there THEN UNCHANGED <<there, past, lines, coupon>>
     ELSE /\ there' = Remaining(source)
          /\ past' = past \cup {source}
          /\ lines' = [lines EXCEPT
               ![Account] = [v \in Variants |->
                  IF lines[source][v] = 0 THEN lines[Account][v]
                  ELSE Accepted(v, lines[source][v], lines[Account][v])]]
          /\ coupon' = [coupon EXCEPT
               ![Account] = IF @ = Bare THEN coupon[source] ELSE @]
  /\ UNCHANGED <<limit, asked>>

(* Stock is sold, counted or released, a limit is changed.                 *)
LimitMoves(v, n) ==
  /\ limit' = [limit EXCEPT ![v] = n]
  /\ UNCHANGED <<there, past, lines, coupon, asked, call>>

CartNext ==
  \/ \E c \in AllCarts : Visit(c)
  \/ \E c \in AllCarts, v \in Variants :
       \/ RemoveLine(c, v)
       \/ \E n \in 1..MaxAsked : AddLine(c, v, n)
       \/ \E n \in 0..MaxAsked : SetQuantity(c, v, n)
  \/ \E r \in CartCalls :
       \/ ClearCoupon(r) \/ Merge(r)
       \/ \E c \in AllCarts : ClearLines(r, c) \/ ReadCart(r, c) \/ LogIn(r, c)
       \/ \E code \in CartCoupons : ApplyCoupon(r, code)
  \/ \E v \in Variants, n \in 0..MaxStock : LimitMoves(v, n)

CartSpec == CartInit /\ [][CartNext]_cartVars

-----------------------------------------------------------------------------
CartTypeOK ==
  /\ there \subseteq AllCarts /\ past \subseteq AllCarts
  /\ lines \in [AllCarts -> [Variants -> Nat]]
  /\ coupon \in [AllCarts -> CartCoupons \cup {Bare}]
  /\ limit \in [Variants -> 0..MaxStock]
  /\ asked \in [Variants -> Int]
  /\ call \in [CartCalls -> [at : {"rest", "clear", "coupon", "merge"},
                             cart : AllCarts \cup {NoCart}, copy : CartCoupons \cup {Bare}]]

UnitsIn(v) == SumFunctionOnSet([c \in AllCarts |-> lines[c][v]], there)

(* Logins that overlap or are repeated, merges and the requests around     *)
(* them: the carts never hold units nobody asked for (services.py:399).    *)
UnitsWereAsked == \A v \in Variants : UnitsIn(v) <= asked[v]
=============================================================================
