------------------------------ MODULE Purchase ------------------------------
(***************************************************************************)
(* From a cart to an order (commerce/checkout.py and the quotes of         *)
(* commerce/shipping.py): a customer asks for a shipping quote, confirms   *)
(* the cart with it or for pickup, agrees a cost where no carrier is       *)
(* configured, and resumes an order that is not paid.                      *)
(*                                                                         *)
(* A quote is made in several statements, between which the cart may be    *)
(* edited, and is recognised by a fingerprint of lines, address and        *)
(* parcels.  Confirming locks the cart; resuming does not.  Prices and     *)
(* coupon stay: products cost the same.                                    *)
(***************************************************************************)
EXTENDS Integers, Sequences, FiniteSetsExt

CONSTANTS
  Products,    \* variants of the same price
  Places,      \* what a customer's address says
  Asks,        \* requests for a quote
  Quotes,      \* bound: quotes that are made
  Bought,      \* bound: orders that are made
  MaxUnits,    \* bound: units of a product in the cart
  MaxEdits,    \* bound: edits of the cart and of the address
  MaxTries,    \* bound: reservations of an order
  NoQuote, NoPlace

ASSUME PurchaseAssumption ==
  /\ NoQuote \notin Quotes /\ NoPlace \notin Places
  /\ MaxUnits \in Nat \ {0} /\ MaxEdits \in Nat /\ MaxTries \in Nat \ {0}

VARIABLES
  goods,    \* units of each product in the customer's cart
  place,    \* Address
  edits,    \* edits so far
  ask,      \* where each request is, and what it has read
  quote,    \* ShippingQuote rows; maker "none" is no row
  order     \* Order rows; status "none" is no row

purchaseVars == <<goods, place, edits, ask, quote, order>>

Contents == [Products -> 0..MaxUnits]
Empty == [p \in Products |-> 0]
UnitsOf(c) == MapThenSumSet(LAMBDA p : c[p], Products)
Fingerprint(c, a, parcels) == [lines |-> c, place |-> a, parcels |-> parcels]
NoPrint == Fingerprint(Empty, NoPlace, Empty)

NoAsk == [at |-> "rest", place |-> NoPlace, parcels |-> Empty, print |-> NoPrint, raced |-> FALSE]
Unquoted == [maker |-> "none", print |-> NoPrint, parcels |-> Empty,
             pending |-> FALSE, live |-> FALSE, raced |-> FALSE]
Unordered == [status |-> "none", items |-> Empty, place |-> NoPlace, quote |-> NoQuote,
              cost |-> "none", link |-> FALSE, checked |-> FALSE, reserved |-> <<>>]

-----------------------------------------------------------------------------
PurchaseInit ==
  /\ goods = Empty
  /\ place \in Places
  /\ edits = 0
  /\ ask = [a \in Asks |-> NoAsk]
  /\ quote = [q \in Quotes |-> Unquoted]
  /\ order = [o \in Bought |-> Unordered]

(* Any edit of the cart; a request that has packed it no longer has it.    *)
EditCart(p, n) ==
  /\ edits < MaxEdits /\ goods[p] # n
  /\ edits' = edits + 1
  /\ goods' = [goods EXCEPT ![p] = n]
  /\ ask' = [a \in Asks |-> IF ask[a].at = "packed" THEN [ask[a] EXCEPT !.raced = TRUE] ELSE ask[a]]
  /\ UNCHANGED <<place, quote, order>>

EditAddress(text) ==
  /\ edits < MaxEdits /\ place # text
  /\ edits' = edits + 1
  /\ place' = text
  /\ UNCHANGED <<goods, ask, quote, order>>

(* ShippingQuoteOptionsView reads the address, then the carriers.          *)
FetchAddress(a) ==
  /\ ask[a].at = "rest"
  /\ ask' = [ask EXCEPT ![a] = [NoAsk EXCEPT !.at = "fetched", !.place = place]]
  /\ UNCHANGED <<goods, place, edits, quote, order>>

(* _packed_quote_context packs the cart and then reads it again for the    *)
(* fingerprint.                                                            *)
PackCart(a) ==
  /\ ask[a].at = "fetched"
  /\ ask' = [ask EXCEPT ![a].at = "packed", ![a].parcels = goods]
  /\ UNCHANGED <<goods, place, edits, quote, order>>

(* A quote of the same fingerprint is used again while it is in force.     *)
Cached(maker, print) ==
  \E q \in Quotes : quote[q].maker = maker /\ quote[q].print = print /\ quote[q].live
                      /\ quote[q].pending = (maker = "manual")

PrintCart(a) ==
  LET print == Fingerprint(goods, ask[a].place, ask[a].parcels) IN
  /\ ask[a].at = "packed"
  /\ ask' = [ask EXCEPT ![a] =
       IF Cached("carrier", print) THEN NoAsk ELSE [@ EXCEPT !.at = "rate", !.print = print]]
  /\ UNCHANGED <<goods, place, edits, quote, order>>

Rate(a, q) ==
  /\ ask[a].at = "rate" /\ quote[q].maker = "none"
  /\ quote' = [quote EXCEPT ![q] = [maker |-> "carrier", print |-> ask[a].print, parcels |-> ask[a].parcels,
                                    pending |-> FALSE, live |-> TRUE, raced |-> ask[a].raced]]
  /\ ask' = [ask EXCEPT ![a] = NoAsk]
  /\ UNCHANGED <<goods, place, edits, order>>

(* The carrier does not answer, the cart cannot be packed, a crash.        *)
AskFails(a) ==
  /\ ask[a].at # "rest"
  /\ ask' = [ask EXCEPT ![a] = NoAsk]
  /\ UNCHANGED <<goods, place, edits, quote, order>>

(* _manual_shipping_quote, where no carrier is configured.                 *)
QuoteByHand(a, q) ==
  LET print == Fingerprint(goods, ask[a].place, Empty) IN
  /\ ask[a].at = "fetched"
  /\ quote' = IF Cached("manual", print) THEN quote
              ELSE [quote EXCEPT ![q] = [maker |-> "manual", print |-> print, parcels |-> Empty,
                                         pending |-> TRUE, live |-> TRUE, raced |-> FALSE]]
  /\ Cached("manual", print) \/ quote[q].maker = "none"
  /\ ask' = [ask EXCEPT ![a] = NoAsk]
  /\ UNCHANGED <<goods, place, edits, order>>

QuoteElapses(q) ==
  /\ quote[q].live
  /\ quote' = [quote EXCEPT ![q].live = FALSE]
  /\ UNCHANGED <<goods, place, edits, ask, order>>

(* _validate_shipping for an address: the cart has the quote's lines and   *)
(* the quote's own parcels.  The other form only asks if it has run out.   *)
AnyLiveQuote(q, at) == quote[q].live
QuoteFits(q, at) ==
  quote[q].live /\ quote[q].print = Fingerprint(goods, at, quote[q].parcels)

(* confirm_checkout under the locks of cart, address and quote: an order   *)
(* whose identity or cost is open reserves nothing yet.                    *)
Confirm(o, q, verified) ==
  /\ order[o].status = "none" /\ goods # Empty
  /\ quote[q].maker # "none" /\ QuoteFits(q, place)
  /\ LET placed == [Unordered EXCEPT !.items = goods, !.place = place, !.quote = q,
                       !.cost = IF quote[q].pending THEN "pending" ELSE "ready"]
     IN order' = [order EXCEPT ![o] =
          IF ~verified THEN [placed EXCEPT !.status = "review"]
          ELSE IF quote[q].pending THEN [placed EXCEPT !.status = "verified"]
          ELSE [placed EXCEPT !.status = "verified", !.link = TRUE, !.reserved = <<goods>>]]
  /\ UNCHANGED <<goods, place, edits, ask, quote>>

ConfirmPickup(o, verified) ==
  /\ order[o].status = "none" /\ goods # Empty
  /\ order' = [order EXCEPT ![o] =
       [Unordered EXCEPT !.items = goods, !.cost = "ready",
          !.status = IF verified THEN "verified" ELSE "review",
          !.link = verified, !.reserved = IF verified THEN <<goods>> ELSE <<>>]]
  /\ UNCHANGED <<goods, place, edits, ask, quote>>

ApproveIdentity(o) ==
  /\ order[o].status = "review"
  /\ order' = [order EXCEPT ![o].status = "approved"]
  /\ UNCHANGED <<goods, place, edits, ask, quote>>

(* resolve_manual_shipping_cost: the quote of the order gets its amount    *)
(* and another week, whichever orders share it.                            *)
AgreeCost(o) ==
  /\ order[o].cost = "pending" /\ order[o].reserved = <<>>
  /\ order' = [order EXCEPT ![o].cost = "ready"]
  /\ quote' = [quote EXCEPT ![order[o].quote].pending = FALSE, ![order[o].quote].live = TRUE]
  /\ UNCHANGED <<goods, place, edits, ask>>

LinkExpires(o) ==
  /\ order[o].link
  /\ order' = [order EXCEPT ![o].link = FALSE]
  /\ UNCHANGED <<goods, place, edits, ask, quote>>

(* resume_checkout, before it reserves: quote, amounts and coupon of the   *)
(* cart are those of the order.  It locks the order and not the cart.      *)
MayResume(o) ==
  /\ order[o].status \in {"verified", "approved"}
  /\ order[o].cost = "ready" /\ ~order[o].link
  /\ order[o].quote # NoQuote =>
       order[o].place = place /\ QuoteFits(order[o].quote, place) /\ ~quote[order[o].quote].pending
  /\ UnitsOf(goods) = UnitsOf(order[o].items)

CheckResume(o) ==
  /\ ~order[o].checked /\ MayResume(o)
  /\ order' = [order EXCEPT ![o].checked = TRUE]
  /\ UNCHANGED <<goods, place, edits, ask, quote>>

(* Then it reserves the lines the cart has now.                            *)
ReserveCart(o) ==
  /\ order[o].checked /\ Len(order[o].reserved) < MaxTries
  /\ order' = [order EXCEPT ![o].checked = FALSE, ![o].status = "verified", ![o].link = TRUE,
                            ![o].reserved = Append(@, goods)]
  /\ UNCHANGED <<goods, place, edits, ask, quote>>

ResumeFails(o) ==
  /\ order[o].checked
  /\ order' = [order EXCEPT ![o].checked = FALSE]
  /\ UNCHANGED <<goods, place, edits, ask, quote>>

PurchaseNext ==
  \/ \E p \in Products, n \in 0..MaxUnits : EditCart(p, n)
  \/ \E text \in Places : EditAddress(text)
  \/ \E a \in Asks :
       \/ FetchAddress(a) \/ PackCart(a) \/ PrintCart(a) \/ AskFails(a)
       \/ \E q \in Quotes : Rate(a, q) \/ QuoteByHand(a, q)
  \/ \E q \in Quotes : QuoteElapses(q)
  \/ \E o \in Bought :
       \/ \E q \in Quotes, verified \in BOOLEAN : Confirm(o, q, verified)
       \/ \E verified \in BOOLEAN : ConfirmPickup(o, verified)
       \/ ApproveIdentity(o) \/ AgreeCost(o) \/ LinkExpires(o)
       \/ CheckResume(o) \/ ReserveCart(o) \/ ResumeFails(o)

PurchaseSpec == PurchaseInit /\ [][PurchaseNext]_purchaseVars

-----------------------------------------------------------------------------
PurchaseTypeOK ==
  /\ goods \in Contents /\ place \in Places /\ edits \in 0..MaxEdits
  /\ \A a \in Asks : ask[a].at \in {"rest", "fetched", "packed", "rate"} /\ ask[a].parcels \in Contents
  /\ \A q \in Quotes : quote[q].maker \in {"none", "carrier", "manual"} /\ quote[q].parcels \in Contents
  /\ \A o \in Bought :
       /\ order[o].status \in {"none", "review", "approved", "verified"}
       /\ order[o].items \in Contents /\ order[o].quote \in Quotes \cup {NoQuote}
       /\ order[o].cost \in {"none", "pending", "ready"}
       /\ order[o].reserved \in Seq(Contents)

(* What a carrier will be sent is what the customer has bought: the        *)
(* parcels of an order's quote hold its items, however long ago and for    *)
(* whatever cart it was made, unless the cart was edited between the two   *)
(* reads of that quote (checkout.py:174, shipping.py:608).                 *)
ParcelsHoldOrder ==
  \A o \in Bought : order[o].status # "none" /\ order[o].quote # NoQuote =>
    LET q == quote[order[o].quote]
    IN q.maker = "carrier" /\ ~q.raced => q.parcels = order[o].items

(* checkout.py: an order is resumed with its own cart, otherwise "el       *)
(* carrito cambio y debe confirmarse nuevamente"; what is reserved for it  *)
(* is what it sells.                                                       *)
ReservedAreItsItems ==
  \A o \in Bought : \A i \in DOMAIN order[o].reserved : order[o].reserved[i] = order[o].items
=============================================================================
