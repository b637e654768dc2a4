----------------------------- MODULE Addresses -----------------------------
(***************************************************************************)
(* A customer's delivery address (locations/services.py, providers.py and  *)
(* the views of api_views.py): it is written, looked for on the map by     *)
(* GeoRef and OpenStreetMap, its pin is moved, and it is confirmed, by     *)
(* requests of several tabs that may overlap.  The checkout takes an       *)
(* address that no longer needs review.                                    *)
(*                                                                         *)
(* Only confirm_address locks the row.  The others read it, ask a provider *)
(* and write: the geocoders and the pin the columns that follow from the   *)
(* answer, an edit the whole row as it was read, with the columns that the *)
(* customer gives, which may be the coordinates and what the geocoder said *)
(* of them (AddressSerializer), and with the review as it was.  Places are *)
(* metres along a line; the two geocoders are one, as no code here tells   *)
(* them apart, and of their summary only a precision of "locality" counts. *)
(***************************************************************************)
EXTENDS Integers, FiniteSets

CONSTANTS
  Tabs,      \* the customer's requests
  Metres,    \* places on the map
  NoPoint    \* no coordinates

ASSUME AddressesAssumption == Metres \subseteq Nat /\ NoPoint \notin Metres

VARIABLES
  address,   \* the row, and two columns of history that no action reads
  tab        \* where each request is, and what it keeps of the row that it read

addrVars == <<address, tab>>

Points == Metres \cup {NoPoint}
Sources == {"", "manual", "geocoder"}
AskKinds == {"edit", "geocode", "pin", "confirm"}

(* History: the customer has pointed at the place, or set it in an edit    *)
(* ("agreed"), and an edit has set the place or the summary since they     *)
(* were last found or pinned ("edited").                                   *)
Written(place, rough) ==
  [exists |-> TRUE, place |-> place, source |-> "", rough |-> rough, review |-> TRUE,
   agreed |-> place # NoPoint, edited |-> place # NoPoint \/ rough]

NewAddress == Written(NoPoint, FALSE)
Closed == [at |-> "rest", copy |-> NewAddress]

AddrInit ==
  /\ \E place \in Points, rough \in BOOLEAN : address = Written(place, rough)
  /\ tab = [t \in Tabs |-> Closed]

Distance(p, q) == IF p < q THEN q - p ELSE p - q
IsWithin(p, q, metres) == Distance(p, q) <= metres

(* Each request begins by reading the row, and keeps of it what it uses.   *)
Copied(kind) ==
  CASE kind = "edit"    -> address
    [] kind = "geocode" -> NewAddress
    [] kind = "pin"     -> [NewAddress EXCEPT !.place = address.place]
    [] kind = "confirm" -> [NewAddress EXCEPT !.place = address.place, !.source = address.source,
                                              !.rough = address.rough]

OpenRequest(t, kind) ==
  /\ tab[t].at = "rest" /\ address.exists
  /\ tab' = [tab EXCEPT ![t] = [at |-> kind, copy |-> Copied(kind)]]
  /\ UNCHANGED address

Close(t) == tab' = [tab EXCEPT ![t] = Closed]

(* PATCH: the copy with what is given, or the same, for the coordinates    *)
(* and the summary.  It inserts a row that has been deleted.               *)
Edit(t) ==
  /\ tab[t].at = "edit"
  /\ LET copy == tab[t].copy IN
     \E place \in Points, rough \in BOOLEAN :
       address' = [copy EXCEPT !.place = place, !.rough = rough,
                     !.agreed = @ \/ place # copy.place,
                     !.edited = @ \/ place # copy.place \/ rough # copy.rough]
  /\ Close(t)

(* GeoRef knows the number or only the locality; in that case OpenStreetMap*)
(* is asked, which gives the exact number or, busy, unknown or without it, *)
(* nothing.                                                                *)
Answers == [place : Metres, rough : BOOLEAN]

Geocode(t) ==
  /\ tab[t].at = "geocode" /\ address.exists
  /\ \E found \in Answers :
       address' = [address EXCEPT !.place = found.place, !.source = "geocoder", !.rough = found.rough,
                     !.review = TRUE, !.agreed = FALSE, !.edited = FALSE]
  /\ Close(t)

(* reverse_geocode_pin compares the new place with the one it has read.    *)
MovedFar(old, new) == old # NoPoint /\ ~IsWithin(old, new, 150)

MovePin(t) ==
  /\ tab[t].at = "pin" /\ address.exists
  /\ \E place \in Metres :
       address' = [address EXCEPT !.place = place, !.source = "manual", !.rough = FALSE,
                     !.review = MovedFar(tab[t].copy.place, place),
                     !.agreed = TRUE, !.edited = FALSE]
  /\ Close(t)

(* confirm_address reads the row again under its lock, and looks at what it*)
(* finds; the other form looks at the copy that the view had read.         *)
LockedRow(copy) == address
CopyOfView(copy) == copy
LookedAt(copy) == LockedRow(copy)

MayConfirm(row, place, choice) ==
  /\ row.source # "" /\ row.place # NoPoint
  /\ ~(row.source = "geocoder" /\ row.rough)
  /\ IsWithin(row.place, place, 2)
  /\ choice = "written" \/ row.source = "manual"

ConfirmAddress(t) ==
  /\ tab[t].at = "confirm" /\ address.exists
  /\ \E place \in Metres, choice \in {"written", "reverse"} :
       /\ MayConfirm(LookedAt(tab[t].copy), place, choice)
       /\ address' = [address EXCEPT !.review = FALSE,
                        !.agreed = address.place # NoPoint /\ IsWithin(address.place, place, 2)]
  /\ Close(t)

(* A provider fails, a confirmation is refused, a request is lost.         *)
RequestFails(t) ==
  /\ tab[t].at # "rest" /\ Close(t)
  /\ UNCHANGED address

DeleteAddress ==
  /\ address.exists
  /\ address' = [NewAddress EXCEPT !.exists = FALSE]
  /\ UNCHANGED tab

AddrNext ==
  \/ \E t \in Tabs :
       \/ \E kind \in AskKinds : OpenRequest(t, kind)
       \/ Edit(t) \/ Geocode(t) \/ MovePin(t) \/ ConfirmAddress(t) \/ RequestFails(t)
  \/ DeleteAddress

AddrSpec == AddrInit /\ [][AddrNext]_addrVars

AddressRows ==
  [exists : BOOLEAN, place : Points, source : Sources, rough : BOOLEAN, review : BOOLEAN,
   agreed : BOOLEAN, edited : BOOLEAN]

AddrTypeOK ==
  /\ address \in AddressRows
  /\ tab \in [Tabs -> [at : AskKinds \cup {"rest"}, copy : AddressRows]]

(* The place of an address that the checkout takes is one that the customer*)
(* pointed at, in confirming it, moving the pin or editing it, and, unless *)
(* an edit set it, that of the door and not the middle of a town: whatever *)
(* lookups, moves and edits overlap, with whatever copies                  *)
(* (locations/services.py:142, :115).                                      *)
ConfirmedIsAgreed ==
  ~address.review =>
    /\ address.agreed /\ address.source # ""
    /\ ~address.edited => address.place # NoPoint /\ ~address.rough
=============================================================================
