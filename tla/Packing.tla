------------------------------- MODULE Packing -------------------------------
(***************************************************************************)
(* How a cart is packed for a carrier (commerce/packing.py): its units,    *)
(* largest first, go into the smallest free space of the first parcel that *)
(* takes them, or into a new parcel of the smallest box that does.  A unit *)
(* splits its space into three.                                            *)
(*                                                                         *)
(* A job is one input of pack_items; a behaviour packs it once.            *)
(***************************************************************************)
EXTENDS Integers, Sequences, FiniteSetsExt, Functions, SequencesExt

CONSTANTS
  Skus,      \* an initial part of the naturals, ordered as SKUs are
  Sides,     \* bound: lengths of sides
  Weights,   \* bound: weights of a unit
  MaxOfSku,  \* bound: units of a SKU, settings.MAX_CART_LINE_QUANTITY
  Boxes      \* enabled boxes, in the order of volume, maximal weight, code

ASSUME PackingAssumption ==
  /\ Skus \subseteq Nat /\ IsFiniteSet(Skus) /\ MaxOfSku \in Nat
  /\ Sides \subseteq Nat \ {0} /\ Weights \subseteq Nat
  /\ Boxes \in Seq([sides : [1..3 -> Nat], tare : Nat, max : Nat])

VARIABLES
  job,     \* the items of the cart in the order they are read
  packed   \* the parcels; no success before it is packed and if it cannot be

packVars == <<job, packed>>

Volume(s) == s[1] * s[2] * s[3]
Item == [sku : Skus, sides : [1..3 -> Sides], weight : Weights, quantity : 1..MaxOfSku]

(* Lexicographic order of sequences of the same length.                    *)
Precedes(s, t) == \E i \in DOMAIN s : s[i] < t[i] /\ \A j \in 1..(i - 1) : s[j] = t[j]

(* list.sort: the places of a list, or of a set, in the order of their    *)
(* keys.  A key ends with its place, as equal elements keep their order.   *)
Ordering(key) ==
  LET earlier(x) == {y \in DOMAIN key : Precedes(key[y], key[x])}
  IN [r \in 1..Cardinality(DOMAIN key) |->
        CHOOSE x \in DOMAIN key : Cardinality(earlier(x)) = r - 1]

(* The key of a copy u of an item: its volume, its sides from the longest, *)
(* its SKU and its weight.  The other form sorts by volume alone.          *)
Rotations(s) == {<<s[q[1]], s[q[2]], s[q[3]]>> :
                   q \in {p \in [1..3 -> 1..3] : p[1] # p[2] /\ p[1] # p[3] /\ p[2] # p[3]}}
Longest(s) == CHOOSE r \in Rotations(s) : r[1] >= r[2] /\ r[2] >= r[3]
VolumeKey(item, u) == <<-Volume(item.sides), u[1], u[2]>>
UnitKey(item, u) ==
  LET l == Longest(item.sides)
  IN <<-Volume(item.sides), -l[1], -l[2], -l[3], item.sku, item.weight, u[1], u[2]>>

Copies(items) == {u \in (DOMAIN items) \X (1..MaxOfSku) : u[2] <= items[u[1]].quantity}
Units(items) ==
  LET order == Ordering([u \in Copies(items) |-> UnitKey(items[u[1]], u)])
  IN [r \in DOMAIN order |-> items[order[r][1]]]

(* _placement: the smallest space, then the first, then the first rotation *)
(* that fits; nothing over the box's weight.                               *)
FitsWeight(parcel, unit) == parcel.box.tare + parcel.weight + unit.weight <= parcel.box.max

Placements(parcel, unit) ==
  IF ~FitsWeight(parcel, unit) THEN {}
  ELSE {p \in {<<Volume(parcel.free[i]), i, r[1], r[2], r[3]>> :
                i \in DOMAIN parcel.free, r \in Rotations(unit.sides)} :
          \A d \in 1..3 : p[d + 2] <= parcel.free[p[2]][d]}

(* _place: of the space taken, those that are not empty of three spaces    *)
(* that do not overlap join the end of the others.                         *)
Residual(space, r) == <<<<space[1] - r[1], space[2], space[3]>>,
                        <<r[1], space[2] - r[2], space[3]>>,
                        <<r[1], r[2], space[3] - r[3]>>>>

Left(free, taken, r) ==
  LET rest == Residual(free[taken], r)
      kept == {d \in 1..3 : \A e \in 1..3 : rest[d][e] > 0}
  IN [i \in ((DOMAIN free) \ {taken}) \cup {Len(free) + d : d \in kept} |->
        IF i \in DOMAIN free THEN free[i] ELSE rest[i - Len(free)]]

Place(parcel, unit) ==
  LET best  == CHOOSE p \in Placements(parcel, unit) :
                 \A q \in Placements(parcel, unit) : ~Precedes(q, p)
      left  == Left(parcel.free, best[2], <<best[3], best[4], best[5]>>)
      order == Ordering([i \in DOMAIN left |->
                           <<Volume(left[i]), left[i][1], left[i][2], left[i][3], i>>])
  IN [box |-> parcel.box, free |-> [k \in DOMAIN order |-> left[order[k]]],
      units |-> Append(parcel.units, unit), weight |-> parcel.weight + unit.weight]

Open(box) == [box |-> box, free |-> <<box.sides>>, units |-> <<>>, weight |-> 0]

PlaceUnit(s, unit) ==
  LET taking  == {i \in DOMAIN s.parcels : Placements(s.parcels[i], unit) # {}}
      opening == {i \in DOMAIN Boxes : Placements(Open(Boxes[i]), unit) # {}}
  IN CASE ~s.success -> s
       [] s.success /\ taking # {} -> [s EXCEPT !.parcels[Min(taking)] = Place(@, unit)]
       [] s.success /\ taking = {} /\ opening # {} ->
            [s EXCEPT !.parcels = Append(@, Place(Open(Boxes[Min(opening)]), unit))]
       [] OTHER -> [success |-> FALSE, parcels |-> <<>>]

(* pack_items: nothing is packed without boxes.                            *)
Unpacked == [success |-> FALSE, parcels |-> <<>>]
PackItems(items) ==
  IF Boxes = <<>> THEN Unpacked
  ELSE FoldLeft(PlaceUnit, [success |-> TRUE, parcels |-> <<>>], Units(items))

-----------------------------------------------------------------------------
PackInit ==
  /\ job \in {s \in SeqOf(Item, Cardinality(Skus)) :
                \A i, j \in DOMAIN s : i # j => s[i].sku # s[j].sku}
  /\ packed = Unpacked

PackNext ==
  /\ packed = Unpacked
  /\ packed' = PackItems(job)
  /\ UNCHANGED job

PackSpec == PackInit /\ [][PackNext]_packVars

-----------------------------------------------------------------------------
(* The same cart is packed the same way however its lines are read.        *)
CartIsPackedOneWay ==
  \A p \in Bijection(DOMAIN job, DOMAIN job) : PackItems([i \in DOMAIN job |-> job[p[i]]]) = packed

(* The units and the free spaces of a parcel make up its box, its weight   *)
(* is within the box's; the parcels hold every unit of the cart once.      *)
ParcelIsWithinItsBox(p) ==
  /\ p.box.tare + SumFunction([i \in DOMAIN p.units |-> p.units[i].weight]) <= p.box.max
  /\ Volume(p.box.sides) = SumFunction([i \in DOMAIN p.units |-> Volume(p.units[i].sides)])
                            + SumFunction([i \in DOMAIN p.free |-> Volume(p.free[i])])

UnitsPacked(sku) ==
  SumFunction([i \in DOMAIN packed.parcels |->
    Cardinality({j \in DOMAIN packed.parcels[i].units : packed.parcels[i].units[j].sku = sku})])

ParcelsHoldTheCart ==
  /\ \A i \in DOMAIN packed.parcels : ParcelIsWithinItsBox(packed.parcels[i])
  /\ \A i \in DOMAIN job : UnitsPacked(job[i].sku) = job[i].quantity

(* A cart that can be packed is packed whole and within its boxes, and     *)
(* always the same way: its quote and its fingerprint do not depend on the *)
(* order a query gives its lines in (packing.py:63, 77, 100).              *)
PackingIsSound == packed.success => CartIsPackedOneWay /\ ParcelsHoldTheCart
=============================================================================
