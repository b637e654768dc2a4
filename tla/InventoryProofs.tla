--------------------------- MODULE InventoryProofs ---------------------------
(***************************************************************************)
(* Proofs about Inventory, for any number of variants, reservations and    *)
(* units: the type invariant, the ledger, the trail of a reservation, and  *)
(* that live reservations stay covered by the stock.                       *)
(***************************************************************************)
EXTENDS Inventory, FiniteSetTheorems, TLAPS

USE DEF Status, Kinds

(* The rows of one reservation record at most one more movement.           *)
LEMMA RecordedType ==
  ASSUME TypeOK, NEW S, NEW k \in Kinds
  PROVE  Recorded(S, k) \in [Reservations -> [Kinds -> Nat]]
  BY DEF Recorded, TypeOK

(* The column types hold in every state the inventory can reach            *)
(* (commerce/models.py); in particular on_hand never goes below zero.      *)
THEOREM TypeCorrect == Spec => []TypeOK
<1>1. Init => TypeOK
  BY InventoryAssumption DEF Init, TypeOK
<1>2. TypeOK /\ [Next]_vars => TypeOK'
  <2> SUFFICES ASSUME TypeOK, [Next]_vars PROVE TypeOK'
    OBVIOUS
  <2> USE InventoryAssumption DEF TypeOK
  <2>1. ASSUME NEW r \in Reservations, NEW q \in 1..MaxQuantity, Reserve(r, q)
        PROVE  TypeOK'
    <3> DEFINE v == VariantOf[r]
    <3>1. Recorded(Lapsed(v), "release") \in [Reservations -> [Kinds -> Nat]]
      BY RecordedType
    <3>2. moves' \in [Reservations -> [Kinds -> Nat]]
      BY <2>1, <3>1 DEF Reserve
    <3> QED BY <2>1, <3>2 DEF Reserve, stockVars
  <2>2. ASSUME NEW r \in Reservations, ConsumeLapsed(r) PROVE TypeOK'
    BY <2>2, RecordedType DEF ConsumeLapsed, stockVars, rowVars
  <2>3. ASSUME NEW r \in Reservations, Consume(r) PROVE TypeOK'
    <3> DEFINE v == VariantOf[r]
               taken == IF tracks[r] THEN quantity[r] ELSE 0
    <3>1. taken \in Nat /\ v \in Variants
      OBVIOUS
    <3>2. on_hand[v] - taken >= 0 /\ on_hand' = [on_hand EXCEPT ![v] = @ + -taken]
                                  /\ ledger' = [ledger EXCEPT ![v] = @ + -taken]
      BY <2>3 DEF Consume, Solvent, Moved
    <3>3. on_hand' \in [Variants -> Nat] /\ ledger' \in [Variants -> Int]
      BY <3>1, <3>2
    <3> QED BY <2>3, <3>3, RecordedType DEF Consume, rowVars
  <2>4. ASSUME NEW r \in Reservations, Release(r) PROVE TypeOK'
    BY <2>4, RecordedType DEF Release, stockVars, rowVars
  <2>5. ASSUME NEW r \in Reservations, Restock(r) PROVE TypeOK'
    BY <2>5, RecordedType DEF Restock, Moved, rowVars
  <2>6. ASSUME NEW r \in Reservations, Elapse(r) PROVE TypeOK'
    BY <2>6 DEF Elapse, stockVars, rowVars
  <2>7. ASSUME NEW v \in Variants, SetInfinite(v) PROVE TypeOK'
    BY <2>7 DEF SetInfinite, stockVars, rowVars
  <2>8. ASSUME NEW v \in Variants, NEW t \in Targets, Adjust(v, t) PROVE TypeOK'
    BY <2>8 DEF Adjust, Moved, rowVars
  <2>9. CASE SweepSelect
    BY <2>9 DEF SweepSelect, Expired, stockVars, rowVars
  <2>10. ASSUME NEW r \in Reservations, SweepRelease(r) PROVE TypeOK'
    <3>1. Recorded({r}, "release") \in [Reservations -> [Kinds -> Nat]]
      BY RecordedType
    <3>2. status' \in [Reservations -> Status] /\ moves' \in [Reservations -> [Kinds -> Nat]]
      BY <2>10, <3>1 DEF SweepRelease
    <3> QED BY <2>10, <3>2 DEF SweepRelease, stockVars, rowVars
  <2>11. CASE UNCHANGED vars
    BY <2>11 DEF vars
  <2> QED
    BY <2>1, <2>2, <2>3, <2>4, <2>5, <2>6, <2>7, <2>8, <2>9, <2>10, <2>11 DEF Next
<1> QED BY <1>1, <1>2, PTL DEF Spec

-----------------------------------------------------------------------------
(* on_hand is its opening level plus the sum of the movement rows, however *)
(* sales, refunds and corrections interleave: every write of on_hand goes  *)
(* with its InventoryMovement (services.py, payments.py, inventory.py).    *)
THEOREM LedgerCorrect == Spec => []LedgerBalances
<1>1. Init => LedgerBalances
  BY InventoryAssumption DEF Init, LedgerBalances
<1>2. TypeOK /\ LedgerBalances /\ [Next]_vars => LedgerBalances'
  <2> SUFFICES ASSUME TypeOK, LedgerBalances, [Next]_vars PROVE LedgerBalances'
    OBVIOUS
  <2>1. ASSUME NEW v \in Variants, NEW n \in Int, Moved(v, n) PROVE LedgerBalances'
    <3> SUFFICES ASSUME NEW w \in Variants
                 PROVE  on_hand'[w] = OpeningStock[w] + ledger'[w]
      BY DEF LedgerBalances
    <3>1. /\ OpeningStock[w] \in Int /\ on_hand[w] \in Int /\ ledger[w] \in Int
          /\ on_hand[w] = OpeningStock[w] + ledger[w]
      BY InventoryAssumption DEF LedgerBalances, TypeOK
    <3>2. /\ on_hand'[w] = IF w = v THEN on_hand[w] + n ELSE on_hand[w]
          /\ ledger'[w] = IF w = v THEN ledger[w] + n ELSE ledger[w]
      BY <2>1 DEF Moved, TypeOK
    <3> QED BY <3>1, <3>2
  <2>2. ASSUME UNCHANGED stockVars PROVE LedgerBalances'
    BY <2>2 DEF stockVars, LedgerBalances
  <2>3. ASSUME NEW r \in Reservations, NEW q \in 1..MaxQuantity, Reserve(r, q)
        PROVE  LedgerBalances'
    BY <2>2, <2>3 DEF Reserve
  <2>4. ASSUME NEW r \in Reservations, Consume(r) PROVE LedgerBalances'
    <3> DEFINE taken == IF tracks[r] THEN quantity[r] ELSE 0
    <3>1. -taken \in Int /\ VariantOf[r] \in Variants
      BY InventoryAssumption DEF TypeOK
    <3>2. Moved(VariantOf[r], -taken)
      BY <2>4 DEF Consume
    <3> QED BY <2>1, <3>1, <3>2
  <2>5. ASSUME NEW r \in Reservations, Restock(r) PROVE LedgerBalances'
    <3>1. quantity[r] \in Int /\ VariantOf[r] \in Variants
      BY InventoryAssumption DEF TypeOK
    <3>2. Moved(VariantOf[r], quantity[r])
      BY <2>5 DEF Restock
    <3> QED BY <2>1, <3>1, <3>2
  <2>6. ASSUME NEW v \in Variants, NEW t \in Targets, Adjust(v, t) PROVE LedgerBalances'
    <3>1. t - on_hand[v] \in Int
      BY InventoryAssumption DEF TypeOK
    <3>2. Moved(v, t - on_hand[v])
      BY <2>6 DEF Adjust
    <3> QED BY <2>1, <3>1, <3>2
  <2>7. ASSUME NEW r \in Reservations,
               ConsumeLapsed(r) \/ Release(r) \/ Elapse(r) \/ SweepRelease(r)
        PROVE  LedgerBalances'
    BY <2>2, <2>7 DEF ConsumeLapsed, Release, Elapse, SweepRelease
  <2>8. ASSUME NEW v \in Variants, SetInfinite(v) PROVE LedgerBalances'
    BY <2>2, <2>8 DEF SetInfinite
  <2>9. CASE SweepSelect
    BY <2>2, <2>9 DEF SweepSelect
  <2>10. CASE UNCHANGED vars
    BY <2>2, <2>10 DEF vars, stockVars
  <2> QED
    BY <2>3, <2>4, <2>5, <2>6, <2>7, <2>8, <2>9, <2>10 DEF Next
<1> QED BY <1>1, <1>2, TypeCorrect, PTL DEF Spec

-----------------------------------------------------------------------------
(* The part of the trail that concerns one reservation.                    *)
Trail(r) ==
  LET expected(b) == IF tracks[r] /\ b THEN 1 ELSE 0 IN
  /\ moves[r]["reservation"] = expected(status[r] # "none")
  /\ moves[r]["sale"] = expected(status[r] = "consumed")
  /\ moves[r]["release"] = expected(status[r] = "released")
  /\ moves[r]["refund"] > 0 => status[r] = "consumed"

(* The trail holds row by row.                                             *)
LEMMA TrailByRow == TrailTellsLife <=> \A r \in Reservations : Trail(r)
  BY DEF TrailTellsLife, Trail

(* Releasing the active reservations of a set, one movement each.          *)
LEMMA ReleaseKeepsTrail ==
  ASSUME TypeOK, NEW S, NEW x \in Reservations, Trail(x),
         x \in S => status[x] = "active",
         status'[x] = IF x \in S THEN "released" ELSE status[x],
         tracks'[x] = tracks[x],
         moves'[x] = Recorded(S, "release")[x]
  PROVE  Trail(x)'
  BY DEF Trail, Recorded, TypeOK

(* A row nobody touches keeps its trail.                                   *)
LEMMA IdleKeepsTrail ==
  ASSUME NEW x \in Reservations, Trail(x),
         status'[x] = status[x], tracks'[x] = tracks[x], moves'[x] = moves[x]
  PROVE  Trail(x)'
  BY DEF Trail

(* A reservation is logged once when made and once when it ends, as a sale *)
(* or a release and never both, whoever gets to it first: the payment, the *)
(* cancellation, the release task or another buyer's reservation           *)
(* (services.py: create_, consume_ and release_reservation).               *)
THEOREM TrailCorrect == Spec => []TrailTellsLife
<1>1. Init => TrailTellsLife
  BY DEF Init, TrailTellsLife
<1>2. TypeOK /\ TrailTellsLife /\ [Next]_vars => TrailTellsLife'
  <2> SUFFICES ASSUME TypeOK, TrailTellsLife, [Next]_vars,
                      NEW x \in Reservations
               PROVE  Trail(x)'
    BY DEF TrailTellsLife, Trail
  <2>0. Trail(x)
    BY TrailByRow
  <2>1. ASSUME NEW r \in Reservations, NEW q \in 1..MaxQuantity, Reserve(r, q)
        PROVE  Trail(x)'
    <3> DEFINE v == VariantOf[r]
    <3>1. CASE x = r
      <4>1. Recorded(Lapsed(v), "release")[r] = moves[r]
        BY <2>1 DEF Reserve, Recorded, Lapsed
      <4>2. moves'[r] = [moves[r] EXCEPT !["reservation"] =
                           IF infinite[v] THEN @ ELSE @ + 1]
        <5>1. Recorded(Lapsed(v), "release") \in [Reservations -> [Kinds -> Nat]]
          BY RecordedType
        <5>2. moves' = [Recorded(Lapsed(v), "release") EXCEPT
                          ![r]["reservation"] = IF infinite[v] THEN @ ELSE @ + 1]
          BY <2>1 DEF Reserve
        <5> HIDE DEF v
        <5> QED BY <4>1, <5>1, <5>2
      <4>3. status[r] = "none" /\ status'[r] = "active" /\ tracks'[r] = ~infinite[v]
        BY <2>1 DEF Reserve, TypeOK
      <4>4. /\ moves[r] \in [Kinds -> Nat]
            /\ moves[r]["reservation"] = 0 /\ moves[r]["sale"] = 0
            /\ moves[r]["release"] = 0 /\ moves[r]["refund"] = 0
        BY <2>0, <3>1, <4>3 DEF Trail, TypeOK
      <4>5. /\ moves'[r]["reservation"] = IF infinite[v] THEN 0 ELSE 1
            /\ moves'[r]["sale"] = 0 /\ moves'[r]["release"] = 0 /\ moves'[r]["refund"] = 0
        <5> HIDE DEF v
        <5>1. CASE infinite[v]
          BY <4>2, <4>4, <5>1
        <5>2. CASE ~infinite[v]
          BY <4>2, <4>4, <5>2
        <5> QED BY <5>1, <5>2
      <4>6. CASE infinite[v]
        <5>1. ~tracks'[r]
          BY <4>3, <4>6
        <5> QED BY <3>1, <4>3, <4>5, <4>6, <5>1 DEF Trail
      <4>7. CASE ~infinite[v]
        <5>1. tracks'[r]
          BY <4>3, <4>7
        <5> QED BY <3>1, <4>3, <4>5, <4>7, <5>1 DEF Trail
      <4> QED BY <4>6, <4>7
    <3>2. CASE x # r
      <4>1. moves'[x] = Recorded(Lapsed(v), "release")[x]
        BY <2>1, <3>2, RecordedType DEF Reserve
      <4>2. tracks'[x] = tracks[x]
        BY <2>1, <3>2 DEF Reserve, TypeOK
      <4>3. status'[x] = IF x \in Lapsed(v) THEN "released" ELSE status[x]
        BY <2>1, <3>2 DEF Reserve
      <4>4. x \in Lapsed(v) => status[x] = "active"
        BY DEF Lapsed
      <4> QED BY <2>0, <4>1, <4>2, <4>3, <4>4, ReleaseKeepsTrail
    <3> QED BY <3>1, <3>2
  <2>2. ASSUME NEW r \in Reservations, status[r] = "active",
               status' = [status EXCEPT ![r] = "released"],
               moves' = Recorded({r}, "release"), UNCHANGED rowVars
        PROVE  Trail(x)'
    BY <2>0, <2>2, ReleaseKeepsTrail DEF TypeOK, rowVars
  <2>3. ASSUME NEW r \in Reservations, Consume(r) PROVE Trail(x)'
    BY <2>0, <2>3 DEF Consume, InTime, Trail, Recorded, TypeOK, rowVars
  <2>4. ASSUME NEW r \in Reservations, Restock(r) PROVE Trail(x)'
    BY <2>0, <2>4 DEF Restock, Trail, Recorded, TypeOK, rowVars
  <2>5. ASSUME UNCHANGED <<status, tracks, moves>> PROVE Trail(x)'
    BY <2>0, <2>5, IdleKeepsTrail
  <2>6. ASSUME NEW r \in Reservations, ConsumeLapsed(r) PROVE Trail(x)'
    BY <2>2, <2>6 DEF ConsumeLapsed
  <2>7. ASSUME NEW r \in Reservations, Release(r) PROVE Trail(x)'
    BY <2>2, <2>7 DEF Release
  <2>8. ASSUME NEW r \in Reservations, SweepRelease(r) PROVE Trail(x)'
    BY <2>2, <2>5, <2>8 DEF SweepRelease, rowVars
  <2>9. ASSUME NEW r \in Reservations, Elapse(r) PROVE Trail(x)'
    BY <2>5, <2>9 DEF Elapse, rowVars
  <2>10. ASSUME NEW v \in Variants, SetInfinite(v) PROVE Trail(x)'
    BY <2>5, <2>10 DEF SetInfinite, rowVars
  <2>11. ASSUME NEW v \in Variants, NEW t \in Targets, Adjust(v, t) PROVE Trail(x)'
    BY <2>5, <2>11 DEF Adjust, rowVars
  <2>12. CASE SweepSelect
    BY <2>5, <2>12 DEF SweepSelect, rowVars
  <2>13. CASE UNCHANGED vars
    BY <2>5, <2>13 DEF vars
  <2> QED
    BY <2>1, <2>3, <2>4, <2>6, <2>7, <2>8, <2>9, <2>10, <2>11, <2>12, <2>13 DEF Next
<1> QED BY <1>1, <1>2, TypeCorrect, PTL DEF Spec

-----------------------------------------------------------------------------
(* Counting held units.                                                    *)
Units(r, n) == {r} \X (1..n)

(* One reservation of n units is n pairs.                                  *)
LEMMA UnitsCount ==
  ASSUME NEW r, NEW n \in Nat
  PROVE  IsFiniteSet(Units(r, n)) /\ Cardinality(Units(r, n)) = n
<1>1. IsFiniteSet({r}) /\ Cardinality({r}) = 1
  BY FS_Singleton
<1>2. IsFiniteSet(1..n) /\ Cardinality(1..n) = n
  BY FS_Interval
<1>3. /\ IsFiniteSet({r} \X (1..n))
      /\ Cardinality({r} \X (1..n)) = Cardinality({r}) * Cardinality(1..n)
  BY <1>1, <1>2, FS_Product
<1>4. 1 * n = n
  OBVIOUS
<1> QED BY <1>1, <1>2, <1>3, <1>4 DEF Units

(* The held units of a variant are finitely many.                          *)
LEMMA HeldFinite ==
  ASSUME NEW v
  PROVE  IsFiniteSet(HeldUnits(v)) /\ Reserved(v) \in Nat
<1>1. IsFiniteSet(1..MaxQuantity)
  BY InventoryAssumption, FS_Interval
<1>2. IsFiniteSet(Reservations \X (1..MaxQuantity))
  BY <1>1, InventoryAssumption, FS_Product
<1>3. HeldUnits(v) \in SUBSET (Reservations \X (1..MaxQuantity))
  BY DEF HeldUnits
<1> QED BY <1>2, <1>3, FS_Subset, FS_CardinalityType DEF Reserved

(* Holding no more than before, on no less stock.                          *)
LEMMA CoverSurvives ==
  ASSUME TypeOK, NEW v \in Variants, Covered(v),
         HeldUnits(v)' \subseteq HeldUnits(v),
         on_hand'[v] \in Int, on_hand'[v] >= on_hand[v]
  PROVE  Covered(v)'
<1>1. Cardinality(HeldUnits(v)') <= Cardinality(HeldUnits(v))
      /\ Cardinality(HeldUnits(v)') \in Nat
  BY HeldFinite, FS_Subset, FS_CardinalityType
<1>2. Reserved(v) \in Nat /\ on_hand[v] \in Int
  BY HeldFinite DEF TypeOK
<1> QED BY <1>1, <1>2 DEF Covered, Reserved

(* A live reservation that goes frees exactly its units.                   *)
LEMMA UnitsFreed ==
  ASSUME TypeOK, NEW r \in Reservations, Holds(r), ~Holds(r)',
         \A x \in Reservations \ {r} : Holds(x)' = Holds(x),
         quantity' = quantity
  PROVE  /\ Reserved(VariantOf[r])' = Reserved(VariantOf[r]) - quantity[r]
         /\ \A v : v # VariantOf[r] => Reserved(v)' = Reserved(v)
<1> DEFINE v == VariantOf[r]
           U == Units(r, quantity[r])
<1>1. quantity[r] \in Nat /\ quantity[r] <= MaxQuantity /\ MaxQuantity \in Nat
  BY InventoryAssumption DEF TypeOK
<1>2. U \subseteq HeldUnits(v)
  BY <1>1 DEF Units, HeldUnits
<1>3. HeldUnits(v)' = HeldUnits(v) \ U
  BY <1>1 DEF HeldUnits, Units
<1>4. Cardinality(HeldUnits(v) \ U) = Cardinality(HeldUnits(v)) - Cardinality(HeldUnits(v) \cap U)
  BY HeldFinite, FS_Difference
<1>5. HeldUnits(v) \cap U = U
  BY <1>2
<1>6. Cardinality(U) = quantity[r]
  BY <1>1, UnitsCount
<1>7. \A w : w # v => HeldUnits(w)' = HeldUnits(w)
  BY DEF HeldUnits
<1> QED BY <1>3, <1>4, <1>5, <1>6, <1>7 DEF Reserved

(* No step but a correction of its stock uncovers a variant:               *)
(* create_reservation takes only what is free under the row lock, and a    *)
(* sale takes exactly what its reservation held.                           *)
LEMMA StepKeepsCover ==
  ASSUME TypeOK, TypeOK', Next, NEW v \in Variants, Covered(v), ~Corrected(v)
  PROVE  Covered(v)'
<1>0. on_hand[v] \in Nat /\ on_hand'[v] \in Nat /\ Reserved(v) \in Nat
  BY HeldFinite DEF TypeOK
<1>1. ASSUME \A x \in Reservations : Holds(x)' => Holds(x),
             quantity' = quantity, on_hand' = on_hand
      PROVE  Covered(v)'
  <2>1. HeldUnits(v)' \subseteq HeldUnits(v)
    BY <1>1 DEF HeldUnits
  <2> QED BY <1>0, <1>1, <2>1, CoverSurvives
<1>2. ASSUME NEW r \in Reservations, NEW q \in 1..MaxQuantity, Reserve(r, q)
      PROVE  Covered(v)'
  <2> DEFINE U == Units(r, q)
  <2>1. \A x \in Reservations \ {r} : (Holds(x)' => Holds(x)) /\ quantity'[x] = quantity[x]
    BY <1>2 DEF Reserve, Holds, TypeOK
  <2>2. on_hand' = on_hand /\ quantity'[r] = q /\ tracks'[r] = ~infinite[VariantOf[r]]
    BY <1>2 DEF Reserve, TypeOK, stockVars
  <2>3. CASE infinite[VariantOf[r]] \/ VariantOf[r] # v
    <3>1. VariantOf[r] # v \/ ~Holds(r)'
      BY <2>2, <2>3 DEF Holds
    <3>2. HeldUnits(v)' \subseteq HeldUnits(v)
      BY <2>1, <3>1 DEF HeldUnits
    <3> QED BY <1>0, <2>2, <3>2, CoverSurvives
  <2>4. CASE ~infinite[VariantOf[r]] /\ VariantOf[r] = v
    <3>1. on_hand[v] - Reserved(v) >= q
      BY <1>2, <2>4 DEF Reserve, Available
    <3>2. q \in Nat
      BY InventoryAssumption
    <3>3. HeldUnits(v)' \subseteq HeldUnits(v) \cup U
      BY <2>1, <2>2 DEF HeldUnits, Units
    <3>4. IsFiniteSet(U) /\ Cardinality(U) = q
      BY <3>2, UnitsCount
    <3>5. IsFiniteSet(HeldUnits(v))
      BY HeldFinite
    <3>6. /\ IsFiniteSet(HeldUnits(v) \cup U)
          /\ Cardinality(HeldUnits(v) \cup U) =
                Reserved(v) + q - Cardinality(HeldUnits(v) \cap U)
      BY <3>4, <3>5, FS_Union DEF Reserved
    <3>7. Cardinality(HeldUnits(v) \cap U) \in Nat
      BY <3>4, FS_Intersection, FS_CardinalityType
    <3>8. Cardinality(HeldUnits(v)') <= Cardinality(HeldUnits(v) \cup U)
          /\ Cardinality(HeldUnits(v)') \in Nat
          /\ Cardinality(HeldUnits(v) \cup U) \in Nat
      BY <3>3, <3>6, FS_Subset, FS_CardinalityType
    <3>9. Cardinality(HeldUnits(v)') <= on_hand[v]
      <4> HIDE DEF U
      <4> QED BY <1>0, <3>1, <3>2, <3>6, <3>7, <3>8
    <3> QED BY <2>2, <3>9 DEF Covered, Reserved
  <2> QED BY <2>3, <2>4
<1>3. ASSUME NEW r \in Reservations, Consume(r) PROVE Covered(v)'
  <2>1. /\ Holds(r)' = FALSE /\ Holds(r) = tracks[r]
        /\ quantity' = quantity
        /\ \A x \in Reservations \ {r} : Holds(x)' = Holds(x)
    BY <1>3 DEF Consume, InTime, Holds, TypeOK, rowVars
  <2>2. quantity[r] \in Nat
    BY InventoryAssumption DEF TypeOK
  <2>3. CASE tracks[r] /\ VariantOf[r] = v
    <3>1. Reserved(v)' = Reserved(v) - quantity[r]
      BY <2>1, <2>3, UnitsFreed
    <3>2. on_hand'[v] = on_hand[v] - quantity[r]
      BY <1>3, <2>3, <1>0, <2>2 DEF Consume, Moved, TypeOK
    <3> QED BY <1>0, <2>2, <3>1, <3>2 DEF Covered
  <2>4. CASE ~(tracks[r] /\ VariantOf[r] = v)
    <3>1. on_hand'[v] = on_hand[v]
      BY <1>0, <1>3, <2>4 DEF Consume, Moved, TypeOK
    <3>2. HeldUnits(v)' \subseteq HeldUnits(v)
      BY <2>1 DEF HeldUnits
    <3> QED BY <1>0, <3>1, <3>2, CoverSurvives
  <2> QED BY <2>3, <2>4
<1>4. ASSUME NEW r \in Reservations, Restock(r) PROVE Covered(v)'
  <2>1. quantity[r] \in Nat
    BY InventoryAssumption DEF TypeOK
  <2>2. on_hand'[v] >= on_hand[v]
    BY <1>0, <1>4, <2>1 DEF Restock, Moved, TypeOK
  <2>3. HeldUnits(v)' \subseteq HeldUnits(v)
    BY <1>4 DEF Restock, HeldUnits, Holds, rowVars
  <2> QED BY <1>0, <2>2, <2>3, CoverSurvives
<1>5. ASSUME NEW w \in Variants, NEW t \in Targets, Adjust(w, t) PROVE Covered(v)'
  <2>1. w # v
    BY <1>5 DEF Corrected
  <2>2. on_hand'[v] = on_hand[v]
    BY <1>5, <2>1 DEF Adjust, Moved, TypeOK
  <2>3. HeldUnits(v)' \subseteq HeldUnits(v)
    BY <1>5 DEF Adjust, HeldUnits, Holds, rowVars
  <2> QED BY <1>0, <2>2, <2>3, CoverSurvives
<1>6. ASSUME NEW r \in Reservations, ConsumeLapsed(r) \/ Release(r) \/ SweepRelease(r)
      PROVE  Covered(v)'
  <2>1. \A x \in Reservations : Holds(x)' => Holds(x)
    BY <1>6 DEF ConsumeLapsed, Release, SweepRelease, Holds, rowVars, TypeOK
  <2> QED BY <1>1, <1>6, <2>1 DEF ConsumeLapsed, Release, SweepRelease, rowVars, stockVars
<1>7. ASSUME NEW r \in Reservations, Elapse(r) PROVE Covered(v)'
  <2>1. \A x \in Reservations : Holds(x)' => Holds(x)
    BY <1>7 DEF Elapse, Holds, rowVars, TypeOK
  <2> QED BY <1>1, <1>7, <2>1 DEF Elapse, rowVars, stockVars
<1>8. ASSUME NEW w \in Variants, SetInfinite(w) PROVE Covered(v)'
  BY <1>1, <1>8 DEF SetInfinite, Holds, rowVars, stockVars
<1>9. CASE SweepSelect
  BY <1>1, <1>9 DEF SweepSelect, Holds, rowVars, stockVars
<1> QED BY <1>2, <1>3, <1>4, <1>5, <1>6, <1>7, <1>8, <1>9 DEF Next

(* Overselling is impossible whatever buyers, payments, cancellations,     *)
(* refunds, the clock and the release task do, for every number of them.   *)
THEOREM StaysCovered == Spec => ReservedStaysCovered
<1>1. TypeOK /\ TypeOK' /\ [Next]_vars
        => [\A v \in Variants : Covered(v) /\ ~Corrected(v) => Covered(v)']_vars
  BY StepKeepsCover
<1> QED BY <1>1, TypeCorrect, PTL DEF Spec, ReservedStaysCovered

-----------------------------------------------------------------------------
(* Refinement: what a step does to the free stock, the amounts and claims. *)
MappedVars == <<Free, Amount, Claim>>

(* A step that moves no stock and leaves every row's claim where it was.   *)
LEMMA MapsToStutter ==
  ASSUME TypeOK, on_hand' = on_hand, UNCHANGED rowVars,
         \A x \in Reservations : Holds(x)' = Holds(x) /\ ClaimOf(x)' = ClaimOf(x)
  PROVE  UNCHANGED MappedVars
<1>1. \A v : HeldUnits(v)' = HeldUnits(v)
  BY DEF HeldUnits, rowVars
<1>2. Free' = Free
  BY <1>1 DEF Free, Reserved
<1>3. Amount' = Amount
  BY DEF Amount, rowVars
<1>4. Claim' = Claim
  BY DEF Claim
<1> QED BY <1>2, <1>3, <1>4 DEF MappedVars

(* A live reservation that ends without a sale gives its units back.       *)
LEMMA MapsToDrop ==
  ASSUME TypeOK, NEW r \in Reservations, on_hand' = on_hand, UNCHANGED rowVars,
         ClaimOf(r) = "held", ClaimOf(r)' = "dropped", ~Holds(r)',
         \A x \in Reservations \ {r} : Holds(x)' = Holds(x) /\ ClaimOf(x)' = ClaimOf(x)
  PROVE  Promise!Drop(r)
<1> DEFINE n == IF tracks[r] THEN quantity[r] ELSE 0
<1>1. /\ Holds(r) = tracks[r]
      /\ VariantOf[r] \in Variants /\ n \in Nat
  BY InventoryAssumption DEF ClaimOf, Holds, TypeOK
<1>2. /\ Reserved(VariantOf[r])' = Reserved(VariantOf[r]) - n
      /\ \A v : v # VariantOf[r] => Reserved(v)' = Reserved(v)
  <2>1. CASE tracks[r]
    BY <1>1, <2>1, UnitsFreed DEF rowVars
  <2>2. CASE ~tracks[r]
    <3>1. \A v : HeldUnits(v)' = HeldUnits(v)
      BY <1>1, <2>2 DEF HeldUnits, rowVars
    <3>2. Reserved(VariantOf[r]) \in Nat
      BY HeldFinite
    <3> QED BY <2>2, <3>1, <3>2 DEF Reserved
  <2> QED BY <2>1, <2>2
<1>3. Free' = [Free EXCEPT ![VariantOf[r]] = @ + n]
  <2> SUFFICES ASSUME NEW v \in Variants
               PROVE  on_hand[v] - Reserved(v)' =
                        IF v = VariantOf[r] THEN on_hand[v] - Reserved(v) + n
                                            ELSE on_hand[v] - Reserved(v)
    BY <1>1 DEF Free
  <2>1. on_hand[v] \in Int /\ Reserved(v) \in Int
    BY HeldFinite DEF TypeOK
  <2> HIDE DEF n
  <2> QED BY <1>1, <1>2, <2>1
<1>4. Claim' = [Claim EXCEPT ![r] = "dropped"] /\ Claim[r] = "held"
  BY DEF Claim
<1>5. Amount' = Amount /\ Amount[r] = n
  BY DEF Amount, rowVars
<1> QED BY <1>3, <1>4, <1>5 DEF Promise!Drop, Promise!Becomes, Promise!Freed

(* The clock of a reservation runs only once its row exists.               *)
Fresh == \A r \in Reservations : status[r] = "none" => ~elapsed[r]

(* create_reservation makes its row with the whole time ahead.             *)
LEMMA FreshInvariant == Spec => []Fresh
<1>1. Init => Fresh
  BY DEF Init, Fresh
<1>2. TypeOK /\ Fresh /\ [Next]_vars => Fresh'
  <2> SUFFICES ASSUME TypeOK, Fresh, [Next]_vars,
                      NEW x \in Reservations, status'[x] = "none"
               PROVE  ~elapsed'[x]
    BY DEF Fresh
  <2>1. ASSUME NEW r \in Reservations, Elapse(r) PROVE ~elapsed'[x]
    BY <2>1 DEF Elapse, Fresh, TypeOK
  <2>2. ASSUME elapsed' = elapsed, status[x] = "none" PROVE ~elapsed'[x]
    BY <2>2 DEF Fresh
  <2>3. ASSUME NEW r \in Reservations, NEW q \in 1..MaxQuantity, Reserve(r, q)
        PROVE  ~elapsed'[x]
    BY <2>2, <2>3 DEF Reserve
  <2>4. ASSUME NEW r \in Reservations,
               ConsumeLapsed(r) \/ Consume(r) \/ Release(r) \/ Restock(r) \/ SweepRelease(r)
        PROVE  ~elapsed'[x]
    <3>1. elapsed' = elapsed
      BY <2>4 DEF ConsumeLapsed, Consume, Release, Restock, SweepRelease
    <3>2. status[x] = "none"
      BY <2>4 DEF ConsumeLapsed, Consume, Release, Restock, SweepRelease, TypeOK
    <3> QED BY <2>2, <3>1, <3>2
  <2>5. CASE SweepSelect \/ UNCHANGED vars \/ (\E v \in Variants : SetInfinite(v))
             \/ \E v \in Variants, t \in Targets : Adjust(v, t)
    BY <2>2, <2>5 DEF SweepSelect, vars, SetInfinite, Adjust
  <2> QED BY <2>1, <2>3, <2>4, <2>5 DEF Next
<1> QED BY <1>1, <1>2, TypeCorrect, PTL DEF Spec

(* A reservation on the free stock of its variant claims exactly q units.  *)
LEMMA MapsToTake ==
  ASSUME TypeOK, TypeOK', Fresh, NEW r \in Reservations, NEW q \in 1..MaxQuantity, Reserve(r, q)
  PROVE  Promise!Take(r)
<1> DEFINE v == VariantOf[r]
           n == IF infinite[v] THEN 0 ELSE q
           U == Units(r, n)
<1>1. n \in 0..MaxQuantity /\ n \in Nat /\ v \in Variants /\ MaxQuantity \in Nat
  BY InventoryAssumption
<1>2. /\ on_hand' = on_hand /\ quantity' = [quantity EXCEPT ![r] = q]
      /\ tracks' = [tracks EXCEPT ![r] = ~infinite[v]]
      /\ status[r] = "none" /\ status'[r] = "active"
      /\ elapsed' = elapsed
  BY <1>1 DEF Reserve, stockVars, TypeOK
<1>3. \A x \in Reservations \ {r} : Holds(x)' = Holds(x) /\ ClaimOf(x)' = ClaimOf(x)
  BY <1>2 DEF Reserve, Lapsed, Holds, ClaimOf, TypeOK
<1>4. /\ ClaimOf(r) = "none" /\ ClaimOf(r)' = "held"
      /\ ~Holds(r) /\ (Holds(r)' <=> tracks'[r])
  <2>1. ~elapsed[r]
    BY <1>2 DEF Fresh
  <2> QED BY <1>2, <2>1 DEF ClaimOf, Holds
<1>5. (tracks'[r] <=> ~infinite[v]) /\ quantity'[r] = q
  BY <1>1, <1>2 DEF TypeOK
<1>6. /\ HeldUnits(v)' = HeldUnits(v) \cup U /\ HeldUnits(v) \cap U = {}
      /\ \A w : w # v => HeldUnits(w)' = HeldUnits(w)
  <2>1. \A x \in Reservations \ {r} : quantity'[x] = quantity[x]
    BY <1>2 DEF TypeOK
  <2>2. CASE infinite[v]
    <3>1. ~Holds(r)' /\ U = {}
      BY <1>4, <1>5, <2>2 DEF Units
    <3>2. \A w : HeldUnits(w)' = HeldUnits(w)
      BY <1>3, <1>4, <2>1, <3>1 DEF HeldUnits
    <3> HIDE DEF U
    <3> QED BY <3>1, <3>2
  <2>3. CASE ~infinite[v]
    <3>1. Holds(r)' /\ ~Holds(r) /\ n = q
      BY <1>4, <1>5, <2>3
    <3>2. \A w : w # v => HeldUnits(w)' = HeldUnits(w)
      BY <1>3, <2>1 DEF HeldUnits
    <3>3. HeldUnits(v)' = HeldUnits(v) \cup Units(r, q)
      BY <1>1, <1>3, <1>5, <2>1, <3>1 DEF HeldUnits, Units
    <3>4. HeldUnits(v) \cap Units(r, q) = {}
      BY <3>1 DEF HeldUnits, Units
    <3> HIDE DEF n
    <3> QED BY <3>1, <3>2, <3>3, <3>4
  <2> QED BY <2>2, <2>3
<1>7. /\ Reserved(v)' = Reserved(v) + n
      /\ \A w : w # v => Reserved(w)' = Reserved(w)
  <2>1. IsFiniteSet(U) /\ Cardinality(U) = n
    BY <1>1, UnitsCount
  <2>2. Cardinality(HeldUnits(v) \cup U) = Reserved(v) + n - Cardinality(HeldUnits(v) \cap U)
    BY <2>1, HeldFinite, FS_Union DEF Reserved
  <2>3. Cardinality(HeldUnits(v) \cap U) = 0
    BY <1>6, FS_EmptySet
  <2>4. Reserved(v) \in Nat
    BY HeldFinite
  <2> HIDE DEF n, U
  <2>5. Reserved(v)' = Cardinality(HeldUnits(v) \cup U)
    BY <1>6 DEF Reserved
  <2>6. \A w : w # v => Reserved(w)' = Reserved(w)
    BY <1>6 DEF Reserved
  <2> QED BY <1>1, <2>2, <2>3, <2>4, <2>5, <2>6
<1>8. Free' = [Free EXCEPT ![v] = @ + -n]
  <2> SUFFICES ASSUME NEW w \in Variants
               PROVE  on_hand[w] - Reserved(w)' =
                        IF w = v THEN on_hand[w] - Reserved(w) + -n
                                 ELSE on_hand[w] - Reserved(w)
    BY <1>1, <1>2 DEF Free
  <2>1. on_hand[w] \in Int /\ Reserved(w) \in Int
    BY HeldFinite DEF TypeOK
  <2> HIDE DEF n
  <2> QED BY <1>1, <1>7, <2>1
<1>9. Claim[r] = "none" /\ Claim' = [Claim EXCEPT ![r] = "held"]
  BY <1>3, <1>4 DEF Claim
<1>10. Amount' = [Amount EXCEPT ![r] = n]
  <2>1. \A x \in Reservations \ {r} : quantity'[x] = quantity[x] /\ tracks'[x] = tracks[x]
    BY <1>2 DEF TypeOK
  <2>2. (IF tracks'[r] THEN quantity'[r] ELSE 0) = n
    BY <1>5
  <2> HIDE DEF n
  <2> QED BY <2>1, <2>2 DEF Amount
<1>11. n > 0 => Free[v] >= n
  <2>1. CASE infinite[v]
    BY <2>1
  <2>2. CASE ~infinite[v]
    BY <1>1, <2>2 DEF Reserve, Available, Free
  <2> QED BY <2>1, <2>2
<1> HIDE DEF n
<1> QED BY <1>1, <1>8, <1>9, <1>10, <1>11
        DEF Promise!Take, Promise!Becomes, Promise!Freed

(* A sale takes from the shelf what it held, so the free stock stays.      *)
LEMMA MapsToSell ==
  ASSUME TypeOK, TypeOK', NEW r \in Reservations, Consume(r)
  PROVE  Promise!Sell(r)
<1> DEFINE v == VariantOf[r]
           n == IF tracks[r] THEN quantity[r] ELSE 0
<1>1. v \in Variants /\ n \in Nat
  BY InventoryAssumption DEF TypeOK
<1>2. /\ status[r] = "active" /\ ~elapsed[r] /\ status'[r] = "consumed"
      /\ on_hand' = [on_hand EXCEPT ![v] = @ + -n]
      /\ UNCHANGED <<quantity, tracks, elapsed>>
  BY DEF Consume, InTime, Moved, TypeOK, rowVars
<1>3. /\ ClaimOf(r) = "held" /\ ClaimOf(r)' = "sold" /\ Holds(r) = tracks[r] /\ ~Holds(r)'
      /\ \A x \in Reservations \ {r} : Holds(x)' = Holds(x) /\ ClaimOf(x)' = ClaimOf(x)
  BY <1>2 DEF Consume, Holds, ClaimOf, TypeOK
<1>4. /\ Reserved(v)' = Reserved(v) - n
      /\ \A w : w # v => Reserved(w)' = Reserved(w)
  <2>1. CASE tracks[r]
    BY <1>2, <1>3, <2>1, UnitsFreed
  <2>2. CASE ~tracks[r]
    <3>1. \A w : HeldUnits(w)' = HeldUnits(w)
      BY <1>2, <1>3, <2>2 DEF HeldUnits
    <3>2. Reserved(v) \in Nat
      BY HeldFinite
    <3> QED BY <2>2, <3>1, <3>2 DEF Reserved
  <2> QED BY <2>1, <2>2
<1>5. Free' = Free
  <2> SUFFICES ASSUME NEW w \in Variants
               PROVE  on_hand'[w] - Reserved(w)' = on_hand[w] - Reserved(w)
    BY DEF Free
  <2>1. on_hand[w] \in Int /\ Reserved(w) \in Int
    BY HeldFinite DEF TypeOK
  <2>2. on_hand'[w] = IF w = v THEN on_hand[w] + -n ELSE on_hand[w]
    BY <1>2 DEF TypeOK
  <2> HIDE DEF n
  <2> QED BY <1>1, <1>4, <2>1, <2>2
<1>6. Claim' = [Claim EXCEPT ![r] = "sold"] /\ Claim[r] = "held"
  BY <1>3 DEF Claim
<1>7. Amount' = Amount
  BY <1>2 DEF Amount
<1> QED BY <1>5, <1>6, <1>7 DEF Promise!Sell, Promise!Becomes

(* Every step of the rows is a step of the promise, or none.               *)
LEMMA StepMaps ==
  ASSUME TypeOK, TypeOK', Fresh, [Next]_vars
  PROVE  [Promise!Next]_MappedVars
<1>1. ASSUME NEW r \in Reservations, NEW q \in 1..MaxQuantity, Reserve(r, q)
      PROVE  Promise!Next
  BY <1>1, MapsToTake DEF Promise!Next
<1>2. ASSUME NEW r \in Reservations, Consume(r) PROVE Promise!Next
  BY <1>2, MapsToSell DEF Promise!Next
<1>3. ASSUME NEW r \in Reservations, status[r] = "active",
             status' = [status EXCEPT ![r] = "released"],
             on_hand' = on_hand, UNCHANGED rowVars, elapsed' = elapsed
      PROVE  [Promise!Next]_MappedVars
  <2>1. \A x \in Reservations \ {r} : Holds(x)' = Holds(x) /\ ClaimOf(x)' = ClaimOf(x)
    BY <1>3 DEF Holds, ClaimOf, TypeOK, rowVars
  <2>2. ClaimOf(r)' = "dropped" /\ ~Holds(r)'
    BY <1>3 DEF Holds, ClaimOf, TypeOK
  <2>3. CASE elapsed[r]
    <3>1. ClaimOf(r) = "dropped" /\ ~Holds(r)
      BY <1>3, <2>3 DEF Holds, ClaimOf
    <3>2. \A x \in Reservations : Holds(x)' = Holds(x) /\ ClaimOf(x)' = ClaimOf(x)
      BY <2>1, <2>2, <3>1 DEF Holds
    <3> QED BY <1>3, <3>2, MapsToStutter
  <2>4. CASE ~elapsed[r]
    <3>1. ClaimOf(r) = "held"
      BY <1>3, <2>4 DEF ClaimOf
    <3>2. Promise!Drop(r)
      BY <1>3, <2>1, <2>2, <3>1, MapsToDrop
    <3> QED BY <3>2 DEF Promise!Next
  <2> QED BY <2>3, <2>4
<1>4. ASSUME UNCHANGED <<on_hand, status, elapsed, rowVars>>
      PROVE  [Promise!Next]_MappedVars
  BY <1>4, MapsToStutter DEF Holds, ClaimOf, rowVars
<1>5. ASSUME NEW r \in Reservations, ConsumeLapsed(r) PROVE [Promise!Next]_MappedVars
  BY <1>3, <1>5 DEF ConsumeLapsed, stockVars
<1>6. ASSUME NEW r \in Reservations, Release(r) PROVE [Promise!Next]_MappedVars
  BY <1>3, <1>6 DEF Release, stockVars
<1>7. ASSUME NEW r \in Reservations, SweepRelease(r) PROVE [Promise!Next]_MappedVars
  BY <1>3, <1>4, <1>7 DEF SweepRelease, stockVars
<1>8. ASSUME NEW r \in Reservations, Restock(r) PROVE Promise!Next
  <2> DEFINE v == VariantOf[r]
  <2>1. \A w : HeldUnits(w)' = HeldUnits(w)
    BY <1>8 DEF Restock, HeldUnits, Holds, rowVars
  <2>2. \A w \in Variants : on_hand[w] \in Int /\ Reserved(w) \in Int
    BY HeldFinite DEF TypeOK
  <2>3. v \in Variants /\ quantity[r] \in Int
    BY InventoryAssumption DEF TypeOK
  <2>4. on_hand' = [on_hand EXCEPT ![v] = @ + quantity[r]]
    BY <1>8 DEF Restock, Moved
  <2>5. Free' = [Free EXCEPT ![v] = @ + quantity[r]]
    <3> SUFFICES ASSUME NEW w \in Variants
                 PROVE  on_hand'[w] - Reserved(w)' =
                          IF w = v THEN on_hand[w] - Reserved(w) + quantity[r]
                                   ELSE on_hand[w] - Reserved(w)
      BY <2>3 DEF Free
    <3>1. Reserved(w)' = Reserved(w)
      BY <2>1 DEF Reserved
    <3>2. on_hand'[w] = IF w = v THEN on_hand[w] + quantity[r] ELSE on_hand[w]
      BY <2>4 DEF TypeOK
    <3> QED BY <2>2, <2>3, <3>1, <3>2
  <2>6. Claim' = Claim /\ Claim[r] = "sold"
    BY <1>8 DEF Restock, Claim, ClaimOf
  <2>7. Amount' = Amount /\ Amount[r] = quantity[r]
    BY <1>8 DEF Restock, Amount, rowVars
  <2>8. Promise!Restock(r)
    BY <2>5, <2>6, <2>7 DEF Promise!Restock, Promise!Freed
  <2> QED BY <2>8 DEF Promise!Next
<1>9. ASSUME NEW v \in Variants, NEW t \in Targets, Adjust(v, t) PROVE Promise!Next
  <2>1. \A w : HeldUnits(w)' = HeldUnits(w)
    BY <1>9 DEF Adjust, HeldUnits, Holds, rowVars
  <2>2. Free' \in [Variants -> Int]
    <3>1. \A w \in Variants : on_hand'[w] \in Int
      BY DEF TypeOK
    <3>2. \A w : Reserved(w)' = Reserved(w) /\ Reserved(w) \in Int
      BY <2>1, HeldFinite DEF Reserved
    <3> QED BY <3>1, <3>2 DEF Free
  <2>3. \A w \in Variants \ {v} : Free'[w] = Free[w]
    <3>1. \A w \in Variants \ {v} : on_hand'[w] = on_hand[w]
      BY <1>9 DEF Adjust, Moved, TypeOK
    <3> QED BY <2>1, <3>1 DEF Free, Reserved
  <2>4. Claim' = Claim /\ Amount' = Amount
    BY <1>9 DEF Adjust, Claim, ClaimOf, Amount, rowVars
  <2>5. Promise!Recount(v)
    BY <2>2, <2>3, <2>4 DEF Promise!Recount
  <2> QED BY <2>5 DEF Promise!Next
<1>10. ASSUME NEW r \in Reservations, Elapse(r) PROVE Promise!Next
  <2>1. \A x \in Reservations \ {r} : Holds(x)' = Holds(x) /\ ClaimOf(x)' = ClaimOf(x)
    BY <1>10 DEF Elapse, Holds, ClaimOf, TypeOK, rowVars
  <2>2. ClaimOf(r) = "held" /\ ClaimOf(r)' = "dropped" /\ ~Holds(r)'
    BY <1>10 DEF Elapse, Holds, ClaimOf, TypeOK
  <2>3. Promise!Drop(r)
    BY <1>10, <2>1, <2>2, MapsToDrop DEF Elapse, stockVars
  <2> QED BY <2>3 DEF Promise!Next
<1>11. ASSUME NEW v \in Variants, SetInfinite(v) PROVE [Promise!Next]_MappedVars
  BY <1>4, <1>11 DEF SetInfinite, stockVars
<1>12. CASE SweepSelect
  BY <1>4, <1>12 DEF SweepSelect, stockVars
<1>13. CASE UNCHANGED vars
  BY <1>4, <1>13 DEF vars, rowVars
<1> QED
  BY <1>1, <1>2, <1>5, <1>6, <1>7, <1>8, <1>9, <1>10, <1>11, <1>12, <1>13 DEF Next

(* The rows, the clock and the release task implement StockPromise: no     *)
(* buyer is promised units another one holds, and time alone gives them    *)
(* back (create_reservation, consume_reservation, release_reservation).    *)
THEOREM ImplementsPromise == Spec => KeepsPromise
<1>1. Init => Promise!Init
  <2> SUFFICES ASSUME Init PROVE Promise!Init
    OBVIOUS
  <2>1. \A v : HeldUnits(v) = {}
    BY DEF Init, HeldUnits, Holds
  <2>2. \A v : Reserved(v) = 0
    BY <2>1, FS_EmptySet DEF Reserved
  <2>3. Free = OpeningStock
    BY <2>2, InventoryAssumption DEF Free, Init
  <2>4. Amount = [r \in Reservations |-> 0] /\ Claim = [r \in Reservations |-> "none"]
    BY DEF Init, Amount, Claim, ClaimOf
  <2> QED BY <2>3, <2>4 DEF Promise!Init
<1>2. TypeOK /\ TypeOK' /\ Fresh /\ [Next]_vars => [Promise!Next]_(Promise!promiseVars)
  BY StepMaps DEF MappedVars, Promise!promiseVars
<1> QED
  BY <1>1, <1>2, TypeCorrect, FreshInvariant, PTL DEF Spec, KeepsPromise, Promise!Spec
=============================================================================
