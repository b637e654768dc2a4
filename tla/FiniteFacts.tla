----------------------------- MODULE FiniteFacts ----------------------------
(***************************************************************************)
(* Facts about numbers and finite sets that the proofs cite: induction on the*)
(* size of a set, what a sum becomes when one of its terms changes, the sets *)
(* that grow step by step to a closed one, and what folds and loops compute. *)
(***************************************************************************)
EXTENDS Integers, FiniteSetsExt, Functions, FiniteSetTheorems, WellFoundedInduction, TLAPS

(* A set of naturals that is not empty has a smallest one, ...             *)
LEMMA SmallestNumber ==
  ASSUME NEW T, T \subseteq Nat, T # {}
  PROVE  \E n \in T : \A m \in T : n <= m
<1>1. PICK n \in T : \A m \in T : <<m, n>> \notin OpToRel(<, Nat)
  BY NatLessThanWellFounded, WFMin
<1>2. \A m \in T : ~(m < n)
  BY <1>1 DEF OpToRel
<1> QED BY <1>2

(* ... so that what holds of 0 and of each next number holds of all.       *)
LEMMA CountingUp ==
  ASSUME NEW T, T \subseteq Nat, 0 \in T, \A n \in T : n + 1 \in T
  PROVE  T = Nat
<1> SUFFICES ASSUME T # Nat PROVE FALSE
  OBVIOUS
<1>1. PICK n \in Nat \ T : \A m \in Nat \ T : n <= m
  BY SmallestNumber
<1>2. n # 0 /\ n - 1 \in Nat /\ n - 1 \in T
  BY <1>1
<1> QED BY <1>1, <1>2

(* What holds of a set once it holds of it less any element holds of every *)
(* part of a finite set.                                                   *)
LEMMA BySize ==
  ASSUME NEW S, IsFiniteSet(S), NEW P,
         \A s \in SUBSET S : (\A x \in s : s \ {x} \in P) => s \in P
  PROVE  SUBSET S \subseteq P
<1> SUFFICES ASSUME NEW t \in SUBSET S, t \notin P PROVE FALSE
  OBVIOUS
<1> DEFINE sizes == {Cardinality(s) : s \in (SUBSET S) \ P}
<1>1. \A s \in SUBSET S : IsFiniteSet(s) /\ Cardinality(s) \in Nat
  BY FS_Subset, FS_CardinalityType
<1>2. sizes \subseteq Nat /\ sizes # {}
  BY <1>1
<1>3. PICK n \in sizes : \A m \in sizes : n <= m
  <2> HIDE DEF sizes
  <2> QED BY <1>2, SmallestNumber
<1>4. PICK s \in (SUBSET S) \ P : Cardinality(s) = n
  BY <1>3
<1>5. PICK x \in s : s \ {x} \notin P
  BY <1>4
<1>6. s \ {x} \in SUBSET S /\ Cardinality(s \ {x}) = Cardinality(s) - 1
  BY <1>1, <1>4, <1>5, FS_RemoveElement
<1>7. Cardinality(s \ {x}) \in sizes
  BY <1>5, <1>6
<1> HIDE DEF sizes
<1> QED BY <1>1, <1>3, <1>4, <1>6, <1>7

(* The sum of f over a set, one element after the other.                   *)
Pick(s) == CHOOSE x \in s : TRUE
AddUp(f, g, s) == IF s = {} THEN 0 ELSE f[Pick(s)] + g[s \ {Pick(s)}]
Adds(f, g, S) == g = [s \in SUBSET S |-> AddUp(f, g, s)]

(* The sum that the community modules define by a fold: the value, at the  *)
(* set, of the function that takes one element after the other.            *)
LEMMA SumIsRecursive ==
  ASSUME NEW f, NEW S
  PROVE  SumFunctionOnSet(f, S) = (CHOOSE g : Adds(f, g, S))[S]
BY DEF SumFunctionOnSet, FoldFunctionOnSet, MapThenFoldSet, Adds, AddUp, Pick

(* The element taken is one of the set.                                    *)
LEMMA PickIsIn == ASSUME NEW s, s # {} PROVE Pick(s) \in s
BY DEF Pick

(* On a finite set there is such a function.                               *)
LEMMA SumIsDefined ==
  ASSUME NEW f, NEW S, IsFiniteSet(S)
  PROVE  \E g : Adds(f, g, S)
<1> DEFINE upTo(n) == {s \in SUBSET S : Cardinality(s) <= n}
           reached == {n \in Nat : \E g : g = [s \in upTo(n) |-> AddUp(f, g, s)]}
<1>1. \A s \in SUBSET S : IsFiniteSet(s) /\ Cardinality(s) \in Nat
  BY FS_Subset, FS_CardinalityType
<1>2. ASSUME NEW s \in SUBSET S, s # {}
      PROVE  /\ s \ {Pick(s)} \in SUBSET S /\ Cardinality(s \ {Pick(s)}) = Cardinality(s) - 1
  BY <1>1, <1>2, PickIsIn, FS_RemoveElement
<1>3. 0 \in reached
  <2>1. \A s \in upTo(0) : s = {}
    BY <1>1, FS_EmptySet
  <2>2. \A g : \A s \in upTo(0) : AddUp(f, g, s) = 0
    BY <2>1 DEF AddUp
  <2> DEFINE g == [s \in upTo(0) |-> 0]
  <2>3. g = [s \in upTo(0) |-> AddUp(f, g, s)]
    <3> HIDE DEF upTo
    <3> QED BY <2>2
  <2> QED BY <2>3
<1>4. ASSUME NEW n \in reached PROVE n + 1 \in reached
  <2>1. PICK g : g = [s \in upTo(n) |-> AddUp(f, g, s)]
    BY <1>4
  <2> DEFINE h == [s \in upTo(n + 1) |-> IF s \in upTo(n) THEN g[s] ELSE AddUp(f, g, s)]
  <2>2. upTo(n) \subseteq upTo(n + 1) /\ n \in Nat
    BY <1>1
  <2>3. \A s \in upTo(n + 1) : h[s] = AddUp(f, g, s)
    <3> HIDE DEF upTo
    <3> QED BY <2>1
  <2>4. ASSUME NEW s \in upTo(n + 1), s # {}
        PROVE  s \ {Pick(s)} \in upTo(n) /\ h[s \ {Pick(s)}] = g[s \ {Pick(s)}]
    <3>1. s \ {Pick(s)} \in upTo(n)
      BY <1>1, <1>2, <2>2, <2>4
    <3> HIDE DEF upTo
    <3> QED BY <2>2, <3>1
  <2>5. \A s \in upTo(n + 1) : AddUp(f, h, s) = AddUp(f, g, s)
    <3> HIDE DEF h, upTo
    <3> QED BY <2>4 DEF AddUp
  <2>6. h = [s \in upTo(n + 1) |-> AddUp(f, h, s)]
    <3>1. h = [s \in upTo(n + 1) |-> h[s]]
      OBVIOUS
    <3> HIDE DEF h, upTo
    <3> QED BY <2>3, <2>5, <3>1
  <2> HIDE DEF h, upTo
  <2> QED BY <2>2, <2>6
<1>5. reached = Nat
  <2> HIDE DEF reached
  <2>1. reached \subseteq Nat
    BY DEF reached
  <2> QED BY <1>3, <1>4, <2>1, CountingUp
<1>6. Cardinality(S) \in reached
  BY <1>1, <1>5
<1>7. upTo(Cardinality(S)) = SUBSET S
  BY <1>1, FS_Subset
<1> QED BY <1>6, <1>7, Zenon DEF Adds

(* A sum over a part of the set is the value found on the way.             *)
LEMMA PartsAddUp ==
  ASSUME NEW f, NEW S, IsFiniteSet(S), NEW g, Adds(f, g, S), NEW R \in SUBSET S, NEW h, Adds(f, h, R)
  PROVE  g[R] = h[R]
<1> DEFINE same == {s \in SUBSET R : g[s] = h[s]}
<1>1. IsFiniteSet(R)
  BY FS_Subset
<1>2. ASSUME NEW s \in SUBSET R, \A x \in s : s \ {x} \in same PROVE s \in same
  <2>1. g[s] = AddUp(f, g, s) /\ h[s] = AddUp(f, h, s)
    BY Zenon DEF Adds
  <2>2. CASE s = {}
    BY <2>1, <2>2 DEF AddUp
  <2>3. CASE s # {}
    BY <1>2, <2>1, <2>3, PickIsIn DEF AddUp
  <2> QED BY <2>2, <2>3
<1>3. SUBSET R \subseteq same
  <2> HIDE DEF same
  <2> QED BY <1>1, <1>2, BySize
<1> QED BY <1>3

(* A sum is its first term and the sum of the rest; ...                    *)
LEMMA SumUnfolds ==
  ASSUME NEW f, NEW S, IsFiniteSet(S)
  PROVE  SumFunctionOnSet(f, S) = IF S = {} THEN 0
                                  ELSE f[Pick(S)] + SumFunctionOnSet(f, S \ {Pick(S)})
<1> DEFINE sum(s) == CHOOSE g : Adds(f, g, s)
           rest == S \ {Pick(S)}
<1>1. IsFiniteSet(rest) /\ rest \in SUBSET S
  BY FS_Subset
<1>2. Adds(f, sum(S), S) /\ Adds(f, sum(rest), rest)
  <2> HIDE DEF rest
  <2> QED BY <1>1, SumIsDefined, Zenon
<1>3. SumFunctionOnSet(f, S) = sum(S)[S] /\ SumFunctionOnSet(f, rest) = sum(rest)[rest]
  BY SumIsRecursive, Zenon
<1> HIDE DEF sum
<1>4. sum(S)[S] = AddUp(f, sum(S), S)
  BY <1>2, Zenon DEF Adds
<1>5. sum(S)[rest] = sum(rest)[rest]
  <2> HIDE DEF rest
  <2> QED BY <1>1, <1>2, PartsAddUp
<1> QED BY <1>3, <1>4, <1>5 DEF AddUp

(* ... the sum of nothing is nothing, ...                                  *)
LEMMA SumOfNone == ASSUME NEW f PROVE SumFunctionOnSet(f, {}) = 0
BY SumUnfolds, FS_EmptySet

(* ... and a sum of naturals is one.                                       *)
LEMMA SumIsNat ==
  ASSUME NEW f, NEW S, IsFiniteSet(S), \A x \in S : f[x] \in Nat
  PROVE  SumFunctionOnSet(f, S) \in Nat
<1> DEFINE good == {s \in SUBSET S : SumFunctionOnSet(f, s) \in Nat}
<1>1. ASSUME NEW s \in SUBSET S, \A x \in s : s \ {x} \in good PROVE s \in good
  <2>1. SumFunctionOnSet(f, s) = IF s = {} THEN 0
                                 ELSE f[Pick(s)] + SumFunctionOnSet(f, s \ {Pick(s)})
    BY FS_Subset, SumUnfolds
  <2>2. s # {} => f[Pick(s)] \in Nat /\ SumFunctionOnSet(f, s \ {Pick(s)}) \in Nat
    BY <1>1, PickIsIn
  <2> QED BY <2>1, <2>2
<1>2. SUBSET S \subseteq good
  <2> HIDE DEF good
  <2> QED BY <1>1, BySize
<1> QED BY <1>2

(* Any element may be added last.                                          *)
LEMMA SumLess ==
  ASSUME NEW f, NEW S, IsFiniteSet(S), \A x \in S : f[x] \in Nat, NEW y \in S
  PROVE  SumFunctionOnSet(f, S) = f[y] + SumFunctionOnSet(f, S \ {y})
<1> DEFINE sum(s) == SumFunctionOnSet(f, s)
           good == {s \in SUBSET S : \A z \in s : sum(s) = f[z] + sum(s \ {z})}
<1>1. \A s \in SUBSET S : IsFiniteSet(s) /\ sum(s) \in Nat
  BY FS_Subset, SumIsNat
<1>2. ASSUME NEW s \in SUBSET S, \A x \in s : s \ {x} \in good PROVE s \in good
  <2> SUFFICES ASSUME NEW z \in s PROVE sum(s) = f[z] + sum(s \ {z})
    BY <1>2
  <2> DEFINE x == Pick(s)
  <2>1. x \in s /\ sum(s) = f[x] + sum(s \ {x})
    BY <1>1, SumUnfolds, PickIsIn
  <2>2. CASE z = x
    BY <2>1, <2>2
  <2>3. CASE z # x
    <3> HIDE DEF x, sum
    <3>1. z \in s \ {x} /\ s \ {x} \in SUBSET S
      BY <2>1, <2>3
    <3>2. sum(s \ {x}) = f[z] + sum((s \ {x}) \ {z})
      BY <1>2, <2>1, <2>3
    <3>3. sum(s \ {z}) = f[x] + sum((s \ {z}) \ {x})
      BY <1>2, <2>1, <2>3
    <3>4. (s \ {x}) \ {z} = (s \ {z}) \ {x} /\ (s \ {x}) \ {z} \in SUBSET S
      OBVIOUS
    <3>5. f[x] \in Nat /\ f[z] \in Nat /\ sum((s \ {x}) \ {z}) \in Nat
      BY <1>1, <2>1, <3>4
    <3>6. \A a, b, c \in Nat : a + (b + c) = b + (a + c)
      OBVIOUS
    <3> DEFINE common == sum((s \ {x}) \ {z})
    <3>7. f[x] + (f[z] + common) = f[z] + (f[x] + common)
      BY <3>5, <3>6, Zenon
    <3>8. sum(s \ {x}) = f[z] + common /\ sum(s \ {z}) = f[x] + common
      BY <3>2, <3>3, <3>4, Zenon
    <3> HIDE DEF common
    <3> QED BY <2>1, <3>7, <3>8, Zenon
  <2> QED BY <2>2, <2>3
<1>3. SUBSET S \subseteq good
  <2> HIDE DEF good, sum
  <2> QED BY <1>2, BySize
<1> QED BY <1>3

(* Larger terms have a larger sum, ...                                     *)
LEMMA SumsAreOrdered ==
  ASSUME NEW f, NEW g, NEW S, IsFiniteSet(S),
         \A x \in S : f[x] \in Nat /\ g[x] \in Nat /\ f[x] <= g[x]
  PROVE  SumFunctionOnSet(f, S) <= SumFunctionOnSet(g, S)
<1> DEFINE good == {s \in SUBSET S : SumFunctionOnSet(f, s) <= SumFunctionOnSet(g, s)}
<1>1. ASSUME NEW s \in SUBSET S, \A x \in s : s \ {x} \in good PROVE s \in good
  <2>1. IsFiniteSet(s) /\ IsFiniteSet(s \ {Pick(s)})
    BY FS_Subset
  <2>2. CASE s = {}
    BY <2>2, SumOfNone
  <2>3. CASE s # {}
    <3> DEFINE x == Pick(s)
               rest == s \ {x}
    <3>1. x \in S /\ rest \in good
      BY <1>1, <2>3, PickIsIn
    <3>2. /\ SumFunctionOnSet(f, s) = f[x] + SumFunctionOnSet(f, rest)
          /\ SumFunctionOnSet(g, s) = g[x] + SumFunctionOnSet(g, rest)
      BY <2>1, <2>3, SumUnfolds
    <3>3. SumFunctionOnSet(f, rest) \in Nat /\ SumFunctionOnSet(g, rest) \in Nat
      BY <2>1, SumIsNat
    <3> HIDE DEF x, rest
    <3> QED BY <3>1, <3>2, <3>3
  <2> QED BY <2>2, <2>3
<1>2. SUBSET S \subseteq good
  <2> HIDE DEF good
  <2> QED BY <1>1, BySize
<1> QED BY <1>2

(* ... and equal terms the same one.                                       *)
LEMMA SumsAreEqual ==
  ASSUME NEW f, NEW g, NEW S, IsFiniteSet(S), \A x \in S : f[x] = g[x]
  PROVE  SumFunctionOnSet(f, S) = SumFunctionOnSet(g, S)
<1> DEFINE good == {s \in SUBSET S : SumFunctionOnSet(f, s) = SumFunctionOnSet(g, s)}
<1>1. ASSUME NEW s \in SUBSET S, \A x \in s : s \ {x} \in good PROVE s \in good
  <2>1. IsFiniteSet(s)
    BY FS_Subset
  <2>2. CASE s = {}
    BY <2>2, SumOfNone
  <2>3. CASE s # {}
    <3>1. f[Pick(s)] = g[Pick(s)] /\ s \ {Pick(s)} \in good
      BY <1>1, <2>3, PickIsIn
    <3>2. /\ SumFunctionOnSet(f, s) = f[Pick(s)] + SumFunctionOnSet(f, s \ {Pick(s)})
          /\ SumFunctionOnSet(g, s) = g[Pick(s)] + SumFunctionOnSet(g, s \ {Pick(s)})
      BY <2>1, <2>3, SumUnfolds
    <3> QED BY <3>1, <3>2
  <2> QED BY <2>2, <2>3
<1>2. SUBSET S \subseteq good
  <2> HIDE DEF good
  <2> QED BY <1>1, BySize
<1> QED BY <1>2

(* One term changes.                                                       *)
LEMMA SumChanges ==
  ASSUME NEW f, NEW g, NEW S, IsFiniteSet(S), NEW y \in S,
         \A x \in S : f[x] \in Nat /\ g[x] \in Nat, \A x \in S \ {y} : f[x] = g[x]
  PROVE  SumFunctionOnSet(g, S) = SumFunctionOnSet(f, S) - f[y] + g[y]
<1>1. IsFiniteSet(S \ {y})
  BY FS_Subset
<1>2. /\ SumFunctionOnSet(f, S) = f[y] + SumFunctionOnSet(f, S \ {y})
      /\ SumFunctionOnSet(g, S) = g[y] + SumFunctionOnSet(g, S \ {y})
  BY SumLess
<1>3. SumFunctionOnSet(f, S \ {y}) = SumFunctionOnSet(g, S \ {y})
  BY <1>1, SumsAreEqual
<1>4. SumFunctionOnSet(f, S \ {y}) \in Nat
  BY <1>1, SumIsNat
<1> QED BY <1>2, <1>3, <1>4

(* A term of nothing is added.                                             *)
LEMMA SumGrows ==
  ASSUME NEW f, NEW S, IsFiniteSet(S), NEW y, y \in S \/ f[y] = 0,
         \A x \in S \cup {y} : f[x] \in Nat
  PROVE  IsFiniteSet(S \cup {y}) /\ SumFunctionOnSet(f, S \cup {y}) = SumFunctionOnSet(f, S)
<1>1. IsFiniteSet(S \cup {y})
  BY FS_AddElement
<1>2. CASE y \in S
  <2>1. S \cup {y} = S
    BY <1>2
  <2> QED BY <1>1, <2>1
<1>3. CASE y \notin S
  <2>1. SumFunctionOnSet(f, S \cup {y}) = f[y] + SumFunctionOnSet(f, (S \cup {y}) \ {y})
    BY <1>1, SumLess
  <2>2. (S \cup {y}) \ {y} = S
    BY <1>3
  <2>3. SumFunctionOnSet(f, S) \in Nat
    BY SumIsNat
  <2> QED BY <1>1, <1>3, <2>1, <2>2, <2>3
<1> QED BY <1>2, <1>3

-----------------------------------------------------------------------------
(* ITERATIONS.  The values of a recursive function on the numbers ...      *)
Iterates(f, first, step) == f = [n \in Nat |-> IF n = 0 THEN first ELSE step[f[n - 1]]]

(* ... are found one after the other, so that there is such a function.    *)
LEMMA IterationExists ==
  ASSUME NEW first, NEW step
  PROVE  \E f : Iterates(f, first, step)
<1> DEFINE UpTo(n, g) == g = [m \in 0..n |-> IF m = 0 THEN first ELSE step[g[m - 1]]]
           reached == {n \in Nat : \E g : UpTo(n, g)}
<1>1. 0 \in reached
  <2> DEFINE g == [m \in 0..0 |-> first]
  <2>1. UpTo(0, g)
    OBVIOUS
  <2> QED BY <2>1
<1>2. ASSUME NEW n \in reached PROVE n + 1 \in reached
  <2>1. PICK g : UpTo(n, g)
    BY <1>2
  <2> DEFINE h == [m \in 0..(n + 1) |-> IF m = n + 1 THEN step[g[n]] ELSE g[m]]
  <2>2. n \in Nat
    OBVIOUS
  <2>3. \A m \in 0..n : g[m] = IF m = 0 THEN first ELSE step[g[m - 1]]
    BY <2>1
  <2>4. ASSUME NEW m \in 0..(n + 1)
        PROVE  h[m] = IF m = 0 THEN first ELSE step[h[m - 1]]
    <3>1. CASE m = 0
      BY <2>2, <2>3, <3>1
    <3>2. CASE m = n + 1
      BY <2>2, <3>2
    <3>3. CASE m \in 1..n
      BY <2>2, <2>3, <3>3
    <3> QED BY <2>2, <3>1, <3>2, <3>3
  <2>5. UpTo(n + 1, h)
    <3>1. h = [m \in 0..(n + 1) |-> h[m]]
      OBVIOUS
    <3> HIDE DEF h
    <3> QED BY <2>4, <3>1
  <2> HIDE DEF h, UpTo
  <2> QED BY <2>2, <2>5
<1>3. reached = Nat
  <2> HIDE DEF UpTo
  <2>1. reached \subseteq Nat
    OBVIOUS
  <2> HIDE DEF reached
  <2> QED BY <1>1, <1>2, <2>1, CountingUp
<1> DEFINE part(n) == CHOOSE g : UpTo(n, g)
<1>4. \A n \in Nat : UpTo(n, part(n))
  <2> HIDE DEF UpTo
  <2> QED BY <1>3
<1>5. ASSUME NEW n \in Nat, NEW m \in 0..n
      PROVE  part(n)[m] = IF m = 0 THEN first ELSE step[part(n)[m - 1]]
  <2>1. UpTo(n, part(n))
    BY <1>4
  <2> HIDE DEF part
  <2> QED BY <2>1
<1> HIDE DEF part
<1>6. ASSUME NEW n \in Nat, NEW k \in Nat
      PROVE  \A m \in 0..n : m <= k => part(n)[m] = part(k)[m]
  <2> DEFINE same == {m \in Nat : m <= n /\ m <= k => part(n)[m] = part(k)[m]}
  <2>1. 0 \in same
    BY <1>5
  <2>2. ASSUME NEW m \in same PROVE m + 1 \in same
    <3> SUFFICES ASSUME m + 1 <= n, m + 1 <= k PROVE part(n)[m + 1] = part(k)[m + 1]
      OBVIOUS
    <3>1. m \in 0..n /\ m \in 0..k /\ m + 1 \in 0..n /\ m + 1 \in 0..k /\ m + 1 # 0 /\ (m + 1) - 1 = m
      OBVIOUS
    <3>2. part(n)[m + 1] = step[part(n)[m]] /\ part(k)[m + 1] = step[part(k)[m]]
      BY <1>5, <3>1
    <3> QED BY <2>2, <3>1, <3>2
  <2>3. same = Nat
    <3>1. same \subseteq Nat
      OBVIOUS
    <3> HIDE DEF same
    <3> QED BY <2>1, <2>2, <3>1, CountingUp
  <2> QED BY <2>3
<1> DEFINE f == [n \in Nat |-> part(n)[n]]
<1>7. ASSUME NEW n \in Nat PROVE f[n] = IF n = 0 THEN first ELSE step[f[n - 1]]
  <2>1. CASE n = 0
    BY <1>5, <2>1
  <2>2. CASE n # 0
    <3>1. n - 1 \in Nat /\ n - 1 \in 0..n /\ n \in 0..n
      BY <2>2
    <3>2. part(n)[n] = step[part(n)[n - 1]] /\ part(n)[n - 1] = part(n - 1)[n - 1]
      BY <1>5, <1>6, <2>2, <3>1
    <3> QED BY <2>2, <3>1, <3>2
  <2> QED BY <2>1, <2>2
<1>8. f = [n \in Nat |-> f[n]]
  OBVIOUS
<1> HIDE DEF f
<1>9. f = [n \in Nat |-> IF n = 0 THEN first ELSE step[f[n - 1]]]
  BY <1>7, <1>8
<1> QED BY <1>9 DEF Iterates

(* One iteration after another.                                            *)
LEMMA IterationStep ==
  ASSUME NEW first, NEW step, NEW f, Iterates(f, first, step)
  PROVE  f[0] = first /\ \A n \in Nat : f[n + 1] = step[f[n]]
<1>1. \A n \in Nat : f[n] = IF n = 0 THEN first ELSE step[f[n - 1]]
  BY DEF Iterates
<1>2. ASSUME NEW n \in Nat PROVE f[n + 1] = step[f[n]]
  <2>1. n + 1 \in Nat /\ n + 1 # 0 /\ (n + 1) - 1 = n
    OBVIOUS
  <2> QED BY <1>1, <2>1
<1> QED BY <1>1, <1>2

(* A step that only adds, within a set, and a set that a step stays in.    *)
Grows(step, U) ==
  step \in [SUBSET U -> SUBSET U] /\ \A S \in SUBSET U : S \subseteq step[S]

StaysIn(f, T) == \A n \in Nat : f[n] \subseteq T
Holds(f, first) == \A n \in Nat : first \subseteq f[n]
ClosedUnder(step, T) == \A S \in SUBSET T : step[S] \subseteq T

(* Sets that only grow hold the first.                                     *)
LEMMA IterationsGrow ==
  ASSUME NEW U, NEW step, Grows(step, U),
         NEW first, first \subseteq U, NEW f, Iterates(f, first, step)
  PROVE  StaysIn(f, U) /\ Holds(f, first)
<1>1. f[0] = first /\ \A n \in Nat : f[n + 1] = step[f[n]]
  BY IterationStep
<1> DEFINE good == {n \in Nat : f[n] \in SUBSET U /\ first \subseteq f[n]}
<1>2. 0 \in good /\ \A n \in good : n + 1 \in good
  BY <1>1 DEF Grows
<1>3. good \subseteq Nat
  OBVIOUS
<1>4. good = Nat
  <2> HIDE DEF good
  <2> QED BY <1>2, <1>3, CountingUp
<1> QED BY <1>4 DEF StaysIn, Holds

(* They stay within any closed set that holds the first.                   *)
LEMMA IterationsAreLeast ==
  ASSUME NEW first, NEW step, NEW f, Iterates(f, first, step),
         NEW T, first \subseteq T, ClosedUnder(step, T)
  PROVE  StaysIn(f, T)
<1>1. f[0] = first /\ \A n \in Nat : f[n + 1] = step[f[n]]
  BY IterationStep
<1> DEFINE good == {n \in Nat : f[n] \subseteq T}
<1>2. 0 \in good /\ \A n \in good : n + 1 \in good
  BY <1>1 DEF ClosedUnder
<1>3. good \subseteq Nat
  OBVIOUS
<1>4. good = Nat
  <2> HIDE DEF good
  <2> QED BY <1>2, <1>3, CountingUp
<1> QED BY <1>4 DEF StaysIn

(* Within a finite set they are closed after as many steps as it has       *)
(* elements.                                                               *)
LEMMA IterationsClose ==
  ASSUME NEW U, IsFiniteSet(U), NEW step, Grows(step, U),
         NEW first, first \subseteq U, NEW f, Iterates(f, first, step)
  PROVE  step[f[Cardinality(U)]] = f[Cardinality(U)]
<1>1. f[0] = first /\ \A n \in Nat : f[n + 1] = step[f[n]]
  BY IterationStep
<1>2. \A n \in Nat : f[n] \in SUBSET U /\ first \subseteq f[n]
  BY IterationsGrow DEF StaysIn, Holds
<1>3. \A n \in Nat : step[f[n]] = f[n] \/ Cardinality(f[n]) >= n
  <2> DEFINE good == {n \in Nat : step[f[n]] = f[n] \/ Cardinality(f[n]) >= n}
  <2>1. \A n \in Nat : IsFiniteSet(f[n]) /\ Cardinality(f[n]) \in Nat
    BY <1>2, FS_Subset, FS_CardinalityType
  <2>2. 0 \in good
    BY <2>1
  <2>3. ASSUME NEW n \in good PROVE n + 1 \in good
    <3>1. n \in Nat /\ n + 1 \in Nat
      OBVIOUS
    <3>2. CASE step[f[n]] = f[n]
      <4>1. f[n + 1] = f[n]
        BY <1>1, <3>2
      <4> QED BY <3>1, <3>2, <4>1
    <3>3. CASE step[f[n]] # f[n]
      <4>1. f[n] \subseteq f[n + 1] /\ f[n] # f[n + 1]
        BY <1>1, <1>2, <3>3 DEF Grows
      <4>2. Cardinality(f[n]) < Cardinality(f[n + 1])
        <5>1. f[n] \in SUBSET f[n + 1] /\ IsFiniteSet(f[n + 1])
          BY <2>1, <4>1
        <5>2. Cardinality(f[n]) <= Cardinality(f[n + 1]) /\ Cardinality(f[n]) # Cardinality(f[n + 1])
          BY <4>1, <5>1, FS_Subset
        <5> QED BY <2>1, <5>2
      <4>3. Cardinality(f[n]) >= n
        BY <2>3, <3>3
      <4>4. Cardinality(f[n + 1]) >= n + 1
        BY <2>1, <3>1, <4>2, <4>3
      <4> QED BY <3>1, <4>4
    <3> QED BY <3>2, <3>3
  <2>4. good \subseteq Nat
    OBVIOUS
  <2>5. good = Nat
    <3> HIDE DEF good
    <3> QED BY <2>2, <2>3, <2>4, CountingUp
  <2> QED BY <2>5
<1> DEFINE n == Cardinality(U)
<1>4. n \in Nat
  BY FS_CardinalityType
<1>5. f[n] \in SUBSET U /\ step[f[n]] \in SUBSET U /\ f[n] \subseteq step[f[n]]
  BY <1>2, <1>4 DEF Grows
<1>6. CASE Cardinality(f[n]) >= n
  <2>1. Cardinality(f[n]) <= n /\ Cardinality(f[n]) \in Nat /\ (Cardinality(f[n]) = n => f[n] = U)
    BY <1>5, FS_Subset, FS_CardinalityType
  <2>2. f[n] = U
    BY <1>4, <1>6, <2>1
  <2> QED BY <1>5, <2>2
<1> HIDE DEF n
<1>7. step[f[n]] = f[n] \/ Cardinality(f[n]) >= n
  BY <1>3, <1>4
<1> QED BY <1>6, <1>7 DEF n

(* A finite set has an element with the largest of their numbers.          *)
LEMMA LargestNumber ==
  ASSUME NEW S, IsFiniteSet(S), S # {}, NEW f, \A x \in S : f[x] \in Int
  PROVE  \E x \in S : \A y \in S : f[x] >= f[y]
<1> DEFINE good == {s \in SUBSET S : s # {} => \E x \in s : \A y \in s : f[x] >= f[y]}
<1>1. ASSUME NEW s \in SUBSET S, \A x \in s : s \ {x} \in good PROVE s \in good
  <2> SUFFICES ASSUME s # {} PROVE \E x \in s : \A y \in s : f[x] >= f[y]
    OBVIOUS
  <2>1. PICK z \in s : TRUE
    OBVIOUS
  <2>2. CASE s \ {z} = {}
    BY <2>1, <2>2
  <2>3. CASE s \ {z} # {}
    <3>1. PICK x \in s \ {z} : \A y \in s \ {z} : f[x] >= f[y]
      BY <1>1, <2>1, <2>3
    <3>2. f[x] \in Int /\ f[z] \in Int /\ \A y \in s : f[y] \in Int
      BY <2>1
    <3>3. CASE f[x] >= f[z]
      BY <3>1, <3>3
    <3>4. CASE ~(f[x] >= f[z])
      BY <2>1, <3>1, <3>2, <3>4
    <3> QED BY <3>3, <3>4
  <2> QED BY <2>2, <2>3
<1>2. SUBSET S \subseteq good
  <2> HIDE DEF good
  <2> QED BY <1>1, BySize
<1> QED BY <1>2

-----------------------------------------------------------------------------
(* FOLDS.  A finite set of numbers has a largest one.                      *)
LEMMA LargestIsIn ==
  ASSUME NEW S, IsFiniteSet(S), S # {}, S \subseteq Int
  PROVE  Max(S) \in S /\ \A y \in S : Max(S) >= y
<1> DEFINE f == [x \in S |-> x]
<1>1. \E x \in S : \A y \in S : f[x] >= f[y]
  <2>1. \A x \in S : f[x] \in Int
    OBVIOUS
  <2> HIDE DEF f
  <2> QED BY <2>1, LargestNumber
<1>2. \E x \in S : \A y \in S : x >= y
  BY <1>1
<1> QED BY <1>2 DEF Max

(* The largest of two numbers, ...                                         *)
LEMMA LargestOfTwo ==
  ASSUME NEW a \in Int, NEW b \in Int
  PROVE  Max({a, b}) = IF a >= b THEN a ELSE b
<1>1. IsFiniteSet({a} \cup {b}) /\ {a, b} = {a} \cup {b}
  BY FS_Singleton, FS_AddElement
<1>2. Max({a, b}) \in {a, b} /\ \A y \in {a, b} : Max({a, b}) >= y
  <2>1. {a, b} # {} /\ {a, b} \subseteq Int
    OBVIOUS
  <2> QED BY <1>1, <2>1, LargestIsIn
<1> QED BY <1>2

(* ... and of the first k.                                                 *)
LEMMA LargestOfFirst ==
  ASSUME NEW k \in Nat, k # 0
  PROVE  Max(1..k) = k /\ (1..k) \ {k} = 1..(k - 1)
<1> DEFINE S == 1..k
<1>1. IsFiniteSet(S) /\ S \subseteq Int
  BY FS_Interval
<1>2. k \in S
  OBVIOUS
<1>3. Max(S) \in S /\ \A y \in S : Max(S) >= y
  <2> HIDE DEF S
  <2> QED BY <1>1, <1>2, LargestIsIn
<1>4. Max(S) = k
  BY <1>3
<1> QED BY <1>4

(* What takes the largest number of a set off, one after the other, is     *)
(* defined.                                                                *)
FoldsBy(g, n, base, step) ==
  g = [s \in SUBSET (1..n) |-> IF s = {} THEN base ELSE step[<<Max(s), g[s \ {Max(s)}]>>]]

(* There is such a function, ...                                           *)
LEMMA FoldIsDefined ==
  ASSUME NEW n \in Nat, NEW base, NEW step
  PROVE  \E g : FoldsBy(g, n, base, step)
<1> DEFINE S == 1..n
           Fold(g, s) == IF s = {} THEN base ELSE step[<<Max(s), g[s \ {Max(s)}]>>]
           upTo(k) == {s \in SUBSET S : Cardinality(s) <= k}
           reached == {k \in Nat : \E g : g = [s \in upTo(k) |-> Fold(g, s)]}
<1>0. IsFiniteSet(S) /\ S \subseteq Int
  BY FS_Interval
<1>1. \A s \in SUBSET S : IsFiniteSet(s) /\ Cardinality(s) \in Nat
  BY <1>0, FS_Subset, FS_CardinalityType
<1>2. ASSUME NEW s \in SUBSET S, s # {}
      PROVE  /\ s \ {Max(s)} \in SUBSET S /\ Cardinality(s \ {Max(s)}) = Cardinality(s) - 1
  <2>1. Max(s) \in s
    BY <1>0, <1>1, <1>2, LargestIsIn
  <2> QED BY <1>1, <2>1, FS_RemoveElement
<1>3. 0 \in reached
  <2>1. \A s \in upTo(0) : s = {}
    BY <1>1, FS_EmptySet
  <2>2. \A g : \A s \in upTo(0) : Fold(g, s) = base
    BY <2>1
  <2> DEFINE g == [s \in upTo(0) |-> base]
  <2>3. g = [s \in upTo(0) |-> Fold(g, s)]
    <3> HIDE DEF upTo, Fold
    <3> QED BY <2>2
  <2> QED BY <2>3
<1>4. ASSUME NEW k \in reached PROVE k + 1 \in reached
  <2>1. PICK g : g = [s \in upTo(k) |-> Fold(g, s)]
    BY <1>4
  <2> DEFINE h == [s \in upTo(k + 1) |-> IF s \in upTo(k) THEN g[s] ELSE Fold(g, s)]
  <2>2. upTo(k) \subseteq upTo(k + 1) /\ k \in Nat
    BY <1>1
  <2>3. \A s \in upTo(k + 1) : h[s] = Fold(g, s)
    <3> HIDE DEF upTo, Fold
    <3> QED BY <2>1
  <2>4. ASSUME NEW s \in upTo(k + 1), s # {}
        PROVE  s \ {Max(s)} \in upTo(k) /\ h[s \ {Max(s)}] = g[s \ {Max(s)}]
    <3>1. s \ {Max(s)} \in upTo(k)
      BY <1>1, <1>2, <2>2, <2>4
    <3> HIDE DEF upTo
    <3> QED BY <2>2, <3>1
  <2>5. \A s \in upTo(k + 1) : Fold(h, s) = Fold(g, s)
    <3> HIDE DEF h, upTo
    <3> QED BY <2>4
  <2>6. h = [s \in upTo(k + 1) |-> Fold(h, s)]
    <3>1. h = [s \in upTo(k + 1) |-> h[s]]
      OBVIOUS
    <3> HIDE DEF h, upTo, Fold
    <3> QED BY <2>3, <2>5, <3>1
  <2> HIDE DEF h, upTo, Fold
  <2> QED BY <2>2, <2>6
<1>5. reached = Nat
  <2> HIDE DEF reached
  <2>1. reached \subseteq Nat
    BY DEF reached
  <2> QED BY <1>3, <1>4, <2>1, CountingUp
<1>6. Cardinality(S) \in reached
  BY <1>1, <1>5
<1>7. upTo(Cardinality(S)) = SUBSET S
  BY <1>0, <1>1, FS_Subset
<1> QED BY <1>6, <1>7, Zenon DEF FoldsBy

(* Its values stay in the set that the step stays in.                      *)
LEMMA FoldIsTyped ==
  ASSUME NEW n \in Nat, NEW T, NEW base \in T, NEW step,
         \A i \in 1..n : \A x \in T : step[<<i, x>>] \in T,
         NEW g, FoldsBy(g, n, base, step)
  PROVE  \A s \in SUBSET (1..n) : g[s] \in T
<1> DEFINE S == 1..n
           good == {s \in SUBSET S : g[s] \in T}
<1>1. IsFiniteSet(S) /\ S \subseteq Int
  BY FS_Interval
<1>2. ASSUME NEW s \in SUBSET S, \A x \in s : s \ {x} \in good PROVE s \in good
  <2>1. g[s] = IF s = {} THEN base ELSE step[<<Max(s), g[s \ {Max(s)}]>>]
    BY Zenon DEF FoldsBy
  <2>2. CASE s = {}
    BY <2>1, <2>2
  <2>3. CASE s # {}
    <3>1. Max(s) \in s
      BY <1>1, <2>3, FS_Subset, LargestIsIn
    <3> QED BY <1>2, <2>1, <2>3, <3>1
  <2> QED BY <2>2, <2>3
<1>3. SUBSET S \subseteq good
  <2> HIDE DEF good, S
  <2> QED BY <1>1, <1>2, BySize
<1> QED BY <1>3

(* What repeats a step until it changes nothing is defined, when every     *)
(* change brings it nearer to an end.                                      *)
LEMMA RepeatingEnds ==
  ASSUME NEW S, NEW step \in [S -> S], NEW rank \in [S -> Nat],
         \A s \in S : step[s] = s \/ rank[step[s]] < rank[s]
  PROVE  \E f : f = [s \in S |-> IF step[s] = s THEN s ELSE f[step[s]]]
<1> DEFINE first == [s \in S |-> s]
           Once(f) == [s \in S |-> IF step[s] = s THEN s ELSE f[step[s]]]
           again == [f \in [S -> S] |-> Once(f)]
<1>1. PICK h : Iterates(h, first, again)
  BY IterationExists
<1>2. h[0] = first /\ \A n \in Nat : h[n + 1] = again[h[n]]
  <2> HIDE DEF first, again
  <2> QED BY <1>1, IterationStep
<1>3. \A n \in Nat : h[n] \in [S -> S]
  <2> DEFINE good == {n \in Nat : h[n] \in [S -> S]}
  <2>1. 0 \in good
    BY <1>2
  <2>2. ASSUME NEW n \in good PROVE n + 1 \in good
    <3>1. again[h[n]] = Once(h[n]) /\ Once(h[n]) \in [S -> S]
      OBVIOUS
    <3> HIDE DEF again, Once
    <3> QED BY <1>2, <3>1
  <2>3. good = Nat
    <3>1. good \subseteq Nat
      OBVIOUS
    <3> HIDE DEF good
    <3> QED BY <2>1, <2>2, <3>1, CountingUp
  <2> QED BY <2>3
<1>4. \A n \in Nat : \A s \in S : h[n + 1][s] = IF step[s] = s THEN s ELSE h[n][step[s]]
  <2> SUFFICES ASSUME NEW n \in Nat, NEW s \in S
               PROVE  h[n + 1][s] = IF step[s] = s THEN s ELSE h[n][step[s]]
    OBVIOUS
  <2>1. h[n + 1] = Once(h[n])
    BY <1>2, <1>3
  <2> HIDE DEF first, again
  <2> QED BY <2>1
<1>5. \A n \in Nat : \A s \in S : rank[s] <= n => h[n + 1][s] = h[n][s]
  <2> DEFINE good == {n \in Nat : \A s \in S : rank[s] <= n => h[n + 1][s] = h[n][s]}
  <2>1. 0 \in good
    <3> SUFFICES ASSUME NEW s \in S, rank[s] <= 0 PROVE h[0 + 1][s] = h[0][s]
      OBVIOUS
    <3>1. step[s] = s
      OBVIOUS
    <3> HIDE DEF again
    <3> QED BY <1>2, <1>4, <3>1
  <2>2. ASSUME NEW n \in good PROVE n + 1 \in good
    <3> SUFFICES ASSUME NEW s \in S, rank[s] <= n + 1 PROVE h[(n + 1) + 1][s] = h[n + 1][s]
      OBVIOUS
    <3>1. CASE step[s] = s
      BY <1>4, <3>1
    <3>2. CASE step[s] # s
      <4>1. step[s] \in S /\ rank[step[s]] \in Nat /\ rank[s] \in Nat /\ rank[step[s]] < rank[s] /\ n \in Nat
        BY <3>2
      <4>2. rank[step[s]] <= n
        BY <4>1
      <4>3. h[n + 1][step[s]] = h[n][step[s]]
        BY <2>2, <4>1, <4>2
      <4> QED BY <1>4, <3>2, <4>1, <4>3
    <3> QED BY <3>1, <3>2
  <2>3. good = Nat
    <3>1. good \subseteq Nat
      OBVIOUS
    <3> HIDE DEF good
    <3> QED BY <2>1, <2>2, <3>1, CountingUp
  <2> QED BY <2>3
<1>6. ASSUME NEW s \in S, NEW k \in Nat, rank[s] <= k PROVE h[k][s] = h[rank[s]][s]
  <2> DEFINE r == rank[s]
             good == {n \in Nat : h[r + n][s] = h[r][s]}
  <2>0. r \in Nat
    OBVIOUS
  <2> HIDE DEF r
  <2>1. 0 \in good
    BY <2>0
  <2>2. ASSUME NEW n \in good PROVE n + 1 \in good
    <3>1. n \in Nat /\ r + n \in Nat /\ rank[s] <= r + n /\ r + (n + 1) = (r + n) + 1
      BY <2>0 DEF r
    <3> QED BY <1>5, <2>2, <3>1
  <2>3. good = Nat
    <3>1. good \subseteq Nat
      OBVIOUS
    <3> HIDE DEF good
    <3> QED BY <2>1, <2>2, <3>1, CountingUp
  <2>4. k - r \in Nat /\ r + (k - r) = k
    BY <1>6, <2>0 DEF r
  <2> QED BY <2>3, <2>4 DEF r
<1> DEFINE f == [s \in S |-> h[rank[s]][s]]
<1>7. ASSUME NEW s \in S PROVE f[s] = IF step[s] = s THEN s ELSE f[step[s]]
  <2>1. rank[s] \in Nat /\ step[s] \in S /\ rank[step[s]] \in Nat
    OBVIOUS
  <2>2. f[s] = h[rank[s] + 1][s]
    BY <1>5, <2>1
  <2>3. f[s] = IF step[s] = s THEN s ELSE h[rank[s]][step[s]]
    <3> HIDE DEF f
    <3> QED BY <1>4, <2>1, <2>2
  <2>4. step[s] # s => h[rank[s]][step[s]] = f[step[s]]
    BY <1>6, <2>1
  <2> HIDE DEF f
  <2> QED BY <2>3, <2>4
<1>8. f = [s \in S |-> f[s]]
  OBVIOUS
<1> HIDE DEF f
<1>9. f = [s \in S |-> IF step[s] = s THEN s ELSE f[step[s]]]
  BY <1>7, <1>8
<1> QED BY <1>9

(* The sum of sums, and of a multiple.                                     *)
LEMMA SumsAdd ==
  ASSUME NEW f, NEW g, NEW h, NEW S, IsFiniteSet(S),
         \A x \in S : f[x] \in Nat /\ g[x] \in Nat /\ h[x] = f[x] + g[x]
  PROVE  SumFunctionOnSet(h, S) = SumFunctionOnSet(f, S) + SumFunctionOnSet(g, S)
<1> DEFINE good == {s \in SUBSET S : SumFunctionOnSet(h, s) = SumFunctionOnSet(f, s) + SumFunctionOnSet(g, s)}
<1>1. ASSUME NEW s \in SUBSET S, \A x \in s : s \ {x} \in good PROVE s \in good
  <2>1. IsFiniteSet(s) /\ IsFiniteSet(s \ {Pick(s)})
    BY FS_Subset
  <2>2. CASE s = {}
    BY <2>2, SumOfNone
  <2>3. CASE s # {}
    <3> DEFINE x == Pick(s)
               rest == s \ {x}
    <3>1. x \in S /\ rest \in good
      BY <1>1, <2>3, PickIsIn
    <3>2. /\ SumFunctionOnSet(f, s) = f[x] + SumFunctionOnSet(f, rest)
          /\ SumFunctionOnSet(g, s) = g[x] + SumFunctionOnSet(g, rest)
          /\ SumFunctionOnSet(h, s) = h[x] + SumFunctionOnSet(h, rest)
      BY <2>1, <2>3, SumUnfolds
    <3>3. SumFunctionOnSet(f, rest) \in Nat /\ SumFunctionOnSet(g, rest) \in Nat
      BY <2>1, SumIsNat
    <3>4. f[x] \in Nat /\ g[x] \in Nat /\ h[x] = f[x] + g[x]
      BY <3>1
    <3>5. SumFunctionOnSet(h, rest) = SumFunctionOnSet(f, rest) + SumFunctionOnSet(g, rest)
      BY <3>1
    <3> HIDE DEF x, rest
    <3>6. SumFunctionOnSet(h, s) = SumFunctionOnSet(f, s) + SumFunctionOnSet(g, s)
      BY <3>2, <3>3, <3>4, <3>5
    <3> QED BY <3>6
  <2> QED BY <2>2, <2>3
<1>2. SUBSET S \subseteq good
  <2> HIDE DEF good
  <2> QED BY <1>1, BySize
<1> QED BY <1>2

Scales(h, c, f, S) == \A x \in S : f[x] \in Nat /\ h[x] = c * f[x]

LEMMA SumScales ==
  ASSUME NEW f, NEW h, NEW c \in Nat, NEW S, IsFiniteSet(S), Scales(h, c, f, S)
  PROVE  SumFunctionOnSet(h, S) = c * SumFunctionOnSet(f, S)
<1> DEFINE good == {s \in SUBSET S : SumFunctionOnSet(h, s) = c * SumFunctionOnSet(f, s)}
<1>1. ASSUME NEW s \in SUBSET S, \A x \in s : s \ {x} \in good PROVE s \in good
  <2>1. IsFiniteSet(s) /\ IsFiniteSet(s \ {Pick(s)})
    BY FS_Subset
  <2>2. CASE s = {}
    BY <2>2, SumOfNone
  <2>3. CASE s # {}
    <3> DEFINE x == Pick(s)
               rest == s \ {x}
    <3>1. x \in S /\ rest \in good
      BY <1>1, <2>3, PickIsIn
    <3>2. /\ SumFunctionOnSet(f, s) = f[x] + SumFunctionOnSet(f, rest)
          /\ SumFunctionOnSet(h, s) = h[x] + SumFunctionOnSet(h, rest)
      BY <2>1, <2>3, SumUnfolds
    <3>3. SumFunctionOnSet(f, rest) \in Nat
      <4>1. \A y \in rest : f[y] \in Nat
        BY DEF Scales
      <4>2. IsFiniteSet(rest)
        BY <2>1
      <4> HIDE DEF rest
      <4> QED BY <4>1, <4>2, SumIsNat
    <3>4. f[x] \in Nat /\ h[x] = c * f[x]
      BY <3>1 DEF Scales
    <3>5. SumFunctionOnSet(h, rest) = c * SumFunctionOnSet(f, rest)
      BY <3>1
    <3>6. \A a, b \in Nat : c * a + c * b = c * (a + b)
      OBVIOUS
    <3> HIDE DEF x, rest
    <3>7. SumFunctionOnSet(h, s) = c * SumFunctionOnSet(f, s)
      BY <3>2, <3>3, <3>4, <3>5, <3>6
    <3> QED BY <3>7
  <2> QED BY <2>2, <2>3
<1>2. SUBSET S \subseteq good
  <2> HIDE DEF good
  <2> QED BY <1>1, BySize
<1> QED BY <1>2

-----------------------------------------------------------------------------
(* Terms may be taken from another set that they are numbered by.          *)
Renumbers(g, f, pi, S, T) ==
  /\ pi \in Bijection(S, T) /\ \A x \in S : g[x] = f[pi[x]] /\ f[pi[x]] \in Nat

(* They add up to the same.                                                *)
LEMMA SumIsRenumbered ==
  ASSUME NEW f, NEW g, NEW S, NEW T, IsFiniteSet(S), NEW pi, Renumbers(g, f, pi, S, T)
  PROVE  IsFiniteSet(T) /\ SumFunctionOnSet(g, S) = SumFunctionOnSet(f, T)
<1> DEFINE image(s) == {pi[x] : x \in s}
           good == {s \in SUBSET S : SumFunctionOnSet(g, s) = SumFunctionOnSet(f, image(s))}
<1>1. /\ \A x \in S : pi[x] \in T
      /\ \A x, y \in S : pi[x] = pi[y] => x = y
      /\ \A z \in T : \E x \in S : pi[x] = z
      /\ \A x \in S : g[x] = f[pi[x]] /\ g[x] \in Nat
  BY DEF Renumbers, Bijection, Injection, Surjection, IsInjective
<1>2. IsFiniteSet(T)
  BY FS_Bijection DEF Renumbers, ExistsBijection
<1>3. ASSUME NEW s \in SUBSET S, \A x \in s : s \ {x} \in good PROVE s \in good
  <2>1. IsFiniteSet(s) /\ image(s) \subseteq T /\ IsFiniteSet(image(s))
    <3>1. image(s) \in SUBSET T
      BY <1>1
    <3> HIDE DEF image
    <3> QED BY <1>2, <3>1, FS_Subset
  <2>2. CASE s = {}
    <3>1. image(s) = {}
      BY <2>2
    <3> HIDE DEF image
    <3> QED BY <2>2, <3>1, SumOfNone
  <2>3. CASE s # {}
    <3>1. PICK x \in s : TRUE
      BY <2>3
    <3>2. image(s) \ {pi[x]} = image(s \ {x}) /\ pi[x] \in image(s)
      BY <1>1
    <3>3. \A z \in image(s) : f[z] \in Nat
      BY <1>1
    <3>4. SumFunctionOnSet(g, s \ {x}) = SumFunctionOnSet(f, image(s \ {x}))
      BY <1>3
    <3> HIDE DEF image
    <3>5. SumFunctionOnSet(g, s) = g[x] + SumFunctionOnSet(g, s \ {x})
      BY <1>1, <2>1, SumLess
    <3>6. SumFunctionOnSet(f, image(s)) = f[pi[x]] + SumFunctionOnSet(f, image(s) \ {pi[x]})
      BY <2>1, <3>2, <3>3, SumLess
    <3> QED BY <1>1, <3>2, <3>4, <3>5, <3>6
  <2> HIDE DEF image
  <2> QED BY <2>2, <2>3
<1>4. SUBSET S \subseteq good
  <2> HIDE DEF good
  <2> QED BY <1>3, BySize
<1>5. SumFunctionOnSet(g, S) = SumFunctionOnSet(f, image(S))
  <2> HIDE DEF image
  <2> QED BY <1>4
<1>6. image(S) = T
  BY <1>1
<1> HIDE DEF image
<1> QED BY <1>2, <1>5, <1>6

(* A term is added.                                                        *)
LEMMA SumWithOneMore ==
  ASSUME NEW f, NEW S, IsFiniteSet(S), NEW y, y \notin S, \A x \in S \cup {y} : f[x] \in Nat
  PROVE  /\ IsFiniteSet(S \cup {y})
         /\ SumFunctionOnSet(f, S \cup {y}) = SumFunctionOnSet(f, S) + f[y]
         /\ SumFunctionOnSet(f, S) \in Nat
<1>1. IsFiniteSet(S \cup {y}) /\ (S \cup {y}) \ {y} = S
  BY FS_AddElement
<1>2. SumFunctionOnSet(f, S \cup {y}) = f[y] + SumFunctionOnSet(f, (S \cup {y}) \ {y})
  BY <1>1, SumLess
<1>3. SumFunctionOnSet(f, S) \in Nat
  BY SumIsNat
<1>4. f[y] \in Nat
  OBVIOUS
<1> DEFINE a == SumFunctionOnSet(f, S)
           b == f[y]
<1>5. b + a = a + b
  <2> HIDE DEF a, b
  <2>1. \A i, j \in Nat : i + j = j + i
    OBVIOUS
  <2> QED BY <1>3, <1>4, <2>1 DEF a, b
<1>6. SumFunctionOnSet(f, S \cup {y}) = b + a
  BY <1>1, <1>2, Zenon
<1> HIDE DEF a, b
<1> QED BY <1>1, <1>3, <1>5, <1>6 DEF a, b

(* What is appended to a list adds its term.                               *)
LEMMA SumOfLonger ==
  ASSUME NEW n \in Nat, NEW f, NEW g, \A i \in 1..n : f[i] \in Nat /\ g[i] = f[i], g[n + 1] \in Nat
  PROVE  SumFunctionOnSet(g, 1..(n + 1)) = SumFunctionOnSet(f, 1..n) + g[n + 1]
<1> DEFINE S == 1..n
<1>1. IsFiniteSet(S) /\ 1..(n + 1) = S \cup {n + 1} /\ n + 1 \notin S
  <2>1. IsFiniteSet(S)
    BY FS_Interval
  <2>2. 1..(n + 1) = S \cup {n + 1} /\ n + 1 \notin S
    OBVIOUS
  <2> QED BY <2>1, <2>2
<1>2. \A x \in S \cup {n + 1} : g[x] \in Nat
  OBVIOUS
<1>3. \A x \in S : g[x] = f[x]
  OBVIOUS
<1> HIDE DEF S
<1>4. SumFunctionOnSet(g, S \cup {n + 1}) = SumFunctionOnSet(g, S) + g[n + 1]
  BY <1>1, <1>2, SumWithOneMore
<1>5. SumFunctionOnSet(g, S) = SumFunctionOnSet(f, S)
  BY <1>1, <1>3, SumsAreEqual
<1> QED BY <1>1, <1>4, <1>5 DEF S
=============================================================================
