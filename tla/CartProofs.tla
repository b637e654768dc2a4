----------------------------- MODULE CartProofs -----------------------------
(***************************************************************************)
(* Proofs about what a cart costs and how it leaves: the prices of its     *)
(* lines (Pricing), for any basket and any rules; how its units are packed *)
(* (Packing), for any items and any boxes; the redemptions of its coupon   *)
(* (Coupons), for any number of orders, any quotas and any clock; and the  *)
(* three of them together (MCAmounts).                                     *)
(***************************************************************************)
EXTENDS MCAmounts, FiniteFacts, SequencesExt, SequenceTheorems

-----------------------------------------------------------------------------
(* SPREADING.  What a round of cents goes through.                         *)
Spreads == [alloc : Seq(Nat), rest : Int]

(* A cent given is a cent less to give.                                    *)
LEMMA CentIsGiven ==
  ASSUME NEW n \in Nat, NEW room \in [1..n -> Nat], NEW s \in Spreads, NEW i \in 1..n
  PROVE  /\ GiveCent(room, s, i) \in Spreads
         /\ GiveCent(room, s, i) = s \/ (s.rest > 0 /\ GiveCent(room, s, i).rest = s.rest - 1)
<1>1. s.alloc \in Seq(Nat) /\ s.rest \in Int /\ Len(s.alloc) \in Nat
  BY DEF Spreads
<1> DEFINE alloc == [s.alloc EXCEPT ![i] = @ + 1]
<1>2. alloc \in Seq(Nat)
  <2>1. s.alloc \in [1..Len(s.alloc) -> Nat]
    BY <1>1, LenProperties
  <2>2. \E k \in Nat : s.alloc \in [1..k -> Nat]
    BY <1>1, <2>1
  <2>3. PICK k \in Nat : s.alloc \in [1..k -> Nat]
    BY <2>2
  <2>4. ASSUME NEW a \in [1..k -> Nat] PROVE [a EXCEPT ![i] = @ + 1] \in [1..k -> Nat]
    <3>1. [a EXCEPT ![i] = a[i] + 1] = [j \in 1..k |-> IF j = i THEN a[i] + 1 ELSE a[j]]
      OBVIOUS
    <3>2. \A j \in 1..k : (IF j = i THEN a[i] + 1 ELSE a[j]) \in Nat
      OBVIOUS
    <3> QED BY <3>1, <3>2
  <2>5. alloc \in [1..k -> Nat]
    BY <2>3, <2>4
  <2> HIDE DEF alloc
  <2> QED BY <2>3, <2>5, SeqDef
<1> HIDE DEF alloc
<1>3. CASE s.rest > 0 /\ s.alloc[i] < room[i]
  <2>1. GiveCent(room, s, i) = [alloc |-> alloc, rest |-> s.rest - 1]
    BY <1>3 DEF GiveCent, alloc
  <2> QED BY <1>1, <1>2, <1>3, <2>1 DEF Spreads
<1>4. CASE ~(s.rest > 0 /\ s.alloc[i] < room[i])
  BY <1>4 DEF GiveCent
<1> QED BY <1>3, <1>4

(* A round goes through the lines one after the other.                     *)
LEMMA RoundSteps ==
  ASSUME NEW n \in Nat, NEW room \in [1..n -> Nat], NEW s \in Spreads
  PROVE  \E P : /\ P[0] = s
                /\ \A k \in 1..n : P[k - 1] \in Spreads /\ P[k] = GiveCent(room, P[k - 1], k)
                /\ RoundOfCents(room, s) = P[n] /\ P[n] \in Spreads
<1> DEFINE order == [i \in DOMAIN room |-> i]
           Is(g) == g = [u \in SUBSET (DOMAIN order) |->
                           IF u = {} THEN s
                           ELSE GiveCent(room, g[u \ {Max(u)}], order[Max(u)])]
           step == [p \in (1..n) \X Spreads |-> GiveCent(room, p[2], p[1])]
<1>1. RoundOfCents(room, s) = (CHOOSE g : Is(g))[DOMAIN order]
  BY DEF RoundOfCents, FoldLeft, MapThenFoldSet
<1>2. DOMAIN order = 1..n
  OBVIOUS
<1>3. \A i \in 1..n : \A t \in Spreads : step[<<i, t>>] = GiveCent(room, t, i)
  OBVIOUS
<1>4. \A i \in 1..n : \A t \in Spreads : step[<<i, t>>] \in Spreads
  <2> HIDE DEF step
  <2> QED BY <1>3, CentIsGiven
<1>5. \A u \in SUBSET (1..n) : u # {} => Max(u) \in 1..n /\ order[Max(u)] = Max(u)
  <2>1. IsFiniteSet(1..n) /\ 1..n \subseteq Int
    BY FS_Interval
  <2>2. \A u \in SUBSET (1..n) : u # {} => Max(u) \in u
    BY <2>1, FS_Subset, LargestIsIn
  <2> QED BY <1>2, <2>2
<1> HIDE DEF order, step
<1>6. PICK g : FoldsBy(g, n, s, step)
  BY FoldIsDefined
<1>7. \A u \in SUBSET (1..n) : g[u] \in Spreads
  BY <1>4, <1>6, FoldIsTyped
<1>8. Is(g)
  <2>1. ASSUME NEW u \in SUBSET (1..n), u # {}
        PROVE  step[<<Max(u), g[u \ {Max(u)}]>>] = GiveCent(room, g[u \ {Max(u)}], order[Max(u)])
    <3>1. Max(u) \in 1..n /\ order[Max(u)] = Max(u) /\ g[u \ {Max(u)}] \in Spreads
      BY <1>5, <1>7, <2>1
    <3> QED BY <1>3, <3>1
  <2>2. g = [u \in SUBSET (1..n) |-> IF u = {} THEN s ELSE step[<<Max(u), g[u \ {Max(u)}]>>]]
    BY <1>6 DEF FoldsBy
  <2>3. g = [u \in SUBSET (1..n) |->
               IF u = {} THEN s ELSE GiveCent(room, g[u \ {Max(u)}], order[Max(u)])]
    BY <2>1, <2>2
  <2> QED BY <1>2, <2>3
<1> DEFINE c == CHOOSE f : Is(f)
<1>9. Is(c)
  <2> HIDE DEF Is
  <2> QED BY <1>8
<1> DEFINE P == [k \in 0..n |-> c[1..k]]
<1>10. P[0] = s
  <2>1. {} \in SUBSET DOMAIN order /\ 1..0 = {}
    OBVIOUS
  <2>2. c[{}] = s
    <3> HIDE DEF c
    <3> QED BY <1>9, <2>1
  <2> HIDE DEF c
  <2> QED BY <2>1, <2>2
<1>11. ASSUME NEW k \in 1..n PROVE P[k] = GiveCent(room, P[k - 1], k)
  <2>1. 1..k \in SUBSET (1..n) /\ 1..k # {} /\ k - 1 \in 0..n /\ k \in 0..n /\ k \in Nat /\ k # 0
    OBVIOUS
  <2>2. Max(1..k) = k /\ (1..k) \ {k} = 1..(k - 1)
    BY <2>1, LargestOfFirst
  <2>3. order[k] = k
    BY <1>5, <2>1, <2>2
  <2>4. c[1..k] = GiveCent(room, c[(1..k) \ {Max(1..k)}], order[Max(1..k)])
    <3> HIDE DEF c
    <3> QED BY <1>2, <1>9, <2>1
  <2> HIDE DEF c
  <2> QED BY <2>1, <2>2, <2>3, <2>4
<1>12. RoundOfCents(room, s) = P[n]
  <2> HIDE DEF Is
  <2>1. P[n] = c[1..n]
    OBVIOUS
  <2> QED BY <1>1, <1>2, <2>1
<1>13. \A k \in 0..n : P[k] \in Spreads
  <2> DEFINE good == {k \in Nat : k <= n => P[k] \in Spreads}
  <2> HIDE DEF P
  <2>1. 0 \in good
    BY <1>10
  <2>2. ASSUME NEW k \in good PROVE k + 1 \in good
    <3> SUFFICES ASSUME k + 1 <= n PROVE P[k + 1] \in Spreads
      OBVIOUS
    <3>1. k + 1 \in 1..n /\ (k + 1) - 1 = k /\ P[k] \in Spreads
      BY <2>2
    <3>2. P[k + 1] = GiveCent(room, P[k], k + 1)
      BY <1>11, <3>1
    <3> QED BY <3>1, <3>2, CentIsGiven
  <2>3. good = Nat
    <3>1. good \subseteq Nat
      OBVIOUS
    <3> HIDE DEF good
    <3> QED BY <2>1, <2>2, <3>1, CountingUp
  <2> QED BY <2>3
<1> HIDE DEF P
<1> QED BY <1>10, <1>11, <1>12, <1>13

(* A round changes nothing, or it brings the cents that remain down.       *)
LEMMA RoundFalls ==
  ASSUME NEW n \in Nat, NEW room \in [1..n -> Nat], NEW s \in Spreads
  PROVE  /\ RoundOfCents(room, s) \in Spreads
         /\ RoundOfCents(room, s) = s \/ RoundOfCents(room, s).rest \in 0..(s.rest - 1)
<1>1. PICK P : /\ P[0] = s
               /\ \A k \in 1..n : P[k - 1] \in Spreads /\ P[k] = GiveCent(room, P[k - 1], k)
               /\ RoundOfCents(room, s) = P[n] /\ P[n] \in Spreads
  BY RoundSteps
<1> DEFINE good == {k \in Nat : k <= n => P[k] = s \/ P[k].rest \in 0..(s.rest - 1)}
<1>2. 0 \in good
  BY <1>1
<1>3. ASSUME NEW k \in good PROVE k + 1 \in good
  <2> SUFFICES ASSUME k + 1 <= n PROVE P[k + 1] = s \/ P[k + 1].rest \in 0..(s.rest - 1)
    OBVIOUS
  <2>1. k + 1 \in 1..n /\ (k + 1) - 1 = k /\ (P[k] = s \/ P[k].rest \in 0..(s.rest - 1))
    BY <1>3
  <2>2. P[k] \in Spreads /\ P[k + 1] = GiveCent(room, P[k], k + 1)
    BY <1>1, <2>1
  <2>3. P[k + 1] = P[k] \/ (P[k].rest > 0 /\ P[k + 1].rest = P[k].rest - 1)
    BY <2>1, <2>2, CentIsGiven
  <2>4. P[k].rest \in Int /\ s.rest \in Int
    BY <2>2 DEF Spreads
  <2> QED BY <2>1, <2>3, <2>4
<1>4. good = Nat
  <2>1. good \subseteq Nat
    OBVIOUS
  <2> HIDE DEF good
  <2> QED BY <1>2, <1>3, <2>1, CountingUp
<1>5. n \in good
  BY <1>4
<1> QED BY <1>1, <1>5

(* The rounds end, ...                                                     *)
LEMMA SpreadIsRounds ==
  ASSUME NEW n \in Nat, NEW room \in [1..n -> Nat], NEW start \in Spreads
  PROVE  \E f : /\ SpreadRest(room, start) = f[start].alloc
                /\ \A s \in Spreads : f[s] = IF RoundOfCents(room, s) = s THEN s
                                             ELSE f[RoundOfCents(room, s)]
<1> DEFINE Is(f) == f = [s \in [alloc : Seq(Nat), rest : Int] |->
                           IF RoundOfCents(room, s) = s THEN s ELSE f[RoundOfCents(room, s)]]
           step == [s \in Spreads |-> RoundOfCents(room, s)]
           rank == [s \in Spreads |-> IF s.rest >= 0 THEN s.rest ELSE 0]
<1>1. SpreadRest(room, start) = (CHOOSE f : Is(f))[start].alloc
  BY DEF SpreadRest
<1>2. step \in [Spreads -> Spreads] /\ \A s \in Spreads : step[s] = RoundOfCents(room, s)
  BY RoundFalls
<1>3. rank \in [Spreads -> Nat] /\ \A s \in Spreads : rank[s] = IF s.rest >= 0 THEN s.rest ELSE 0
  BY DEF Spreads
<1> HIDE DEF step, rank
<1>4. ASSUME NEW s \in Spreads PROVE step[s] = s \/ rank[step[s]] < rank[s]
  <2>1. step[s] \in Spreads /\ step[s].rest \in Int /\ s.rest \in Int
    BY <1>2 DEF Spreads
  <2>2. step[s] = s \/ step[s].rest \in 0..(s.rest - 1)
    BY <1>2, RoundFalls
  <2> QED BY <1>3, <2>1, <2>2
<1>5. \E f : f = [s \in Spreads |-> IF step[s] = s THEN s ELSE f[step[s]]]
  BY <1>2, <1>3, <1>4, RepeatingEnds
<1>6. \E f : Is(f)
  <2>1. PICK f : f = [s \in Spreads |-> IF step[s] = s THEN s ELSE f[step[s]]]
    BY <1>5
  <2>2. f = [s \in Spreads |-> IF RoundOfCents(room, s) = s THEN s ELSE f[RoundOfCents(room, s)]]
    BY <1>2, <2>1
  <2> QED BY <2>2 DEF Spreads
<1> DEFINE c == CHOOSE f : Is(f)
<1>7. Is(c)
  <2> HIDE DEF Is
  <2> QED BY <1>6
<1>8. \A s \in Spreads : c[s] = IF RoundOfCents(room, s) = s THEN s ELSE c[RoundOfCents(room, s)]
  <2> HIDE DEF c
  <2> QED BY <1>7 DEF Spreads
<1> HIDE DEF Is
<1>9. SpreadRest(room, start) = c[start].alloc
  BY <1>1
<1> HIDE DEF c
<1> QED BY <1>8, <1>9

(* ... after the first one that leaves no cent.                            *)
LEMMA OneRoundIsEnough ==
  ASSUME NEW n \in Nat, NEW room \in [1..n -> Nat], NEW s \in Spreads,
         RoundOfCents(room, s).rest = 0
  PROVE  SpreadRest(room, s) = RoundOfCents(room, s).alloc
<1> DEFINE t == RoundOfCents(room, s)
<1>1. PICK f : /\ SpreadRest(room, s) = f[s].alloc
               /\ \A u \in Spreads : f[u] = IF RoundOfCents(room, u) = u THEN u
                                            ELSE f[RoundOfCents(room, u)]
  BY SpreadIsRounds
<1>2. t \in Spreads /\ t.rest = 0
  BY RoundFalls
<1>3. RoundOfCents(room, t) = t
  <2>1. RoundOfCents(room, t) = t \/ RoundOfCents(room, t).rest \in 0..(t.rest - 1)
    <3> HIDE DEF t
    <3> QED BY <1>2, RoundFalls
  <2> QED BY <1>2, <2>1
<1>4. f[t] = t
  BY <1>1, <1>2, <1>3
<1>5. f[s] = t
  BY <1>1, <1>4
<1> QED BY <1>1, <1>5

-----------------------------------------------------------------------------
(* What rounding down leaves of a line's share, in parts of a cent.        *)
LEMMA ShareRoundedDown ==
  ASSUME NEW total \in Nat, NEW all \in Nat, all > 0, total <= all, NEW r \in Nat
  PROVE  LET q == (total * r) \div all
             m == (total * r) % all
         IN /\ q \in Nat /\ m \in Nat /\ m < all
            /\ total * r = all * q + m
            /\ q <= r /\ (q = r => m = 0)
<1> DEFINE x == total * r
           q == x \div all
           m == x % all
<1>1. x \in Nat
  <2>1. \A a, b \in Nat : a * b \in Nat
    OBVIOUS
  <2> QED BY <2>1
<1>2. x <= all * r
  <2>1. \A a, b, c \in Nat : a <= b => a * c <= b * c
    OBVIOUS
  <2> QED BY <2>1
<1> HIDE DEF x
<1>3. q \in Nat /\ m \in Nat /\ m < all /\ x = all * q + m
  BY <1>1
<1> HIDE DEF q, m
<1>4. q <= r
  <2> SUFFICES ASSUME q >= r + 1 PROVE FALSE
    BY <1>3
  <2>1. \A a, b, c \in Nat : a <= b => c * a <= c * b
    OBVIOUS
  <2>2. all * (r + 1) <= all * q
    BY <1>3, <2>1
  <2>3. all * (r + 1) = all * r + all /\ all * r \in Nat /\ all * q \in Nat
    BY <1>3
  <2> QED BY <1>1, <1>2, <1>3, <2>2, <2>3
<1>5. q = r => m = 0
  <2>1. all * r \in Nat
    OBVIOUS
  <2> QED BY <1>1, <1>2, <1>3, <2>1
<1> QED BY <1>3, <1>4, <1>5 DEF x, q, m

(* A round, as what its lines have been given and the cents that remain    *)
(* after each of them.                                                     *)
LEMMA RoundRuns ==
  ASSUME NEW n \in Nat, NEW room \in [1..n -> Nat], NEW s \in Spreads
  PROVE  \E A, r : /\ A[0] = s.alloc /\ r[0] = s.rest
                   /\ \A k \in 1..n :
                        IF r[k - 1] > 0 /\ A[k - 1][k] < room[k]
                          THEN A[k] = [A[k - 1] EXCEPT ![k] = @ + 1] /\ r[k] = r[k - 1] - 1
                          ELSE A[k] = A[k - 1] /\ r[k] = r[k - 1]
                   /\ RoundOfCents(room, s).alloc = A[n] /\ RoundOfCents(room, s).rest = r[n]
<1>1. PICK P : /\ P[0] = s
               /\ \A k \in 1..n : P[k - 1] \in Spreads /\ P[k] = GiveCent(room, P[k - 1], k)
               /\ RoundOfCents(room, s) = P[n] /\ P[n] \in Spreads
  BY RoundSteps
<1> DEFINE A == [k \in 0..n |-> P[k].alloc]
           r == [k \in 0..n |-> P[k].rest]
<1>2. \A k \in 0..n : A[k] = P[k].alloc /\ r[k] = P[k].rest
  OBVIOUS
<1>3. 0 \in 0..n /\ n \in 0..n
  OBVIOUS
<1> HIDE DEF A, r
<1>4. ASSUME NEW k \in 1..n
      PROVE  IF r[k - 1] > 0 /\ A[k - 1][k] < room[k]
               THEN A[k] = [A[k - 1] EXCEPT ![k] = @ + 1] /\ r[k] = r[k - 1] - 1
               ELSE A[k] = A[k - 1] /\ r[k] = r[k - 1]
  <2>1. k \in 0..n /\ k - 1 \in 0..n
    OBVIOUS
  <2> DEFINE p == P[k - 1]
             a == [p.alloc EXCEPT ![k] = @ + 1]
  <2>2. P[k] = IF p.rest > 0 /\ p.alloc[k] < room[k] THEN [alloc |-> a, rest |-> p.rest - 1] ELSE p
    BY <1>1 DEF GiveCent
  <2>3. a = [A[k - 1] EXCEPT ![k] = @ + 1] /\ p.alloc = A[k - 1] /\ p.rest = r[k - 1]
    BY <1>2, <2>1
  <2>4. P[k].alloc = A[k] /\ P[k].rest = r[k]
    BY <1>2, <2>1
  <2> HIDE DEF a, p
  <2> QED BY <2>2, <2>3, <2>4
<1>5. A[0] = s.alloc /\ r[0] = s.rest
  BY <1>1, <1>2, <1>3
<1>6. RoundOfCents(room, s).alloc = A[n] /\ RoundOfCents(room, s).rest = r[n]
  BY <1>1, <1>2, <1>3
<1> QED BY <1>4, <1>5, <1>6, Zenon

(* One line's turn in a round.  T holds the lines that have not had theirs.*)
Near(S, room, share, a) ==
  a \in [S -> Nat] /\ \A j \in S : a[j] \in share[j]..(share[j] + 1) /\ a[j] <= room[j]

Shared(S, room, share, left, all) ==
  /\ room \in [S -> Nat] /\ share \in [S -> Nat] /\ left \in [S -> Nat] /\ all \in Nat /\ all > 0
  /\ \A x \in S : share[x] <= room[x] /\ left[x] < all /\ (share[x] = room[x] => left[x] = 0)

Going(S, room, share, left, all, T, a, q) ==
  /\ Near(S, room, share, a) /\ \A x \in T : a[x] = share[x]
  /\ q \in Nat /\ all * q <= SumFunctionOnSet(left, T)

Turn(room, i, a, q, b, p) ==
  IF q > 0 /\ a[i] < room[i] THEN b = [a EXCEPT ![i] = @ + 1] /\ p = q - 1
                             ELSE b = a /\ p = q

(* Whoever takes a turn spends a cent or leaves the rest alone, and goes   *)
(* on.                                                                     *)
LEMMA OneTurn ==
  ASSUME NEW S, IsFiniteSet(S), NEW room, NEW share, NEW left, NEW all,
         Shared(S, room, share, left, all), NEW T \in SUBSET S, NEW i \in T,
         NEW a, NEW q, Going(S, room, share, left, all, T, a, q),
         NEW b, NEW p, Turn(room, i, a, q, b, p)
  PROVE  /\ Going(S, room, share, left, all, T \ {i}, b, p)
         /\ SumFunctionOnSet(b, S) + p = SumFunctionOnSet(a, S) + q
<1> DEFINE L == SumFunctionOnSet(left, T)
           M == SumFunctionOnSet(left, T \ {i})
           here == left[i]
<1>1. L = here + M /\ M \in Nat /\ here \in Nat /\ here < all
  <2>1. IsFiniteSet(T) /\ IsFiniteSet(T \ {i})
    BY FS_Subset
  <2>2. \A x \in T : left[x] \in Nat
    BY DEF Shared
  <2>3. (\A x \in T \ {i} : left[x] \in Nat) /\ left[i] \in Nat /\ left[i] < all
    BY <2>2 DEF Shared
  <2>4. SumFunctionOnSet(left, T) = left[i] + SumFunctionOnSet(left, T \ {i})
    BY <2>1, <2>2, SumLess
  <2>5. SumFunctionOnSet(left, T \ {i}) \in Nat
    BY <2>1, <2>3, SumIsNat
  <2> QED BY <2>3, <2>4, <2>5
<1>2. all * q <= L /\ q \in Nat /\ all \in Nat /\ all > 0
  BY DEF Going, Shared
<1>3. /\ i \in S /\ a[i] = share[i] /\ share[i] \in Nat /\ room[i] \in Nat /\ share[i] <= room[i]
      /\ share[i] = room[i] => here = 0
  BY DEF Going, Shared
<1>4. /\ a \in [S -> Nat] /\ \A j \in S : a[j] \in share[j]..(share[j] + 1) /\ a[j] <= room[j]
      /\ \A x \in T : a[x] = share[x]
  BY DEF Near, Going
<1> DEFINE sum(f) == SumFunctionOnSet(f, S)
<1>5. sum(a) \in Nat
  <2>1. \A x \in S : a[x] \in Nat
    BY <1>4
  <2> QED BY <2>1, SumIsNat
<1> HIDE DEF L, M, here
<1>6. CASE q > 0 /\ a[i] < room[i]
  <2>1. b = [a EXCEPT ![i] = @ + 1] /\ p = q - 1
    BY <1>6 DEF Turn
  <2>2. b \in [S -> Nat] /\ b[i] = a[i] + 1 /\ \A x \in S \ {i} : b[x] = a[x]
    BY <1>3, <1>4, <2>1
  <2>3. Near(S, room, share, b)
    <3> SUFFICES ASSUME NEW j \in S PROVE b[j] \in share[j]..(share[j] + 1) /\ b[j] <= room[j]
      BY <2>2 DEF Near
    <3>1. CASE j = i
      BY <1>3, <1>6, <2>2, <3>1
    <3>2. CASE j # i
      BY <1>4, <2>2, <3>2
    <3> QED BY <3>1, <3>2
  <2>4. \A x \in T \ {i} : b[x] = share[x]
    BY <1>4, <2>2
  <2>5. sum(b) = sum(a) - a[i] + b[i]
    <3>1. \A x \in S : a[x] \in Nat /\ b[x] \in Nat
      BY <1>4, <2>2
    <3>2. \A x \in S \ {i} : a[x] = b[x]
      BY <2>2
    <3> QED BY <1>3, <3>1, <3>2, SumChanges
  <2>6. sum(b) + p = sum(a) + q
    <3>1. a[i] \in Nat
      BY <1>3
    <3> HIDE DEF sum
    <3> QED BY <1>2, <1>5, <2>1, <2>2, <2>5, <3>1
  <2>7. all * p <= M
    <3>1. all * (q - 1) = all * q - all /\ all * q \in Int
      BY <1>2
    <3> QED BY <1>1, <1>2, <2>1, <3>1
  <2>8. p \in Nat
    BY <1>2, <1>6, <2>1
  <2>9. Going(S, room, share, left, all, T \ {i}, b, p)
    BY <2>3, <2>4, <2>7, <2>8 DEF Going, M
  <2> QED BY <2>6, <2>9
<1>7. CASE ~(q > 0 /\ a[i] < room[i])
  <2>1. b = a /\ p = q
    BY <1>7 DEF Turn
  <2>2. q = 0 \/ here = 0
    BY <1>2, <1>3, <1>7
  <2>3. all * q <= M
    <3>1. CASE q = 0
      BY <1>1, <1>2, <3>1
    <3>2. CASE here = 0
      <4>1. L = M
        BY <1>1, <3>2
      <4> QED BY <1>2, <4>1
    <3> QED BY <2>2, <3>1, <3>2
  <2>4. Going(S, room, share, left, all, T \ {i}, b, p)
    BY <2>1, <2>3 DEF Going, M
  <2> QED BY <2>1, <2>4
<1> QED BY <1>6, <1>7

(* A round spends all the cents that rounding down left: they are fewer    *)
(* than the lines that take one.                                           *)
LEMMA RoundSpends ==
  ASSUME NEW n \in Nat, NEW room, NEW share, NEW left, NEW all, Shared(1..n, room, share, left, all),
         NEW rest \in Nat, all * rest <= SumFunctionOnSet(left, 1..n),
         NEW s \in Spreads, s.alloc = share, s.rest = rest
  PROVE  /\ RoundOfCents(room, s).rest = 0
         /\ Near(1..n, room, share, RoundOfCents(room, s).alloc)
         /\ SumFunctionOnSet(RoundOfCents(room, s).alloc, 1..n)
              = SumFunctionOnSet(share, 1..n) + rest
<1> DEFINE S == 1..n
           T(k) == (k + 1)..n
<1>0. PICK A, r :
        /\ A[0] = s.alloc /\ r[0] = s.rest
        /\ \A k \in 1..n : IF r[k - 1] > 0 /\ A[k - 1][k] < room[k]
                             THEN A[k] = [A[k - 1] EXCEPT ![k] = @ + 1] /\ r[k] = r[k - 1] - 1
                             ELSE A[k] = A[k - 1] /\ r[k] = r[k - 1]
        /\ RoundOfCents(room, s).alloc = A[n] /\ RoundOfCents(room, s).rest = r[n]
  <2>1. room \in [1..n -> Nat]
    BY DEF Shared
  <2> QED BY <2>1, RoundRuns, Zenon
<1>1. A[0] = share /\ r[0] = rest
  BY <1>0
<1>2. IsFiniteSet(S)
  BY FS_Interval
<1>3. /\ T(0) = S /\ T(n) = {}
      /\ \A k \in 1..n : k \in T(k - 1) /\ T(k - 1) \ {k} = T(k) /\ T(k - 1) \in SUBSET S
  OBVIOUS
<1> DEFINE Fine(k) == /\ Going(S, room, share, left, all, T(k), A[k], r[k])
                      /\ SumFunctionOnSet(A[k], S) + r[k] = SumFunctionOnSet(share, S) + rest
           good == {k \in Nat : k <= n => Fine(k)}
<1>4. Fine(0)
  <2>1. Near(S, room, share, share)
    BY DEF Near, Shared
  <2>2. Going(S, room, share, left, all, S, share, rest)
    BY <2>1 DEF Going
  <2> HIDE DEF S, T
  <2> QED BY <1>1, <1>3, <2>2
<1>5. ASSUME NEW k \in 1..n, Fine(k - 1) PROVE Fine(k)
  <2> DEFINE a == A[k - 1]
             b == A[k]
             q == r[k - 1]
             p == r[k]
             U == T(k - 1)
  <2>1. Turn(room, k, a, q, b, p)
    BY <1>0 DEF Turn
  <2>2. Going(S, room, share, left, all, U, a, q)
    BY <1>5
  <2>3. U \in SUBSET S /\ k \in U /\ U \ {k} = T(k)
    BY <1>3
  <2>4. SumFunctionOnSet(a, S) + q = SumFunctionOnSet(share, S) + rest
    BY <1>5
  <2>5. Shared(S, room, share, left, all)
    OBVIOUS
  <2> HIDE DEF S, a, b, p, q, U
  <2>6. /\ Going(S, room, share, left, all, U \ {k}, b, p)
        /\ SumFunctionOnSet(b, S) + p = SumFunctionOnSet(a, S) + q
    BY <1>2, <2>1, <2>2, <2>3, <2>5, OneTurn
  <2> HIDE DEF T
  <2> QED BY <2>3, <2>4, <2>6 DEF b, p
<1>6. good = Nat
  <2> HIDE DEF Fine
  <2>1. 0 \in good
    BY <1>4
  <2>2. ASSUME NEW k \in good PROVE k + 1 \in good
    <3> SUFFICES ASSUME k + 1 <= n PROVE Fine(k + 1)
      OBVIOUS
    <3>1. k + 1 \in 1..n /\ (k + 1) - 1 = k /\ Fine(k)
      OBVIOUS
    <3> QED BY <1>5, <3>1
  <2>3. good \subseteq Nat
    OBVIOUS
  <2> HIDE DEF good
  <2> QED BY <2>1, <2>2, <2>3, CountingUp
<1>7. Fine(n)
  <2> HIDE DEF Fine
  <2> QED BY <1>6
<1> DEFINE a == A[n]
           q == r[n]
<1>8. /\ Near(S, room, share, a) /\ q \in Nat /\ all * q <= 0 /\ all \in Nat /\ all > 0
      /\ SumFunctionOnSet(a, S) + q = SumFunctionOnSet(share, S) + rest
  <2>1. SumFunctionOnSet(left, T(n)) = 0
    BY <1>3, SumOfNone
  <2> HIDE DEF S, T
  <2> QED BY <1>7, <2>1 DEF Going, Shared
<1>9. RoundOfCents(room, s).alloc = a /\ RoundOfCents(room, s).rest = q
  BY <1>0
<1> HIDE DEF a, q, S
<1>10. q = 0
  <2> SUFFICES ASSUME q > 0 PROVE FALSE
    BY <1>8
  <2>1. \A x, y \in Nat : x > 0 /\ y > 0 => x * y > 0
    OBVIOUS
  <2>2. all * q > 0 /\ all * q \in Int
    BY <1>8, <2>1
  <2> QED BY <1>8, <2>2
<1>11. SumFunctionOnSet(a, S) = SumFunctionOnSet(share, S) + rest
  <2>1. \A x \in S : a[x] \in Nat
    BY <1>8 DEF Near
  <2>2. SumFunctionOnSet(a, S) \in Nat
    BY <1>2, <2>1, SumIsNat
  <2> QED BY <1>8, <1>10, <2>2
<1> QED BY <1>8, <1>9, <1>10, <1>11 DEF S

(* The cents that rounding down leaves, in parts of a cent.                *)
Divides(f, q, m, total, all, S) ==
  \A x \in S : /\ f[x] \in Nat /\ q[x] \in Nat /\ m[x] \in Nat
               /\ total * f[x] = all * q[x] + m[x]

(* What is left to spend is the sum of the parts lost by rounding down.    *)
LEMMA PartsLeft ==
  ASSUME NEW S, IsFiniteSet(S), NEW total \in Nat, NEW all \in Nat, all > 0,
         NEW f, NEW q, NEW m, Divides(f, q, m, total, all, S), SumFunctionOnSet(f, S) = all
  PROVE  /\ total - SumFunctionOnSet(q, S) \in Nat
         /\ all * (total - SumFunctionOnSet(q, S)) = SumFunctionOnSet(m, S)
<1> DEFINE times == [x \in S |-> total * f[x]]
           down == [x \in S |-> all * q[x]]
           Q == SumFunctionOnSet(q, S)
           M == SumFunctionOnSet(m, S)
<1>1. Scales(times, total, f, S)
  BY DEF Scales, Divides
<1>2. Scales(down, all, q, S)
  BY DEF Scales, Divides
<1>3. \A x \in S : down[x] \in Nat /\ m[x] \in Nat /\ times[x] = down[x] + m[x]
  <2>1. \A a, b \in Nat : a * b \in Nat
    OBVIOUS
  <2> QED BY <2>1 DEF Divides
<1> HIDE DEF times, down
<1>4. SumFunctionOnSet(times, S) = total * all
  <2>1. SumFunctionOnSet(times, S) = total * SumFunctionOnSet(f, S)
    BY <1>1, SumScales
  <2> QED BY <2>1
<1>5. SumFunctionOnSet(down, S) = all * Q
  BY <1>2, SumScales
<1>6. SumFunctionOnSet(times, S) = SumFunctionOnSet(down, S) + M
  BY <1>3, SumsAdd
<1>7. Q \in Nat /\ M \in Nat
  <2>1. \A x \in S : q[x] \in Nat /\ m[x] \in Nat
    BY DEF Divides
  <2> QED BY <2>1, SumIsNat
<1> HIDE DEF Q, M
<1>8. all * total = all * Q + M
  <2>1. total * all = all * total
    OBVIOUS
  <2> QED BY <1>4, <1>5, <1>6, <2>1
<1>9. all * (total - Q) = M
  <2>1. all * (total - Q) = all * total - all * Q /\ all * Q \in Int
    BY <1>7
  <2> QED BY <1>7, <1>8, <2>1
<1>10. total - Q >= 0
  <2> SUFFICES ASSUME total - Q < 0 PROVE FALSE
    BY <1>7
  <2>1. \A a, b \in Int : a > 0 /\ b < 0 => a * b < 0
    OBVIOUS
  <2>2. all * (total - Q) < 0
    BY <1>7, <2>1
  <2> QED BY <1>7, <1>9, <2>2
<1> QED BY <1>7, <1>9, <1>10 DEF Q, M

(* A coupon that is no more than the lines have room for is spread to the  *)
(* cent: every line gets its share rounded down or a cent more, within its *)
(* room.                                                                   *)
LEMMA CouponIsSpread ==
  ASSUME NEW n \in Nat, NEW room \in [1..n -> Nat], NEW total \in Nat, total > 0,
         total <= Total(room)
  PROVE  /\ Allocate(total, room) \in [1..n -> Nat]
         /\ Total(Allocate(total, room)) = total
         /\ \A i \in 1..n :
              /\ Allocate(total, room)[i]
                   \in (total * room[i]) \div Total(room)..((total * room[i]) \div Total(room) + 1)
              /\ Allocate(total, room)[i] <= room[i]
<1> DEFINE S == 1..n
           all == Total(room)
<1>1. IsFiniteSet(S) /\ DOMAIN room = S /\ \A i \in S : room[i] \in Nat
  <2>1. IsFiniteSet(S)
    BY FS_Interval
  <2>2. DOMAIN room = S /\ \A i \in S : room[i] \in Nat
    OBVIOUS
  <2> QED BY <2>1, <2>2
<1>2. all = SumFunctionOnSet(room, S)
  BY <1>1 DEF Total, SumFunction
<1>3. all \in Nat /\ all > 0 /\ total <= all
  <2>1. SumFunctionOnSet(room, S) \in Nat
    <3> HIDE DEF S
    <3> QED BY <1>1, SumIsNat
  <2> QED BY <1>2, <2>1
<1> HIDE DEF all
<1> DEFINE share == [i \in S |-> (total * room[i]) \div all]
           left == [i \in S |-> (total * room[i]) % all]
<1>4. ASSUME NEW i \in S
      PROVE  /\ share[i] \in Nat /\ left[i] \in Nat /\ left[i] < all
             /\ total * room[i] = all * share[i] + left[i]
             /\ share[i] <= room[i] /\ (share[i] = room[i] => left[i] = 0)
             /\ share[i] = (total * room[i]) \div all
  <2>1. room[i] \in Nat
    OBVIOUS
  <2> QED BY <1>3, <2>1, ShareRoundedDown
<1>5. Shares(total, room) = share
  <2>1. \A i \in S : Least(room[i], (total * room[i]) \div all) = share[i]
    <3> SUFFICES ASSUME NEW i \in S PROVE Least(room[i], share[i]) = share[i]
      OBVIOUS
    <3>1. share[i] <= room[i] /\ share[i] \in Nat /\ room[i] \in Nat
      BY <1>4
    <3> HIDE DEF share
    <3> QED BY <3>1 DEF Least
  <2>2. Shares(total, room) = [i \in S |-> Least(room[i], (total * room[i]) \div all)]
    BY <1>1 DEF Shares, all
  <2>3. share = [i \in S |-> share[i]]
    OBVIOUS
  <2> HIDE DEF S
  <2> QED BY <2>1, <2>2
<1>6. share \in [S -> Nat] /\ left \in [S -> Nat]
  BY <1>4
<1> HIDE DEF share, left
<1>7. Total(share) = SumFunctionOnSet(share, S)
  BY <1>6 DEF Total, SumFunction
<1> DEFINE rest == total - SumFunctionOnSet(share, S)
           start == [alloc |-> share, rest |-> rest]
<1>8. rest \in Nat /\ all * rest = SumFunctionOnSet(left, S)
  <2>1. Divides(room, share, left, total, all, S) /\ SumFunctionOnSet(room, S) = all
    BY <1>1, <1>2, <1>4 DEF Divides
  <2> HIDE DEF S
  <2> QED BY <1>1, <1>3, <2>1, PartsLeft
<1>9. SumFunctionOnSet(share, S) + rest = total
  <2>1. SumFunctionOnSet(share, S) \in Nat
    <3>1. \A i \in S : share[i] \in Nat
      BY <1>4
    <3> HIDE DEF S
    <3> QED BY <1>1, <3>1, SumIsNat
  <2> DEFINE q == SumFunctionOnSet(share, S)
  <2> HIDE DEF q
  <2>2. q + (total - q) = total
    BY <2>1 DEF q
  <2> QED BY <2>2 DEF q
<1>10. Allocate(total, room) = SpreadRest(room, start)
  BY <1>3, <1>5, <1>7 DEF Allocate, all
<1> HIDE DEF rest
<1>11. start \in Spreads /\ start.alloc = share /\ start.rest = rest
  <2>1. share \in Seq(Nat)
    BY <1>6, SeqDef
  <2> QED BY <1>8, <2>1 DEF Spreads
<1> DEFINE t == RoundOfCents(room, start)
<1>12. /\ t.rest = 0 /\ Near(S, room, share, t.alloc)
       /\ SumFunctionOnSet(t.alloc, S) = total
  <2>1. Shared(1..n, room, share, left, all)
    BY <1>3, <1>4, <1>6 DEF Shared
  <2>2. all * rest <= SumFunctionOnSet(left, 1..n)
    <3>1. SumFunctionOnSet(left, S) \in Nat
      <4>1. \A i \in S : left[i] \in Nat
        BY <1>4
      <4> HIDE DEF S
      <4> QED BY <1>1, <4>1, SumIsNat
    <3> QED BY <1>8, <3>1
  <2> HIDE DEF start
  <2>3. /\ t.rest = 0 /\ Near(S, room, share, t.alloc)
        /\ SumFunctionOnSet(t.alloc, S) = SumFunctionOnSet(share, S) + rest
    BY <1>8, <1>11, <2>1, <2>2, RoundSpends
  <2> QED BY <1>9, <2>3
<1>13. Allocate(total, room) = t.alloc
  <2> HIDE DEF start
  <2> QED BY <1>10, <1>11, <1>12, OneRoundIsEnough
<1>14. Total(t.alloc) = total
  BY <1>12 DEF Total, SumFunction, Near
<1>15. \A i \in S : share[i] = (total * room[i]) \div Total(room)
  BY <1>4 DEF all
<1> HIDE DEF t
<1> QED BY <1>12, <1>13, <1>14, <1>15 DEF Near

(* What allocating a coupon comes to, also when there is nothing to spread *)
(* or no room: no line is more than a cent away from its share.            *)
WithinACent(own, all, c, total) ==
  all > 0 => LET gap == c * all - total * own IN gap <= all /\ -gap <= all
Fair(S, room, total, coupon) ==
  /\ coupon \in [S -> Nat] /\ SumFunctionOnSet(coupon, S) = total
  /\ \A i \in S : coupon[i] <= room[i]
  /\ \A i \in S : WithinACent(room[i], SumFunctionOnSet(room, S), coupon[i], total)

(* A share between its quotient and a cent more is within a cent of it.    *)
LEMMA NobodyIsShort ==
  ASSUME NEW all \in Nat, all > 0, NEW x \in Nat, NEW c \in (x \div all)..((x \div all) + 1)
  PROVE  c * all - x <= all /\ -(c * all - x) <= all
<1> DEFINE q == x \div all
           m == x % all
<1>1. q \in Nat /\ m \in Nat /\ m < all /\ x = q * all + m
  OBVIOUS
<1> HIDE DEF q, m
<1>2. c = q \/ c = q + 1
  BY <1>1 DEF q
<1>3. CASE c = q
  BY <1>1, <1>3
<1>4. CASE c = q + 1
  <2>1. (q + 1) * all = q * all + all /\ q * all \in Nat
    BY <1>1
  <2> QED BY <1>1, <1>4, <2>1
<1> QED BY <1>2, <1>3, <1>4

(* Spreading a coupon, also one of nothing, is fair to every line.         *)
LEMMA AllocationIsFair ==
  ASSUME NEW n \in Nat, NEW room \in [1..n -> Nat], NEW total \in Nat,
         total <= SumFunctionOnSet(room, 1..n)
  PROVE  Fair(1..n, room, total, Allocate(total, room))
<1> DEFINE S == 1..n
           all == SumFunctionOnSet(room, S)
           coupon == Allocate(total, room)
<1>1. IsFiniteSet(S)
  BY FS_Interval
<1>2. all \in Nat /\ Total(room) = all
  <2>1. \A i \in S : room[i] \in Nat
    OBVIOUS
  <2>2. DOMAIN room = S
    OBVIOUS
  <2> HIDE DEF S
  <2> QED BY <1>1, <2>1, <2>2, SumIsNat DEF Total, SumFunction
<1>3. CASE total > 0
  <2>1. /\ coupon \in [S -> Nat] /\ Total(coupon) = total
        /\ \A i \in S : /\ coupon[i] \in (total * room[i]) \div all..((total * room[i]) \div all + 1)
                        /\ coupon[i] <= room[i]
    BY <1>2, <1>3, CouponIsSpread
  <2>2. SumFunctionOnSet(coupon, S) = total
    <3>1. DOMAIN coupon = S
      BY <2>1
    <3> HIDE DEF coupon
    <3> QED BY <2>1, <3>1 DEF Total, SumFunction
  <2>3. ASSUME NEW i \in S, all > 0
        PROVE  coupon[i] * all - total * room[i] <= all /\ -(coupon[i] * all - total * room[i]) <= all
    <3> DEFINE x == total * room[i]
    <3>1. x \in Nat
      <4>1. room[i] \in Nat /\ \A a, b \in Nat : a * b \in Nat
        OBVIOUS
      <4> QED BY <4>1
    <3>2. coupon[i] \in (x \div all)..((x \div all) + 1)
      BY <2>1
    <3> HIDE DEF x, coupon, all
    <3>3. coupon[i] * all - x <= all /\ -(coupon[i] * all - x) <= all
      BY <1>2, <2>3, <3>1, <3>2, NobodyIsShort
    <3> QED BY <3>3 DEF x
  <2>4. \A i \in S : WithinACent(room[i], all, coupon[i], total)
    <3> HIDE DEF coupon, all
    <3> QED BY <2>3 DEF WithinACent
  <2>5. coupon \in [S -> Nat] /\ \A i \in S : coupon[i] <= room[i]
    <3> HIDE DEF coupon
    <3> QED BY <2>1
  <2> HIDE DEF coupon
  <2>6. Fair(S, room, total, coupon)
    BY <2>2, <2>4, <2>5 DEF Fair
  <2> QED BY <2>6 DEF coupon, S
<1>4. CASE total = 0
  <2>1. coupon = [i \in S |-> 0]
    BY <1>4 DEF Allocate
  <2> HIDE DEF coupon
  <2>2. SumFunctionOnSet(coupon, S) = 0
    <3>1. Scales(coupon, 0, coupon, S)
      BY <2>1 DEF Scales
    <3>2. \A i \in S : coupon[i] \in Nat
      BY <2>1
    <3> HIDE DEF S
    <3>3. SumFunctionOnSet(coupon, S) = 0 * SumFunctionOnSet(coupon, S) /\ SumFunctionOnSet(coupon, S) \in Nat
      BY <1>1, <3>1, <3>2, SumScales, SumIsNat
    <3> QED BY <3>3
  <2>3. ASSUME NEW i \in S
        PROVE  /\ coupon[i] = 0 /\ coupon[i] * all - total * room[i] = 0 /\ coupon[i] <= room[i]
    <3>1. room[i] \in Nat /\ coupon[i] = 0
      BY <2>1
    <3> HIDE DEF all
    <3> QED BY <1>2, <1>4, <3>1
  <2>4. coupon \in [S -> Nat] /\ \A i \in S : coupon[i] <= room[i]
    <3>1. coupon \in [S -> Nat]
      BY <2>1
    <3> HIDE DEF coupon
    <3> QED BY <2>3, <3>1
  <2>5. \A i \in S : WithinACent(room[i], all, coupon[i], total)
    <3> SUFFICES ASSUME NEW i \in S PROVE WithinACent(room[i], all, coupon[i], total)
      OBVIOUS
    <3>1. coupon[i] * all - total * room[i] = 0
      BY <2>3
    <3> HIDE DEF coupon, all, S
    <3> QED BY <1>2, <3>1 DEF WithinACent
  <2> HIDE DEF coupon, S
  <2>6. Fair(S, room, total, coupon)
    BY <1>4, <2>2, <2>4, <2>5 DEF Fair
  <2> QED BY <2>6 DEF coupon, S
<1> QED BY <1>2, <1>3, <1>4

-----------------------------------------------------------------------------
(* DISCOUNTS.  A rule never takes more than there is.                      *)
IsRule(r) == \/ r.kind = "percentage" /\ r.value \in 1..100
             \/ r.kind = "fixed" /\ r.value \in Nat

(* The coupons of the model are rules.                                     *)
LEMMA TermsAreRules == \A r \in CouponTerms : IsRule(r) /\ r.combinable \in BOOLEAN
<1>1. \A r \in Rules : /\ IsRule(r) /\ IsRule([r EXCEPT !.combinable = TRUE])
                       /\ r.combinable = FALSE /\ [r EXCEPT !.combinable = TRUE].combinable = TRUE
  BY PricingAssumption DEF Rules, Percentage, FixedOff, IsRule
<1> QED BY <1>1 DEF CouponTerms

(* A discount is never more than what it is a discount of.                 *)
LEMMA DiscountIsBounded ==
  ASSUME NEW r, IsRule(r), NEW amount \in Nat
  PROVE  Discount(r, amount) \in 0..amount
<1>1. CASE r.kind = "percentage" /\ r.value \in 1..100
  <2> DEFINE v == r.value
             x == amount * v
  <2>1. v \in 1..100
    BY <1>1
  <2> HIDE DEF v
  <2>2. x \in Nat /\ x <= amount * 100
    <3>1. \A a, b, c \in Nat : b <= c => a * b <= a * c /\ a * b \in Nat
      OBVIOUS
    <3> QED BY <2>1, <3>1
  <2>3. (2 * amount) * v = 2 * x
    BY <2>1
  <2> HIDE DEF x
  <2>4. (2 * x + 100) \div 200 \in 0..amount
    BY <2>2
  <2>5. Discount(r, amount) = ((2 * amount) * v + 100) \div 200
    BY <1>1 DEF Discount, v
  <2> QED BY <2>3, <2>4, <2>5
<1>2. CASE r.kind = "fixed" /\ r.value \in Nat
  BY <1>2 DEF Discount, Least
<1> QED BY <1>1, <1>2 DEF IsRule

(* There are finitely many rules, so one of them discounts most.           *)
LEMMA RulesAreFinite == IsFiniteSet(Rules)
<1>1. IsFiniteSet(Percentages) /\ IsFiniteSet(Fixed)
  <2>1. \A n \in Int : IsFiniteSet(1..n)
    BY FS_Interval
  <2>2. PICK n \in Int : \A m \in Percentages : m \in 1..n
    <3>1. 100 \in Int /\ \A m \in Percentages : m \in 1..100
      BY PricingAssumption
    <3> QED BY <3>1
  <2>3. IsFiniteSet(1..n) /\ Percentages \subseteq 1..n
    BY <2>1, <2>2
  <2> QED BY <2>3, PricingAssumption, FS_Subset
<1> DEFINE P == {Percentage(m) : m \in Percentages}
           F == {FixedOff(m) : m \in Fixed}
           p == [m \in Percentages |-> Percentage(m)]
           f == [m \in Fixed |-> FixedOff(m)]
<1>2. p \in Surjection(Percentages, P) /\ f \in Surjection(Fixed, F)
  BY DEF Surjection
<1>3. IsFiniteSet(P) /\ IsFiniteSet(F)
  <2> HIDE DEF P, F, p, f
  <2> QED BY <1>1, <1>2, FS_Surjection
<1>4. IsFiniteSet(P \cup F)
  <2> HIDE DEF P, F
  <2> QED BY <1>3, FS_Union
<1> QED BY <1>4 DEF Rules

(* The best promotion of a line is within its amount.                      *)
LEMMA BestIsBounded ==
  ASSUME NEW line \in Line
  PROVE  BestAutomatic(line) \in 0..line.amount /\ line.amount \in Nat
<1>1. line.amount \in Nat /\ line.rules \in SUBSET Rules /\ Cardinality(line.rules) <= 1
  BY PricingAssumption DEF Line
<1> DEFINE R == line.rules
<1>2. IsFiniteSet(R)
  BY <1>1, RulesAreFinite, FS_Subset
<1>3. R = {} \/ \E r \in R : R = {r}
  <2> SUFFICES ASSUME NEW r \in R PROVE R = {r}
    OBVIOUS
  <2> HIDE DEF R
  <2>1. IsFiniteSet(R \ {r}) /\ Cardinality(R \ {r}) = Cardinality(R) - 1
    BY <1>2, FS_RemoveElement
  <2>2. Cardinality(R) \in Nat /\ Cardinality(R \ {r}) \in Nat
    BY <1>2, <2>1, FS_CardinalityType
  <2>3. Cardinality(R \ {r}) = 0
    BY <1>1, <2>1, <2>2 DEF R
  <2>4. R \ {r} = {}
    BY <2>1, <2>3, FS_EmptySet
  <2> QED BY <2>4
<1>4. CASE R = {}
  <2>1. {Discount(r, line.amount) : r \in line.rules} \cup {0} = {0, 0}
    BY <1>4
  <2>2. Max({0, 0}) = 0
    BY LargestOfTwo
  <2> QED BY <1>1, <2>1, <2>2 DEF BestAutomatic
<1>5. ASSUME NEW r \in R, R = {r} PROVE BestAutomatic(line) \in 0..line.amount
  <2> DEFINE d == Discount(r, line.amount)
  <2>1. d \in 0..line.amount
    <3>1. IsRule(r)
      BY <1>1, TermsAreRules DEF CouponTerms
    <3> QED BY <1>1, <3>1, DiscountIsBounded
  <2>2. {Discount(x, line.amount) : x \in line.rules} \cup {0} = {d, 0}
    BY <1>5
  <2> HIDE DEF d
  <2>3. Max({d, 0}) = IF d >= 0 THEN d ELSE 0
    BY <1>1, <2>1, LargestOfTwo
  <2> QED BY <1>1, <2>1, <2>2, <2>3 DEF BestAutomatic
<1> QED BY <1>1, <1>3, <1>4, <1>5

-----------------------------------------------------------------------------
(* A cart as it is priced.                                                 *)
Baskets == [lines : SeqOf(Line, MaxLines) \ {<<>>}, coupon : CouponTerms \cup {NoCoupon}]

(* A basket that has been priced adds up, line by line and in all.         *)
LEMMA PricesAreSound ==
  ASSUME basket \in Baskets, priced = PriceLines(basket)
  PROVE  DiscountsAddUp /\ SharesAreEven
<1> DEFINE b == basket
<1>1. PICK n \in Nat : b.lines \in [1..n -> Line]
  <2>1. b.lines \in SeqOf(Line, MaxLines)
    BY DEF Baskets
  <2> QED BY <2>1 DEF SeqOf
<1> DEFINE S == 1..n
           Sum(f) == SumFunctionOnSet(f, S)
           amounts == [i \in S |-> b.lines[i].amount]
           automatic == [i \in S |-> BestAutomatic(b.lines[i])]
           off == IF b.coupon = NoCoupon THEN 0 ELSE Discount(b.coupon, Sum(amounts))
           replaced == ~b.coupon.combinable /\ off > Sum(automatic)
           base == [i \in S |-> IF replaced THEN 0 ELSE automatic[i]]
           spread == IF b.coupon.combinable THEN Least(off, Sum(amounts) - Sum(automatic))
                     ELSE IF replaced THEN off ELSE 0
           room == [i \in S |-> amounts[i] - base[i]]
           coupon == Allocate(spread, room)
           discount == [i \in S |-> Least(amounts[i], base[i] + coupon[i])]
<1>2. IsFiniteSet(S) /\ DOMAIN b.lines = S
  <2>1. IsFiniteSet(S)
    BY FS_Interval
  <2> QED BY <1>1, <2>1
<1>3. \A f : DOMAIN f = S => Total(f) = Sum(f)
  BY DEF Total, SumFunction
<1>4. PriceLines(b) = [i \in S |-> [discount |-> discount[i], coupon |-> coupon[i], room |-> room[i]]]
  <2>1. Total(amounts) = Sum(amounts) /\ Total(automatic) = Sum(automatic)
    <3> HIDE DEF Sum
    <3> QED BY <1>3
  <2> HIDE DEF S, Sum
  <2> QED BY <1>2, <2>1 DEF PriceLines, Replaces
<1>5. ASSUME NEW i \in S
      PROVE  amounts[i] \in Nat /\ automatic[i] \in 0..amounts[i]
  <2>1. b.lines[i] \in Line
    BY <1>1
  <2> QED BY <2>1, BestIsBounded
<1>6. b.coupon.combinable \in BOOLEAN /\ (b.coupon # NoCoupon => IsRule(b.coupon))
      /\ (b.coupon = NoCoupon => ~b.coupon.combinable)
  <2>1. b.coupon \in CouponTerms \cup {NoCoupon}
    BY DEF Baskets
  <2>2. NoCoupon.combinable = FALSE
    BY DEF NoCoupon
  <2> QED BY <2>1, <2>2, TermsAreRules
<1> HIDE DEF amounts, automatic
<1>7. Sum(amounts) \in Nat /\ Sum(automatic) \in Nat /\ Sum(automatic) <= Sum(amounts)
  <2>1. \A i \in S : amounts[i] \in Nat /\ automatic[i] \in Nat /\ automatic[i] <= amounts[i]
    BY <1>5
  <2> HIDE DEF S
  <2> QED BY <1>2, <2>1, SumIsNat, SumsAreOrdered
<1>8. off \in 0..Sum(amounts) /\ (b.coupon = NoCoupon => off = 0)
  <2>1. CASE b.coupon = NoCoupon
    BY <1>7, <2>1
  <2>2. CASE b.coupon # NoCoupon
    <3> HIDE DEF Sum
    <3> QED BY <1>6, <1>7, <2>2, DiscountIsBounded
  <2> QED BY <2>1, <2>2
<1> HIDE DEF off
<1>9. replaced \in BOOLEAN /\ replaced = (~b.coupon.combinable /\ off > Sum(automatic))
  OBVIOUS
<1> HIDE DEF replaced
<1>10. base \in [S -> Nat] /\ room \in [S -> Nat] /\ \A i \in S : amounts[i] = base[i] + room[i]
  <2> SUFFICES ASSUME NEW i \in S
               PROVE  base[i] \in Nat /\ room[i] \in Nat /\ amounts[i] = base[i] + room[i]
    OBVIOUS
  <2>1. base[i] = (IF replaced THEN 0 ELSE automatic[i]) /\ room[i] = amounts[i] - base[i]
    OBVIOUS
  <2> HIDE DEF base, room
  <2> QED BY <1>5, <2>1
<1>11. Sum(base) = IF replaced THEN 0 ELSE Sum(automatic)
  <2>1. CASE replaced
    <3>1. Scales(base, 0, base, S)
      BY <1>10, <2>1 DEF Scales
    <3>2. \A i \in S : base[i] \in Nat
      BY <1>10
    <3> HIDE DEF S, base
    <3>3. Sum(base) = 0 * Sum(base) /\ Sum(base) \in Nat
      BY <1>2, <3>1, <3>2, SumScales, SumIsNat
    <3> HIDE DEF Sum
    <3> QED BY <2>1, <3>3
  <2>2. CASE ~replaced
    <3>1. \A i \in S : base[i] = automatic[i]
      BY <2>2
    <3> HIDE DEF S, base
    <3> QED BY <1>2, <2>2, <3>1, SumsAreEqual
  <2> QED BY <2>1, <2>2
<1> HIDE DEF base, room
<1>12. Sum(amounts) = Sum(base) + Sum(room) /\ Sum(room) \in Nat /\ Sum(base) \in Nat
  <2>1. \A i \in S : base[i] \in Nat /\ room[i] \in Nat /\ amounts[i] = base[i] + room[i]
    BY <1>10
  <2> HIDE DEF S
  <2> QED BY <1>2, <2>1, SumsAdd, SumIsNat
<1>13. spread \in Nat /\ spread <= Sum(room)
  <2> HIDE DEF Sum, S
  <2>1. CASE b.coupon.combinable
    BY <1>7, <1>8, <1>9, <1>11, <1>12, <2>1 DEF Least
  <2>2. CASE ~b.coupon.combinable
    BY <1>7, <1>8, <1>9, <1>11, <1>12, <2>2
  <2> QED BY <2>1, <2>2
<1>14. Promised(b) = Sum(base) + spread
  <2>1. Promised(b) = IF b.coupon.combinable THEN Least(Sum(amounts), Sum(automatic) + off)
                      ELSE Max({Sum(automatic), off})
    <3>1. Total([i \in DOMAIN b.lines |-> b.lines[i].amount]) = Sum(amounts)
          /\ Total([i \in DOMAIN b.lines |-> BestAutomatic(b.lines[i])]) = Sum(automatic)
      <4> HIDE DEF Sum, S
      <4> QED BY <1>2, <1>3 DEF amounts, automatic
    <3> HIDE DEF Sum, S
    <3> QED BY <3>1 DEF Promised, off
  <2>2. Max({Sum(automatic), off}) = IF Sum(automatic) >= off THEN Sum(automatic) ELSE off
    <3> HIDE DEF Sum
    <3> QED BY <1>7, <1>8, LargestOfTwo
  <2>0. spread = IF b.coupon.combinable THEN Least(off, Sum(amounts) - Sum(automatic))
                 ELSE IF replaced THEN off ELSE 0
    OBVIOUS
  <2> DEFINE B == Sum(base)
             a == Sum(automatic)
             m == Sum(amounts)
  <2>5. /\ m \in Nat /\ a \in Nat /\ off \in Nat /\ a <= m /\ off <= m
        /\ B = (IF replaced THEN 0 ELSE a)
        /\ spread = IF b.coupon.combinable THEN Least(off, m - a) ELSE IF replaced THEN off ELSE 0
        /\ Promised(b) = IF b.coupon.combinable THEN Least(m, a + off)
                         ELSE IF a >= off THEN a ELSE off
    <3> HIDE DEF Sum, S, spread
    <3> QED BY <1>7, <1>8, <1>11, <2>0, <2>1, <2>2
  <2> HIDE DEF Sum, S, spread, B, a, m
  <2> SUFFICES Promised(b) = B + spread
    BY DEF B, Sum
  <2>3. CASE b.coupon.combinable
    <3>1. ~replaced
      BY <1>9, <2>3
    <3> QED BY <2>3, <2>5, <3>1 DEF Least
  <2>4. CASE ~b.coupon.combinable
    <3>1. replaced <=> off > a
      BY <1>9, <2>4 DEF a
    <3>2. CASE replaced
      BY <2>4, <2>5, <3>1, <3>2
    <3>3. CASE ~replaced
      BY <2>4, <2>5, <3>1, <3>3
    <3> QED BY <3>2, <3>3
  <2> QED BY <2>3, <2>4
<1> HIDE DEF spread
<1>15. Fair(S, room, spread, coupon)
  BY <1>10, <1>13, AllocationIsFair
<1> HIDE DEF coupon
<1>16. coupon \in [S -> Nat] /\ Sum(coupon) = spread /\ \A i \in S : coupon[i] <= room[i]
  BY <1>15 DEF Fair
<1>17. ASSUME NEW i \in S PROVE discount[i] = base[i] + coupon[i] /\ discount[i] \in 0..amounts[i]
  <2>1. discount[i] = Least(amounts[i], base[i] + coupon[i])
    OBVIOUS
  <2>2. /\ amounts[i] \in Nat /\ base[i] \in Nat /\ room[i] \in Nat /\ coupon[i] \in Nat
        /\ coupon[i] <= room[i] /\ amounts[i] = base[i] + room[i]
    BY <1>5, <1>10, <1>16
  <2> HIDE DEF discount
  <2> QED BY <2>1, <2>2 DEF Least
<1>18. Sum(discount) = Sum(base) + spread
  <2>1. \A i \in S : base[i] \in Nat /\ coupon[i] \in Nat /\ discount[i] = base[i] + coupon[i]
    BY <1>10, <1>16, <1>17
  <2>2. Sum(discount) = Sum(base) + Sum(coupon)
    <3> HIDE DEF S, discount
    <3> QED BY <1>2, <2>1, SumsAdd
  <2> QED BY <1>16, <2>2
<1>19. /\ [i \in DOMAIN priced |-> priced[i].discount] = discount
       /\ [i \in DOMAIN priced |-> priced[i].room] = room
       /\ [i \in DOMAIN priced |-> priced[i].coupon] = coupon
       /\ DOMAIN priced = S
       /\ \A i \in S : priced[i].discount = discount[i] /\ priced[i].room = room[i] /\ priced[i].coupon = coupon[i]
  <2>1. discount = [i \in S |-> discount[i]] /\ room = [i \in S |-> room[i]] /\ coupon = [i \in S |-> coupon[i]]
    BY <1>10, <1>16
  <2>2. priced = [i \in S |-> [discount |-> discount[i], coupon |-> coupon[i], room |-> room[i]]]
    BY <1>4
  <2> HIDE DEF S, discount
  <2> QED BY <2>1, <2>2
<1>20. /\ Total([i \in DOMAIN priced |-> priced[i].discount]) = Sum(discount)
       /\ Total([i \in DOMAIN priced |-> priced[i].room]) = Sum(room)
       /\ Total([i \in DOMAIN priced |-> priced[i].coupon]) = spread
  <2>1. DOMAIN discount = S /\ DOMAIN room = S /\ DOMAIN coupon = S
    BY <1>10, <1>16
  <2>2. Total(discount) = Sum(discount) /\ Total(room) = Sum(room) /\ Total(coupon) = Sum(coupon)
    <3> HIDE DEF S, Sum, discount
    <3> QED BY <1>3, <2>1
  <2> HIDE DEF S, Sum, discount
  <2> QED BY <1>16, <1>19, <2>2
<1>21. DiscountsAddUp
  <2> HIDE DEF S, Sum, discount
  <2> QED BY <1>14, <1>18, <1>20 DEF DiscountsAddUp
<1>22. SharesAreEven
  <2> SUFFICES ASSUME NEW i \in S
               PROVE  /\ priced[i].discount \in 0..b.lines[i].amount
                      /\ Sum(room) > 0 =>
                           LET gap == priced[i].coupon * Sum(room) - spread * priced[i].room
                           IN gap <= Sum(room) /\ -gap <= Sum(room)
    <3> HIDE DEF S, Sum, discount
    <3> QED BY <1>19, <1>20 DEF SharesAreEven
  <2>1. priced[i].discount \in 0..b.lines[i].amount
    <3>1. amounts[i] = b.lines[i].amount
      BY DEF amounts
    <3> HIDE DEF discount
    <3> QED BY <1>17, <1>19, <3>1
  <2>2. Sum(room) > 0 => LET gap == coupon[i] * Sum(room) - spread * room[i]
                         IN gap <= Sum(room) /\ -gap <= Sum(room)
    <3>1. WithinACent(room[i], Sum(room), coupon[i], spread)
      BY <1>15 DEF Fair
    <3> HIDE DEF S, Sum
    <3> QED BY <3>1 DEF WithinACent
  <2> HIDE DEF S, Sum, discount
  <2> QED BY <1>19, <2>1, <2>2
<1> QED BY <1>21, <1>22

(* A basket is priced as price_cart_lines prices it, or not yet.           *)
BasketInv == basket \in Baskets /\ (priced = <<>> \/ priced = PriceLines(basket))

LEMMA BasketStarts == PriceInit => BasketInv
BY DEF PriceInit, Baskets, BasketInv

LEMMA BasketStays == BasketInv /\ [PriceNext]_priceVars => BasketInv'
BY DEF PriceNext, priceVars, BasketInv

LEMMA BasketIsSound == BasketInv => PricingIsSound
BY PricesAreSound DEF PricingIsSound, BasketInv

(* For carts of any size, any amounts and any rules in force: the          *)
(* discounts of the lines add up to the promised one, to the cent, and     *)
(* every line bears its share of the coupon (price_cart_lines).            *)
THEOREM PricesAddUp == PriceSpec => []PricingIsSound
BY BasketStarts, BasketStays, BasketIsSound, PTL DEF PriceSpec

-----------------------------------------------------------------------------
(* ORDER.  Sequences of numbers of the same length are ordered: ...        *)
LEMMA NothingPrecedesItself ==
  ASSUME NEW N \in Nat, NEW s \in [1..N -> Int]
  PROVE  ~Precedes(s, s)
BY DEF Precedes

(* ... one precedes what another, which it precedes, precedes; ...         *)
LEMMA PrecedesIsTransitive ==
  ASSUME NEW N \in Nat, NEW s \in [1..N -> Int], NEW t \in [1..N -> Int], NEW u \in [1..N -> Int],
         Precedes(s, t), Precedes(t, u)
  PROVE  Precedes(s, u)
<1>1. PICK i \in 1..N : s[i] < t[i] /\ \A j \in 1..(i - 1) : s[j] = t[j]
  BY DEF Precedes
<1>2. PICK k \in 1..N : t[k] < u[k] /\ \A j \in 1..(k - 1) : t[j] = u[j]
  BY DEF Precedes
<1>3. CASE i <= k
  <2>1. s[i] < u[i]
    <3>1. s[i] \in Int /\ t[i] \in Int /\ u[i] \in Int
      OBVIOUS
    <3>2. t[i] <= u[i]
      <4>1. i \in 1..(k - 1) \/ i = k
        BY <1>3
      <4> QED BY <1>2, <3>1, <4>1
    <3> QED BY <1>1, <3>1, <3>2
  <2>2. \A j \in 1..(i - 1) : s[j] = u[j]
    <3>1. \A j \in 1..(i - 1) : j \in 1..(k - 1)
      BY <1>3
    <3> QED BY <1>1, <1>2, <3>1
  <2> QED BY <2>1, <2>2 DEF Precedes
<1>4. CASE k < i
  <2>1. s[k] < u[k] /\ k \in 1..(i - 1)
    <3>1. k \in 1..(i - 1)
      BY <1>4
    <3> QED BY <1>1, <1>2, <3>1
  <2>2. \A j \in 1..(k - 1) : s[j] = u[j]
    <3>1. \A j \in 1..(k - 1) : j \in 1..(i - 1)
      BY <1>4
    <3> QED BY <1>1, <1>2, <3>1
  <2> QED BY <2>1, <2>2 DEF Precedes
<1> QED BY <1>3, <1>4

(* ... and of two that differ one precedes the other.                      *)
LEMMA OnePrecedesTheOther ==
  ASSUME NEW N \in Nat, NEW s \in [1..N -> Int], NEW t \in [1..N -> Int], s # t
  PROVE  Precedes(s, t) \/ Precedes(t, s)
<1> DEFINE apart == {i \in 1..N : s[i] # t[i]}
<1>1. apart # {} /\ apart \subseteq Nat
  OBVIOUS
<1>2. PICK i \in apart : \A j \in apart : i <= j
  <2> HIDE DEF apart
  <2> QED BY <1>1, SmallestNumber
<1>3. \A j \in 1..(i - 1) : s[j] = t[j]
  BY <1>2
<1>4. s[i] \in Int /\ t[i] \in Int /\ s[i] # t[i] /\ i \in 1..N
  OBVIOUS
<1>5. s[i] < t[i] \/ t[i] < s[i]
  BY <1>4
<1> QED BY <1>3, <1>4, <1>5 DEF Precedes

(* Keys that tell the places of a finite set apart.                        *)
Keyed(key, S, N) ==
  /\ IsFiniteSet(S) /\ key \in [S -> [1..N -> Int]]
  /\ \A x, y \in S : x # y => key[x] # key[y]
Earlier(key, x) == {y \in DOMAIN key : Precedes(key[y], key[x])}

(* Each place has a rank of its own, ...                                   *)
LEMMA RanksDiffer ==
  ASSUME NEW N \in Nat, NEW S, NEW key, Keyed(key, S, N)
  PROVE  [x \in S |-> Cardinality(Earlier(key, x)) + 1] \in Bijection(S, 1..Cardinality(S))
<1> DEFINE n == Cardinality(S)
           rank == [x \in S |-> Cardinality(Earlier(key, x)) + 1]
<1>1. IsFiniteSet(S) /\ n \in Nat /\ DOMAIN key = S
  BY FS_CardinalityType DEF Keyed
<1>2. ASSUME NEW x \in S
      PROVE  /\ IsFiniteSet(Earlier(key, x)) /\ Cardinality(Earlier(key, x)) \in 0..(n - 1)
             /\ x \notin Earlier(key, x) /\ Earlier(key, x) \subseteq S
  <2>1. Earlier(key, x) \subseteq S
    BY <1>1 DEF Earlier
  <2>2. x \notin Earlier(key, x)
    <3>1. key[x] \in [1..N -> Int]
      BY DEF Keyed
    <3> QED BY <3>1, NothingPrecedesItself DEF Earlier
  <2>3. IsFiniteSet(S \ {x}) /\ Cardinality(S \ {x}) = n - 1
    BY <1>1, FS_RemoveElement
  <2>4. Earlier(key, x) \in SUBSET (S \ {x})
    BY <2>1, <2>2
  <2>5. IsFiniteSet(Earlier(key, x)) /\ Cardinality(Earlier(key, x)) <= n - 1
    BY <2>3, <2>4, FS_Subset
  <2>6. Cardinality(Earlier(key, x)) \in Nat
    BY <2>5, FS_CardinalityType
  <2> QED BY <1>1, <2>1, <2>2, <2>5, <2>6
<1>3. ASSUME NEW x \in S, NEW y \in S, Precedes(key[x], key[y])
      PROVE  Cardinality(Earlier(key, x)) + 1 <= Cardinality(Earlier(key, y))
  <2>1. Earlier(key, x) \cup {x} \subseteq Earlier(key, y)
    <3> SUFFICES ASSUME NEW z \in Earlier(key, x) PROVE z \in Earlier(key, y)
      BY <1>1, <1>3 DEF Earlier
    <3>1. z \in S /\ Precedes(key[z], key[x])
      BY <1>1 DEF Earlier
    <3>2. key[x] \in [1..N -> Int] /\ key[y] \in [1..N -> Int] /\ key[z] \in [1..N -> Int]
      BY <3>1 DEF Keyed
    <3>3. Precedes(key[z], key[y])
      BY <1>3, <3>1, <3>2, PrecedesIsTransitive
    <3> QED BY <1>1, <3>1, <3>3 DEF Earlier
  <2>2. Cardinality(Earlier(key, x) \cup {x}) = Cardinality(Earlier(key, x)) + 1
    BY <1>2, FS_AddElement
  <2>3. Cardinality(Earlier(key, x) \cup {x}) <= Cardinality(Earlier(key, y))
    BY <1>2, <2>1, FS_Subset
  <2> QED BY <2>2, <2>3
<1>4. \A x, y \in S : x # y => rank[x] # rank[y]
  <2> SUFFICES ASSUME NEW x \in S, NEW y \in S, x # y PROVE rank[x] # rank[y]
    OBVIOUS
  <2>1. key[x] \in [1..N -> Int] /\ key[y] \in [1..N -> Int] /\ key[x] # key[y]
    BY DEF Keyed
  <2>2. Precedes(key[x], key[y]) \/ Precedes(key[y], key[x])
    BY <2>1, OnePrecedesTheOther
  <2>3. Cardinality(Earlier(key, x)) + 1 <= Cardinality(Earlier(key, y))
        \/ Cardinality(Earlier(key, y)) + 1 <= Cardinality(Earlier(key, x))
    BY <1>3, <2>2
  <2>4. Cardinality(Earlier(key, x)) \in Int /\ Cardinality(Earlier(key, y)) \in Int
    BY <1>2
  <2>5. rank[x] = Cardinality(Earlier(key, x)) + 1 /\ rank[y] = Cardinality(Earlier(key, y)) + 1
    OBVIOUS
  <2> HIDE DEF rank
  <2> QED BY <2>3, <2>4, <2>5
<1>5. rank \in [S -> 1..n]
  <2>1. \A x \in S : Cardinality(Earlier(key, x)) + 1 \in 1..n
    BY <1>1, <1>2
  <2> QED BY <2>1
<1>6. rank \in Injection(S, 1..n)
  BY <1>4, <1>5 DEF Injection, IsInjective
<1>7. IsFiniteSet(1..n) /\ Cardinality(1..n) = n
  BY <1>1, FS_Interval
<1> HIDE DEF rank
<1>8. rank \in Surjection(S, 1..n)
  BY <1>6, <1>7, FS_Injection
<1> QED BY <1>6, <1>8 DEF Bijection, rank

(* ... so that ordering them lists each of them once.                      *)
LEMMA OrderingListsAll ==
  ASSUME NEW N \in Nat, NEW S, NEW key, Keyed(key, S, N)
  PROVE  /\ Cardinality(S) \in Nat /\ Ordering(key) \in Bijection(1..Cardinality(S), S)
         /\ \A r \in 1..Cardinality(S) :
              \A x \in S : x = Ordering(key)[r] <=> Cardinality(Earlier(key, x)) = r - 1
<1> DEFINE n == Cardinality(S)
           rank == [x \in S |-> Cardinality(Earlier(key, x)) + 1]
           order == Ordering(key)
<1>1. IsFiniteSet(S) /\ n \in Nat /\ DOMAIN key = S
  BY FS_CardinalityType DEF Keyed
<1>2. rank \in Bijection(S, 1..n)
  BY RanksDiffer
<1>3. order = [r \in 1..n |-> CHOOSE x \in S : Cardinality(Earlier(key, x)) = r - 1]
  BY <1>1 DEF Ordering, Earlier
<1>4. \A x \in S : Cardinality(Earlier(key, x)) \in Int /\ rank[x] = Cardinality(Earlier(key, x)) + 1
  <2>1. \A x \in S : IsFiniteSet(Earlier(key, x))
    BY <1>1, FS_Subset DEF Earlier
  <2> QED BY <2>1, FS_CardinalityType
<1> HIDE DEF rank, order
<1>5. /\ \A x \in S : rank[x] \in 1..n
      /\ \A x, y \in S : rank[x] = rank[y] => x = y
      /\ \A r \in 1..n : \E x \in S : rank[x] = r
  BY <1>2 DEF Bijection, Injection, Surjection, IsInjective
<1>6. ASSUME NEW r \in 1..n PROVE order[r] \in S /\ rank[order[r]] = r
  <2>1. PICK x \in S : rank[x] = r
    BY <1>5
  <2>2. Cardinality(Earlier(key, x)) = r - 1
    BY <1>1, <1>4, <2>1
  <2>3. order[r] \in S /\ Cardinality(Earlier(key, order[r])) = r - 1
    BY <1>3, <2>2
  <2> QED BY <1>1, <1>4, <2>3
<1>7. \A r \in 1..n : \A x \in S : x = order[r] <=> Cardinality(Earlier(key, x)) = r - 1
  <2> SUFFICES ASSUME NEW r \in 1..n, NEW x \in S
               PROVE  x = order[r] <=> Cardinality(Earlier(key, x)) = r - 1
    OBVIOUS
  <2>1. x = order[r] <=> rank[x] = r
    BY <1>5, <1>6
  <2>2. rank[x] = r <=> Cardinality(Earlier(key, x)) = r - 1
    BY <1>1, <1>4
  <2> QED BY <2>1, <2>2
<1>8. order \in Bijection(1..n, S)
  <2>1. order \in [1..n -> S]
    BY <1>3, <1>6
  <2>2. \A q, r \in 1..n : order[q] = order[r] => q = r
    BY <1>6
  <2>3. \A x \in S : \E r \in 1..n : order[r] = x
    BY <1>5, <1>6
  <2> QED BY <2>1, <2>2, <2>3 DEF Bijection, Injection, Surjection, IsInjective
<1> QED BY <1>1, <1>7, <1>8 DEF order

(* A set whose places are ordered alike is listed alike.                   *)
LEMMA OrderedAlike ==
  ASSUME NEW N \in Nat, NEW S, NEW key, Keyed(key, S, N), NEW T, NEW other, Keyed(other, T, N),
         NEW same \in Bijection(S, T),
         \A x, y \in S : Precedes(key[x], key[y]) <=> Precedes(other[same[x]], other[same[y]])
  PROVE  /\ Cardinality(S) = Cardinality(T)
         /\ \A r \in 1..Cardinality(S) : Ordering(other)[r] = same[Ordering(key)[r]]
<1>1. /\ IsFiniteSet(S) /\ IsFiniteSet(T) /\ DOMAIN key = S /\ DOMAIN other = T
      /\ \A x \in S : same[x] \in T
      /\ \A x, y \in S : same[x] = same[y] => x = y
      /\ \A z \in T : \E x \in S : same[x] = z
  BY DEF Keyed, Bijection, Injection, Surjection, IsInjective
<1>2. Cardinality(S) = Cardinality(T)
  BY <1>1, FS_Bijection DEF ExistsBijection
<1>3. ASSUME NEW x \in S
      PROVE  Cardinality(Earlier(key, x)) = Cardinality(Earlier(other, same[x]))
  <2> DEFINE f == [y \in Earlier(key, x) |-> same[y]]
  <2>0. Earlier(key, x) \subseteq S /\ Earlier(other, same[x]) \subseteq T
    BY <1>1 DEF Earlier
  <2>1. f \in [Earlier(key, x) -> Earlier(other, same[x])]
    BY <1>1 DEF Earlier
  <2>2. \A y, z \in Earlier(key, x) : f[y] = f[z] => y = z
    BY <1>1, <2>0
  <2>3. \A z \in Earlier(other, same[x]) : \E y \in Earlier(key, x) : f[y] = z
    <3> SUFFICES ASSUME NEW z \in Earlier(other, same[x])
                 PROVE  \E y \in Earlier(key, x) : same[y] = z
      OBVIOUS
    <3>1. PICK y \in S : same[y] = z
      BY <1>1, <2>0
    <3>2. Precedes(other[same[y]], other[same[x]])
      BY <3>1 DEF Earlier
    <3>3. y \in Earlier(key, x)
      BY <1>1, <3>2 DEF Earlier
    <3> QED BY <3>1, <3>3
  <2>4. f \in Bijection(Earlier(key, x), Earlier(other, same[x]))
    <3> HIDE DEF f
    <3> QED BY <2>1, <2>2, <2>3 DEF Bijection, Injection, Surjection, IsInjective
  <2>5. IsFiniteSet(Earlier(key, x))
    BY <1>1, <2>0, FS_Subset
  <2> HIDE DEF f
  <2> QED BY <2>4, <2>5, FS_Bijection DEF ExistsBijection
<1>4. ASSUME NEW r \in 1..Cardinality(S) PROVE Ordering(other)[r] = same[Ordering(key)[r]]
  <2> DEFINE x == Ordering(key)[r]
  <2>1. x \in S /\ Cardinality(Earlier(key, x)) = r - 1
    <3>1. x \in S
      BY OrderingListsAll DEF Bijection, Injection
    <3> QED BY <3>1, OrderingListsAll
  <2> HIDE DEF x
  <2>2. same[x] \in T /\ Cardinality(Earlier(other, same[x])) = r - 1
    BY <1>1, <1>3, <2>1
  <2>3. same[x] = Ordering(other)[r]
    BY <1>2, <2>2, OrderingListsAll
  <2> QED BY <2>3 DEF x
<1> QED BY <1>2, <1>4

(* A finite set of sequences that is not empty has a first one.            *)
LEMMA OneIsFirst ==
  ASSUME NEW N \in Nat, NEW T, IsFiniteSet(T), T # {}, T \subseteq [1..N -> Int]
  PROVE  \E p \in T : \A q \in T : ~Precedes(q, p)
<1> DEFINE key == [p \in T |-> p]
<1>1. Keyed(key, T, N) /\ \A p \in T : key[p] = p
  BY DEF Keyed
<1>2. Cardinality(T) \in Nat /\ Cardinality(T) # 0
  BY FS_CardinalityType, FS_EmptySet
<1>3. 1 \in 1..Cardinality(T)
  BY <1>2
<1> DEFINE first == Ordering(key)[1]
<1>5. DOMAIN key = T
  OBVIOUS
<1> HIDE DEF key
<1>4. first \in T /\ Cardinality(Earlier(key, first)) = 1 - 1
  <2>1. first \in T
    BY <1>1, <1>3, OrderingListsAll DEF Bijection, Injection
  <2> QED BY <1>1, <1>3, <2>1, OrderingListsAll
<1> HIDE DEF first
<1>6. IsFiniteSet(Earlier(key, first))
  BY <1>5, FS_Subset DEF Earlier
<1>7. Earlier(key, first) = {}
  BY <1>4, <1>6, FS_EmptySet
<1>8. \A q \in T : ~Precedes(q, first)
  BY <1>1, <1>4, <1>5, <1>7 DEF Earlier
<1> QED BY <1>4, <1>8

-----------------------------------------------------------------------------
(* TURNING.  A box turned over is as large.                                *)
Space == [1..3 -> Nat]

(* It keeps its volume and no side of it vanishes.                         *)
LEMMA TurnedIsAsLarge ==
  ASSUME NEW s \in Space, NEW r \in Rotations(s)
  PROVE  /\ r \in Space /\ Volume(r) = Volume(s)
         /\ (\A d \in 1..3 : s[d] > 0) => \A d \in 1..3 : r[d] > 0
<1>1. PICK q \in [1..3 -> 1..3] : /\ q[1] # q[2] /\ q[1] # q[3] /\ q[2] # q[3]
                                  /\ r = <<s[q[1]], s[q[2]], s[q[3]]>>
  BY DEF Rotations
<1>2. \A d \in 1..3 : q[d] \in 1..3 /\ r[d] = s[q[d]] /\ s[q[d]] \in Nat
  BY <1>1 DEF Space
<1>3. r \in [1..3 -> Nat]
  BY <1>1, <1>2
<1>4. /\ s[1] \in Nat /\ s[2] \in Nat /\ s[3] \in Nat
      /\ q[1] \in {1, 2, 3} /\ q[2] \in {1, 2, 3} /\ q[3] \in {1, 2, 3}
  BY <1>2 DEF Space
<1>5. \A a, b, c \in Nat : /\ (a * c) * b = (a * b) * c /\ (b * a) * c = (a * b) * c
                           /\ (b * c) * a = (a * b) * c /\ (c * a) * b = (a * b) * c
                           /\ (c * b) * a = (a * b) * c
  OBVIOUS
<1>6. Volume(r) = (s[q[1]] * s[q[2]]) * s[q[3]] /\ Volume(s) = (s[1] * s[2]) * s[3]
  BY <1>2 DEF Volume
<1>7. /\ (s[1] * s[3]) * s[2] = Volume(s) /\ (s[2] * s[1]) * s[3] = Volume(s)
      /\ (s[2] * s[3]) * s[1] = Volume(s) /\ (s[3] * s[1]) * s[2] = Volume(s)
      /\ (s[3] * s[2]) * s[1] = Volume(s)
  BY <1>4, <1>5, <1>6
<1>8. Volume(r) = Volume(s)
  <2>1. \/ q[1] = 1 /\ q[2] = 2 /\ q[3] = 3
        \/ q[1] = 1 /\ q[2] = 3 /\ q[3] = 2
        \/ q[1] = 2 /\ q[2] = 1 /\ q[3] = 3
        \/ q[1] = 2 /\ q[2] = 3 /\ q[3] = 1
        \/ q[1] = 3 /\ q[2] = 1 /\ q[3] = 2
        \/ q[1] = 3 /\ q[2] = 2 /\ q[3] = 1
    BY <1>1, <1>4
  <2> QED BY <1>6, <1>7, <2>1, Zenon
<1> QED BY <1>2, <1>3, <1>8 DEF Space

(* One way of turning it puts the longest side first.                      *)
LEMMA SomeIsLongest ==
  ASSUME NEW s \in Space
  PROVE  Longest(s) \in Rotations(s)
<1>1. \E r \in Rotations(s) : r[1] >= r[2] /\ r[2] >= r[3]
  <2>1. ASSUME NEW a \in 1..3, NEW b \in 1..3, NEW c \in 1..3, a # b, a # c, b # c,
               s[a] >= s[b], s[b] >= s[c]
        PROVE  \E r \in Rotations(s) : r[1] >= r[2] /\ r[2] >= r[3]
    <3> DEFINE q == [d \in 1..3 |-> IF d = 1 THEN a ELSE IF d = 2 THEN b ELSE c]
               r == <<s[a], s[b], s[c]>>
    <3>1. q \in [1..3 -> 1..3] /\ q[1] = a /\ q[2] = b /\ q[3] = c
      OBVIOUS
    <3> HIDE DEF q
    <3>2. r \in Rotations(s)
      BY <2>1, <3>1 DEF Rotations
    <3>3. r[1] >= r[2] /\ r[2] >= r[3]
      BY <2>1
    <3> QED BY <3>2, <3>3
  <2>2. s[1] \in Nat /\ s[2] \in Nat /\ s[3] \in Nat
    BY DEF Space
  <2>3. \/ s[1] >= s[2] /\ s[2] >= s[3]
        \/ s[1] >= s[3] /\ s[3] >= s[2]
        \/ s[2] >= s[1] /\ s[1] >= s[3]
        \/ s[2] >= s[3] /\ s[3] >= s[1]
        \/ s[3] >= s[1] /\ s[1] >= s[2]
        \/ s[3] >= s[2] /\ s[2] >= s[1]
    BY <2>2
  <2>4. 1 \in 1..3 /\ 2 \in 1..3 /\ 3 \in 1..3 /\ 1 # 2 /\ 1 # 3 /\ 2 # 3
    OBVIOUS
  <2> QED BY <2>1, <2>3, <2>4
<1> QED BY <1>1 DEF Longest

(* There are finitely many ways of turning it.                             *)
LEMMA RotationsAreFew ==
  ASSUME NEW s \in Space
  PROVE  IsFiniteSet(Rotations(s))
<1> DEFINE D == 1..3
           P == (D \X D) \X D
           All == {<<s[p[1][1]], s[p[1][2]], s[p[2]]>> : p \in P}
           f == [p \in P |-> <<s[p[1][1]], s[p[1][2]], s[p[2]]>>]
<1>1. IsFiniteSet(P)
  <2>1. IsFiniteSet(D)
    <3>1. \A n \in Int : IsFiniteSet(1..n)
      BY FS_Interval
    <3>2. PICK n \in Int : n = 3
      OBVIOUS
    <3> QED BY <3>1, <3>2
  <2> HIDE DEF D
  <2> QED BY <2>1, FS_Product
<1>2. f \in Surjection(P, All)
  BY DEF Surjection
<1>3. IsFiniteSet(All)
  <2> HIDE DEF P, f, All
  <2> QED BY <1>1, <1>2, FS_Surjection
<1>4. Rotations(s) \subseteq All
  <2> SUFFICES ASSUME NEW r \in Rotations(s) PROVE r \in All
    OBVIOUS
  <2>1. PICK q \in [1..3 -> 1..3] : r = <<s[q[1]], s[q[2]], s[q[3]]>>
    BY DEF Rotations
  <2>2. q[1] \in D /\ q[2] \in D /\ q[3] \in D
    BY <2>1
  <2>3. <<<<q[1], q[2]>>, q[3]>> \in P
    BY <2>2
  <2> QED BY <2>1, <2>3
<1> HIDE DEF All
<1> QED BY <1>3, <1>4, FS_Subset

-----------------------------------------------------------------------------
(* UNITS.  The lines of a cart are of different SKUs.                      *)
IsCart(items, m) ==
  /\ items \in [1..m -> Item]
  /\ \A i, j \in 1..m : i # j => items[i].sku # items[j].sku

(* An item has sides, a weight, a SKU and a bounded quantity.              *)
LEMMA ItemIsSized ==
  ASSUME NEW item \in Item
  PROVE  /\ item.sides \in Space /\ item.weight \in Nat /\ item.sku \in Nat
         /\ item.quantity \in Nat /\ item.quantity <= MaxOfSku
         /\ \A d \in 1..3 : item.sides[d] > 0
<1>1. item.sides \in [1..3 -> Sides] /\ item.weight \in Weights /\ item.sku \in Skus
      /\ item.quantity \in 1..MaxOfSku
  BY DEF Item
<1>2. \A n \in Sides : n \in Nat /\ n > 0
  BY PackingAssumption
<1>3. item.sides \in Space /\ \A d \in 1..3 : item.sides[d] > 0
  BY <1>1, <1>2 DEF Space
<1>4. MaxOfSku \in Nat /\ Weights \subseteq Nat /\ Skus \subseteq Nat
  BY PackingAssumption
<1>5. item.quantity \in Nat /\ item.quantity <= MaxOfSku
  <2> DEFINE q == item.quantity
  <2>1. q \in 1..MaxOfSku
    BY <1>1
  <2> HIDE DEF q
  <2>2. q \in Nat /\ q <= MaxOfSku
    BY <1>4, <2>1
  <2> QED BY <2>2 DEF q
<1> QED BY <1>1, <1>3, <1>4, <1>5

(* The key a unit is sorted by: eight numbers, its place last.             *)
LEMMA KeyOfUnit ==
  ASSUME NEW item \in Item, NEW u \in Nat \X Nat
  PROVE  /\ UnitKey(item, u) \in [1..8 -> Int]
         /\ UnitKey(item, u)[5] = item.sku
         /\ UnitKey(item, u)[7] = u[1] /\ UnitKey(item, u)[8] = u[2]
<1> DEFINE l == Longest(item.sides)
<1>1. item.sides \in Space /\ item.weight \in Nat /\ item.sku \in Nat
  BY ItemIsSized
<1>2. l \in Space
  BY <1>1, SomeIsLongest, TurnedIsAsLarge
<1>3. l[1] \in Nat /\ l[2] \in Nat /\ l[3] \in Nat
  <2> HIDE DEF l
  <2> QED BY <1>2 DEF Space
<1>4. Volume(item.sides) \in Int
  <2>1. item.sides[1] \in Nat /\ item.sides[2] \in Nat /\ item.sides[3] \in Nat
    BY <1>1 DEF Space
  <2> QED BY <2>1 DEF Volume
<1>5. UnitKey(item, u) =
        <<-Volume(item.sides), -l[1], -l[2], -l[3], item.sku, item.weight, u[1], u[2]>>
  BY DEF UnitKey
<1> HIDE DEF l
<1> QED BY <1>1, <1>3, <1>4, <1>5

(* Two units of an item differ in their place only.                        *)
LEMMA SameItemSameKey ==
  ASSUME NEW item \in Item, NEW u \in Nat \X Nat, NEW v \in Nat \X Nat
  PROVE  \A j \in 1..6 : UnitKey(item, u)[j] = UnitKey(item, v)[j]
BY DEF UnitKey

KeyOfCopies(items) == [u \in Copies(items) |-> UnitKey(items[u[1]], u)]

(* The copies of a cart have keys that are all different.                  *)
LEMMA CopiesAreKeyed ==
  ASSUME NEW m \in Nat, NEW items, IsCart(items, m)
  PROVE  /\ Keyed(KeyOfCopies(items), Copies(items), 8)
         /\ Copies(items) \subseteq (1..m) \X (1..MaxOfSku)
         /\ Copies(items) \subseteq Nat \X Nat
<1> DEFINE C == Copies(items)
           key == [u \in C |-> UnitKey(items[u[1]], u)]
<1>1. C \subseteq (1..m) \X (1..MaxOfSku)
  BY DEF Copies, IsCart
<1>2. IsFiniteSet(C)
  <2> DEFINE A == 1..m
             B == 1..MaxOfSku
  <2>1. IsFiniteSet(A) /\ IsFiniteSet(B)
    BY FS_Interval, PackingAssumption
  <2> HIDE DEF A, B
  <2>2. IsFiniteSet(A \X B)
    BY <2>1, FS_Product
  <2>3. C \in SUBSET (A \X B)
    BY <1>1 DEF A, B
  <2> HIDE DEF C
  <2> QED BY <2>2, <2>3, FS_Subset
<1>3. ASSUME NEW u \in C PROVE u \in Nat \X Nat /\ u[1] \in 1..m /\ items[u[1]] \in Item
  <2>1. u \in (1..m) \X (1..MaxOfSku)
    BY <1>1
  <2> QED BY <2>1, PackingAssumption DEF IsCart
<1> HIDE DEF C
<1>4. key \in [C -> [1..8 -> Int]]
  BY <1>3, KeyOfUnit
<1>5. ASSUME NEW u \in C, NEW v \in C, key[u] = key[v] PROVE u = v
  <2>1. /\ UnitKey(items[u[1]], u)[7] = u[1] /\ UnitKey(items[u[1]], u)[8] = u[2]
        /\ UnitKey(items[v[1]], v)[7] = v[1] /\ UnitKey(items[v[1]], v)[8] = v[2]
    BY <1>3, KeyOfUnit
  <2>2. UnitKey(items[u[1]], u) = UnitKey(items[v[1]], v)
    BY <1>5
  <2>3. u[1] = v[1] /\ u[2] = v[2]
    BY <2>1, <2>2
  <2> QED BY <1>3, <2>3
<1>6. Keyed(key, C, 8)
  <2> HIDE DEF key
  <2> QED BY <1>2, <1>4, <1>5 DEF Keyed
<1> QED BY <1>1, <1>3, <1>6 DEF C, KeyOfCopies

(* The units are the copies of the lines, each once.                       *)
LEMMA UnitsListCopies ==
  ASSUME NEW m \in Nat, NEW items, IsCart(items, m), NEW n, n = Cardinality(Copies(items)),
         NEW order, order = Ordering(KeyOfCopies(items))
  PROVE  /\ n \in Nat /\ order \in Bijection(1..n, Copies(items)) /\ order \in [1..n -> Copies(items)]
         /\ Units(items) \in [1..n -> Item]
         /\ \A r \in 1..n : Units(items)[r] = items[order[r][1]]
<1> DEFINE C == Copies(items)
<1>1. Keyed(KeyOfCopies(items), C, 8) /\ C \subseteq (1..m) \X (1..MaxOfSku)
  BY CopiesAreKeyed
<1>2. Units(items) = [r \in DOMAIN order |-> items[order[r][1]]]
  BY DEF Units, KeyOfCopies
<1> HIDE DEF C
<1>3. n \in Nat /\ order \in Bijection(1..n, C)
  BY <1>1, OrderingListsAll DEF C
<1>4. order \in [1..n -> C]
  BY <1>3 DEF Bijection, Injection
<1>5. \A r \in 1..n : order[r] \in C /\ order[r][1] \in 1..m
  BY <1>1, <1>4
<1>6. \A r \in 1..n : items[order[r][1]] \in Item
  BY <1>5 DEF IsCart
<1>7. Units(items) \in [1..n -> Item] /\ \A r \in 1..n : Units(items)[r] = items[order[r][1]]
  BY <1>2, <1>4, <1>6
<1> QED BY <1>3, <1>4, <1>7 DEF C

(* Two keys are told apart where they first differ.                        *)
Key == [1..8 -> Int]

(* Units of different SKUs are ordered before their place is looked at,    *)
(* ...                                                                     *)
LEMMA FirstPartsDecide ==
  ASSUME NEW s \in Key, NEW t \in Key, NEW v \in Key, NEW w \in Key,
         s[5] # t[5], \A j \in 1..6 : s[j] = v[j] /\ t[j] = w[j], Precedes(s, t)
  PROVE  Precedes(v, w)
<1>1. PICK i \in 1..8 : s[i] < t[i] /\ \A j \in 1..(i - 1) : s[j] = t[j]
  BY DEF Precedes, Key
<1>2. i <= 5
  <2> SUFFICES ASSUME 5 < i PROVE FALSE
    OBVIOUS
  <2>1. 5 \in 1..(i - 1)
    OBVIOUS
  <2> QED BY <1>1, <2>1
<1>3. i \in 1..6 /\ \A j \in 1..(i - 1) : j \in 1..6
  BY <1>2
<1>4. v[i] < w[i] /\ \A j \in 1..(i - 1) : v[j] = w[j]
  BY <1>1, <1>3
<1> QED BY <1>4 DEF Precedes, Key

(* ... and those of one line by the number of the copy.                    *)
LEMMA LastPartDecides ==
  ASSUME NEW s \in Key, NEW t \in Key, \A j \in 1..6 : s[j] = t[j], s[7] = t[7]
  PROVE  Precedes(s, t) <=> s[8] < t[8]
<1>1. 8 \in 1..8 /\ \A j \in 1..(8 - 1) : j \in 1..6 \/ j = 7
  OBVIOUS
<1>2. \A j \in 1..(8 - 1) : s[j] = t[j]
  BY <1>1
<1>3. s[8] < t[8] => Precedes(s, t)
  BY <1>1, <1>2 DEF Precedes, Key
<1>4. ASSUME NEW i \in 1..8, s[i] < t[i] PROVE s[8] < t[8]
  <2>1. i \in 1..6 \/ i = 7 \/ i = 8
    OBVIOUS
  <2>2. s[i] # t[i]
    <3>1. s[i] \in Int /\ t[i] \in Int
      BY DEF Key
    <3> QED BY <1>4, <3>1
  <2> QED BY <1>4, <2>1, <2>2
<1> QED BY <1>3, <1>4 DEF Precedes, Key

(* The units come in the same order however the lines are read.            *)
LEMMA UnitsComeInOrder ==
  ASSUME NEW m \in Nat, NEW items, IsCart(items, m), NEW p \in Bijection(1..m, 1..m)
  PROVE  LET again == [i \in 1..m |-> items[p[i]]]
         IN IsCart(again, m) /\ Units(again) = Units(items)
<1> DEFINE again == [i \in 1..m |-> items[p[i]]]
           S == Copies(again)
           T == Copies(items)
           key == KeyOfCopies(again)
           other == KeyOfCopies(items)
           same == [u \in S |-> <<p[u[1]], u[2]>>]
<1>1. /\ \A i \in 1..m : p[i] \in 1..m
      /\ \A i, j \in 1..m : p[i] = p[j] => i = j
      /\ \A j \in 1..m : \E i \in 1..m : p[i] = j
  BY DEF Bijection, Injection, Surjection, IsInjective
<1>2. IsCart(again, m)
  <2>1. again \in [1..m -> Item]
    BY <1>1 DEF IsCart
  <2>2. \A i, j \in 1..m : i # j => again[i].sku # again[j].sku
    <3> SUFFICES ASSUME NEW i \in 1..m, NEW j \in 1..m, i # j
                 PROVE  again[i].sku # again[j].sku
      OBVIOUS
    <3>1. p[i] \in 1..m /\ p[j] \in 1..m /\ p[i] # p[j]
      BY <1>1
    <3>2. items[p[i]].sku # items[p[j]].sku
      BY <3>1 DEF IsCart
    <3>3. again[i] = items[p[i]] /\ again[j] = items[p[j]]
      OBVIOUS
    <3> HIDE DEF again
    <3> QED BY <3>2, <3>3
  <2> HIDE DEF again
  <2> QED BY <2>1, <2>2 DEF IsCart
<1>3. \A i \in 1..m : again[i] = items[p[i]]
  OBVIOUS
<1>4. DOMAIN again = 1..m /\ DOMAIN items = 1..m
  BY DEF IsCart
<1> HIDE DEF again
<1>5. /\ Keyed(key, S, 8) /\ S \subseteq (1..m) \X (1..MaxOfSku) /\ S \subseteq Nat \X Nat
      /\ Keyed(other, T, 8) /\ T \subseteq (1..m) \X (1..MaxOfSku) /\ T \subseteq Nat \X Nat
  BY <1>2, CopiesAreKeyed
<1>6. /\ \A u : u \in S <=> u \in (1..m) \X (1..MaxOfSku) /\ u[2] <= items[p[u[1]]].quantity
      /\ \A u : u \in T <=> u \in (1..m) \X (1..MaxOfSku) /\ u[2] <= items[u[1]].quantity
  BY <1>3, <1>4 DEF Copies
<1> HIDE DEF S, T
<1>7. \A u \in S : same[u] = <<p[u[1]], u[2]>> /\ same[u][1] = p[u[1]] /\ same[u][2] = u[2]
  OBVIOUS
<1>8. \A u \in S : same[u] \in T
  <2> SUFFICES ASSUME NEW u \in S PROVE same[u] \in T
    OBVIOUS
  <2>1. u \in (1..m) \X (1..MaxOfSku) /\ u[2] <= items[p[u[1]]].quantity
    BY <1>6
  <2>2. p[u[1]] \in 1..m /\ u[2] \in 1..MaxOfSku
    BY <1>1, <2>1
  <2>3. <<p[u[1]], u[2]>> \in (1..m) \X (1..MaxOfSku)
    BY <2>2
  <2> HIDE DEF same
  <2> QED BY <1>6, <1>7, <2>1, <2>3
<1>9. same \in Bijection(S, T)
  <2>1. same \in [S -> T]
    BY <1>8
  <2>2. \A u, v \in S : same[u] = same[v] => u = v
    <3> SUFFICES ASSUME NEW u \in S, NEW v \in S, same[u] = same[v] PROVE u = v
      OBVIOUS
    <3>1. u \in (1..m) \X (1..MaxOfSku) /\ v \in (1..m) \X (1..MaxOfSku)
      BY <1>6
    <3>2. p[u[1]] = p[v[1]] /\ u[2] = v[2]
      BY <1>7
    <3>3. u[1] = v[1]
      BY <1>1, <3>1, <3>2
    <3> QED BY <3>1, <3>2, <3>3
  <2>3. \A w \in T : \E u \in S : same[u] = w
    <3> SUFFICES ASSUME NEW w \in T PROVE \E u \in S : same[u] = w
      OBVIOUS
    <3>1. w \in (1..m) \X (1..MaxOfSku) /\ w[2] <= items[w[1]].quantity
      BY <1>6
    <3>2. PICK i \in 1..m : p[i] = w[1]
      BY <1>1, <3>1
    <3>3. <<i, w[2]>> \in S
      BY <1>6, <3>1, <3>2
    <3>4. same[<<i, w[2]>>] = w
      BY <1>7, <3>1, <3>2, <3>3
    <3> QED BY <3>3, <3>4
  <2> HIDE DEF same
  <2> QED BY <2>1, <2>2, <2>3 DEF Bijection, Injection, Surjection, IsInjective
<1>10. ASSUME NEW x \in S
       PROVE  /\ x \in Nat \X Nat /\ x[1] \in 1..m /\ p[x[1]] \in 1..m /\ items[p[x[1]]] \in Item
              /\ same[x] \in T /\ key[x] \in Key /\ other[same[x]] \in Key
              /\ key[x][5] = items[p[x[1]]].sku /\ other[same[x]][5] = items[p[x[1]]].sku
              /\ key[x][7] = x[1] /\ key[x][8] = x[2]
              /\ other[same[x]][7] = p[x[1]] /\ other[same[x]][8] = x[2]
              /\ key[x] = UnitKey(items[p[x[1]]], x) /\ other[same[x]] = UnitKey(items[p[x[1]]], same[x])
              /\ \A j \in 1..6 : key[x][j] = other[same[x]][j]
  <2>1. x \in (1..m) \X (1..MaxOfSku) /\ x \in Nat \X Nat
    BY <1>5, <1>6
  <2>2. x[1] \in 1..m /\ p[x[1]] \in 1..m
    BY <1>1, <2>1
  <2>3. key[x] = UnitKey(items[p[x[1]]], x)
    BY <1>3, <2>2 DEF KeyOfCopies, S
  <2>4. same[x] \in T /\ same[x] \in Nat \X Nat /\ same[x][1] = p[x[1]] /\ same[x][2] = x[2]
    BY <1>5, <1>7, <1>8
  <2>5. other[same[x]] = UnitKey(items[p[x[1]]], same[x])
    <3> HIDE DEF same
    <3> QED BY <2>4 DEF KeyOfCopies, T
  <2>6. items[p[x[1]]] \in Item
    BY <2>2 DEF IsCart
  <2> DEFINE item == items[p[x[1]]]
             y == same[x]
  <2> HIDE DEF key, other, same, item, y
  <2>7. item \in Item /\ y \in Nat \X Nat /\ y[1] = p[x[1]] /\ y[2] = x[2]
        /\ key[x] = UnitKey(item, x) /\ other[y] = UnitKey(item, y)
    BY <2>3, <2>4, <2>5, <2>6 DEF item, y
  <2>8. /\ key[x] \in Key /\ key[x][5] = item.sku /\ key[x][7] = x[1] /\ key[x][8] = x[2]
        /\ other[y] \in Key /\ other[y][5] = item.sku /\ other[y][7] = y[1] /\ other[y][8] = y[2]
    BY <2>1, <2>7, KeyOfUnit DEF Key
  <2>9. \A j \in 1..6 : key[x][j] = other[y][j]
    BY <2>1, <2>7, SameItemSameKey
  <2> QED BY <2>1, <2>2, <2>3, <2>4, <2>5, <2>6, <2>7, <2>8, <2>9 DEF item, y
<1> HIDE DEF key, other, same
<1>11. ASSUME NEW x \in S, NEW y \in S
       PROVE  Precedes(key[x], key[y]) <=> Precedes(other[same[x]], other[same[y]])
  <2> DEFINE s == key[x]
             t == key[y]
             v == other[same[x]]
             w == other[same[y]]
  <2>1. /\ s \in Key /\ t \in Key /\ v \in Key /\ w \in Key
        /\ s[7] = x[1] /\ s[8] = x[2] /\ t[7] = y[1] /\ t[8] = y[2]
        /\ v[7] = p[x[1]] /\ v[8] = x[2] /\ w[7] = p[y[1]] /\ w[8] = y[2]
        /\ \A j \in 1..6 : s[j] = v[j] /\ t[j] = w[j]
    BY <1>10
  <2>2. s[5] = items[p[x[1]]].sku /\ t[5] = items[p[y[1]]].sku
    BY <1>10
  <2>3. CASE x[1] = y[1]
    <3>1. \A j \in 1..6 : s[j] = t[j]
      <4> DEFINE a == items[p[x[1]]]
      <4>1. /\ s = UnitKey(a, x) /\ t = UnitKey(a, y)
            /\ a \in Item /\ x \in Nat \X Nat /\ y \in Nat \X Nat
        BY <1>10, <2>3
      <4> HIDE DEF s, t, a
      <4> QED BY <4>1, SameItemSameKey
    <3> HIDE DEF s, t, v, w
    <3>2. \A j \in 1..6 : v[j] = w[j]
      BY <2>1, <3>1
    <3>3. s[7] = t[7] /\ v[7] = w[7]
      BY <2>1, <2>3
    <3>4. (Precedes(s, t) <=> s[8] < t[8]) /\ (Precedes(v, w) <=> v[8] < w[8])
      BY <2>1, <3>1, <3>2, <3>3, LastPartDecides
    <3>5. s[8] = v[8] /\ t[8] = w[8]
      BY <2>1
    <3> QED BY <3>4, <3>5 DEF s, t, v, w
  <2>4. CASE x[1] # y[1]
    <3>1. s[5] # t[5]
      <4>1. p[x[1]] \in 1..m /\ p[y[1]] \in 1..m /\ p[x[1]] # p[y[1]]
        BY <1>1, <1>10, <2>4
      <4>2. items[p[x[1]]].sku # items[p[y[1]]].sku
        BY <4>1 DEF IsCart
      <4> HIDE DEF s, t
      <4> QED BY <2>2, <4>2
    <3> HIDE DEF s, t, v, w
    <3>2. v[5] # w[5] /\ \A j \in 1..6 : v[j] = s[j] /\ w[j] = t[j]
      BY <2>1, <3>1
    <3>3. Precedes(s, t) => Precedes(v, w)
      BY <2>1, <3>1, FirstPartsDecide
    <3>4. Precedes(v, w) => Precedes(s, t)
      BY <2>1, <3>2, FirstPartsDecide
    <3> QED BY <3>3, <3>4 DEF s, t, v, w
  <2> QED BY <2>3, <2>4
<1> DEFINE n == Cardinality(S)
<1>12. n = Cardinality(T) /\ \A r \in 1..n : Ordering(other)[r] = same[Ordering(key)[r]]
  BY <1>5, <1>9, <1>11, OrderedAlike
<1>13. /\ n \in Nat /\ Ordering(key) \in [1..n -> S]
       /\ Units(again) \in [1..n -> Item] /\ Units(items) \in [1..n -> Item]
       /\ \A r \in 1..n : Units(again)[r] = again[Ordering(key)[r][1]]
       /\ \A r \in 1..n : Units(items)[r] = items[Ordering(other)[r][1]]
  BY <1>2, <1>12, UnitsListCopies DEF key, other, S, T
<1>14. ASSUME NEW r \in 1..n PROVE Units(again)[r] = Units(items)[r]
  <2> DEFINE x == Ordering(key)[r]
  <2>1. x \in S
    BY <1>13
  <2>2. again[x[1]] = items[p[x[1]]]
    BY <1>3, <1>10, <2>1
  <2>3. same[x][1] = p[x[1]]
    BY <1>7, <2>1
  <2> QED BY <1>12, <1>13, <2>2, <2>3
<1>15. Units(again) = Units(items)
  BY <1>13, <1>14
<1> QED BY <1>2, <1>15 DEF again

-----------------------------------------------------------------------------
(* PLACING.  What remains of a space, and the unit, make it up.            *)
LEMMA VolumeIsNat == ASSUME NEW s \in Space PROVE Volume(s) \in Nat
<1>1. s[1] \in Nat /\ s[2] \in Nat /\ s[3] \in Nat
  BY DEF Space
<1>2. \A a, b, c \in Nat : a * b * c \in Nat
  OBVIOUS
<1> QED BY <1>1, <1>2 DEF Volume

(* The arithmetic of it: a block less a corner is three blocks.            *)
LEMMA SplitsIntoThree ==
  ASSUME NEW a \in Nat, NEW b \in Nat, NEW c \in Nat, NEW x \in Nat, NEW y \in Nat, NEW z \in Nat
  PROVE  a * b * c = x * y * z + (a - x) * b * c + x * (b - y) * c + x * y * (c - z)
<1>1. (a - x) * b * c = a * b * c - x * b * c
  OBVIOUS
<1>2. x * (b - y) * c = x * b * c - x * y * c
  OBVIOUS
<1>3. x * y * (c - z) = x * y * c - x * y * z
  OBVIOUS
<1>4. a * b * c \in Int /\ x * b * c \in Int /\ x * y * c \in Int /\ x * y * z \in Int
  OBVIOUS
<1> QED BY <1>1, <1>2, <1>3, <1>4

(* The three spaces that remain are spaces, and with the unit the whole.   *)
LEMMA ResidualFillsSpace ==
  ASSUME NEW s \in Space, NEW r \in Space, \A d \in 1..3 : r[d] <= s[d],
         NEW rest, rest = Residual(s, r)
  PROVE  /\ rest[1] \in Space /\ rest[2] \in Space /\ rest[3] \in Space
         /\ Volume(s) = Volume(r) + Volume(rest[1]) + Volume(rest[2]) + Volume(rest[3])
<1>1. /\ s[1] \in Nat /\ s[2] \in Nat /\ s[3] \in Nat /\ r[1] \in Nat /\ r[2] \in Nat /\ r[3] \in Nat
      /\ r[1] <= s[1] /\ r[2] <= s[2] /\ r[3] <= s[3]
  BY DEF Space
<1>2. /\ rest[1] = <<s[1] - r[1], s[2], s[3]>> /\ rest[2] = <<r[1], s[2] - r[2], s[3]>>
      /\ rest[3] = <<r[1], r[2], s[3] - r[3]>>
  BY DEF Residual
<1>3. s[1] - r[1] \in Nat /\ s[2] - r[2] \in Nat /\ s[3] - r[3] \in Nat
  BY <1>1
<1>4. rest[1] \in Space /\ rest[2] \in Space /\ rest[3] \in Space
  BY <1>1, <1>2, <1>3 DEF Space
<1>5. /\ Volume(rest[1]) = (s[1] - r[1]) * s[2] * s[3] /\ Volume(rest[2]) = r[1] * (s[2] - r[2]) * s[3]
      /\ Volume(rest[3]) = r[1] * r[2] * (s[3] - r[3])
      /\ Volume(s) = s[1] * s[2] * s[3] /\ Volume(r) = r[1] * r[2] * r[3]
  BY <1>2 DEF Volume
<1>6. Volume(s) = Volume(r) + Volume(rest[1]) + Volume(rest[2]) + Volume(rest[3])
  <2>1. s[1] * s[2] * s[3] = r[1] * r[2] * r[3] + (s[1] - r[1]) * s[2] * s[3]
                             + r[1] * (s[2] - r[2]) * s[3] + r[1] * r[2] * (s[3] - r[3])
    BY <1>1, SplitsIntoThree
  <2> QED BY <1>5, <2>1, Zenon
<1> QED BY <1>4, <1>6

(* A space that has no depth holds nothing: leaving it out loses nothing.  *)
LEMMA FlatIsEmpty ==
  ASSUME NEW s \in Space, ~(\A e \in 1..3 : s[e] > 0)
  PROVE  Volume(s) = 0
<1>1. s[1] \in Nat /\ s[2] \in Nat /\ s[3] \in Nat
  BY DEF Space
<1>2. s[1] = 0 \/ s[2] = 0 \/ s[3] = 0
  <2>1. PICK e \in 1..3 : ~(s[e] > 0)
    OBVIOUS
  <2>2. e = 1 \/ e = 2 \/ e = 3
    BY <2>1
  <2> QED BY <1>1, <2>1, <2>2
<1>3. \A a, b, c \in Nat : a = 0 \/ b = 0 \/ c = 0 => a * b * c = 0
  OBVIOUS
<1> QED BY <1>1, <1>2, <1>3 DEF Volume

VolumeOf(f, S) == SumFunctionOnSet([i \in S |-> Volume(f[i])], S)

(* The spaces that are left, and the unit, have the volume of those that   *)
(* were free.                                                              *)
LEMMA LeftAddsUp ==
  ASSUME NEW n \in Nat, NEW free \in [1..n -> Space], NEW b \in 1..n, NEW r \in Space,
         \A d \in 1..3 : r[d] <= free[b][d], Len(free) = n, NEW left, left = Left(free, b, r)
  PROVE  /\ left \in [DOMAIN left -> Space] /\ IsFiniteSet(DOMAIN left) /\ DOMAIN left \subseteq Nat
         /\ VolumeOf(free, 1..n) = VolumeOf(left, DOMAIN left) + Volume(r)
<1> DEFINE rest == Residual(free[b], r)
           kept == {d \in 1..3 : \A e \in 1..3 : rest[d][e] > 0}
           S == 1..n
           A == S \ {b}
           I == A \cup {n + d : d \in kept}
           space(i) == IF i \in S THEN free[i] ELSE rest[i - n]
           before == [i \in S |-> Volume(free[i])]
           after == [i \in I |-> Volume(left[i])]
           all == [i \in 1..(n + 3) |-> Volume(space(i))]
<1>1. DOMAIN left = I /\ \A i \in I : left[i] = space(i)
  BY DEF Left
<1>2. free[b] \in Space
  OBVIOUS
<1>3. /\ rest[1] \in Space /\ rest[2] \in Space /\ rest[3] \in Space
      /\ Volume(free[b]) = Volume(r) + Volume(rest[1]) + Volume(rest[2]) + Volume(rest[3])
  <2> HIDE DEF rest
  <2> QED BY <1>2, ResidualFillsSpace DEF rest
<1> HIDE DEF rest
<1>4. \A d \in 1..3 : rest[d] \in Space /\ (d \notin kept => Volume(rest[d]) = 0)
  <2>1. \A d \in 1..3 : rest[d] \in Space
    BY <1>3
  <2> QED BY <2>1, FlatIsEmpty
<1>5. /\ I \subseteq 1..(n + 3) /\ A \subseteq S /\ S \subseteq 1..(n + 3)
      /\ \A d \in 1..3 : n + d \in I <=> d \in kept
      /\ \A d \in 1..3 : n + d \notin S /\ (n + d) - n = d
  OBVIOUS
<1>6. \A i \in 1..(n + 3) : i \in S \/ (i - n \in 1..3 /\ i = n + (i - n))
  OBVIOUS
<1>7. \A i \in 1..(n + 3) : space(i) \in Space
  BY <1>4, <1>6
<1>8. left \in [I -> Space]
  <2>1. left = [i \in I |-> space(i)]
    BY <1>1 DEF Left, rest
  <2> HIDE DEF I, space
  <2> QED BY <1>5, <1>7, <2>1
<1>9. IsFiniteSet(1..(n + 3)) /\ IsFiniteSet(S)
  BY FS_Interval
<1>10. IsFiniteSet(I) /\ IsFiniteSet(A) /\ I \subseteq Nat
  <2>1. 1..(n + 3) \subseteq Nat
    OBVIOUS
  <2> DEFINE J == 1..(n + 3)
  <2>2. I \in SUBSET J /\ A \in SUBSET S /\ IsFiniteSet(J) /\ J \subseteq Nat
    BY <1>5, <1>9, <2>1
  <2> HIDE DEF I, A, S, J
  <2> QED BY <1>9, <2>2, FS_Subset
<1>11. /\ \A i \in 1..(n + 3) : all[i] \in Nat
       /\ \A i \in S : before[i] = all[i]
       /\ \A i \in I : after[i] = all[i]
       /\ \A d \in 1..3 : all[n + d] = Volume(rest[d]) /\ n + d \in 1..(n + 3)
       /\ all[b] = Volume(free[b])
  <2>1. \A i \in 1..(n + 3) : all[i] = Volume(space(i))
    OBVIOUS
  <2>2. \A i \in 1..(n + 3) : all[i] \in Nat
    <3> HIDE DEF all, space
    <3> QED BY <1>7, <2>1, VolumeIsNat
  <2>3. \A i \in S : before[i] = all[i]
    BY <1>5, <2>1
  <2>4. \A i \in I : after[i] = all[i]
    <3>1. \A i \in I : after[i] = Volume(left[i])
      OBVIOUS
    <3> HIDE DEF after, all, I, space
    <3> QED BY <1>1, <1>5, <2>1, <3>1
  <2>5. \A d \in 1..3 : all[n + d] = Volume(rest[d]) /\ n + d \in 1..(n + 3)
    BY <1>5, <2>1
  <2>6. all[b] = Volume(free[b])
    BY <2>1
  <2> QED BY <2>2, <2>3, <2>4, <2>5, <2>6
<1> DEFINE n1 == n + 1
           n2 == n + 2
           n3 == n + 3
<1>12. /\ n1 \notin A /\ n2 \notin A \cup {n1} /\ n3 \notin (A \cup {n1}) \cup {n2}
       /\ n1 \in 1..(n + 3) /\ n2 \in 1..(n + 3) /\ n3 \in 1..(n + 3)
       /\ b \in S /\ S = A \cup {b} /\ b \notin A
  OBVIOUS
<1>13. ((I \cup {n1}) \cup {n2}) \cup {n3} = ((A \cup {n1}) \cup {n2}) \cup {n3}
  <2>1. \A d \in kept : d = 1 \/ d = 2 \/ d = 3
    OBVIOUS
  <2> QED BY <2>1
<1>14. /\ n1 \in I \/ all[n1] = 0
       /\ n2 \in I \/ all[n2] = 0
       /\ n3 \in I \/ all[n3] = 0
       /\ all[n1] = Volume(rest[1]) /\ all[n2] = Volume(rest[2]) /\ all[n3] = Volume(rest[3])
  <2>1. 1 \in 1..3 /\ 2 \in 1..3 /\ 3 \in 1..3
    OBVIOUS
  <2> HIDE DEF I, kept, all
  <2> QED BY <1>4, <1>5, <1>11, <2>1
<1> DEFINE sum(s) == SumFunctionOnSet(all, s)
<1>15. sum(((I \cup {n1}) \cup {n2}) \cup {n3}) = sum(I)
  <2>1. \A i \in ((I \cup {n1}) \cup {n2}) \cup {n3} : all[i] \in Nat
    BY <1>5, <1>11, <1>12
  <2> HIDE DEF I, all, n1, n2, n3
  <2>2. IsFiniteSet(I \cup {n1}) /\ sum(I \cup {n1}) = sum(I)
    BY <1>10, <1>14, <2>1, SumGrows
  <2>3. IsFiniteSet((I \cup {n1}) \cup {n2}) /\ sum((I \cup {n1}) \cup {n2}) = sum(I \cup {n1})
    BY <1>14, <2>1, <2>2, SumGrows
  <2>4. sum(((I \cup {n1}) \cup {n2}) \cup {n3}) = sum((I \cup {n1}) \cup {n2})
    BY <1>14, <2>1, <2>3, SumGrows
  <2> QED BY <2>2, <2>3, <2>4
<1>16. /\ sum(((A \cup {n1}) \cup {n2}) \cup {n3}) = ((sum(A) + all[n1]) + all[n2]) + all[n3]
       /\ sum(S) = sum(A) + all[b] /\ sum(A) \in Nat
  <2>1. \A i \in ((A \cup {n1}) \cup {n2}) \cup {n3} : all[i] \in Nat
    BY <1>5, <1>11, <1>12
  <2>2. \A i \in A \cup {b} : all[i] \in Nat
    BY <1>5, <1>11, <1>12
  <2> HIDE DEF A, all, n1, n2, n3, S
  <2>3. IsFiniteSet(A \cup {n1}) /\ sum(A \cup {n1}) = sum(A) + all[n1]
    BY <1>10, <1>12, <2>1, SumWithOneMore
  <2>4. IsFiniteSet((A \cup {n1}) \cup {n2}) /\ sum((A \cup {n1}) \cup {n2}) = sum(A \cup {n1}) + all[n2]
    BY <1>12, <2>1, <2>3, SumWithOneMore
  <2>5. sum(((A \cup {n1}) \cup {n2}) \cup {n3}) = sum((A \cup {n1}) \cup {n2}) + all[n3]
    BY <1>12, <2>1, <2>4, SumWithOneMore
  <2>6. sum(A \cup {b}) = sum(A) + all[b] /\ sum(A) \in Nat
    BY <1>10, <1>12, <2>2, SumWithOneMore
  <2> QED BY <1>12, <2>3, <2>4, <2>5, <2>6
<1>17. SumFunctionOnSet(before, S) = sum(S) /\ SumFunctionOnSet(after, I) = sum(I)
  <2> HIDE DEF before, after, all, S, I
  <2> QED BY <1>9, <1>10, <1>11, SumsAreEqual
<1>18. SumFunctionOnSet(before, S) = SumFunctionOnSet(after, I) + Volume(r)
  <2>1. /\ Volume(r) \in Nat /\ Volume(rest[1]) \in Nat /\ Volume(rest[2]) \in Nat
        /\ Volume(rest[3]) \in Nat
    BY <1>3, VolumeIsNat
  <2>2. sum(I) = ((sum(A) + all[n1]) + all[n2]) + all[n3]
    <3> HIDE DEF sum, A, I
    <3> QED BY <1>13, <1>15, <1>16
  <2> DEFINE x == sum(A)
             y == sum(I)
             z == sum(S)
  <2>3. x \in Nat /\ y = ((x + Volume(rest[1])) + Volume(rest[2])) + Volume(rest[3])
        /\ z = x + (Volume(r) + Volume(rest[1]) + Volume(rest[2]) + Volume(rest[3]))
    <3> HIDE DEF sum, A, I, S, all
    <3> QED BY <1>3, <1>11, <1>14, <1>16, <2>2
  <2> HIDE DEF x, y, z
  <2>4. z = y + Volume(r)
    BY <2>1, <2>3
  <2> HIDE DEF before, after, S, I, sum
  <2> QED BY <1>17, <2>4 DEF y, z
<1> HIDE DEF before, after, S, I
<1> QED BY <1>1, <1>8, <1>10, <1>18 DEF before, after, S, I, VolumeOf

-----------------------------------------------------------------------------
(* Sorting the spaces changes neither them nor their volume.               *)
KeyOfSpace(left) ==
  [i \in DOMAIN left |-> <<Volume(left[i]), left[i][1], left[i][2], left[i][3], i>>]

Listed(left, order) == [k \in DOMAIN order |-> left[order[k]]]

IsSpaces(free, volume) ==
  \E n \in Nat : free \in [1..n -> Space] /\ VolumeOf(free, 1..n) = volume

(* The spaces of a parcel that were sorted fill what they filled.          *)
LEMMA SortedAddsUp ==
  ASSUME NEW I, IsFiniteSet(I), I \subseteq Nat, NEW left \in [I -> Space],
         NEW order, order = Ordering(KeyOfSpace(left)),
         NEW free, free = Listed(left, order)
  PROVE  IsSpaces(free, VolumeOf(left, I))
<1> DEFINE key == KeyOfSpace(left)
           n == Cardinality(I)
           S == 1..n
           g == [k \in S |-> Volume(free[k])]
           f == [i \in I |-> Volume(left[i])]
<1>1. ASSUME NEW i \in I
      PROVE  key[i] \in [1..5 -> Int] /\ key[i][5] = i
  <2>1. left[i] \in Space /\ i \in Nat
    OBVIOUS
  <2>2. left[i][1] \in Nat /\ left[i][2] \in Nat /\ left[i][3] \in Nat
    BY <2>1 DEF Space
  <2>3. Volume(left[i]) \in Nat
    BY <2>1, VolumeIsNat
  <2>4. key[i] = <<Volume(left[i]), left[i][1], left[i][2], left[i][3], i>>
    BY DEF KeyOfSpace
  <2> HIDE DEF key
  <2> QED BY <2>1, <2>2, <2>3, <2>4
<1>2. DOMAIN key = I /\ key = [i \in I |-> key[i]]
  BY DEF KeyOfSpace
<1> HIDE DEF key
<1>3. Keyed(key, I, 5)
  <2>1. key \in [I -> [1..5 -> Int]]
    BY <1>1, <1>2
  <2>2. \A x, y \in I : x # y => key[x] # key[y]
    BY <1>1
  <2> QED BY <2>1, <2>2 DEF Keyed
<1>4. n \in Nat /\ order \in Bijection(S, I)
  BY <1>3, OrderingListsAll DEF key
<1>5. order \in [S -> I]
  BY <1>4 DEF Bijection, Injection
<1> HIDE DEF n, S
<1>6. DOMAIN order = S /\ \A k \in S : order[k] \in I /\ free[k] = left[order[k]]
  BY <1>5 DEF Listed
<1>7. free \in [S -> Space]
  BY <1>6 DEF Listed
<1>8. Renumbers(g, f, order, S, I)
  <2>1. \A k \in S : g[k] = Volume(left[order[k]]) /\ f[order[k]] = Volume(left[order[k]])
    BY <1>6
  <2>2. \A k \in S : Volume(left[order[k]]) \in Nat
    <3>1. \A k \in S : left[order[k]] \in Space
      BY <1>6
    <3> QED BY <3>1, VolumeIsNat
  <2> HIDE DEF g, f
  <2> QED BY <1>4, <2>1, <2>2 DEF Renumbers
<1>9. IsFiniteSet(S)
  BY <1>4, FS_Interval DEF S
<1>10. SumFunctionOnSet(g, S) = SumFunctionOnSet(f, I)
  <2> HIDE DEF g, f
  <2> QED BY <1>8, <1>9, SumIsRenumbered
<1>11. VolumeOf(free, S) = VolumeOf(left, I)
  BY <1>10 DEF VolumeOf
<1> QED BY <1>4, <1>7, <1>11 DEF S, IsSpaces

-----------------------------------------------------------------------------
Box == [sides : Space, tare : Nat, max : Nat]
Parcel == [box : Box, free : Seq(Space), units : Seq(Item), weight : Nat]

(* What is chosen is a space that the unit fits in as it is turned.        *)
Fits(free, unit, p) ==
  /\ p[2] \in DOMAIN free /\ <<p[3], p[4], p[5]>> \in Rotations(unit.sides)
  /\ \A d \in 1..3 : <<p[3], p[4], p[5]>>[d] <= free[p[2]][d]

Best(parcel, unit) == CHOOSE p \in Placements(parcel, unit) :
                        \A q \in Placements(parcel, unit) : ~Precedes(q, p)

(* The placement that is chosen is one where the unit fits.                *)
LEMMA BestFits ==
  ASSUME NEW parcel \in Parcel, NEW unit \in Item, Placements(parcel, unit) # {}
  PROVE  Fits(parcel.free, unit, Best(parcel, unit)) /\ FitsWeight(parcel, unit)
<1> DEFINE free == parcel.free
           D == DOMAIN free
           R == Rotations(unit.sides)
           All == {<<Volume(free[i]), i, r[1], r[2], r[3]>> : i \in D, r \in R}
           f == [x \in D \X R |-> <<Volume(free[x[1]]), x[1], x[2][1], x[2][2], x[2][3]>>]
           P == Placements(parcel, unit)
<1>1. FitsWeight(parcel, unit) /\ P = {p \in All : \A d \in 1..3 : p[d + 2] <= free[p[2]][d]}
  BY DEF Placements
<1>2. PICK n \in Nat : D = 1..n /\ \A i \in D : free[i] \in Space
  <2>1. free \in Seq(Space)
    BY DEF Parcel
  <2> HIDE DEF free
  <2>2. Len(free) \in Nat /\ DOMAIN free = 1..Len(free) /\ \A i \in 1..Len(free) : free[i] \in Space
    BY <2>1
  <2> QED BY <2>2
<1>3. unit.sides \in Space
  BY ItemIsSized
<1>4. IsFiniteSet(D) /\ IsFiniteSet(R)
  <2>1. IsFiniteSet(1..n)
    BY FS_Interval
  <2> HIDE DEF D, R
  <2> QED BY <1>2, <1>3, <2>1, RotationsAreFew DEF R
<1>5. \A r \in R : r \in Space /\ r = <<r[1], r[2], r[3]>>
  <2>1. \A r \in R : r \in Space
    BY <1>3, TurnedIsAsLarge
  <2>2. \A r \in R : r = <<r[1], r[2], r[3]>>
    BY DEF Rotations
  <2> QED BY <2>1, <2>2
<1>6. IsFiniteSet(All)
  <2> DEFINE Image == {f[x] : x \in D \X R}
  <2>1. f \in Surjection(D \X R, Image)
    <3>1. f = [x \in D \X R |-> f[x]]
      OBVIOUS
    <3>2. f \in [D \X R -> Image]
      <4> HIDE DEF f, D, R
      <4> QED BY <3>1
    <3> HIDE DEF f, D, R
    <3> QED BY <3>2 DEF Surjection
  <2>2. All \subseteq Image
    <3> HIDE DEF D, R, f, Image, All
    <3> SUFFICES ASSUME NEW a \in All PROVE a \in Image
      OBVIOUS
    <3>2. PICK i \in D, r \in R : a = <<Volume(free[i]), i, r[1], r[2], r[3]>>
      BY DEF All
    <3> DEFINE x == <<i, r>>
    <3>3. x \in D \X R /\ x[1] = i /\ x[2] = r
      OBVIOUS
    <3> HIDE DEF x
    <3>4. f[x] = <<Volume(free[x[1]]), x[1], x[2][1], x[2][2], x[2][3]>>
      BY <3>3 DEF f
    <3>5. f[x] = a
      BY <3>2, <3>3, <3>4
    <3> QED BY <3>3, <3>5 DEF Image
  <2> HIDE DEF D, R, f, All, Image
  <2>3. IsFiniteSet(D \X R)
    BY <1>4, FS_Product
  <2>4. IsFiniteSet(Image)
    BY <2>1, <2>3, FS_Surjection
  <2> QED BY <2>2, <2>4, FS_Subset
<1>7. All \subseteq [1..5 -> Int]
  <2> SUFFICES ASSUME NEW i \in D, NEW r \in R
               PROVE  <<Volume(free[i]), i, r[1], r[2], r[3]>> \in [1..5 -> Int]
    OBVIOUS
  <2>1. Volume(free[i]) \in Int /\ i \in Int
    BY <1>2, VolumeIsNat
  <2>2. r[1] \in Int /\ r[2] \in Int /\ r[3] \in Int
    BY <1>5 DEF Space
  <2> HIDE DEF free, D, R
  <2> QED BY <2>1, <2>2
<1> DEFINE best == Best(parcel, unit)
<1>8. best \in P
  <2>1. P \in SUBSET All /\ P # {}
    BY <1>1
  <2> HIDE DEF All, P
  <2>2. IsFiniteSet(P) /\ P \subseteq [1..5 -> Int]
    BY <1>6, <1>7, <2>1, FS_Subset
  <2>3. \E p \in P : \A q \in P : ~Precedes(q, p)
    BY <2>1, <2>2, OneIsFirst
  <2> QED BY <2>3 DEF Best, P
<1> HIDE DEF best, P
<1>9. best \in All /\ \A d \in 1..3 : best[d + 2] <= free[best[2]][d]
  BY <1>1, <1>8
<1>10. PICK i \in D, r \in R : best = <<Volume(free[i]), i, r[1], r[2], r[3]>>
  BY <1>9
<1>11. best[2] = i /\ best[3] = r[1] /\ best[4] = r[2] /\ best[5] = r[3]
  BY <1>10
<1>12. <<best[3], best[4], best[5]>> = r
  BY <1>5, <1>11
<1>13. \A d \in 1..3 : r[d] <= free[best[2]][d]
  <2>1. \A d \in 1..3 : d = 1 \/ d = 2 \/ d = 3
    OBVIOUS
  <2>2. r[1] <= free[best[2]][1] /\ r[2] <= free[best[2]][2] /\ r[3] <= free[best[2]][3]
    <3>1. /\ 1 \in 1..3 /\ 2 \in 1..3 /\ 3 \in 1..3
          /\ best[1 + 2] = best[3] /\ best[2 + 2] = best[4] /\ best[3 + 2] = best[5]
      OBVIOUS
    <3>2. /\ best[1 + 2] <= free[best[2]][1] /\ best[2 + 2] <= free[best[2]][2]
          /\ best[3 + 2] <= free[best[2]][3]
      BY <1>9, <3>1
    <3> HIDE DEF free
    <3> QED BY <1>11, <3>1, <3>2
  <2> QED BY <2>1, <2>2
<1> HIDE DEF R, D
<1> QED BY <1>1, <1>10, <1>11, <1>12, <1>13 DEF Fits, best, R, D

(* A parcel's units and free spaces make up its box.                       *)
Weighs(units) == SumFunction([i \in DOMAIN units |-> units[i].weight])
Fills(units) == SumFunction([i \in DOMAIN units |-> Volume(units[i].sides)])
Spaces(free) == SumFunction([i \in DOMAIN free |-> Volume(free[i])])
IsWhole(p) == /\ p \in Parcel /\ p.weight = Weighs(p.units)
              /\ Volume(p.box.sides) = Fills(p.units) + Spaces(p.free)
IsPacked(p) == IsWhole(p) /\ p.box.tare + p.weight <= p.box.max

(* A unit more adds its weight and its volume.                             *)
LEMMA OneUnitMore ==
  ASSUME NEW units \in Seq(Item), NEW unit \in Item
  PROVE  /\ Append(units, unit) \in Seq(Item)
         /\ Weighs(Append(units, unit)) = Weighs(units) + unit.weight /\ Weighs(units) \in Nat
         /\ Fills(Append(units, unit)) = Fills(units) + Volume(unit.sides) /\ Fills(units) \in Nat
<1> DEFINE n == Len(units)
           more == Append(units, unit)
           S == 1..n
           w == [i \in S |-> units[i].weight]
           v == [i \in S |-> Volume(units[i].sides)]
           w1 == [i \in 1..(n + 1) |-> more[i].weight]
           v1 == [i \in 1..(n + 1) |-> Volume(more[i].sides)]
<1>1. /\ n \in Nat /\ DOMAIN units = S /\ \A i \in S : units[i] \in Item
      /\ more \in Seq(Item) /\ DOMAIN more = 1..(n + 1)
      /\ \A i \in S : more[i] = units[i] /\ i \in 1..(n + 1)
      /\ more[n + 1] = unit /\ n + 1 \in 1..(n + 1)
  OBVIOUS
<1> HIDE DEF n, more
<1>2. \A x \in Item : x.weight \in Nat /\ Volume(x.sides) \in Nat
  BY ItemIsSized, VolumeIsNat
<1>3. /\ \A i \in S : w[i] \in Nat /\ w1[i] = w[i] /\ v[i] \in Nat /\ v1[i] = v[i]
      /\ w1[n + 1] = unit.weight /\ v1[n + 1] = Volume(unit.sides)
      /\ unit.weight \in Nat /\ Volume(unit.sides) \in Nat
  BY <1>1, <1>2
<1>4. /\ Weighs(units) = SumFunctionOnSet(w, S) /\ Fills(units) = SumFunctionOnSet(v, S)
      /\ Weighs(more) = SumFunctionOnSet(w1, 1..(n + 1)) /\ Fills(more) = SumFunctionOnSet(v1, 1..(n + 1))
  BY <1>1 DEF Weighs, Fills, SumFunction
<1>5. SumFunctionOnSet(w, S) \in Nat /\ SumFunctionOnSet(v, S) \in Nat
  <2>1. IsFiniteSet(S)
    BY <1>1, FS_Interval
  <2> HIDE DEF w, v, S
  <2> QED BY <1>3, <2>1, SumIsNat
<1> HIDE DEF w, v, w1, v1
<1>6. SumFunctionOnSet(w1, 1..(n + 1)) = SumFunctionOnSet(w, 1..n) + w1[n + 1]
  BY <1>1, <1>3, SumOfLonger
<1>7. SumFunctionOnSet(v1, 1..(n + 1)) = SumFunctionOnSet(v, 1..n) + v1[n + 1]
  BY <1>1, <1>3, SumOfLonger
<1> QED BY <1>1, <1>3, <1>4, <1>5, <1>6, <1>7 DEF more

(* Placing a unit adds it to the parcel, which stays whole.                *)
LEMMA PlaceKeepsWhole ==
  ASSUME NEW parcel, IsWhole(parcel), NEW unit \in Item, Placements(parcel, unit) # {}
  PROVE  IsPacked(Place(parcel, unit)) /\ Place(parcel, unit).units = Append(parcel.units, unit)
<1> DEFINE free == parcel.free
           best == Best(parcel, unit)
           b == best[2]
           r == <<best[3], best[4], best[5]>>
           left == Left(free, b, r)
           order == Ordering(KeyOfSpace(left))
           sorted == [k \in DOMAIN order |-> left[order[k]]]
           n == Len(free)
           I == DOMAIN left
           before == VolumeOf(free, 1..n)
           after == VolumeOf(left, I)
<1>1. /\ parcel \in Parcel /\ parcel.weight = Weighs(parcel.units)
      /\ Volume(parcel.box.sides) = Fills(parcel.units) + Spaces(free)
  BY DEF IsWhole
<1>2. /\ parcel.box \in Box /\ free \in Seq(Space) /\ parcel.units \in Seq(Item) /\ parcel.weight \in Nat
      /\ parcel.box.tare \in Nat /\ parcel.box.max \in Nat
  BY <1>1 DEF Parcel, Box
<1>3. Place(parcel, unit) = [box |-> parcel.box, free |-> sorted,
                             units |-> Append(parcel.units, unit), weight |-> parcel.weight + unit.weight]
  BY DEF Place, KeyOfSpace, Best
<1>4. /\ b \in DOMAIN free /\ r \in Rotations(unit.sides) /\ \A d \in 1..3 : r[d] <= free[b][d]
      /\ FitsWeight(parcel, unit)
  <2> HIDE DEF best
  <2> QED BY <1>1, BestFits DEF Fits, best
<1> HIDE DEF b, r
<1>5. unit.sides \in Space /\ unit.weight \in Nat
  BY ItemIsSized
<1>6. r \in Space /\ Volume(r) = Volume(unit.sides)
  BY <1>4, <1>5, TurnedIsAsLarge
<1> HIDE DEF free
<1>7. n \in Nat /\ free \in [1..n -> Space] /\ b \in 1..n /\ DOMAIN free = 1..n
  BY <1>2, <1>4
<1> HIDE DEF n
<1>8. /\ left \in [I -> Space] /\ IsFiniteSet(I) /\ I \subseteq Nat /\ before = after + Volume(r)
  <2>1. Len(free) = n /\ left = Left(free, b, r)
    BY DEF n
  <2> HIDE DEF left
  <2> QED BY <1>4, <1>6, <1>7, <2>1, LeftAddsUp
<1> HIDE DEF left
<1>9. PICK m \in Nat : /\ sorted \in [1..m -> Space]
                       /\ VolumeOf(sorted, 1..m) = after
  <2>1. order = Ordering(KeyOfSpace(left)) /\ sorted = Listed(left, order)
    BY DEF Listed
  <2>2. IsFiniteSet(I) /\ I \subseteq Nat /\ left \in [I -> Space]
    BY <1>8
  <2> HIDE DEF I, order, sorted, after
  <2>3. IsSpaces(sorted, VolumeOf(left, I))
    BY <2>1, <2>2, SortedAddsUp
  <2> QED BY <2>3 DEF after, IsSpaces
<1> HIDE DEF sorted
<1>10. sorted \in Seq(Space) /\ DOMAIN sorted = 1..m
  BY <1>9
<1>11. Spaces(free) = before /\ Spaces(sorted) = after
  <2>1. Spaces(free) = before
    BY <1>7 DEF Spaces, SumFunction, VolumeOf
  <2>2. Spaces(sorted) = VolumeOf(sorted, 1..m)
    BY <1>10 DEF Spaces, SumFunction, VolumeOf
  <2> HIDE DEF after, before
  <2> QED BY <1>9, <2>1, <2>2
<1>12. after \in Nat
  <2> DEFINE f == [i \in I |-> Volume(left[i])]
  <2>1. \A i \in I : f[i] \in Nat
    BY <1>8, VolumeIsNat
  <2> HIDE DEF f
  <2>2. SumFunctionOnSet(f, I) \in Nat
    BY <1>8, <2>1, SumIsNat
  <2> QED BY <2>2 DEF f, VolumeOf
<1> HIDE DEF before, after
<1> DEFINE more == Append(parcel.units, unit)
           q == Place(parcel, unit)
<1>13. /\ more \in Seq(Item) /\ Weighs(more) = parcel.weight + unit.weight
       /\ Fills(more) = Fills(parcel.units) + Volume(r) /\ Fills(parcel.units) \in Nat
       /\ Volume(r) \in Nat
  BY <1>1, <1>2, <1>5, <1>6, OneUnitMore, VolumeIsNat
<1> HIDE DEF more
<1>14. q \in Parcel
  <2>1. parcel.weight + unit.weight \in Nat
    BY <1>2, <1>5
  <2> QED BY <1>2, <1>3, <1>10, <1>13, <2>1 DEF Parcel, more
<1>15. /\ q.box = parcel.box /\ q.free = sorted /\ q.units = more
       /\ q.weight = parcel.weight + unit.weight
  BY <1>3 DEF more
<1> HIDE DEF q
<1>16. Volume(parcel.box.sides) = Fills(more) + Spaces(sorted)
  BY <1>1, <1>8, <1>11, <1>12, <1>13 DEF free
<1>17. q.box.tare + q.weight <= q.box.max
  BY <1>2, <1>4, <1>5, <1>15 DEF FitsWeight
<1> QED BY <1>13, <1>14, <1>15, <1>16, <1>17 DEF IsPacked, IsWhole, q, more

(* A box that is opened is whole.                                          *)
LEMMA OpenIsWhole ==
  ASSUME NEW box \in Box
  PROVE  IsWhole(Open(box)) /\ Open(box).units = <<>>
<1> DEFINE p == Open(box)
           v == [i \in 1..1 |-> Volume(p.free[i])]
<1>1. /\ p.box = box /\ p.free = <<box.sides>> /\ p.units = <<>> /\ p.weight = 0
      /\ box.sides \in Space /\ p \in Parcel
  BY DEF Open, Parcel, Box
<1>2. Weighs(p.units) = 0 /\ Fills(p.units) = 0
  <2>1. DOMAIN p.units = {}
    BY <1>1
  <2> HIDE DEF p
  <2> QED BY <2>1, SumOfNone DEF Weighs, Fills, SumFunction
<1>3. Spaces(p.free) = Volume(box.sides)
  <2>1. DOMAIN p.free = 1..1 /\ p.free[1] = box.sides
    BY <1>1
  <2> HIDE DEF p
  <2>2. Spaces(p.free) = SumFunctionOnSet(v, 1..1)
    BY <2>1 DEF Spaces, SumFunction
  <2>3. v[1] = Volume(box.sides) /\ v[1] \in Nat
    BY <1>1, <2>1, VolumeIsNat
  <2> HIDE DEF v
  <2>4. 1..1 = {} \cup {1} /\ IsFiniteSet({}) /\ 1 \notin {}
    BY FS_EmptySet
  <2>5. SumFunctionOnSet(v, {} \cup {1}) = SumFunctionOnSet(v, {}) + v[1]
    BY <2>3, <2>4, SumWithOneMore
  <2>6. SumFunctionOnSet(v, {}) = 0
    BY SumOfNone
  <2> QED BY <2>2, <2>3, <2>4, <2>5, <2>6
<1>4. Volume(box.sides) \in Nat
  BY <1>1, VolumeIsNat
<1> HIDE DEF p
<1> QED BY <1>1, <1>2, <1>3, <1>4 DEF IsWhole, p

-----------------------------------------------------------------------------
(* PACKING.  How many units of a SKU are in a parcel, and in all.          *)
CountOf(units, sku) == Cardinality({j \in DOMAIN units : units[j].sku = sku})
HeldIn(parcels, sku) == SumFunction([i \in DOMAIN parcels |-> CountOf(parcels[i].units, sku)])
OneIf(b) == IF b THEN 1 ELSE 0

(* A unit more counts for its SKU only.                                    *)
LEMMA CountOneMore ==
  ASSUME NEW units \in Seq(Item), NEW unit \in Item, NEW sku
  PROVE  /\ CountOf(units, sku) \in Nat
         /\ CountOf(Append(units, unit), sku) = CountOf(units, sku) + OneIf(unit.sku = sku)
<1> DEFINE n == Len(units)
           more == Append(units, unit)
           A == {j \in DOMAIN units : units[j].sku = sku}
           B == {j \in DOMAIN more : more[j].sku = sku}
<1>1. /\ n \in Nat /\ DOMAIN units = 1..n /\ DOMAIN more = 1..(n + 1)
      /\ \A i \in 1..n : more[i] = units[i]
      /\ more[n + 1] = unit
  OBVIOUS
<1> HIDE DEF n, more
<1>2. IsFiniteSet(A) /\ n + 1 \notin A
  <2>0. IsFiniteSet(1..n)
    BY <1>1, FS_Interval
  <2>1. IsFiniteSet(1..n) /\ A \in SUBSET (1..n) /\ n + 1 \notin 1..n
    BY <1>1, <2>0
  <2> HIDE DEF A
  <2> QED BY <2>1, FS_Subset
<1>3. B = IF unit.sku = sku THEN A \cup {n + 1} ELSE A
  <2>1. \A j : j \in 1..(n + 1) <=> j \in 1..n \/ j = n + 1
    BY <1>1
  <2>2. n + 1 \notin 1..n
    BY <1>1
  <2> QED BY <1>1, <2>1, <2>2
<1> HIDE DEF A, B
<1>4. Cardinality(A) \in Nat /\ Cardinality(A \cup {n + 1}) = Cardinality(A) + 1
  BY <1>2, FS_AddElement, FS_CardinalityType
<1>5. Cardinality(B) = Cardinality(A) + OneIf(unit.sku = sku)
  BY <1>3, <1>4 DEF OneIf
<1> QED BY <1>4, <1>5 DEF CountOf, A, B, more

IsParcels(parcels) ==
  parcels \in Seq(Parcel) /\ \A i \in DOMAIN parcels : IsPacked(parcels[i])
Packings == {s \in [success : BOOLEAN, parcels : Seq(Parcel)] : IsParcels(s.parcels)}

(* The counts are numbers.                                                 *)
LEMMA CountsAreNat ==
  ASSUME NEW parcels, IsParcels(parcels), NEW i \in DOMAIN parcels, NEW sku
  PROVE  CountOf(parcels[i].units, sku) \in Nat
<1>1. parcels[i] \in Parcel
  BY DEF IsParcels
<1>2. parcels[i].units \in Seq(Item)
  BY <1>1 DEF Parcel
<1> DEFINE units == parcels[i].units
           S == 1..Len(units)
<1>3. {j \in DOMAIN units : units[j].sku = sku} \in SUBSET S /\ Len(units) \in Nat
  BY <1>2
<1>4. IsFiniteSet(S)
  BY <1>3, FS_Interval
<1> HIDE DEF units, S
<1>5. IsFiniteSet({j \in DOMAIN units : units[j].sku = sku})
  BY <1>3, <1>4, FS_Subset
<1> QED BY <1>5, FS_CardinalityType DEF CountOf, units

Filled(parcels, i, unit) == [parcels EXCEPT ![i] = Place(@, unit)]

(* A parcel takes a unit, ...                                              *)
LEMMA ParcelTakes ==
  ASSUME NEW parcels, IsParcels(parcels), NEW i \in DOMAIN parcels, NEW unit \in Item,
         Placements(parcels[i], unit) # {}, NEW sku
  PROVE  /\ IsParcels(Filled(parcels, i, unit))
         /\ HeldIn(Filled(parcels, i, unit), sku) = HeldIn(parcels, sku) + OneIf(unit.sku = sku)
<1> DEFINE more == Filled(parcels, i, unit)
           n == Len(parcels)
           S == 1..n
           f == [j \in S |-> CountOf(parcels[j].units, sku)]
           g == [j \in S |-> CountOf(more[j].units, sku)]
<1>1. /\ n \in Nat /\ DOMAIN parcels = S /\ parcels \in [S -> Parcel]
      /\ \A j \in S : parcels[j] \in Parcel /\ IsPacked(parcels[j])
  BY DEF IsParcels
<1>2. IsPacked(Place(parcels[i], unit)) /\ Place(parcels[i], unit).units = Append(parcels[i].units, unit)
  BY <1>1, PlaceKeepsWhole DEF IsPacked
<1>3. /\ DOMAIN more = S /\ more[i] = Place(parcels[i], unit) /\ i \in S
      /\ \A j \in S \ {i} : more[j] = parcels[j]
  BY <1>1 DEF Filled
<1>4. more = [j \in S |-> more[j]]
  BY <1>1 DEF Filled
<1> HIDE DEF more
<1>5. \A j \in S : IsPacked(more[j]) /\ more[j] \in Parcel
  BY <1>1, <1>2, <1>3 DEF IsPacked, IsWhole
<1>6. IsParcels(more)
  <2>1. more \in [1..n -> Parcel]
    BY <1>4, <1>5
  <2>2. more \in Seq(Parcel)
    BY <1>1, <2>1
  <2> QED BY <1>3, <1>5, <2>2 DEF IsParcels
<1>7. /\ \A j \in S : f[j] \in Nat /\ g[j] \in Nat
      /\ \A j \in S \ {i} : f[j] = g[j]
      /\ g[i] = f[i] + OneIf(unit.sku = sku)
  <2>1. \A j \in S : f[j] = CountOf(parcels[j].units, sku) /\ g[j] = CountOf(more[j].units, sku)
    OBVIOUS
  <2>2. \A j \in S : CountOf(parcels[j].units, sku) \in Nat /\ CountOf(more[j].units, sku) \in Nat
    BY <1>1, <1>3, <1>6, CountsAreNat
  <2>3. CountOf(more[i].units, sku) = CountOf(parcels[i].units, sku) + OneIf(unit.sku = sku)
    <3>1. parcels[i].units \in Seq(Item)
      BY <1>1, <1>3 DEF Parcel
    <3>2. more[i].units = Append(parcels[i].units, unit)
      BY <1>2, <1>3
    <3>3. CountOf(Append(parcels[i].units, unit), sku)
            = CountOf(parcels[i].units, sku) + OneIf(unit.sku = sku)
      BY <3>1, CountOneMore
    <3> QED BY <3>2, <3>3
  <2> HIDE DEF f, g
  <2> QED BY <1>3, <2>1, <2>2, <2>3
<1>8. HeldIn(parcels, sku) = SumFunctionOnSet(f, S) /\ HeldIn(more, sku) = SumFunctionOnSet(g, S)
  BY <1>1, <1>3 DEF HeldIn, SumFunction
<1>9. IsFiniteSet(S)
  BY <1>1, FS_Interval
<1> HIDE DEF f, g, S
<1>10. SumFunctionOnSet(g, S) = SumFunctionOnSet(f, S) - f[i] + g[i] /\ SumFunctionOnSet(f, S) \in Nat
  BY <1>3, <1>7, <1>9, SumChanges, SumIsNat
<1>11. f[i] \in Nat /\ OneIf(unit.sku = sku) \in Nat
  BY <1>3, <1>7 DEF OneIf
<1>12. SumFunctionOnSet(g, S) = SumFunctionOnSet(f, S) + OneIf(unit.sku = sku)
  <2> DEFINE a == SumFunctionOnSet(g, S)
             b == SumFunctionOnSet(f, S)
             c == OneIf(unit.sku = sku)
  <2>1. a = b - f[i] + (f[i] + c) /\ b \in Nat /\ c \in Nat /\ f[i] \in Nat
    BY <1>7, <1>10, <1>11
  <2> HIDE DEF a, b, c
  <2>2. a = b + c
    BY <2>1
  <2> QED BY <2>2 DEF a, b, c
<1> QED BY <1>6, <1>8, <1>12 DEF more

(* ... or a new one does.                                                  *)
LEMMA ParcelOpens ==
  ASSUME NEW parcels, IsParcels(parcels), NEW box \in Box, NEW unit \in Item,
         Placements(Open(box), unit) # {}, NEW sku
  PROVE  /\ IsParcels(Append(parcels, Place(Open(box), unit)))
         /\ HeldIn(Append(parcels, Place(Open(box), unit)), sku)
              = HeldIn(parcels, sku) + OneIf(unit.sku = sku)
<1> DEFINE p == Place(Open(box), unit)
           more == Append(parcels, p)
           n == Len(parcels)
           S == 1..n
           f == [j \in S |-> CountOf(parcels[j].units, sku)]
           g == [j \in 1..(n + 1) |-> CountOf(more[j].units, sku)]
<1>1. /\ n \in Nat /\ DOMAIN parcels = S /\ parcels \in Seq(Parcel)
      /\ \A j \in S : parcels[j] \in Parcel /\ IsPacked(parcels[j])
  BY DEF IsParcels
<1>2. IsPacked(p) /\ p.units = Append(<<>>, unit) /\ p \in Parcel
  BY PlaceKeepsWhole, OpenIsWhole DEF IsPacked, IsWhole
<1> HIDE DEF p
<1>3. /\ DOMAIN more = 1..(n + 1) /\ more[n + 1] = p /\ more \in Seq(Parcel)
      /\ \A j \in S : more[j] = parcels[j]
  BY <1>1, <1>2
<1> HIDE DEF more, n
<1>4. \A j \in 1..(n + 1) : j \in S \/ j = n + 1
  BY <1>1
<1>5. IsParcels(more)
  BY <1>1, <1>2, <1>3, <1>4 DEF IsParcels
<1>6. CountOf(p.units, sku) = OneIf(unit.sku = sku)
  <2>1. <<>> \in Seq(Item)
    OBVIOUS
  <2>2. CountOf(<<>>, sku) = 0
    <3>1. {j \in DOMAIN <<>> : <<>>[j].sku = sku} = {}
      OBVIOUS
    <3> QED BY <3>1, FS_EmptySet DEF CountOf
  <2>3. CountOf(Append(<<>>, unit), sku) = 0 + OneIf(unit.sku = sku)
    BY <2>1, <2>2, CountOneMore
  <2> QED BY <1>2, <2>3 DEF OneIf
<1>7. /\ \A j \in S : f[j] \in Nat /\ g[j] = f[j]
      /\ g[n + 1] = OneIf(unit.sku = sku) /\ g[n + 1] \in Nat
  <2>1. \A j \in S : f[j] = CountOf(parcels[j].units, sku) /\ f[j] \in Nat
    BY <1>1, CountsAreNat
  <2>2. \A j \in S : g[j] = CountOf(parcels[j].units, sku)
    BY <1>1, <1>3
  <2>3. g[n + 1] = OneIf(unit.sku = sku)
    BY <1>1, <1>3, <1>6
  <2> HIDE DEF f, g
  <2> QED BY <2>1, <2>2, <2>3 DEF OneIf
<1>8. /\ HeldIn(parcels, sku) = SumFunctionOnSet(f, 1..n)
      /\ HeldIn(more, sku) = SumFunctionOnSet(g, 1..(n + 1))
  BY <1>1, <1>3 DEF HeldIn, SumFunction
<1> HIDE DEF f, g
<1>9. SumFunctionOnSet(g, 1..(n + 1)) = SumFunctionOnSet(f, 1..n) + g[n + 1]
  BY <1>1, <1>7, SumOfLonger
<1> QED BY <1>5, <1>7, <1>8, <1>9 DEF more, p

(* The first parcel, or box, that takes the unit is one that does.         *)
LEMMA FirstIsOne ==
  ASSUME NEW S, S # {}, S \subseteq Nat
  PROVE  Min(S) \in S
<1>1. \E x \in S : \A y \in S : x =< y
  BY SmallestNumber
<1> QED BY <1>1 DEF Min

(* A unit that is placed is in one parcel more.                            *)
LEMMA UnitIsPlaced ==
  ASSUME NEW s \in Packings, NEW unit \in Item
  PROVE  /\ PlaceUnit(s, unit) \in Packings
         /\ PlaceUnit(s, unit).success =>
              /\ s.success
              /\ \A sku : HeldIn(PlaceUnit(s, unit).parcels, sku)
                            = HeldIn(s.parcels, sku) + OneIf(unit.sku = sku)
<1> DEFINE taking  == {i \in DOMAIN s.parcels : Placements(s.parcels[i], unit) # {}}
           opening == {i \in DOMAIN Boxes : Placements(Open(Boxes[i]), unit) # {}}
           t == PlaceUnit(s, unit)
<1>1. /\ s \in [success : BOOLEAN, parcels : Seq(Parcel)] /\ IsParcels(s.parcels)
      /\ s.success \in BOOLEAN
  BY DEF Packings
<1>2. /\ ~s.success => t = s
      /\ s.success /\ taking # {} => t = [s EXCEPT !.parcels[Min(taking)] = Place(@, unit)]
      /\ s.success /\ taking = {} /\ opening # {} =>
           t = [s EXCEPT !.parcels = Append(@, Place(Open(Boxes[Min(opening)]), unit))]
      /\ s.success /\ taking = {} /\ opening = {} => t = [success |-> FALSE, parcels |-> <<>>]
  BY DEF PlaceUnit
<1> HIDE DEF t
<1>3. CASE ~s.success
  BY <1>2, <1>3 DEF t
<1>4. CASE s.success /\ taking # {}
  <2> DEFINE i == Min(taking)
             more == Filled(s.parcels, i, unit)
  <2>1. taking \subseteq Nat
    BY <1>1 DEF IsParcels
  <2>2. i \in taking
    <3> HIDE DEF taking
    <3> QED BY <1>4, <2>1, FirstIsOne
  <2>3. i \in DOMAIN s.parcels /\ Placements(s.parcels[i], unit) # {}
    BY <2>2
  <2>4. t = [s EXCEPT !.parcels = more]
    BY <1>2, <1>4 DEF Filled
  <2> HIDE DEF i
  <2>5. IsParcels(more) /\ \A sku : HeldIn(more, sku) = HeldIn(s.parcels, sku) + OneIf(unit.sku = sku)
    BY <1>1, <2>3, ParcelTakes
  <2> HIDE DEF more
  <2>6. t.parcels = more /\ t.success = s.success /\ t \in [success : BOOLEAN, parcels : Seq(Parcel)]
    BY <1>1, <2>4, <2>5 DEF IsParcels
  <2> QED BY <1>4, <2>5, <2>6 DEF Packings, t
<1>5. CASE s.success /\ taking = {} /\ opening # {}
  <2> DEFINE i == Min(opening)
             more == Append(s.parcels, Place(Open(Boxes[i]), unit))
  <2>1. opening \subseteq Nat /\ \A j \in opening : Boxes[j] \in Box
    <3>1. Boxes \in Seq(Box)
      BY PackingAssumption DEF Box, Space
    <3> QED BY <3>1
  <2>2. i \in opening
    <3> HIDE DEF opening
    <3> QED BY <1>5, <2>1, FirstIsOne
  <2>3. Boxes[i] \in Box /\ Placements(Open(Boxes[i]), unit) # {}
    BY <2>1, <2>2
  <2>4. t = [s EXCEPT !.parcels = more]
    BY <1>2, <1>5
  <2> HIDE DEF i
  <2>5. IsParcels(more) /\ \A sku : HeldIn(more, sku) = HeldIn(s.parcels, sku) + OneIf(unit.sku = sku)
    BY <1>1, <2>3, ParcelOpens
  <2> HIDE DEF more
  <2>6. t.parcels = more /\ t.success = s.success /\ t \in [success : BOOLEAN, parcels : Seq(Parcel)]
    BY <1>1, <2>4, <2>5 DEF IsParcels
  <2> QED BY <1>5, <2>5, <2>6 DEF Packings, t
<1>6. CASE s.success /\ taking = {} /\ opening = {}
  <2>1. t = [success |-> FALSE, parcels |-> <<>>]
    BY <1>2, <1>6
  <2>2. t \in Packings
    <3>1. t.success = FALSE /\ t.parcels = <<>> /\ t \in [success : BOOLEAN, parcels : Seq(Parcel)]
      BY <2>1
    <3>2. IsParcels(<<>>)
      BY DEF IsParcels
    <3> QED BY <3>1, <3>2 DEF Packings
  <2> QED BY <2>1, <2>2 DEF t
<1> QED BY <1>1, <1>3, <1>4, <1>5, <1>6 DEF t

-----------------------------------------------------------------------------
Nothing == [success |-> TRUE, parcels |-> <<>>]

(* A unit more leaves a packing, and one that succeeds holds it.           *)
LEMMA PlacedIsPacking ==
  ASSUME NEW s \in Packings, NEW unit \in Item
  PROVE  PlaceUnit(s, unit) \in Packings
BY UnitIsPlaced

LEMMA PlacedIsHeld ==
  ASSUME NEW s \in Packings, NEW unit \in Item, PlaceUnit(s, unit).success, NEW sku
  PROVE  /\ s.success
         /\ HeldIn(PlaceUnit(s, unit).parcels, sku) = HeldIn(s.parcels, sku) + OneIf(unit.sku = sku)
<1>1. s.success
  BY UnitIsPlaced
<1>2. \A k : HeldIn(PlaceUnit(s, unit).parcels, k) = HeldIn(s.parcels, k) + OneIf(unit.sku = k)
  BY UnitIsPlaced
<1> QED BY <1>1, <1>2

(* Packing goes through the units one after the other.                     *)
LEMMA PackingSteps ==
  ASSUME NEW n \in Nat, NEW items, Units(items) \in [1..n -> Item], Boxes # <<>>
  PROVE  \E P : /\ P[0] = Nothing
                /\ \A k \in 1..n : P[k - 1] \in Packings /\ P[k] = PlaceUnit(P[k - 1], Units(items)[k])
                /\ PackItems(items) = P[n] /\ P[n] \in Packings
<1> DEFINE units == Units(items)
           Is(g) == g = [u \in SUBSET (DOMAIN units) |->
                           IF u = {} THEN Nothing
                           ELSE PlaceUnit(g[u \ {Max(u)}], units[Max(u)])]
           step == [p \in (1..n) \X Packings |-> PlaceUnit(p[2], units[p[1]])]
<1>1. PackItems(items) = (CHOOSE g : Is(g))[DOMAIN units]
  BY DEF PackItems, FoldLeft, MapThenFoldSet, Nothing
<1> HIDE DEF units
<1>2. DOMAIN units = 1..n /\ \A i \in 1..n : units[i] \in Item
  BY DEF units
<1>3. \A i \in 1..n : \A t \in Packings : step[<<i, t>>] = PlaceUnit(t, units[i])
  OBVIOUS
<1>4. \A i \in 1..n : \A t \in Packings : step[<<i, t>>] \in Packings
  <2> SUFFICES ASSUME NEW i \in 1..n, NEW t \in Packings PROVE step[<<i, t>>] \in Packings
    OBVIOUS
  <2> HIDE DEF step
  <2>1. units[i] \in Item /\ step[<<i, t>>] = PlaceUnit(t, units[i])
    BY <1>2, <1>3
  <2> QED BY <2>1, PlacedIsPacking
<1>0. Nothing \in Packings
  <2>1. Nothing.parcels = <<>> /\ Nothing \in [success : BOOLEAN, parcels : Seq(Parcel)]
    BY DEF Nothing
  <2>2. IsParcels(<<>>)
    BY DEF IsParcels
  <2> QED BY <2>1, <2>2 DEF Packings
<1>5. \A u \in SUBSET (1..n) : u # {} => Max(u) \in 1..n
  <2>1. IsFiniteSet(1..n) /\ 1..n \subseteq Int
    BY FS_Interval
  <2>2. \A u \in SUBSET (1..n) : u # {} => Max(u) \in u
    BY <2>1, FS_Subset, LargestIsIn
  <2> QED BY <2>2
<1> HIDE DEF step
<1>6. PICK g : FoldsBy(g, n, Nothing, step)
  BY FoldIsDefined
<1>7. \A u \in SUBSET (1..n) : g[u] \in Packings
  BY <1>0, <1>4, <1>6, FoldIsTyped
<1>8. Is(g)
  <2>1. ASSUME NEW u \in SUBSET (1..n), u # {}
        PROVE  step[<<Max(u), g[u \ {Max(u)}]>>] = PlaceUnit(g[u \ {Max(u)}], units[Max(u)])
    <3>1. Max(u) \in 1..n /\ g[u \ {Max(u)}] \in Packings
      BY <1>5, <1>7, <2>1
    <3> QED BY <1>3, <3>1
  <2>2. g = [u \in SUBSET (1..n) |-> IF u = {} THEN Nothing ELSE step[<<Max(u), g[u \ {Max(u)}]>>]]
    BY <1>6 DEF FoldsBy
  <2>3. g = [u \in SUBSET (1..n) |->
               IF u = {} THEN Nothing ELSE PlaceUnit(g[u \ {Max(u)}], units[Max(u)])]
    BY <2>1, <2>2
  <2> QED BY <1>2, <2>3
<1> DEFINE c == CHOOSE f : Is(f)
<1>9. Is(c)
  <2> HIDE DEF Is
  <2> QED BY <1>8
<1> DEFINE P == [k \in 0..n |-> c[1..k]]
<1>10. P[0] = Nothing
  <2>1. {} \in SUBSET DOMAIN units /\ 1..0 = {}
    OBVIOUS
  <2>2. c[{}] = Nothing
    <3> HIDE DEF c
    <3> QED BY <1>9, <2>1
  <2> HIDE DEF c
  <2> QED BY <2>1, <2>2
<1>11. ASSUME NEW k \in 1..n PROVE P[k] = PlaceUnit(P[k - 1], units[k])
  <2>1. 1..k \in SUBSET (1..n) /\ 1..k # {} /\ k - 1 \in 0..n /\ k \in 0..n /\ k \in Nat /\ k # 0
    <3>1. k \in 1..k /\ k \in Nat /\ k # 0
      OBVIOUS
    <3>2. k - 1 \in 0..n /\ k \in 0..n
      OBVIOUS
    <3>3. \A x \in 1..k : x \in 1..n
      OBVIOUS
    <3> QED BY <3>1, <3>2, <3>3
  <2>2. Max(1..k) = k /\ (1..k) \ {k} = 1..(k - 1)
    BY <2>1, LargestOfFirst
  <2>4. c[1..k] = PlaceUnit(c[(1..k) \ {Max(1..k)}], units[Max(1..k)])
    <3> HIDE DEF c
    <3> QED BY <1>2, <1>9, <2>1
  <2> HIDE DEF c
  <2> QED BY <2>1, <2>2, <2>4
<1>12. PackItems(items) = P[n]
  <2> HIDE DEF Is
  <2>1. P[n] = c[1..n]
    OBVIOUS
  <2> QED BY <1>1, <1>2, <2>1
<1>13. \A k \in 0..n : P[k] \in Packings
  <2> DEFINE good == {k \in Nat : k <= n => P[k] \in Packings}
  <2> HIDE DEF P
  <2>1. 0 \in good
    BY <1>0, <1>10
  <2>2. ASSUME NEW k \in good PROVE k + 1 \in good
    <3> SUFFICES ASSUME k + 1 <= n PROVE P[k + 1] \in Packings
      OBVIOUS
    <3>1. k + 1 \in 1..n /\ (k + 1) - 1 = k /\ P[k] \in Packings
      BY <2>2
    <3>2. P[k + 1] = PlaceUnit(P[k], units[k + 1])
      BY <1>11, <3>1
    <3>3. units[k + 1] \in Item
      BY <1>2, <3>1
    <3> QED BY <3>1, <3>2, <3>3, PlacedIsPacking
  <2>3. good = Nat
    <3>1. good \subseteq Nat
      OBVIOUS
    <3> HIDE DEF good
    <3> QED BY <2>1, <2>2, <3>1, CountingUp
  <2> QED BY <2>3
<1> HIDE DEF P
<1> QED BY <1>10, <1>11, <1>12, <1>13 DEF units

(* A packing that succeeds holds every unit in a parcel that is whole.     *)
LEMMA AllArePacked ==
  ASSUME NEW n \in Nat, NEW items, Units(items) \in [1..n -> Item], PackItems(items).success
  PROVE  /\ IsParcels(PackItems(items).parcels)
         /\ \A sku : HeldIn(PackItems(items).parcels, sku) = CountOf(Units(items), sku)
<1> DEFINE units == Units(items)
           among(k, sku) == {j \in 1..k : units[j].sku = sku}
<1>1. PICK P : /\ P[0] = Nothing
               /\ \A k \in 1..n : P[k - 1] \in Packings /\ P[k] = PlaceUnit(P[k - 1], units[k])
               /\ PackItems(items) = P[n] /\ P[n] \in Packings
  <2>1. Boxes # <<>>
    BY DEF PackItems, Unpacked
  <2> QED BY <2>1, PackingSteps
<1> HIDE DEF units
<1>2. \A i \in 1..n : units[i] \in Item
  BY DEF units
<1> DEFINE good == {k \in Nat : k <= n /\ P[k].success =>
                      \A sku : /\ IsFiniteSet(among(k, sku))
                               /\ HeldIn(P[k].parcels, sku) = Cardinality(among(k, sku))}
<1>3. 0 \in good
  <2> SUFFICES ASSUME NEW sku
               PROVE  /\ IsFiniteSet(among(0, sku))
                      /\ HeldIn(P[0].parcels, sku) = Cardinality(among(0, sku))
    OBVIOUS
  <2>1. among(0, sku) = {}
    OBVIOUS
  <2>2. P[0].parcels = <<>> /\ DOMAIN <<>> = {}
    BY <1>1 DEF Nothing
  <2>3. HeldIn(<<>>, sku) = 0
    BY <2>2, SumOfNone DEF HeldIn, SumFunction
  <2> HIDE DEF among
  <2> QED BY <2>1, <2>2, <2>3, FS_EmptySet
<1>4. ASSUME NEW k \in good PROVE k + 1 \in good
  <2>0. k \in Nat
    OBVIOUS
  <2> SUFFICES ASSUME k + 1 <= n, P[k + 1].success, NEW sku
               PROVE  /\ IsFiniteSet(among(k + 1, sku))
                      /\ HeldIn(P[k + 1].parcels, sku) = Cardinality(among(k + 1, sku))
    BY <2>0
  <2> DEFINE u == units[k + 1]
  <2>1. k + 1 \in 1..n /\ (k + 1) - 1 = k /\ k <= n
    BY <2>0
  <2>2. u \in Item /\ P[k] \in Packings /\ P[k + 1] = PlaceUnit(P[k], u)
    BY <1>1, <1>2, <2>1
  <2>3. P[k].success /\ HeldIn(P[k + 1].parcels, sku) = HeldIn(P[k].parcels, sku) + OneIf(u.sku = sku)
    <3> HIDE DEF u, good
    <3>1. PlaceUnit(P[k], u).success
      BY <2>2
    <3>2. P[k].success
      BY <2>2, <3>1, UnitIsPlaced
    <3>3. HeldIn(PlaceUnit(P[k], u).parcels, sku) = HeldIn(P[k].parcels, sku) + OneIf(u.sku = sku)
      <4> DEFINE s == P[k]
      <4>1. s \in Packings /\ u \in Item /\ PlaceUnit(s, u).success
        BY <2>2, <3>1
      <4> HIDE DEF s
      <4>2. HeldIn(PlaceUnit(s, u).parcels, sku) = HeldIn(s.parcels, sku) + OneIf(u.sku = sku)
        BY <4>1, PlacedIsHeld
      <4> QED BY <4>2 DEF s
    <3> QED BY <2>2, <3>2, <3>3
  <2>4. IsFiniteSet(among(k, sku)) /\ HeldIn(P[k].parcels, sku) = Cardinality(among(k, sku))
    <3> HIDE DEF among
    <3> QED BY <2>1, <2>3
  <2>5. /\ k + 1 \notin among(k, sku)
        /\ among(k + 1, sku) = IF u.sku = sku THEN among(k, sku) \cup {k + 1} ELSE among(k, sku)
    <3>1. /\ \A j : j \in 1..(k + 1) <=> j \in 1..k \/ j = k + 1
          /\ k + 1 \notin 1..k
      BY <2>0
    <3> QED BY <3>1
  <2> HIDE DEF among, u, good
  <2>6. /\ IsFiniteSet(among(k, sku) \cup {k + 1}) /\ Cardinality(among(k, sku)) \in Nat
        /\ Cardinality(among(k, sku) \cup {k + 1}) = Cardinality(among(k, sku)) + 1
    BY <2>4, <2>5, FS_AddElement, FS_CardinalityType
  <2>7. CASE u.sku = sku
    BY <2>3, <2>4, <2>5, <2>6, <2>7 DEF OneIf
  <2>8. CASE u.sku # sku
    BY <2>3, <2>4, <2>5, <2>6, <2>8 DEF OneIf
  <2> QED BY <2>7, <2>8
<1>5. n \in good
  <2>1. good \subseteq Nat
    OBVIOUS
  <2> HIDE DEF good
  <2> QED BY <1>3, <1>4, <2>1, CountingUp
<1>6. P[n].success /\ IsParcels(P[n].parcels)
  BY <1>1 DEF Packings
<1>7. ASSUME NEW sku PROVE HeldIn(P[n].parcels, sku) = CountOf(units, sku)
  <2>1. HeldIn(P[n].parcels, sku) = Cardinality(among(n, sku))
    <3> HIDE DEF among
    <3> QED BY <1>5, <1>6
  <2>2. DOMAIN units = 1..n
    BY DEF units
  <2> QED BY <2>1, <2>2 DEF CountOf
<1> QED BY <1>1, <1>6, <1>7 DEF units

(* Of a line there are as many units as it asks for.                       *)
LEMMA UnitsAreAllCopies ==
  ASSUME NEW m \in Nat, NEW items, IsCart(items, m), NEW i \in 1..m
  PROVE  CountOf(Units(items), items[i].sku) = items[i].quantity
<1> DEFINE C == Copies(items)
           n == Cardinality(C)
           order == Ordering(KeyOfCopies(items))
           units == Units(items)
           A == {j \in 1..n : units[j].sku = items[i].sku}
           q == items[i].quantity
           Q == 1..q
           f == [j \in A |-> order[j][2]]
<1>1. /\ n \in Nat /\ order \in Bijection(1..n, C) /\ order \in [1..n -> C]
      /\ units \in [1..n -> Item]
      /\ \A r \in 1..n : units[r] = items[order[r][1]]
  <2> HIDE DEF order, units, n
  <2> QED BY UnitsListCopies DEF order, units, n
<1>2. \A u : u \in C <=> u \in (1..m) \X (1..MaxOfSku) /\ u[2] <= items[u[1]].quantity
  BY DEF Copies, IsCart
<1>3. items[i] \in Item /\ q \in Nat /\ q <= MaxOfSku /\ MaxOfSku \in Nat
  BY ItemIsSized, PackingAssumption DEF IsCart
<1> HIDE DEF C, n, order, units, q
<1>4. /\ \A r, s \in 1..n : order[r] = order[s] => r = s
      /\ \A u \in C : \E r \in 1..n : order[r] = u
  BY <1>1 DEF Bijection, Injection, Surjection, IsInjective
<1>5. \A j \in 1..n : /\ order[j] \in C /\ order[j] \in (1..m) \X (1..MaxOfSku)
                      /\ (j \in A <=> order[j][1] = i)
  <2> SUFFICES ASSUME NEW j \in 1..n
               PROVE  /\ order[j] \in C /\ order[j] \in (1..m) \X (1..MaxOfSku)
                      /\ (j \in A <=> order[j][1] = i)
    OBVIOUS
  <2>1. order[j] \in C
    BY <1>1
  <2>2. order[j] \in (1..m) \X (1..MaxOfSku)
    BY <1>2, <2>1
  <2>3. order[j][1] \in 1..m
    BY <2>2
  <2>4. j \in A <=> items[order[j][1]].sku = items[i].sku
    BY <1>1
  <2>5. items[order[j][1]].sku = items[i].sku <=> order[j][1] = i
    BY <2>3 DEF IsCart
  <2> QED BY <2>1, <2>2, <2>4, <2>5
<1>6. f \in Bijection(A, Q)
  <2>1. \A j \in A : j \in 1..n
    OBVIOUS
  <2> HIDE DEF A
  <2>2. ASSUME NEW j \in A PROVE order[j][2] \in Q /\ order[j] = <<i, order[j][2]>>
    <3>1. order[j] \in (1..m) \X (1..MaxOfSku) /\ order[j][1] = i /\ order[j] \in C
      BY <1>5, <2>1
    <3>2. order[j][2] \in 1..MaxOfSku /\ order[j][2] <= q
      BY <1>2, <3>1 DEF q
    <3>3. order[j][2] \in Q
      BY <1>3, <3>2
    <3> QED BY <3>1, <3>3
  <2>3. f \in [A -> Q]
    BY <2>2
  <2>4. ASSUME NEW j \in A, NEW k \in A, f[j] = f[k] PROVE j = k
    <3>1. order[j] = order[k]
      BY <2>2, <2>4
    <3> QED BY <1>4, <2>1, <3>1
  <2>5. ASSUME NEW x \in Q PROVE \E j \in A : f[j] = x
    <3> DEFINE u == <<i, x>>
    <3>1. u \in (1..m) \X (1..MaxOfSku) /\ u[1] = i /\ u[2] = x /\ x <= q
      BY <1>3
    <3> HIDE DEF u
    <3>2. u \in C
      BY <1>2, <3>1 DEF q
    <3>3. PICK r \in 1..n : order[r] = u
      BY <1>4, <3>2
    <3>4. r \in A
      BY <1>5, <3>1, <3>3
    <3> QED BY <3>1, <3>3, <3>4
  <2> HIDE DEF f, Q
  <2> QED BY <2>3, <2>4, <2>5 DEF Bijection, Injection, Surjection, IsInjective
<1>7. IsFiniteSet(A)
  <2>1. IsFiniteSet(1..n)
    BY <1>1, FS_Interval
  <2>2. A \in SUBSET (1..n)
    OBVIOUS
  <2> HIDE DEF A
  <2> QED BY <2>1, <2>2, FS_Subset
<1>8. Cardinality(Q) = q
  BY <1>3, FS_Interval
<1>9. Cardinality(A) = q
  <2> HIDE DEF A, Q, f
  <2> QED BY <1>6, <1>7, <1>8, FS_Bijection DEF ExistsBijection
<1>10. CountOf(units, items[i].sku) = Cardinality(A)
  BY <1>1 DEF CountOf
<1> QED BY <1>9, <1>10 DEF units, q

-----------------------------------------------------------------------------
Jobs == {s \in SeqOf(Item, Cardinality(Skus)) : \A i, j \in DOMAIN s : i # j => s[i].sku # s[j].sku}

(* The jobs are carts: each line is of another SKU.                        *)
LEMMA JobIsCart == ASSUME NEW s \in Jobs PROVE \E m \in Nat : IsCart(s, m)
<1>1. Cardinality(Skus) \in Nat
  BY PackingAssumption, FS_CardinalityType
<1>2. PICK m \in 0..Cardinality(Skus) : s \in [1..m -> Item]
  BY <1>1 DEF Jobs, SeqOf
<1>3. m \in Nat /\ DOMAIN s = 1..m
  BY <1>1, <1>2
<1> QED BY <1>2, <1>3 DEF Jobs, IsCart

(* What a successful packing of a cart is.                                 *)
LEMMA PackingSucceedsWhole ==
  ASSUME job \in Jobs, packed = PackItems(job), packed.success
  PROVE  CartIsPackedOneWay /\ ParcelsHoldTheCart
<1>1. PICK m \in Nat : IsCart(job, m)
  BY JobIsCart
<1>2. DOMAIN job = 1..m
  BY <1>1 DEF IsCart
<1>3. PICK n \in Nat : Units(job) \in [1..n -> Item]
  <2>1. Units(job) \in [1..Cardinality(Copies(job)) -> Item] /\ Cardinality(Copies(job)) \in Nat
    BY <1>1, UnitsListCopies
  <2> QED BY <2>1
<1>4. CartIsPackedOneWay
  <2> SUFFICES ASSUME NEW p \in Bijection(DOMAIN job, DOMAIN job)
               PROVE  PackItems([i \in DOMAIN job |-> job[p[i]]]) = packed
    BY DEF CartIsPackedOneWay
  <2> DEFINE again == [i \in DOMAIN job |-> job[p[i]]]
  <2>1. Units(again) = Units(job)
    BY <1>1, <1>2, UnitsComeInOrder
  <2> HIDE DEF again
  <2>2. PackItems(again) = PackItems(job)
    BY <2>1 DEF PackItems
  <2> QED BY <2>2 DEF again
<1>5. IsParcels(packed.parcels) /\ \A sku : HeldIn(packed.parcels, sku) = CountOf(Units(job), sku)
  BY <1>3, AllArePacked
<1>6. ASSUME NEW i \in DOMAIN packed.parcels PROVE ParcelIsWithinItsBox(packed.parcels[i])
  <2>1. IsPacked(packed.parcels[i])
    BY <1>5 DEF IsParcels
  <2> QED BY <2>1 DEF ParcelIsWithinItsBox, IsPacked, IsWhole, Weighs, Fills, Spaces
<1>7. ASSUME NEW i \in DOMAIN job PROVE UnitsPacked(job[i].sku) = job[i].quantity
  <2>1. UnitsPacked(job[i].sku) = HeldIn(packed.parcels, job[i].sku)
    BY DEF UnitsPacked, HeldIn, CountOf
  <2> QED BY <1>1, <1>2, <1>5, <2>1, UnitsAreAllCopies
<1> QED BY <1>4, <1>6, <1>7 DEF ParcelsHoldTheCart

(* For carts of any items and any boxes: a cart that can be packed is      *)
(* packed whole and within its boxes, and the same way in whatever order   *)
(* its lines are read (pack_items).                                        *)
THEOREM CartsArePackedWhole == PackSpec => []PackingIsSound
<1> DEFINE Inv == job \in Jobs /\ (packed = Unpacked \/ packed = PackItems(job))
<1>1. PackInit => Inv
  BY DEF PackInit, Jobs
<1>2. Inv /\ [PackNext]_packVars => Inv'
  BY DEF PackNext, packVars
<1>3. Inv => PackingIsSound
  <2> SUFFICES ASSUME Inv, packed.success PROVE CartIsPackedOneWay /\ ParcelsHoldTheCart
    BY DEF PackingIsSound
  <2>1. packed # Unpacked
    BY DEF Unpacked
  <2> QED BY <2>1, PackingSucceedsWhole
<1> QED BY <1>1, <1>2, <1>3, PTL DEF PackSpec

-----------------------------------------------------------------------------
(* COUPONS.                                                                *)
USE DEF Status, Ops

(* The columns' types, and that a waiting call has read a time that was.   *)
THEOREM TypeCorrect == Spec => []TypeOK
<1>1. Init => TypeOK
  BY CouponAssumption DEF Init, TypeOK
<1>2. TypeOK /\ [Next]_vars => TypeOK'
  <2> SUFFICES ASSUME TypeOK, [Next]_vars PROVE TypeOK'
    OBVIOUS
  <2> USE CouponAssumption DEF TypeOK
  <2>1. ASSUME NEW o \in Orders, NEW op \in Ops, Call(o, op) PROVE TypeOK'
    BY <2>1 DEF Call
  <2>2. ASSUME NEW o \in Orders, NEW op \in Ops, Returned(o, op)
        PROVE  since' \in [Orders -> [Ops -> (0..now) \cup {Idle}]]
    BY <2>2 DEF Returned
  <2>3. ASSUME NEW o \in Orders, NEW s \in Status, NEW t
        PROVE  Granted(o, s, t) \in [Orders -> Status]
    BY <2>3 DEF Granted
  <2>4. ASSUME NEW o \in Orders,
               ReserveAgain(o) \/ ConsumeAgain(o) \/ RefuseReserve(o) \/ RefuseConsume(o)
        PROVE  TypeOK'
    BY <2>2, <2>4 DEF ReserveAgain, ConsumeAgain, RefuseReserve, RefuseConsume
  <2>5. ASSUME NEW o \in Orders, Reserve(o) PROVE TypeOK'
    <3> DEFINE t == since[o]["reserve"]
    <3>1. t \in 0..now /\ t + Lifetime \in 0..(MaxNow + Lifetime)
      BY <2>5 DEF Reserve, Reserving
    <3>2. expires' \in [Orders -> 0..(MaxNow + Lifetime)]
      BY <2>5, <3>1 DEF Reserve, Deadline
    <3>3. status' \in [Orders -> Status]
      BY <2>3, <2>5 DEF Reserve
    <3>4. since' \in [Orders -> [Ops -> (0..now) \cup {Idle}]]
      BY <2>2, <2>5 DEF Reserve
    <3> QED BY <2>5, <3>2, <3>3, <3>4 DEF Reserve, Deadline
  <2>6. ASSUME NEW o \in Orders, Consume(o) PROVE TypeOK'
    <3>1. status' \in [Orders -> Status]
      BY <2>3, <2>6 DEF Consume
    <3>2. since' \in [Orders -> [Ops -> (0..now) \cup {Idle}]]
      BY <2>2, <2>6 DEF Consume
    <3> QED BY <2>6, <3>1, <3>2 DEF Consume
  <2>7. ASSUME NEW o \in Orders, Release(o) PROVE TypeOK'
    BY <2>7 DEF Release
  <2>8. CASE Sweep
    BY <2>8 DEF Sweep
  <2>9. ASSUME NEW m \in Quotas, SetLimit(m) PROVE TypeOK'
    BY <2>9 DEF SetLimit
  <2>10. CASE Tick
    <3>1. now' \in 0..MaxNow /\ (0..now) \subseteq (0..now')
      BY <2>10 DEF Tick
    <3> QED BY <2>10, <3>1 DEF Tick
  <2>11. CASE UNCHANGED vars
    BY <2>11 DEF vars
  <2> QED
    BY <2>1, <2>4, <2>5, <2>6, <2>7, <2>8, <2>9, <2>10, <2>11 DEF Next
<1> QED BY <1>1, <1>2, PTL DEF Spec

-----------------------------------------------------------------------------
(* One order in the room that the others leave at a time t, be it past.    *)
LEMMA OneMoreFits ==
  ASSUME TypeOK, NEW o \in Orders, NEW t, Room(o, t),
         InUse(now)' \subseteq (InUse(t) \ {o}) \cup {o}, limit' = limit
  PROVE  Within(Cardinality(InUse(now)))'
<1> DEFINE Others == InUse(t) \ {o}
<1>1. IsFiniteSet(Others)
  BY CouponAssumption, FS_Subset DEF InUse
<1>2. Cardinality(Others) \in Nat
  BY <1>1, FS_CardinalityType
<1>3. IsFiniteSet(Others \cup {o}) /\ Cardinality(Others \cup {o}) = Cardinality(Others) + 1
  BY <1>1, FS_AddElement
<1>4. Cardinality(InUse(now)') <= Cardinality(Others) + 1 /\ Cardinality(InUse(now)') \in Nat
  BY <1>3, FS_Subset, FS_CardinalityType
<1>5. limit # Unlimited => limit \in Nat /\ Cardinality(Others) < limit
  BY CouponAssumption DEF Room, TypeOK
<1> HIDE DEF Others
<1>6. limit # Unlimited => Cardinality(InUse(now)') <= limit
  BY <1>2, <1>4, <1>5
<1> QED BY <1>6 DEF Within

(* Nobody joins beyond the quota, however old the clock of the call is:    *)
(* an old clock only counts more redemptions as still reserved             *)
(* (_coupon_redemptions_in_use, _ensure_coupon_capacity).                  *)
THEOREM QuotaHolds == Spec => JoinsWithinQuota
<1> DEFINE Joins == InUse(now)' \subseteq InUse(now) \/ Within(Cardinality(InUse(now)))'
<1>1. TypeOK /\ TypeOK' /\ [Next]_vars => [Joins]_vars
  <2> SUFFICES ASSUME TypeOK, TypeOK', Next PROVE Joins
    OBVIOUS
  <2>0. now \in Int /\ MaxNow \in Int /\ \A x \in Orders : expires[x] \in Int
    BY CouponAssumption DEF TypeOK
  <2>1. ASSUME NEW o \in Orders, NEW s \in Status, NEW t \in 0..now,
               now' = now, status' = Granted(o, s, t),
               \A x \in Orders \ {o} : expires'[x] = expires[x]
        PROVE  InUse(now)' \subseteq (InUse(t) \ {o}) \cup {o}
    BY <2>0, <2>1 DEF InUse, Granted
  <2>2. ASSUME NEW o \in Orders, Reserve(o) PROVE Joins
    <3> DEFINE t == since[o]["reserve"]
    <3>1. t \in 0..now
      BY <2>2 DEF Reserve, Reserving, TypeOK
    <3>2. /\ Room(o, t) /\ limit' = limit /\ now' = now
          /\ status' = Granted(o, "reserved", t)
          /\ \A x \in Orders \ {o} : expires'[x] = expires[x]
      BY <2>2 DEF Reserve, TypeOK
    <3> QED BY <2>1, <3>1, <3>2, OneMoreFits
  <2>3. ASSUME NEW o \in Orders, Consume(o) PROVE Joins
    <3> DEFINE t == since[o]["consume"]
    <3>1. t \in 0..now
      BY <2>3 DEF Consume, Paying, TypeOK
    <3>2. /\ Room(o, t) /\ limit' = limit /\ now' = now
          /\ status' = Granted(o, "consumed", t) /\ expires' = expires
      BY <2>3 DEF Consume
    <3> QED BY <2>1, <3>1, <3>2, OneMoreFits
  <2>4. ASSUME NEW o \in Orders, Release(o) PROVE Joins
    BY <2>4 DEF Release, InUse, TypeOK
  <2>5. CASE Sweep
    BY <2>5 DEF Sweep, InUse, TypeOK
  <2>6. CASE Tick
    BY <2>0, <2>6 DEF Tick, InUse
  <2>7. ASSUME UNCHANGED <<now, status, expires>> PROVE Joins
    BY <2>7 DEF InUse
  <2>8. ASSUME NEW o \in Orders, NEW op \in Ops,
               Call(o, op) \/ ReserveAgain(o) \/ ConsumeAgain(o)
                 \/ RefuseReserve(o) \/ RefuseConsume(o)
        PROVE  Joins
    BY <2>7, <2>8 DEF Call, ReserveAgain, ConsumeAgain, RefuseReserve, RefuseConsume
  <2>9. ASSUME NEW m \in Quotas, SetLimit(m) PROVE Joins
    BY <2>7, <2>9 DEF SetLimit
  <2> QED BY <2>2, <2>3, <2>4, <2>5, <2>6, <2>8, <2>9 DEF Next
<1> QED BY <1>1, TypeCorrect, PTL DEF Spec, JoinsWithinQuota

-----------------------------------------------------------------------------
(* Why a payment does not lose the place of its checkout.  Every grant     *)
(* releases whatever had lapsed at its time, however old, so the           *)
(* redemptions that are not released never outnumber the highest quota.    *)
Live == {o \in Orders : status[o] \in {"reserved", "consumed"}}

LiveFits == \A m \in Quotas : m # Unlimited /\ Highest(m) => Cardinality(Live) <= m

LEMMA SubsetsOfOrders ==
  ASSUME NEW S \in SUBSET Orders
  PROVE  /\ IsFiniteSet(S) /\ Cardinality(S) \in Nat
         /\ \A T \in SUBSET S : Cardinality(T) <= Cardinality(S)
         /\ \A o \in S : Cardinality(S \ {o}) = Cardinality(S) - 1
         /\ \A o \in Orders \ S : Cardinality(S \cup {o}) = Cardinality(S) + 1
<1>1. IsFiniteSet(S)
  BY CouponAssumption, FS_Subset
<1> QED BY <1>1, FS_CardinalityType, FS_Subset, FS_RemoveElement, FS_AddElement

(* A grant leaves the redemptions it counted, and its own.                 *)
LEMMA GrantFits ==
  ASSUME TypeOK, NEW o \in Orders, NEW t \in 0..now, NEW s \in {"reserved", "consumed"}, Room(o, t),
         status' = Granted(o, s, t), limit' = limit
  PROVE  LiveFits'
<1> DEFINE Others == InUse(t) \ {o}
<1>1. \A x \in Orders : expires[x] \in Int /\ now \in Int
  BY CouponAssumption DEF TypeOK
<1>2. Live' \in SUBSET (Others \cup {o}) /\ Others \in SUBSET Orders /\ o \notin Others
  BY <1>1 DEF Live, InUse, Granted
<1>3. Cardinality(Live') <= Cardinality(Others \cup {o}) /\ Cardinality(Live') \in Nat
  BY <1>2, SubsetsOfOrders
<1>4. Cardinality(Others \cup {o}) = Cardinality(Others) + 1 /\ Cardinality(Others) \in Nat
  BY <1>2, SubsetsOfOrders
<1>5. limit # Unlimited => limit \in Nat /\ Cardinality(Others) < limit
  BY CouponAssumption DEF Room, TypeOK
<1> SUFFICES ASSUME NEW m \in Quotas, m # Unlimited, Highest(m) PROVE Cardinality(Live') <= m
  BY Zenon DEF LiveFits, Highest
<1>6. limit # Unlimited /\ limit <= m /\ m \in Nat
  BY CouponAssumption DEF Highest, TypeOK
<1> HIDE DEF Others
<1> QED BY <1>3, <1>4, <1>5, <1>6

LEMMA FewerFit == LiveFits /\ TypeOK /\ Live' \subseteq Live => LiveFits'
<1> SUFFICES ASSUME LiveFits, Live' \subseteq Live,
                    NEW m \in Quotas, m # Unlimited, Highest(m)
             PROVE  Cardinality(Live') <= m
  BY Zenon DEF LiveFits, Highest
<1>1. Live \in SUBSET Orders /\ Live' \in SUBSET Live /\ Live' \in SUBSET Orders
  BY DEF Live
<1>2. Cardinality(Live') <= Cardinality(Live) /\ Cardinality(Live) \in Nat /\ Cardinality(Live') \in Nat
  BY <1>1, SubsetsOfOrders
<1>3. Cardinality(Live) <= m /\ m \in Nat
  BY CouponAssumption DEF LiveFits
<1> QED BY <1>2, <1>3

LEMMA LiveFitsStays == TypeOK /\ LiveFits /\ [Next]_vars => LiveFits'
<1> SUFFICES ASSUME TypeOK, LiveFits, [Next]_vars PROVE LiveFits'
  OBVIOUS
<1>1. ASSUME NEW o \in Orders, Reserve(o) PROVE LiveFits'
  <2>1. since[o]["reserve"] \in 0..now
    BY <1>1 DEF Reserve, Reserving, TypeOK
  <2> QED BY <1>1, <2>1, GrantFits DEF Reserve
<1>2. ASSUME NEW o \in Orders, Consume(o) PROVE LiveFits'
  <2>1. since[o]["consume"] \in 0..now
    BY <1>2 DEF Consume, Paying, TypeOK
  <2> QED BY <1>2, <2>1, GrantFits DEF Consume
<1>3. ASSUME NEW o \in Orders, Release(o) PROVE LiveFits'
  BY <1>3, FewerFit DEF Release, Live, TypeOK
<1>4. CASE Sweep
  BY <1>4, FewerFit DEF Sweep, Live, TypeOK
<1>5. ASSUME UNCHANGED status PROVE LiveFits'
  BY <1>5, FewerFit DEF Live
<1>6. ASSUME NEW o \in Orders, NEW op \in Ops,
             Call(o, op) \/ ReserveAgain(o) \/ ConsumeAgain(o) \/ RefuseReserve(o) \/ RefuseConsume(o)
      PROVE  LiveFits'
  BY <1>5, <1>6 DEF Call, ReserveAgain, ConsumeAgain, RefuseReserve, RefuseConsume
<1>7. CASE Tick \/ UNCHANGED vars \/ \E m \in Quotas : SetLimit(m)
  BY <1>5, <1>7 DEF Tick, vars, SetLimit
<1> QED BY <1>1, <1>2, <1>3, <1>4, <1>6, <1>7 DEF Next

(* An order whose redemption still counts is not refused when it is paid,  *)
(* under the highest quota that is ever set (consume_coupon_redemption).   *)
THEOREM PlacesAreHonoured == Spec => []PlaceIsHonoured
<1>1. Init => LiveFits
  <2> SUFFICES ASSUME Init, NEW m \in Quotas, m # Unlimited PROVE Cardinality(Live) <= m
    BY DEF LiveFits
  <2>1. Live = {}
    BY DEF Init, Live
  <2> QED BY <2>1, FS_EmptySet, CouponAssumption
<1>2. TypeOK /\ LiveFits => PlaceIsHonoured
  <2> SUFFICES ASSUME TypeOK, LiveFits, NEW o \in Orders, Paying(o), o \in InUse(now),
                      Highest(limit), limit # Unlimited
               PROVE  Cardinality(InUse(since[o]["consume"]) \ {o}) < limit
    BY DEF PlaceIsHonoured, Room
  <2> DEFINE Others == InUse(since[o]["consume"]) \ {o}
  <2>1. /\ o \in Live /\ Live \in SUBSET Orders /\ Live \ {o} \in SUBSET Orders
        /\ Others \in SUBSET (Live \ {o}) /\ Others \in SUBSET Orders
    BY DEF Live, InUse
  <2>2. /\ Cardinality(Others) <= Cardinality(Live \ {o}) /\ Cardinality(Others) \in Nat
        /\ Cardinality(Live \ {o}) = Cardinality(Live) - 1 /\ Cardinality(Live) \in Nat
    BY <2>1, SubsetsOfOrders
  <2>3. Cardinality(Live) <= limit /\ limit \in Nat
    BY CouponAssumption DEF LiveFits, TypeOK
  <2> HIDE DEF Others
  <2>4. Cardinality(Others) < limit
    BY <2>2, <2>3
  <2> QED BY <2>4 DEF Others
<1> QED BY <1>1, <1>2, LiveFitsStays, TypeCorrect, PTL DEF Spec

-----------------------------------------------------------------------------
(* THE THREE TOGETHER.  A behaviour takes the steps of one component, and  *)
(* the others stay as they begin.                                          *)
LEMMA AmountsSteps ==
  ASSUME [AmountsNext]_<<part, vars, priceVars, packVars>>
  PROVE  [Next]_vars /\ [PriceNext]_priceVars /\ [PackNext]_packVars
BY DEF AmountsNext, AtRest

(* A cart that is not packed in its own behaviours is the empty one, which *)
(* is a cart as well.                                                      *)
LEMMA AmountsStart == AmountsInit => Init /\ PackInit
<1> SUFFICES ASSUME AmountsInit PROVE Init /\ PackInit
  OBVIOUS
<1>1. CASE part = "packing"
  BY <1>1 DEF AmountsInit
<1>2. CASE part # "packing"
  <2>1. Init /\ job = <<>> /\ packed = Unpacked
    BY <1>2 DEF AmountsInit
  <2>2. Cardinality(Skus) \in Nat
    BY PackingAssumption, FS_CardinalityType
  <2>3. <<>> \in SeqOf(Item, Cardinality(Skus))
    BY <2>2 DEF SeqOf
  <2> QED BY <2>1, <2>3 DEF PackInit
<1> QED BY <1>1, <1>2

(* Every step of the whole is a step of each component or leaves it alone. *)
LEMMA AmountsIsItsParts == AmountsSpec => Spec /\ PackSpec
BY AmountsStart, AmountsSteps, PTL DEF AmountsSpec, Spec, PackSpec

(* In the other components' behaviours there is no basket, and no price.   *)
LEMMA PricesInWhole == AmountsSpec => []PricingIsSound
<1> DEFINE Inv == IF part = "pricing" THEN BasketInv ELSE priced = <<>>
<1>1. AmountsInit => Inv
  BY BasketStarts DEF AmountsInit
<1>2. ASSUME Inv, [AmountsNext]_<<part, vars, priceVars, packVars>> PROVE Inv'
  <2>1. UNCHANGED part /\ (part # "pricing" => UNCHANGED priceVars)
    BY <1>2 DEF AmountsNext, AtRest
  <2>2. CASE part = "pricing"
    BY <1>2, <2>1, <2>2, AmountsSteps, BasketStays
  <2>3. CASE part # "pricing"
    BY <1>2, <2>1, <2>3 DEF priceVars
  <2> QED BY <2>2, <2>3
<1>3. Inv => PricingIsSound
  BY BasketIsSound DEF PricingIsSound
<1> QED BY <1>1, <1>2, <1>3, PTL DEF AmountsSpec

(* What each of the three promises holds in every behaviour of the whole.  *)
THEOREM AmountsCorrect ==
  AmountsSpec => [](PlaceIsHonoured /\ PricingIsSound /\ PackingIsSound) /\ JoinsWithinQuota
BY AmountsIsItsParts, PricesInWhole, PlacesAreHonoured, QuotaHolds, CartsArePackedWhole, PTL
=============================================================================
