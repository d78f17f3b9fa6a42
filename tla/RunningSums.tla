---------------------------- MODULE RunningSums ----------------------------
(***************************************************************************)
(* Running sums of a function over 1..N, the sum of a function over a      *)
(* finite set, and what the proofs need of them.                           *)
(*                                                                         *)
(* The library's induction theorems take the property to be proved as an   *)
(* operator, which the provers cannot instantiate.  Induction is stated    *)
(* here over the SET of numbers with the property instead, from the fact   *)
(* that < is well-founded on Nat.                                          *)
(***************************************************************************)
EXTENDS Integers, FiniteSets, FiniteSetsExt, FiniteSetTheorems, WellFoundedInduction, TLAPS

\* Every nonempty set of naturals has a least element.
LEMMA LeastNat ==
  ASSUME NEW T, T \subseteq Nat, T # {}
  PROVE  \E x \in T : \A y \in T : x <= y
<1>1. PICK x \in T : \A y \in T : ~(<<y, x>> \in OpToRel(<, Nat))
  BY WFMin, NatLessThanWellFounded
<1>2. \A y \in T : ~(y < x)
  <2> SUFFICES ASSUME NEW y \in T, y < x PROVE FALSE
    OBVIOUS
  <2>1. y \in Nat /\ x \in Nat
    OBVIOUS
  <2>2. <<y, x>> \in OpToRel(<, Nat)
    BY <2>1 DEF OpToRel
  <2>3. QED BY <1>1, <2>2
<1>3. QED BY <1>2

\* The larger and the smaller of two.
LEMMA MaxOfTwo ==
  ASSUME NEW a \in Int, NEW b \in Int
  PROVE  Max({a, b}) = IF a >= b THEN a ELSE b
<1> DEFINE m == IF a >= b THEN a ELSE b
<1>1. m \in {a, b} /\ \A y \in {a, b} : m >= y
  OBVIOUS
<1>2. \A x \in {a, b} : (\A y \in {a, b} : x >= y) => x = m
  OBVIOUS
<1>3. QED BY <1>1, <1>2 DEF Max

LEMMA MinOfTwo ==
  ASSUME NEW a \in Int, NEW b \in Int
  PROVE  Min({a, b}) = IF a <= b THEN a ELSE b
<1> DEFINE m == IF a <= b THEN a ELSE b
<1>1. m \in {a, b} /\ \A y \in {a, b} : m <= y
  OBVIOUS
<1>2. \A x \in {a, b} : (\A y \in {a, b} : x <= y) => x = m
  OBVIOUS
<1>3. QED BY <1>1, <1>2 DEF Min

\* A nonempty set of naturals with a bound has a largest element.
LEMMA LargestNat ==
  ASSUME NEW S, S # {}, NEW N \in Nat, S \subseteq 0..N
  PROVE  Max(S) \in S /\ \A x \in S : x <= Max(S)
<1> DEFINE T == {N - x : x \in S}
<1>1. T \subseteq Nat /\ T # {}
  <2>1. \A x \in S : x \in 0..N /\ N - x \in Nat
    OBVIOUS
  <2>2. QED BY <2>1
<1> HIDE DEF T
<1>2. PICK y \in T : \A z \in T : y <= z
  BY <1>1, LeastNat
<1>3. PICK m \in S : y = N - m
  BY DEF T
<1>4. \A x \in S : x <= m
  <2> TAKE x \in S
  <2>1. N - x \in T /\ x \in 0..N /\ m \in 0..N
    BY DEF T
  <2>2. N - m <= N - x
    BY <1>2, <1>3, <2>1
  <2>3. QED BY <2>1, <2>2
<1>5. \E k \in S : \A x \in S : k >= x
  BY <1>4
<1>6. Max(S) \in S /\ \A x \in S : Max(S) >= x
  BY <1>5 DEF Max
<1>7. QED BY <1>6

\* The least of a nonempty set of naturals.
LEMMA MinIsLeast ==
  ASSUME NEW S, S # {}, S \subseteq Nat
  PROVE  Min(S) \in S /\ \A x \in S : Min(S) <= x
<1>1. \E k \in S : \A x \in S : k <= x
  BY LeastNat
<1>2. QED BY <1>1 DEF Min

\* A set of naturals that has 0 and is closed under successor has them all.
LEMMA SetInduction ==
  ASSUME NEW T, 0 \in T, \A n \in Nat : n \in T => n + 1 \in T
  PROVE  \A n \in Nat : n \in T
<1> SUFFICES ASSUME \E n \in Nat : n \notin T PROVE FALSE
  OBVIOUS
<1> DEFINE Missing == {n \in Nat : n \notin T}
<1>1. PICK x \in Missing : \A y \in Missing : x <= y
  <2> Missing \subseteq Nat /\ Missing # {}
    OBVIOUS
  <2> HIDE DEF Missing
  <2> QED BY LeastNat
<1>2. x # 0 /\ x \in Nat
  OBVIOUS
<1>3. x - 1 \in Nat /\ x - 1 \notin Missing
  BY <1>1, <1>2
<1>4. QED BY <1>2, <1>3

-----------------------------------------------------------------------------
\* s[n] is the sum of f[1], ..., f[n].
IsSum(s, f, N) ==
  /\ s \in [0..N -> Int]
  /\ s[0] = 0
  /\ \A n \in 1..N : s[n] = s[n - 1] + f[n]

Sums(f, N) == CHOOSE s : IsSum(s, f, N)

LEMMA SumsAre ==
  ASSUME NEW N \in Nat, NEW f \in [1..N -> Int]
  PROVE  IsSum(Sums(f, N), f, N)
<1> DEFINE T == {n \in Nat : n <= N => \E s : IsSum(s, f, n)}
<1>1. 0 \in T
  <2>1. IsSum([k \in 0..0 |-> 0], f, 0)
    BY DEF IsSum
  <2>2. QED BY <2>1
<1>2. ASSUME NEW n \in Nat, n \in T PROVE n + 1 \in T
  <2> SUFFICES ASSUME n + 1 <= N PROVE \E s : IsSum(s, f, n + 1)
    OBVIOUS
  <2>1. PICK s : IsSum(s, f, n)
    BY <1>2
  <2> DEFINE r == [k \in 0..(n + 1) |-> IF k = n + 1 THEN s[n] + f[k] ELSE s[k]]
  <2>2. s[n] \in Int /\ f[n + 1] \in Int
    BY <2>1 DEF IsSum
  <2>3. r \in [0..(n + 1) -> Int]
    BY <2>1, <2>2 DEF IsSum
  <2>4. r[0] = 0
    BY <2>1 DEF IsSum
  <2>5. \A k \in 1..(n + 1) : r[k] = r[k - 1] + f[k]
    <3> TAKE k \in 1..(n + 1)
    <3>1. CASE k = n + 1
      BY <3>1
    <3>2. CASE k # n + 1
      <4>1. k \in 1..n /\ k - 1 \in 0..n /\ k \in 0..n
        BY <3>2
      <4>2. r[k] = s[k] /\ r[k - 1] = s[k - 1]
        BY <4>1
      <4>3. QED BY <4>1, <4>2, <2>1 DEF IsSum
    <3>3. QED BY <3>1, <3>2
  <2>6. QED BY <2>3, <2>4, <2>5 DEF IsSum
<1> HIDE DEF T
<1>3. N \in T
  BY <1>1, <1>2, SetInduction
<1>4. \E s : IsSum(s, f, N)
  BY <1>3 DEF T
<1>5. QED BY <1>4 DEF Sums

\* Two functions that differ by d at c and nowhere else have running sums that
\* differ by d from c on and not before.
LEMMA SumsDiffer ==
  ASSUME NEW N \in Nat, NEW f \in [1..N -> Int], NEW g \in [1..N -> Int],
         NEW c \in Int, NEW d \in Int,
         \A k \in 1..N : g[k] = IF k = c THEN f[k] + d ELSE f[k]
  PROVE  \A n \in 0..N :
           Sums(g, N)[n] = IF 1 <= c /\ c <= n THEN Sums(f, N)[n] + d
                                               ELSE Sums(f, N)[n]
<1> DEFINE F == Sums(f, N)
           G == Sums(g, N)
           T == {n \in Nat : n <= N =>
                   G[n] = IF 1 <= c /\ c <= n THEN F[n] + d ELSE F[n]}
<1>1. IsSum(F, f, N) /\ IsSum(G, g, N)
  BY SumsAre
<1> HIDE DEF F, G
<1>2. 0 \in T
  BY <1>1 DEF IsSum
<1>3. ASSUME NEW n \in Nat, n \in T PROVE n + 1 \in T
  <2> SUFFICES ASSUME n + 1 <= N
               PROVE  G[n + 1] = IF 1 <= c /\ c <= n + 1 THEN F[n + 1] + d
                                                         ELSE F[n + 1]
    OBVIOUS
  <2>1. n + 1 \in 1..N /\ n \in 0..N /\ n + 1 \in 0..N
    OBVIOUS
  <2>2. F[n + 1] = F[n] + f[n + 1] /\ G[n + 1] = G[n] + g[n + 1]
    BY <1>1, <2>1 DEF IsSum
  <2>3. F[n] \in Int /\ G[n] \in Int /\ f[n + 1] \in Int
    BY <1>1, <2>1 DEF IsSum
  <2>4. G[n] = IF 1 <= c /\ c <= n THEN F[n] + d ELSE F[n]
    BY <1>3, <2>1
  <2>5. g[n + 1] = IF n + 1 = c THEN f[n + 1] + d ELSE f[n + 1]
    BY <2>1
  <2>6. QED BY <2>2, <2>3, <2>4, <2>5
<1> HIDE DEF T
<1>4. \A n \in Nat : n \in T
  BY <1>2, <1>3, SetInduction
<1>5. QED BY <1>4 DEF T, F, G

\* Running sums of naturals are naturals and grow.
LEMMA SumsGrow ==
  ASSUME NEW N \in Nat, NEW f \in [1..N -> Nat]
  PROVE  /\ \A n \in 0..N : Sums(f, N)[n] \in Nat
         /\ \A n \in 1..N : Sums(f, N)[n - 1] <= Sums(f, N)[n]
<1> DEFINE F == Sums(f, N)
           T == {n \in Nat : n <= N => F[n] \in Nat}
<1>1. IsSum(F, f, N)
  BY SumsAre
<1> HIDE DEF F
<1>2. 0 \in T
  BY <1>1 DEF IsSum
<1>3. ASSUME NEW n \in Nat, n \in T PROVE n + 1 \in T
  <2>1. CASE n + 1 <= N
    <3>1. n + 1 \in 1..N
      BY <2>1
    <3>2. F[n + 1] = F[n] + f[n + 1] /\ f[n + 1] \in Nat
      BY <1>1, <3>1 DEF IsSum
    <3>3. QED BY <1>3, <2>1, <3>2
  <2>2. QED BY <2>1
<1> HIDE DEF T
<1>4. \A n \in Nat : n \in T
  BY <1>2, <1>3, SetInduction
<1>5. \A n \in 0..N : F[n] \in Nat
  BY <1>4 DEF T
<1>6. \A n \in 1..N : F[n] = F[n - 1] + f[n] /\ n - 1 \in 0..N
  BY <1>1 DEF IsSum
<1>7. QED BY <1>5, <1>6 DEF F

\* Nothing adds up to nothing.
LEMMA SumsOfZero ==
  ASSUME NEW N \in Nat, NEW f \in [1..N -> Int], \A k \in 1..N : f[k] = 0
  PROVE  \A n \in 0..N : Sums(f, N)[n] = 0
<1> DEFINE F == Sums(f, N)
           T == {n \in Nat : n <= N => F[n] = 0}
<1>1. IsSum(F, f, N)
  BY SumsAre
<1> HIDE DEF F
<1>2. 0 \in T
  BY <1>1 DEF IsSum
<1>3. ASSUME NEW n \in Nat, n \in T PROVE n + 1 \in T
  <2>1. CASE n + 1 <= N
    <3>1. n + 1 \in 1..N
      BY <2>1
    <3>2. F[n + 1] = F[n] + f[n + 1]
      BY <1>1, <3>1 DEF IsSum
    <3>3. QED BY <1>3, <2>1, <3>1, <3>2
  <2>2. QED BY <2>1
<1> HIDE DEF T
<1>4. \A n \in Nat : n \in T
  BY <1>2, <1>3, SetInduction
<1>5. QED BY <1>4 DEF T, F

\* One number more adds itself, at the end.
LEMMA SumsExtend ==
  ASSUME NEW N \in Nat, NEW f \in [1..N -> Int], NEW g \in [1..(N + 1) -> Int],
         \A i \in 1..N : g[i] = f[i]
  PROVE  Sums(g, N + 1)[N + 1] = Sums(f, N)[N] + g[N + 1]
<1> DEFINE F == Sums(f, N)
           G == Sums(g, N + 1)
           T == {n \in Nat : n <= N => G[n] = F[n]}
<1>1. IsSum(F, f, N) /\ IsSum(G, g, N + 1)
  <2>1. N + 1 \in Nat
    OBVIOUS
  <2>2. QED BY <2>1, SumsAre
<1> HIDE DEF F, G
<1>2. 0 \in T
  BY <1>1 DEF IsSum
<1>3. ASSUME NEW n \in Nat, n \in T PROVE n + 1 \in T
  <2> SUFFICES ASSUME n + 1 <= N PROVE G[n + 1] = F[n + 1]
    OBVIOUS
  <2>1. n + 1 \in 1..N /\ n + 1 \in 1..(N + 1) /\ (n + 1) - 1 = n
    OBVIOUS
  <2>2. F[n + 1] = F[n] + f[n + 1] /\ G[n + 1] = G[n] + g[n + 1]
    BY <1>1, <2>1 DEF IsSum
  <2>3. QED BY <1>3, <2>1, <2>2
<1> HIDE DEF T
<1>4. N \in T
  BY <1>2, <1>3, SetInduction
<1>5. G[N] = F[N]
  BY <1>4 DEF T
<1>6. N + 1 \in 1..(N + 1) /\ (N + 1) - 1 = N
  OBVIOUS
<1>7. G[N + 1] = G[N] + g[N + 1]
  BY <1>1, <1>6 DEF IsSum
<1>8. QED BY <1>5, <1>7 DEF F, G

\* One number more adds itself, in front.
LEMMA SumsShift ==
  ASSUME NEW N \in Nat, NEW f \in [1..N -> Int], NEW g \in [1..(N + 1) -> Int],
         \A i \in 1..N : g[i + 1] = f[i]
  PROVE  Sums(g, N + 1)[N + 1] = g[1] + Sums(f, N)[N]
<1> DEFINE F == Sums(f, N)
           G == Sums(g, N + 1)
           T == {n \in Nat : n <= N => G[n + 1] = g[1] + F[n]}
<1>1. IsSum(F, f, N) /\ IsSum(G, g, N + 1)
  <2>1. N + 1 \in Nat
    OBVIOUS
  <2>2. QED BY <2>1, SumsAre
<1> HIDE DEF F, G
<1>2. 0 \in T
  <2>1. 1 \in 1..(N + 1) /\ g[1] \in Int
    OBVIOUS
  <2>2. G[1] = G[0] + g[1] /\ G[0] = 0 /\ F[0] = 0
    BY <1>1, <2>1 DEF IsSum
  <2>3. QED BY <2>1, <2>2
<1>3. ASSUME NEW n \in Nat, n \in T PROVE n + 1 \in T
  <2> SUFFICES ASSUME n + 1 <= N PROVE G[(n + 1) + 1] = g[1] + F[n + 1]
    OBVIOUS
  <2>1. /\ n + 1 \in 1..N /\ (n + 1) + 1 \in 1..(N + 1) /\ (n + 1) - 1 = n /\ ((n + 1) + 1) - 1 = n + 1
        /\ n \in 0..N /\ 1 \in 1..(N + 1)
    OBVIOUS
  <2>2. F[n + 1] = F[n] + f[n + 1] /\ G[(n + 1) + 1] = G[n + 1] + g[(n + 1) + 1]
    BY <1>1, <2>1 DEF IsSum
  <2>3. g[(n + 1) + 1] = f[n + 1] /\ f[n + 1] \in Int /\ g[1] \in Int /\ F[n] \in Int
    BY <1>1, <2>1 DEF IsSum
  <2>4. G[n + 1] = g[1] + F[n]
    BY <1>3, <2>1
  <2>5. QED BY <2>2, <2>3, <2>4
<1> HIDE DEF T
<1>4. N \in T
  BY <1>2, <1>3, SetInduction
<1>5. QED BY <1>4 DEF T, F, G

\* Sums of functions that differ by d times a third differ by d times its sum.
LEMMA SumsScale ==
  ASSUME NEW N \in Nat, NEW f \in [1..N -> Int], NEW g \in [1..N -> Int], NEW h \in [1..N -> Int], NEW d \in Int,
         \A i \in 1..N : f[i] = g[i] + d * h[i]
  PROVE  Sums(f, N)[N] = Sums(g, N)[N] + d * Sums(h, N)[N]
<1> DEFINE F == Sums(f, N)
           G == Sums(g, N)
           H == Sums(h, N)
           T == {n \in Nat : n <= N => F[n] = G[n] + d * H[n]}
<1>1. IsSum(F, f, N) /\ IsSum(G, g, N) /\ IsSum(H, h, N)
  BY SumsAre
<1> HIDE DEF F, G, H
<1>2. 0 \in T
  <2>1. F[0] = 0 /\ G[0] = 0 /\ H[0] = 0
    BY <1>1 DEF IsSum
  <2>2. QED BY <2>1
<1>3. ASSUME NEW n \in Nat, n \in T PROVE n + 1 \in T
  <2> SUFFICES ASSUME n + 1 <= N PROVE F[n + 1] = G[n + 1] + d * H[n + 1]
    OBVIOUS
  <2>1. n + 1 \in 1..N /\ (n + 1) - 1 = n /\ n \in 0..N
    OBVIOUS
  <2>2. F[n + 1] = F[n] + f[n + 1] /\ G[n + 1] = G[n] + g[n + 1] /\ H[n + 1] = H[n] + h[n + 1]
    BY <1>1, <2>1 DEF IsSum
  <2>3. G[n] \in Int /\ H[n] \in Int /\ g[n + 1] \in Int /\ h[n + 1] \in Int
    BY <1>1, <2>1 DEF IsSum
  <2>4. f[n + 1] = g[n + 1] + d * h[n + 1]
    BY <2>1
  <2>5. F[n] = G[n] + d * H[n]
    BY <1>3, <2>1
  <2> DEFINE p == d * H[n]
             q == d * h[n + 1]
  <2>6. p \in Int /\ q \in Int /\ d * H[n + 1] = p + q
    <3>1. d * (H[n] + h[n + 1]) = d * H[n] + d * h[n + 1]
      BY <2>3
    <3>2. QED BY <2>2, <2>3, <3>1
  <2>7. f[n + 1] = g[n + 1] + q /\ F[n] = G[n] + p
    BY <2>4, <2>5
  <2> HIDE DEF p, q
  <2>8. QED BY <2>2, <2>3, <2>6, <2>7
<1> HIDE DEF T
<1>4. N \in T
  BY <1>2, <1>3, SetInduction
<1>5. QED BY <1>4 DEF T, F, G, H

-----------------------------------------------------------------------------
(* The sum over a finite set, as the folds of the community modules define *)
(* it: an element is picked, and the rest is summed.                       *)

Pick(s) == CHOOSE x \in s : TRUE

SetSums(f, S) ==
  CHOOSE sum : sum = [s \in SUBSET S |->
                        IF s = {} THEN 0
                        ELSE f[Pick(s)] + sum[s \ {Pick(s)}]]

SetSum(f, S) == SetSums(f, S)[S]

IsSetSums(sum, f, S) ==
  /\ sum \in [SUBSET S -> Int]
  /\ sum[{}] = 0
  /\ \A s \in SUBSET S :
       s # {} => sum[s] = f[Pick(s)] + sum[s \ {Pick(s)}]

\* What is picked is an element, and one element fewer is left.
LEMMA Picked ==
  ASSUME NEW S, IsFiniteSet(S), NEW s \in SUBSET S, s # {}
  PROVE  /\ Pick(s) \in s /\ Pick(s) \in S
         /\ s \ {Pick(s)} \in SUBSET S
         /\ Cardinality(s) \in Nat /\ Cardinality(s) # 0
         /\ Cardinality(s \ {Pick(s)}) = Cardinality(s) - 1
<1>1. Pick(s) \in s
  BY DEF Pick
<1>2. IsFiniteSet(s)
  BY FS_Subset
<1>3. Cardinality(s) \in Nat /\ Cardinality(s) # 0
  BY <1>2, FS_CardinalityType, FS_EmptySet
<1>4. Cardinality(s \ {Pick(s)}) = Cardinality(s) - 1
  BY <1>1, <1>2, FS_RemoveElement
<1>5. QED BY <1>1, <1>3, <1>4

\* A collection of subsets that has {}, and every set whose rest it has, has
\* them all.
LEMMA SubsetInduction ==
  ASSUME NEW S, IsFiniteSet(S), NEW G, {} \in G,
         \A s \in SUBSET S : s # {} /\ s \ {Pick(s)} \in G => s \in G
  PROVE  \A s \in SUBSET S : s \in G
<1> DEFINE T == {n \in Nat : \A s \in SUBSET S : Cardinality(s) = n => s \in G}
<1>1. 0 \in T
  <2> SUFFICES ASSUME NEW s \in SUBSET S, Cardinality(s) = 0 PROVE s \in G
    OBVIOUS
  <2>1. s = {}
    BY Picked
  <2>2. QED BY <2>1
<1>2. ASSUME NEW n \in Nat, n \in T PROVE n + 1 \in T
  <2> SUFFICES ASSUME NEW s \in SUBSET S, Cardinality(s) = n + 1
               PROVE  s \in G
    OBVIOUS
  <2>1. CASE s = {}
    BY <2>1
  <2>2. CASE s # {}
    <3>1. s \ {Pick(s)} \in SUBSET S /\ Cardinality(s \ {Pick(s)}) = n
      BY <2>2, Picked
    <3>2. s \ {Pick(s)} \in G
      BY <1>2, <3>1
    <3>3. QED BY <2>2, <3>2
  <2>3. QED BY <2>1, <2>2
<1> HIDE DEF T
<1>3. \A n \in Nat : n \in T
  BY <1>1, <1>2, SetInduction
<1>4. \A s \in SUBSET S : Cardinality(s) \in Nat
  BY FS_Subset, FS_CardinalityType
<1>5. QED BY <1>3, <1>4 DEF T

LEMMA SetSumsExist ==
  ASSUME NEW S, IsFiniteSet(S), NEW f, \A y \in S : f[y] \in Int
  PROVE  \E sum : IsSetSums(sum, f, S)
<1> DEFINE Good(sum, n) ==
             /\ sum \in [SUBSET S -> Int]
             /\ sum[{}] = 0
             /\ \A s \in SUBSET S :
                  s # {} /\ Cardinality(s) <= n =>
                    sum[s] = f[Pick(s)] + sum[s \ {Pick(s)}]
           T == {n \in Nat : \E sum : Good(sum, n)}
<1>1. 0 \in T
  <2>1. \A s \in SUBSET S :
          s # {} => Cardinality(s) \in Nat /\ Cardinality(s) # 0
    BY Picked
  <2>2. \A s \in SUBSET S : ~(s # {} /\ Cardinality(s) <= 0)
    BY <2>1
  <2>3. Good([s \in SUBSET S |-> 0], 0)
    BY <2>2
  <2>4. QED BY <2>3
<1>2. ASSUME NEW n \in Nat, n \in T PROVE n + 1 \in T
  <2>1. PICK sum : Good(sum, n)
    BY <1>2
  <2> DEFINE r == [s \in SUBSET S |->
                     IF Cardinality(s) = n + 1
                       THEN f[Pick(s)] + sum[s \ {Pick(s)}] ELSE sum[s]]
  <2>2. Cardinality({}) = 0 /\ {} \in SUBSET S
    BY FS_EmptySet
  <2>3. r[{}] = 0
    BY <2>1, <2>2
  <2>4. ASSUME NEW s \in SUBSET S PROVE r[s] \in Int
    <3>1. CASE Cardinality(s) = n + 1
      <4>1. s # {}
        <5>1. Cardinality(s) # Cardinality({})
          BY <2>2, <3>1
        <5>2. QED BY <5>1
      <4>2. Pick(s) \in S /\ s \ {Pick(s)} \in SUBSET S
        BY <4>1, Picked
      <4>3. f[Pick(s)] \in Int
        BY <4>2
      <4>4. sum[s \ {Pick(s)}] \in Int
        BY <4>2, <2>1
      <4>5. QED BY <3>1, <4>3, <4>4
    <3>2. CASE Cardinality(s) # n + 1
      BY <2>1, <3>2
    <3>3. QED BY <3>1, <3>2
  <2>5. ASSUME NEW s \in SUBSET S, s # {}, Cardinality(s) <= n + 1
        PROVE  r[s] = f[Pick(s)] + r[s \ {Pick(s)}]
    <3>1. /\ s \ {Pick(s)} \in SUBSET S /\ Cardinality(s) \in Nat
          /\ Cardinality(s \ {Pick(s)}) = Cardinality(s) - 1
      BY <2>5, Picked
    <3>2. r[s \ {Pick(s)}] = sum[s \ {Pick(s)}]
      BY <3>1, <2>5
    <3>3. CASE Cardinality(s) = n + 1
      BY <3>2, <3>3
    <3>4. CASE Cardinality(s) # n + 1
      <4>1. Cardinality(s) <= n
        BY <2>5, <3>1, <3>4
      <4>2. sum[s] = f[Pick(s)] + sum[s \ {Pick(s)}]
        BY <2>1, <2>5, <4>1
      <4>3. r[s] = sum[s]
        BY <3>4
      <4>4. QED BY <3>2, <4>2, <4>3
    <3>5. QED BY <3>3, <3>4
  <2> HIDE DEF r
  <2>6. r \in [SUBSET S -> Int]
    BY <2>4 DEF r
  <2>7. Good(r, n + 1)
    BY <2>3, <2>5, <2>6
  <2>8. QED BY <2>7
<1> HIDE DEF T
<1>3. Cardinality(S) \in T
  BY <1>1, <1>2, SetInduction, FS_CardinalityType
<1>4. PICK sum : Good(sum, Cardinality(S))
  BY <1>3 DEF T
<1>5. \A s \in SUBSET S : Cardinality(s) <= Cardinality(S)
  BY FS_Subset
<1>6. IsSetSums(sum, f, S)
  BY <1>4, <1>5 DEF IsSetSums
<1>7. QED BY <1>6

LEMMA SetSumsAre ==
  ASSUME NEW S, IsFiniteSet(S), NEW f, \A y \in S : f[y] \in Int
  PROVE  IsSetSums(SetSums(f, S), f, S)
<1> DEFINE Eq(sum) == sum = [s \in SUBSET S |->
                               IF s = {} THEN 0
                               ELSE f[Pick(s)] + sum[s \ {Pick(s)}]]
           it == SetSums(f, S)
           G == {s \in SUBSET S : it[s] \in Int}
<1>1. PICK sum : IsSetSums(sum, f, S)
  BY SetSumsExist
<1>2. Eq(sum)
  BY <1>1 DEF IsSetSums
<1>3. Eq(it)
  BY <1>2 DEF SetSums
<1> HIDE DEF it
<1>4. it[{}] = 0
  BY <1>3
<1>5. \A s \in SUBSET S : s # {} => it[s] = f[Pick(s)] + it[s \ {Pick(s)}]
  BY <1>3
<1>6. {} \in G
  BY <1>4
<1>7. ASSUME NEW s \in SUBSET S, s # {}, s \ {Pick(s)} \in G PROVE s \in G
  <2>1. Pick(s) \in S
    BY <1>7, Picked
  <2>2. f[Pick(s)] \in Int /\ it[s \ {Pick(s)}] \in Int
    BY <1>7, <2>1
  <2>3. it[s] = f[Pick(s)] + it[s \ {Pick(s)}]
    BY <1>5, <1>7
  <2>4. it[s] \in Int
    BY <2>2, <2>3
  <2>5. QED BY <2>4
<1> HIDE DEF G
<1>8. \A s \in SUBSET S : s \in G
  BY <1>6, <1>7, SubsetInduction
<1>9. it \in [SUBSET S -> Int]
  BY <1>3, <1>8 DEF G
<1>10. QED BY <1>4, <1>5, <1>9 DEF IsSetSums, it

\* Two functions that differ by d at x alone have sums that differ by d.
LEMMA SetSumDiffers ==
  ASSUME NEW S, IsFiniteSet(S), NEW f, \A y \in S : f[y] \in Int, NEW g, \A y \in S : g[y] \in Int,
         NEW x \in S, NEW d \in Int,
         \A y \in S : g[y] = IF y = x THEN f[y] + d ELSE f[y]
  PROVE  SetSum(g, S) = SetSum(f, S) + d
<1> DEFINE F == SetSums(f, S)
           H == SetSums(g, S)
           G == {s \in SUBSET S : H[s] = IF x \in s THEN F[s] + d ELSE F[s]}
<1>1. IsSetSums(F, f, S) /\ IsSetSums(H, g, S)
  BY SetSumsAre
<1> HIDE DEF F, H
<1>2. {} \in G
  BY <1>1 DEF IsSetSums
<1>3. ASSUME NEW s \in SUBSET S, s # {}, s \ {Pick(s)} \in G PROVE s \in G
  <2> DEFINE y == Pick(s)
             t == s \ {Pick(s)}
  <2>1. y \in s /\ y \in S /\ t \in SUBSET S
    BY <1>3, Picked
  <2>2. F[s] = f[y] + F[t] /\ H[s] = g[y] + H[t]
    BY <1>1, <1>3 DEF IsSetSums
  <2>3. F[t] \in Int /\ H[t] \in Int /\ f[y] \in Int /\ g[y] \in Int
    BY <1>1, <2>1 DEF IsSetSums
  <2>4. H[t] = IF x \in t THEN F[t] + d ELSE F[t]
    BY <1>3
  <2>5. g[y] = IF y = x THEN f[y] + d ELSE f[y]
    BY <2>1
  <2>6. x \in s <=> x = y \/ x \in t
    BY <2>1
  <2>7. x = y => x \notin t
    OBVIOUS
  <2> HIDE DEF y, t
  <2>8. H[s] = IF x \in s THEN F[s] + d ELSE F[s]
    <3>1. CASE x = y
      BY <3>1, <2>2, <2>3, <2>4, <2>5, <2>6, <2>7
    <3>2. CASE x # y
      BY <3>2, <2>2, <2>3, <2>4, <2>5, <2>6
    <3>3. QED BY <3>1, <3>2
  <2>9. QED BY <2>8
<1> HIDE DEF G
<1>4. S \in G
  BY <1>2, <1>3, SubsetInduction
<1>5. QED BY <1>4 DEF G, F, H, SetSum

\* A sum is an integer, and no smaller than that of a smaller function.
LEMMA SetSumOrder ==
  ASSUME NEW S, IsFiniteSet(S), NEW f, \A y \in S : f[y] \in Int, NEW g, \A y \in S : g[y] \in Int,
         \A y \in S : f[y] <= g[y]
  PROVE  /\ SetSum(f, S) \in Int /\ SetSum(g, S) \in Int
         /\ SetSum(f, S) <= SetSum(g, S)
<1> DEFINE F == SetSums(f, S)
           H == SetSums(g, S)
           G == {s \in SUBSET S : F[s] <= H[s]}
<1>1. IsSetSums(F, f, S) /\ IsSetSums(H, g, S)
  BY SetSumsAre
<1> HIDE DEF F, H
<1>2. {} \in G
  BY <1>1 DEF IsSetSums
<1>3. ASSUME NEW s \in SUBSET S, s # {}, s \ {Pick(s)} \in G PROVE s \in G
  <2> DEFINE y == Pick(s)
             t == s \ {Pick(s)}
  <2>1. y \in S /\ t \in SUBSET S
    BY <1>3, Picked
  <2>2. F[s] = f[y] + F[t] /\ H[s] = g[y] + H[t]
    BY <1>1, <1>3 DEF IsSetSums
  <2>3. F[t] \in Int /\ H[t] \in Int /\ f[y] \in Int /\ g[y] \in Int
    BY <1>1, <2>1 DEF IsSetSums
  <2>4. F[t] <= H[t] /\ f[y] <= g[y]
    BY <1>3, <2>1
  <2> HIDE DEF y, t
  <2>5. F[s] <= H[s]
    BY <2>2, <2>3, <2>4
  <2>6. QED BY <2>5
<1> HIDE DEF G
<1>4. S \in G
  BY <1>2, <1>3, SubsetInduction
<1>5. F[S] \in Int /\ H[S] \in Int
  BY <1>1 DEF IsSetSums
<1>6. QED BY <1>4, <1>5 DEF G, F, H, SetSum

\* The sum of two functions adds up to the sum of their sums.
LEMMA SetSumAdds ==
  ASSUME NEW S, IsFiniteSet(S), NEW f, \A y \in S : f[y] \in Int, NEW g, \A y \in S : g[y] \in Int,
         NEW h, \A y \in S : h[y] \in Int, \A y \in S : h[y] = f[y] + g[y]
  PROVE  SetSum(h, S) = SetSum(f, S) + SetSum(g, S)
<1> DEFINE F == SetSums(f, S)
           H == SetSums(g, S)
           K == SetSums(h, S)
           G == {s \in SUBSET S : K[s] = F[s] + H[s]}
<1>1. IsSetSums(F, f, S) /\ IsSetSums(H, g, S) /\ IsSetSums(K, h, S)
  BY SetSumsAre
<1> HIDE DEF F, H, K
<1>2. {} \in G
  BY <1>1 DEF IsSetSums
<1>3. ASSUME NEW s \in SUBSET S, s # {}, s \ {Pick(s)} \in G PROVE s \in G
  <2> DEFINE y == Pick(s)
             t == s \ {Pick(s)}
  <2>1. y \in S /\ t \in SUBSET S
    BY <1>3, Picked
  <2>2. /\ F[s] = f[y] + F[t] /\ H[s] = g[y] + H[t]
        /\ K[s] = h[y] + K[t]
    BY <1>1, <1>3 DEF IsSetSums
  <2>3. F[t] \in Int /\ H[t] \in Int /\ f[y] \in Int /\ g[y] \in Int
    BY <1>1, <2>1 DEF IsSetSums
  <2>4. K[t] = F[t] + H[t] /\ h[y] = f[y] + g[y]
    BY <1>3, <2>1
  <2> HIDE DEF y, t
  <2>5. K[s] = F[s] + H[s]
    BY <2>2, <2>3, <2>4
  <2>6. QED BY <2>5
<1> HIDE DEF G
<1>4. S \in G
  BY <1>2, <1>3, SubsetInduction
<1>5. QED BY <1>4 DEF G, F, H, K, SetSum

\* Nothing adds up to nothing.
LEMMA SetSumOfZero ==
  ASSUME NEW S, IsFiniteSet(S), NEW f, \A y \in S : f[y] \in Int, \A y \in S : f[y] = 0
  PROVE  SetSum(f, S) = 0
<1> DEFINE F == SetSums(f, S)
           G == {s \in SUBSET S : F[s] = 0}
<1>1. IsSetSums(F, f, S)
  BY SetSumsAre
<1> HIDE DEF F
<1>2. {} \in G
  BY <1>1 DEF IsSetSums
<1>3. ASSUME NEW s \in SUBSET S, s # {}, s \ {Pick(s)} \in G PROVE s \in G
  <2>1. Pick(s) \in S
    BY <1>3, Picked
  <2>2. F[s] = f[Pick(s)] + F[s \ {Pick(s)}]
    BY <1>1, <1>3 DEF IsSetSums
  <2>3. QED BY <1>3, <2>1, <2>2
<1> HIDE DEF G
<1>4. S \in G
  BY <1>2, <1>3, SubsetInduction
<1>5. QED BY <1>4 DEF G, F, SetSum

\* The order in which elements are picked does not matter: any may come first.
LEMMA SetSumsTake ==
  ASSUME NEW S, IsFiniteSet(S), NEW f, \A y \in S : f[y] \in Int,
         NEW F, IsSetSums(F, f, S)
  PROVE  \A s \in SUBSET S : \A x \in s : F[s] = f[x] + F[s \ {x}]
<1> DEFINE Good(s) == \A x \in s : F[s] = f[x] + F[s \ {x}]
           T == {n \in Nat : \A s \in SUBSET S : Cardinality(s) = n => Good(s)}
<1>1. 0 \in T
  <2> SUFFICES ASSUME NEW s \in SUBSET S, Cardinality(s) = 0 PROVE Good(s)
    OBVIOUS
  <2>1. s = {}
    BY Picked
  <2>2. QED BY <2>1
<1>2. ASSUME NEW n \in Nat, n \in T PROVE n + 1 \in T
  <2> SUFFICES ASSUME NEW s \in SUBSET S, Cardinality(s) = n + 1, NEW x \in s
               PROVE  F[s] = f[x] + F[s \ {x}]
    OBVIOUS
  <2> DEFINE p == Pick(s)
  <2>1. /\ p \in s /\ s \ {p} \in SUBSET S /\ Cardinality(s \ {p}) = n
        /\ F[s] = f[p] + F[s \ {p}]
    <3>1. s # {}
      OBVIOUS
    <3>2. p \in s /\ s \ {p} \in SUBSET S /\ Cardinality(s \ {p}) = Cardinality(s) - 1
      BY <3>1, Picked
    <3>3. F[s] = f[p] + F[s \ {p}]
      BY <3>1 DEF IsSetSums
    <3>4. QED BY <3>2, <3>3
  <2>2. s \ {x} \in SUBSET S /\ Cardinality(s \ {x}) = n
    <3>1. IsFiniteSet(s)
      BY FS_Subset
    <3>2. Cardinality(s \ {x}) = Cardinality(s) - 1
      BY <3>1, FS_RemoveElement
    <3>3. QED BY <3>2
  <2> HIDE DEF p
  <2>3. CASE x = p
    BY <2>1, <2>3
  <2>4. CASE x # p
    <3>1. Good(s \ {p}) /\ Good(s \ {x})
      BY <1>2, <2>1, <2>2
    <3> DEFINE u == (s \ {p}) \ {x}
    <3>2. x \in s \ {p} /\ p \in s \ {x} /\ (s \ {x}) \ {p} = u /\ u \in SUBSET S
      BY <2>1, <2>4
    <3>3. F[s \ {p}] = f[x] + F[u]
      BY <3>1, <3>2
    <3>4. F[s \ {x}] = f[p] + F[u]
      BY <3>1, <3>2
    <3>5. F[u] \in Int
      BY <3>2 DEF IsSetSums
    <3> HIDE DEF u
    <3>6. f[x] \in Int /\ f[p] \in Int
      BY <2>1
    <3>7. QED BY <2>1, <3>3, <3>4, <3>5, <3>6
  <2>5. QED BY <2>3, <2>4
<1> HIDE DEF T
<1>3. \A n \in Nat : n \in T
  BY <1>1, <1>2, SetInduction
<1>4. \A s \in SUBSET S : Cardinality(s) \in Nat
  BY FS_Subset, FS_CardinalityType
<1>5. QED BY <1>3, <1>4 DEF T

\* A sum over some elements of S is the sum over S that counts the others zero.
LEMMA SetSumRestricts ==
  ASSUME NEW S, IsFiniteSet(S), NEW T \in SUBSET S,
         NEW f, \A y \in S : f[y] \in Int, NEW g, \A y \in S : g[y] \in Int,
         \A y \in S : g[y] = IF y \in T THEN f[y] ELSE 0
  PROVE  SetSum(f, T) = SetSum(g, S)
<1> DEFINE F == SetSums(f, T)
           H == SetSums(g, S)
           G == {s \in SUBSET S : H[s] = F[s \cap T]}
<1>1. IsFiniteSet(T) /\ \A y \in T : f[y] \in Int
  BY FS_Subset
<1>2. IsSetSums(F, f, T) /\ IsSetSums(H, g, S)
  BY <1>1, SetSumsAre
<1> HIDE DEF F, H
<1>3. \A s \in SUBSET T : \A x \in s : F[s] = f[x] + F[s \ {x}]
  <2>1. IsFiniteSet(T)
    BY <1>1
  <2>2. \A y \in T : f[y] \in Int
    OBVIOUS
  <2>3. IsSetSums(F, f, T)
    BY <1>2
  <2> SUFFICES ASSUME NEW s \in SUBSET T, NEW x \in s
               PROVE  F[s] = f[x] + F[s \ {x}]
    OBVIOUS
  <2>4. QED BY <2>1, <2>2, <2>3, SetSumsTake
<1>4. {} \in G
  BY <1>2 DEF IsSetSums
<1>5. ASSUME NEW s \in SUBSET S, s # {}, s \ {Pick(s)} \in G PROVE s \in G
  <2> DEFINE p == Pick(s)
  <2>1. p \in s /\ p \in S /\ H[s] = g[p] + H[s \ {p}]
    BY <1>2, <1>5, Picked DEF IsSetSums
  <2>2. H[s \ {p}] = F[(s \ {p}) \cap T] /\ (s \ {p}) \cap T \in SUBSET T
    BY <1>5
  <2>3. F[(s \ {p}) \cap T] \in Int
    BY <1>2, <2>2 DEF IsSetSums
  <2> HIDE DEF p
  <2>4. CASE p \in T
    <3>1. p \in s \cap T /\ (s \cap T) \ {p} = (s \ {p}) \cap T
      BY <2>1, <2>4
    <3>2. F[s \cap T] = f[p] + F[(s \cap T) \ {p}]
      BY <1>3, <3>1
    <3>3. QED BY <2>1, <2>2, <2>4, <3>1, <3>2
  <2>5. CASE p \notin T
    <3>1. s \cap T = (s \ {p}) \cap T /\ g[p] = 0
      BY <2>1, <2>5
    <3>2. H[s \ {p}] \in Int /\ H[s] = 0 + H[s \ {p}]
      BY <2>1, <2>2, <2>3, <3>1
    <3>3. H[s] = H[s \ {p}]
      BY <3>2
    <3>4. F[s \cap T] = F[(s \ {p}) \cap T]
      BY <3>1
    <3>5. QED BY <2>2, <3>3, <3>4
  <2>6. QED BY <2>4, <2>5
<1> HIDE DEF G
<1>6. S \in G
  BY <1>4, <1>5, SubsetInduction
<1>7. S \cap T = T
  OBVIOUS
<1>8. QED BY <1>6, <1>7 DEF G, F, H, SetSum

\* A finite set of naturals that is not empty has a largest element.
LEMMA MaxIsLargest ==
  ASSUME NEW S, IsFiniteSet(S), S # {}, S \subseteq Nat
  PROVE  Max(S) \in S /\ \A x \in S : x <= Max(S)
<1> DEFINE G == {s \in SUBSET S : \E n \in Nat : \A x \in s : x <= n}
<1>1. {} \in G
  OBVIOUS
<1>2. ASSUME NEW s \in SUBSET S, s # {}, s \ {Pick(s)} \in G PROVE s \in G
  <2>1. Pick(s) \in s /\ Pick(s) \in Nat
    BY <1>2 DEF Pick
  <2>2. PICK n \in Nat : \A x \in s \ {Pick(s)} : x <= n
    BY <1>2
  <2> DEFINE k == n + Pick(s)
  <2>3. k \in Nat /\ \A x \in s : x \in Nat
    BY <2>1
  <2>4. \A x \in s : x <= k
    BY <2>1, <2>2, <2>3
  <2>5. QED BY <2>3, <2>4
<1> HIDE DEF G
<1>3. S \in G
  BY <1>1, <1>2, SubsetInduction
<1>4. PICK n \in Nat : \A x \in S : x <= n
  BY <1>3 DEF G
<1>5. S \subseteq 0..n
  BY <1>4
<1>6. QED BY <1>5, LargestNat

\* What a function makes of a finite set is finite.
LEMMA FiniteImage ==
  ASSUME NEW S, IsFiniteSet(S), NEW f
  PROVE  IsFiniteSet({f[x] : x \in S})
<1> DEFINE g == [x \in S |-> f[x]]
           T == {f[x] : x \in S}
<1>1. g \in Surjection(S, T)
  BY DEF Surjection
<1>2. QED BY <1>1, FS_Surjection

\* The union of finitely many finite sets is finite.
LEMMA FiniteUnion ==
  ASSUME NEW S, IsFiniteSet(S), NEW f, \A x \in S : IsFiniteSet(f[x])
  PROVE  IsFiniteSet(UNION {f[x] : x \in S})
<1>1. IsFiniteSet({f[x] : x \in S})
  BY FiniteImage
<1>2. QED BY <1>1, FS_UNION
=============================================================================
