----------------------------- MODULE BookProofs -----------------------------
(***************************************************************************)
(* The three books of MCResearch, for every value of its constants: any    *)
(* funds, contracts, prices, calendars, targets and limits.  The store,    *)
(* the signals and the replays are in ResearchProofs; an invariant of each *)
(* book carries over to the suite as it does there.                        *)
(*                                                                         *)
(* A journal is a sequence of rows of known kinds.  RowSum adds up one     *)
(* field of the rows of one kind, and a booking appends rows and changes   *)
(* the book by what they say, so that book and journal keep in step.       *)
(***************************************************************************)
EXTENDS ResearchProofs

-----------------------------------------------------------------------------
(* Folds over a sequence, as the community modules define them: the element*)
(* with the largest index is taken off last.                               *)

LEMMA PrefixSets ==
  ASSUME NEW n \in Nat, NEW s, s \subseteq 1..(n + 1)
  PROVE  /\ n + 1 \in s => s # {} /\ Max(s) = n + 1 /\ s \ {n + 1} \subseteq 1..n
         /\ n + 1 \notin s => s \subseteq 1..n
<1>1. ASSUME n + 1 \in s PROVE Max(s) = n + 1
  <2>1. \A x \in s : n + 1 >= x
    OBVIOUS
  <2>2. \A m \in s : (\A x \in s : m >= x) => m = n + 1
    BY <1>1
  <2>3. QED BY <1>1, <2>1, <2>2 DEF Max
<1>2. QED BY <1>1

\* A function on the sets of indices that folds G.
Folding(it, N, A, first, G) ==
  /\ it \in [SUBSET (1..N) -> A]
  /\ \A s \in SUBSET (1..N) : it[s] = IF s = {} THEN first ELSE G[<<it[s \ {Max(s)}], Max(s)>>]

LEMMA FoldIterates ==
  ASSUME NEW N \in Nat, NEW A, NEW first \in A, NEW G \in [A \X (1..N) -> A]
  PROVE  \E it : Folding(it, N, A, first, G)
<1> DEFINE Good(it, n) ==
             /\ it \in [SUBSET (1..n) -> A]
             /\ \A s \in SUBSET (1..n) : it[s] = IF s = {} THEN first ELSE G[<<it[s \ {Max(s)}], Max(s)>>]
           T == {n \in Nat : n <= N => \E it : Good(it, n)}
<1>1. 0 \in T
  <2> DEFINE it == [s \in SUBSET (1..0) |-> first]
  <2>1. \A s \in SUBSET (1..0) : s = {}
    OBVIOUS
  <2>2. Good(it, 0)
    BY <2>1
  <2>3. QED BY <2>2
<1>2. ASSUME NEW n \in Nat, n \in T PROVE n + 1 \in T
  <2> HIDE DEF Good
  <2> SUFFICES ASSUME n + 1 <= N PROVE \E it : Good(it, n + 1)
    OBVIOUS
  <2>1. PICK v : Good(v, n)
    BY <1>2
  <2> USE DEF Good
  <2> DEFINE it == [s \in SUBSET (1..(n + 1)) |-> IF n + 1 \in s THEN G[<<v[s \ {n + 1}], n + 1>>] ELSE v[s]]
  <2>2. ASSUME NEW s \in SUBSET (1..(n + 1)), n + 1 \in s
        PROVE  /\ it[s] = G[<<it[s \ {Max(s)}], Max(s)>>] /\ it[s] \in A /\ s # {}
    <3>1. Max(s) = n + 1 /\ s \ {n + 1} \in SUBSET (1..n) /\ s \ {n + 1} \in SUBSET (1..(n + 1)) /\ n + 1 \in 1..N
      <4>1. Max(s) = n + 1 /\ s \ {n + 1} \subseteq 1..n
        BY <2>2, PrefixSets
      <4>2. 1..n \subseteq 1..(n + 1) /\ n + 1 \in 1..N
        OBVIOUS
      <4>3. QED BY <4>1, <4>2
    <3>2. it[s \ {n + 1}] = v[s \ {n + 1}] /\ v[s \ {n + 1}] \in A
      BY <2>1, <3>1
    <3>3. it[s] = G[<<v[s \ {n + 1}], n + 1>>]
      BY <2>2
    <3>4. QED BY <2>2, <3>1, <3>2, <3>3
  <2>3. ASSUME NEW s \in SUBSET (1..(n + 1)), n + 1 \notin s
        PROVE  it[s] = (IF s = {} THEN first ELSE G[<<it[s \ {Max(s)}], Max(s)>>]) /\ it[s] \in A
    BY <2>3, PrefixSets, <2>1
  <2> HIDE DEF it
  <2>4. it \in [SUBSET (1..(n + 1)) -> A]
    BY <2>2, <2>3 DEF it
  <2>5. Good(it, n + 1)
    BY <2>2, <2>3, <2>4
  <2>6. QED BY <2>5
<1> HIDE DEF T, Good
<1>3. \A n \in Nat : n \in T
  BY <1>1, <1>2, SetInduction
<1>4. PICK it : Good(it, N)
  BY <1>3 DEF T
<1>5. QED BY <1>4 DEF Good, Folding

\* A function that folds in this way walks along the indices.
IsFold(it, N, onward, first) ==
  \A s \in SUBSET (1..N) : it[s] = IF s = {} THEN first ELSE onward[s]

\* Its values at the prefixes, each from the one before.
FoldWalks(it, N, onward, first) ==
  /\ it[1..0] = first /\ 1..N \in SUBSET (1..N)
  /\ \A i \in 1..N : it[1..i] = onward[1..i] /\ 1..i \in SUBSET (1..N) /\ Max(1..i) = i /\ (1..i) \ {i} = 1..(i - 1)

LEMMA FoldWalk ==
  ASSUME NEW N \in Nat, NEW it, NEW onward, NEW first, IsFold(it, N, onward, first)
  PROVE  FoldWalks(it, N, onward, first)
<1>1. it[1..0] = first
  BY DEF IsFold
<1>2. ASSUME NEW i \in 1..N PROVE it[1..i] = onward[1..i] /\ 1..i \in SUBSET (1..N) /\ Max(1..i) = i /\ (1..i) \ {i} = 1..(i - 1)
  <2>1. 1..i \in SUBSET (1..N) /\ 1..i # {}
    OBVIOUS
  <2>2. Max(1..i) = i
    <3>1. i - 1 \in Nat /\ (i - 1) + 1 = i /\ i \in 1..i
      OBVIOUS
    <3>2. QED BY <3>1, PrefixSets
  <2>3. (1..i) \ {i} = 1..(i - 1)
    OBVIOUS
  <2>4. QED BY <2>1, <2>2, <2>3 DEF IsFold
<1>3. QED BY <1>1, <1>2 DEF FoldWalks

\* The order of a finite set has each of its elements, once.
LEMMA OrderOf ==
  ASSUME NEW S, IsFiniteSet(S)
  PROVE  /\ SetToSeq(S) \in Seq(S) /\ Len(SetToSeq(S)) = Cardinality(S)
         /\ \A i, j \in 1..Cardinality(S) : SetToSeq(S)[i] = SetToSeq(S)[j] => i = j
         /\ \A x \in S : \E i \in 1..Cardinality(S) : SetToSeq(S)[i] = x
<1> DEFINE n == Cardinality(S)
           o == SetToSeq(S)
<1>1. n \in Nat /\ ExistsBijection(1..n, S)
  BY FS_CardinalityType
<1>2. \E f \in [1..n -> S] : IsInjective(f)
  BY <1>1 DEF ExistsBijection, Bijection, Injection
<1>3. o \in [1..n -> S] /\ IsInjective(o)
  BY <1>2 DEF SetToSeq
<1>4. o \in Injection(1..n, S)
  BY <1>3 DEF Injection
<1>5. IsFiniteSet(1..n) /\ Cardinality(1..n) = n
  BY <1>1, FS_Interval
<1> HIDE DEF o
<1>6. o \in Surjection(1..n, S)
  BY <1>4, <1>5, FS_Injection
<1>7. \A x \in S : \E i \in 1..n : o[i] = x
  BY <1>6 DEF Surjection
<1>8. o \in Seq(S) /\ Len(o) = n
  BY <1>1, <1>3
<1>9. \A i, j \in 1..n : o[i] = o[j] => i = j
  BY <1>3 DEF IsInjective
<1>10. QED BY <1>7, <1>8, <1>9 DEF o

LEMMA LargestIndex == \A n \in Nat : \A s \in SUBSET (1..n) : s # {} => Max(s) \in s
<1> DEFINE T == {n \in Nat : \A s \in SUBSET (1..n) : s # {} => Max(s) \in s}
<1>1. 0 \in T
  <2>1. \A s \in SUBSET (1..0) : s = {}
    OBVIOUS
  <2>2. QED BY <2>1
<1>2. ASSUME NEW n \in Nat, n \in T PROVE n + 1 \in T
  <2> SUFFICES ASSUME NEW s \in SUBSET (1..(n + 1)), s # {} PROVE Max(s) \in s
    OBVIOUS
  <2>1. CASE n + 1 \in s
    BY <2>1, PrefixSets
  <2>2. CASE n + 1 \notin s
    BY <1>2, <2>2, PrefixSets
  <2>3. QED BY <2>1, <2>2
<1> HIDE DEF T
<1>3. \A n \in Nat : n \in T
  BY <1>1, <1>2, SetInduction
<1>4. QED BY <1>3 DEF T

-----------------------------------------------------------------------------
(* What the rows of a journal add up to: those in R, each at its weight.   *)

RowsIn(s, R) == {j \in DOMAIN s : s[j] \in R}
Weighed(s, R, w) == [i \in RowsIn(s, R) |-> w[s[i]]]
RowSum(s, R, w) == SumFunction(Weighed(s, R, w))

LEMMA RowSumType ==
  ASSUME NEW T, NEW s \in Seq(T), NEW R, NEW w \in [T -> Int]
  PROVE  /\ Summable(Weighed(s, R, w), RowsIn(s, R))
         /\ RowSum(s, R, w) \in Int
         /\ s = <<>> => RowSum(s, R, w) = 0
<1> DEFINE D == RowsIn(s, R)
           f == Weighed(s, R, w)
<1>1. D \in SUBSET (1..Len(s)) /\ Len(s) \in Nat /\ \A i \in D : s[i] \in T
  BY LenProperties, ElementOfSeq DEF RowsIn
<1>2. IsFiniteSet(D)
  <2>1. IsFiniteSet(1..Len(s))
    BY <1>1, FS_Interval
  <2>2. QED BY <1>1, <2>1, FS_Subset
<1>3. DOMAIN f = D /\ \A i \in D : f[i] \in Int
  BY <1>1 DEF Weighed
<1> HIDE DEF f, D
<1>4. Summable(f, D)
  BY <1>2, <1>3 DEF Summable
<1>5. SumFunction(f) \in Int /\ ((\A y \in D : f[y] = 0) => SumFunction(f) = 0)
  BY <1>4, SumsAreInt
<1>6. s = <<>> => D = {}
  BY DEF D, RowsIn
<1>7. QED BY <1>4, <1>5, <1>6 DEF f, D, RowSum

LEMMA RowSumAppend ==
  ASSUME NEW T, NEW s \in Seq(T), NEW e \in T, NEW R, NEW w \in [T -> Int]
  PROVE  RowSum(Append(s, e), R, w) = RowSum(s, R, w) + (IF e \in R THEN w[e] ELSE 0)
<1> DEFINE t == Append(s, e)
           n == Len(s) + 1
           D == RowsIn(s, R)
           E == RowsIn(t, R)
           f == Weighed(s, R, w)
           g == Weighed(t, R, w)
<1>1. /\ t \in Seq(T) /\ Len(t) = n /\ t[n] = e /\ \A i \in 1..Len(s) : t[i] = s[i]
      /\ DOMAIN s = 1..Len(s) /\ DOMAIN t = 1..n /\ Len(s) \in Nat /\ n \in Nat /\ n \notin 1..Len(s)
  BY AppendProperties, LenProperties
<1>2. Summable(f, D) /\ Summable(g, E) /\ RowSum(s, R, w) = SumFunction(f) /\ RowSum(t, R, w) = SumFunction(g)
  <2>1. Summable(f, D)
    BY RowSumType
  <2>2. Summable(g, E)
    <3> HIDE DEF t
    <3>1. QED BY <1>1, RowSumType
  <2>3. QED BY <2>1, <2>2 DEF RowSum
<1>3. D \subseteq E /\ n \notin D /\ E \subseteq D \cup {n} /\ (n \in E <=> e \in R) /\ \A i \in D : g[i] = f[i]
  BY <1>1 DEF RowsIn, Weighed
<1>4. n \in E => g[n] = w[e]
  BY <1>1 DEF RowsIn, Weighed
<1> HIDE DEF D, E, f, g, t, n
<1>5. CASE e \in R
  <2>1. E = D \cup {n} /\ w[e] \in Int /\ DOMAIN g = E
    BY <1>2, <1>3, <1>5 DEF Summable
  <2>2. Grown(g, f, D, n)
    BY <1>3, <1>4, <2>1 DEF Grown
  <2>3. SumFunction(g) = SumFunction(f) + g[n]
    BY <1>2, <2>2, SumOfOneMore
  <2>4. QED BY <1>2, <1>3, <1>4, <1>5, <2>1, <2>3 DEF t
<1>6. CASE e \notin R
  <2>1. E = D
    BY <1>3, <1>6
  <2>2. DOMAIN g = D
    BY <1>2, <2>1 DEF Summable
  <2>3. SumFunction(g) = SumFunction(f)
    BY <1>2, <1>3, <2>2, SumOfSame
  <2>4. RowSum(s, R, w) \in Int
    BY RowSumType
  <2>5. QED BY <1>2, <1>6, <2>3, <2>4 DEF t
<1>7. QED BY <1>5, <1>6

-----------------------------------------------------------------------------
(* Sequences with rows more, and what a fold over them reaches.            *)

LEMMA JournalGrows ==
  ASSUME NEW T, NEW s \in Seq(T), NEW t \in Seq(T), NEW e \in T
  PROVE  s \o Append(t, e) = Append(s \o t, e) /\ s \o t \in Seq(T)
BY AppendIsConcat, ConcatProperties, ConcatAssociative

\* A journal with some rows more.
Extends(K, J, P) ==
  /\ \A i \in DOMAIN J : i \in DOMAIN K /\ K[i] = J[i]
  /\ \A k \in DOMAIN P : \E i \in DOMAIN K : K[i] = P[k] /\ i \notin DOMAIN J /\ \A j \in DOMAIN J : j < i
  /\ \A i \in DOMAIN K : i \in DOMAIN J \/ ((\E k \in DOMAIN P : K[i] = P[k]) /\ \A j \in DOMAIN J : j < i)

LEMMA Extended ==
  ASSUME NEW T, NEW J \in Seq(T), NEW P \in Seq(T)
  PROVE  /\ J \o P \in Seq(T) /\ Extends(J \o P, J, P)
         /\ \A i \in DOMAIN J : i \in Int /\ ~(i < i)
<1> DEFINE K == J \o P
           m == Len(J)
           n == Len(P)
<1>1. /\ K \in Seq(T) /\ Len(K) = m + n /\ m \in Nat /\ n \in Nat
      /\ \A i \in 1..(m + n) : K[i] = IF i <= m THEN J[i] ELSE P[i - m]
  BY ConcatProperties, LenProperties
<1>2. DOMAIN J = 1..m /\ DOMAIN P = 1..n /\ DOMAIN K = 1..(m + n)
  BY <1>1, LenProperties
<1> HIDE DEF K, m, n
<1>3. \A i \in DOMAIN J : i \in DOMAIN K /\ K[i] = J[i]
  BY <1>1, <1>2
<1>4. ASSUME NEW k \in DOMAIN P PROVE m + k \in DOMAIN K /\ K[m + k] = P[k] /\ m + k \notin DOMAIN J /\ \A j \in DOMAIN J : j < m + k
  BY <1>2, <1>1
<1>5. ASSUME NEW i \in DOMAIN K, i \notin DOMAIN J PROVE i - m \in DOMAIN P /\ K[i] = P[i - m] /\ \A j \in DOMAIN J : j < i
  BY <1>2, <1>5, <1>1
<1>6. Extends(K, J, P)
  BY <1>3, <1>4, <1>5 DEF Extends
<1>7. \A i \in DOMAIN J : i \in Int /\ ~(i < i)
  BY <1>1, <1>2
<1>8. QED BY <1>1, <1>6, <1>7 DEF K

LEMMA ExtendedByOne ==
  ASSUME NEW T, NEW J \in Seq(T), NEW r \in T
  PROVE  Append(J, r) \in Seq(T) /\ Extends(Append(J, r), J, <<r>>)
<1>1. Append(J, r) = J \o <<r>> /\ <<r>> \in Seq(T)
  BY AppendIsConcat
<1>2. QED BY <1>1, Extended

\* A journal with the row r last.
OneMore(K, J, r, n) ==
  /\ DOMAIN K = DOMAIN J \cup {n} /\ K[n] = r /\ n \notin DOMAIN J /\ ~(n < n)
  /\ \A j \in DOMAIN J : K[j] = J[j] /\ j < n /\ ~(n < j)

LEMMA AppendOne == ASSUME NEW T, NEW J \in Seq(T), NEW r \in T PROVE \E n : OneMore(Append(J, r), J, r, n)
BY AppendProperties, LenProperties DEF OneMore

\* What a fold over the indices ends with.
LEMMA FoldReaches ==
  ASSUME NEW N \in Nat, NEW it, NEW onward, NEW first, FoldWalks(it, N, onward, first), NEW Good, first \in Good[0],
         \A i \in 1..N : it[1..(i - 1)] \in Good[i - 1] => onward[1..i] \in Good[i]
  PROVE  it[1..N] \in Good[N]
<1> DEFINE T == {i \in Nat : i <= N => it[1..i] \in Good[i]}
<1>1. 0 \in T
  BY DEF FoldWalks
<1>2. ASSUME NEW i \in Nat, i \in T PROVE i + 1 \in T
  <2> SUFFICES ASSUME i + 1 <= N PROVE it[1..(i + 1)] \in Good[i + 1]
    OBVIOUS
  <2>1. i + 1 \in 1..N /\ (i + 1) - 1 = i /\ it[1..i] \in Good[i]
    BY <1>2
  <2>2. onward[1..(i + 1)] \in Good[i + 1] /\ it[1..(i + 1)] = onward[1..(i + 1)]
    BY <2>1 DEF FoldWalks
  <2>3. QED BY <2>2
<1> HIDE DEF T
<1>3. \A i \in Nat : i \in T
  BY <1>1, <1>2, SetInduction
<1>4. QED BY <1>3 DEF T

LEMMA MinOfThree ==
  ASSUME NEW x \in Int, NEW y \in Int, NEW z \in Int
  PROVE  Min({x, y, z}) \in Int /\ Min({x, y, z}) <= y
<1> DEFINE m == IF x <= y THEN (IF x <= z THEN x ELSE z) ELSE (IF y <= z THEN y ELSE z)
<1>1. m \in {x, y, z} /\ \A w \in {x, y, z} : m <= w
  OBVIOUS
<1>2. Min({x, y, z}) \in {x, y, z} /\ \A w \in {x, y, z} : Min({x, y, z}) <= w
  BY <1>1 DEF Min
<1>3. QED BY <1>2

-----------------------------------------------------------------------------
(* BenchmarkBook: a control's cash and units are those of its fills, which *)
(* the open target's frozen sells explain and which come in order.         *)

FillRow ==
  [side : {"sell", "buy", "split", "dividend", "payment"}, asset : Assets, quantity : Int, units : Int, cash : Int, target : Nat, attempt : Nat]
OpenTarget ==
  [id : Nat, status : {"prepared", "pending_sells"}, scheduled : Int, attempts : Nat, buys : [Assets -> Int],
   original : [Assets -> Nat], remaining : [Assets -> Nat], budgets : [Assets -> Int]]
DueClaim == [event : Int, asset : Assets, amount : Int, since : Int, due : Int]
ControlDoc ==
  [kind : {"none", "matched", "passive"}, cash : Int, units : [Assets -> Int], initialized : BOOLEAN, appliedAt : Int,
   portfolioAt : Int, receivables : SUBSET DueClaim, target : OpenTarget \cup {NoTarget}]
OpenControl == {b \in ControlDoc : b.target \in OpenTarget}

CashWeights == [r \in FillRow |-> r.cash]
UnitWeights == [r \in FillRow |-> r.units]
RowsOf(a) == {r \in FillRow : r.asset = a}
SellsOf(id, a) == {r \in FillRow : r.side = "sell" /\ r.target = id /\ r.asset = a}

\* What is owed is what the journal's dividends without a payment are of.
DividendsOwed(dues, fills) ==
  /\ IsFiniteSet(dues)
  /\ \A k \in dues : /\ k.event \in DOMAIN fills /\ fills[k.event].side = "dividend" /\ fills[k.event].quantity = k.amount
                       /\ k.amount >= 0 /\ \A i \in DOMAIN fills : ~(fills[i].side = "payment" /\ fills[i].quantity = k.event)
  /\ \A k, l \in dues : k.event = l.event => k = l
  /\ \A i \in DOMAIN fills : fills[i].side = "payment" =>
        /\ fills[i].quantity \in DOMAIN fills /\ fills[i].quantity < i /\ fills[fills[i].quantity].side = "dividend"
        /\ fills[i].cash = fills[fills[i].quantity].quantity
        /\ \A j \in DOMAIN fills : fills[j].side = "payment" /\ fills[j].quantity = fills[i].quantity => j = i
  /\ \A i \in DOMAIN fills : fills[i].side = "dividend" =>
        \/ \E k \in dues : k.event = i
        \/ \E j \in DOMAIN fills : fills[j].side = "payment" /\ fills[j].quantity = i
ControlBooked(b, fills) ==
  /\ fills \in Seq(FillRow)
  /\ b.cash >= 0 /\ b.cash = BenchmarkCash + RowSum(fills, FillRow, CashWeights)
  /\ \A a \in Assets : b.units[a] >= 0 /\ b.units[a] = RowSum(fills, RowsOf(a), UnitWeights)
  /\ DividendsOwed(b.receivables, fills)
SellsFrozen(t, fills) ==
  \A a \in Assets : t.remaining[a] > 0 => t.remaining[a] - RowSum(fills, SellsOf(t.id, a), UnitWeights) = t.original[a]
FillsInOrder(fills, n) ==
  /\ \A i \in DOMAIN fills : fills[i].target <= n /\ (fills[i].side = "buy" => fills[i].attempt = 1)
  /\ \A i, j \in DOMAIN fills :
        fills[i].target = fills[j].target /\ fills[i].side = "buy" =>
          /\ fills[j].side = "sell" /\ fills[j].attempt = 1 => j < i
          /\ fills[j].side = "buy" /\ fills[j].asset = fills[i].asset => i = j
NoneFilled(fills, id) == \A i \in DOMAIN fills : fills[i].target # id

ControlInv ==
  /\ control \in ControlDoc /\ targets \in 0..MaxTargets /\ control.appliedAt \in Boundaries \cup {-1}
  /\ ControlBooked(control, controlFills) /\ FillsInOrder(controlFills, targets)
  /\ control.kind = "none" => control = NewControl("none") /\ controlFills = <<>> /\ targets = 0
  /\ control.kind = "passive" => targets = IF control.initialized THEN 1 ELSE 0
  /\ control.target # NoTarget =>
       /\ control.target.id = targets /\ control.target.id > 0 /\ control.kind # "none"
       /\ SellsFrozen(control.target, controlFills)
       /\ control.target.attempts = 0 =>
            control.target.remaining = control.target.original /\ NoneFilled(controlFills, control.target.id)

LEMMA ControlAmounts ==
  /\ IsFiniteSet(Assets) /\ Assets # {} /\ QuantityStep \in Nat \ {0} /\ BenchmarkCash \in Nat \ {0}
  /\ MaxTargets \in Nat /\ PriceImpact \in Nat /\ FixedCost \in Nat /\ ExposureCap \in 0..1000
  /\ LastBoundary \in Nat /\ Exposures \subseteq Nat /\ DividendsPerUnit \subseteq Nat
  /\ \A a : BaseOf(a) \in 0..999 /\ QuoteOf(a) \in Nat
  /\ \A p \in AssetPrices : p \in Nat /\ p > 0
BY BenchmarkAssumption DEF BaseOf, QuoteOf

LEMMA TargetIsOpen == \A t \in OpenTarget : t # NoTarget /\ t.status # "complete"
<1> SUFFICES ASSUME NEW t \in OpenTarget PROVE t # NoTarget /\ t.status # "complete"
  OBVIOUS
<1>1. t.status \in {"prepared", "pending_sells"}
  BY DEF OpenTarget
<1>2. NoTarget.status = "complete"
  BY DEF NoTarget
<1>3. QED BY <1>1, <1>2

\* A quantity in whole steps is no more than the quantity.
LEMMA StepsFit ==
  ASSUME NEW q \in Int
  PROVE  Stepped(q) \in Int /\ Stepped(q) <= q /\ (q >= 0 => Stepped(q) >= 0)
<1> DEFINE d == q \div QuantityStep
           r == q % QuantityStep
<1>1. d \in Int /\ r \in 0..(QuantityStep - 1) /\ q = d * QuantityStep + r
  BY ControlAmounts
<1>2. d * QuantityStep \in Int /\ d * QuantityStep <= q
  <2> DEFINE m == d * QuantityStep
  <2>1. m \in Int
    BY <1>1, ControlAmounts
  <2> HIDE DEF m, r, d
  <2>2. q = m + r
    BY <1>1 DEF m
  <2>3. QED BY <1>1, <2>1, <2>2, ControlAmounts DEF m
<1>3. q >= 0 => d >= 0 /\ d * QuantityStep >= 0
  BY ControlAmounts
<1>4. QED BY <1>2, <1>3 DEF Stepped

\* What is sold with the fee in its own units is no more than there was.
LEMMA SalesFit ==
  ASSUME NEW a, NEW u \in Nat
  PROVE  /\ Sellable(a, u) \in Nat
         /\ Sellable(a, u) + (Sellable(a, u) * BaseOf(a)) \div 1000 \in 0..u
<1> DEFINE rate == BaseOf(a)
<1>0. rate \in 0..999
  BY ControlAmounts
<1> HIDE DEF rate
<1> DEFINE all == 1000 + rate
           m == u * 1000
           most == m \div all
           q == Stepped(most)
           x == q * rate
           fee == x \div 1000
<1>1. all \in Nat /\ all > 0 /\ m \in Nat /\ all = 1000 + rate
  BY <1>0
<1> HIDE DEF all, m
<1>2. most \in Nat /\ most * all <= m
  <2> DEFINE r == m % all
             y == most * all
  <2>1. most \in Nat /\ r \in 0..(all - 1) /\ m = most * all + r
    BY <1>1
  <2> HIDE DEF r, most
  <2>2. y \in Nat
    BY <1>1, <2>1
  <2>3. m = y + r
    BY <2>1
  <2> HIDE DEF y
  <2>4. QED BY <1>1, <2>1, <2>2, <2>3 DEF y
<1> HIDE DEF most
<1>3. q \in Nat /\ q <= most
  BY <1>2, StepsFit
<1> HIDE DEF q
<1>4. q * all <= m
  <2> DEFINE y == q * all
             z == most * all
  <2>1. y <= z /\ y \in Int /\ z \in Int
    BY <1>1, <1>2, <1>3
  <2> HIDE DEF y, z
  <2>2. z <= m
    BY <1>2 DEF z
  <2>3. QED BY <1>1, <2>1, <2>2 DEF y
<1>5. x \in Nat /\ q * all = q * 1000 + x
  BY <1>0, <1>1, <1>3
<1> HIDE DEF x
<1>6. fee \in Nat /\ fee * 1000 <= x
  BY <1>5
<1> HIDE DEF fee
<1>7. q + fee \in 0..u
  BY <1>3, <1>4, <1>5, <1>6 DEF m
<1>8. q = Sellable(a, u) /\ fee = (Sellable(a, u) * BaseOf(a)) \div 1000
  BY DEF q, most, m, all, rate, fee, x, Sellable
<1>9. QED BY <1>3, <1>7, <1>8

\* A fill leaves what is owed.
LEMMA OwedKept ==
  ASSUME NEW dues, NEW fills \in Seq(FillRow), DividendsOwed(dues, fills), NEW r \in FillRow, r.side \notin {"dividend", "payment"}
  PROVE  DividendsOwed(dues, Append(fills, r))
<1> DEFINE F == Append(fills, r)
           m == Len(fills) + 1
<1>1. /\ DOMAIN fills = 1..Len(fills) /\ DOMAIN F = 1..m /\ F[m] = r /\ (\A i \in DOMAIN fills : F[i] = fills[i])
      /\ Len(fills) \in Nat /\ m \in Nat
  BY AppendProperties, LenProperties
<1>2. DOMAIN fills \subseteq DOMAIN F /\ \A i \in DOMAIN F : i \in DOMAIN fills \/ i = m
  BY <1>1
<1> HIDE DEF F, m
<1>3. \A i \in DOMAIN F : F[i].side \in {"dividend", "payment"} => i \in DOMAIN fills
  BY <1>1, <1>2
<1>4. QED BY <1>1, <1>2, <1>3 DEF DividendsOwed, F

\* One row more.
LEMMA BookedGrows ==
  ASSUME NEW b, NEW fills, ControlBooked(b, fills), NEW r \in FillRow, NEW c,
         c.cash >= 0, c.cash = b.cash + r.cash,
         \A a \in Assets : c.units[a] >= 0 /\ c.units[a] = b.units[a] + (IF a = r.asset THEN r.units ELSE 0),
         DividendsOwed(c.receivables, Append(fills, r))
  PROVE  ControlBooked(c, Append(fills, r))
<1> DEFINE F == Append(fills, r)
<1>1. fills \in Seq(FillRow) /\ F \in Seq(FillRow) /\ BenchmarkCash \in Nat
  BY AppendProperties, ControlAmounts DEF ControlBooked
<1>2. CashWeights \in [FillRow -> Int] /\ CashWeights[r] = r.cash /\ UnitWeights \in [FillRow -> Int] /\ UnitWeights[r] = r.units
  BY DEF CashWeights, UnitWeights, FillRow
<1>3. RowSum(F, FillRow, CashWeights) = RowSum(fills, FillRow, CashWeights) + r.cash /\ RowSum(fills, FillRow, CashWeights) \in Int
  BY <1>1, <1>2, RowSumAppend, RowSumType
<1>4. ASSUME NEW a \in Assets PROVE c.units[a] = RowSum(F, RowsOf(a), UnitWeights)
  <2>1. RowSum(F, RowsOf(a), UnitWeights) = RowSum(fills, RowsOf(a), UnitWeights) + (IF r \in RowsOf(a) THEN r.units ELSE 0)
    BY <1>1, <1>2, RowSumAppend
  <2>2. r \in RowsOf(a) <=> a = r.asset
    BY DEF RowsOf
  <2>3. QED BY <2>1, <2>2 DEF ControlBooked
<1>5. c.cash = BenchmarkCash + RowSum(F, FillRow, CashWeights)
  BY <1>1, <1>3 DEF FillRow, ControlBooked
<1> HIDE DEF F
<1>6. QED BY <1>1, <1>4, <1>5 DEF ControlBooked, F

LEMMA OrderGrows ==
  ASSUME NEW fills \in Seq(FillRow), NEW n, FillsInOrder(fills, n), NEW r \in FillRow, r.target <= n,
         r.side = "buy" => r.attempt = 1 /\ \A i \in DOMAIN fills : ~(fills[i].side = "buy" /\ fills[i].target = r.target /\ fills[i].asset = r.asset),
         r.side = "sell" /\ r.attempt = 1 => \A i \in DOMAIN fills : ~(fills[i].side = "buy" /\ fills[i].target = r.target)
  PROVE  FillsInOrder(Append(fills, r), n)
<1> DEFINE F == Append(fills, r)
           m == Len(fills) + 1
<1>1. /\ DOMAIN fills = 1..Len(fills) /\ DOMAIN F = 1..m /\ F[m] = r /\ (\A i \in DOMAIN fills : F[i] = fills[i])
      /\ Len(fills) \in Nat /\ m \in Nat
  BY AppendProperties, LenProperties
<1>2. \A i \in DOMAIN F : i \in DOMAIN fills \/ i = m
  BY <1>1
<1>3. \A i \in DOMAIN fills : i < m
  BY <1>1
<1> HIDE DEF F, m
<1>4. ASSUME NEW i \in DOMAIN F PROVE F[i].target <= n /\ (F[i].side = "buy" => F[i].attempt = 1)
  BY <1>1, <1>2 DEF FillsInOrder
<1>5. ASSUME NEW i \in DOMAIN F, NEW j \in DOMAIN F, F[i].target = F[j].target, F[i].side = "buy"
      PROVE  /\ F[j].side = "sell" /\ F[j].attempt = 1 => j < i
             /\ F[j].side = "buy" /\ F[j].asset = F[i].asset => i = j
  <2>1. CASE i \in DOMAIN fills /\ j \in DOMAIN fills
    BY <1>1, <1>5, <2>1 DEF FillsInOrder
  <2>2. CASE i = m /\ j \in DOMAIN fills
    BY <1>1, <1>3, <2>2, <1>5
  <2>3. CASE i \in DOMAIN fills /\ j = m
    BY <1>1, <2>3, <1>5
  <2>4. CASE i = m /\ j = m
    BY <1>1, <2>4, <1>5
  <2>5. QED BY <1>2, <2>1, <2>2, <2>3, <2>4
<1>6. QED BY <1>4, <1>5 DEF FillsInOrder, F

\* What execute_target has done so far: its book and the journal with its fills.
Booking == [book : OpenControl, fills : Seq(FillRow)]
Journal(acc) == controlFills \o acc.fills
SameTarget(t) == t = [control.target EXCEPT !.remaining = t.remaining]
SamePlan(b) == b.kind = control.kind /\ b.initialized = control.initialized /\ SameTarget(b.target)
NoBuyYet(acc) ==
  control.target.attempts = 0 =>
    \A i \in DOMAIN Journal(acc) : ~(Journal(acc)[i].side = "buy" /\ Journal(acc)[i].target = control.target.id)
Executing(acc) ==
  /\ acc \in Booking /\ SamePlan(acc.book)
  /\ ControlBooked(acc.book, Journal(acc)) /\ SellsFrozen(acc.book.target, Journal(acc))
SellingBooks == {acc \in Booking : Executing(acc) /\ FillsInOrder(Journal(acc), targets) /\ NoBuyYet(acc)}

CanExecute ==
  /\ ControlInv /\ control.target \in OpenTarget

LEMMA SellStep ==
  ASSUME CanExecute, NEW prices, \A x \in DOMAIN prices : prices[x] \in AssetPrices,
         NEW acc \in SellingBooks, NEW a \in Assets
  PROVE  SellOne(acc, a, prices) \in SellingBooks
<1> DEFINE b == acc.book
           t == b.target
           q == Sellable(a, Min({t.remaining[a], b.units[a]}))
           units == q + (q * BaseOf(a)) \div 1000
           gain == q * (prices[a] - PriceImpact - QuoteOf(a)) - FixedCost
           left == Max({0, t.remaining[a] - units})
           r == Row("sell", a, q, -units, gain)
           rem == [t.remaining EXCEPT ![a] = left]
           t2 == [t EXCEPT !.remaining = rem]
           own == [b.units EXCEPT ![a] = b.units[a] - units]
           b2 == [b EXCEPT !.units = own, !.cash = b.cash + gain, !.target = t2]
           d == [book |-> b2, fills |-> Append(acc.fills, r)]
<1>1. /\ acc \in Booking /\ SamePlan(b) /\ ControlBooked(b, Journal(acc)) /\ SellsFrozen(t, Journal(acc))
      /\ FillsInOrder(Journal(acc), targets) /\ NoBuyYet(acc) /\ b \in OpenControl /\ acc.fills \in Seq(FillRow)
      /\ acc = [book |-> b, fills |-> acc.fills]
  BY DEF SellingBooks, Executing, Booking
<1>2. /\ b \in ControlDoc /\ t \in OpenTarget /\ b.cash \in Int /\ b.units \in [Assets -> Int] /\ t.remaining \in [Assets -> Nat]
      /\ b.units[a] \in Nat /\ t.remaining[a] \in Nat
  <2>1. b \in ControlDoc /\ t \in OpenTarget
    BY <1>1 DEF OpenControl
  <2>2. b.cash \in Int /\ b.units \in [Assets -> Int]
    BY <2>1 DEF ControlDoc
  <2>3. t.remaining \in [Assets -> Nat]
    BY <2>1 DEF OpenTarget
  <2>4. b.units[a] >= 0
    BY <1>1 DEF ControlBooked
  <2>5. b.units[a] \in Int /\ t.remaining[a] \in Nat
    BY <2>2, <2>3
  <2>6. QED BY <2>1, <2>2, <2>3, <2>4, <2>5
<1>3. SellOne(acc, a, prices) \in {acc, d} /\ (SellOne(acc, a, prices) = acc \/ (a \in DOMAIN prices /\ q > 0 /\ gain >= 0))
  <2>1. CASE a \notin DOMAIN prices \/ q <= 0 \/ q * (prices[a] - PriceImpact - QuoteOf(a)) < FixedCost
    BY <2>1 DEF SellOne
  <2>2. CASE ~(a \notin DOMAIN prices \/ q <= 0 \/ q * (prices[a] - PriceImpact - QuoteOf(a)) < FixedCost)
    <3>1. q \in Int /\ prices[a] \in Int /\ PriceImpact \in Int /\ QuoteOf(a) \in Int /\ FixedCost \in Int
      <4>1. Min({t.remaining[a], b.units[a]}) \in Nat
        BY <1>2, MinOfTwo
      <4>2. q \in Int
        BY <4>1, SalesFit
      <4>3. QED BY <2>2, <4>2, ControlAmounts
    <3>2. SellOne(acc, a, prices) = d
      BY <1>1, <1>2, <2>2 DEF SellOne, OpenControl, ControlDoc, OpenTarget
    <3> DEFINE x == q * (prices[a] - PriceImpact - QuoteOf(a))
    <3>3. x \in Int /\ gain = x - FixedCost /\ ~(x < FixedCost)
      BY <2>2, <3>1
    <3>4. gain >= 0 /\ q > 0
      <4> HIDE DEF x, q, gain
      <4>1. gain >= 0
        BY <3>1, <3>3
      <4>2. QED BY <2>2, <3>1, <4>1
    <3>5. QED BY <2>2, <3>2, <3>4
  <2>3. QED BY <2>1, <2>2
<1>4. CASE SellOne(acc, a, prices) = acc
  BY <1>4
<1>5. CASE SellOne(acc, a, prices) = d /\ a \in DOMAIN prices /\ q > 0 /\ gain >= 0
  <2>1. Min({t.remaining[a], b.units[a]}) \in Nat /\ Min({t.remaining[a], b.units[a]}) <= t.remaining[a]
        /\ Min({t.remaining[a], b.units[a]}) <= b.units[a]
    <3> DEFINE x == t.remaining[a]
               y == b.units[a]
    <3>1. x \in Nat /\ y \in Nat
      BY <1>2
    <3> HIDE DEF x, y
    <3>2. Min({x, y}) \in Nat /\ Min({x, y}) <= x /\ Min({x, y}) <= y
      BY <3>1, MinOfTwo
    <3>3. QED BY <3>2 DEF x, y
  <2>2. q \in Nat /\ units \in Nat /\ units <= t.remaining[a] /\ units <= b.units[a]
    <3> DEFINE u == Min({t.remaining[a], b.units[a]})
    <3>1. u \in Nat /\ u <= t.remaining[a] /\ u <= b.units[a]
      BY <2>1
    <3> HIDE DEF u
    <3>2. Sellable(a, u) \in Nat /\ Sellable(a, u) + (Sellable(a, u) * BaseOf(a)) \div 1000 \in 0..u
      BY <3>1, SalesFit
    <3> DEFINE v == Sellable(a, u) + (Sellable(a, u) * BaseOf(a)) \div 1000
    <3>3. v \in 0..u
      BY <3>2
    <3> HIDE DEF v
    <3>4. v \in Nat /\ v <= t.remaining[a] /\ v <= b.units[a]
      BY <1>2, <3>1, <3>3
    <3>5. QED BY <3>2, <3>4 DEF u, v
  <2>3. gain \in Int
    BY <1>5, <2>2, ControlAmounts
  <2> HIDE DEF q, units, gain
  <2>4. left = t.remaining[a] - units /\ left \in Nat
    BY <1>2, <2>2, MaxOfTwo
  <2> HIDE DEF left
  <2>5. /\ control.target \in OpenTarget /\ control.target.id \in Nat /\ control.target.attempts \in Nat /\ control.target.id = targets
        /\ SameTarget(t) /\ t.id = control.target.id /\ t.original = control.target.original /\ t.attempts = control.target.attempts
    <3>1. control.target \in OpenTarget /\ control.target # NoTarget
      BY TargetIsOpen DEF CanExecute
    <3>2. control.target.id \in Nat /\ control.target.attempts \in Nat /\ control.target.id = targets
      BY <3>1 DEF CanExecute, ControlInv, OpenTarget
    <3>3. SameTarget(t)
      BY <1>1 DEF SamePlan
    <3>4. t.id = control.target.id /\ t.original = control.target.original /\ t.attempts = control.target.attempts
      <4> DEFINE w == t.remaining
      <4>1. t = [control.target EXCEPT !.remaining = w]
        BY <3>3 DEF SameTarget
      <4> HIDE DEF t, w
      <4>2. QED BY <3>1, <4>1 DEF OpenTarget
    <3>5. QED BY <3>1, <3>2, <3>3, <3>4
  <2>6. /\ r \in FillRow /\ r.side = "sell" /\ r.asset = a /\ r.units = -units /\ r.cash = gain /\ r.target = control.target.id
        /\ r.attempt = control.target.attempts + 1
    BY <2>2, <2>3, <2>5 DEF Row, FillRow
  <2>7. rem \in [Assets -> Nat] /\ own \in [Assets -> Int] /\ rem[a] = left /\ own[a] = b.units[a] - units
        /\ \A x \in Assets \ {a} : rem[x] = t.remaining[x] /\ own[x] = b.units[x]
    BY <1>2, <2>2, <2>4
  <2> HIDE DEF r, rem, own
  <2>8. t2 \in OpenTarget /\ t2.remaining = rem /\ t2.id = t.id /\ t2.original = t.original /\ SameTarget(t2)
    BY <1>2, <2>7, <2>5 DEF OpenTarget, SameTarget
  <2> HIDE DEF t2
  <2>9. b2 \in OpenControl /\ b2.cash = b.cash + gain /\ b2.units = own /\ b2.target = t2 /\ b2.kind = b.kind /\ b2.initialized = b.initialized
        /\ b2.receivables = b.receivables
    <3> DEFINE sum == b.cash + gain
    <3>1. sum \in Int /\ b2 = [b EXCEPT !.units = own, !.cash = sum, !.target = t2]
      BY <1>2, <2>3
    <3> HIDE DEF sum, b2
    <3>2. b2 \in ControlDoc /\ b2.cash = sum /\ b2.units = own /\ b2.target = t2 /\ b2.kind = b.kind /\ b2.initialized = b.initialized
          /\ b2.receivables = b.receivables
      <4> HIDE DEF b
      <4>1. QED BY <1>2, <2>7, <2>8, <3>1 DEF ControlDoc
    <3>3. QED BY <2>8, <3>2 DEF OpenControl, sum
  <2>10. Journal(d) = Append(Journal(acc), r) /\ Journal(acc) \in Seq(FillRow) /\ d \in Booking /\ d.book = b2
    BY <1>1, <2>6, JournalGrows, AppendProperties, <2>9 DEF CanExecute, ControlInv, ControlBooked, Journal, Booking
  <2> HIDE DEF b2, d
  <2>11. ControlBooked(b2, Journal(d))
    <3>1. b2.cash >= 0 /\ b2.cash = b.cash + r.cash
      BY <1>1, <1>2, <1>5, <2>3, <2>6, <2>9 DEF ControlBooked
    <3>2. ASSUME NEW x \in Assets PROVE b2.units[x] >= 0 /\ b2.units[x] = b.units[x] + (IF x = r.asset THEN r.units ELSE 0)
      <4>1. CASE x = a
        BY <1>2, <2>2, <2>6, <2>7, <2>9, <4>1
      <4>2. CASE x # a
        BY <1>1, <1>2, <2>6, <2>7, <2>9, <4>2 DEF ControlBooked
      <4>3. QED BY <4>1, <4>2
    <3>3. DividendsOwed(b2.receivables, Append(Journal(acc), r))
      BY <1>1, <2>6, <2>9, <2>10, OwedKept DEF ControlBooked
    <3>4. ControlBooked(b2, Append(Journal(acc), r))
      BY <1>1, <2>6, <3>1, <3>2, <3>3, BookedGrows
    <3>5. QED BY <2>10, <3>4
  <2>12. SellsFrozen(t2, Journal(d))
    <3> DEFINE S(x) == SellsOf(t.id, x)
               had(x) == RowSum(Journal(acc), S(x), UnitWeights)
               has(x) == RowSum(Journal(d), S(x), UnitWeights)
    <3>1. ASSUME NEW x \in Assets
          PROVE  /\ has(x) = had(x) + (IF x = a THEN -units ELSE 0) /\ had(x) \in Int
                 /\ t.remaining[x] > 0 => t.remaining[x] - had(x) = t.original[x]
      <4>1. UnitWeights \in [FillRow -> Int] /\ UnitWeights[r] = -units
        BY <2>6 DEF UnitWeights, FillRow
      <4>2. r \in S(x) <=> x = a
        BY <2>5, <2>6 DEF SellsOf
      <4>3. has(x) = had(x) + (IF r \in S(x) THEN UnitWeights[r] ELSE 0) /\ had(x) \in Int
        <5> HIDE DEF S
        <5>1. QED BY <2>6, <2>10, <4>1, RowSumAppend, RowSumType
      <4>4. t.remaining[x] > 0 => t.remaining[x] - had(x) = t.original[x]
        BY <1>1 DEF SellsFrozen
      <4>5. QED BY <4>1, <4>2, <4>3, <4>4
    <3> HIDE DEF had, has
    <3>2. ASSUME NEW x \in Assets, t2.remaining[x] > 0 PROVE t2.remaining[x] - has(x) = t2.original[x]
      <4>1. CASE x = a
        BY <1>2, <2>2, <2>4, <2>7, <2>8, <3>2, <4>1, <3>1
      <4>2. CASE x # a
        BY <2>7, <2>8, <3>2, <4>2, <3>1
      <4>3. QED BY <4>1, <4>2
    <3>3. QED BY <2>8, <3>2 DEF SellsFrozen, has
  <2>13. FillsInOrder(Journal(d), targets) /\ NoBuyYet(d)
    <3>1. r.attempt = 1 => \A i \in DOMAIN Journal(acc) : ~(Journal(acc)[i].side = "buy" /\ Journal(acc)[i].target = r.target)
      BY <1>1, <2>5, <2>6 DEF NoBuyYet
    <3>2. r.target <= targets /\ targets \in Int
      BY <2>5, <2>6
    <3>3. FillsInOrder(Append(Journal(acc), r), targets)
      BY <1>1, <2>6, <2>10, <3>1, <3>2, OrderGrows
    <3>4. ASSUME control.target.attempts = 0, NEW i \in DOMAIN Journal(d)
          PROVE  ~(Journal(d)[i].side = "buy" /\ Journal(d)[i].target = control.target.id)
      BY <2>6, <2>10, AppendProperties, LenProperties, <1>1, <3>4 DEF NoBuyYet
    <3>5. QED BY <2>10, <3>3, <3>4 DEF NoBuyYet
  <2>14. SamePlan(b2)
    BY <1>1, <2>8, <2>9 DEF SamePlan
  <2>15. d \in SellingBooks
    BY <2>8, <2>9, <2>10, <2>11, <2>12, <2>13, <2>14 DEF SellingBooks, Executing
  <2>16. QED BY <1>5, <2>15
<1>6. QED BY <1>3, <1>4, <1>5

\* A buy is in whole steps within the frozen budget and the cash there is.
LEMMA BuyFits ==
  ASSUME NEW money \in Int, NEW budget \in Int, NEW most \in Int, NEW price \in Nat \ {0}, NEW q, NEW room,
         room = Max({0, Min({budget, money}) - FixedCost}), q = Min({most, Stepped(room \div price)})
  PROVE  q \in Int /\ room \in Nat /\ (q > 0 => q * price + FixedCost <= money)
<1>1. Min({budget, money}) \in Int /\ Min({budget, money}) <= money
  BY MinOfTwo
<1>2. room \in Nat /\ (room = 0 \/ room <= money - FixedCost)
  <2> DEFINE m == Min({budget, money})
  <2>1. m \in Int /\ m <= money
    BY <1>1
  <2> HIDE DEF m
  <2> DEFINE k == m - FixedCost
  <2>2. k \in Int /\ k <= money - FixedCost
    BY <2>1, ControlAmounts
  <2> HIDE DEF k
  <2>3. room = Max({0, k})
    BY DEF k, m
  <2>4. QED BY <2>2, <2>3, MaxOfTwo
<1> DEFINE d == room \div price
           w == Stepped(d)
<1>3. d \in Int /\ d * price <= room
  BY <1>2
<1>4. w \in Int /\ w <= d
  <2> HIDE DEF d
  <2>1. QED BY <1>3, StepsFit
<1> HIDE DEF d, w
<1>5. q \in Int /\ q <= w
  <2>1. q = Min({most, w})
    BY DEF w, d
  <2>2. QED BY <1>4, <2>1, MinOfTwo
<1>6. ASSUME q > 0 PROVE q * price + FixedCost <= money
  <2>1. q * price <= d * price /\ d > 0 /\ d * price >= 1
    BY <1>3, <1>4, <1>5, <1>6
  <2> DEFINE x == q * price
             y == d * price
  <2>2. x \in Int /\ y \in Int /\ x <= y /\ y <= room /\ y >= 1
    BY <1>3, <1>5, <2>1
  <2> HIDE DEF x, y
  <2>3. x + FixedCost <= money
    BY <1>2, <2>2, ControlAmounts
  <2>4. QED BY <2>3 DEF x
<1>7. QED BY <1>2, <1>5, <1>6

\* The fee is part of what is bought.
LEMMA FeeFits == ASSUME NEW a, NEW q \in Nat PROVE q - (q * BaseOf(a)) \div 1000 \in Nat
<1> DEFINE rate == BaseOf(a)
           x == q * rate
           fee == x \div 1000
<1>1. x \in Nat /\ x <= q * 1000
  <2>1. rate \in 0..999
    BY ControlAmounts
  <2> HIDE DEF rate
  <2>2. QED BY <2>1
<1>2. fee \in Nat /\ fee * 1000 <= x
  <2>1. fee = x \div 1000
    OBVIOUS
  <2> HIDE DEF x
  <2>2. QED BY <1>1, <2>1
<1> HIDE DEF x, fee
<1>3. fee <= q
  BY <1>1, <1>2
<1>4. q - fee \in Nat
  BY <1>2, <1>3
<1>5. QED BY <1>4 DEF fee, x

BoughtBooks(S) ==
  {acc \in Booking : /\ Executing(acc) /\ FillsInOrder(Journal(acc), targets)
                     /\ \A i \in DOMAIN Journal(acc) :
                           Journal(acc)[i].side = "buy" /\ Journal(acc)[i].target = control.target.id => Journal(acc)[i].asset \in S}

\* What a buy does to a book of the right shape.
BuyDone(acc, a, prices, q, units, cost, r) ==
  /\ q \in Nat \ {0} /\ units \in Nat /\ cost \in Int /\ cost <= acc.book.cash
  /\ r \in FillRow /\ r.side = "buy" /\ r.asset = a /\ r.units = units /\ r.cash = -cost
  /\ r.target = control.target.id /\ r.attempt = control.target.attempts + 1
  /\ BuyOne(acc, a, prices) = [book |-> [acc.book EXCEPT !.units = [acc.book.units EXCEPT ![a] = acc.book.units[a] + units],
                                                         !.cash = acc.book.cash - cost],
                               fills |-> Append(acc.fills, r)]

LEMMA BuyOutcome ==
  ASSUME CanExecute, NEW prices, \A x \in DOMAIN prices : prices[x] \in AssetPrices,
         NEW acc \in Booking, NEW a \in Assets
  PROVE  BuyOne(acc, a, prices) = acc \/ \E q, units, cost, r : BuyDone(acc, a, prices, q, units, cost, r)
<1> DEFINE b == acc.book
           t == b.target
           price == prices[a] + PriceImpact + QuoteOf(a)
           room == Max({0, Min({t.budgets[a], b.cash}) - FixedCost})
           q == Min({t.buys[a], Stepped(room \div price)})
           units == q - (q * BaseOf(a)) \div 1000
           cost == q * price + FixedCost
           r == Row("buy", a, q, units, -cost)
<1>1. b \in OpenControl /\ acc.fills \in Seq(FillRow) /\ acc = [book |-> b, fills |-> acc.fills]
  BY DEF Booking
<1>2. b \in ControlDoc /\ t \in OpenTarget /\ b.cash \in Int /\ b.units \in [Assets -> Int] /\ t.budgets[a] \in Int /\ t.buys[a] \in Int
  BY <1>1 DEF OpenControl, ControlDoc, OpenTarget
<1>3. CASE a \notin DOMAIN prices \/ q <= 0
  BY <1>3 DEF BuyOne
<1>4. CASE ~(a \notin DOMAIN prices \/ q <= 0)
  <2>1. price \in Nat \ {0}
    BY <1>4, ControlAmounts
  <2>2. q \in Int /\ (q > 0 => cost <= b.cash)
    <3> HIDE DEF price, b, t
    <3> DEFINE budget == t.budgets[a]
               money == b.cash
               most == t.buys[a]
    <3>1. budget \in Int /\ money \in Int /\ most \in Int
      BY <1>2
    <3> HIDE DEF budget, money, most
    <3> DEFINE rm == Max({0, Min({budget, money}) - FixedCost})
               qq == Min({most, Stepped(rm \div price)})
    <3>2. rm = Max({0, Min({budget, money}) - FixedCost}) /\ qq = Min({most, Stepped(rm \div price)})
      OBVIOUS
    <3> HIDE DEF rm, qq
    <3>3. qq \in Int /\ (qq > 0 => qq * price + FixedCost <= money)
      BY <2>1, <3>1, <3>2, BuyFits
    <3>4. QED BY <3>3 DEF qq, rm, budget, money, most
  <2>3. q \in Nat \ {0} /\ cost \in Int /\ cost <= b.cash
    <3> HIDE DEF q, price
    <3>1. q > 0
      BY <1>4, <2>2
    <3>2. q \in Nat \ {0}
      BY <2>2, <3>1
    <3> DEFINE x == q * price
    <3>3. x \in Int
      BY <2>1, <3>2
    <3> HIDE DEF x
    <3>4. x + FixedCost \in Int
      BY <3>3, ControlAmounts
    <3>5. QED BY <2>2, <3>1, <3>2, <3>4 DEF x
  <2>4. BuyOne(acc, a, prices) = [book |-> [b EXCEPT !.units = [b.units EXCEPT ![a] = b.units[a] + units], !.cash = b.cash - cost],
                                  fills |-> Append(acc.fills, r)]
    <3>1. BuyOne(acc, a, prices) = [book |-> [b EXCEPT !.units[a] = @ + units, !.cash = @ - cost], fills |-> Append(acc.fills, r)]
      BY <1>4 DEF BuyOne
    <3> HIDE DEF units, cost, r, q
    <3>2. [b EXCEPT !.units[a] = @ + units, !.cash = @ - cost]
            = [b EXCEPT !.units = [b.units EXCEPT ![a] = b.units[a] + units], !.cash = b.cash - cost]
      BY <1>2 DEF ControlDoc
    <3>3. QED BY <3>1, <3>2
  <2> HIDE DEF q, cost
  <2>5. units \in Nat
    BY <2>3, FeeFits
  <2> HIDE DEF units
  <2>6. control.target.id \in Nat /\ control.target.attempts \in Nat
    BY DEF CanExecute, OpenTarget
  <2>7. -cost \in Int
    BY <2>3
  <2>8. /\ r \in FillRow /\ r.side = "buy" /\ r.asset = a /\ r.units = units /\ r.cash = -cost
        /\ r.target = control.target.id /\ r.attempt = control.target.attempts + 1
    BY <2>3, <2>5, <2>6, <2>7 DEF Row, FillRow
  <2> HIDE DEF r
  <2>9. BuyDone(acc, a, prices, q, units, cost, r)
    BY <2>3, <2>4, <2>5, <2>8 DEF BuyDone
  <2>10. QED BY <2>9
<1>5. QED BY <1>3, <1>4

BookBought(acc, d, a, units, cost, r) ==
  /\ d \in Booking /\ d.book.cash = acc.book.cash - cost
  /\ d.book.units = [acc.book.units EXCEPT ![a] = acc.book.units[a] + units]
  /\ d.book.target = acc.book.target /\ d.book.kind = acc.book.kind /\ d.book.initialized = acc.book.initialized
  /\ d.book.receivables = acc.book.receivables
  /\ Journal(d) = Append(Journal(acc), r) /\ Journal(acc) \in Seq(FillRow)

LEMMA BuyShape ==
  ASSUME CanExecute, NEW prices, NEW acc \in Booking, NEW a \in Assets, NEW q, NEW units, NEW cost, NEW r,
         BuyDone(acc, a, prices, q, units, cost, r)
  PROVE  BookBought(acc, BuyOne(acc, a, prices), a, units, cost, r)
<1> DEFINE b == acc.book
           own == [b.units EXCEPT ![a] = b.units[a] + units]
           left == b.cash - cost
           b2 == [b EXCEPT !.units = own, !.cash = left]
           d == BuyOne(acc, a, prices)
<1>1. /\ d = [book |-> b2, fills |-> Append(acc.fills, r)] /\ r \in FillRow /\ units \in Nat /\ cost \in Int
  BY DEF BuyDone
<1>2. b \in ControlDoc /\ b.target \in OpenTarget /\ b.cash \in Int /\ b.units \in [Assets -> Int] /\ acc.fills \in Seq(FillRow)
  BY DEF Booking, OpenControl, ControlDoc
<1>3. own \in [Assets -> Int] /\ left \in Int
  BY <1>1, <1>2
<1> HIDE DEF own, left, b, d
<1>4. b2 \in ControlDoc /\ b2.cash = left /\ b2.units = own /\ b2.target = b.target /\ b2.kind = b.kind /\ b2.initialized = b.initialized
      /\ b2.receivables = b.receivables
  BY <1>2, <1>3 DEF ControlDoc
<1> HIDE DEF b2
<1>5. d.book = b2 /\ d.fills = Append(acc.fills, r) /\ Append(acc.fills, r) \in Seq(FillRow)
  BY <1>1, <1>2, AppendProperties
<1>6. d \in Booking
  BY <1>1, <1>2, <1>4, <1>5 DEF Booking, OpenControl
<1>7. controlFills \in Seq(FillRow)
  BY DEF CanExecute, ControlInv, ControlBooked
<1>8. controlFills \o Append(acc.fills, r) = Append(controlFills \o acc.fills, r) /\ controlFills \o acc.fills \in Seq(FillRow)
  BY <1>1, <1>2, <1>7, JournalGrows
<1>9. QED BY <1>4, <1>5, <1>6, <1>8 DEF BookBought, Journal, d, own, left, b

LEMMA BuyStep ==
  ASSUME CanExecute, control.target.attempts = 0, NEW prices, \A x \in DOMAIN prices : prices[x] \in AssetPrices,
         NEW S, NEW acc \in BoughtBooks(S), NEW a \in Assets, a \notin S
  PROVE  BuyOne(acc, a, prices) \in BoughtBooks(S \cup {a})
<1> DEFINE b == acc.book
           d == BuyOne(acc, a, prices)
           J == Journal(acc)
           K == Journal(d)
<1>1. /\ acc \in Booking /\ SamePlan(b) /\ ControlBooked(b, J) /\ SellsFrozen(b.target, J) /\ FillsInOrder(J, targets)
      /\ \A i \in DOMAIN J : J[i].side = "buy" /\ J[i].target = control.target.id => J[i].asset \in S
  BY DEF BoughtBooks, Executing
<1>2. CASE d = acc
  <2> HIDE DEF d
  <2>1. acc \in BoughtBooks(S \cup {a})
    BY <1>1 DEF BoughtBooks, Executing
  <2>2. QED BY <1>2, <2>1 DEF d
<1>3. ASSUME NEW q, NEW units, NEW cost, NEW r, BuyDone(acc, a, prices, q, units, cost, r)
      PROVE  d \in BoughtBooks(S \cup {a})
  <2>1. /\ units \in Nat /\ cost \in Int /\ cost <= b.cash
        /\ r \in FillRow /\ r.side = "buy" /\ r.asset = a /\ r.units = units /\ r.cash = -cost
        /\ r.target = control.target.id /\ r.attempt = 1
    BY <1>3 DEF BuyDone
  <2>2. /\ d \in Booking /\ d.book.cash = b.cash - cost /\ d.book.units = [b.units EXCEPT ![a] = b.units[a] + units]
        /\ d.book.target = b.target /\ d.book.kind = b.kind /\ d.book.initialized = b.initialized
        /\ d.book.receivables = b.receivables /\ K = Append(J, r) /\ J \in Seq(FillRow)
    <3>1. BookBought(acc, BuyOne(acc, a, prices), a, units, cost, r)
      BY <1>1, <1>3, BuyShape
    <3>2. QED BY <3>1 DEF BookBought
  <2> HIDE DEF d, J, K
  <2>3. b.cash \in Int /\ b.units \in [Assets -> Int] /\ b.target \in OpenTarget
    BY <1>1 DEF Booking, OpenControl, ControlDoc
  <2> HIDE DEF b
  <2>4. ControlBooked(d.book, K)
    <3> DEFINE c == d.book
    <3>1. c.cash >= 0 /\ c.cash = b.cash + r.cash
      BY <2>1, <2>2, <2>3
    <3>2. ASSUME NEW x \in Assets PROVE c.units[x] >= 0 /\ c.units[x] = b.units[x] + (IF x = r.asset THEN r.units ELSE 0)
      BY <1>1, <2>3, <2>2, <2>1 DEF ControlBooked
    <3>3. DividendsOwed(c.receivables, Append(J, r))
      BY <1>1, <2>1, <2>2, OwedKept DEF ControlBooked
    <3> HIDE DEF c
    <3>4. ControlBooked(c, Append(J, r))
      BY <1>1, <2>1, <3>1, <3>2, <3>3, BookedGrows
    <3>5. QED BY <2>2, <3>4 DEF c
  <2>5. SellsFrozen(d.book.target, K)
    <3> DEFINE t == b.target
    <3>1. ASSUME NEW x \in Assets PROVE RowSum(K, SellsOf(t.id, x), UnitWeights) = RowSum(J, SellsOf(t.id, x), UnitWeights)
      <4>1. UnitWeights \in [FillRow -> Int]
        BY DEF UnitWeights, FillRow
      <4>2. r \notin SellsOf(t.id, x)
        BY <2>1 DEF SellsOf
      <4> DEFINE R == SellsOf(t.id, x)
      <4> HIDE DEF R
      <4>3. RowSum(Append(J, r), R, UnitWeights) = RowSum(J, R, UnitWeights) + (IF r \in R THEN UnitWeights[r] ELSE 0)
        BY <2>1, <2>2, <4>1, RowSumAppend
      <4>4. RowSum(J, R, UnitWeights) \in Int
        BY <2>2, <4>1, RowSumType
      <4>5. QED BY <2>2, <4>2, <4>3, <4>4 DEF R
    <3>2. QED BY <1>1, <2>2, <3>1 DEF SellsFrozen
  <2>6. FillsInOrder(K, targets)
    BY <1>1, <2>1, TargetIsOpen, <2>2, OrderGrows DEF CanExecute, ControlInv
  <2>7. SamePlan(d.book)
    BY <1>1, <2>2 DEF SamePlan
  <2>8. ASSUME NEW i \in DOMAIN K, K[i].side = "buy", K[i].target = control.target.id PROVE K[i].asset \in S \cup {a}
    BY <2>1, <2>2, AppendProperties, LenProperties, <1>1, <2>8
  <2>9. QED BY <2>2, <2>4, <2>5, <2>6, <2>7, <2>8 DEF BoughtBooks, Executing, K
<1>4. d = acc \/ \E q, units, cost, r : BuyDone(acc, a, prices, q, units, cost, r)
  BY <1>1, BuyOutcome
<1>5. QED BY <1>2, <1>3, <1>4

LEMMA StartsToSell == ASSUME CanExecute PROVE [book |-> control, fills |-> <<>>] \in SellingBooks
<1> DEFINE acc == [book |-> control, fills |-> <<>>]
<1>1. /\ control \in OpenControl /\ control.target \in OpenTarget /\ control.target # NoTarget /\ ControlBooked(control, controlFills)
      /\ FillsInOrder(controlFills, targets) /\ SellsFrozen(control.target, controlFills)
      /\ (control.target.attempts = 0 => NoneFilled(controlFills, control.target.id)) /\ controlFills \in Seq(FillRow)
  BY TargetIsOpen DEF CanExecute, ControlInv, OpenControl, ControlBooked
<1>2. acc.book = control /\ Journal(acc) = controlFills /\ acc \in Booking
  BY <1>1, ConcatEmptySeq DEF Journal, Booking
<1>3. SameTarget(control.target)
  BY <1>1 DEF SameTarget, OpenTarget
<1> HIDE DEF acc
<1>4. SamePlan(acc.book) /\ NoBuyYet(acc)
  BY <1>1, <1>2, <1>3 DEF SamePlan, NoBuyYet, NoneFilled
<1>5. QED BY <1>1, <1>2, <1>4 DEF SellingBooks, Executing, acc

\* All the sells of an attempt.
LEMMA SalesDone ==
  ASSUME CanExecute, NEW prices, \A x \in DOMAIN prices : prices[x] \in AssetPrices
  PROVE  SellAll(prices) \in SellingBooks
<1> DEFINE N == Len(AssetOrder)
           A == SellingBooks
           first == [book |-> control, fills |-> <<>>]
           G == [p \in A \X (1..N) |-> SellOne(p[1], AssetOrder[p[2]], prices)]
           Iter(f) == [s \in SUBSET (1..N) |-> IF s = {} THEN first ELSE SellOne(f[s \ {Max(s)}], AssetOrder[Max(s)], prices)]
           it == CHOOSE f : f = Iter(f)
<1>1. AssetOrder \in Seq(Assets) /\ N \in Nat /\ DOMAIN AssetOrder = 1..N /\ \A i \in 1..N : AssetOrder[i] \in Assets
  BY OrderOf, ControlAmounts, LenProperties, ElementOfSeq DEF AssetOrder
<1>2. first \in A
  BY StartsToSell
<1>3. \A acc \in A, a \in Assets : SellOne(acc, a, prices) \in A
  BY SellStep
<1>4. G \in [A \X (1..N) -> A] /\ \A x \in A, i \in 1..N : G[<<x, i>>] = SellOne(x, AssetOrder[i], prices)
  BY <1>1, <1>3
<1> HIDE DEF A, first, G, N
<1>5. PICK f : Folding(f, N, A, first, G)
  BY <1>1, <1>2, <1>4, FoldIterates
<1>6. f = Iter(f)
  <2>1. ASSUME NEW s \in SUBSET (1..N), s # {} PROVE G[<<f[s \ {Max(s)}], Max(s)>>] = SellOne(f[s \ {Max(s)}], AssetOrder[Max(s)], prices)
    BY <1>1, <2>1, LargestIndex, <1>5, <1>4 DEF Folding
  <2>2. \A s \in SUBSET (1..N) : f[s] = IF s = {} THEN first ELSE SellOne(f[s \ {Max(s)}], AssetOrder[Max(s)], prices)
    BY <1>5, <2>1 DEF Folding
  <2>3. f = [s \in SUBSET (1..N) |-> f[s]]
    BY <1>5 DEF Folding
  <2>4. QED BY <2>2, <2>3
<1>7. it = Iter(it)
  BY <1>6
<1> HIDE DEF it
<1>8. SellAll(prices) = it[1..N]
  BY <1>1 DEF SellAll, FoldLeft, MapThenFoldSet, it, first
<1> DEFINE onward == [s \in SUBSET (1..N) |-> SellOne(it[s \ {Max(s)}], AssetOrder[Max(s)], prices)]
<1>9. IsFold(it, N, onward, first)
  BY <1>7 DEF IsFold
<1>10. it[1..0] = first /\ 1..N \in SUBSET (1..N)
       /\ \A i \in 1..N : it[1..i] = SellOne(it[1..(i - 1)], AssetOrder[i], prices)
  <2>1. \A s \in SUBSET (1..N) : onward[s] = SellOne(it[s \ {Max(s)}], AssetOrder[Max(s)], prices)
    OBVIOUS
  <2> HIDE DEF onward
  <2>2. FoldWalks(it, N, onward, first)
    BY <1>1, <1>9, FoldWalk
  <2>3. QED BY <2>1, <2>2 DEF FoldWalks
<1> DEFINE T == {i \in Nat : i <= N => it[1..i] \in A}
<1>11. 0 \in T
  BY <1>2, <1>10
<1>12. ASSUME NEW i \in Nat, i \in T PROVE i + 1 \in T
  <2> SUFFICES ASSUME i + 1 <= N PROVE it[1..(i + 1)] \in A
    OBVIOUS
  <2>1. it[1..i] \in A /\ i + 1 \in 1..N /\ (i + 1) - 1 = i
    BY <1>1, <1>12
  <2>2. it[1..(i + 1)] = SellOne(it[1..i], AssetOrder[i + 1], prices)
    BY <1>10, <2>1
  <2>3. QED BY <1>1, <1>3, <2>1, <2>2
<1> HIDE DEF T
<1>13. \A i \in Nat : i \in T
  BY <1>11, <1>12, SetInduction
<1>14. it[1..N] \in A
  BY <1>1, <1>13 DEF T
<1>15. QED BY <1>8, <1>14 DEF A

\* All the buys of the first attempt, after its sells.
LEMMA BuysDone ==
  ASSUME CanExecute, control.target.attempts = 0, NEW prices, \A x \in DOMAIN prices : prices[x] \in AssetPrices,
         NEW sold \in SellingBooks
  PROVE  BuyAll(sold, prices) \in BoughtBooks(Assets)
<1> DEFINE N == Len(AssetOrder)
           A == Booking
           G == [p \in A \X (1..N) |-> BuyOne(p[1], AssetOrder[p[2]], prices)]
           Iter(f) == [s \in SUBSET (1..N) |-> IF s = {} THEN sold ELSE BuyOne(f[s \ {Max(s)}], AssetOrder[Max(s)], prices)]
           it == CHOOSE f : f = Iter(f)
           upTo(i) == {AssetOrder[j] : j \in 1..i}
<1>1. /\ AssetOrder \in Seq(Assets) /\ N \in Nat /\ DOMAIN AssetOrder = 1..N /\ (\A i \in 1..N : AssetOrder[i] \in Assets)
      /\ \A i, j \in 1..N : AssetOrder[i] = AssetOrder[j] => i = j
  BY OrderOf, ControlAmounts, LenProperties, ElementOfSeq DEF AssetOrder
<1>2. sold \in A /\ sold \in BoughtBooks(upTo(0))
  BY DEF SellingBooks, BoughtBooks, NoBuyYet
<1>3. \A acc \in A, a \in Assets : BuyOne(acc, a, prices) \in A
  <2> SUFFICES ASSUME NEW acc \in Booking, NEW a \in Assets PROVE BuyOne(acc, a, prices) \in Booking
    OBVIOUS
  <2>1. ASSUME NEW q, NEW units, NEW cost, NEW r, BuyDone(acc, a, prices, q, units, cost, r)
        PROVE  BuyOne(acc, a, prices) \in Booking
    BY <2>1, BuyShape DEF BookBought
  <2>2. BuyOne(acc, a, prices) = acc \/ \E q, units, cost, r : BuyDone(acc, a, prices, q, units, cost, r)
    BY BuyOutcome
  <2>3. QED BY <2>1, <2>2
<1>4. G \in [A \X (1..N) -> A] /\ \A x \in A, i \in 1..N : G[<<x, i>>] = BuyOne(x, AssetOrder[i], prices)
  BY <1>1, <1>3
<1> HIDE DEF A, G, N
<1>5. PICK f : Folding(f, N, A, sold, G)
  BY <1>1, <1>2, <1>4, FoldIterates
<1>6. f = Iter(f)
  <2>1. ASSUME NEW s \in SUBSET (1..N), s # {} PROVE G[<<f[s \ {Max(s)}], Max(s)>>] = BuyOne(f[s \ {Max(s)}], AssetOrder[Max(s)], prices)
    BY <1>1, <2>1, LargestIndex, <1>5, <1>4 DEF Folding
  <2>2. \A s \in SUBSET (1..N) : f[s] = IF s = {} THEN sold ELSE BuyOne(f[s \ {Max(s)}], AssetOrder[Max(s)], prices)
    BY <1>5, <2>1 DEF Folding
  <2>3. f = [s \in SUBSET (1..N) |-> f[s]]
    BY <1>5 DEF Folding
  <2>4. QED BY <2>2, <2>3
<1>7. it = Iter(it)
  BY <1>6
<1> HIDE DEF it
<1>8. BuyAll(sold, prices) = it[1..N]
  BY <1>1 DEF BuyAll, FoldLeft, MapThenFoldSet, it
<1> DEFINE onward == [s \in SUBSET (1..N) |-> BuyOne(it[s \ {Max(s)}], AssetOrder[Max(s)], prices)]
<1>9. IsFold(it, N, onward, sold)
  BY <1>7 DEF IsFold
<1>10. it[1..0] = sold /\ \A i \in 1..N : it[1..i] = BuyOne(it[1..(i - 1)], AssetOrder[i], prices)
  <2>1. \A s \in SUBSET (1..N) : onward[s] = BuyOne(it[s \ {Max(s)}], AssetOrder[Max(s)], prices)
    OBVIOUS
  <2> HIDE DEF onward
  <2>2. FoldWalks(it, N, onward, sold)
    BY <1>1, <1>9, FoldWalk
  <2>3. ASSUME NEW i \in 1..N PROVE it[1..i] = BuyOne(it[1..(i - 1)], AssetOrder[i], prices)
    <3>1. it[1..i] = onward[1..i] /\ 1..i \in SUBSET (1..N) /\ Max(1..i) = i /\ (1..i) \ {i} = 1..(i - 1)
      BY <2>2 DEF FoldWalks
    <3> HIDE DEF it
    <3>2. onward[1..i] = BuyOne(it[(1..i) \ {Max(1..i)}], AssetOrder[Max(1..i)], prices)
      BY <2>1, <3>1
    <3>3. QED BY <3>1, <3>2
  <2>4. QED BY <2>2, <2>3 DEF FoldWalks
<1> DEFINE T == {i \in Nat : i <= N => it[1..i] \in BoughtBooks(upTo(i))}
<1>11. 0 \in T
  BY <1>2, <1>10
<1>12. ASSUME NEW i \in Nat, i \in T PROVE i + 1 \in T
  <2> SUFFICES ASSUME i + 1 <= N PROVE it[1..(i + 1)] \in BoughtBooks(upTo(i + 1))
    OBVIOUS
  <2> DEFINE a == AssetOrder[i + 1]
             S == upTo(i)
  <2>1. it[1..i] \in BoughtBooks(S) /\ i + 1 \in 1..N /\ (i + 1) - 1 = i
    BY <1>1, <1>12
  <2>2. it[1..(i + 1)] = BuyOne(it[1..i], a, prices) /\ a \in Assets
    BY <1>1, <1>10, <2>1
  <2>3. a \notin S
    <3>1. ASSUME NEW j \in 1..i PROVE AssetOrder[j] # a
      BY <1>1, <2>1
    <3>2. QED BY <3>1
  <2>4. upTo(i + 1) = S \cup {a}
    OBVIOUS
  <2> HIDE DEF S, a, upTo
  <2>5. BuyOne(it[1..i], a, prices) \in BoughtBooks(S \cup {a})
    BY <2>1, <2>2, <2>3, BuyStep
  <2>6. QED BY <2>2, <2>4, <2>5
<1> HIDE DEF T, upTo
<1>13. \A i \in Nat : i \in T
  BY <1>11, <1>12, SetInduction
<1>14. it[1..N] \in BoughtBooks(upTo(N))
  BY <1>1, <1>13 DEF T
<1>15. upTo(N) \subseteq Assets
  BY <1>1 DEF upTo
<1>16. it[1..N] \in BoughtBooks(Assets)
  BY <1>14, <1>15 DEF BoughtBooks
<1>17. QED BY <1>8, <1>16

LEMMA SettledFits ==
  ASSUME NEW b \in OpenControl
  PROVE  /\ Settled(b) \in [Assets -> Nat]
         /\ \A a \in Assets : Settled(b)[a] > 0 => Settled(b)[a] = b.target.remaining[a]
BY DEF OpenControl, OpenTarget, Settled

\* The book as execute_target leaves it.
Executed(acc, now) ==
  LET remaining == Settled(acc.book)
  IN  [acc.book EXCEPT !.appliedAt = now, !.portfolioAt = now,
          !.target = IF \E a \in Assets : remaining[a] > 0
                     THEN [acc.book.target EXCEPT !.remaining = remaining, !.status = "pending_sells", !.attempts = @ + 1]
                     ELSE NoTarget]

LEMMA ExecutedFits ==
  ASSUME CanExecute, NEW acc \in Booking, Executing(acc), FillsInOrder(Journal(acc), targets), NEW now \in Boundaries,
         control' = Executed(acc, now), controlFills' = Journal(acc), targets' = targets
  PROVE  ControlInv'
<1> DEFINE b == acc.book
           t == b.target
           rem == Settled(b)
           more == t.attempts + 1
           t2 == [t EXCEPT !.remaining = rem, !.status = "pending_sells", !.attempts = more]
           any == \E a \in Assets : rem[a] > 0
           new == IF any THEN t2 ELSE NoTarget
<1>1. /\ SamePlan(b) /\ ControlBooked(b, Journal(acc)) /\ SellsFrozen(t, Journal(acc)) /\ b \in OpenControl
  BY DEF Executing, Booking
<1>2. b \in ControlDoc /\ t \in OpenTarget /\ t.attempts \in Nat /\ now \in Int
  BY <1>1 DEF OpenControl, OpenTarget, Boundaries
<1>3. rem \in [Assets -> Nat] /\ \A a \in Assets : rem[a] > 0 => rem[a] = t.remaining[a]
  BY <1>1, SettledFits
<1>4. t.id = control.target.id
  <2>1. control.target \in OpenTarget
    BY DEF CanExecute
  <2>2. t = [control.target EXCEPT !.remaining = t.remaining]
    BY <1>1 DEF SamePlan, SameTarget
  <2> DEFINE w == t.remaining
  <2> HIDE DEF w
  <2>3. t = [control.target EXCEPT !.remaining = w]
    BY <2>2 DEF w
  <2> HIDE DEF t
  <2>4. QED BY <2>1, <2>3 DEF OpenTarget
<1>5. control' = [b EXCEPT !.appliedAt = now, !.portfolioAt = now, !.target = new]
  BY DEF Executed
<1>6. b.kind = control.kind /\ b.initialized = control.initialized
  BY <1>1 DEF SamePlan
<1>7. more \in Nat \ {0}
  BY <1>2
<1> HIDE DEF rem, more, t, b
<1>8. t2 \in OpenTarget /\ t2.remaining = rem /\ t2.id = t.id /\ t2.original = t.original /\ t2.attempts = more
  BY <1>2, <1>3, <1>7 DEF OpenTarget
<1> HIDE DEF t2
<1>9. new \in OpenTarget \cup {NoTarget} /\ (new # NoTarget => new = t2)
  BY <1>8
<1> HIDE DEF new
<1>10. /\ control' \in ControlDoc /\ control'.appliedAt = now /\ control'.target = new /\ control'.kind = control.kind
       /\ control'.initialized = control.initialized /\ control'.cash = b.cash /\ control'.units = b.units
       /\ control'.receivables = b.receivables
  BY <1>2, <1>5, <1>6, <1>9 DEF ControlDoc
<1>11. ControlBooked(control, controlFills)'
  BY <1>1, <1>10 DEF ControlBooked
<1>12. /\ targets \in 0..MaxTargets /\ control.target.id = targets /\ control.target.id > 0 /\ control.kind # "none"
       /\ (control.kind = "passive" => targets = IF control.initialized THEN 1 ELSE 0)
  BY TargetIsOpen DEF CanExecute, ControlInv
<1>13. ASSUME new # NoTarget
       PROVE  /\ new.id = targets /\ SellsFrozen(new, Journal(acc)) /\ new.attempts # 0
  BY <1>9, <1>13, <1>1, <1>3, <1>8, <1>4, <1>7, <1>12 DEF SellsFrozen
<1>14. FillsInOrder(controlFills, targets)'
  OBVIOUS
<1>15. QED BY <1>10, <1>11, <1>12, <1>13, <1>14 DEF ControlInv, Boundaries

LEMMA ControlExecutes ==
  ASSUME ControlInv, NEW now \in Boundaries, NEW retryAt, NEW prices \in SomePrices, ExecuteTarget(now, retryAt, prices)
  PROVE  ControlInv'
<1> DEFINE sold == SellAll(prices)
           done == IF control.target.attempts > 0 THEN sold ELSE BuyAll(sold, prices)
<1>1. CanExecute /\ control.target.attempts \in Nat
  BY DEF ControlInv, ControlDoc, ExecuteTarget, MayExecute, NoTarget, CanExecute, OpenTarget
<1>2. \A x \in DOMAIN prices : prices[x] \in AssetPrices
  BY DEF SomePrices
<1>3. sold \in SellingBooks
  BY <1>1, <1>2, SalesDone
<1>4. ASSUME control.target.attempts = 0 PROVE BuyAll(sold, prices) \in BoughtBooks(Assets)
  BY <1>1, <1>2, <1>3, <1>4, BuysDone
<1>5. control' = Executed(done, now) /\ controlFills' = controlFills \o done.fills /\ targets' = targets
  BY DEF ExecuteTarget, Executed
<1>6. done \in SellingBooks \/ done \in BoughtBooks(Assets)
  BY <1>1, <1>3, <1>4
<1> HIDE DEF done
<1>7. done \in Booking /\ Executing(done) /\ FillsInOrder(Journal(done), targets)
  BY <1>6 DEF SellingBooks, BoughtBooks
<1>8. QED BY <1>1, <1>5, <1>7, ExecutedFits DEF Journal

LEMMA ControlMade ==
  ASSUME ControlInv, NEW kind \in {"matched", "passive"}, InitialState(kind)
  PROVE  ControlInv'
<1>1. control = NewControl("none") /\ control' = NewControl(kind) /\ controlFills' = <<>> /\ controlFills = <<>>
      /\ targets' = 0 /\ targets = 0 /\ controlFills' = controlFills
  BY DEF InitialState, ControlInv
<1>2. /\ control' \in ControlDoc /\ control'.cash = control.cash /\ control'.units = control.units /\ control'.target = NoTarget
      /\ control'.receivables = control.receivables /\ control'.kind = kind /\ control'.initialized = FALSE /\ control'.appliedAt = -1
  BY <1>1, ControlAmounts DEF NewControl, ControlDoc
<1>3. ControlBooked(control, controlFills) /\ FillsInOrder(controlFills, targets) /\ 0 \in 0..MaxTargets
  BY <1>1 DEF ControlInv
<1>4. ControlBooked(control', controlFills') /\ FillsInOrder(controlFills', targets')
  BY <1>1, <1>2, <1>3 DEF ControlBooked
<1> HIDE DEF NoTarget
<1>5. QED BY <1>1, <1>2, <1>3, <1>4 DEF ControlInv

LEMMA ControlSplits ==
  ASSUME ControlInv, NEW now \in Boundaries, NEW a \in Assets, ControlSplit(now, a)
  PROVE  ControlInv'
<1> DEFINE r == Event("split", a, 0, control.units[a], 0)
           twice == control.units[a] * 2
           own == [control.units EXCEPT ![a] = twice]
<1>1. /\ control \in ControlDoc /\ control.units \in [Assets -> Int] /\ control.cash \in Int
      /\ control.target \in OpenTarget \cup {NoTarget} /\ control.units[a] \in Int
  BY DEF ControlInv, ControlDoc
<1>2. control.target = NoTarget
  BY <1>1, TargetIsOpen DEF ControlSplit, MayAct
<1>3. control' = [control EXCEPT !.units = own, !.appliedAt = now] /\ controlFills' = Append(controlFills, r) /\ targets' = targets
  BY <1>1 DEF ControlSplit, ControlDoc
<1>4. r \in FillRow /\ r.units = control.units[a] /\ r.asset = a /\ r.cash = 0 /\ r.side = "split" /\ r.target = 0
  BY <1>1 DEF FillRow, Event
<1>5. own \in [Assets -> Int] /\ \A x \in Assets : own[x] = control.units[x] + (IF x = a THEN control.units[a] ELSE 0)
  BY <1>1
<1> HIDE DEF r, own
<1>6. /\ control' \in ControlDoc /\ control'.units = own /\ control'.appliedAt = now /\ control'.target = NoTarget
      /\ control'.cash = control.cash /\ control'.kind = control.kind /\ control'.initialized = control.initialized
      /\ control'.receivables = control.receivables
  <2>1. now \in Int
    BY DEF Boundaries
  <2>2. QED BY <1>1, <1>2, <1>3, <1>5, <2>1 DEF ControlDoc
<1>7. ControlBooked(control, controlFills)'
  <2> DEFINE c == control'
  <2>1. ControlBooked(control, controlFills)
    BY DEF ControlInv
  <2>2. c.cash >= 0 /\ c.cash = control.cash + r.cash
    BY <1>1, <1>4, <1>6, <2>1 DEF ControlBooked
  <2>3. ASSUME NEW x \in Assets PROVE c.units[x] >= 0 /\ c.units[x] = control.units[x] + (IF x = r.asset THEN r.units ELSE 0)
    BY <1>1, <2>1, <1>4, <1>5, <1>6 DEF ControlBooked
  <2>4. DividendsOwed(c.receivables, Append(controlFills, r))
    BY <1>4, <1>6, <2>1, OwedKept DEF ControlBooked
  <2> HIDE DEF c
  <2>5. ControlBooked(c, Append(controlFills, r))
    BY <1>4, <2>1, <2>2, <2>3, <2>4, BookedGrows
  <2>6. QED BY <1>3, <2>5 DEF ControlBooked, c
<1>8. FillsInOrder(controlFills, targets)'
  BY <1>4, OrderGrows, <1>3 DEF ControlInv, ControlBooked
<1>9. control.kind # "none"
  BY DEF ControlSplit, MayAct
<1>10. QED BY <1>3, <1>6, <1>7, <1>8, <1>9 DEF ControlInv

\* Corporate actions leave targets, units and the order of the fills alone.
LEMMA ActionBooked ==
  ASSUME ControlInv, NEW now \in Boundaries, MayAct(now), UNCHANGED targets, NEW dues \in SUBSET DueClaim, NEW gain \in Nat,
         control' = [control EXCEPT !.appliedAt = now, !.receivables = dues, !.cash = control.cash + gain],
         NEW r \in FillRow, controlFills' = Append(controlFills, r), r.side \in {"dividend", "payment"}, r.target = 0,
         r.units = 0, r.cash = gain, DividendsOwed(dues, Append(controlFills, r))
  PROVE  ControlInv'
<1>1. control \in ControlDoc /\ control.cash \in Int /\ ControlBooked(control, controlFills) /\ now \in Int
  BY DEF ControlInv, ControlDoc, Boundaries
<1>2. control.target = NoTarget /\ control.kind # "none"
  BY <1>1, TargetIsOpen DEF MayAct, ControlDoc
<1> DEFINE sum == control.cash + gain
<1>3. sum \in Int /\ control' = [control EXCEPT !.appliedAt = now, !.receivables = dues, !.cash = sum]
  BY <1>1
<1> HIDE DEF sum
<1>4. /\ control' \in ControlDoc /\ control'.units = control.units /\ control'.appliedAt = now /\ control'.target = NoTarget
      /\ control'.cash = sum /\ control'.kind = control.kind /\ control'.initialized = control.initialized
      /\ control'.receivables = dues
  BY <1>1, <1>2, <1>3 DEF ControlDoc
<1>5. ControlBooked(control, controlFills)'
  <2> DEFINE c == control'
  <2>1. c.cash >= 0 /\ c.cash = control.cash + r.cash
    BY <1>1, <1>4 DEF ControlBooked, sum
  <2>2. ASSUME NEW x \in Assets PROVE c.units[x] >= 0 /\ c.units[x] = control.units[x] + (IF x = r.asset THEN r.units ELSE 0)
    BY <1>1, <1>4 DEF ControlBooked, ControlDoc
  <2>3. DividendsOwed(c.receivables, Append(controlFills, r))
    BY <1>4
  <2> HIDE DEF c
  <2>4. ControlBooked(c, Append(controlFills, r))
    BY <1>1, <2>1, <2>2, <2>3, BookedGrows
  <2>5. QED BY <2>4 DEF ControlBooked, c
<1>6. FillsInOrder(controlFills, targets)'
  BY OrderGrows DEF ControlInv, ControlBooked
<1>7. QED BY <1>2, <1>4, <1>5, <1>6 DEF ControlInv

LEMMA ControlOwes ==
  ASSUME ControlInv, NEW now \in Boundaries, NEW a \in Assets, NEW perUnit \in DividendsPerUnit,
         NEW due \in Boundaries \cup {-1}, ControlDividend(now, a, perUnit, due)
  PROVE  ControlInv'
<1> DEFINE amount == control.units[a] * perUnit
           m == Len(controlFills) + 1
           k == [event |-> m, asset |-> a, amount |-> amount, since |-> now, due |-> due]
           r == Event("dividend", a, amount, 0, 0)
           F == Append(controlFills, r)
           old == control.receivables
           dues == old \cup {k}
<1>1. /\ control \in ControlDoc /\ control.cash \in Int /\ control.units[a] \in Nat /\ old \in SUBSET DueClaim
      /\ controlFills \in Seq(FillRow) /\ DividendsOwed(old, controlFills) /\ now \in Int /\ due \in Int
  BY DEF ControlInv, ControlDoc, ControlBooked, Boundaries
<1>2. amount \in Nat
  BY <1>1, ControlAmounts
<1>3. control' = [control EXCEPT !.appliedAt = now, !.receivables = dues] /\ controlFills' = F /\ UNCHANGED targets /\ MayAct(now)
  BY DEF ControlDividend
<1> HIDE DEF amount
<1>4. /\ DOMAIN controlFills = 1..Len(controlFills) /\ DOMAIN F = 1..m /\ F[m] = r /\ (\A i \in DOMAIN controlFills : F[i] = controlFills[i])
      /\ Len(controlFills) \in Nat /\ m \in Nat
  BY <1>1, AppendProperties, LenProperties
<1>5. /\ k \in DueClaim /\ r \in FillRow /\ r.side = "dividend" /\ r.quantity = amount /\ r.cash = 0 /\ r.units = 0 /\ r.target = 0
  BY <1>1, <1>2, <1>4 DEF DueClaim, FillRow, Event
<1>6. k.event = m /\ k.amount = amount
  OBVIOUS
<1>7. DOMAIN controlFills \subseteq DOMAIN F /\ m \in DOMAIN F /\ m \notin DOMAIN controlFills
      /\ \A i \in DOMAIN F : i \in DOMAIN controlFills \/ i = m
  BY <1>4
<1>8. IsFiniteSet(dues)
  BY <1>1, FS_AddElement DEF DividendsOwed
<1> HIDE DEF k, r, F, m
<1>9. \A i \in DOMAIN F : F[i].side = "payment" => i \in DOMAIN controlFills /\ F[i] = controlFills[i]
  BY <1>4, <1>5, <1>7
<1>10. DividendsOwed(dues, F)
  <2>1. \A x \in dues : x = k \/ (x \in old /\ x.event \in DOMAIN controlFills)
    BY <1>1 DEF DividendsOwed
  <2>2. ASSUME NEW i \in DOMAIN F, F[i].side = "payment" PROVE F[i].quantity \in DOMAIN controlFills
    BY <1>1, <1>9, <2>2 DEF DividendsOwed
  <2>3. ASSUME NEW x \in dues
        PROVE  /\ x.event \in DOMAIN F /\ F[x.event].side = "dividend" /\ F[x.event].quantity = x.amount
               /\ x.amount >= 0 /\ \A i \in DOMAIN F : ~(F[i].side = "payment" /\ F[i].quantity = x.event)
    BY <1>1, <1>2, <1>4, <1>5, <1>6, <1>7, <1>9, <2>1, <2>2 DEF DividendsOwed
  <2>4. \A x, y \in dues : x.event = y.event => x = y
    BY <1>1, <1>6, <1>7, <2>1 DEF DividendsOwed
  <2>5. ASSUME NEW i \in DOMAIN F, F[i].side = "payment"
        PROVE  /\ F[i].quantity \in DOMAIN F /\ F[i].quantity < i /\ F[F[i].quantity].side = "dividend"
               /\ F[i].cash = F[F[i].quantity].quantity
               /\ \A j \in DOMAIN F : F[j].side = "payment" /\ F[j].quantity = F[i].quantity => j = i
    BY <1>1, <1>4, <1>7, <1>9, <2>2, <2>5 DEF DividendsOwed
  <2>6. ASSUME NEW i \in DOMAIN F, F[i].side = "dividend"
        PROVE  (\E x \in dues : x.event = i) \/ \E j \in DOMAIN F : F[j].side = "payment" /\ F[j].quantity = i
    BY <1>1, <1>4, <1>6, <1>7, <2>6 DEF DividendsOwed
  <2> HIDE DEF dues
  <2>7. QED BY <1>8, <2>3, <2>4, <2>5, <2>6 DEF DividendsOwed
<1>11. dues \in SUBSET DueClaim
  BY <1>1, <1>5
<1> HIDE DEF dues
<1>12. control' = [control EXCEPT !.appliedAt = now, !.receivables = dues, !.cash = control.cash + 0]
  <2>1. control.cash + 0 = control.cash
    BY <1>1
  <2>2. QED BY <1>1, <1>3, <2>1 DEF ControlDoc
<1>13. QED BY <1>3, <1>5, <1>10, <1>11, <1>12, ActionBooked DEF F

LEMMA ControlSchedules ==
  ASSUME ControlInv, NEW now \in Boundaries, NEW k \in control.receivables, NEW due \in Boundaries, ScheduleDividend(now, k, due)
  PROVE  ControlInv'
<1> DEFINE old == control.receivables
           n == [k EXCEPT !.due = due]
           dues == (old \ {k}) \cup {n}
<1>1. control \in ControlDoc /\ old \in SUBSET DueClaim /\ ControlBooked(control, controlFills) /\ now \in Int /\ due \in Int
  BY DEF ControlInv, ControlDoc, Boundaries
<1>2. control.target = NoTarget /\ control.kind # "none"
  BY <1>1, TargetIsOpen DEF ScheduleDividend, MayAct, ControlDoc
<1>3. n \in DueClaim /\ n.event = k.event /\ n.amount = k.amount
  BY <1>1 DEF DueClaim
<1>4. control' = [control EXCEPT !.appliedAt = now, !.receivables = dues] /\ UNCHANGED <<controlFills, targets>>
  BY DEF ScheduleDividend
<1>5. IsFiniteSet(dues)
  BY <1>1, FS_AddElement, FS_RemoveElement DEF ControlBooked, DividendsOwed
<1> HIDE DEF n
<1>6. DividendsOwed(dues, controlFills)
  BY <1>1, <1>3, <1>5 DEF ControlBooked, DividendsOwed
<1>7. dues \in SUBSET DueClaim
  BY <1>1, <1>3
<1> HIDE DEF dues
<1>8. /\ control' \in ControlDoc /\ control'.appliedAt = now /\ control'.receivables = dues /\ control'.cash = control.cash
      /\ control'.units = control.units /\ control'.target = NoTarget /\ control'.kind = control.kind
      /\ control'.initialized = control.initialized
  BY <1>1, <1>2, <1>4, <1>7 DEF ControlDoc
<1>9. ControlBooked(control, controlFills)'
  BY <1>1, <1>4, <1>6, <1>8 DEF ControlBooked
<1>10. QED BY <1>2, <1>4, <1>8, <1>9 DEF ControlInv, FillsInOrder

LEMMA ControlPaid ==
  ASSUME ControlInv, NEW now \in Boundaries, NEW k \in control.receivables, PayDividend(now, k)
  PROVE  ControlInv'
<1> DEFINE m == Len(controlFills) + 1
           r == Event("payment", k.asset, k.event, 0, k.amount)
           F == Append(controlFills, r)
           old == control.receivables
           dues == old \ {k}
<1>1. /\ control \in ControlDoc /\ old \in SUBSET DueClaim /\ k \in old
      /\ controlFills \in Seq(FillRow) /\ DividendsOwed(old, controlFills)
  BY DEF ControlInv, ControlDoc, ControlBooked
<1>2. /\ control' = [control EXCEPT !.appliedAt = now, !.receivables = dues, !.cash = control.cash + k.amount]
      /\ controlFills' = F /\ UNCHANGED targets /\ MayAct(now)
  BY DEF PayDividend
<1>3. /\ DOMAIN controlFills = 1..Len(controlFills) /\ DOMAIN F = 1..m /\ F[m] = r /\ (\A i \in DOMAIN controlFills : F[i] = controlFills[i])
      /\ Len(controlFills) \in Nat /\ m \in Nat
  BY <1>1, AppendProperties, LenProperties
<1>4. /\ r \in FillRow /\ r.side = "payment" /\ r.quantity = k.event /\ r.cash = k.amount /\ r.units = 0 /\ r.target = 0
      /\ k.amount \in Nat
  BY <1>1 DEF DueClaim, FillRow, Event, DividendsOwed
<1>5. /\ DOMAIN controlFills \subseteq DOMAIN F /\ m \in DOMAIN F /\ (\A i \in DOMAIN controlFills : i < m)
      /\ \A i \in DOMAIN F : i \in DOMAIN controlFills \/ i = m
  BY <1>3
<1>6. IsFiniteSet(dues)
  BY <1>1, FS_RemoveElement DEF DividendsOwed
<1> HIDE DEF r, F, m
<1>7. DividendsOwed(dues, F)
  <2>1. /\ k.event \in DOMAIN controlFills /\ controlFills[k.event].side = "dividend" /\ controlFills[k.event].quantity = k.amount
        /\ \A i \in DOMAIN controlFills : ~(controlFills[i].side = "payment" /\ controlFills[i].quantity = k.event)
    BY <1>1 DEF DividendsOwed
  <2>2. ASSUME NEW x \in dues
        PROVE  /\ x.event \in DOMAIN F /\ F[x.event].side = "dividend" /\ F[x.event].quantity = x.amount
               /\ x.amount >= 0 /\ x.event # k.event
               /\ \A i \in DOMAIN F : ~(F[i].side = "payment" /\ F[i].quantity = x.event)
    <3>1. x \in old /\ x.event # k.event
      BY <1>1 DEF DividendsOwed
    <3>2. QED BY <1>1, <1>3, <1>4, <1>5, <3>1 DEF DividendsOwed
  <2>3. \A x, y \in dues : x.event = y.event => x = y
    BY <1>1 DEF DividendsOwed
  <2>4. ASSUME NEW i \in DOMAIN F, F[i].side = "payment"
        PROVE  /\ F[i].quantity \in DOMAIN F /\ F[i].quantity < i /\ F[F[i].quantity].side = "dividend"
               /\ F[i].cash = F[F[i].quantity].quantity
               /\ \A j \in DOMAIN F : F[j].side = "payment" /\ F[j].quantity = F[i].quantity => j = i
    <3>1. CASE i = m
      BY <1>3, <1>4, <1>5, <2>1, <3>1
    <3>2. CASE i \in DOMAIN controlFills
      BY <1>1, <1>3, <1>4, <1>5, <2>1, <2>4, <3>2 DEF DividendsOwed
    <3>3. QED BY <1>5, <3>1, <3>2
  <2>5. ASSUME NEW i \in DOMAIN F, F[i].side = "dividend"
        PROVE  (\E x \in dues : x.event = i) \/ \E j \in DOMAIN F : F[j].side = "payment" /\ F[j].quantity = i
    <3>1. i \in DOMAIN controlFills /\ F[i] = controlFills[i]
      BY <1>3, <1>4, <1>5, <2>5
    <3>2. CASE i = k.event
      BY <1>3, <1>4, <1>5, <3>2
    <3>3. CASE i # k.event
      BY <1>1, <1>3, <1>5, <2>5, <3>1, <3>3 DEF DividendsOwed
    <3>4. QED BY <3>2, <3>3
  <2> HIDE DEF dues
  <2>6. QED BY <1>6, <2>2, <2>3, <2>4, <2>5 DEF DividendsOwed
<1>8. dues \in SUBSET DueClaim
  BY <1>1
<1> HIDE DEF dues
<1>9. QED BY <1>2, <1>4, <1>7, <1>8, ActionBooked DEF F

\* A sum of whole numbers over the assets is a whole number.
LEMMA AssetSums ==
  ASSUME NEW f \in [Assets -> Int]
  PROVE  Summable(f, Assets) /\ SumFunction(f) \in Int
BY ControlAmounts, SumsAreInt DEF Summable

LEMMA EquityFits == ASSUME ControlInv, NEW prices \in [Assets -> AssetPrices] PROVE Equity(prices) \in Int
<1> DEFINE f == [a \in Assets |-> control.units[a] * prices[a]]
           g == [k \in control.receivables |-> k.amount]
<1>1. control.cash \in Int /\ control.units \in [Assets -> Int] /\ \A a \in Assets : prices[a] \in Int
  BY ControlAmounts DEF ControlInv, ControlDoc
<1>2. f \in [Assets -> Int]
  BY <1>1
<1>3. Summable(g, control.receivables)
  <2>1. control.receivables \in SUBSET DueClaim /\ IsFiniteSet(control.receivables)
    BY DEF ControlInv, ControlDoc, ControlBooked, DividendsOwed
  <2>2. QED BY <2>1 DEF DueClaim, Summable
<1> HIDE DEF f, g
<1>4. SumFunction(f) \in Int /\ SumFunction(g) \in Int
  BY <1>2, <1>3, AssetSums, SumsAreInt
<1>5. QED BY <1>1, <1>4 DEF Equity, f, g

\* The cash ceilings of the buys are whole numbers.
LEMMA BudgetsFit ==
  ASSUME NEW available \in Int, NEW costs \in [Assets -> Int]
  PROVE  Budgets(available, costs) \in [Assets -> Int]
<1> DEFINE N == Len(AssetOrder)
           A == [left : Int, of : [Assets -> Int]]
           first == [left |-> available, of |-> [a \in Assets |-> 0]]
           G == [p \in A \X (1..N) |-> Share(p[1], AssetOrder[p[2]], costs)]
           Iter(f) == [s \in SUBSET (1..N) |-> IF s = {} THEN first ELSE Share(f[s \ {Max(s)}], AssetOrder[Max(s)], costs)]
           it == CHOOSE f : f = Iter(f)
<1>1. N \in Nat /\ DOMAIN AssetOrder = 1..N /\ \A i \in 1..N : AssetOrder[i] \in Assets
  BY OrderOf, ControlAmounts, LenProperties, ElementOfSeq DEF AssetOrder
<1>2. first \in A
  OBVIOUS
<1>3. ASSUME NEW acc \in A, NEW a \in Assets PROVE Share(acc, a, costs) \in A
  <2> DEFINE budget == Min({acc.left, costs[a]})
  <2>1. budget \in Int
    BY MinOfTwo
  <2> HIDE DEF budget
  <2>2. acc.left - budget \in Int /\ [acc.of EXCEPT ![a] = budget] \in [Assets -> Int]
    BY <2>1
  <2>3. QED BY <2>2 DEF Share, budget
<1>4. G \in [A \X (1..N) -> A] /\ \A x \in A, i \in 1..N : G[<<x, i>>] = Share(x, AssetOrder[i], costs)
  BY <1>1, <1>3
<1> HIDE DEF A, first, G, N
<1>5. PICK f : Folding(f, N, A, first, G)
  BY <1>1, <1>2, <1>4, FoldIterates
<1>6. f = Iter(f)
  <2>1. ASSUME NEW s \in SUBSET (1..N), s # {} PROVE G[<<f[s \ {Max(s)}], Max(s)>>] = Share(f[s \ {Max(s)}], AssetOrder[Max(s)], costs)
    BY <1>1, <2>1, LargestIndex, <1>5, <1>4 DEF Folding
  <2>2. \A s \in SUBSET (1..N) : f[s] = IF s = {} THEN first ELSE Share(f[s \ {Max(s)}], AssetOrder[Max(s)], costs)
    BY <1>5, <2>1 DEF Folding
  <2>3. f = [s \in SUBSET (1..N) |-> f[s]]
    BY <1>5 DEF Folding
  <2>4. QED BY <2>2, <2>3
<1>7. it = Iter(it)
  BY <1>6
<1> HIDE DEF it
<1>8. Budgets(available, costs) = it[1..N].of
  BY <1>1 DEF Budgets, FoldLeft, MapThenFoldSet, it, first
<1> DEFINE onward == [s \in SUBSET (1..N) |-> Share(it[s \ {Max(s)}], AssetOrder[Max(s)], costs)]
<1>9. IsFold(it, N, onward, first)
  BY <1>7 DEF IsFold
<1>10. it[1..0] = first /\ \A i \in 1..N : it[1..i] = Share(it[1..(i - 1)], AssetOrder[i], costs)
  <2>1. \A s \in SUBSET (1..N) : onward[s] = Share(it[s \ {Max(s)}], AssetOrder[Max(s)], costs)
    OBVIOUS
  <2> HIDE DEF onward
  <2>2. FoldWalks(it, N, onward, first)
    BY <1>1, <1>9, FoldWalk
  <2>3. QED BY <2>1, <2>2 DEF FoldWalks
<1> DEFINE T == {i \in Nat : i <= N => it[1..i] \in A}
<1>11. 0 \in T
  BY <1>2, <1>10
<1>12. ASSUME NEW i \in Nat, i \in T PROVE i + 1 \in T
  <2> SUFFICES ASSUME i + 1 <= N PROVE it[1..(i + 1)] \in A
    OBVIOUS
  <2>1. it[1..i] \in A /\ i + 1 \in 1..N /\ (i + 1) - 1 = i
    BY <1>1, <1>12
  <2>2. it[1..(i + 1)] = Share(it[1..i], AssetOrder[i + 1], costs)
    BY <1>10, <2>1
  <2>3. QED BY <1>1, <1>3, <2>1, <2>2
<1> HIDE DEF T
<1>13. \A i \in Nat : i \in T
  BY <1>11, <1>12, SetInduction
<1>14. it[1..N] \in A
  BY <1>1, <1>13 DEF T
<1>15. QED BY <1>8, <1>14 DEF A

\* A quotient by something positive is a whole number.
LEMMA WholeQuotient == \A x \in Int, y \in Nat \ {0} : x \div y \in Int
OBVIOUS

\* No fill of a target that has none: nothing was sold of it.
LEMMA UnfilledSells ==
  ASSUME NEW fills \in Seq(FillRow), NEW id, NoneFilled(fills, id), NEW a
  PROVE  RowSum(fills, SellsOf(id, a), UnitWeights) = 0
<1> DEFINE R == SellsOf(id, a)
           f == Weighed(fills, R, UnitWeights)
<1>1. RowsIn(fills, R) = {}
  BY DEF RowsIn, SellsOf, NoneFilled
<1>2. UnitWeights \in [FillRow -> Int]
  BY DEF UnitWeights, FillRow
<1> HIDE DEF R
<1>3. Summable(f, RowsIn(fills, R))
  BY <1>2, RowSumType
<1> HIDE DEF f
<1>4. (\A y \in RowsIn(fills, R) : f[y] = 0) => SumFunction(f) = 0
  BY <1>3, SumsAreInt
<1>5. SumFunction(f) = 0
  BY <1>1, <1>4
<1>6. QED BY <1>5 DEF RowSum, f, R

\* What prepare_target plans: units to sell and to buy, the proceeds and the ceilings.
LEMMA PlanFits ==
  ASSUME ControlInv, NEW weights \in [Assets -> Int], NEW prices \in [Assets -> AssetPrices], NEW scheduled,
         PrepareTarget(weights, prices, scheduled)
  PROVE  \E sells \in [Assets -> Nat], buys \in [Assets -> Int], budgets \in [Assets -> Int] :
           control' = [control EXCEPT !.initialized = @ \/ control.kind = "passive",
                         !.target = [id |-> targets + 1, status |-> "prepared", scheduled |-> scheduled, attempts |-> 0,
                                     buys |-> buys, original |-> sells, remaining |-> sells, budgets |-> budgets]]
<1> DEFINE worthNow == Equity(prices)
           desired == [a \in Assets |-> Stepped((weights[a] * worthNow) \div (1000 * prices[a]))]
           sells == [a \in Assets |-> Max({0, control.units[a] - desired[a]})]
           buys == [a \in Assets |-> Stepped(Max({0, desired[a] - control.units[a]}))]
           proceeds == [a \in Assets |->
                           IF Sellable(a, sells[a]) = 0 THEN 0 ELSE Max({0, Sellable(a, sells[a]) * (prices[a] - QuoteOf(a)) - FixedCost})]
           costs == [a \in Assets |-> buys[a] * prices[a]]
           budgets == Budgets(control.cash + SumFunction(proceeds), costs)
<1>1. control' = [control EXCEPT !.initialized = @ \/ control.kind = "passive",
                         !.target = [id |-> targets + 1, status |-> "prepared", scheduled |-> scheduled, attempts |-> 0,
                                     buys |-> buys, original |-> sells, remaining |-> sells, budgets |-> budgets]]
  BY DEF PrepareTarget
<1>2. /\ control.cash \in Int /\ control.units \in [Assets -> Int] /\ \A a \in Assets : prices[a] \in Nat \ {0}
      /\ worthNow \in Int
  BY ControlAmounts, EquityFits DEF ControlInv, ControlDoc
<1> HIDE DEF worthNow
<1>3. desired \in [Assets -> Int]
  <2>1. ASSUME NEW a \in Assets PROVE Stepped((weights[a] * worthNow) \div (1000 * prices[a])) \in Int
    <3> DEFINE x == weights[a] * worthNow
               y == 1000 * prices[a]
    <3>1. x \in Int /\ y \in Nat \ {0}
      BY <1>2
    <3> HIDE DEF x, y
    <3>2. x \div y \in Int
      BY <3>1, WholeQuotient
    <3>3. Stepped(x \div y) \in Int
      BY <3>2, StepsFit
    <3>4. QED BY <3>3 DEF x, y
  <2>2. QED BY <2>1
<1> HIDE DEF desired
<1>4. sells \in [Assets -> Nat]
  <2>1. ASSUME NEW a \in Assets PROVE Max({0, control.units[a] - desired[a]}) \in Nat
    <3>1. control.units[a] - desired[a] \in Int
      BY <1>2, <1>3
    <3>2. QED BY <3>1, MaxOfTwo
  <2>2. QED BY <2>1
<1>5. buys \in [Assets -> Int]
  <2>1. ASSUME NEW a \in Assets PROVE Stepped(Max({0, desired[a] - control.units[a]})) \in Int
    <3>1. desired[a] - control.units[a] \in Int
      BY <1>2, <1>3
    <3>2. Max({0, desired[a] - control.units[a]}) \in Int
      BY <3>1, MaxOfTwo
    <3>3. QED BY <3>2, StepsFit
  <2>2. QED BY <2>1
<1> HIDE DEF sells, buys
<1>6. proceeds \in [Assets -> Int]
  <2>1. ASSUME NEW a \in Assets PROVE Max({0, Sellable(a, sells[a]) * (prices[a] - QuoteOf(a)) - FixedCost}) \in Int
    <3> DEFINE q == Sellable(a, sells[a])
               p == prices[a] - QuoteOf(a)
               x == q * p - FixedCost
    <3>1. q \in Int /\ p \in Int
      BY <1>2, <1>4, SalesFit, ControlAmounts
    <3> HIDE DEF q, p
    <3>2. q * p \in Int
      BY <3>1
    <3>3. x \in Int
      BY <3>2, ControlAmounts
    <3> HIDE DEF x
    <3>4. Max({0, x}) \in Int
      BY <3>3, MaxOfTwo
    <3>5. QED BY <3>4 DEF x, q, p
  <2>2. QED BY <2>1
<1> HIDE DEF proceeds
<1>7. costs \in [Assets -> Int]
  BY <1>2, <1>5
<1> HIDE DEF costs
<1>8. control.cash + SumFunction(proceeds) \in Int
  BY <1>2, <1>6, AssetSums
<1>9. budgets \in [Assets -> Int]
  BY <1>7, <1>8, BudgetsFit
<1> HIDE DEF budgets
<1>10. QED BY <1>1, <1>4, <1>5, <1>9

LEMMA ControlPrepares ==
  ASSUME ControlInv, targets < MaxTargets, NEW weights \in [Assets -> Int], NEW prices \in [Assets -> AssetPrices],
         NEW scheduled \in Boundaries, PrepareTarget(weights, prices, scheduled)
  PROVE  ControlInv'
<1>1. PICK sells \in [Assets -> Nat], buys \in [Assets -> Int], budgets \in [Assets -> Int] :
           control' = [control EXCEPT !.initialized = @ \/ control.kind = "passive",
                         !.target = [id |-> targets + 1, status |-> "prepared", scheduled |-> scheduled, attempts |-> 0,
                                     buys |-> buys, original |-> sells, remaining |-> sells, budgets |-> budgets]]
  BY PlanFits
<1> DEFINE t == [id |-> targets + 1, status |-> "prepared", scheduled |-> scheduled, attempts |-> 0,
                 buys |-> buys, original |-> sells, remaining |-> sells, budgets |-> budgets]
           begun == control.initialized \/ control.kind = "passive"
<1>2. targets' = targets + 1 /\ controlFills' = controlFills /\ control.kind # "none" /\ (control.kind = "passive" => ~control.initialized)
  BY DEF PrepareTarget
<1>3. control \in ControlDoc /\ targets \in Nat /\ targets' \in 0..MaxTargets /\ targets' > 0 /\ control.initialized \in BOOLEAN
  BY ControlAmounts, <1>2 DEF ControlInv, ControlDoc
<1>4. t \in OpenTarget /\ t.id = targets' /\ t.remaining = t.original /\ t.attempts = 0 /\ t.remaining = sells
  BY <1>2, <1>3 DEF OpenTarget, Boundaries
<1>5. control' = [control EXCEPT !.initialized = begun, !.target = t] /\ begun \in BOOLEAN
  BY <1>1, <1>3 DEF ControlDoc
<1> HIDE DEF t, begun
<1>6. /\ control' \in ControlDoc /\ control'.target = t /\ control'.kind = control.kind /\ control'.cash = control.cash
      /\ control'.units = control.units /\ control'.appliedAt = control.appliedAt /\ control'.initialized = begun
      /\ control'.receivables = control.receivables
  BY <1>3, <1>4, <1>5 DEF ControlDoc
<1>7. ControlBooked(control, controlFills) /\ controlFills \in Seq(FillRow) /\ FillsInOrder(controlFills, targets)
  BY DEF ControlInv, ControlBooked
<1>8. ControlBooked(control, controlFills)'
  BY <1>2, <1>6, <1>7 DEF ControlBooked
<1>9. NoneFilled(controlFills, targets') /\ FillsInOrder(controlFills, targets')
  <2>1. ASSUME NEW i \in DOMAIN controlFills PROVE controlFills[i].target # targets' /\ controlFills[i].target <= targets'
    <3>1. controlFills[i] \in FillRow
      BY <1>7, LenProperties, ElementOfSeq
    <3>2. controlFills[i].target \in Nat /\ controlFills[i].target <= targets
      BY <1>7, <3>1 DEF FillsInOrder, FillRow
    <3>3. QED BY <1>2, <1>3, <3>2
  <2>2. QED BY <1>7, <2>1 DEF NoneFilled, FillsInOrder
<1>10. SellsFrozen(t, controlFills)
  <2>1. ASSUME NEW a \in Assets PROVE t.remaining[a] - RowSum(controlFills, SellsOf(t.id, a), UnitWeights) = t.original[a]
    BY <1>4, <1>7, <1>9, UnfilledSells
  <2>2. QED BY <2>1 DEF SellsFrozen
<1>11. control.kind = "passive" => targets' = IF begun THEN 1 ELSE 0
  BY <1>2 DEF ControlInv, begun
<1>12. control.appliedAt \in Boundaries \cup {-1}
  BY DEF ControlInv
<1>13. QED BY <1>2, <1>3, <1>4, <1>6, <1>8, <1>9, <1>10, <1>11, <1>12 DEF ControlInv

-----------------------------------------------------------------------------
(* The weights of a target add up to no more than the equity.              *)

LEMMA SumOfScaled ==
  ASSUME NEW S, NEW f, Summable(f, S), NEW c \in Int, NEW g, DOMAIN g = S, \A y \in S : g[y] = c * f[y]
  PROVE  Summable(g, S) /\ SumFunction(g) = c * SumFunction(f) /\ SumFunction(f) \in Int
<1> DEFINE pf(s) == [y \in s |-> f[y]]
           pg(s) == [y \in s |-> g[y]]
           G == {s \in SUBSET S : SumFunction(pg(s)) = c * SumFunction(pf(s))}
<1>1. IsFiniteSet(S) /\ DOMAIN f = S /\ (\A y \in S : f[y] \in Int) /\ \A y \in S : g[y] \in Int
  BY DEF Summable
<1>2. ASSUME NEW s \in SUBSET S PROVE Summable(pf(s), s) /\ Summable(pg(s), s)
  BY <1>1, FS_Subset DEF Summable
<1>3. {} \in G
  <2> DEFINE a == pf({})
             b == pg({})
  <2>1. Summable(a, {}) /\ Summable(b, {})
    <3>1. {} \in SUBSET S
      OBVIOUS
    <3> HIDE DEF pf, pg
    <3>2. QED BY <1>2, <3>1
  <2> HIDE DEF a, b
  <2>2. SumFunction(a) = 0 /\ SumFunction(b) = 0
    BY <2>1, SumsAreInt
  <2>3. QED BY <2>2 DEF a, b
<1>4. ASSUME NEW s \in SUBSET S, s # {}, s \ {Pick(s)} \in G PROVE s \in G
  <2> DEFINE p == Pick(s)
             r == s \ {p}
             a == pf(s)
             b == pg(s)
             ar == pf(r)
             br == pg(r)
  <2>1. p \in s /\ p \in S
    BY <1>4 DEF Pick
  <2>2. r \in SUBSET S /\ p \notin r /\ s = r \cup {p}
    BY <2>1
  <2>3. Summable(ar, r) /\ Summable(br, r)
    BY <1>2, <2>2
  <2>4. /\ Grown(a, ar, r, p) /\ Grown(b, br, r, p) /\ a[p] = f[p] /\ b[p] = c * f[p] /\ f[p] \in Int
    BY <1>1, <2>1, <2>2 DEF Grown
  <2>5. SumFunction(br) = c * SumFunction(ar)
    BY <1>4
  <2> HIDE DEF a, b, ar, br, r, p
  <2>6. SumFunction(a) = SumFunction(ar) + a[p] /\ SumFunction(ar) \in Int /\ SumFunction(b) = SumFunction(br) + b[p]
    BY <2>3, <2>4, SumOfOneMore
  <2>7. SumFunction(b) = c * SumFunction(a)
    <3> DEFINE x == SumFunction(ar)
               y == f[p]
    <3>1. x \in Int /\ y \in Int /\ SumFunction(b) = c * x + c * y /\ SumFunction(a) = x + y
      BY <2>4, <2>5, <2>6
    <3> HIDE DEF x, y
    <3>2. c * x + c * y = c * (x + y)
      BY <3>1
    <3>3. QED BY <3>1, <3>2
  <2>8. QED BY <2>7 DEF a, b
<1> HIDE DEF G
<1>5. S \in G
  BY <1>1, <1>3, <1>4, SubsetInduction
<1>6. SumFunction(pg(S)) = c * SumFunction(pf(S))
  BY <1>5 DEF G
<1>7. SumFunction(f) = SumFunction(pf(S)) /\ SumFunction(g) = SumFunction(pg(S))
  <2> DEFINE a == pf(S)
             b == pg(S)
  <2>1. Summable(f, S) /\ Summable(g, S) /\ DOMAIN a = S /\ DOMAIN b = S /\ \A y \in S : a[y] = f[y] /\ b[y] = g[y]
    BY <1>1 DEF Summable
  <2> HIDE DEF a, b
  <2>2. SumFunction(a) = SumFunction(f) /\ SumFunction(b) = SumFunction(g)
    BY <2>1, SumOfSame
  <2>3. QED BY <2>2 DEF a, b
<1>8. Summable(g, S)
  BY <1>1 DEF Summable
<1>9. SumFunction(f) \in Int
  BY SumsAreInt
<1>10. SumFunction(g) = c * SumFunction(f)
  BY <1>6, <1>7
<1>11. QED BY <1>8, <1>9, <1>10

LEMMA SumOfOrdered ==
  ASSUME NEW S, NEW f, Summable(f, S), NEW g, Summable(g, S), \A y \in S : f[y] <= g[y]
  PROVE  SumFunction(f) <= SumFunction(g)
BY SetSumOrder, SumIs DEF Summable

LEMMA SumOfOnes ==
  ASSUME NEW S, IsFiniteSet(S), NEW f, DOMAIN f = S, \A y \in S : f[y] = 1
  PROVE  SumFunction(f) = Cardinality(S)
<1> DEFINE pf(s) == [y \in s |-> f[y]]
           G == {s \in SUBSET S : SumFunction(pf(s)) = Cardinality(s)}
<1>2. ASSUME NEW s \in SUBSET S PROVE Summable(pf(s), s)
  BY FS_Subset DEF Summable
<1>3. {} \in G
  <2> DEFINE a == pf({})
  <2>1. Summable(a, {}) /\ Cardinality({}) = 0
    BY <1>2, FS_EmptySet
  <2> HIDE DEF a
  <2>2. SumFunction(a) = 0
    BY <2>1, SumsAreInt
  <2>3. QED BY <2>1, <2>2 DEF a
<1>4. ASSUME NEW s \in SUBSET S, s # {}, s \ {Pick(s)} \in G PROVE s \in G
  <2> DEFINE p == Pick(s)
             r == s \ {p}
             a == pf(s)
             ar == pf(r)
  <2>1. p \in s /\ p \in S /\ Cardinality(s) \in Nat /\ Cardinality(r) = Cardinality(s) - 1
    BY <1>4, Picked
  <2>2. r \in SUBSET S /\ p \notin r /\ s = r \cup {p}
    BY <2>1
  <2>3. Summable(ar, r)
    BY <1>2, <2>2
  <2>4. Grown(a, ar, r, p) /\ a[p] = 1
    BY <2>1, <2>2 DEF Grown
  <2>5. SumFunction(ar) = Cardinality(r)
    BY <1>4
  <2> HIDE DEF a, ar, r, p
  <2>6. SumFunction(a) = SumFunction(ar) + a[p] /\ SumFunction(ar) \in Int
    BY <2>3, <2>4, SumOfOneMore
  <2>7. SumFunction(a) = Cardinality(s)
    BY <2>1, <2>4, <2>5, <2>6
  <2>8. QED BY <2>7 DEF a
<1> HIDE DEF G
<1>5. S \in G
  BY <1>3, <1>4, SubsetInduction
<1>6. SumFunction(pf(S)) = Cardinality(S)
  BY <1>5 DEF G
<1>7. Summable(f, S)
  BY DEF Summable
<1>8. SumFunction(pf(S)) = SumFunction(f)
  <2> DEFINE a == pf(S)
  <2>1. DOMAIN a = S /\ \A y \in S : a[y] = f[y]
    OBVIOUS
  <2> HIDE DEF a
  <2>2. SumFunction(a) = SumFunction(f)
    BY <1>7, <2>1, SumOfSame
  <2>3. QED BY <2>2 DEF a
<1>9. QED BY <1>6, <1>8

LEMMA AssetsInOrder ==
  /\ Cardinality(Assets) \in Nat \ {0} /\ DOMAIN AssetOrder = 1..Cardinality(Assets)
  /\ \A i \in DOMAIN AssetOrder : AssetOrder[i] \in Assets
  /\ \A a \in Assets : \E i \in DOMAIN AssetOrder : AssetOrder[i] = a
  /\ Last(AssetOrder) \in Assets
<1>1. Cardinality(Assets) \in Nat \ {0}
  BY ControlAmounts, FS_CardinalityType, FS_EmptySet
<1>2. AssetOrder \in Seq(Assets) /\ Len(AssetOrder) = Cardinality(Assets) /\ \A a \in Assets : \E i \in 1..Cardinality(Assets) : AssetOrder[i] = a
  BY OrderOf, ControlAmounts DEF AssetOrder
<1>3. DOMAIN AssetOrder = 1..Cardinality(Assets) /\ \A i \in DOMAIN AssetOrder : AssetOrder[i] \in Assets
  BY <1>2, LenProperties, ElementOfSeq
<1>4. Last(AssetOrder) = AssetOrder[Cardinality(Assets)] /\ Cardinality(Assets) \in DOMAIN AssetOrder
  BY <1>1, <1>2, <1>3 DEF Last
<1>5. QED BY <1>1, <1>2, <1>3, <1>4

LEMMA EqualWeightsFit ==
  ASSUME NEW gross \in Nat
  PROVE  EqualWeights(gross) \in [Assets -> Int] /\ SumFunction(EqualWeights(gross)) = gross
<1> DEFINE n == Cardinality(Assets)
           share == gross \div n
           rest == gross - share * (n - 1)
           final == Last(AssetOrder)
           ones == [a \in Assets |-> 1]
           even == [a \in Assets |-> share * 1]
           w == EqualWeights(gross)
<1>1. n \in Nat \ {0} /\ final \in Assets
  BY AssetsInOrder
<1>2. share \in Int /\ rest \in Int /\ share * n \in Int /\ share * (n - 1) = share * n - share
  BY <1>1
<1>3. w = [a \in Assets |-> IF a = final THEN rest ELSE share]
  BY DEF EqualWeights
<1> HIDE DEF n, share, rest, final
<1>4. IsFiniteSet(Assets) /\ Summable(ones, Assets)
  BY ControlAmounts DEF Summable
<1>5. SumFunction(ones) = n
  <2>1. DOMAIN ones = Assets /\ \A a \in Assets : ones[a] = 1
    OBVIOUS
  <2> HIDE DEF ones
  <2>2. QED BY <1>4, <2>1, SumOfOnes DEF n
<1>6. Summable(even, Assets) /\ SumFunction(even) = share * n
  <2>1. DOMAIN even = Assets /\ \A a \in Assets : even[a] = share * ones[a]
    OBVIOUS
  <2> HIDE DEF even, ones
  <2>2. QED BY <1>2, <1>4, <1>5, <2>1, SumOfScaled
<1>7. DOMAIN even = Assets /\ \A a \in Assets : even[a] = share
  BY <1>2
<1> HIDE DEF even
<1>8. DOMAIN w = Assets /\ (\A a \in Assets \ {final} : w[a] = even[a]) /\ w[final] = rest /\ w \in [Assets -> Int]
  BY <1>1, <1>2, <1>3, <1>7
<1> HIDE DEF w
<1>9. SumFunction(w) = SumFunction(even) + (w[final] - even[final])
  BY <1>2, <1>7, <1>1, <1>4, <1>6, <1>8, SumChanges
<1>10. SumFunction(w) = gross
  <2> DEFINE m == share * n
             k == share * (n - 1)
  <2>1. m \in Int /\ k = m - share /\ rest = gross - k /\ SumFunction(even) = m /\ k \in Int
    BY <1>1, <1>2, <1>6 DEF rest
  <2> HIDE DEF m, k
  <2>2. QED BY <1>1, <1>2, <1>7, <1>8, <1>9, <2>1
<1>11. QED BY <1>8, <1>10 DEF w

LEMMA ExposureTargetFits ==
  ASSUME NEW r \in Exposures
  PROVE  ExposureTarget(r) \in [Assets -> Int] /\ SumFunction(ExposureTarget(r)) = Min({ExposureCap, r})
<1>1. Min({ExposureCap, r}) \in Nat
  BY ControlAmounts, MinOfTwo
<1>2. QED BY <1>1, EqualWeightsFit DEF ExposureTarget

LEMMA DeltaTargetFits ==
  ASSUME NEW e \in [Assets -> Exposures]
  PROVE  /\ DeltaTarget(e) \in [Assets -> Int]
         /\ SumFunction(DeltaTarget(e)) = Min({1000, SumFunction(e)})
         /\ \A a \in Assets : DeltaTarget(e)[a] >= 0 /\ (e[a] = 0 => DeltaTarget(e)[a] = 0)
<1> DEFINE positive == [a \in Assets |-> Max({0, e[a]})]
           reference == SumFunction(positive)
           scaled == [a \in Assets |-> (positive[a] * 1000) \div reference]
           final == AssetOrder[Max({i \in DOMAIN AssetOrder : e[AssetOrder[i]] > 0})]
           others == [a \in Assets \ {final} |-> scaled[a]]
           rest == 1000 - SumFunction(others)
           w == DeltaTarget(e)
<1>1. w = IF reference <= 1000 THEN positive ELSE [scaled EXCEPT ![final] = rest]
  BY DEF DeltaTarget
<1>2. IsFiniteSet(Assets) /\ \A a \in Assets : e[a] \in Nat
  BY ControlAmounts
<1>3. positive = e
  BY <1>2, MaxOfTwo
<1>4. Summable(e, Assets) /\ reference = SumFunction(e)
  <2>1. Summable(e, Assets)
    BY <1>2 DEF Summable
  <2>2. reference = SumFunction(e)
    BY <1>3
  <2>3. QED BY <2>1, <2>2
<1>5. reference \in Nat
  BY <1>2, SumType, <1>4
<1>6. CASE reference <= 1000
  <2>1. w = e /\ reference = Min({1000, reference})
    <3> HIDE DEF reference
    <3>1. QED BY <1>1, <1>3, <1>5, <1>6, MinOfTwo
  <2>2. e \in [Assets -> Int]
    BY <1>2
  <2>3. QED BY <1>2, <1>4, <2>1, <2>2
<1>7. CASE reference > 1000
  <2>1. reference \in Nat \ {0} /\ 1000 = Min({1000, reference})
    <3> HIDE DEF reference
    <3>1. QED BY <1>5, <1>7, MinOfTwo
  <2>2. final \in Assets /\ e[final] > 0
    <3> DEFINE I == {i \in DOMAIN AssetOrder : e[AssetOrder[i]] > 0}
    <3>1. I # {}
      <4> SUFFICES ASSUME I = {} PROVE FALSE
        OBVIOUS
      <4>1. \A a \in Assets : e[a] = 0
        BY <1>2, AssetsInOrder
      <4>2. SumFunction(e) = 0
        BY <1>2, <4>1, SumType
      <4>3. QED BY <1>4, <1>7, <4>2
    <3>2. I \in SUBSET (1..Cardinality(Assets)) /\ Cardinality(Assets) \in Nat
      BY AssetsInOrder
    <3>3. Max(I) \in I
      <4> HIDE DEF I
      <4>1. QED BY <3>1, <3>2, LargestIndex
    <3>4. QED BY <3>3, AssetsInOrder
  <2>3. \A a \in Assets : scaled[a] = (e[a] * 1000) \div reference
    BY <1>3
  <2> HIDE DEF final, reference
  <2>4. ASSUME NEW a \in Assets
        PROVE  scaled[a] \in Nat /\ reference * scaled[a] <= 1000 * e[a] /\ (e[a] = 0 => scaled[a] = 0)
    <3> DEFINE x == e[a] * 1000
               d == x \div reference
    <3>1. x \in Nat /\ x = 1000 * e[a] /\ scaled[a] = d /\ (e[a] = 0 => x = 0)
      BY <1>2, <2>3
    <3> HIDE DEF x
    <3>2. d \in Nat /\ reference * d <= x /\ (x = 0 => d = 0)
      BY <2>1, <3>1
    <3>3. QED BY <3>1, <3>2
  <2> HIDE DEF scaled
  <2>5. DOMAIN scaled = Assets /\ scaled \in [Assets -> Int]
    BY <2>4 DEF scaled
  <2>6. Summable(scaled, Assets)
    BY <1>2, <2>4, <2>5 DEF Summable
  <2> DEFINE up == [a \in Assets |-> reference * scaled[a]]
             all == [a \in Assets |-> 1000 * e[a]]
  <2>7. Summable(up, Assets) /\ SumFunction(up) = reference * SumFunction(scaled) /\ SumFunction(scaled) \in Int
    <3>1. DOMAIN up = Assets /\ \A a \in Assets : up[a] = reference * scaled[a]
      OBVIOUS
    <3> HIDE DEF up
    <3>2. QED BY <2>1, <2>6, <3>1, SumOfScaled
  <2>8. Summable(all, Assets) /\ SumFunction(all) = 1000 * SumFunction(e)
    <3>1. DOMAIN all = Assets /\ \A a \in Assets : all[a] = 1000 * e[a]
      OBVIOUS
    <3> HIDE DEF all
    <3>2. QED BY <1>4, <3>1, SumOfScaled
  <2>9. SumFunction(up) <= SumFunction(all)
    <3>1. \A a \in Assets : up[a] <= all[a]
      BY <2>4
    <3> HIDE DEF up, all
    <3>2. QED BY <2>7, <2>8, <3>1, SumOfOrdered
  <2> HIDE DEF up, all
  <2>10. SumFunction(scaled) <= 1000
    <3> DEFINE k == SumFunction(scaled)
    <3>1. k \in Int /\ reference * k <= 1000 * reference
      BY <1>4, <2>7, <2>8, <2>9
    <3> HIDE DEF k
    <3>2. k <= 1000
      BY <2>1, <3>1
    <3>3. QED BY <3>2 DEF k
  <2>11. SumFunction(scaled) = SumFunction(others) + scaled[final] /\ SumFunction(others) \in Int
    <3> DEFINE S == Assets \ {final}
    <3>1. Summable(others, S) /\ Grown(scaled, others, S, final)
      BY <1>2, <2>2, FS_Subset, <2>4, <2>5 DEF Summable, Grown
    <3> HIDE DEF others, S
    <3>2. QED BY <3>1, SumOfOneMore
  <2> HIDE DEF others
  <2>12. rest \in Int /\ rest >= 0 /\ rest - scaled[final] = 1000 - SumFunction(scaled)
    BY <2>2, <2>4, <2>7, <2>10, <2>11
  <2> HIDE DEF rest
  <2>13. w = [scaled EXCEPT ![final] = rest]
    BY <1>1, <1>7, <2>1
  <2>14. /\ DOMAIN w = Assets /\ w[final] = rest /\ (\A a \in Assets \ {final} : w[a] = scaled[a])
         /\ w \in [Assets -> Int]
    BY <2>2, <2>5, <2>12, <2>13
  <2> HIDE DEF w
  <2>15. SumFunction(w) = SumFunction(scaled) + (w[final] - scaled[final])
    BY <2>4, <1>2, <2>2, <2>5, <2>12, <2>14, SumChanges
  <2>16. SumFunction(w) = 1000
    BY <2>2, <2>4, <2>7, <2>12, <2>14, <2>15
  <2>17. ASSUME NEW a \in Assets PROVE w[a] >= 0 /\ (e[a] = 0 => w[a] = 0)
    BY <2>2, <2>4, <2>12, <2>14
  <2>18. QED BY <1>4, <2>1, <2>14, <2>16, <2>17 DEF w
<1>8. QED BY <1>5, <1>6, <1>7

-----------------------------------------------------------------------------
(* The control book in the suite.                                          *)

LEMMA ControlSteps ==
  ASSUME [ResearchSuiteNext]_suiteVars, Examined("control")'
  PROVE  Examined("control") /\ [BenchmarkNext]_controlVars
BY DEF ResearchSuiteNext, suiteVars, Steps, Examined, Studies, controlVars

LEMMA ControlBegins == BenchmarkInit => ControlInv
<1> SUFFICES ASSUME BenchmarkInit PROVE ControlInv
  OBVIOUS
<1>1. control = NewControl("none") /\ controlFills = <<>> /\ targets = 0
  BY DEF BenchmarkInit
<1>2. /\ control \in ControlDoc /\ control.target = NoTarget /\ control.kind = "none" /\ control.cash = BenchmarkCash
      /\ control.appliedAt = -1 /\ (\A a \in Assets : control.units[a] = 0) /\ BenchmarkCash \in Nat
      /\ control.receivables = {}
  BY <1>1, ControlAmounts DEF NewControl, ControlDoc
<1>3. CashWeights \in [FillRow -> Int] /\ UnitWeights \in [FillRow -> Int] /\ <<>> \in Seq(FillRow)
  BY DEF CashWeights, UnitWeights, FillRow
<1>4. RowSum(<<>>, FillRow, CashWeights) = 0 /\ \A a \in Assets : RowSum(<<>>, RowsOf(a), UnitWeights) = 0
  BY <1>3, RowSumType
<1>5. ControlBooked(control, controlFills)
  <2>1. DividendsOwed({}, <<>>)
    BY FS_EmptySet DEF DividendsOwed
  <2> HIDE DEF NewControl, NoTarget
  <2>2. controlFills \in Seq(FillRow) /\ DividendsOwed(control.receivables, controlFills)
    BY <1>1, <1>2, <1>3, <2>1
  <2> DEFINE sum == RowSum(controlFills, FillRow, CashWeights)
  <2>5. sum = 0
    BY <1>1, <1>4
  <2> HIDE DEF sum
  <2>6. control.cash >= 0 /\ control.cash = BenchmarkCash + sum
    BY <1>2, <2>5
  <2>3. \A a \in Assets : control.units[a] >= 0 /\ control.units[a] = RowSum(controlFills, RowsOf(a), UnitWeights)
    BY <1>1, <1>2, <1>4
  <2>4. QED BY <2>2, <2>3, <2>6 DEF ControlBooked, sum
<1>6. FillsInOrder(controlFills, targets)
  BY <1>1 DEF FillsInOrder
<1>7. MaxTargets \in Nat
  BY ControlAmounts
<1> HIDE DEF NoTarget
<1>8. QED BY <1>1, <1>2, <1>5, <1>6, <1>7 DEF ControlInv

LEMMA ControlKeeps == ControlInv /\ [BenchmarkNext]_controlVars => ControlInv'
<1> SUFFICES ASSUME ControlInv, [BenchmarkNext]_controlVars PROVE ControlInv'
  OBVIOUS
<1>1. CASE UNCHANGED controlVars
  BY <1>1 DEF controlVars, ControlInv, ControlBooked, DividendsOwed, FillsInOrder, SellsFrozen, NoneFilled
<1>2. ASSUME NEW kind \in {"matched", "passive"}, InitialState(kind) PROVE ControlInv'
  BY <1>2, ControlMade
<1>3. ASSUME targets < MaxTargets, NEW prices \in [Assets -> AssetPrices], NEW scheduled \in Boundaries,
             NEW reference \in Exposures, PrepareTarget(ExposureTarget(reference), prices, scheduled)
      PROVE  ControlInv'
  <2> DEFINE w == ExposureTarget(reference)
  <2>1. w \in [Assets -> Int]
    BY ExposureTargetFits
  <2> HIDE DEF w
  <2>2. PrepareTarget(w, prices, scheduled)
    BY <1>3 DEF w
  <2>3. QED BY <1>3, <2>1, <2>2, ControlPrepares
<1>4. ASSUME targets < MaxTargets, NEW prices \in [Assets -> AssetPrices], NEW scheduled \in Boundaries,
             NEW exposure \in [Assets -> Exposures], PrepareTarget(DeltaTarget(exposure), prices, scheduled)
      PROVE  ControlInv'
  <2> DEFINE w == DeltaTarget(exposure)
  <2>1. w \in [Assets -> Int]
    BY DeltaTargetFits
  <2> HIDE DEF w
  <2>2. PrepareTarget(w, prices, scheduled)
    BY <1>4 DEF w
  <2>3. QED BY <1>4, <2>1, <2>2, ControlPrepares
<1>5. ASSUME NEW now \in Boundaries, NEW retryAt, NEW prices \in SomePrices, ExecuteTarget(now, retryAt, prices) PROVE ControlInv'
  BY <1>5, ControlExecutes
<1>6. ASSUME NEW now \in Boundaries, NEW a \in Assets, ControlSplit(now, a) PROVE ControlInv'
  BY <1>6, ControlSplits
<1>7. ASSUME NEW now \in Boundaries, NEW a \in Assets, NEW perUnit \in DividendsPerUnit, NEW due \in Boundaries \cup {-1},
             ControlDividend(now, a, perUnit, due)
      PROVE  ControlInv'
  BY <1>7, ControlOwes
<1>8. ASSUME NEW now \in Boundaries, NEW k \in control.receivables, NEW due \in Boundaries, ScheduleDividend(now, k, due)
      PROVE  ControlInv'
  BY <1>8, ControlSchedules
<1>9. ASSUME NEW now \in Boundaries, NEW k \in control.receivables, PayDividend(now, k) PROVE ControlInv'
  BY <1>9, ControlPaid
<1>10. QED BY <1>1, <1>2, <1>3, <1>4, <1>5, <1>6, <1>7, <1>8, <1>9 DEF BenchmarkNext

\* The sums of the property are those of the invariant.
LEMMA ControlSums ==
  ASSUME controlFills \in Seq(FillRow)
  PROVE  /\ SumFunction([i \in DOMAIN controlFills |-> controlFills[i].cash]) = RowSum(controlFills, FillRow, CashWeights)
         /\ \A a \in Assets : SumFunction([i \in {j \in DOMAIN controlFills : controlFills[j].asset = a} |-> controlFills[i].units])
                                = RowSum(controlFills, RowsOf(a), UnitWeights)
         /\ \A id, a : SumFunction([i \in {j \in Filled("sell", id) : controlFills[j].asset = a} |-> controlFills[i].units])
                         = RowSum(controlFills, SellsOf(id, a), UnitWeights)
<1>1. \A i \in DOMAIN controlFills : /\ controlFills[i] \in FillRow
                                     /\ CashWeights[controlFills[i]] = controlFills[i].cash
                                     /\ UnitWeights[controlFills[i]] = controlFills[i].units
  BY LenProperties, ElementOfSeq DEF CashWeights, UnitWeights
<1>2. RowsIn(controlFills, FillRow) = DOMAIN controlFills
  BY <1>1 DEF RowsIn
<1>3. [i \in DOMAIN controlFills |-> controlFills[i].cash] = Weighed(controlFills, FillRow, CashWeights)
  BY <1>1, <1>2 DEF Weighed
<1>4. ASSUME NEW a \in Assets
      PROVE  [i \in {j \in DOMAIN controlFills : controlFills[j].asset = a} |-> controlFills[i].units]
               = Weighed(controlFills, RowsOf(a), UnitWeights)
  BY <1>1 DEF RowsIn, RowsOf, Weighed
<1>5. ASSUME NEW id, NEW a
      PROVE  [i \in {j \in Filled("sell", id) : controlFills[j].asset = a} |-> controlFills[i].units]
               = Weighed(controlFills, SellsOf(id, a), UnitWeights)
  BY <1>1 DEF RowsIn, SellsOf, Filled, Weighed
<1>6. QED BY <1>3, <1>4, <1>5 DEF RowSum

LEMMA ControlFollows == ControlInv => BenchmarkTypeOK /\ ControlBookIsSound
<1> SUFFICES ASSUME ControlInv PROVE BenchmarkTypeOK /\ ControlBookIsSound
  OBVIOUS
<1>1. /\ control \in ControlDoc /\ ControlBooked(control, controlFills) /\ FillsInOrder(controlFills, targets)
      /\ controlFills \in Seq(FillRow) /\ targets \in Nat
  BY ControlAmounts DEF ControlInv, ControlBooked
<1>2. /\ control.cash \in Int /\ control.units \in [Assets -> Int] /\ control.target \in OpenTarget \cup {NoTarget}
  BY <1>1 DEF ControlDoc
<1>3. control.target.status # "complete" => control.target \in OpenTarget /\ control.target # NoTarget
  BY <1>2 DEF NoTarget
<1>4. BenchmarkTypeOK
  BY <1>2 DEF OpenTarget, NoTarget, BenchmarkTypeOK, ControlInv
<1>5. ControlReconciles
  BY <1>1, ControlSums DEF ControlReconciles, ControlBooked
<1>6. FirstAttemptBuys
  <2> SUFFICES ASSUME NEW id \in 1..targets
               PROVE  /\ \A i \in Filled("buy", id) : /\ controlFills[i].attempt = 1
                                                      /\ \A j \in Filled("sell", id) : controlFills[j].attempt = 1 => j < i
                      /\ \A i, j \in Filled("buy", id) : i # j => controlFills[i].asset # controlFills[j].asset
                      /\ control.kind = "passive" => targets = 1
    BY DEF FirstAttemptBuys
  <2>1. \A i \in Filled("buy", id) : controlFills[i].attempt = 1
    BY <1>1 DEF Filled, FillsInOrder
  <2>2. \A i \in Filled("buy", id), j \in Filled("sell", id) : controlFills[j].attempt = 1 => j < i
    BY <1>1 DEF Filled, FillsInOrder
  <2>3. \A i, j \in Filled("buy", id) : i # j => controlFills[i].asset # controlFills[j].asset
    BY <1>1 DEF Filled, FillsInOrder
  <2>4. control.kind = "passive" => targets = 1
    BY <1>1 DEF ControlInv
  <2>5. QED BY <2>1, <2>2, <2>3, <2>4
<1>7. SellsAreFrozen
  <2> SUFFICES ASSUME control.target.status # "complete", NEW a \in Assets,
                      control.target.remaining[a] > 0 \/ control.target.attempts = 0
               PROVE  control.target.remaining[a] - RowSum(controlFills, SellsOf(control.target.id, a), UnitWeights)
                        = control.target.original[a]
    BY <1>1, ControlSums DEF SellsAreFrozen
  <2>1. CASE control.target.remaining[a] > 0
    BY <1>3, <2>1 DEF ControlInv, SellsFrozen
  <2>2. CASE control.target.attempts = 0
    BY <1>3, <2>2, <1>1, UnfilledSells DEF ControlInv, OpenTarget
  <2>3. QED BY <2>1, <2>2
<1>8. WeightsAreFractions
  <2>1. \A r \in Exposures : SumFunction(ExposureTarget(r)) = Min({ExposureCap, r})
    BY ExposureTargetFits
  <2>2. ASSUME NEW e \in [Assets -> Exposures]
        PROVE  /\ SumFunction(DeltaTarget(e)) = Min({1000, SumFunction(e)})
               /\ \A a \in Assets : DeltaTarget(e)[a] >= 0 /\ (e[a] = 0 => DeltaTarget(e)[a] = 0)
    BY DeltaTargetFits
  <2>3. QED BY <2>1, <2>2 DEF WeightsAreFractions
<1>9. DividendsArePaidOnce
  BY <1>1 DEF ControlBooked, DividendsOwed, DividendsArePaidOnce
<1>10. QED BY <1>4, <1>5, <1>6, <1>7, <1>8, <1>9 DEF ControlBookIsSound

LEMMA ControlHolds == ResearchSuiteSpec => [](Examined("control") => ControlInv)
<1>1. ResearchSuiteInit => (Examined("control") => ControlInv)
  BY ControlBegins DEF ResearchSuiteInit
<1>2. (Examined("control") => ControlInv) /\ [ResearchSuiteNext]_suiteVars => (Examined("control") => ControlInv)'
  BY ControlSteps, ControlKeeps
<1>3. QED BY <1>1, <1>2, PTL DEF ResearchSuiteSpec

-----------------------------------------------------------------------------
(* OptionsPortfolio: cash and contracts are those of the journal, in which *)
(* losses, reasons to leave, sales and buys come in an order of their own. *)

LossNote == [kind : {"loss"}, at : Int]
ReasonNote == [kind : {"pending"}, u : Underlyings, at : Int]
OptionSale == [kind : {"sell"}, u : Underlyings, cash : Int, at : Int]
OptionBuy == [kind : {"buy"}, u : Underlyings, cash : Int, at : Int, batch : Nat, budget : Int]
OptionRow == LossNote \cup ReasonNote \cup OptionSale \cup OptionBuy
QuietRow == LossNote \cup ReasonNote
TradeRows == OptionSale \cup OptionBuy
BuysOf(id) == {r \in OptionBuy : r.batch = id}
TradeCash == [r \in OptionRow |-> IF r.kind \in {"sell", "buy"} THEN r.cash ELSE 0]

ContractState == {NotOwned} \cup [premium : OfferPrices, pending : BOOLEAN]
OpenBatch ==
  [id : Nat, at : Int, exits : [Underlyings -> {"hold", "pending", "candidate"}], owned : SUBSET Underlyings, cash : Int,
   marks : Partially(Premiums), listed : BOOLEAN, candidates : SUBSET Underlyings, offers : Partially(OfferPrices), ceilings : [Underlyings -> Int]]
OptionDoc ==
  [cash : Int, positions : [Underlyings -> ContractState], day : Int, baseline : Int, halted : BOOLEAN,
   batch : OpenBatch \cup {NoOptionBatch}, attempted : [Underlyings -> Int], closed : [Underlyings -> Int], appliedAt : Int]

Bought(J, u) ==
  \E i \in DOMAIN J : /\ J[i].kind = "buy" /\ J[i].u = u
                      /\ \A j \in DOMAIN J : J[j].kind = "sell" /\ J[j].u = u => j < i
Warned(J, u) ==
  \E i \in DOMAIN J : /\ J[i].kind = "pending" /\ J[i].u = u
                      /\ \A j \in DOMAIN J : J[j].kind = "buy" /\ J[j].u = u => j < i
Contracts(b, J) ==
  /\ J \in Seq(OptionRow)
  /\ b.cash >= 0 /\ b.cash = OptionCash + RowSum(J, TradeRows, TradeCash)
  /\ \A u \in Underlyings : /\ b.positions[u] # NotOwned <=> Bought(J, u)
                            /\ b.positions[u] # NotOwned => (b.positions[u].pending <=> Warned(J, u))
Sequenced(J) ==
  \A i, j \in DOMAIN J :
    J[i].kind = "buy" /\ OptionDay(J[i].at) = OptionDay(J[j].at) /\ i # j =>
      /\ J[j].kind = "loss" => i < j
      /\ J[j].kind \in {"buy", "sell"} /\ J[j].u = J[i].u => i < j /\ J[j].kind = "sell"
DaysOf(b, J, t) ==
  /\ \A i \in DOMAIN J : /\ J[i].kind = "loss" => OptionDay(J[i].at) <= b.day /\ (OptionDay(J[i].at) = b.day => b.halted)
                         /\ J[i].kind = "buy" => OptionDay(J[i].at) <= b.attempted[J[i].u]
                         /\ J[i].kind = "sell" => OptionDay(J[i].at) <= b.closed[J[i].u]
  /\ \A u \in Underlyings : b.attempted[u] <= OptionDay(t) /\ b.closed[u] <= OptionDay(t)
  /\ Sequenced(J)

DebitOf(batch, u) == batch.offers[u] + OptionFee
WithinCeiling(batch) == {u \in batch.candidates : DebitOf(batch, u) <= batch.ceilings[u]}
Debits(batch, B) == SumFunction([u \in B |-> DebitOf(batch, u)])
BatchIsSound(batch) ==
  /\ \A u \in batch.owned : batch.exits[u] = "candidate" => u \in DOMAIN batch.marks /\ batch.marks[u] >= OptionFee
  /\ batch.candidates \subseteq DOMAIN batch.offers
  /\ Debits(batch, WithinCeiling(batch)) <= batch.cash
  /\ batch.at >= optionBook.appliedAt /\ batch.id < optionSteps
  /\ \A i \in DOMAIN optionFills : optionFills[i].kind = "buy" => optionFills[i].batch # batch.id
Budgeted(J) ==
  \A i \in DOMAIN J : J[i].kind = "buy" => /\ -RowSum(J, BuysOf(J[i].batch), TradeCash) <= J[i].budget
                                           /\ J[i].batch < optionSteps

OptionInv ==
  /\ optionBook \in OptionDoc /\ optionSteps \in Nat
  /\ optionBook.appliedAt \in Moments \cup {-1}
  /\ Contracts(optionBook, optionFills) /\ DaysOf(optionBook, optionFills, optionBook.appliedAt) /\ Budgeted(optionFills)
  /\ optionBook.batch # NoOptionBatch => BatchIsSound(optionBook.batch)

LEMMA OptionAmounts ==
  /\ IsFiniteSet(Underlyings) /\ OptionCash \in Nat \ {0} /\ OptionFee \in Nat /\ EntryShare \in Nat /\ OutstandingShare \in Nat
  /\ LastOptionDay \in Nat /\ (\A p \in Premiums : p \in Nat \ {0}) /\ \A p \in OfferPrices : p \in Nat \ {0}
BY OptionAssumption

\* Rows that trade nothing add nothing.
LEMMA QuietSums ==
  ASSUME NEW J \in Seq(OptionRow), NEW P \in Seq(QuietRow), NEW R, R \subseteq TradeRows
  PROVE  RowSum(J \o P, R, TradeCash) = RowSum(J, R, TradeCash)
<1> DEFINE K == J \o P
<1>1. P \in Seq(OptionRow)
  BY DEF OptionRow, QuietRow
<1>2. Extends(K, J, P)
  BY <1>1, Extended
<1>3. \A k \in DOMAIN P : P[k] \notin R
  <2> SUFFICES ASSUME NEW k \in DOMAIN P PROVE P[k] \notin TradeRows
    OBVIOUS
  <2>1. P[k] \in QuietRow
    BY LenProperties, ElementOfSeq
  <2>2. P[k].kind \in {"loss", "pending"}
    BY <2>1 DEF QuietRow, LossNote, ReasonNote
  <2>3. \A r \in TradeRows : r.kind \in {"sell", "buy"}
    BY DEF TradeRows, OptionSale, OptionBuy
  <2>4. QED BY <2>2, <2>3
<1> HIDE DEF K
<1>4. RowsIn(K, R) = RowsIn(J, R)
  BY <1>2, <1>3 DEF RowsIn, Extends
<1>5. Weighed(K, R, TradeCash) = Weighed(J, R, TradeCash)
  BY <1>2, <1>4 DEF Weighed, RowsIn, Extends
<1>6. QED BY <1>5 DEF RowSum, K

LEMMA QuietHistory ==
  ASSUME NEW J, NEW P, NEW K, Extends(K, J, P), NEW u,
         \A k \in DOMAIN P : P[k].kind \in {"loss", "pending"}
  PROVE  /\ Bought(K, u) <=> Bought(J, u)
         /\ Warned(K, u) <=> Warned(J, u) \/ \E k \in DOMAIN P : P[k].kind = "pending" /\ P[k].u = u
<1>1. ASSUME NEW i \in DOMAIN K, K[i].kind \in {"buy", "sell"} PROVE i \in DOMAIN J /\ J[i] = K[i]
  BY <1>1 DEF Extends
<1>2. Bought(K, u) <=> Bought(J, u)
  BY <1>1 DEF Bought, Extends
<1>3. ASSUME Warned(K, u) PROVE Warned(J, u) \/ \E k \in DOMAIN P : P[k].kind = "pending" /\ P[k].u = u
  <2>1. PICK i \in DOMAIN K : K[i].kind = "pending" /\ K[i].u = u /\ \A j \in DOMAIN K : K[j].kind = "buy" /\ K[j].u = u => j < i
    BY <1>3 DEF Warned
  <2>2. CASE i \in DOMAIN J
    BY <2>2, <2>1 DEF Extends, Warned
  <2>3. CASE i \notin DOMAIN J
    BY <2>1, <2>3 DEF Extends
  <2>4. QED BY <2>2, <2>3
<1>4. ASSUME Warned(J, u) PROVE Warned(K, u)
  BY <1>1, <1>4 DEF Warned, Extends
<1>5. ASSUME NEW k \in DOMAIN P, P[k].kind = "pending", P[k].u = u PROVE Warned(K, u)
  <2>1. PICK i \in DOMAIN K : K[i] = P[k] /\ i \notin DOMAIN J /\ \A j \in DOMAIN J : j < i
    BY DEF Extends
  <2>2. \A j \in DOMAIN K : K[j].kind = "buy" => j < i
    BY <1>1, <2>1
  <2>3. QED BY <1>5, <2>1, <2>2 DEF Warned
<1>6. QED BY <1>2, <1>3, <1>4, <1>5

LEMMA OptionRows ==
  /\ TradeCash \in [OptionRow -> Int]
  /\ QuietRow \subseteq OptionRow /\ TradeRows \subseteq OptionRow
  /\ \A r \in OptionRow : /\ r.kind \in {"loss", "pending", "sell", "buy"}
                          /\ r.kind = "buy" <=> r \in OptionBuy
                          /\ r.kind = "sell" <=> r \in OptionSale
                          /\ r.kind = "pending" <=> r \in ReasonNote
                          /\ r.kind = "loss" <=> r \in LossNote
  /\ \A r \in TradeRows : TradeCash[r] = r.cash
<1>1. \A r \in OptionRow : /\ r.kind \in {"loss", "pending", "sell", "buy"}
                           /\ r.kind = "buy" <=> r \in OptionBuy
                           /\ r.kind = "sell" <=> r \in OptionSale
                           /\ r.kind = "pending" <=> r \in ReasonNote
                           /\ r.kind = "loss" <=> r \in LossNote
  BY DEF OptionRow, LossNote, ReasonNote, OptionSale, OptionBuy
<1>2. \A r \in TradeRows : r \in OptionRow /\ r.cash \in Int /\ r.kind \in {"sell", "buy"}
  BY DEF OptionRow, TradeRows, OptionSale, OptionBuy
<1>3. ASSUME NEW r \in OptionRow PROVE (IF r.kind \in {"sell", "buy"} THEN r.cash ELSE 0) \in Int
  BY <1>1, <1>2 DEF TradeRows
<1>4. TradeCash \in [OptionRow -> Int]
  BY <1>3 DEF TradeCash
<1>5. \A r \in TradeRows : TradeCash[r] = r.cash
  BY <1>2 DEF TradeCash
<1>6. QED BY <1>1, <1>2, <1>4, <1>5 DEF QuietRow, OptionRow

\* Rows that are no trades: reasons to leave are the only thing they change.
LEMMA ContractsQuiet ==
  ASSUME NEW b, NEW J, Contracts(b, J), NEW P \in Seq(QuietRow), NEW c, c.cash = b.cash,
         \A u \in Underlyings : /\ c.positions[u] # NotOwned <=> b.positions[u] # NotOwned
                                /\ c.positions[u] # NotOwned =>
                                     (c.positions[u].pending <=> \/ b.positions[u].pending
                                                                 \/ \E k \in DOMAIN P : P[k].kind = "pending" /\ P[k].u = u)
  PROVE  Contracts(c, J \o P)
<1> DEFINE K == J \o P
<1>1. J \in Seq(OptionRow) /\ P \in Seq(OptionRow) /\ b.cash >= 0 /\ b.cash = OptionCash + RowSum(J, TradeRows, TradeCash)
  BY OptionRows DEF Contracts, OptionRow, QuietRow
<1>2. K \in Seq(OptionRow) /\ Extends(K, J, P)
  BY <1>1, Extended
<1>3. \A k \in DOMAIN P : P[k].kind \in {"loss", "pending"}
  <2>1. ASSUME NEW k \in DOMAIN P PROVE P[k] \in QuietRow
    BY LenProperties, ElementOfSeq
  <2>2. QED BY <2>1 DEF QuietRow, LossNote, ReasonNote
<1>4. RowSum(K, TradeRows, TradeCash) = RowSum(J, TradeRows, TradeCash)
  BY <1>1, QuietSums
<1> HIDE DEF K
<1>5. ASSUME NEW u \in Underlyings
      PROVE  /\ Bought(K, u) <=> Bought(J, u)
             /\ Warned(K, u) <=> Warned(J, u) \/ \E k \in DOMAIN P : P[k].kind = "pending" /\ P[k].u = u
  BY <1>2, <1>3, QuietHistory
<1>6. ASSUME NEW u \in Underlyings
      PROVE  /\ c.positions[u] # NotOwned <=> Bought(K, u)
             /\ c.positions[u] # NotOwned => (c.positions[u].pending <=> Warned(K, u))
  BY <1>5 DEF Contracts
<1>7. Contracts(c, K)
  BY <1>1, <1>2, <1>4, <1>6 DEF Contracts
<1>8. QED BY <1>7 DEF K

LEMMA DaysQuiet ==
  ASSUME NEW b, NEW J \in Seq(OptionRow), NEW t, DaysOf(b, J, t), NEW P \in Seq(QuietRow), NEW c,
         c.day = b.day, b.halted => c.halted, c.attempted = b.attempted, c.closed = b.closed,
         \A k \in DOMAIN P : P[k].kind = "loss" => OptionDay(P[k].at) <= c.day /\ (OptionDay(P[k].at) = c.day => c.halted)
  PROVE  DaysOf(c, J \o P, t)
<1> DEFINE K == J \o P
<1>1. Extends(K, J, P) /\ K \in Seq(OptionRow)
  BY OptionRows, Extended DEF OptionRow, QuietRow
<1>2. \A k \in DOMAIN P : P[k].kind \in {"loss", "pending"}
  <2>1. ASSUME NEW k \in DOMAIN P PROVE P[k] \in QuietRow
    BY LenProperties, ElementOfSeq
  <2>2. QED BY <2>1 DEF QuietRow, LossNote, ReasonNote
<1> HIDE DEF K
<1>3. ASSUME NEW i \in DOMAIN K PROVE (i \in DOMAIN J /\ K[i] = J[i]) \/ (\E k \in DOMAIN P : K[i] = P[k] /\ \A j \in DOMAIN J : j < i)
  BY <1>1 DEF Extends
<1>4. ASSUME NEW i \in DOMAIN K
      PROVE  /\ K[i].kind = "loss" => OptionDay(K[i].at) <= c.day /\ (OptionDay(K[i].at) = c.day => c.halted)
             /\ K[i].kind = "buy" => OptionDay(K[i].at) <= c.attempted[K[i].u]
             /\ K[i].kind = "sell" => OptionDay(K[i].at) <= c.closed[K[i].u]
  <2>1. CASE i \in DOMAIN J /\ K[i] = J[i]
    BY <2>1 DEF DaysOf
  <2>2. CASE \E k \in DOMAIN P : K[i] = P[k] /\ \A j \in DOMAIN J : j < i
    BY <1>2, <2>2
  <2>3. QED BY <1>3, <2>1, <2>2
<1>5. Sequenced(K)
  <2> SUFFICES ASSUME NEW i \in DOMAIN K, NEW j \in DOMAIN K, K[i].kind = "buy", OptionDay(K[i].at) = OptionDay(K[j].at), i # j
               PROVE  /\ K[j].kind = "loss" => i < j
                      /\ K[j].kind \in {"buy", "sell"} /\ K[j].u = K[i].u => i < j /\ K[j].kind = "sell"
    BY DEF Sequenced
  <2>1. i \in DOMAIN J /\ K[i] = J[i]
    BY <1>2, <1>3
  <2>2. CASE j \in DOMAIN J /\ K[j] = J[j]
    BY <2>1, <2>2 DEF DaysOf, Sequenced
  <2>3. CASE \E k \in DOMAIN P : K[j] = P[k] /\ \A m \in DOMAIN J : m < j
    BY <1>2, <2>1, <2>3
  <2>4. QED BY <1>3, <2>2, <2>3
<1>6. DaysOf(c, K, t)
  BY <1>4, <1>5 DEF DaysOf
<1>7. QED BY <1>6 DEF K

\* The buys of a journal and their sums are those it had.
BuysStand(K, J) ==
  /\ \A i \in DOMAIN K : K[i].kind = "buy" => i \in DOMAIN J /\ K[i] = J[i]
  /\ \A id : RowSum(K, BuysOf(id), TradeCash) = RowSum(J, BuysOf(id), TradeCash)

LEMMA BuysQuiet == ASSUME NEW J \in Seq(OptionRow), NEW P \in Seq(QuietRow) PROVE BuysStand(J \o P, J)
<1> DEFINE K == J \o P
<1>1. Extends(K, J, P)
  BY OptionRows, Extended DEF OptionRow, QuietRow
<1>2. \A k \in DOMAIN P : P[k].kind \in {"loss", "pending"}
  <2>1. ASSUME NEW k \in DOMAIN P PROVE P[k] \in QuietRow
    BY LenProperties, ElementOfSeq
  <2>2. QED BY <2>1 DEF QuietRow, LossNote, ReasonNote
<1>3. ASSUME NEW id PROVE RowSum(K, BuysOf(id), TradeCash) = RowSum(J, BuysOf(id), TradeCash)
  BY QuietSums DEF BuysOf, TradeRows
<1> HIDE DEF K
<1>4. \A i \in DOMAIN K : K[i].kind = "buy" => i \in DOMAIN J /\ K[i] = J[i]
  BY <1>1, <1>2 DEF Extends
<1>5. BuysStand(K, J)
  BY <1>3, <1>4 DEF BuysStand
<1>6. QED BY <1>5 DEF K


LEMMA ContractSold ==
  ASSUME NEW b, NEW J, Contracts(b, J), b.cash \in Int, NEW r \in OptionSale, NEW c, c.cash = b.cash + r.cash, c.cash >= 0,
         c.positions[r.u] = NotOwned, \A u \in Underlyings \ {r.u} : c.positions[u] = b.positions[u]
  PROVE  Contracts(c, Append(J, r))
<1> DEFINE K == Append(J, r)
<1>1. J \in Seq(OptionRow) /\ r \in TradeRows /\ r \in OptionRow /\ r.kind = "sell" /\ r.cash \in Int /\ OptionCash \in Int
  BY OptionAmounts DEF Contracts, OptionRow, TradeRows, OptionSale
<1>2. PICK n : OneMore(K, J, r, n)
  BY <1>1, AppendOne
<1>3. K \in Seq(OptionRow)
  BY <1>1, AppendProperties
<1>4. RowSum(K, TradeRows, TradeCash) = RowSum(J, TradeRows, TradeCash) + r.cash /\ RowSum(J, TradeRows, TradeCash) \in Int
  BY <1>1, OptionRows, RowSumAppend, RowSumType
<1> HIDE DEF K
<1>5. c.cash = OptionCash + RowSum(K, TradeRows, TradeCash)
  BY <1>1, <1>4 DEF Contracts
<1>6. ~Bought(K, r.u)
  BY <1>1, <1>2 DEF Bought, OneMore
<1>7. ASSUME NEW u \in Underlyings \ {r.u} PROVE (Bought(K, u) <=> Bought(J, u)) /\ (Warned(K, u) <=> Warned(J, u))
  BY <1>1, <1>2 DEF Bought, Warned, OneMore
<1>8. ASSUME NEW u \in Underlyings
      PROVE  /\ c.positions[u] # NotOwned <=> Bought(K, u)
             /\ c.positions[u] # NotOwned => (c.positions[u].pending <=> Warned(K, u))
  <2>1. CASE u = r.u
    BY <1>6, <2>1
  <2>2. CASE u # r.u
    BY <1>7, <2>2 DEF Contracts
  <2>3. QED BY <2>1, <2>2
<1>9. Contracts(c, K)
  BY <1>3, <1>5, <1>8 DEF Contracts
<1>10. QED BY <1>9 DEF K

LEMMA ContractBought ==
  ASSUME NEW b, NEW J, Contracts(b, J), b.cash \in Int, NEW r \in OptionBuy, NEW c, c.cash = b.cash + r.cash, c.cash >= 0,
         c.positions[r.u] # NotOwned, c.positions[r.u].pending = FALSE, \A u \in Underlyings \ {r.u} : c.positions[u] = b.positions[u]
  PROVE  Contracts(c, Append(J, r))
<1> DEFINE K == Append(J, r)
<1>1. J \in Seq(OptionRow) /\ r \in TradeRows /\ r \in OptionRow /\ r.kind = "buy" /\ r.cash \in Int /\ OptionCash \in Int
  BY OptionAmounts DEF Contracts, OptionRow, TradeRows, OptionBuy
<1>2. PICK n : OneMore(K, J, r, n)
  BY <1>1, AppendOne
<1>3. K \in Seq(OptionRow)
  BY <1>1, AppendProperties
<1>4. RowSum(K, TradeRows, TradeCash) = RowSum(J, TradeRows, TradeCash) + r.cash /\ RowSum(J, TradeRows, TradeCash) \in Int
  BY <1>1, OptionRows, RowSumAppend, RowSumType
<1> HIDE DEF K
<1>5. c.cash = OptionCash + RowSum(K, TradeRows, TradeCash)
  BY <1>1, <1>4 DEF Contracts
<1>6. Bought(K, r.u)
  BY <1>1, <1>2 DEF Bought, OneMore
<1>7. ~Warned(K, r.u)
  BY <1>1, <1>2 DEF Warned, OneMore
<1>8. ASSUME NEW u \in Underlyings \ {r.u} PROVE (Bought(K, u) <=> Bought(J, u)) /\ (Warned(K, u) <=> Warned(J, u))
  BY <1>1, <1>2 DEF Bought, Warned, OneMore
<1>9. ASSUME NEW u \in Underlyings
      PROVE  /\ c.positions[u] # NotOwned <=> Bought(K, u)
             /\ c.positions[u] # NotOwned => (c.positions[u].pending <=> Warned(K, u))
  <2>1. CASE u = r.u
    BY <1>6, <1>7, <2>1
  <2>2. CASE u # r.u
    BY <1>8, <2>2 DEF Contracts
  <2>3. QED BY <2>1, <2>2
<1>10. Contracts(c, K)
  BY <1>3, <1>5, <1>9 DEF Contracts
<1>11. QED BY <1>10 DEF K

\* A sale ends the day's buys of its underlying.
LEMMA DaysSold ==
  ASSUME NEW b, NEW J \in Seq(OptionRow), NEW t \in Int, DaysOf(b, J, t), NEW r \in OptionSale, r.at = t, NEW c,
         c.day = b.day, c.halted = b.halted, c.attempted = b.attempted, c.closed[r.u] = OptionDay(t),
         \A u \in Underlyings \ {r.u} : c.closed[u] = b.closed[u], \A u \in Underlyings : b.closed[u] \in Int
  PROVE  DaysOf(c, Append(J, r), t)
<1> DEFINE K == Append(J, r)
<1>1. r \in OptionRow /\ r.kind = "sell" /\ r.u \in Underlyings /\ OptionDay(t) \in Int
  BY DEF OptionRow, OptionSale, OptionDay
<1>2. PICK n : OneMore(K, J, r, n)
  BY <1>1, AppendOne
<1> HIDE DEF K
<1>3. ASSUME NEW i \in DOMAIN J PROVE J[i].kind = "sell" => J[i].u \in Underlyings /\ OptionDay(J[i].at) \in Int
  BY LenProperties, ElementOfSeq, OptionRows DEF OptionSale, OptionDay
<1>4. ASSUME NEW u \in Underlyings PROVE b.closed[u] <= c.closed[u] /\ c.closed[u] <= OptionDay(t)
  BY <1>1 DEF DaysOf
<1>5. ASSUME NEW i \in DOMAIN K
      PROVE  /\ K[i].kind = "loss" => OptionDay(K[i].at) <= c.day /\ (OptionDay(K[i].at) = c.day => c.halted)
             /\ K[i].kind = "buy" => OptionDay(K[i].at) <= c.attempted[K[i].u]
             /\ K[i].kind = "sell" => OptionDay(K[i].at) <= c.closed[K[i].u]
  <2>1. CASE i = n
    BY <1>1, <1>2, <2>1 DEF OneMore
  <2>2. CASE i \in DOMAIN J
    <3>1. K[i] = J[i]
      BY <1>2, <2>2 DEF OneMore
    <3>2. K[i].kind = "sell" => OptionDay(K[i].at) <= b.closed[K[i].u] /\ K[i].u \in Underlyings /\ OptionDay(K[i].at) \in Int
      BY <1>3, <2>2, <3>1 DEF DaysOf
    <3>3. K[i].kind = "sell" => OptionDay(K[i].at) <= c.closed[K[i].u]
      <4> SUFFICES ASSUME K[i].kind = "sell" PROVE OptionDay(K[i].at) <= c.closed[K[i].u]
        OBVIOUS
      <4> DEFINE u == K[i].u
                 d == OptionDay(K[i].at)
      <4>1. u \in Underlyings /\ d <= b.closed[u] /\ d \in Int
        BY <3>2
      <4>2. b.closed[u] <= c.closed[u] /\ b.closed[u] \in Int /\ c.closed[u] \in Int
        BY <1>1, <1>4, <4>1
      <4> HIDE DEF u, d
      <4>3. d <= c.closed[u]
        BY <4>1, <4>2
      <4>4. QED BY <4>3 DEF u, d
    <3>4. QED BY <2>2, <3>1, <3>3 DEF DaysOf
  <2>3. QED BY <1>2, <2>1, <2>2 DEF OneMore
<1>6. Sequenced(K)
  BY <1>1, <1>2 DEF DaysOf, Sequenced, OneMore
<1>7. \A u \in Underlyings : c.attempted[u] <= OptionDay(t) /\ c.closed[u] <= OptionDay(t)
  BY <1>4 DEF DaysOf
<1>8. DaysOf(c, K, t)
  BY <1>5, <1>6, <1>7 DEF DaysOf
<1>9. QED BY <1>8 DEF K

\* An entry is tried once a day.
LEMMA DaysTried ==
  ASSUME NEW b, NEW J \in Seq(OptionRow), NEW t \in Int, DaysOf(b, J, t), NEW u \in Underlyings, NEW c,
         c.day = b.day, c.halted = b.halted, c.closed = b.closed, c.attempted[u] = OptionDay(t),
         \A x \in Underlyings \ {u} : c.attempted[x] = b.attempted[x], \A x \in Underlyings : b.attempted[x] \in Int
  PROVE  DaysOf(c, J, t)
<1>1. OptionDay(t) \in Int
  BY DEF OptionDay
<1>2. ASSUME NEW x \in Underlyings PROVE b.attempted[x] <= c.attempted[x] /\ c.attempted[x] <= OptionDay(t) /\ c.attempted[x] \in Int
  BY <1>1 DEF DaysOf
<1>3. ASSUME NEW i \in DOMAIN J, J[i].kind = "buy" PROVE OptionDay(J[i].at) <= c.attempted[J[i].u]
  <2> DEFINE x == J[i].u
             d == OptionDay(J[i].at)
  <2>1. J[i] \in OptionRow
    BY LenProperties, ElementOfSeq
  <2>2. x \in Underlyings /\ d \in Int /\ d <= b.attempted[x]
    BY <1>3, <2>1, OptionRows DEF OptionBuy, OptionDay, DaysOf
  <2>3. b.attempted[x] <= c.attempted[x] /\ b.attempted[x] \in Int /\ c.attempted[x] \in Int
    BY <1>2, <2>2
  <2> HIDE DEF x, d
  <2>4. d <= c.attempted[x]
    BY <2>2, <2>3
  <2>5. QED BY <2>4 DEF x, d
<1>4. QED BY <1>2, <1>3 DEF DaysOf

LEMMA DaysBought ==
  ASSUME NEW b, NEW J \in Seq(OptionRow), NEW t \in Int, DaysOf(b, J, t), NEW r \in OptionBuy, r.at = t, NEW c,
         c.day = b.day, c.halted = b.halted, c.closed = b.closed, c.attempted[r.u] = OptionDay(t),
         \A x \in Underlyings \ {r.u} : c.attempted[x] = b.attempted[x], \A x \in Underlyings : b.attempted[x] \in Int /\ b.closed[x] \in Int,
         OptionDay(t) = b.day, ~b.halted, b.attempted[r.u] # OptionDay(t), b.closed[r.u] # OptionDay(t)
  PROVE  DaysOf(c, Append(J, r), t)
<1> DEFINE K == Append(J, r)
           now == OptionDay(t)
<1>1. r \in OptionRow /\ r.kind = "buy" /\ r.u \in Underlyings /\ now \in Int
  BY DEF OptionRow, OptionBuy, OptionDay
<1>2. PICK n : OneMore(K, J, r, n)
  BY <1>1, AppendOne
<1> HIDE DEF K
<1>3. DaysOf(c, J, t)
  BY <1>1, DaysTried
<1>4. ASSUME NEW i \in DOMAIN K
      PROVE  /\ K[i].kind = "loss" => OptionDay(K[i].at) <= c.day /\ (OptionDay(K[i].at) = c.day => c.halted)
             /\ K[i].kind = "buy" => OptionDay(K[i].at) <= c.attempted[K[i].u]
             /\ K[i].kind = "sell" => OptionDay(K[i].at) <= c.closed[K[i].u]
  <2>1. CASE i = n
    BY <1>1, <1>2, <2>1 DEF OneMore
  <2>2. CASE i \in DOMAIN J
    BY <1>2, <1>3, <2>2 DEF OneMore, DaysOf
  <2>3. QED BY <1>2, <2>1, <2>2 DEF OneMore
<1>5. ASSUME NEW j \in DOMAIN J, OptionDay(J[j].at) = now
      PROVE  J[j].kind # "loss" /\ (J[j].kind \in {"buy", "sell"} => J[j].u # r.u)
  <2>1. J[j] \in OptionRow
    BY LenProperties, ElementOfSeq
  <2>2. J[j].kind # "loss"
    BY <1>5 DEF DaysOf
  <2>3. b.attempted[r.u] <= now /\ b.closed[r.u] <= now /\ b.attempted[r.u] \in Int /\ b.closed[r.u] \in Int
    BY <1>1 DEF DaysOf
  <2>4. b.attempted[r.u] < now /\ b.closed[r.u] < now
    <3> HIDE DEF now
    <3>1. b.attempted[r.u] # now /\ b.closed[r.u] # now
      BY DEF now
    <3>2. QED BY <1>1, <2>3, <3>1
  <2>5. J[j].kind = "buy" => now <= b.attempted[J[j].u]
    BY <1>5 DEF DaysOf
  <2>6. J[j].kind = "sell" => now <= b.closed[J[j].u]
    BY <1>5 DEF DaysOf
  <2> HIDE DEF now
  <2>7. QED BY <1>1, <2>2, <2>3, <2>4, <2>5, <2>6
<1>6. Sequenced(K)
  <2> SUFFICES ASSUME NEW i \in DOMAIN K, NEW j \in DOMAIN K, K[i].kind = "buy", OptionDay(K[i].at) = OptionDay(K[j].at), i # j
               PROVE  /\ K[j].kind = "loss" => i < j
                      /\ K[j].kind \in {"buy", "sell"} /\ K[j].u = K[i].u => i < j /\ K[j].kind = "sell"
    BY DEF Sequenced
  <2>1. CASE i \in DOMAIN J /\ j \in DOMAIN J
    BY <1>2, <2>1 DEF OneMore, DaysOf, Sequenced
  <2>2. CASE i = n /\ j \in DOMAIN J
    BY <1>2, <2>2, <1>5 DEF OneMore
  <2>3. CASE i \in DOMAIN J /\ j = n
    BY <1>2, <2>3, <1>5, <1>1 DEF OneMore
  <2>4. QED BY <1>2, <2>1, <2>2, <2>3 DEF OneMore
<1>7. DaysOf(c, K, t)
  BY <1>3, <1>4, <1>6 DEF DaysOf
<1>8. QED BY <1>7 DEF K

\* The buys of the open batch have its cash for a budget; the others stay within theirs.
Financed(J) ==
  \A i \in DOMAIN J : J[i].kind = "buy" =>
    IF J[i].batch = optionBook.batch.id THEN J[i].budget = optionBook.batch.cash
    ELSE -RowSum(J, BuysOf(J[i].batch), TradeCash) <= J[i].budget /\ J[i].batch < optionSteps

LEMMA FinancedStands == ASSUME NEW J, NEW K, Financed(J), BuysStand(K, J) PROVE Financed(K)
BY DEF Financed, BuysStand

\* A trade that is no buy of the batch leaves the sum of its buys.
LEMMA TradeSums ==
  ASSUME NEW J \in Seq(OptionRow), NEW r \in TradeRows, NEW id
  PROVE  /\ RowSum(Append(J, r), BuysOf(id), TradeCash)
              = RowSum(J, BuysOf(id), TradeCash) + (IF r.kind = "buy" /\ r.batch = id THEN r.cash ELSE 0)
         /\ RowSum(J, BuysOf(id), TradeCash) \in Int
BY OptionRows, RowSumAppend, RowSumType DEF BuysOf

LEMMA FinancedSold == ASSUME NEW J \in Seq(OptionRow), NEW r \in OptionSale, Financed(J) PROVE Financed(Append(J, r)) /\ BuysStand(Append(J, r), J)
<1> DEFINE K == Append(J, r)
<1>1. r \in OptionRow /\ r \in TradeRows /\ r.kind = "sell"
  BY DEF OptionRow, TradeRows, OptionSale
<1>2. PICK n : OneMore(K, J, r, n)
  BY <1>1, AppendOne
<1>3. \A id : RowSum(K, BuysOf(id), TradeCash) = RowSum(J, BuysOf(id), TradeCash)
  BY <1>1, TradeSums
<1> HIDE DEF K
<1>4. \A i \in DOMAIN K : K[i].kind = "buy" => i \in DOMAIN J /\ K[i] = J[i]
  BY <1>1, <1>2 DEF OneMore
<1>5. BuysStand(K, J)
  BY <1>3, <1>4 DEF BuysStand
<1>6. Financed(K)
  BY <1>5, FinancedStands
<1>7. QED BY <1>5, <1>6 DEF K

LEMMA FinancedBought ==
  ASSUME NEW J \in Seq(OptionRow), NEW r \in OptionBuy, Financed(J), r.batch = optionBook.batch.id, r.budget = optionBook.batch.cash
  PROVE  /\ Financed(Append(J, r))
         /\ RowSum(Append(J, r), BuysOf(r.batch), TradeCash) = RowSum(J, BuysOf(r.batch), TradeCash) + r.cash
<1> DEFINE K == Append(J, r)
<1>1. r \in OptionRow /\ r \in TradeRows /\ r.kind = "buy"
  BY DEF OptionRow, TradeRows, OptionBuy
<1>2. PICK n : OneMore(K, J, r, n)
  BY <1>1, AppendOne
<1>3. ASSUME NEW id, id # r.batch PROVE RowSum(K, BuysOf(id), TradeCash) = RowSum(J, BuysOf(id), TradeCash)
  BY <1>1, <1>3, TradeSums
<1>4. RowSum(K, BuysOf(r.batch), TradeCash) = RowSum(J, BuysOf(r.batch), TradeCash) + r.cash
  BY <1>1, TradeSums
<1> HIDE DEF K
<1>5. ASSUME NEW i \in DOMAIN K, K[i].kind = "buy"
      PROVE  IF K[i].batch = optionBook.batch.id THEN K[i].budget = optionBook.batch.cash
             ELSE -RowSum(K, BuysOf(K[i].batch), TradeCash) <= K[i].budget /\ K[i].batch < optionSteps
  <2>1. CASE i = n
    BY <1>2, <2>1 DEF OneMore
  <2>2. CASE i \in DOMAIN J
    BY <1>2, <2>2, <1>3, <1>5 DEF OneMore, Financed
  <2>3. QED BY <1>2, <2>1, <2>2 DEF OneMore
<1>6. Financed(K)
  BY <1>5 DEF Financed
<1>7. QED BY <1>4, <1>6 DEF K

Ledger(acc) == optionFills \o acc.rows
Spent(acc) == -RowSum(Ledger(acc), BuysOf(optionBook.batch.id), TradeCash)
OptionBooking == [book : OptionDoc, rows : Seq(OptionRow)]
OptionBooks(t) ==
  {acc \in OptionBooking : /\ acc.book.batch = optionBook.batch
                           /\ Contracts(acc.book, Ledger(acc)) /\ DaysOf(acc.book, Ledger(acc), t) /\ Financed(Ledger(acc))}
CanApply(t, bids) ==
  OptionInv /\ optionBook.batch # NoOptionBatch /\ t \in Moments /\ bids \in Partially(Premiums) /\ t >= optionBook.batch.at

LEMMA OptionFields ==
  ASSUME NEW b \in OptionDoc
  PROVE  /\ b.cash \in Int /\ b.positions \in [Underlyings -> ContractState] /\ b.day \in Int /\ b.baseline \in Int
         /\ b.halted \in BOOLEAN /\ b.batch \in OpenBatch \cup {NoOptionBatch}
         /\ b.attempted \in [Underlyings -> Int] /\ b.closed \in [Underlyings -> Int] /\ b.appliedAt \in Int
         /\ b = [cash |-> b.cash, positions |-> b.positions, day |-> b.day, baseline |-> b.baseline, halted |-> b.halted,
                 batch |-> b.batch, attempted |-> b.attempted, closed |-> b.closed, appliedAt |-> b.appliedAt]
BY DEF OptionDoc

LEMMA OptionBatchOpen == OptionInv /\ optionBook.batch # NoOptionBatch => optionBook.batch \in OpenBatch
BY DEF OptionInv, OptionDoc

\* c is b with the halt that the bids call for, P the loss that was seen.
Halting(c, b, P, bids, t) ==
  /\ c \in OptionDoc /\ c.cash = b.cash /\ c.positions = b.positions /\ c.day = b.day /\ c.baseline = b.baseline /\ c.batch = b.batch
  /\ c.attempted = b.attempted /\ c.closed = b.closed /\ c.appliedAt = b.appliedAt
  /\ c.halted <=> b.halted \/ OptionLoss(b, bids, t)
  /\ P \in Seq(LossNote) /\ (\A k \in DOMAIN P : P[k].kind = "loss" /\ P[k].at = t /\ OptionLoss(b, bids, t))
  /\ ~OptionLoss(b, bids, t) => c = b /\ P = <<>>
  /\ OptionLoss(b, bids, t) => OptionDay(t) = b.day

LEMMA LatchHalts ==
  ASSUME NEW b \in OptionDoc, NEW bids, NEW t \in Int
  PROVE  Halting(Latched(b, bids, t), b, LossMark(b, bids, t), bids, t)
<1> DEFINE lost == OptionLoss(b, bids, t)
           c == Latched(b, bids, t)
           P == LossMark(b, bids, t)
           stop == b.halted \/ lost
<1>1. b.halted \in BOOLEAN /\ stop \in BOOLEAN /\ lost \in BOOLEAN
  BY DEF OptionDoc, OptionLoss
<1>2. c = [b EXCEPT !.halted = stop]
  BY DEF Latched
<1>3. lost => OptionDay(t) = b.day
  BY DEF OptionLoss, OptionsValued
<1>4. P = IF lost THEN <<[kind |-> "loss", at |-> t]>> ELSE <<>>
  BY DEF LossMark
<1> HIDE DEF c, P, lost
<1>5. /\ c \in OptionDoc /\ c.cash = b.cash /\ c.positions = b.positions /\ c.day = b.day /\ c.baseline = b.baseline /\ c.batch = b.batch
      /\ c.attempted = b.attempted /\ c.closed = b.closed /\ c.appliedAt = b.appliedAt /\ (c.halted <=> stop)
  BY <1>1, <1>2 DEF OptionDoc
<1>6. ~lost => c = b
  <2> SUFFICES ASSUME ~lost PROVE c = b
    OBVIOUS
  <2>1. stop = b.halted
    BY <1>1
  <2> HIDE DEF stop
  <2>2. c = [b EXCEPT !.halted = b.halted]
    BY <1>2, <2>1
  <2>3. QED BY <2>2 DEF OptionDoc
<1>7. P \in Seq(LossNote) /\ (\A k \in DOMAIN P : P[k].kind = "loss" /\ P[k].at = t /\ lost) /\ (~lost => P = <<>>)
  <2> DEFINE r == [kind |-> "loss", at |-> t]
  <2>1. r \in LossNote /\ r.kind = "loss" /\ r.at = t
    BY DEF LossNote
  <2> HIDE DEF r
  <2>2. CASE lost
    BY <1>4, <2>2, <2>1 DEF r
  <2>3. CASE ~lost
    BY <1>4, <2>3
  <2>4. QED BY <2>2, <2>3
<1>8. QED BY <1>3, <1>5, <1>6, <1>7 DEF Halting, stop, lost, c, P

\* acc once the marks have been looked at.
Seen(acc, bids, t) == [book |-> Latched(acc.book, bids, t), rows |-> acc.rows \o LossMark(acc.book, bids, t)]

LEMMA LatchStep ==
  ASSUME OptionInv, NEW t \in Int, NEW bids, NEW acc \in OptionBooks(t)
  PROVE  Seen(acc, bids, t) \in OptionBooks(t) /\ Spent(Seen(acc, bids, t)) = Spent(acc)
<1> DEFINE b == acc.book
           c == Latched(b, bids, t)
           P == LossMark(b, bids, t)
           d == [book |-> c, rows |-> acc.rows \o P]
<1>1. /\ acc \in OptionBooking /\ b.batch = optionBook.batch /\ b \in OptionDoc /\ acc.rows \in Seq(OptionRow)
      /\ Contracts(b, Ledger(acc)) /\ DaysOf(b, Ledger(acc), t) /\ Financed(Ledger(acc))
  BY DEF OptionBooks, OptionBooking
<1>2. Halting(c, b, P, bids, t)
  BY <1>1, LatchHalts
<1> HIDE DEF c, P
<1>3. P \in Seq(LossNote) /\ P \in Seq(QuietRow) /\ P \in Seq(OptionRow) /\ \A k \in DOMAIN P : P[k].kind = "loss"
  BY <1>2 DEF Halting, QuietRow, OptionRow
<1>4. optionFills \in Seq(OptionRow) /\ Ledger(acc) \in Seq(OptionRow)
  BY <1>1 DEF OptionInv, Contracts
<1>5. acc.rows \o P \in Seq(OptionRow) /\ Ledger(d) = Ledger(acc) \o P
  <2>1. (optionFills \o acc.rows) \o P = optionFills \o (acc.rows \o P)
    <3>1. \A R \in Seq(OptionRow) : (optionFills \o R) \o P = optionFills \o (R \o P)
      BY <1>3, <1>4, ConcatAssociative
    <3>2. QED BY <1>1, <3>1
  <2>2. QED BY <1>1, <1>3, <2>1, ConcatProperties DEF Ledger
<1>6. d \in OptionBooking /\ d.book = c /\ c.batch = optionBook.batch
  BY <1>1, <1>2, <1>5 DEF Halting, OptionBooking
<1> HIDE DEF d, b
<1>7. Contracts(c, Ledger(acc) \o P)
  <2>1. c.cash = b.cash /\ c.positions = b.positions /\ ~\E k \in DOMAIN P : P[k].kind = "pending"
    BY <1>2, <1>3 DEF Halting
  <2>2. \A u \in Underlyings : /\ c.positions[u] # NotOwned <=> b.positions[u] # NotOwned
                               /\ c.positions[u] # NotOwned =>
                                     (c.positions[u].pending <=> \/ b.positions[u].pending
                                                                 \/ \E k \in DOMAIN P : P[k].kind = "pending" /\ P[k].u = u)
    <3> SUFFICES ASSUME NEW u \in Underlyings, b.positions[u] # NotOwned
                 PROVE  b.positions[u].pending <=> (b.positions[u].pending \/ \E k \in DOMAIN P : P[k].kind = "pending" /\ P[k].u = u)
      BY <2>1
    <3>1. QED BY <2>1
  <2>3. QED BY <1>1, <1>3, <2>1, <2>2, ContractsQuiet
<1>8. DaysOf(c, Ledger(acc) \o P, t)
  <2>1. /\ c.day = b.day /\ (b.halted => c.halted) /\ c.attempted = b.attempted /\ c.closed = b.closed
        /\ \A k \in DOMAIN P : P[k].kind = "loss" => OptionDay(P[k].at) <= c.day /\ (OptionDay(P[k].at) = c.day => c.halted)
    <3>1. c.day = b.day /\ (b.halted => c.halted) /\ c.attempted = b.attempted /\ c.closed = b.closed /\ c.day \in Int
      BY <1>2 DEF Halting, OptionDoc
    <3>2. ASSUME NEW k \in DOMAIN P PROVE OptionDay(P[k].at) <= c.day /\ (OptionDay(P[k].at) = c.day => c.halted)
      BY <1>2, <3>1 DEF Halting
    <3>3. QED BY <3>1, <3>2
  <2>2. QED BY <1>1, <1>3, <1>4, <2>1, DaysQuiet
<1>9. BuysStand(Ledger(acc) \o P, Ledger(acc))
  BY <1>3, <1>4, BuysQuiet
<1>10. Financed(Ledger(acc) \o P)
  BY <1>1, <1>9, FinancedStands
<1>11. d \in OptionBooks(t)
  BY <1>5, <1>6, <1>7, <1>8, <1>10 DEF OptionBooks
<1>12. Spent(d) = Spent(acc)
  BY <1>5, <1>9 DEF Spent, BuysStand
<1>13. QED BY <1>11, <1>12 DEF d, Seen, c, P, b

LEMMA OptionBookOf ==
  ASSUME OptionInv, NEW t, NEW acc \in OptionBooks(t)
  PROVE  /\ acc.book \in OptionDoc /\ acc.rows \in Seq(OptionRow) /\ acc.book.batch = optionBook.batch
         /\ Contracts(acc.book, Ledger(acc)) /\ DaysOf(acc.book, Ledger(acc), t) /\ Financed(Ledger(acc))
         /\ optionFills \in Seq(OptionRow) /\ Ledger(acc) \in Seq(OptionRow)
         /\ acc = [book |-> acc.book, rows |-> acc.rows]
BY DEF OptionBooks, OptionInv, OptionBooking, Contracts

RowsOneMore(d, acc, c, r) == d \in OptionBooking /\ d.book = c /\ Ledger(d) = Append(Ledger(acc), r)

LEMMA RowsGrow ==
  ASSUME OptionInv, NEW t, NEW acc \in OptionBooks(t), NEW r \in OptionRow, NEW c \in OptionDoc
  PROVE  RowsOneMore([book |-> c, rows |-> Append(acc.rows, r)], acc, c, r)
BY OptionBookOf, JournalGrows, AppendProperties DEF RowsOneMore, OptionBooking, Ledger

\* A contract sold when the batch is applied.
LEMMA ExitStep ==
  ASSUME NEW t, NEW bids, CanApply(t, bids), NEW acc \in OptionBooks(t), NEW u \in Underlyings
  PROVE  BookOptionExit(acc, u, t) \in OptionBooks(t) /\ Spent(BookOptionExit(acc, u, t)) = Spent(acc)
<1> DEFINE b == acc.book
           batch == optionBook.batch
           credit == batch.marks[u] - OptionFee
           r == [kind |-> "sell", u |-> u, cash |-> credit, at |-> t]
           sum == b.cash + credit
           own == [b.positions EXCEPT ![u] = NotOwned]
           ends == [b.closed EXCEPT ![u] = OptionDay(t)]
           c == [b EXCEPT !.cash = sum, !.positions = own, !.closed = ends]
           d == [book |-> c, rows |-> Append(acc.rows, r)]
<1>1. /\ OptionInv /\ batch \in OpenBatch /\ BatchIsSound(batch) /\ t \in Int
      /\ b \in OptionDoc /\ acc.rows \in Seq(OptionRow) /\ b.batch = batch
      /\ Contracts(b, Ledger(acc)) /\ DaysOf(b, Ledger(acc), t) /\ Financed(Ledger(acc)) /\ Ledger(acc) \in Seq(OptionRow)
  BY OptionBatchOpen, OptionBookOf DEF CanApply, Moments, OptionInv
<1>2. /\ b.cash \in Int /\ b.cash >= 0 /\ b.positions \in [Underlyings -> ContractState] /\ b.closed \in [Underlyings -> Int]
      /\ OptionDay(t) \in Int
  BY <1>1, OptionFields DEF Contracts, OptionDay
<1>3. CASE u \notin batch.owned \/ batch.exits[u] # "candidate" \/ t # batch.at
  BY <1>1, <1>3 DEF BookOptionExit
<1>4. CASE u \in batch.owned /\ batch.exits[u] = "candidate" /\ t = batch.at
  <2>1. credit \in Nat
    BY <1>1, <1>4, OptionAmounts DEF BatchIsSound, OpenBatch, Partially
  <2>2. BookOptionExit(acc, u, t) = d
    BY <1>1, <1>4 DEF BookOptionExit, OptionDoc
  <2> HIDE DEF credit
  <2>3. r \in OptionSale /\ r \in OptionRow /\ r.cash = credit /\ r.at = t /\ r.u = u
    BY <1>1, <2>1 DEF OptionSale, OptionRow
  <2>4. /\ sum \in Int /\ sum >= 0 /\ own \in [Underlyings -> ContractState] /\ own[u] = NotOwned
        /\ ends \in [Underlyings -> Int] /\ ends[u] = OptionDay(t)
        /\ \A x \in Underlyings \ {u} : own[x] = b.positions[x] /\ ends[x] = b.closed[x]
    BY <1>2, <2>1 DEF ContractState
  <2>5. sum = b.cash + credit
    OBVIOUS
  <2> HIDE DEF r, sum, own, ends
  <2>6. /\ c \in OptionDoc /\ c.cash = sum /\ c.positions = own /\ c.day = b.day /\ c.halted = b.halted /\ c.batch = b.batch
        /\ c.attempted = b.attempted /\ c.closed = ends
    BY <1>1, <2>4 DEF OptionDoc
  <2> HIDE DEF c
  <2>7. d \in OptionBooking /\ d.book = c /\ Ledger(d) = Append(Ledger(acc), r)
    BY <1>1, <2>3, <2>6, RowsGrow DEF RowsOneMore
  <2> HIDE DEF d, b, batch
  <2>8. Contracts(c, Append(Ledger(acc), r))
    BY <2>3, <2>4, <2>5, <2>6, <1>1, <1>2, ContractSold
  <2>9. DaysOf(c, Append(Ledger(acc), r), t)
    BY <1>2, <2>3, <2>4, <2>6, <1>1, DaysSold
  <2>10. Financed(Append(Ledger(acc), r)) /\ BuysStand(Append(Ledger(acc), r), Ledger(acc))
    BY <1>1, <2>3, FinancedSold
  <2>11. d \in OptionBooks(t)
    BY <1>1, <2>6, <2>7, <2>8, <2>9, <2>10 DEF OptionBooks, batch, b
  <2>12. Spent(d) = Spent(acc)
    BY <2>7, <2>10 DEF Spent, BuysStand
  <2>13. QED BY <2>2, <2>11, <2>12
<1>5. QED BY <1>3, <1>4

\* c is the book of acc once an entry of u has been tried.
Tries(acc, c, u, t) ==
  /\ [book |-> c, rows |-> acc.rows] \in OptionBooks(t) /\ Spent([book |-> c, rows |-> acc.rows]) = Spent(acc)
  /\ c \in OptionDoc /\ c.cash = acc.book.cash /\ c.positions = acc.book.positions /\ c.day = acc.book.day
  /\ c.halted = acc.book.halted /\ c.closed = acc.book.closed /\ c.batch = optionBook.batch
  /\ c.attempted = [acc.book.attempted EXCEPT ![u] = OptionDay(t)]

LEMMA TriedStep ==
  ASSUME OptionInv, NEW t \in Int, NEW acc \in OptionBooks(t), NEW u \in Underlyings
  PROVE  Tries(acc, [acc.book EXCEPT !.attempted[u] = OptionDay(t)], u, t)
<1> DEFINE b == acc.book
           tries == [b.attempted EXCEPT ![u] = OptionDay(t)]
           c == [b EXCEPT !.attempted[u] = OptionDay(t)]
           d == [book |-> c, rows |-> acc.rows]
<1>1. /\ b \in OptionDoc /\ acc.rows \in Seq(OptionRow) /\ b.batch = optionBook.batch /\ b.attempted \in [Underlyings -> Int]
      /\ Contracts(b, Ledger(acc)) /\ DaysOf(b, Ledger(acc), t) /\ Financed(Ledger(acc)) /\ Ledger(acc) \in Seq(OptionRow)
      /\ OptionDay(t) \in Int
  BY OptionBookOf, OptionFields DEF OptionDay
<1>2. /\ tries \in [Underlyings -> Int] /\ tries[u] = OptionDay(t)
      /\ \A x \in Underlyings \ {u} : tries[x] = b.attempted[x]
  BY <1>1
<1>3. c = [b EXCEPT !.attempted = tries]
  BY <1>1 DEF OptionDoc
<1> HIDE DEF tries, c
<1>4. /\ c \in OptionDoc /\ c.cash = b.cash /\ c.positions = b.positions /\ c.day = b.day /\ c.halted = b.halted
      /\ c.closed = b.closed /\ c.batch = b.batch /\ c.attempted = tries
  BY <1>1, <1>2, <1>3 DEF OptionDoc
<1>5. d \in OptionBooking /\ Ledger(d) = Ledger(acc) /\ d.book = c
  BY <1>1, <1>4 DEF OptionBooking, Ledger
<1> HIDE DEF d, b
<1>6. Contracts(c, Ledger(acc))
  BY <1>1, <1>4 DEF Contracts
<1>7. DaysOf(c, Ledger(acc), t)
  BY <1>1, <1>2, <1>4, DaysTried
<1>8. d \in OptionBooks(t) /\ Spent(d) = Spent(acc)
  BY <1>1, <1>4, <1>5, <1>6, <1>7 DEF OptionBooks, Spent, b
<1>9. Tries(acc, c, u, t)
  BY <1>4, <1>8, <1>1 DEF tries, b, d, Tries
<1>10. QED BY <1>9 DEF c, b

\* An entry considered: nothing is spent, or what the contract and its fee cost.
EntryDone(d, acc, u, t) ==
  /\ d \in OptionBooks(t)
  /\ \/ Spent(d) = Spent(acc)
     \/ u \in WithinCeiling(optionBook.batch) /\ Spent(d) = Spent(acc) + DebitOf(optionBook.batch, u)

\* A contract bought when the batch is applied, at most at its ceiling.
MayPurchase(acc, tried, u, t) ==
  /\ tried = [acc.book EXCEPT !.attempted[u] = OptionDay(t)] /\ u \in optionBook.batch.candidates
  /\ DebitOf(optionBook.batch, u) <= optionBook.batch.ceilings[u] /\ DebitOf(optionBook.batch, u) <= tried.cash
  /\ OptionDay(t) = tried.day /\ ~tried.halted /\ OptionDay(t) \notin {acc.book.attempted[u], acc.book.closed[u]}
Purchase(acc, tried, u, t) ==
  [book |-> [tried EXCEPT !.cash = @ - DebitOf(optionBook.batch, u),
                          !.positions[u] = [premium |-> optionBook.batch.offers[u], pending |-> FALSE]],
   rows |-> Append(acc.rows, [kind |-> "buy", u |-> u, cash |-> -DebitOf(optionBook.batch, u), at |-> t,
                              batch |-> optionBook.batch.id, budget |-> optionBook.batch.cash])]

LEMMA PurchaseStep ==
  ASSUME NEW t, NEW bids, CanApply(t, bids), NEW acc \in OptionBooks(t), NEW u \in Underlyings, NEW tried,
         MayPurchase(acc, tried, u, t)
  PROVE  EntryDone(Purchase(acc, tried, u, t), acc, u, t)
<1> DEFINE b == acc.book
           batch == optionBook.batch
           debit == DebitOf(batch, u)
           r == [kind |-> "buy", u |-> u, cash |-> -debit, at |-> t, batch |-> batch.id, budget |-> batch.cash]
           contract == [premium |-> batch.offers[u], pending |-> FALSE]
           sum == tried.cash - debit
           own == [b.positions EXCEPT ![u] = contract]
           c == [tried EXCEPT !.cash = sum, !.positions = own]
           d == Purchase(acc, tried, u, t)
<1>1. /\ OptionInv /\ batch \in OpenBatch /\ BatchIsSound(batch) /\ t \in Int
      /\ b \in OptionDoc /\ acc.rows \in Seq(OptionRow) /\ b.batch = batch
      /\ Contracts(b, Ledger(acc)) /\ DaysOf(b, Ledger(acc), t) /\ Financed(Ledger(acc)) /\ Ledger(acc) \in Seq(OptionRow)
  BY OptionBatchOpen, OptionBookOf DEF CanApply, Moments, OptionInv
<1>2. /\ b.cash \in Int /\ b.cash >= 0 /\ b.positions \in [Underlyings -> ContractState] /\ b.closed \in [Underlyings -> Int]
      /\ b.attempted \in [Underlyings -> Int] /\ OptionDay(t) \in Int
  BY <1>1, OptionFields DEF Contracts, OptionDay
<1>3. /\ tried \in OptionDoc /\ tried.cash = b.cash /\ tried.positions = b.positions /\ tried.day = b.day
      /\ tried.halted = b.halted /\ tried.closed = b.closed /\ tried.batch = batch
      /\ tried.attempted = [b.attempted EXCEPT ![u] = OptionDay(t)]
  <2>1. Tries(acc, tried, u, t)
    BY <1>1, TriedStep DEF MayPurchase
  <2>2. QED BY <2>1 DEF Tries
<1>4. batch.offers[u] \in OfferPrices /\ batch.offers[u] \in Nat \ {0} /\ debit \in Nat /\ batch.id \in Nat /\ batch.cash \in Int
      /\ batch.ceilings[u] \in Int
  <2>1. u \in DOMAIN batch.offers
    BY <1>1 DEF BatchIsSound, MayPurchase
  <2>2. batch.offers[u] \in OfferPrices /\ batch.id \in Nat /\ batch.cash \in Int /\ batch.ceilings[u] \in Int
    BY <1>1, <2>1 DEF OpenBatch, Partially
  <2>3. batch.offers[u] \in Nat \ {0} /\ OptionFee \in Nat
    BY <2>2, OptionAmounts
  <2>4. QED BY <2>2, <2>3 DEF DebitOf
<1>5. u \in WithinCeiling(batch)
  BY DEF WithinCeiling, MayPurchase
<1>6. contract \in ContractState /\ contract # NotOwned /\ contract.pending = FALSE
  BY <1>4 DEF NotOwned, ContractState
<1>7. d = [book |-> c, rows |-> Append(acc.rows, r)]
  BY <1>3 DEF OptionDoc, Purchase
<1> HIDE DEF d
<1>8. debit <= tried.cash /\ sum = tried.cash - debit /\ sum \in Int /\ sum >= 0
  BY <1>2, <1>3, <1>4 DEF MayPurchase
<1> HIDE DEF debit, contract
<1>9. r \in OptionBuy /\ r \in OptionRow /\ r.cash = -debit /\ r.at = t /\ r.u = u /\ r.batch = batch.id /\ r.budget = batch.cash
  BY <1>1, <1>4 DEF OptionBuy, OptionRow
<1>10. own \in [Underlyings -> ContractState] /\ own[u] = contract /\ \A x \in Underlyings \ {u} : own[x] = b.positions[x]
  BY <1>2, <1>6
<1> HIDE DEF r, sum, own
<1>11. /\ c \in OptionDoc /\ c.cash = sum /\ c.positions = own /\ c.day = b.day /\ c.halted = b.halted /\ c.batch = batch
       /\ c.attempted = tried.attempted /\ c.closed = b.closed
  BY <1>3, <1>8, <1>10 DEF OptionDoc
<1> HIDE DEF c
<1>12. d \in OptionBooking /\ d.book = c /\ Ledger(d) = Append(Ledger(acc), r)
  <2>1. OptionInv /\ r \in OptionRow /\ c \in OptionDoc
    BY <1>1, <1>9, <1>11
  <2> DEFINE e == [book |-> c, rows |-> Append(acc.rows, r)]
  <2>2. RowsOneMore(e, acc, c, r)
    BY <2>1, RowsGrow
  <2>3. d = e
    BY <1>7
  <2> HIDE DEF e
  <2>4. QED BY <2>2, <2>3 DEF RowsOneMore
<1>13. OptionDay(t) = b.day /\ ~b.halted /\ b.attempted[u] # OptionDay(t) /\ b.closed[u] # OptionDay(t)
       /\ tried.attempted[u] = OptionDay(t) /\ \A x \in Underlyings \ {u} : tried.attempted[x] = b.attempted[x]
  BY <1>2, <1>3 DEF MayPurchase
<1> HIDE DEF b
<1>14. Contracts(c, Append(Ledger(acc), r))
  <2>1. c.cash = b.cash + r.cash /\ c.cash >= 0 /\ c.positions[r.u] # NotOwned /\ c.positions[r.u].pending = FALSE
        /\ \A x \in Underlyings \ {r.u} : c.positions[x] = b.positions[x]
    BY <1>2, <1>3, <1>4, <1>6, <1>8, <1>9, <1>10, <1>11
  <2>2. QED BY <1>1, <1>2, <1>9, <2>1, ContractBought
<1>15. DaysOf(c, Append(Ledger(acc), r), t)
  <2>1. /\ c.day = b.day /\ c.halted = b.halted /\ c.closed = b.closed /\ c.attempted[r.u] = OptionDay(t)
        /\ (\A x \in Underlyings \ {r.u} : c.attempted[x] = b.attempted[x])
        /\ \A x \in Underlyings : b.attempted[x] \in Int /\ b.closed[x] \in Int
    BY <1>2, <1>9, <1>11, <1>13
  <2>2. OptionDay(t) = b.day /\ ~b.halted /\ b.attempted[r.u] # OptionDay(t) /\ b.closed[r.u] # OptionDay(t)
    BY <1>9, <1>13
  <2>3. QED BY <1>1, <1>9, <2>1, <2>2, DaysBought
<1>16. /\ Financed(Append(Ledger(acc), r))
       /\ RowSum(Append(Ledger(acc), r), BuysOf(batch.id), TradeCash) = RowSum(Ledger(acc), BuysOf(batch.id), TradeCash) + r.cash
  BY <1>1, <1>9, FinancedBought
<1>17. d \in OptionBooks(t)
  BY <1>11, <1>12, <1>14, <1>15, <1>16 DEF OptionBooks
<1>18. Spent(d) = Spent(acc) + debit
  <2>1. RowSum(Ledger(acc), BuysOf(batch.id), TradeCash) \in Int
    BY <1>1, OptionRows, RowSumType
  <2>2. debit \in Int
    BY <1>4
  <2> DEFINE old == RowSum(Ledger(acc), BuysOf(batch.id), TradeCash)
  <2>3. Spent(d) = -(old + r.cash) /\ Spent(acc) = -old /\ r.cash = -debit
    BY <1>9, <1>12, <1>16 DEF Spent
  <2> HIDE DEF old
  <2>4. -(old + -debit) = -old + debit
    BY <2>1, <2>2 DEF old
  <2>5. QED BY <2>3, <2>4
<1>19. QED BY <1>5, <1>17, <1>18 DEF EntryDone, debit, d

LEMMA EntryStep ==
  ASSUME NEW t, NEW bids, CanApply(t, bids), NEW acc \in OptionBooks(t), NEW u \in Underlyings
  PROVE  EntryDone(BookOptionEntry(acc, u, t, bids), acc, u, t)
<1> DEFINE tried == [acc.book EXCEPT !.attempted[u] = OptionDay(t)]
           b == Latched(tried, bids, t)
           P == LossMark(tried, bids, t)
           premium == b.batch.offers[u]
           debit == premium + OptionFee
           seen == [book |-> b, rows |-> acc.rows \o P]
           kept == [book |-> tried, rows |-> acc.rows]
           out == BookOptionEntry(acc, u, t, bids)
           unfit == \/ ~OptionsValued(tried, bids, t) \/ b.baseline = 0 \/ b.halted \/ u \notin DOMAIN bids
                    \/ ~OptionWithinLimits(b, u, debit, premium, OptionEquity(b, bids))
           bought == [book |-> [b EXCEPT !.cash = @ - debit, !.positions[u] = [premium |-> premium, pending |-> FALSE]],
                      rows |-> Append(seen.rows, [kind |-> "buy", u |-> u, cash |-> -debit, at |-> t,
                                                  batch |-> b.batch.id, budget |-> b.batch.cash])]
<1>1. /\ OptionInv /\ t \in Int /\ acc.rows \in Seq(OptionRow) /\ acc = [book |-> acc.book, rows |-> acc.rows]
      /\ acc.book.batch = optionBook.batch
  BY OptionBookOf DEF CanApply, Moments
<1>2. Tries(acc, tried, u, t)
  BY <1>1, TriedStep
<1>3. kept \in OptionBooks(t) /\ Spent(kept) = Spent(acc) /\ tried \in OptionDoc /\ tried.batch = optionBook.batch
  BY <1>2 DEF Tries
<1>4. seen \in OptionBooks(t) /\ Spent(seen) = Spent(acc)
  <2>1. kept.book = tried /\ kept.rows = acc.rows
    OBVIOUS
  <2> HIDE DEF kept, tried
  <2>2. Seen(kept, bids, t) \in OptionBooks(t) /\ Spent(Seen(kept, bids, t)) = Spent(kept)
    BY <1>1, <1>3, LatchStep
  <2>3. Seen(kept, bids, t) = seen
    BY <2>1 DEF Seen
  <2>4. QED BY <1>3, <2>2, <2>3
<1>5. out \in {acc, kept, seen} \/ (out = bought /\ ~unfit /\ u \in optionBook.batch.candidates
                                    /\ OptionDay(t) \notin {acc.book.attempted[u], acc.book.closed[u]})
  <2>1. [acc EXCEPT !.book = tried] = kept
    <3> HIDE DEF tried
    <3>1. QED BY <1>1
  <2>2. out = IF u \notin acc.book.batch.candidates THEN kept
              ELSE IF OptionDay(t) \in {acc.book.attempted[u], acc.book.closed[u]} THEN acc
              ELSE IF u \in OwnedOptions(tried) \/ t # DecisionAt(t) THEN kept
              ELSE IF unfit THEN seen ELSE bought
    BY <2>1 DEF BookOptionEntry
  <2> HIDE DEF out, kept, seen, bought, unfit, tried
  <2>3. QED BY <1>1, <2>2
<1>6. ASSUME out \in {acc, kept, seen} PROVE EntryDone(out, acc, u, t)
  <2> HIDE DEF out, kept, seen
  <2>1. QED BY <1>3, <1>4, <1>6 DEF EntryDone
<1>7. ASSUME /\ out = bought /\ ~unfit /\ u \in optionBook.batch.candidates
             /\ OptionDay(t) \notin {acc.book.attempted[u], acc.book.closed[u]}
      PROVE  EntryDone(out, acc, u, t)
  <2>1. Halting(b, tried, P, bids, t)
    <3> HIDE DEF tried
    <3>1. QED BY <1>1, <1>3, LatchHalts
  <2>2. ~unfit => OptionDay(t) = tried.day /\ ~b.halted /\ debit <= b.batch.ceilings[u] /\ debit <= b.cash
    <3> HIDE DEF tried, b, premium, debit
    <3>1. QED BY DEF OptionsValued, OptionWithinLimits
  <2> HIDE DEF tried, P, b
  <2>3. b = tried /\ P = <<>>
    BY <1>7, <2>1, <2>2 DEF Halting
  <2>4. seen.rows = acc.rows
    BY <1>1, <2>3, ConcatEmptySeq
  <2>5. debit = DebitOf(optionBook.batch, u) /\ premium = optionBook.batch.offers[u]
    BY <1>3, <2>3 DEF DebitOf
  <2>6. /\ DebitOf(optionBook.batch, u) <= optionBook.batch.ceilings[u] /\ DebitOf(optionBook.batch, u) <= tried.cash
        /\ OptionDay(t) = tried.day /\ ~tried.halted
    BY <1>3, <1>7, <2>2, <2>3, <2>5
  <2>7. out = Purchase(acc, tried, u, t)
    BY <1>3, <1>7, <2>3, <2>4, <2>5 DEF Purchase
  <2>8. tried = [acc.book EXCEPT !.attempted[u] = OptionDay(t)]
    BY DEF tried
  <2> HIDE DEF out, unfit, debit, premium, seen, kept, bought
  <2>9. MayPurchase(acc, tried, u, t)
    BY <1>7, <2>6, <2>8 DEF MayPurchase
  <2>10. EntryDone(Purchase(acc, tried, u, t), acc, u, t)
    BY <2>9, PurchaseStep
  <2>11. QED BY <2>7, <2>10
<1>8. EntryDone(out, acc, u, t)
  <2> HIDE DEF out, kept, seen, bought, unfit
  <2>1. QED BY <1>5, <1>6, <1>7
<1>9. QED BY <1>8

LEMMA DebitsFit ==
  ASSUME NEW batch \in OpenBatch, batch.candidates \subseteq DOMAIN batch.offers
  PROVE  /\ batch.candidates \subseteq Underlyings /\ WithinCeiling(batch) \subseteq batch.candidates
         /\ \A u \in batch.candidates : DebitOf(batch, u) \in Nat
         /\ \A B \in SUBSET batch.candidates : Summable([u \in B |-> DebitOf(batch, u)], B) /\ Debits(batch, B) \in Nat
<1>1. batch.candidates \subseteq Underlyings /\ WithinCeiling(batch) \subseteq batch.candidates
  BY DEF OpenBatch, WithinCeiling
<1>2. ASSUME NEW u \in batch.candidates PROVE DebitOf(batch, u) \in Nat
  BY OptionAmounts DEF OpenBatch, Partially, DebitOf
<1>3. ASSUME NEW B \in SUBSET batch.candidates PROVE Summable([u \in B |-> DebitOf(batch, u)], B) /\ Debits(batch, B) \in Nat
  <2> DEFINE f == [u \in B |-> DebitOf(batch, u)]
  <2>1. IsFiniteSet(B)
    BY <1>1, OptionAmounts, FS_Subset
  <2>2. DOMAIN f = B /\ \A u \in B : f[u] \in Nat /\ f[u] \in Int
    BY <1>2
  <2> HIDE DEF f
  <2>3. Summable(f, B)
    BY <2>1, <2>2 DEF Summable
  <2>4. SumFunction(f) \in Nat
    BY <2>1, <2>2, SumType
  <2>5. QED BY <2>3, <2>4 DEF Debits, f
<1>4. QED BY <1>1, <1>2, <1>3

LEMMA DebitsGrow ==
  ASSUME NEW batch \in OpenBatch, batch.candidates \subseteq DOMAIN batch.offers,
         NEW B \in SUBSET batch.candidates, NEW u \in batch.candidates \ B
  PROVE  Debits(batch, B \cup {u}) = Debits(batch, B) + DebitOf(batch, u)
<1> DEFINE f == [x \in B |-> DebitOf(batch, x)]
           g == [x \in B \cup {u} |-> DebitOf(batch, x)]
<1>1. Summable(f, B) /\ DebitOf(batch, u) \in Int
  BY DebitsFit
<1>2. Grown(g, f, B, u) /\ g[u] = DebitOf(batch, u)
  BY <1>1 DEF Grown
<1> HIDE DEF f, g
<1>3. SumFunction(g) = SumFunction(f) + g[u]
  BY <1>1, <1>2, SumOfOneMore
<1>4. QED BY <1>2, <1>3 DEF Debits, f, g

\* Some of the debits are no more than all of them.
LEMMA DebitsOrdered ==
  ASSUME NEW batch \in OpenBatch, batch.candidates \subseteq DOMAIN batch.offers,
         NEW C \in SUBSET batch.candidates, NEW B \in SUBSET C
  PROVE  Debits(batch, B) <= Debits(batch, C)
<1> DEFINE f == [x \in C |-> DebitOf(batch, x)]
           g == [x \in B |-> DebitOf(batch, x)]
           h == [x \in C \ B |-> DebitOf(batch, x)]
<1>1. C \ B \in SUBSET batch.candidates /\ B \in SUBSET batch.candidates
  OBVIOUS
<1>2. Summable(f, C) /\ Debits(batch, B) \in Nat /\ Debits(batch, C \ B) \in Nat
  BY <1>1, DebitsFit
<1>3. Restricted(g, f, B) /\ Restricted(h, f, C \ B)
  BY DEF Restricted
<1> HIDE DEF f, g, h
<1>4. SumFunction(f) = SumFunction(g) + SumFunction(h)
  BY <1>2, <1>3, SumOfParts
<1>5. Debits(batch, C) = Debits(batch, B) + Debits(batch, C \ B)
  BY <1>4 DEF Debits, f, g, h
<1>6. QED BY <1>2, <1>5

LEMMA UnderlyingsInOrder ==
  LET N == Len(UnderlyingOrder)
  IN  /\ N \in Nat /\ DOMAIN UnderlyingOrder = 1..N /\ (\A i \in 1..N : UnderlyingOrder[i] \in Underlyings)
      /\ \A i, j \in 1..N : UnderlyingOrder[i] = UnderlyingOrder[j] => i = j
BY OrderOf, OptionAmounts, LenProperties, ElementOfSeq DEF UnderlyingOrder

LEMMA ExitsDone ==
  ASSUME NEW t, NEW bids, CanApply(t, bids), NEW start \in OptionBooks(t)
  PROVE  ExitAll(start, t) \in OptionBooks(t) /\ Spent(ExitAll(start, t)) = Spent(start)
<1> DEFINE N == Len(UnderlyingOrder)
           A == OptionBooks(t)
           G == [p \in A \X (1..N) |-> BookOptionExit(p[1], UnderlyingOrder[p[2]], t)]
           Iter(f) == [s \in SUBSET (1..N) |-> IF s = {} THEN start ELSE BookOptionExit(f[s \ {Max(s)}], UnderlyingOrder[Max(s)], t)]
           it == CHOOSE f : f = Iter(f)
           Same == {acc \in A : Spent(acc) = Spent(start)}
           Good == [i \in 0..N |-> Same]
<1>1. N \in Nat /\ DOMAIN UnderlyingOrder = 1..N /\ \A i \in 1..N : UnderlyingOrder[i] \in Underlyings
  BY UnderlyingsInOrder
<1>2. \A acc \in A, u \in Underlyings : BookOptionExit(acc, u, t) \in A /\ Spent(BookOptionExit(acc, u, t)) = Spent(acc)
  BY ExitStep
<1>3. G \in [A \X (1..N) -> A] /\ \A x \in A, i \in 1..N : G[<<x, i>>] = BookOptionExit(x, UnderlyingOrder[i], t)
  BY <1>1, <1>2
<1> HIDE DEF A, G, N
<1>4. PICK f : Folding(f, N, A, start, G)
  BY <1>1, <1>3, FoldIterates DEF A
<1>5. f = Iter(f)
  <2>1. ASSUME NEW s \in SUBSET (1..N), s # {} PROVE G[<<f[s \ {Max(s)}], Max(s)>>] = BookOptionExit(f[s \ {Max(s)}], UnderlyingOrder[Max(s)], t)
    BY <1>1, <2>1, LargestIndex, <1>4, <1>3 DEF Folding
  <2>2. \A s \in SUBSET (1..N) : f[s] = IF s = {} THEN start ELSE BookOptionExit(f[s \ {Max(s)}], UnderlyingOrder[Max(s)], t)
    BY <1>4, <2>1 DEF Folding
  <2>3. f = [s \in SUBSET (1..N) |-> f[s]]
    BY <1>4 DEF Folding
  <2>4. QED BY <2>2, <2>3
<1>6. it = Iter(it)
  BY <1>5
<1> HIDE DEF it
<1>7. ExitAll(start, t) = it[1..N]
  BY <1>1 DEF ExitAll, FoldLeft, MapThenFoldSet, it
<1> DEFINE onward == [s \in SUBSET (1..N) |-> BookOptionExit(it[s \ {Max(s)}], UnderlyingOrder[Max(s)], t)]
<1>8. IsFold(it, N, onward, start)
  BY <1>6 DEF IsFold
<1>9. \A s \in SUBSET (1..N) : onward[s] = BookOptionExit(it[s \ {Max(s)}], UnderlyingOrder[Max(s)], t)
  OBVIOUS
<1> HIDE DEF onward
<1>10. FoldWalks(it, N, onward, start)
  BY <1>1, <1>8, FoldWalk
<1>11. \A i \in 1..N : it[1..(i - 1)] \in Good[i - 1] => onward[1..i] \in Good[i]
  <2> SUFFICES ASSUME NEW i \in 1..N, it[1..(i - 1)] \in Good[i - 1] PROVE onward[1..i] \in Good[i]
    OBVIOUS
  <2>1. i - 1 \in 0..N /\ i \in 0..N
    BY <1>1
  <2>2. it[1..(i - 1)] \in Same
    BY <2>1
  <2>3. onward[1..i] = BookOptionExit(it[1..(i - 1)], UnderlyingOrder[i], t)
    BY <1>9, <1>10 DEF FoldWalks
  <2>4. onward[1..i] \in Same
    BY <1>1, <1>2, <2>2, <2>3
  <2>5. QED BY <2>1, <2>4
<1>12. start \in Good[0] /\ Good[N] = Same
  BY <1>1 DEF A
<1> HIDE DEF Good
<1>13. it[1..N] \in Good[N]
  BY <1>1, <1>10, <1>11, <1>12, FoldReaches
<1>14. QED BY <1>7, <1>12, <1>13 DEF A

\* The buys of the whole batch cost what their ceilings allowed.
LEMMA EntriesDone ==
  ASSUME NEW t, NEW bids, CanApply(t, bids), NEW exited \in OptionBooks(t)
  PROVE  /\ EnterAll(exited, t, bids) \in OptionBooks(t)
         /\ \E B \in SUBSET WithinCeiling(optionBook.batch) :
              Spent(EnterAll(exited, t, bids)) = Spent(exited) + Debits(optionBook.batch, B)
<1> DEFINE N == Len(UnderlyingOrder)
           A == OptionBooks(t)
           C == WithinCeiling(optionBook.batch)
           G == [p \in A \X (1..N) |-> BookOptionEntry(p[1], UnderlyingOrder[p[2]], t, bids)]
           Iter(f) == [s \in SUBSET (1..N) |-> IF s = {} THEN exited ELSE BookOptionEntry(f[s \ {Max(s)}], UnderlyingOrder[Max(s)], t, bids)]
           it == CHOOSE f : f = Iter(f)
           upTo(i) == {UnderlyingOrder[j] : j \in 1..i}
           reach(i) == {acc \in A : \E B \in SUBSET (C \cap upTo(i)) : Spent(acc) = Spent(exited) + Debits(optionBook.batch, B)}
           Good == [i \in 0..N |-> reach(i)]
<1>1. /\ N \in Nat /\ DOMAIN UnderlyingOrder = 1..N /\ (\A i \in 1..N : UnderlyingOrder[i] \in Underlyings)
      /\ \A i, j \in 1..N : UnderlyingOrder[i] = UnderlyingOrder[j] => i = j
  BY UnderlyingsInOrder
<1>2. \A acc \in A, u \in Underlyings : EntryDone(BookOptionEntry(acc, u, t, bids), acc, u, t)
  BY EntryStep
<1>3. \A acc \in A, u \in Underlyings : BookOptionEntry(acc, u, t, bids) \in A
  BY <1>2 DEF EntryDone
<1>4. G \in [A \X (1..N) -> A] /\ \A x \in A, i \in 1..N : G[<<x, i>>] = BookOptionEntry(x, UnderlyingOrder[i], t, bids)
  BY <1>1, <1>3
<1>5. optionBook.batch \in OpenBatch /\ optionBook.batch.candidates \subseteq DOMAIN optionBook.batch.offers /\ OptionInv
  BY OptionBatchOpen DEF CanApply, OptionInv, BatchIsSound
<1>6. \A acc \in A : Spent(acc) \in Int
  <2> SUFFICES ASSUME NEW acc \in A PROVE Spent(acc) \in Int
    OBVIOUS
  <2>1. Ledger(acc) \in Seq(OptionRow)
    BY <1>5, OptionBookOf
  <2>2. RowSum(Ledger(acc), BuysOf(optionBook.batch.id), TradeCash) \in Int
    BY <2>1, OptionRows, RowSumType
  <2>3. QED BY <2>2 DEF Spent
<1>7. /\ C \subseteq optionBook.batch.candidates /\ Debits(optionBook.batch, {}) = 0
      /\ \A u \in optionBook.batch.candidates : DebitOf(optionBook.batch, u) \in Nat
      /\ \A B \in SUBSET optionBook.batch.candidates : Debits(optionBook.batch, B) \in Nat
  <2>1. /\ C \subseteq optionBook.batch.candidates
        /\ \A u \in optionBook.batch.candidates : DebitOf(optionBook.batch, u) \in Nat
        /\ \A B \in SUBSET optionBook.batch.candidates : Debits(optionBook.batch, B) \in Nat
    BY <1>5, DebitsFit
  <2> DEFINE f == [u \in {} |-> DebitOf(optionBook.batch, u)]
  <2>2. Summable(f, {})
    BY <1>5, DebitsFit
  <2> HIDE DEF f
  <2>3. SumFunction(f) = 0
    BY <2>2, SumsAreInt
  <2>4. QED BY <2>1, <2>3 DEF Debits, f
<1>8. exited \in A
  OBVIOUS
<1> HIDE DEF A, G, N, C
<1>9. PICK f : Folding(f, N, A, exited, G)
  BY <1>1, <1>4, <1>8, FoldIterates
<1>10. f = Iter(f)
  <2>1. ASSUME NEW s \in SUBSET (1..N), s # {}
        PROVE  G[<<f[s \ {Max(s)}], Max(s)>>] = BookOptionEntry(f[s \ {Max(s)}], UnderlyingOrder[Max(s)], t, bids)
    BY <1>1, <2>1, LargestIndex, <1>9, <1>4 DEF Folding
  <2>2. \A s \in SUBSET (1..N) : f[s] = IF s = {} THEN exited ELSE BookOptionEntry(f[s \ {Max(s)}], UnderlyingOrder[Max(s)], t, bids)
    BY <1>9, <2>1 DEF Folding
  <2>3. f = [s \in SUBSET (1..N) |-> f[s]]
    BY <1>9 DEF Folding
  <2>4. QED BY <2>2, <2>3
<1>11. it = Iter(it)
  BY <1>10
<1> HIDE DEF it
<1>12. ASSUME exited.book.batch.listed PROVE EnterAll(exited, t, bids) = it[1..N]
  BY <1>1, <1>12 DEF EnterAll, FoldLeft, MapThenFoldSet, it
<1> DEFINE onward == [s \in SUBSET (1..N) |-> BookOptionEntry(it[s \ {Max(s)}], UnderlyingOrder[Max(s)], t, bids)]
<1>13. IsFold(it, N, onward, exited)
  BY <1>11 DEF IsFold
<1>14. \A s \in SUBSET (1..N) : onward[s] = BookOptionEntry(it[s \ {Max(s)}], UnderlyingOrder[Max(s)], t, bids)
  OBVIOUS
<1> HIDE DEF onward
<1>15. FoldWalks(it, N, onward, exited)
  BY <1>1, <1>13, FoldWalk
<1>16. ASSUME NEW i \in 1..N, it[1..(i - 1)] \in Good[i - 1] PROVE onward[1..i] \in Good[i]
  <2> DEFINE u == UnderlyingOrder[i]
             acc == it[1..(i - 1)]
             d == onward[1..i]
  <2>1. i - 1 \in 0..N /\ i \in 0..N /\ u \in Underlyings
    BY <1>1
  <2>2. acc \in reach(i - 1)
    BY <1>16, <2>1
  <2>3. d = BookOptionEntry(acc, u, t, bids)
    BY <1>14, <1>15 DEF FoldWalks
  <2>4. acc \in A
    BY <2>2
  <2>5. upTo(i) = upTo(i - 1) \cup {u} /\ u \notin upTo(i - 1)
    BY <1>1
  <2>6. PICK B \in SUBSET (C \cap upTo(i - 1)) : Spent(acc) = Spent(exited) + Debits(optionBook.batch, B)
    BY <2>2
  <2> HIDE DEF acc, u, d
  <2>7. d \in A /\ (Spent(d) = Spent(acc) \/ (u \in C /\ Spent(d) = Spent(acc) + DebitOf(optionBook.batch, u)))
    BY <1>2, <2>1, <2>3, <2>4 DEF EntryDone, A, C
  <2> HIDE DEF upTo
  <2>8. d \in reach(i)
    <3>1. CASE Spent(d) = Spent(acc)
      BY <2>5, <2>6, <3>1, <2>7
    <3>2. CASE u \in C /\ Spent(d) = Spent(acc) + DebitOf(optionBook.batch, u)
      <4> DEFINE E == B \cup {u}
      <4>1. E \in SUBSET (C \cap upTo(i)) /\ B \in SUBSET optionBook.batch.candidates /\ u \in optionBook.batch.candidates \ B
        BY <1>7, <2>5, <2>6, <3>2
      <4>2. Debits(optionBook.batch, E) = Debits(optionBook.batch, B) + DebitOf(optionBook.batch, u)
        BY <1>5, <4>1, DebitsGrow
      <4> HIDE DEF E
      <4>3. Spent(d) = Spent(exited) + Debits(optionBook.batch, E)
        BY <1>6, <1>7, <1>8, <4>1, <2>6, <3>2, <4>2
      <4>4. QED BY <2>7, <4>1, <4>3
    <3>3. QED BY <2>7, <3>1, <3>2
  <2>9. Good[i] = reach(i)
    BY <2>1
  <2>10. d \in Good[i]
    BY <2>8, <2>9
  <2>11. QED BY <2>10 DEF d
<1>17. exited \in reach(0)
  <2>1. Spent(exited) = Spent(exited) + Debits(optionBook.batch, {}) /\ {} \in SUBSET (C \cap upTo(0))
    BY <1>6, <1>7, <1>8
  <2> HIDE DEF upTo
  <2>2. QED BY <1>8, <2>1
<1>18. exited \in Good[0] /\ Good[N] = reach(N)
  BY <1>1, <1>17
<1> HIDE DEF Good, reach
<1>19. it[1..N] \in Good[N]
  BY <1>1, <1>15, <1>16, <1>18, FoldReaches
<1>20. CASE exited.book.batch.listed
  BY <1>12, <1>18, <1>19, <1>20 DEF reach, A, C
<1>21. CASE ~exited.book.batch.listed
  <2>1. EnterAll(exited, t, bids) = exited
    BY <1>21 DEF EnterAll
  <2>2. Spent(exited) = Spent(exited) + Debits(optionBook.batch, {}) /\ {} \in SUBSET C
    BY <1>6, <1>7, <1>8
  <2>3. QED BY <1>8, <2>1, <2>2 DEF A, C
<1>22. QED BY <1>20, <1>21

LEMMA DaysInOrder == \A s, t \in Int : s <= t => OptionDay(s) <= OptionDay(t) /\ OptionDay(s) \in Int
BY DEF OptionDay

LEMMA StartsToApply ==
  ASSUME NEW t, NEW bids, CanApply(t, bids)
  PROVE  [book |-> optionBook, rows |-> <<>>] \in OptionBooks(t) /\ Spent([book |-> optionBook, rows |-> <<>>]) = 0
<1> DEFINE acc == [book |-> optionBook, rows |-> <<>>]
           batch == optionBook.batch
<1>1. /\ OptionInv /\ batch \in OpenBatch /\ BatchIsSound(batch) /\ t \in Int /\ t >= batch.at /\ batch.at \in Int
      /\ optionBook.appliedAt \in Int /\ optionBook \in OptionDoc /\ optionFills \in Seq(OptionRow)
      /\ Contracts(optionBook, optionFills) /\ DaysOf(optionBook, optionFills, optionBook.appliedAt) /\ Budgeted(optionFills)
  BY OptionBatchOpen, OptionFields DEF CanApply, Moments, OpenBatch, OptionInv, Contracts
<1>2. acc \in OptionBooking /\ acc.book = optionBook /\ Ledger(acc) = optionFills
  BY <1>1, ConcatEmptySeq DEF OptionBooking, Ledger
<1> HIDE DEF acc
<1>3. DaysOf(optionBook, optionFills, t)
  <2>1. OptionDay(optionBook.appliedAt) <= OptionDay(t) /\ OptionDay(optionBook.appliedAt) \in Int /\ OptionDay(t) \in Int
    BY <1>1, DaysInOrder DEF BatchIsSound, OptionDay
  <2>2. ASSUME NEW u \in Underlyings PROVE optionBook.attempted[u] <= OptionDay(t) /\ optionBook.closed[u] <= OptionDay(t)
    BY <1>1, OptionFields, <2>1 DEF DaysOf
  <2>3. QED BY <1>1, <2>2 DEF DaysOf
<1>4. Financed(optionFills)
  BY <1>1 DEF Budgeted, Financed, BatchIsSound
<1>5. Spent(acc) = 0
  <2> DEFINE R == BuysOf(batch.id)
             f == Weighed(optionFills, R, TradeCash)
  <2>1. RowsIn(optionFills, R) = {}
    BY <1>1, OptionRows DEF RowsIn, BuysOf, BatchIsSound
  <2> HIDE DEF R
  <2>2. Summable(f, RowsIn(optionFills, R))
    BY <1>1, OptionRows, RowSumType
  <2> HIDE DEF f
  <2>3. SumFunction(f) = 0
    BY <2>1, <2>2, SumsAreInt
  <2>4. RowSum(optionFills, R, TradeCash) = 0
    BY <2>3 DEF RowSum, f
  <2>5. Spent(acc) = -RowSum(optionFills, R, TradeCash)
    BY <1>2 DEF Spent, R
  <2>6. \A x \in Int : -x = 0 - x
    OBVIOUS
  <2>7. RowSum(optionFills, R, TradeCash) \in Int
    BY <2>4
  <2> HIDE DEF acc, R
  <2>8. Spent(acc) = 0 - RowSum(optionFills, R, TradeCash)
    BY <2>5, <2>6, <2>7
  <2>9. QED BY <2>4, <2>8
<1>6. acc \in OptionBooks(t)
  BY <1>1, <1>2, <1>3, <1>4 DEF OptionBooks
<1>7. QED BY <1>5, <1>6 DEF acc

LEMMA OptionsApplied ==
  ASSUME OptionInv, optionSteps' = optionSteps + 1, NEW t \in Moments, NEW bids \in Partially(Premiums), ApplyOptions(t, bids)
  PROVE  OptionInv'
<1> DEFINE batch == optionBook.batch
           blank == [book |-> optionBook, rows |-> <<>>]
           start == [book |-> Latched(optionBook, bids, t), rows |-> LossMark(optionBook, bids, t)]
           exited == ExitAll(start, t)
           done == EnterAll(exited, t, bids)
           final == Seen(done, bids, t)
<1>1. /\ optionBook' = [Latched(done.book, bids, t) EXCEPT !.batch = NoOptionBatch, !.appliedAt = t]
      /\ optionFills' = optionFills \o done.rows \o LossMark(done.book, bids, t)
      /\ batch # NoOptionBatch /\ t >= batch.at
  BY DEF ApplyOptions
<1>2. CanApply(t, bids) /\ t \in Int /\ batch \in OpenBatch /\ BatchIsSound(batch) /\ optionSteps \in Nat
  BY <1>1, OptionBatchOpen DEF CanApply, Moments, OptionInv
<1>3. blank \in OptionBooks(t) /\ Spent(blank) = 0
  BY <1>2, StartsToApply
<1>4. start \in OptionBooks(t) /\ Spent(start) = 0
  <2>1. start = Seen(blank, bids, t)
    BY <1>2, LatchHalts, ConcatEmptySeq DEF OptionInv, Halting, Seen
  <2> HIDE DEF blank, start
  <2>2. Seen(blank, bids, t) \in OptionBooks(t) /\ Spent(Seen(blank, bids, t)) = Spent(blank)
    BY <1>2, <1>3, LatchStep
  <2>3. QED BY <1>3, <2>1, <2>2
<1> HIDE DEF start
<1>5. exited \in OptionBooks(t) /\ Spent(exited) = 0
  BY <1>2, <1>4, ExitsDone
<1> HIDE DEF exited
<1>6. done \in OptionBooks(t) /\ \E B \in SUBSET WithinCeiling(batch) : Spent(done) = Spent(exited) + Debits(batch, B)
  BY <1>2, <1>5, EntriesDone
<1> HIDE DEF done
<1>7. PICK B \in SUBSET WithinCeiling(batch) : Spent(done) = Spent(exited) + Debits(batch, B)
  BY <1>6
<1>8. final \in OptionBooks(t) /\ Spent(final) = Spent(done)
  BY <1>2, <1>6, LatchStep
<1>9. Spent(final) <= batch.cash
  <2>1. /\ WithinCeiling(batch) \subseteq batch.candidates /\ batch.candidates \subseteq DOMAIN batch.offers
        /\ Debits(batch, B) \in Int /\ Debits(batch, WithinCeiling(batch)) \in Int /\ batch.cash \in Int
    <3>1. batch.candidates \subseteq DOMAIN batch.offers
      BY <1>2 DEF BatchIsSound
    <3>2. WithinCeiling(batch) \subseteq batch.candidates /\ \A D \in SUBSET batch.candidates : Debits(batch, D) \in Nat
      BY <1>2, <3>1, DebitsFit
    <3>3. batch.cash \in Int
      BY <1>2 DEF OpenBatch
    <3>4. Debits(batch, B) \in Nat /\ Debits(batch, WithinCeiling(batch)) \in Nat
      BY <3>2
    <3>5. QED BY <3>1, <3>2, <3>3, <3>4
  <2>2. Debits(batch, B) <= Debits(batch, WithinCeiling(batch))
    BY <1>2, <2>1, DebitsOrdered
  <2>3. Debits(batch, WithinCeiling(batch)) <= batch.cash
    BY <1>2 DEF BatchIsSound
  <2>4. QED BY <1>5, <1>7, <1>8, <2>1, <2>2, <2>3
<1>10. optionFills' = Ledger(final)
  <2> DEFINE L == LossMark(done.book, bids, t)
  <2>1. done.rows \in Seq(OptionRow) /\ optionFills \in Seq(OptionRow) /\ done.book \in OptionDoc
    BY <1>6, OptionBookOf
  <2>2. L \in Seq(OptionRow)
    <3>1. Halting(Latched(done.book, bids, t), done.book, L, bids, t)
      BY <1>2, <2>1, LatchHalts
    <3>2. L \in Seq(LossNote) /\ LossNote \subseteq OptionRow
      BY <3>1 DEF Halting, OptionRow
    <3> HIDE DEF L
    <3>3. QED BY <3>2
  <2> HIDE DEF L
  <2>3. (optionFills \o done.rows) \o L = optionFills \o (done.rows \o L)
    <3>1. \A R \in Seq(OptionRow) : (optionFills \o R) \o L = optionFills \o (R \o L)
      BY <2>1, <2>2, ConcatAssociative
    <3>2. QED BY <2>1, <3>1
  <2>4. QED BY <1>1, <2>3 DEF Ledger, Seen, L
<1>11. /\ final.book \in OptionDoc /\ Contracts(final.book, Ledger(final)) /\ DaysOf(final.book, Ledger(final), t)
       /\ Financed(Ledger(final)) /\ optionBook' = [final.book EXCEPT !.batch = NoOptionBatch, !.appliedAt = t]
  <2>1. final.book = Latched(done.book, bids, t)
    BY DEF Seen
  <2> HIDE DEF final
  <2>2. QED BY <1>1, <1>8, <2>1, OptionBookOf
<1> HIDE DEF final
<1>12. /\ optionBook' \in OptionDoc /\ optionBook'.batch = NoOptionBatch /\ optionBook'.appliedAt = t
       /\ optionBook'.cash = final.book.cash /\ optionBook'.positions = final.book.positions /\ optionBook'.day = final.book.day
       /\ optionBook'.halted = final.book.halted /\ optionBook'.attempted = final.book.attempted
       /\ optionBook'.closed = final.book.closed
  BY <1>2, <1>11 DEF OptionDoc
<1>13. Contracts(optionBook, optionFills)'
  BY <1>10, <1>11, <1>12 DEF Contracts
<1>14. DaysOf(optionBook, optionFills, optionBook.appliedAt)'
  BY <1>10, <1>11, <1>12 DEF DaysOf
<1>15. Budgeted(optionFills)'
  <2> SUFFICES ASSUME NEW i \in DOMAIN optionFills', optionFills'[i].kind = "buy"
               PROVE  /\ -RowSum(optionFills', BuysOf(optionFills'[i].batch), TradeCash) <= optionFills'[i].budget
                      /\ optionFills'[i].batch < optionSteps'
    BY DEF Budgeted
  <2>1. optionFills'[i].batch \in Nat
    BY <1>13, LenProperties, ElementOfSeq, OptionRows DEF Contracts, OptionBuy
  <2>2. CASE optionFills'[i].batch = batch.id
    BY <1>10, <1>11, <2>2, <1>2, <1>9, <2>1 DEF Financed, Spent, BatchIsSound
  <2>3. CASE optionFills'[i].batch # batch.id
    BY <1>10, <1>11, <2>3, <1>2, <2>1 DEF Financed
  <2>4. QED BY <2>2, <2>3
<1>16. QED BY <1>2, <1>12, <1>13, <1>14, <1>15 DEF OptionInv

LEMMA BaselineSet ==
  ASSUME OptionInv, optionSteps' = optionSteps + 1, NEW date \in 0..LastOptionDay, NEW worth \in Int, SetOptionBaseline(date, worth)
  PROVE  OptionInv'
<1> DEFINE stop == optionBook.halted /\ date = optionBook.day
<1>1. /\ date >= optionBook.day /\ optionFills' = optionFills
      /\ optionBook' = [optionBook EXCEPT !.day = date, !.baseline = worth, !.halted = @ /\ date = optionBook.day]
  BY DEF SetOptionBaseline
<1>2. optionBook \in OptionDoc /\ optionSteps \in Nat /\ optionBook.appliedAt \in Moments \cup {-1} /\ date \in Int /\ stop \in BOOLEAN
      /\ optionBook.day \in Int
  BY OptionFields, OptionAmounts DEF OptionInv
<1>3. optionBook' = [optionBook EXCEPT !.day = date, !.baseline = worth, !.halted = stop]
  BY <1>1, <1>2 DEF OptionDoc
<1>4. stop => optionBook.halted /\ date = optionBook.day
  OBVIOUS
<1>5. optionBook.halted /\ date = optionBook.day => stop
  OBVIOUS
<1> HIDE DEF stop
<1>6. /\ optionBook' \in OptionDoc /\ optionBook'.cash = optionBook.cash /\ optionBook'.positions = optionBook.positions
      /\ optionBook'.day = date /\ optionBook'.halted = stop /\ optionBook'.batch = optionBook.batch
      /\ optionBook'.attempted = optionBook.attempted /\ optionBook'.closed = optionBook.closed
      /\ optionBook'.appliedAt = optionBook.appliedAt
  BY <1>2, <1>3 DEF OptionDoc
<1>7. /\ Contracts(optionBook, optionFills) /\ DaysOf(optionBook, optionFills, optionBook.appliedAt) /\ Budgeted(optionFills)
      /\ optionFills \in Seq(OptionRow) /\ (optionBook.batch # NoOptionBatch => BatchIsSound(optionBook.batch))
  BY DEF OptionInv, Contracts
<1>8. ASSUME NEW i \in DOMAIN optionFills PROVE OptionDay(optionFills[i].at) \in Int
  BY <1>7, LenProperties, ElementOfSeq DEF OptionRow, LossNote, ReasonNote, OptionSale, OptionBuy, OptionDay
<1>9. Contracts(optionBook, optionFills)'
  BY <1>1, <1>6, <1>7 DEF Contracts
<1>10. DaysOf(optionBook, optionFills, optionBook.appliedAt)'
  <2>1. ASSUME NEW i \in DOMAIN optionFills, optionFills[i].kind = "loss"
        PROVE  OptionDay(optionFills[i].at) <= date /\ (OptionDay(optionFills[i].at) = date => stop)
    BY <1>7, <2>1, <1>8, <1>1, <1>2, <1>5 DEF DaysOf
  <2>2. QED BY <1>1, <1>6, <1>7, <2>1 DEF DaysOf
<1>11. Budgeted(optionFills)'
  <2> SUFFICES ASSUME NEW i \in DOMAIN optionFills, optionFills[i].kind = "buy"
               PROVE  /\ -RowSum(optionFills, BuysOf(optionFills[i].batch), TradeCash) <= optionFills[i].budget
                      /\ optionFills[i].batch < optionSteps'
    BY <1>1 DEF Budgeted
  <2>1. optionFills[i].batch \in Nat
    BY <1>7, LenProperties, ElementOfSeq, OptionRows DEF OptionBuy
  <2>2. QED BY <1>2, <1>7, <2>1 DEF Budgeted
<1>12. optionBook'.batch # NoOptionBatch => BatchIsSound(optionBook.batch)'
  <2> SUFFICES ASSUME optionBook.batch # NoOptionBatch PROVE BatchIsSound(optionBook.batch)'
    BY <1>6
  <2>1. BatchIsSound(optionBook.batch) /\ optionBook.batch \in OpenBatch
    BY <1>7, OptionBatchOpen
  <2>2. optionBook.batch.id < optionSteps'
    BY <2>1, <1>2 DEF OpenBatch, BatchIsSound
  <2>3. QED BY <1>1, <1>6, <2>1, <2>2 DEF BatchIsSound, WithinCeiling, Debits, DebitOf
<1>13. QED BY <1>2, <1>6, <1>9, <1>10, <1>11, <1>12 DEF OptionInv


LEMMA OutstandingFits == ASSUME NEW b \in OptionDoc PROVE Outstanding(b) \in Int /\ Cardinality(OwnedOptions(b)) \in Int /\ IsFiniteSet(OwnedOptions(b))
<1> DEFINE f == [u \in Underlyings |-> b.positions[u].premium]
<1>1. ASSUME NEW u \in Underlyings PROVE f[u] \in Int
  BY OptionFields, OptionAmounts DEF ContractState, NotOwned
<1>2. DOMAIN f = Underlyings
  OBVIOUS
<1> HIDE DEF f
<1>3. Summable(f, Underlyings)
  BY <1>1, <1>2, OptionAmounts DEF Summable
<1>4. SumFunction(f) \in Int
  BY <1>3, SumsAreInt
<1>5. IsFiniteSet(OwnedOptions(b)) /\ Cardinality(OwnedOptions(b)) \in Nat
  BY OptionAmounts, FS_Subset, FS_CardinalityType DEF OwnedOptions
<1>6. QED BY <1>4, <1>5 DEF Outstanding, f

\* A ceiling is no more than the cash that is left.
LEMMA CeilingFits ==
  ASSUME NEW b \in OptionDoc, NEW worth \in Int, NEW left \in Int, NEW outstanding \in Int
  PROVE  CeilingOf(b, worth, left, outstanding) \in Int /\ (CeilingOf(b, worth, left, outstanding) > 0 => CeilingOf(b, worth, left, outstanding) <= left)
<1> DEFINE x == (worth * EntryShare) \div 1000
           w == (worth * OutstandingShare) \div 1000
           z == w - outstanding + OptionFee
           m == Min({x, left, z})
<1>1. x \in Int /\ w \in Int /\ OptionFee \in Int
  BY OptionAmounts
<1> HIDE DEF x, w
<1>2. z \in Int
  BY <1>1
<1> HIDE DEF z
<1>3. m \in Int /\ m <= left
  BY <1>1, <1>2, MinOfThree
<1> HIDE DEF m
<1>4. Max({0, m}) \in Int /\ (Max({0, m}) > 0 => Max({0, m}) <= left)
  BY <1>3, MaxOfTwo
<1>5. QED BY <1>4 DEF CeilingOf, m, x, z, w

LEMMA CeilingsFit ==
  ASSUME NEW batch \in OpenBatch, batch.candidates \subseteq DOMAIN batch.offers, NEW b \in OptionDoc, b.cash >= 0,
         NEW priced \in BOOLEAN, NEW worth \in Int
  PROVE  /\ Ceilings(b, priced, worth, batch.candidates, batch.offers) \in [Underlyings -> Int]
         /\ Debits(batch, {u \in batch.candidates : DebitOf(batch, u) <= Ceilings(b, priced, worth, batch.candidates, batch.offers)[u]}) <= b.cash
<1> DEFINE N == Len(UnderlyingOrder)
           C == batch.candidates
           one(acc, u) == Ceiling(acc, u, b, priced, worth, batch.candidates, batch.offers)
           A == [cash : Int, outstanding : Int, of : [Underlyings -> Int]]
           first == [cash |-> b.cash, outstanding |-> Outstanding(b), of |-> [u \in Underlyings |-> 0]]
           G == [p \in A \X (1..N) |-> one(p[1], UnderlyingOrder[p[2]])]
           Iter(f) == [s \in SUBSET (1..N) |-> IF s = {} THEN first
                                                ELSE Ceiling(f[s \ {Max(s)}], UnderlyingOrder[Max(s)], b, priced, worth, batch.candidates, batch.offers)]
           it == CHOOSE f : f = Iter(f)
           upTo(i) == {UnderlyingOrder[j] : j \in 1..i}
           fit(acc, i) == {x \in C \cap upTo(i) : DebitOf(batch, x) <= acc.of[x]}
           reach(i) == {acc \in A : acc.cash >= 0 /\ acc.cash = b.cash - Debits(batch, fit(acc, i))}
           Good == [i \in 0..N |-> reach(i)]
<1>1. /\ N \in Nat /\ DOMAIN UnderlyingOrder = 1..N /\ (\A i \in 1..N : UnderlyingOrder[i] \in Underlyings)
      /\ \A i, j \in 1..N : UnderlyingOrder[i] = UnderlyingOrder[j] => i = j
  BY UnderlyingsInOrder
<1>2. b.cash \in Int /\ Outstanding(b) \in Int
  BY OptionFields, OutstandingFits
<1>3. first \in A
  BY <1>2
<1>4. /\ C \subseteq Underlyings /\ (\A u \in C : DebitOf(batch, u) \in Nat /\ batch.offers[u] \in Nat \ {0} /\ DebitOf(batch, u) > 0)
      /\ (\A B \in SUBSET C : Debits(batch, B) \in Nat) /\ Debits(batch, {}) = 0
  <2>1. C \subseteq Underlyings /\ (\A u \in C : DebitOf(batch, u) \in Nat) /\ \A B \in SUBSET C : Debits(batch, B) \in Nat
    BY DebitsFit
  <2>2. ASSUME NEW u \in C PROVE batch.offers[u] \in Nat \ {0} /\ DebitOf(batch, u) > 0
    BY OptionAmounts DEF OpenBatch, Partially, DebitOf
  <2> DEFINE f == [u \in {} |-> DebitOf(batch, u)]
  <2>3. Summable(f, {})
    BY DebitsFit
  <2> HIDE DEF f
  <2>4. SumFunction(f) = 0
    BY <2>3, SumsAreInt
  <2>5. QED BY <2>1, <2>2, <2>4 DEF Debits, f
<1>5. ASSUME NEW acc \in A, NEW u \in Underlyings
      PROVE  /\ one(acc, u) \in A
             /\ u \notin C => one(acc, u) = acc
             /\ u \in C => /\ \A x \in Underlyings \ {u} : one(acc, u).of[x] = acc.of[x]
                           /\ IF DebitOf(batch, u) <= one(acc, u).of[u]
                              THEN one(acc, u).cash = acc.cash - DebitOf(batch, u) /\ DebitOf(batch, u) <= acc.cash
                              ELSE one(acc, u).cash = acc.cash
  <2> DEFINE e == one(acc, u)
             ceiling == IF priced THEN CeilingOf(b, worth, acc.cash, acc.outstanding) ELSE 0
             fits == batch.offers[u] + OptionFee <= ceiling
             left == IF fits THEN acc.cash - batch.offers[u] - OptionFee ELSE acc.cash
             now == IF fits THEN acc.outstanding + batch.offers[u] ELSE acc.outstanding
             of == [acc.of EXCEPT ![u] = ceiling]
  <2>1. acc.cash \in Int /\ acc.outstanding \in Int /\ acc.of \in [Underlyings -> Int] /\ OptionFee \in Nat
    BY OptionAmounts
  <2>2. ceiling \in Int /\ (ceiling > 0 => ceiling <= acc.cash)
    BY <2>1, CeilingFits
  <2>3. e = IF u \notin C THEN acc ELSE [cash |-> left, outstanding |-> now, of |-> of]
    BY DEF Ceiling
  <2> HIDE DEF e, ceiling
  <2>4. of \in [Underlyings -> Int] /\ of[u] = ceiling /\ \A x \in Underlyings \ {u} : of[x] = acc.of[x]
    BY <2>1, <2>2
  <2> HIDE DEF of
  <2>5. u \in C => /\ left \in Int /\ now \in Int /\ (fits <=> DebitOf(batch, u) <= ceiling)
                   /\ IF fits THEN left = acc.cash - DebitOf(batch, u) /\ DebitOf(batch, u) <= acc.cash ELSE left = acc.cash
    <3> SUFFICES ASSUME u \in C PROVE /\ left \in Int /\ now \in Int /\ (fits <=> DebitOf(batch, u) <= ceiling)
                                      /\ IF fits THEN left = acc.cash - DebitOf(batch, u) /\ DebitOf(batch, u) <= acc.cash ELSE left = acc.cash
      OBVIOUS
    <3>1. batch.offers[u] \in Nat \ {0} /\ DebitOf(batch, u) = batch.offers[u] + OptionFee
      BY <1>4 DEF DebitOf
    <3>2. QED BY <2>1, <2>2, <3>1
  <2> HIDE DEF left, now, fits
  <2>6. CASE u \in C
    BY <2>3, <2>6, <2>4, <2>5 DEF e
  <2>7. CASE u \notin C
    BY <2>3, <2>7 DEF e
  <2>8. QED BY <2>6, <2>7
<1>6. G \in [A \X (1..N) -> A] /\ \A x \in A, i \in 1..N : G[<<x, i>>] = one(x, UnderlyingOrder[i])
  BY <1>1, <1>5
<1> HIDE DEF A, first, G, N, C, one
<1>7. PICK f : Folding(f, N, A, first, G)
  BY <1>1, <1>3, <1>6, FoldIterates
<1>8. f = Iter(f)
  <2>1. ASSUME NEW s \in SUBSET (1..N), s # {} PROVE G[<<f[s \ {Max(s)}], Max(s)>>] = one(f[s \ {Max(s)}], UnderlyingOrder[Max(s)])
    BY <1>1, <2>1, LargestIndex, <1>7, <1>6 DEF Folding
  <2>2. \A s \in SUBSET (1..N) : f[s] = IF s = {} THEN first ELSE one(f[s \ {Max(s)}], UnderlyingOrder[Max(s)])
    BY <1>7, <2>1 DEF Folding
  <2>3. f = [s \in SUBSET (1..N) |-> f[s]]
    BY <1>7 DEF Folding
  <2>4. QED BY <2>2, <2>3 DEF one
<1>9. it = Iter(it)
  BY <1>8
<1> HIDE DEF it
<1>10. Ceilings(b, priced, worth, batch.candidates, batch.offers) = it[1..N].of
  BY <1>1 DEF Ceilings, FoldLeft, MapThenFoldSet, it, first
<1> DEFINE onward == [s \in SUBSET (1..N) |-> one(it[s \ {Max(s)}], UnderlyingOrder[Max(s)])]
<1>11. IsFold(it, N, onward, first)
  BY <1>9 DEF one, IsFold
<1>12. \A s \in SUBSET (1..N) : onward[s] = one(it[s \ {Max(s)}], UnderlyingOrder[Max(s)])
  OBVIOUS
<1> HIDE DEF onward
<1>13. FoldWalks(it, N, onward, first)
  BY <1>1, <1>11, FoldWalk
<1>14. ASSUME NEW i \in 1..N, it[1..(i - 1)] \in Good[i - 1] PROVE onward[1..i] \in Good[i]
  <2> DEFINE u == UnderlyingOrder[i]
             acc == it[1..(i - 1)]
             d == onward[1..i]
  <2>1. i - 1 \in 0..N /\ i \in 0..N /\ u \in Underlyings
    BY <1>1
  <2>2. acc \in reach(i - 1) /\ acc \in A
    BY <1>14, <2>1
  <2>3. d = one(acc, u)
    BY <1>12, <1>13 DEF FoldWalks
  <2>4. upTo(i) = upTo(i - 1) \cup {u} /\ u \notin upTo(i - 1)
    BY <1>1
  <2>5. acc.cash >= 0 /\ acc.cash = b.cash - Debits(batch, fit(acc, i - 1))
    BY <2>2
  <2> HIDE DEF acc, u, d, upTo
  <2>6. /\ d \in A
        /\ u \notin C => d = acc
        /\ u \in C => /\ \A x \in Underlyings \ {u} : d.of[x] = acc.of[x]
                      /\ IF DebitOf(batch, u) <= d.of[u]
                         THEN d.cash = acc.cash - DebitOf(batch, u) /\ DebitOf(batch, u) <= acc.cash
                         ELSE d.cash = acc.cash
    BY <1>5, <2>1, <2>2, <2>3
  <2>7. d.cash >= 0 /\ d.cash = b.cash - Debits(batch, fit(d, i))
    <3>1. CASE u \notin C
      BY <2>4, <2>6, <3>1, <2>5
    <3>2. CASE u \in C /\ DebitOf(batch, u) <= d.of[u]
      <4>1. fit(d, i) = fit(acc, i - 1) \cup {u} /\ u \notin fit(acc, i - 1)
        BY <1>4, <2>4, <2>6, <3>2
      <4>2. fit(acc, i - 1) \in SUBSET C
        OBVIOUS
      <4> HIDE DEF fit
      <4>3. Debits(batch, fit(d, i)) = Debits(batch, fit(acc, i - 1)) + DebitOf(batch, u)
        BY <3>2, <4>1, <4>2, DebitsGrow DEF C
      <4>4. DebitOf(batch, u) \in Int /\ Debits(batch, fit(acc, i - 1)) \in Int /\ acc.cash \in Int
        BY <1>2, <1>4, <2>5, <3>2, <4>2
      <4>5. QED BY <1>2, <2>5, <2>6, <3>2, <4>3, <4>4
    <3>3. CASE u \in C /\ ~(DebitOf(batch, u) <= d.of[u])
      BY <1>4, <2>4, <2>6, <3>3, <2>5
    <3>4. QED BY <3>1, <3>2, <3>3
  <2> HIDE DEF fit
  <2>8. d \in reach(i) /\ Good[i] = reach(i)
    BY <2>1, <2>6, <2>7
  <2>9. d \in Good[i]
    BY <2>8
  <2>10. QED BY <2>9 DEF d
<1>15. first \in reach(0)
  <2>1. fit(first, 0) = {}
    OBVIOUS
  <2> HIDE DEF fit
  <2>2. Debits(batch, fit(first, 0)) = 0 /\ first.cash = b.cash
    BY <1>4, <2>1 DEF first
  <2>3. QED BY <1>2, <1>3, <2>2
<1>16. first \in Good[0] /\ Good[N] = reach(N)
  BY <1>1, <1>15
<1> HIDE DEF Good
<1>17. it[1..N] \in Good[N]
  BY <1>1, <1>13, <1>14, <1>16, FoldReaches
<1> DEFINE last == it[1..N]
<1>18. last \in A /\ last.cash >= 0 /\ last.cash = b.cash - Debits(batch, fit(last, N))
  BY <1>16, <1>17
<1> HIDE DEF last
<1>19. fit(last, N) = {u \in C : DebitOf(batch, u) <= last.of[u]}
  <2>1. C \subseteq upTo(N)
    BY OrderOf, OptionAmounts, <1>4 DEF UnderlyingOrder, N
  <2>2. QED BY <2>1
<1> HIDE DEF fit
<1>20. Debits(batch, fit(last, N)) \in Int
  BY <1>19, <1>4
<1>21. last.of \in [Underlyings -> Int] /\ Debits(batch, fit(last, N)) <= b.cash
  BY <1>2, <1>18, <1>20 DEF A
<1>22. QED BY <1>10, <1>19, <1>21 DEF last, C

\* What is planned has an offer.
LEMMA PlansHaveOffers ==
  ASSUME NEW b \in OptionDoc, NEW worth, NEW trend, NEW offers \in Partially(OfferPrices)
  PROVE  PlanEntries(b, worth, trend, offers) \in SUBSET DOMAIN offers
<1> DEFINE N == Len(UnderlyingOrder)
           one(acc, u) == PlanContract(acc, u, b, worth, trend, offers)
           A == [cash : Int, outstanding : Int, held : Int, candidates : SUBSET DOMAIN offers]
           first == [cash |-> b.cash, outstanding |-> Outstanding(b), held |-> Cardinality(OwnedOptions(b)), candidates |-> {}]
           G == [p \in A \X (1..N) |-> one(p[1], UnderlyingOrder[p[2]])]
           Iter(f) == [s \in SUBSET (1..N) |-> IF s = {} THEN first
                                                ELSE PlanContract(f[s \ {Max(s)}], UnderlyingOrder[Max(s)], b, worth, trend, offers)]
           it == CHOOSE f : f = Iter(f)
           Good == [i \in 0..N |-> A]
<1>1. N \in Nat /\ DOMAIN UnderlyingOrder = 1..N /\ \A i \in 1..N : UnderlyingOrder[i] \in Underlyings
  BY UnderlyingsInOrder
<1>2. first \in A
  BY OptionFields, OutstandingFits
<1>3. ASSUME NEW acc \in A, NEW u \in Underlyings PROVE one(acc, u) \in A
  <2>1. CASE u \notin DOMAIN offers
    BY <2>1 DEF PlanContract
  <2>2. CASE u \in DOMAIN offers
    <3>1. offers[u] \in OfferPrices
      BY <2>2 DEF Partially
    <3>2. offers[u] \in Int /\ OptionFee \in Int
      BY <3>1, OptionAmounts
    <3> DEFINE left == acc.cash - offers[u] - OptionFee
               now == acc.outstanding + offers[u]
               more == acc.held + 1
               those == acc.candidates \cup {u}
               new == [cash |-> left, outstanding |-> now, held |-> more, candidates |-> those]
    <3>3. left \in Int /\ now \in Int /\ more \in Int /\ those \in SUBSET DOMAIN offers
      BY <2>2, <3>2
    <3> HIDE DEF left, now, more, those
    <3>4. new \in A
      BY <3>3
    <3>5. one(acc, u) = acc \/ one(acc, u) = [cash |-> acc.cash - offers[u] - OptionFee, outstanding |-> acc.outstanding + offers[u],
                                              held |-> acc.held + 1, candidates |-> acc.candidates \cup {u}]
      BY DEF PlanContract
    <3>6. one(acc, u) = acc \/ one(acc, u) = new
      BY <3>5 DEF left, now, more, those
    <3> HIDE DEF one, new
    <3>7. QED BY <3>4, <3>6
  <2>3. QED BY <2>1, <2>2
<1>4. G \in [A \X (1..N) -> A] /\ \A x \in A, i \in 1..N : G[<<x, i>>] = one(x, UnderlyingOrder[i])
  BY <1>1, <1>3
<1> HIDE DEF A, first, G, N, one
<1>5. PICK f : Folding(f, N, A, first, G)
  BY <1>1, <1>2, <1>4, FoldIterates
<1>6. f = Iter(f)
  <2>1. ASSUME NEW s \in SUBSET (1..N), s # {} PROVE G[<<f[s \ {Max(s)}], Max(s)>>] = one(f[s \ {Max(s)}], UnderlyingOrder[Max(s)])
    BY <1>1, <2>1, LargestIndex, <1>5, <1>4 DEF Folding
  <2>2. \A s \in SUBSET (1..N) : f[s] = IF s = {} THEN first ELSE one(f[s \ {Max(s)}], UnderlyingOrder[Max(s)])
    BY <1>5, <2>1 DEF Folding
  <2>3. f = [s \in SUBSET (1..N) |-> f[s]]
    BY <1>5 DEF Folding
  <2>4. QED BY <2>2, <2>3 DEF one
<1>7. it = Iter(it)
  BY <1>6
<1> HIDE DEF it
<1>8. PlanEntries(b, worth, trend, offers) = it[1..N].candidates
  BY <1>1 DEF PlanEntries, FoldLeft, MapThenFoldSet, it, first
<1> DEFINE onward == [s \in SUBSET (1..N) |-> one(it[s \ {Max(s)}], UnderlyingOrder[Max(s)])]
<1>9. IsFold(it, N, onward, first)
  BY <1>7 DEF one, IsFold
<1>10. \A s \in SUBSET (1..N) : onward[s] = one(it[s \ {Max(s)}], UnderlyingOrder[Max(s)])
  OBVIOUS
<1> HIDE DEF onward
<1>11. FoldWalks(it, N, onward, first)
  BY <1>1, <1>9, FoldWalk
<1>12. \A i \in 1..N : it[1..(i - 1)] \in Good[i - 1] => onward[1..i] \in Good[i]
  <2> SUFFICES ASSUME NEW i \in 1..N, it[1..(i - 1)] \in Good[i - 1] PROVE onward[1..i] \in Good[i]
    OBVIOUS
  <2>1. i - 1 \in 0..N /\ i \in 0..N
    BY <1>1
  <2>2. it[1..(i - 1)] \in A
    BY <2>1
  <2>3. onward[1..i] = one(it[1..(i - 1)], UnderlyingOrder[i])
    BY <1>10, <1>11 DEF FoldWalks
  <2>4. onward[1..i] \in A
    BY <1>1, <1>3, <2>2, <2>3
  <2>5. QED BY <2>1, <2>4
<1>13. first \in Good[0] /\ Good[N] = A
  BY <1>1, <1>2
<1> HIDE DEF Good
<1>14. it[1..N] \in Good[N]
  BY <1>1, <1>11, <1>12, <1>13, FoldReaches
<1>15. QED BY <1>8, <1>13, <1>14 DEF A

\* The batch that prepare_batch writes.
BatchWritten(t, listed, offers, exits, bids) ==
  \E ceilings \in [Underlyings -> Int], chosen \in SUBSET DOMAIN offers :
    LET batch == [id |-> optionSteps, at |-> t, exits |-> exits, owned |-> OwnedOptions(optionBook), cash |-> optionBook.cash,
                  marks |-> bids, listed |-> listed, candidates |-> chosen, offers |-> offers, ceilings |-> ceilings]
    IN  /\ optionBook'.batch = batch /\ batch \in OpenBatch
        /\ Debits(batch, WithinCeiling(batch)) <= batch.cash
LEMMA BatchPrepared ==
  ASSUME OptionInv, NEW t \in Moments, NEW listed \in BOOLEAN, NEW trend, NEW offers \in Partially(OfferPrices),
         NEW exits \in [Underlyings -> {"hold", "pending", "candidate"}], NEW bids \in Partially(Premiums),
         PrepareOptions(t, listed, trend, offers, exits, bids)
  PROVE  BatchWritten(t, listed, offers, exits, bids)
<1> DEFINE valued == OptionsValued(optionBook, bids, t)
           b == Latched(optionBook, bids, t)
           worth == IF valued THEN OptionEquity(b, bids) ELSE b.cash
           chosen == PlanEntries(optionBook, worth, trend, offers)
           priced == t = DecisionAt(t) /\ valued /\ b.baseline > 0 /\ ~b.halted
           ceilings == Ceilings(b, priced, worth, chosen, offers)
           leaving == {u \in OwnedOptions(b) : exits[u] # "hold" /\ ~b.positions[u].pending}
           batch == [id |-> optionSteps, at |-> t, exits |-> exits, owned |-> OwnedOptions(b), cash |-> b.cash,
                     marks |-> bids, listed |-> listed, candidates |-> chosen, offers |-> offers, ceilings |-> ceilings]
           own == [u \in Underlyings |-> IF u \in leaving THEN [b.positions[u] EXCEPT !.pending = TRUE] ELSE b.positions[u]]
<1>1. optionBook' = [b EXCEPT !.positions = own, !.batch = batch]
  BY DEF PrepareOptions
<1>2. optionBook \in OptionDoc /\ optionBook.cash \in Int /\ optionBook.cash >= 0 /\ t \in Int /\ optionSteps \in Nat
  BY OptionFields DEF OptionInv, Moments, Contracts
<1>3. b \in OptionDoc /\ b.cash = optionBook.cash /\ OwnedOptions(b) = OwnedOptions(optionBook) /\ b.positions = optionBook.positions
  <2>1. Halting(b, optionBook, LossMark(optionBook, bids, t), bids, t)
    BY <1>2, LatchHalts
  <2> HIDE DEF b
  <2>2. QED BY <2>1 DEF Halting, OwnedOptions
<1>4. priced \in BOOLEAN
  OBVIOUS
<1>5. worth \in Int
  <2>1. CASE valued
    <3> DEFINE f == [u \in OwnedOptions(b) |-> bids[u]]
    <3>1. ASSUME NEW u \in OwnedOptions(b) PROVE f[u] \in Int
      BY <1>3, <2>1, OptionAmounts DEF OptionsValued, Partially
    <3>2. IsFiniteSet(OwnedOptions(b)) /\ DOMAIN f = OwnedOptions(b)
      BY <1>3, OutstandingFits
    <3> HIDE DEF f, b
    <3>3. Summable(f, OwnedOptions(b))
      BY <3>1, <3>2 DEF Summable
    <3>4. SumFunction(f) \in Int
      BY <3>3, SumsAreInt
    <3>5. OptionEquity(b, bids) \in Int
      BY <1>2, <1>3, <3>4 DEF OptionEquity, f
    <3>6. QED BY <2>1, <3>5
  <2>2. CASE ~valued
    BY <1>2, <1>3, <2>2
  <2>3. QED BY <2>1, <2>2
<1> HIDE DEF worth, priced, b, valued
<1>6. chosen \in SUBSET DOMAIN offers
  BY <1>2, PlansHaveOffers
<1>7. chosen \subseteq Underlyings /\ OwnedOptions(b) \subseteq Underlyings
  BY <1>6 DEF Partially, OwnedOptions
<1> HIDE DEF chosen
<1> DEFINE plain == [id |-> optionSteps, at |-> t, exits |-> exits, owned |-> OwnedOptions(b), cash |-> b.cash,
                     marks |-> bids, listed |-> listed, candidates |-> chosen, offers |-> offers, ceilings |-> [u \in Underlyings |-> 0]]
<1>8. plain \in OpenBatch /\ plain.candidates = chosen /\ plain.offers = offers
  BY <1>2, <1>3, <1>7 DEF OpenBatch
<1> HIDE DEF plain
<1>9. /\ Ceilings(b, priced, worth, plain.candidates, plain.offers) \in [Underlyings -> Int]
      /\ Debits(plain, {u \in plain.candidates : DebitOf(plain, u) <= Ceilings(b, priced, worth, plain.candidates, plain.offers)[u]}) <= b.cash
  BY <1>2, <1>3, <1>4, <1>5, <1>6, <1>8, CeilingsFit
<1>10. ceilings \in [Underlyings -> Int] /\ Debits(plain, {u \in chosen : DebitOf(plain, u) <= ceilings[u]}) <= b.cash
  BY <1>8, <1>9
<1> HIDE DEF ceilings
<1>11. batch \in OpenBatch /\ batch.candidates = chosen /\ batch.offers = offers /\ batch.ceilings = ceilings /\ batch.cash = b.cash
  BY <1>2, <1>3, <1>7, <1>10 DEF OpenBatch
<1>12. \A u : DebitOf(batch, u) = DebitOf(plain, u)
  BY <1>8, <1>11 DEF DebitOf
<1>13. WithinCeiling(batch) = {u \in chosen : DebitOf(plain, u) <= ceilings[u]}
  BY <1>11, <1>12 DEF WithinCeiling
<1>14. Debits(batch, WithinCeiling(batch)) = Debits(plain, {u \in chosen : DebitOf(plain, u) <= ceilings[u]})
  BY <1>12, <1>13 DEF Debits
<1>15. optionBook'.batch = batch
  <2> HIDE DEF own, batch
  <2>1. QED BY <1>1, <1>3 DEF OptionDoc
<1>16. batch = [id |-> optionSteps, at |-> t, exits |-> exits, owned |-> OwnedOptions(optionBook), cash |-> optionBook.cash,
                marks |-> bids, listed |-> listed, candidates |-> chosen, offers |-> offers, ceilings |-> ceilings]
  BY <1>3
<1>17. Debits(batch, WithinCeiling(batch)) <= batch.cash
  BY <1>10, <1>11, <1>14
<1> HIDE DEF batch
<1>18. QED BY <1>6, <1>10, <1>11, <1>15, <1>16, <1>17 DEF BatchWritten

\* prepare_batch: a loss that is seen, then the reasons to leave that are new.
Warning(u, t) == [kind |-> "pending", u |-> u, at |-> t]
Notes(leaving, bids, t, P) ==
  /\ P \in Seq(QuietRow)
  /\ \A k \in DOMAIN P : P[k].kind = "loss" => P[k].at = t /\ OptionLoss(optionBook, bids, t)
  /\ \A u \in Underlyings : u \in leaving <=> \E k \in DOMAIN P : P[k].kind = "pending" /\ P[k].u = u

LEMMA NotesPrepared ==
  ASSUME optionBook \in OptionDoc, optionFills \in Seq(OptionRow), NEW t \in Int, NEW bids, NEW leaving \in SUBSET Underlyings,
         optionFills' = optionFills \o LossMark(optionBook, bids, t)
                          \o SetToSeq({[kind |-> "pending", u |-> u, at |-> t] : u \in leaving})
  PROVE  \E P : Notes(leaving, bids, t, P) /\ optionFills' = optionFills \o P
<1> DEFINE W == {Warning(u, t) : u \in leaving}
           L == LossMark(optionBook, bids, t)
           R == SetToSeq(W)
           P == L \o R
<1>1. W \subseteq QuietRow /\ IsFiniteSet(W) /\ \A w \in W : w.kind = "pending" /\ w.u \in leaving
  <2>1. IsFiniteSet(leaving)
    BY OptionAmounts, FS_Subset
  <2> DEFINE f == [u \in leaving |-> Warning(u, t)]
  <2>2. IsFiniteSet(W)
    <3>1. f \in Surjection(leaving, W)
      BY DEF Surjection
    <3> HIDE DEF f
    <3>2. QED BY <2>1, <3>1, FS_Surjection
  <2>3. ASSUME NEW u \in leaving PROVE Warning(u, t) \in ReasonNote /\ Warning(u, t).kind = "pending" /\ Warning(u, t).u = u
    BY DEF Warning, ReasonNote
  <2>4. QED BY <2>2, <2>3 DEF QuietRow
<1>2. optionFills' = (optionFills \o L) \o R
  BY DEF Warning
<1>3. L \in Seq(LossNote) /\ \A k \in DOMAIN L : L[k].kind = "loss" /\ L[k].at = t /\ OptionLoss(optionBook, bids, t)
  <2>1. Halting(Latched(optionBook, bids, t), optionBook, L, bids, t)
    BY LatchHalts
  <2> HIDE DEF L
  <2>2. QED BY <2>1 DEF Halting
<1>4. R \in Seq(W) /\ \A w \in W : \E i \in DOMAIN R : R[i] = w
  <2> HIDE DEF W
  <2>1. /\ R \in Seq(W) /\ Len(R) = Cardinality(W)
        /\ \A w \in W : \E i \in 1..Cardinality(W) : R[i] = w
    BY <1>1, OrderOf
  <2> HIDE DEF R
  <2>2. DOMAIN R = 1..Len(R)
    BY <2>1, LenProperties
  <2>3. QED BY <2>1, <2>2
<1>5. \A u \in leaving : Warning(u, t) \in W /\ Warning(u, t).kind = "pending" /\ Warning(u, t).u = u
  BY DEF Warning
<1> HIDE DEF W, L, R
<1>6. L \in Seq(QuietRow) /\ R \in Seq(QuietRow) /\ L \in Seq(OptionRow) /\ R \in Seq(OptionRow)
  BY OptionRows, <1>1, <1>3, <1>4 DEF QuietRow
<1>7. P \in Seq(QuietRow) /\ Extends(P, L, R)
  BY <1>6, Extended
<1>8. optionFills' = optionFills \o P
  <2>1. \A K \in Seq(OptionRow) : (optionFills \o L) \o K = optionFills \o (L \o K)
    BY <1>6, ConcatAssociative
  <2>2. QED BY <1>2, <1>6, <2>1
<1> HIDE DEF P
<1>9. ASSUME NEW k \in DOMAIN P PROVE (k \in DOMAIN L /\ P[k] = L[k]) \/ \E m \in DOMAIN R : P[k] = R[m]
  BY <1>7 DEF Extends
<1>10. \A m \in DOMAIN R : R[m] \in W
  BY <1>4, LenProperties, ElementOfSeq
<1>11. \A k \in DOMAIN P : P[k].kind = "loss" => P[k].at = t /\ OptionLoss(optionBook, bids, t)
  BY <1>1, <1>3, <1>9, <1>10
<1>12. ASSUME NEW u \in Underlyings PROVE u \in leaving <=> \E k \in DOMAIN P : P[k].kind = "pending" /\ P[k].u = u
  <2>1. ASSUME u \in leaving PROVE \E k \in DOMAIN P : P[k].kind = "pending" /\ P[k].u = u
    <3>1. PICK m \in DOMAIN R : R[m] = Warning(u, t)
      BY <1>4, <1>5, <2>1
    <3>2. PICK k \in DOMAIN P : P[k] = R[m]
      BY <1>7, <3>1 DEF Extends
    <3>3. QED BY <1>5, <2>1, <3>1, <3>2
  <2>2. ASSUME NEW k \in DOMAIN P, P[k].kind = "pending", P[k].u = u PROVE u \in leaving
    BY <1>1, <1>3, <1>9, <1>10, <2>2
  <2>3. QED BY <2>1, <2>2
<1>13. Notes(leaving, bids, t, P)
  BY <1>7, <1>11, <1>12 DEF Notes
<1>14. QED BY <1>8, <1>13

LEMMA OptionsPrepared ==
  ASSUME OptionInv, optionSteps' = optionSteps + 1, NEW t \in Moments, NEW listed \in BOOLEAN, NEW trend, NEW offers \in Partially(OfferPrices),
         NEW exits \in [Underlyings -> {"hold", "pending", "candidate"}], NEW bids \in Partially(Premiums),
         PrepareOptions(t, listed, trend, offers, exits, bids)
  PROVE  OptionInv'
<1> DEFINE b == Latched(optionBook, bids, t)
           leaving == {u \in OwnedOptions(b) : exits[u] # "hold" /\ ~b.positions[u].pending}
           own == [u \in Underlyings |-> IF u \in leaving THEN [b.positions[u] EXCEPT !.pending = TRUE] ELSE b.positions[u]]
           new == optionBook'.batch
<1>1. /\ optionBook \in OptionDoc /\ t \in Int /\ optionSteps \in Nat /\ optionFills \in Seq(OptionRow)
      /\ optionBook.appliedAt \in Int /\ t >= optionBook.appliedAt /\ optionBook.appliedAt \in Moments \cup {-1}
      /\ Contracts(optionBook, optionFills) /\ DaysOf(optionBook, optionFills, optionBook.appliedAt) /\ Budgeted(optionFills)
  BY OptionFields DEF OptionInv, Moments, Contracts, PrepareOptions, MayPrepareOptions
<1>2. BatchWritten(t, listed, offers, exits, bids)
  BY BatchPrepared
<1>3. /\ new \in OpenBatch /\ Debits(new, WithinCeiling(new)) <= new.cash
      /\ new.id = optionSteps /\ new.at = t /\ new.exits = exits /\ new.owned = OwnedOptions(optionBook) /\ new.marks = bids
      /\ new.candidates \subseteq DOMAIN new.offers
  BY <1>2 DEF BatchWritten
<1>4. /\ \A u \in OwnedOptions(b) : exits[u] = "candidate" => u \in DOMAIN bids /\ bids[u] >= OptionFee
      /\ optionFills' = optionFills \o LossMark(optionBook, bids, t)
                          \o SetToSeq({[kind |-> "pending", u |-> u, at |-> t] : u \in leaving})
  BY DEF PrepareOptions
<1>5. \E batch : optionBook' = [b EXCEPT !.positions = own, !.batch = batch]
  BY DEF PrepareOptions
<1>6. Halting(b, optionBook, LossMark(optionBook, bids, t), bids, t)
  BY <1>1, LatchHalts
<1> HIDE DEF b
<1>7. /\ b \in OptionDoc /\ b.positions = optionBook.positions /\ b.cash = optionBook.cash /\ b.day = optionBook.day
      /\ b.attempted = optionBook.attempted /\ b.closed = optionBook.closed /\ b.appliedAt = optionBook.appliedAt
      /\ b.halted <=> optionBook.halted \/ OptionLoss(optionBook, bids, t)
      /\ OptionLoss(optionBook, bids, t) => OptionDay(t) = optionBook.day
      /\ OwnedOptions(b) = OwnedOptions(optionBook)
  BY <1>6 DEF Halting, OwnedOptions
<1>8. leaving \in SUBSET Underlyings /\ \A u \in leaving : b.positions[u] # NotOwned
  BY DEF OwnedOptions
<1>9. PICK P : Notes(leaving, bids, t, P) /\ optionFills' = optionFills \o P
  <2> HIDE DEF leaving
  <2>1. QED BY <1>1, <1>4, <1>8, NotesPrepared
<1>10. own \in [Underlyings -> ContractState]
       /\ \A u \in Underlyings : /\ own[u] # NotOwned <=> b.positions[u] # NotOwned
                                 /\ own[u] # NotOwned => (own[u].pending <=> b.positions[u].pending \/ u \in leaving)
  <2> SUFFICES ASSUME NEW u \in Underlyings
               PROVE  /\ own[u] \in ContractState /\ (own[u] # NotOwned <=> b.positions[u] # NotOwned)
                      /\ own[u] # NotOwned => (own[u].pending <=> b.positions[u].pending \/ u \in leaving)
    OBVIOUS
  <2>1. b.positions[u] \in ContractState
    BY <1>7, OptionFields
  <2>2. CASE u \in leaving
    <3> DEFINE s == b.positions[u]
    <3>1. s \in [premium : OfferPrices, pending : BOOLEAN] /\ own[u] = [s EXCEPT !.pending = TRUE]
      BY <1>8, <2>1, <2>2 DEF ContractState
    <3> HIDE DEF s, own
    <3>2. own[u] = [premium |-> s.premium, pending |-> TRUE] /\ own[u] \in [premium : OfferPrices, pending : BOOLEAN]
      BY <3>1
    <3>3. \A p : [premium |-> p, pending |-> TRUE] # [premium |-> 0]
      OBVIOUS
    <3>4. own[u] # NotOwned /\ own[u].pending = TRUE
      BY <3>2, <3>3 DEF NotOwned
    <3>5. QED BY <1>8, <2>2, <3>2, <3>4 DEF ContractState
  <2>3. CASE u \notin leaving
    <3>1. own[u] = b.positions[u]
      BY <2>3
    <3> HIDE DEF own, leaving
    <3>2. QED BY <2>1, <2>3, <3>1
  <2>4. QED BY <2>2, <2>3
<1> HIDE DEF own, leaving, new
<1>11. /\ optionBook' \in OptionDoc /\ optionBook'.positions = own /\ optionBook'.cash = optionBook.cash
       /\ optionBook'.day = optionBook.day /\ optionBook'.halted = b.halted /\ optionBook'.attempted = optionBook.attempted
       /\ optionBook'.closed = optionBook.closed /\ optionBook'.appliedAt = optionBook.appliedAt
  <2>1. PICK batch : optionBook' = [b EXCEPT !.positions = own, !.batch = batch]
    BY <1>5
  <2>2. optionBook' = [b EXCEPT !.positions = own, !.batch = batch] /\ batch = new
    BY <1>7, <2>1 DEF OptionDoc, new
  <2>3. QED BY <1>3, <1>7, <1>10, <2>2 DEF OptionDoc
<1>12. /\ P \in Seq(QuietRow)
       /\ \A k \in DOMAIN P : P[k].kind = "loss" => P[k].at = t /\ OptionLoss(optionBook, bids, t)
       /\ \A u \in Underlyings : u \in leaving <=> \E k \in DOMAIN P : P[k].kind = "pending" /\ P[k].u = u
  BY <1>9 DEF Notes
<1>13. Contracts(optionBook, optionFills)'
  <2> DEFINE d == optionBook'
  <2>1. /\ d.cash = optionBook.cash
        /\ \A u \in Underlyings : /\ d.positions[u] # NotOwned <=> optionBook.positions[u] # NotOwned
                                  /\ d.positions[u] # NotOwned =>
                                       (d.positions[u].pending <=> \/ optionBook.positions[u].pending
                                                                   \/ \E k \in DOMAIN P : P[k].kind = "pending" /\ P[k].u = u)
    BY <1>7, <1>10, <1>11, <1>12
  <2> HIDE DEF d
  <2>2. Contracts(d, optionFills \o P)
    BY <1>1, <1>12, <2>1, ContractsQuiet
  <2>3. QED BY <1>9, <2>2 DEF d, Contracts
<1>14. DaysOf(optionBook, optionFills, optionBook.appliedAt)'
  <2> DEFINE d == optionBook'
             s == optionBook.appliedAt
  <2>1. /\ d.day = optionBook.day /\ (optionBook.halted => d.halted) /\ d.attempted = optionBook.attempted /\ d.closed = optionBook.closed
        /\ \A k \in DOMAIN P : P[k].kind = "loss" => OptionDay(P[k].at) <= d.day /\ (OptionDay(P[k].at) = d.day => d.halted)
    BY <1>1, OptionFields, <1>7, <1>11, <1>12
  <2> HIDE DEF d, s
  <2>2. DaysOf(optionBook, optionFills, s)
    BY <1>1 DEF s
  <2>3. DaysOf(d, optionFills \o P, s)
    BY <1>1, <1>12, <2>1, <2>2, DaysQuiet
  <2>4. QED BY <1>9, <1>11, <2>3 DEF d, s, DaysOf
<1>15. BuysStand(optionFills', optionFills)
  BY <1>1, <1>9, <1>12, BuysQuiet
<1>16. ASSUME NEW i \in DOMAIN optionFills', optionFills'[i].kind = "buy"
       PROVE  /\ i \in DOMAIN optionFills /\ optionFills'[i] = optionFills[i] /\ optionFills[i].batch \in Nat
              /\ optionFills[i].batch < optionSteps
              /\ -RowSum(optionFills', BuysOf(optionFills'[i].batch), TradeCash) <= optionFills'[i].budget
  BY <1>15, <1>16, <1>1, LenProperties, ElementOfSeq, OptionRows DEF BuysStand, OptionBuy, Budgeted
<1>17. Budgeted(optionFills)'
  BY <1>1, <1>16 DEF Budgeted
<1>18. BatchIsSound(optionBook.batch)'
  <2>1. new.at >= optionBook'.appliedAt /\ new.id < optionSteps'
    BY <1>1, <1>3, <1>11
  <2>2. \A i \in DOMAIN optionFills' : optionFills'[i].kind = "buy" => optionFills'[i].batch # new.id
    BY <1>1, <1>3, <1>16
  <2>3. \A u \in new.owned : new.exits[u] = "candidate" => u \in DOMAIN new.marks /\ new.marks[u] >= OptionFee
    BY <1>3, <1>4, <1>7
  <2>4. BatchIsSound(optionBook.batch)'
    BY <1>3, <2>1, <2>2, <2>3 DEF BatchIsSound, new
  <2>5. QED BY <2>4 DEF new
<1>19. QED BY <1>1, <1>11, <1>13, <1>14, <1>17, <1>18 DEF OptionInv

LEMMA OptionBegins == OptionInit => OptionInv
<1> SUFFICES ASSUME OptionInit PROVE OptionInv
  OBVIOUS
<1> DEFINE blank == [cash |-> OptionCash, positions |-> [u \in Underlyings |-> NotOwned], day |-> 0, baseline |-> 0,
                     halted |-> FALSE, batch |-> NoOptionBatch, attempted |-> [u \in Underlyings |-> -1],
                     closed |-> [u \in Underlyings |-> -1], appliedAt |-> -1]
<1>1. optionBook = blank /\ optionFills = <<>> /\ optionSteps = 0
  BY DEF OptionInit
<1>2. OptionCash \in Nat /\ NotOwned \in ContractState
  BY OptionAmounts DEF ContractState
<1>3. blank \in OptionDoc
  <2> HIDE DEF NotOwned, NoOptionBatch
  <2>1. QED BY <1>2 DEF OptionDoc
<1>4. /\ blank.cash = OptionCash /\ blank.batch = NoOptionBatch /\ blank.appliedAt = -1
      /\ \A u \in Underlyings : blank.positions[u] = NotOwned /\ blank.attempted[u] = -1 /\ blank.closed[u] = -1
  OBVIOUS
<1> HIDE DEF blank
<1>5. <<>> \in Seq(OptionRow) /\ DOMAIN <<>> = {}
  OBVIOUS
<1>6. RowSum(<<>>, TradeRows, TradeCash) = 0
  BY <1>5, OptionRows, RowSumType
<1>7. Contracts(optionBook, optionFills)
  BY <1>1, <1>2, <1>4, <1>5, <1>6 DEF Contracts, Bought
<1>8. DaysOf(optionBook, optionFills, optionBook.appliedAt)
  <2> DEFINE none == -1
  <2>1. none \in Int /\ none + 1 = 0
    OBVIOUS
  <2> HIDE DEF none
  <2>2. none <= OptionDay(none)
    BY <2>1 DEF OptionDay
  <2>3. -1 <= OptionDay(-1)
    BY <2>2 DEF none
  <2>4. QED BY <1>1, <1>4, <1>5, <2>3 DEF DaysOf, Sequenced
<1>9. Budgeted(optionFills)
  BY <1>1, <1>5 DEF Budgeted
<1>10. QED BY <1>1, <1>3, <1>4, <1>7, <1>8, <1>9 DEF OptionInv

LEMMA OptionKeeps == OptionInv /\ [OptionNext]_optionVars => OptionInv'
<1> SUFFICES ASSUME OptionInv, [OptionNext]_optionVars PROVE OptionInv'
  OBVIOUS
<1>1. CASE UNCHANGED optionVars
  BY <1>1 DEF optionVars, OptionInv, Contracts, DaysOf, Sequenced, Budgeted, BatchIsSound
<1>2. ASSUME optionSteps' = optionSteps + 1, NEW date \in 0..LastOptionDay, SetOptionBaseline(date, OptionCash) PROVE OptionInv'
  BY <1>2, OptionAmounts, BaselineSet
<1>3. ASSUME optionSteps' = optionSteps + 1, NEW t \in Moments, NEW offers \in Partially(OfferPrices),
             NEW bids \in Partially(Premiums), NEW exits \in ExitsOf(optionBook), NEW listed \in BOOLEAN,
             PrepareOptions(t, listed, DOMAIN offers, offers, exits, bids)
      PROVE  OptionInv'
  BY <1>3, OptionsPrepared DEF ExitsOf
<1>4. ASSUME optionSteps' = optionSteps + 1, NEW t \in Moments, NEW bids \in Partially(Premiums), ApplyOptions(t, bids) PROVE OptionInv'
  BY <1>4, OptionsApplied
<1>5. QED BY <1>1, <1>2, <1>3, <1>4 DEF OptionNext, OptionOperation

LEMMA OptionSums ==
  ASSUME optionFills \in Seq(OptionRow)
  PROVE  /\ SumFunction([i \in FillRows("buy") \cup FillRows("sell") |-> optionFills[i].cash])
              = RowSum(optionFills, TradeRows, TradeCash)
         /\ \A id : SumFunction([j \in {k \in FillRows("buy") : optionFills[k].batch = id} |-> optionFills[j].cash])
                      = RowSum(optionFills, BuysOf(id), TradeCash)
<1>1. \A i \in DOMAIN optionFills : optionFills[i] \in OptionRow
  BY LenProperties, ElementOfSeq
<1>2. \A i \in DOMAIN optionFills : /\ optionFills[i] \in TradeRows <=> optionFills[i].kind \in {"buy", "sell"}
                                    /\ optionFills[i] \in TradeRows => TradeCash[optionFills[i]] = optionFills[i].cash
                                    /\ \A id : optionFills[i] \in BuysOf(id) <=> optionFills[i].kind = "buy" /\ optionFills[i].batch = id
                                    /\ \A id : optionFills[i] \in BuysOf(id) => optionFills[i] \in TradeRows
  BY <1>1, OptionRows DEF TradeRows, BuysOf
<1>3. [i \in FillRows("buy") \cup FillRows("sell") |-> optionFills[i].cash] = Weighed(optionFills, TradeRows, TradeCash)
  BY <1>2 DEF RowsIn, FillRows, Weighed
<1>4. ASSUME NEW id
      PROVE  [j \in {k \in FillRows("buy") : optionFills[k].batch = id} |-> optionFills[j].cash] = Weighed(optionFills, BuysOf(id), TradeCash)
  BY <1>2 DEF RowsIn, FillRows, Weighed
<1>5. QED BY <1>3, <1>4 DEF RowSum

LEMMA OptionFollows == OptionInv => OptionTypeOK /\ OptionBookIsSound
<1> SUFFICES ASSUME OptionInv PROVE OptionTypeOK /\ OptionBookIsSound
  OBVIOUS
<1>1. /\ optionBook \in OptionDoc /\ optionBook.appliedAt \in Moments \cup {-1} /\ Contracts(optionBook, optionFills)
      /\ DaysOf(optionBook, optionFills, optionBook.appliedAt) /\ Budgeted(optionFills) /\ optionFills \in Seq(OptionRow)
  BY DEF OptionInv, Contracts
<1>2. OptionTypeOK
  <2>1. ASSUME NEW u \in OwnedOptions(optionBook) PROVE optionBook.positions[u].premium \in OfferPrices
    BY <1>1, OptionFields DEF OwnedOptions, ContractState
  <2>2. QED BY <1>1, <2>1, OptionFields DEF OptionTypeOK
<1>3. \A u \in Underlyings : /\ u \in OwnedOptions(optionBook) <=> Bought(optionFills, u)
                             /\ u \in OwnedOptions(optionBook) => (optionBook.positions[u].pending <=> Warned(optionFills, u))
  BY <1>1 DEF Contracts, OwnedOptions
<1>4. OptionsReconcile
  BY <1>1, OptionSums, <1>3 DEF Bought, OfUnderlying, FillRows, Contracts, OptionsReconcile
<1>5. PendingIsKept
  BY <1>3 DEF Warned, OfUnderlying, FillRows, PendingIsKept, OwnedOptions
<1>6. OptionEntriesAreBounded
  BY <1>1 DEF OptionEntriesAreBounded, DaysOf, Sequenced, SameDay, FillRows
<1>7. ProceedsWait
  <2> SUFFICES ASSUME NEW i \in FillRows("buy")
               PROVE  -SumFunction([j \in {k \in FillRows("buy") : optionFills[k].batch = optionFills[i].batch} |-> optionFills[j].cash])
                        <= optionFills[i].budget
    BY DEF ProceedsWait
  <2>1. -RowSum(optionFills, BuysOf(optionFills[i].batch), TradeCash) <= optionFills[i].budget
    BY <1>1 DEF Budgeted, FillRows
  <2>2. QED BY <1>1, <2>1, OptionSums
<1>8. QED BY <1>2, <1>4, <1>5, <1>6, <1>7 DEF OptionBookIsSound

LEMMA OptionSteps ==
  ASSUME [ResearchSuiteNext]_suiteVars, Examined("options")'
  PROVE  Examined("options") /\ [OptionNext]_optionVars
BY DEF ResearchSuiteNext, suiteVars, Steps, Examined, Studies, optionVars

LEMMA OptionHolds == ResearchSuiteSpec => [](Examined("options") => OptionInv)
<1>1. ResearchSuiteInit => (Examined("options") => OptionInv)
  BY OptionBegins DEF ResearchSuiteInit
<1>2. (Examined("options") => OptionInv) /\ [ResearchSuiteNext]_suiteVars => (Examined("options") => OptionInv)'
  BY OptionSteps, OptionKeeps
<1>3. QED BY <1>1, <1>2, PTL DEF ResearchSuiteSpec

-----------------------------------------------------------------------------
(* ResearchPortfolio: the independent audit of a journal, row by row.      *)

Auditing(it, J) ==
  it = [s \in SUBSET (1..Len(J)) |-> IF s = {} THEN NoAudit ELSE Audited(it[s \ {Max(s)}], J[Max(s)])]

LEMMA AuditIterates == ASSUME NEW J, Len(J) \in Nat PROVE \E it : Auditing(it, J)
<1> DEFINE Iter(f, n) == [s \in SUBSET (1..n) |-> IF s = {} THEN NoAudit ELSE Audited(f[s \ {Max(s)}], J[Max(s)])]
           T == {n \in Nat : \E it : it = Iter(it, n)}
<1>1. 0 \in T
  <2> DEFINE it == [s \in SUBSET (1..0) |-> NoAudit]
  <2>1. \A s \in SUBSET (1..0) : s = {}
    OBVIOUS
  <2>2. it = Iter(it, 0)
    BY <2>1
  <2>3. QED BY <2>2
<1>2. ASSUME NEW n \in Nat, n \in T PROVE n + 1 \in T
  <2>1. PICK v : v = Iter(v, n)
    BY <1>2
  <2> DEFINE it == [s \in SUBSET (1..(n + 1)) |-> IF n + 1 \in s THEN Audited(v[s \ {n + 1}], J[n + 1]) ELSE v[s]]
             rest(s) == IF s = {} THEN NoAudit ELSE Audited(it[s \ {Max(s)}], J[Max(s)])
  <2>2. ASSUME NEW s \in SUBSET (1..(n + 1)), n + 1 \in s PROVE it[s] = rest(s)
    <3>1. s # {} /\ Max(s) = n + 1 /\ s \ {n + 1} \in SUBSET (1..n) /\ s \ {n + 1} \in SUBSET (1..(n + 1))
      BY <2>2, PrefixSets
    <3>2. it[s \ {n + 1}] = v[s \ {n + 1}]
      BY <3>1
    <3>3. it[s] = Audited(v[s \ {n + 1}], J[n + 1])
      BY <2>2
    <3> HIDE DEF it
    <3>4. QED BY <3>1, <3>2, <3>3
  <2>3. ASSUME NEW s \in SUBSET (1..(n + 1)), n + 1 \notin s PROVE it[s] = rest(s)
    <3>1. s \in SUBSET (1..n) /\ s \ {Max(s)} \in SUBSET (1..(n + 1)) /\ n + 1 \notin s \ {Max(s)}
      BY <2>3, PrefixSets
    <3>2. it[s] = v[s] /\ it[s \ {Max(s)}] = v[s \ {Max(s)}]
      BY <2>3, <3>1
    <3> HIDE DEF it
    <3>3. v[s] = IF s = {} THEN NoAudit ELSE Audited(v[s \ {Max(s)}], J[Max(s)])
      BY <2>1, <3>1
    <3>4. QED BY <3>2, <3>3
  <2>4. it = [s \in SUBSET (1..(n + 1)) |-> it[s]]
    OBVIOUS
  <2> HIDE DEF it
  <2>5. it = Iter(it, n + 1)
    BY <2>2, <2>3, <2>4
  <2>6. \E w : w = Iter(w, n + 1)
    <3> HIDE DEF Iter
    <3>1. QED BY <2>5
  <2>7. n + 1 \in Nat
    OBVIOUS
  <2> HIDE DEF Iter
  <2>8. QED BY <2>6, <2>7
<1> HIDE DEF T
<1>3. \A n \in Nat : n \in T
  BY <1>1, <1>2, SetInduction
<1>4. PICK it : it = Iter(it, Len(J))
  BY <1>3 DEF T
<1>5. Auditing(it, J)
  BY <1>4 DEF Auditing
<1>6. QED BY <1>5

\* What the audit has found after each row.
AuditTrail(tr, J) ==
  /\ tr[0] = NoAudit /\ AuditOf(J) = tr[Len(J)]
  /\ \A i \in 1..Len(J) : tr[i] = Audited(tr[i - 1], J[i])

LEMMA AuditLeavesTrail == ASSUME NEW T, NEW J \in Seq(T) PROVE \E tr : AuditTrail(tr, J)
<1> DEFINE N == Len(J)
           it == CHOOSE f : Auditing(f, J)
           onward == [s \in SUBSET (1..N) |-> Audited(it[s \ {Max(s)}], J[Max(s)])]
           tr == [i \in 0..N |-> it[1..i]]
<1>1. N \in Nat /\ DOMAIN J = 1..N
  BY LenProperties
<1>2. Auditing(it, J)
  BY <1>1, AuditIterates
<1>3. AuditOf(J) = it[1..N]
  BY <1>1 DEF AuditOf, FoldLeft, MapThenFoldSet, Auditing
<1> HIDE DEF it, N
<1>4. \A s \in SUBSET (1..N) : it[s] = IF s = {} THEN NoAudit ELSE onward[s]
  BY <1>2 DEF Auditing, N
<1>5. IsFold(it, N, onward, NoAudit)
  BY <1>4 DEF IsFold
<1>6. \A s \in SUBSET (1..N) : onward[s] = Audited(it[s \ {Max(s)}], J[Max(s)])
  OBVIOUS
<1> HIDE DEF onward
<1>7. FoldWalks(it, N, onward, NoAudit)
  BY <1>1, <1>5, FoldWalk
<1>8. ASSUME NEW i \in 1..N PROVE tr[i] = Audited(tr[i - 1], J[i])
  <2>1. i \in 0..N /\ i - 1 \in 0..N
    BY <1>1
  <2>2. it[1..i] = Audited(it[1..(i - 1)], J[i])
    BY <1>6, <1>7 DEF FoldWalks
  <2>3. QED BY <2>1, <2>2
<1>9. tr[0] = NoAudit /\ tr[N] = it[1..N]
  BY <1>1, <1>7 DEF FoldWalks
<1>10. AuditTrail(tr, J)
  BY <1>3, <1>8, <1>9 DEF AuditTrail, N
<1>11. QED BY <1>10

LEMMA AuditAppends ==
  ASSUME NEW T, NEW J \in Seq(T), NEW r \in T
  PROVE  AuditOf(Append(J, r)) = Audited(AuditOf(J), r)
<1> DEFINE K == Append(J, r)
           N == Len(J)
<1>1. /\ N \in Nat /\ K \in Seq(T) /\ Len(K) = N + 1 /\ K[N + 1] = r
      /\ \A i \in 1..N : K[i] = J[i]
  BY AppendProperties, LenProperties
<1> HIDE DEF K
<1>2. PICK tr : AuditTrail(tr, J)
  BY AuditLeavesTrail
<1>3. PICK more : AuditTrail(more, K)
  BY <1>1, AuditLeavesTrail
<1> DEFINE S == {i \in Nat : i <= N => more[i] = tr[i]}
<1>4. 0 \in S
  BY <1>2, <1>3 DEF AuditTrail
<1>5. ASSUME NEW i \in Nat, i \in S PROVE i + 1 \in S
  <2> SUFFICES ASSUME i + 1 <= N PROVE more[i + 1] = tr[i + 1]
    OBVIOUS
  <2>1. i + 1 \in 1..N /\ (i + 1) - 1 = i /\ i + 1 \in 1..Len(K) /\ more[i] = tr[i] /\ K[i + 1] = J[i + 1]
    BY <1>1, <1>5
  <2>2. tr[i + 1] = Audited(tr[i], J[i + 1])
    BY <1>2, <2>1 DEF AuditTrail
  <2>3. more[i + 1] = Audited(more[i], K[i + 1])
    BY <1>3, <2>1 DEF AuditTrail
  <2>4. QED BY <2>1, <2>2, <2>3
<1> HIDE DEF S
<1>6. \A i \in Nat : i \in S
  BY <1>4, <1>5, SetInduction
<1>7. more[N] = tr[N]
  BY <1>1, <1>6 DEF S
<1>8. N + 1 \in 1..Len(K) /\ (N + 1) - 1 = N
  BY <1>1
<1>9. more[N + 1] = Audited(more[N], r)
  BY <1>1, <1>3, <1>8 DEF AuditTrail
<1>10. AuditOf(K) = more[N + 1] /\ AuditOf(J) = tr[N]
  BY <1>1, <1>2, <1>3 DEF AuditTrail
<1>11. QED BY <1>7, <1>9, <1>10 DEF K

LEMMA AuditOfNone == AuditOf(<<>>) = NoAudit
<1>1. <<>> \in Seq(Nat) /\ Len(<<>>) = 0
  OBVIOUS
<1>2. PICK tr : AuditTrail(tr, <<>>)
  BY <1>1, AuditLeavesTrail
<1>3. QED BY <1>1, <1>2 DEF AuditTrail

-----------------------------------------------------------------------------
(* The book and its journal.                                               *)

LossMade == [kind : {"loss"}, at : Int]
FundBuy == [kind : {"buy"}, fund : EquityFunds, units : Nat, cost : Int, at : Int]
FundSale == [kind : {"sell"}, fund : EquityFunds, units : Nat, cost : Int, at : Int]
DividendMade == [kind : {"dividend"}, fund : EquityFunds, perShare : Nat, at : Int]
PaymentMade == [kind : {"payment"}, dividend : Nat, at : Int]
SplitMade == [kind : {"split"}, fund : EquityFunds, ratio : SplitRatios, at : Int]
FundRow == LossMade \cup FundBuy \cup FundSale \cup DividendMade \cup PaymentMade \cup SplitMade

Lot == [units : Int, cost : Int]
Claim == [amount : Int, paid : BOOLEAN]
Entitlement == [fund : EquityFunds, amount : Nat, paid : BOOLEAN, payAt : Int, since : Int]
AuditDoc ==
  [cash : Int, lots : [EquityFunds -> Seq(Lot)], receivables : Seq(Claim), realized : Int, income : Int]
FundPlan == [quantity : Int, budget : Int]
OpenPlans ==
  [at : Int, executesAt : Int, actions : [EquityFunds -> {"enter", "exit", "none"}], plans : [EquityFunds -> FundPlan]]
ResearchDoc ==
  [cash : Int, positions : [EquityFunds -> Nat], pendingExits : SUBSET EquityFunds, day : Int, baseline : Int, halted : BOOLEAN,
   batch : OpenPlans \cup {NoBatch}, attempted : [EquityFunds -> Int], closed : [EquityFunds -> Int],
   appliedAt : Int, portfolioAt : Int, eventAt : Int, receivables : Seq(Entitlement)]

\* The audit finds what the book says, and explains how it came about.
OneLot(lots, held) == IF held = 0 THEN lots = <<>> ELSE \E c \in Int : lots = <<[units |-> held, cost |-> c]>>
SameClaims(s, r) == Len(s) = Len(r) /\ \A i \in DOMAIN r : s[i].amount = r[i].amount /\ s[i].paid = r[i].paid
OpenCosts(a) == SumFunction([f \in EquityFunds |-> LotCosts(a.lots[f])])
Tallied(a, b) ==
  /\ a \in AuditDoc /\ a.cash = b.cash
  /\ \A f \in EquityFunds : OneLot(a.lots[f], b.positions[f])
  /\ SameClaims(a.receivables, b.receivables)
  /\ a.cash + ReceivableValue(b) + OpenCosts(a) = ResearchCash + a.realized + a.income

LEMMA FundAmounts ==
  /\ IsFiniteSet(EquityFunds) /\ SlotsPerDay \in Nat \ {0} /\ ResearchCash \in Nat \ {0} /\ MaxOperations \in Nat \ {0}
  /\ OpenSlot \in Nat /\ LastTime \in Nat /\ ShareFee \in Nat /\ FixedFee \in Nat /\ TargetShare \in Nat /\ GrossCap \in Nat
  /\ EntryLossLimit \in Nat /\ (\A d \in DividendAmounts : d \in Nat \ {0})
  /\ (\A p \in MarkPrices : p \in Nat /\ p > ShareFee /\ p > 0)
  /\ \A q \in SplitRatios : q[1] \in Nat \ {0} /\ q[2] \in Nat \ {0}
BY ResearchAssumption

LEMMA FundRows ==
  ASSUME NEW r \in FundRow
  PROVE  /\ r.kind \in {"loss", "buy", "sell", "dividend", "payment", "split"} /\ r.at \in Int
         /\ r.kind = "buy" <=> r \in FundBuy
         /\ r.kind = "sell" <=> r \in FundSale
BY DEF FundRow, LossMade, FundBuy, FundSale, DividendMade, PaymentMade, SplitMade

LEMMA DocFields ==
  ASSUME NEW b \in ResearchDoc
  PROVE  /\ b.cash \in Int /\ b.positions \in [EquityFunds -> Nat] /\ b.pendingExits \subseteq EquityFunds /\ b.day \in Int
         /\ b.baseline \in Int /\ b.halted \in BOOLEAN /\ b.batch \in OpenPlans \cup {NoBatch}
         /\ b.attempted \in [EquityFunds -> Int] /\ b.closed \in [EquityFunds -> Int] /\ b.appliedAt \in Int
         /\ b.portfolioAt \in Int /\ b.eventAt \in Int /\ b.receivables \in Seq(Entitlement)
BY DEF ResearchDoc

LEMMA AuditFields ==
  ASSUME NEW a \in AuditDoc
  PROVE  /\ a.cash \in Int /\ a.lots \in [EquityFunds -> Seq(Lot)] /\ a.receivables \in Seq(Claim)
         /\ a.realized \in Int /\ a.income \in Int
BY DEF AuditDoc

\* The sum over one element is its value, over none 0.
LEMMA SumOfNone == ASSUME NEW f, DOMAIN f = {} PROVE SumFunction(f) = 0
BY FS_EmptySet, SumsAreInt DEF Summable

LEMMA SumOfOne == ASSUME NEW x, NEW f, DOMAIN f = {x}, f[x] \in Int PROVE SumFunction(f) = f[x]
<1> DEFINE g == [y \in {} |-> 0]
<1>1. DOMAIN g = {}
  OBVIOUS
<1> HIDE DEF g
<1>2. Summable(g, {}) /\ SumFunction(g) = 0
  BY <1>1, SumOfNone, FS_EmptySet DEF Summable
<1>3. Grown(f, g, {}, x)
  BY DEF Grown
<1>4. SumFunction(f) = SumFunction(g) + f[x]
  BY <1>2, <1>3, SumOfOneMore
<1>5. QED BY <1>2, <1>4

LEMMA LotSums ==
  /\ <<>> \in Seq(Lot) /\ LotUnits(<<>>) = 0 /\ LotCosts(<<>>) = 0
  /\ \A u, c \in Int : LET l == <<[units |-> u, cost |-> c]>>
                       IN  l \in Seq(Lot) /\ LotUnits(l) = u /\ LotCosts(l) = c
<1>1. DOMAIN <<>> = {} /\ <<>> \in Seq(Lot)
  OBVIOUS
<1>2. LotUnits(<<>>) = 0 /\ LotCosts(<<>>) = 0
  <2> DEFINE f == [i \in DOMAIN <<>> |-> <<>>[i].units]
             g == [i \in DOMAIN <<>> |-> <<>>[i].cost]
  <2>1. DOMAIN f = {} /\ DOMAIN g = {}
    BY <1>1
  <2> HIDE DEF f, g
  <2>2. SumFunction(f) = 0 /\ SumFunction(g) = 0
    BY <2>1, SumOfNone
  <2>3. QED BY <2>2 DEF LotUnits, LotCosts, f, g
<1>3. ASSUME NEW u \in Int, NEW c \in Int
      PROVE  LET l == <<[units |-> u, cost |-> c]>> IN l \in Seq(Lot) /\ LotUnits(l) = u /\ LotCosts(l) = c
  <2> DEFINE l == <<[units |-> u, cost |-> c]>>
             f == [i \in DOMAIN l |-> l[i].units]
             g == [i \in DOMAIN l |-> l[i].cost]
  <2>1. l \in Seq(Lot)
    BY DEF Lot
  <2>2. DOMAIN f = {1} /\ DOMAIN g = {1} /\ f[1] = u /\ g[1] = c
    OBVIOUS
  <2> HIDE DEF f, g
  <2>3. SumFunction(f) = u /\ SumFunction(g) = c
    BY <2>2, SumOfOne
  <2>4. QED BY <2>1, <2>3 DEF LotUnits, LotCosts, f, g
<1>4. QED BY <1>1, <1>2, <1>3

LEMMA OneLotSums ==
  ASSUME NEW lots, NEW held \in Nat, OneLot(lots, held)
  PROVE  lots \in Seq(Lot) /\ LotUnits(lots) = held /\ LotCosts(lots) \in Int
<1>1. CASE held = 0
  BY <1>1, LotSums DEF OneLot
<1>2. CASE held # 0
  <2>1. PICK c \in Int : lots = <<[units |-> held, cost |-> c]>>
    BY <1>2 DEF OneLot
  <2>2. QED BY <2>1, LotSums
<1>3. QED BY <1>1, <1>2

\* Selling all that is held leaves no lot, at the cost of the one there was.
LEMMA AllSold ==
  ASSUME NEW lots, NEW held \in Nat, OneLot(lots, held)
  PROVE  SellLots(lots, held).kept = <<>> /\ SellLots(lots, held).cost = LotCosts(lots)
<1> DEFINE first == [left |-> held, cost |-> 0, kept |-> <<>>]
           Iter(f) == [s \in SUBSET DOMAIN lots |-> IF s = {} THEN first ELSE SellLot(f[s \ {Max(s)}], lots[Max(s)])]
           it == CHOOSE f : f = Iter(f)
<1>1. SellLots(lots, held) = it[DOMAIN lots]
  BY DEF SellLots, FoldLeft, MapThenFoldSet
<1>2. CASE held = 0
  <2>1. lots = <<>> /\ DOMAIN lots = {}
    BY <1>2 DEF OneLot
  <2>2. \E f : f = Iter(f)
    <3> DEFINE f == [s \in SUBSET {} |-> first]
    <3>1. \A s \in SUBSET {} : s = {}
      OBVIOUS
    <3>2. f = [s \in SUBSET {} |-> IF s = {} THEN first ELSE SellLot(f[s \ {Max(s)}], lots[Max(s)])]
      BY <3>1
    <3>3. f = Iter(f)
      BY <2>1, <3>2
    <3>4. QED BY <3>3
  <2>3. it = Iter(it)
    BY <2>2
  <2> HIDE DEF it
  <2>4. it[{}] = first
    BY <2>1, <2>3
  <2>5. QED BY <1>1, <2>1, <2>4, LotSums
<1>3. CASE held # 0
  <2>1. PICK c \in Int : lots = <<[units |-> held, cost |-> c]>>
    BY <1>3 DEF OneLot
  <2> DEFINE lot == [units |-> held, cost |-> c]
  <2>2. DOMAIN lots = {1} /\ lots[1] = lot
    BY <2>1
  <2>3. Max({1}) = 1
    BY DEF Max
  <2>4. \E f : f = Iter(f)
    <3> DEFINE f == [s \in SUBSET {1} |-> IF s = {} THEN first ELSE SellLot(first, lot)]
    <3>1. \A s \in SUBSET {1} : s # {} => s = {1} /\ s \ {1} = {}
      OBVIOUS
    <3>2. f[{}] = first
      OBVIOUS
    <3>3. \A s \in SUBSET {1} : f[s] = IF s = {} THEN first ELSE SellLot(f[s \ {Max(s)}], lots[Max(s)])
      <4> HIDE DEF lot, first
      <4>1. \A s \in SUBSET {1} : s # {} => f[s] = SellLot(first, lot) /\ f[s \ {Max(s)}] = first /\ lots[Max(s)] = lot
        BY <2>2, <2>3, <3>1, <3>2
      <4>2. QED BY <3>2, <4>1
    <3>4. f = [s \in SUBSET {1} |-> f[s]]
      OBVIOUS
    <3> HIDE DEF f
    <3>5. f = Iter(f)
      BY <2>2, <3>3, <3>4
    <3>6. QED BY <3>5
  <2>5. it = Iter(it)
    BY <2>4
  <2> HIDE DEF it
  <2>6. it[{1}] = SellLot(it[{}], lot) /\ it[{}] = first
    <3>1. {1} \in SUBSET DOMAIN lots /\ {} \in SUBSET DOMAIN lots /\ {1} # {} /\ {1} \ {1} = {}
      BY <2>2
    <3>2. QED BY <2>2, <2>3, <2>5, <3>1
  <2>7. SellLot(first, lot).kept = <<>> /\ SellLot(first, lot).cost = c
    BY MinOfTwo DEF PartOf, SellLot
  <2>8. LotCosts(lots) = c
    BY <2>1, LotSums
  <2>9. QED BY <1>1, <2>2, <2>6, <2>7, <2>8
<1>4. QED BY <1>2, <1>3

\* The cost of the open lots when those of one fund change.
LEMMA CostsMove ==
  ASSUME NEW a \in AuditDoc, NEW b \in ResearchDoc, Tallied(a, b), NEW d \in AuditDoc, NEW f \in EquityFunds,
         \A g \in EquityFunds \ {f} : d.lots[g] = a.lots[g], LotCosts(d.lots[f]) \in Int
  PROVE  /\ OpenCosts(d) = OpenCosts(a) + (LotCosts(d.lots[f]) - LotCosts(a.lots[f]))
         /\ OpenCosts(a) \in Int /\ LotCosts(a.lots[f]) \in Int
<1> DEFINE F == [g \in EquityFunds |-> LotCosts(a.lots[g])]
           G == [g \in EquityFunds |-> LotCosts(d.lots[g])]
<1>1. \A g \in EquityFunds : LotCosts(a.lots[g]) \in Int
  BY DocFields, OneLotSums DEF Tallied
<1>2. /\ DOMAIN F = EquityFunds /\ DOMAIN G = EquityFunds /\ \A g \in EquityFunds : F[g] \in Int
      /\ \A g \in EquityFunds \ {f} : G[g] = F[g]
      /\ G[f] = LotCosts(d.lots[f]) /\ F[f] = LotCosts(a.lots[f])
  BY <1>1
<1> HIDE DEF F, G
<1>3. SumFunction(G) = SumFunction(F) + (G[f] - F[f]) /\ SumFunction(F) \in Int
  BY <1>2, FundAmounts, SumChanges
<1>4. QED BY <1>1, <1>2, <1>3 DEF OpenCosts, F, G

LEMMA ValueInt == ASSUME NEW b \in ResearchDoc PROVE ReceivableValue(b) \in Int
<1> DEFINE R == b.receivables
           f == [i \in DOMAIN R |-> IF R[i].paid THEN 0 ELSE R[i].amount]
<1>1. R \in Seq(Entitlement) /\ DOMAIN R = 1..Len(R) /\ Len(R) \in Nat
  BY DocFields, LenProperties
<1>2. \A i \in DOMAIN R : R[i].amount \in Int
  <2> HIDE DEF R
  <2>1. \A i \in DOMAIN R : R[i] \in Entitlement
    BY <1>1, ElementOfSeq
  <2>2. QED BY <2>1 DEF Entitlement
<1>3. IsFiniteSet(DOMAIN R)
  BY <1>1, FS_Interval
<1>4. DOMAIN f = DOMAIN R /\ \A i \in DOMAIN R : f[i] \in Int
  BY <1>2
<1> HIDE DEF f
<1>5. Summable(f, DOMAIN R)
  BY <1>3, <1>4 DEF Summable
<1>6. SumFunction(f) \in Int
  BY <1>5, SumsAreInt
<1>7. QED BY <1>6 DEF ReceivableValue, f

LEMMA TallyBought ==
  ASSUME NEW b \in ResearchDoc, NEW a, Tallied(a, b), NEW f \in EquityFunds, b.positions[f] = 0,
         NEW units \in Nat \ {0}, NEW cost \in Int, NEW t,
         NEW c, c.cash = b.cash - cost - FixedFee, c.positions[f] = units, c.receivables = b.receivables,
         \A g \in EquityFunds \ {f} : c.positions[g] = b.positions[g]
  PROVE  Tallied(Audited(a, [kind |-> "buy", fund |-> f, units |-> units, cost |-> cost, at |-> t]), c)
<1> DEFINE r == [kind |-> "buy", fund |-> f, units |-> units, cost |-> cost, at |-> t]
           lot == [units |-> units, cost |-> cost + FixedFee]
           left == a.cash - cost - FixedFee
           own == [a.lots EXCEPT ![f] = Append(@, lot)]
           d == Audited(a, r)
<1>1. a \in AuditDoc /\ a.cash = b.cash /\ a.lots[f] = <<>> /\ b.cash \in Int /\ FixedFee \in Int
  BY DocFields, FundAmounts DEF Tallied, OneLot
<1>2. d = [a EXCEPT !.cash = left, !.lots = own]
  <2>1. r.kind = "buy" /\ r.fund = f /\ r.units = units /\ r.cost = cost
    OBVIOUS
  <2> HIDE DEF r
  <2>2. d = [a EXCEPT !.cash = @ - cost - FixedFee, !.lots[f] = Append(@, lot)]
    BY <2>1 DEF Audited
  <2>3. QED BY <1>1, <2>2 DEF AuditDoc
<1> HIDE DEF d, r
<1>3. Append(<<>>, lot) = <<lot>> /\ cost + FixedFee \in Int
  BY <1>1
<1>4. own[f] = <<lot>> /\ (\A g \in EquityFunds \ {f} : own[g] = a.lots[g]) /\ own \in [EquityFunds -> Seq(Lot)] /\ left \in Int
  BY <1>1, <1>3, AuditFields DEF Lot
<1>5. <<lot>> = <<[units |-> units, cost |-> cost + FixedFee]>> /\ LotCosts(<<lot>>) = cost + FixedFee
  <2> DEFINE total == cost + FixedFee
  <2>1. total \in Int /\ units \in Int
    BY <1>3
  <2> HIDE DEF total
  <2>2. LotCosts(<<[units |-> units, cost |-> total]>>) = total
    BY <2>1, LotSums
  <2>3. QED BY <2>2 DEF total
<1> HIDE DEF own, lot, left
<1>6. /\ d \in AuditDoc /\ d.cash = left /\ d.lots = own /\ d.receivables = a.receivables /\ d.realized = a.realized
      /\ d.income = a.income
  BY <1>1, <1>2, <1>4 DEF AuditDoc
<1>7. OpenCosts(d) = OpenCosts(a) + (LotCosts(d.lots[f]) - LotCosts(a.lots[f])) /\ OpenCosts(a) \in Int
  <2>1. LotCosts(d.lots[f]) \in Int
    BY <1>3, <1>4, <1>5, <1>6
  <2>2. QED BY <1>1, <1>4, <1>6, <2>1, CostsMove
<1>8. LotCosts(a.lots[f]) = 0 /\ LotCosts(d.lots[f]) = cost + FixedFee
  BY <1>1, <1>4, <1>5, <1>6, LotSums
<1>9. ReceivableValue(c) = ReceivableValue(b) /\ ReceivableValue(b) \in Int /\ a.realized \in Int /\ a.income \in Int /\ ResearchCash \in Int
  BY <1>1, ValueInt, AuditFields, FundAmounts DEF ReceivableValue
<1>10. d.cash + ReceivableValue(c) + OpenCosts(d) = ResearchCash + d.realized + d.income
  <2>1. a.cash + ReceivableValue(b) + OpenCosts(a) = ResearchCash + a.realized + a.income
    BY DEF Tallied
  <2>2. QED BY <1>1, <1>6, <1>7, <1>8, <1>9, <2>1 DEF left
<1>11. ASSUME NEW g \in EquityFunds PROVE OneLot(d.lots[g], c.positions[g])
  <2>1. CASE g = f
    BY <1>3, <1>4, <1>5, <1>6, <2>1 DEF OneLot
  <2>2. CASE g # f
    BY <1>4, <1>6, <2>2 DEF Tallied
  <2>3. QED BY <2>1, <2>2
<1>12. Tallied(d, c)
  BY <1>1, <1>6, <1>10, <1>11 DEF Tallied, left
<1>13. QED BY <1>12 DEF d, r

LEMMA TallySold ==
  ASSUME NEW b \in ResearchDoc, NEW a, Tallied(a, b), NEW f \in EquityFunds, NEW cost \in Int, NEW t,
         NEW c, c.cash = b.cash + cost - FixedFee, c.positions[f] = 0, c.receivables = b.receivables,
         \A g \in EquityFunds \ {f} : c.positions[g] = b.positions[g]
  PROVE  Tallied(Audited(a, [kind |-> "sell", fund |-> f, units |-> b.positions[f], cost |-> cost, at |-> t]), c)
<1> DEFINE held == b.positions[f]
           r == [kind |-> "sell", fund |-> f, units |-> held, cost |-> cost, at |-> t]
           paid == LotCosts(a.lots[f])
           left == a.cash + cost - FixedFee
           own == [a.lots EXCEPT ![f] = <<>>]
           gain == a.realized + cost - FixedFee - paid
           d == Audited(a, r)
<1>1. /\ a \in AuditDoc /\ a.cash = b.cash /\ OneLot(a.lots[f], held) /\ held \in Nat /\ b.cash \in Int /\ FixedFee \in Int
      /\ a.realized \in Int /\ a.income \in Int /\ ResearchCash \in Int
  BY DocFields, AuditFields, FundAmounts DEF Tallied
<1>2. d = [a EXCEPT !.cash = left, !.lots = own, !.realized = gain]
  <2> DEFINE s == SellLots(a.lots[f], held)
  <2>1. r.kind = "sell" /\ r.fund = f /\ r.units = held /\ r.cost = cost
    OBVIOUS
  <2> HIDE DEF r, held
  <2>2. s.kept = <<>> /\ s.cost = paid
    BY <1>1, AllSold
  <2> HIDE DEF paid
  <2>3. d = [a EXCEPT !.cash = @ + cost - FixedFee, !.lots[f] = s.kept, !.realized = @ + cost - FixedFee - s.cost]
    BY <2>1 DEF Audited
  <2> HIDE DEF s
  <2>4. d = [a EXCEPT !.cash = @ + cost - FixedFee, !.lots[f] = <<>>, !.realized = @ + cost - FixedFee - paid]
    BY <2>2, <2>3
  <2>5. QED BY <1>1, <2>4 DEF AuditDoc
<1>3. paid \in Int
  BY <1>1, OneLotSums
<1> HIDE DEF d, r, paid
<1>4. own[f] = <<>> /\ (\A g \in EquityFunds \ {f} : own[g] = a.lots[g]) /\ own \in [EquityFunds -> Seq(Lot)] /\ left \in Int /\ gain \in Int
  BY <1>1, <1>3, AuditFields
<1> HIDE DEF own
<1>5. /\ d \in AuditDoc /\ d.cash = left /\ d.lots = own /\ d.receivables = a.receivables /\ d.realized = gain
      /\ d.income = a.income
  <2> HIDE DEF left, gain
  <2>1. QED BY <1>1, <1>2, <1>4 DEF AuditDoc
<1>6. LotCosts(d.lots[f]) = 0
  BY <1>4, <1>5, LotSums
<1>7. OpenCosts(d) = OpenCosts(a) + (LotCosts(d.lots[f]) - LotCosts(a.lots[f])) /\ OpenCosts(a) \in Int
  BY <1>6, <1>1, <1>4, <1>5, CostsMove
<1>8. ReceivableValue(c) = ReceivableValue(b) /\ ReceivableValue(b) \in Int
  BY ValueInt DEF ReceivableValue
<1>9. d.cash + ReceivableValue(c) + OpenCosts(d) = ResearchCash + d.realized + d.income
  BY <1>3, <1>6, <1>7, <1>1, <1>5, <1>8 DEF Tallied, paid
<1>10. ASSUME NEW g \in EquityFunds PROVE OneLot(d.lots[g], c.positions[g])
  <2>1. CASE g = f
    BY <1>4, <1>5, <2>1 DEF OneLot
  <2>2. CASE g # f
    BY <1>4, <1>5, <2>2 DEF Tallied
  <2>3. QED BY <2>1, <2>2
<1>11. Tallied(d, c)
  BY <1>1, <1>5, <1>9, <1>10 DEF Tallied
<1>12. QED BY <1>11 DEF d, r

-----------------------------------------------------------------------------
(* Corporate actions: what is owed, and what was found to be owed.         *)

ClaimsDue(R) == [i \in DOMAIN R |-> IF R[i].paid THEN 0 ELSE R[i].amount]

LEMMA WorthSums ==
  ASSUME NEW R \in Seq(Entitlement)
  PROVE  /\ Summable(ClaimsDue(R), DOMAIN R) /\ DOMAIN R = 1..Len(R) /\ Len(R) \in Nat
         /\ \A i \in DOMAIN R : R[i] \in Entitlement /\ R[i].amount \in Int /\ R[i].paid \in BOOLEAN
<1>1. DOMAIN R = 1..Len(R) /\ Len(R) \in Nat /\ \A i \in DOMAIN R : R[i] \in Entitlement
  BY LenProperties, ElementOfSeq
<1>2. \A i \in DOMAIN R : R[i].amount \in Int /\ R[i].paid \in BOOLEAN
  <2> HIDE DEF Entitlement
  <2>1. \A e \in Entitlement : e.amount \in Int /\ e.paid \in BOOLEAN
    BY DEF Entitlement
  <2>2. QED BY <1>1, <2>1
<1>3. IsFiniteSet(DOMAIN R)
  BY <1>1, FS_Interval
<1>4. DOMAIN ClaimsDue(R) = DOMAIN R /\ \A i \in DOMAIN R : ClaimsDue(R)[i] \in Int
  BY <1>2 DEF ClaimsDue
<1>5. QED BY <1>1, <1>2, <1>3, <1>4 DEF Summable

LEMMA ReceivablesWorth == \A b : ReceivableValue(b) = SumFunction(ClaimsDue(b.receivables))
BY DEF ReceivableValue, ClaimsDue

\* Claims of the same amounts, paid alike, are worth the same.
LEMMA WorthSame ==
  ASSUME NEW R \in Seq(Entitlement), NEW Q, DOMAIN Q = DOMAIN R,
         \A i \in DOMAIN R : Q[i].amount = R[i].amount /\ Q[i].paid = R[i].paid
  PROVE  SumFunction(ClaimsDue(Q)) = SumFunction(ClaimsDue(R))
<1>1. DOMAIN ClaimsDue(Q) = DOMAIN R /\ \A i \in DOMAIN R : ClaimsDue(Q)[i] = ClaimsDue(R)[i]
  BY DEF ClaimsDue
<1>2. Summable(ClaimsDue(R), DOMAIN R)
  BY WorthSums
<1> DEFINE D == DOMAIN R
           f == ClaimsDue(R)
           g == ClaimsDue(Q)
<1>3. DOMAIN g = D /\ (\A i \in D : g[i] = f[i]) /\ Summable(f, D)
  BY <1>1, <1>2
<1> HIDE DEF D, f, g
<1>4. SumFunction(g) = SumFunction(f)
  BY <1>3, SumOfSame
<1>5. QED BY <1>4 DEF f, g

LEMMA WorthMore ==
  ASSUME NEW R \in Seq(Entitlement), NEW e \in Entitlement, e.paid = FALSE
  PROVE  SumFunction(ClaimsDue(Append(R, e))) = SumFunction(ClaimsDue(R)) + e.amount
<1> DEFINE Q == Append(R, e)
           n == Len(R) + 1
           D == DOMAIN R
           f == ClaimsDue(R)
           g == ClaimsDue(Q)
<1>1. /\ DOMAIN R = 1..Len(R) /\ Len(R) \in Nat /\ DOMAIN Q = 1..n /\ Q[n] = e /\ \A i \in 1..Len(R) : Q[i] = R[i]
  BY LenProperties, AppendProperties
<1>2. e.amount \in Int
  BY DEF Entitlement
<1>3. n \notin D /\ D \cup {n} = 1..n
  BY <1>1
<1> HIDE DEF Q, n
<1>4. g[n] = e.amount /\ DOMAIN g = D \cup {n} /\ \A i \in D : g[i] = f[i]
  BY <1>1, <1>3 DEF ClaimsDue
<1>5. Summable(f, D)
  BY WorthSums
<1> HIDE DEF D, f, g
<1>6. Grown(g, f, D, n)
  BY <1>2, <1>3, <1>4 DEF Grown
<1>7. SumFunction(g) = SumFunction(f) + g[n]
  BY <1>5, <1>6, SumOfOneMore
<1>8. QED BY <1>4, <1>7 DEF f, g, Q

LEMMA WorthPaid ==
  ASSUME NEW R \in Seq(Entitlement), NEW i \in DOMAIN R, R[i].paid = FALSE,
         NEW Q, DOMAIN Q = DOMAIN R, Q[i].paid = TRUE, \A k \in DOMAIN R \ {i} : Q[k] = R[k]
  PROVE  SumFunction(ClaimsDue(Q)) = SumFunction(ClaimsDue(R)) - R[i].amount
<1> DEFINE D == DOMAIN R
           f == ClaimsDue(R)
           g == ClaimsDue(Q)
           m == R[i].amount
<1>1. Summable(f, D) /\ m \in Int
  BY WorthSums
<1>2. DOMAIN g = D /\ g[i] = 0 /\ f[i] = m /\ \A k \in D \ {i} : g[k] = f[k]
  BY DEF ClaimsDue
<1>3. i \in D
  OBVIOUS
<1> HIDE DEF D, f, g, m
<1>4. IsFiniteSet(D) /\ DOMAIN f = D /\ (\A k \in D : f[k] \in Int) /\ g[i] \in Int
  BY <1>1, <1>2 DEF Summable
<1>5. SumFunction(g) = SumFunction(f) + (g[i] - f[i]) /\ SumFunction(f) \in Int
  BY <1>2, <1>3, <1>4, SumChanges
<1>6. SumFunction(g) = SumFunction(f) - m
  BY <1>1, <1>2, <1>5
<1>7. QED BY <1>6 DEF f, g, m

\* A loss that is seen is nothing to the audit, nor is a day, a plan or a schedule.
LEMMA TallyQuiet ==
  ASSUME NEW b \in ResearchDoc, NEW a, Tallied(a, b),
         NEW c, c.cash = b.cash, c.positions = b.positions, c.receivables = b.receivables
  PROVE  Tallied(a, c) /\ \A t : Audited(a, [kind |-> "loss", at |-> t]) = a
<1>1. ReceivableValue(c) = ReceivableValue(b)
  BY DEF ReceivableValue
<1>2. Tallied(a, c)
  BY <1>1 DEF Tallied
<1>3. ASSUME NEW t PROVE Audited(a, [kind |-> "loss", at |-> t]) = a
  <2> DEFINE r == [kind |-> "loss", at |-> t]
  <2>1. r.kind = "loss"
    OBVIOUS
  <2> HIDE DEF r
  <2>2. Audited(a, r) = a
    BY <2>1 DEF Audited
  <2>3. QED BY <2>2 DEF r
<1>4. QED BY <1>2, <1>3

LEMMA TallySchedule ==
  ASSUME NEW b \in ResearchDoc, NEW a, Tallied(a, b),
         NEW c, c.cash = b.cash, c.positions = b.positions,
         c.receivables \in Seq(Entitlement), DOMAIN c.receivables = DOMAIN b.receivables,
         \A i \in DOMAIN b.receivables : c.receivables[i].amount = b.receivables[i].amount /\ c.receivables[i].paid = b.receivables[i].paid
  PROVE  Tallied(a, c)
<1> DEFINE R == b.receivables
           Q == c.receivables
<1>1. R \in Seq(Entitlement) /\ Q \in Seq(Entitlement) /\ DOMAIN Q = DOMAIN R
  BY DocFields
<1>2. Len(Q) = Len(R)
  BY <1>1, LenProperties
<1>3. SumFunction(ClaimsDue(Q)) = SumFunction(ClaimsDue(R))
  <2>1. \A i \in DOMAIN R : Q[i].amount = R[i].amount /\ Q[i].paid = R[i].paid
    OBVIOUS
  <2> HIDE DEF R, Q
  <2>2. QED BY <1>1, <2>1, WorthSame
<1>4. ReceivableValue(c) = ReceivableValue(b)
  BY <1>3, ReceivablesWorth
<1>5. SameClaims(a.receivables, Q)
  BY <1>1, <1>2 DEF Tallied, SameClaims
<1>6. QED BY <1>4, <1>5 DEF Tallied

DueOn(b, f, share) == b.positions[f] * share

LEMMA TallyDividend ==
  ASSUME NEW b \in ResearchDoc, NEW a, Tallied(a, b), NEW f \in EquityFunds, NEW share \in Int, NEW t,
         NEW e \in Entitlement, e.amount = DueOn(b, f, share), e.paid = FALSE,
         NEW c, c.cash = b.cash, c.positions = b.positions, c.receivables = Append(b.receivables, e)
  PROVE  Tallied(Audited(a, [kind |-> "dividend", fund |-> f, perShare |-> share, at |-> t]), c)
<1> DEFINE r == [kind |-> "dividend", fund |-> f, perShare |-> share, at |-> t]
           amount == DueOn(b, f, share)
           owed == [amount |-> amount, paid |-> FALSE]
           list == Append(a.receivables, owed)
           income == a.income + amount
           d == Audited(a, r)
<1>1. /\ a \in AuditDoc /\ a.cash = b.cash /\ OneLot(a.lots[f], b.positions[f]) /\ b.positions[f] \in Nat
      /\ a.realized \in Int /\ a.income \in Int /\ a.receivables \in Seq(Claim) /\ a.cash \in Int /\ a.lots \in [EquityFunds -> Seq(Lot)]
      /\ SameClaims(a.receivables, b.receivables) /\ b.receivables \in Seq(Entitlement)
  BY DocFields, AuditFields DEF Tallied
<1>2. LotUnits(a.lots[f]) = b.positions[f]
  BY <1>1, OneLotSums
<1>3. d = [a EXCEPT !.receivables = list, !.income = income]
  <2>1. r.kind = "dividend" /\ r.fund = f /\ r.perShare = share
    OBVIOUS
  <2> HIDE DEF r
  <2>2. d = [a EXCEPT !.receivables = Append(@, [amount |-> LotUnits(a.lots[f]) * share, paid |-> FALSE]),
                      !.income = @ + LotUnits(a.lots[f]) * share]
    BY <2>1 DEF Audited
  <2> HIDE DEF amount, d
  <2>3. d = [a EXCEPT !.receivables = Append(@, [amount |-> amount, paid |-> FALSE]), !.income = @ + amount]
    BY <1>2, <2>2 DEF amount, DueOn
  <2>4. QED BY <1>1, <2>3 DEF AuditDoc
<1>4. amount \in Int
  BY <1>1 DEF DueOn
<1>5. e.amount = amount
  OBVIOUS
<1> HIDE DEF amount, d, r
<1>6. owed \in Claim /\ income \in Int
  BY <1>1, <1>4 DEF Claim
<1>7. list \in Seq(Claim)
  BY <1>1, <1>6, AppendProperties
<1>8. SameClaims(list, Append(b.receivables, e))
  <2> DEFINE s == a.receivables
             R == b.receivables
  <2>1. s \in Seq(Claim) /\ R \in Seq(Entitlement) /\ SameClaims(s, R) /\ owed.amount = e.amount /\ owed.paid = e.paid
    BY <1>1, <1>5
  <2> HIDE DEF s, R, owed
  <2>2. /\ Len(Append(s, owed)) = Len(s) + 1 /\ Append(s, owed)[Len(s) + 1] = owed /\ \A i \in 1..Len(s) : Append(s, owed)[i] = s[i]
        /\ Len(Append(R, e)) = Len(R) + 1 /\ Append(R, e)[Len(R) + 1] = e /\ \A i \in 1..Len(R) : Append(R, e)[i] = R[i]
        /\ DOMAIN Append(R, e) = 1..(Len(R) + 1) /\ DOMAIN R = 1..Len(R) /\ Len(R) \in Nat
    BY <1>6, <2>1, AppendProperties, LenProperties
  <2>3. \A i \in 1..(Len(R) + 1) : i = Len(R) + 1 \/ i \in 1..Len(R)
    BY <2>2
  <2>4. SameClaims(Append(s, owed), Append(R, e))
    <3>1. Len(s) = Len(R) /\ \A i \in 1..Len(R) : s[i].amount = R[i].amount /\ s[i].paid = R[i].paid
      BY <2>1, <2>2 DEF SameClaims
    <3>2. ASSUME NEW i \in 1..(Len(R) + 1)
          PROVE  Append(s, owed)[i].amount = Append(R, e)[i].amount /\ Append(s, owed)[i].paid = Append(R, e)[i].paid
      <4>1. CASE i = Len(R) + 1
        BY <2>1, <2>2, <3>1, <4>1
      <4>2. CASE i \in 1..Len(R)
        BY <2>2, <3>1, <4>2
      <4>3. QED BY <2>3, <4>1, <4>2
    <3>3. QED BY <2>2, <3>1, <3>2 DEF SameClaims
  <2>5. QED BY <2>4 DEF s, R
<1> HIDE DEF list, income, owed
<1>9. /\ d \in AuditDoc /\ d.cash = a.cash /\ d.lots = a.lots /\ d.receivables = list /\ d.realized = a.realized
      /\ d.income = income
  BY <1>1, <1>3, <1>6, <1>7 DEF AuditDoc
<1>10. OpenCosts(d) = OpenCosts(a)
  BY <1>9 DEF OpenCosts
<1>11. OpenCosts(a) \in Int
  BY <1>1, CostsMove, OneLotSums
<1>12. ReceivableValue(c) = ReceivableValue(b) + amount /\ ReceivableValue(b) \in Int
  BY <1>1, WorthMore, <1>5, ReceivablesWorth, ValueInt
<1>13. d.cash + ReceivableValue(c) + OpenCosts(d) = ResearchCash + d.realized + d.income
  <2>1. a.cash + ReceivableValue(b) + OpenCosts(a) = ResearchCash + a.realized + a.income
    BY DEF Tallied
  <2>2. ResearchCash \in Int
    BY FundAmounts
  <2>3. d.cash = a.cash /\ d.realized = a.realized /\ d.income = a.income + amount /\ a.cash \in Int /\ a.realized \in Int /\ a.income \in Int
    BY <1>1, <1>9 DEF income
  <2>4. a.cash + (ReceivableValue(b) + amount) + OpenCosts(a) = ResearchCash + a.realized + (a.income + amount)
    <3> DEFINE x == a.cash
               v == ReceivableValue(b)
               o == OpenCosts(a)
               g == a.realized
               n == a.income
    <3>1. x \in Int /\ v \in Int /\ o \in Int /\ g \in Int /\ n \in Int /\ x + v + o = ResearchCash + g + n
      BY <1>11, <1>12, <2>1, <2>3
    <3> HIDE DEF x, v, o, g, n
    <3>2. x + (v + amount) + o = ResearchCash + g + (n + amount)
      BY <1>4, <2>2, <3>1
    <3>3. QED BY <3>2 DEF x, v, o, g, n
  <2>5. QED BY <1>10, <1>12, <2>3, <2>4
<1>14. Tallied(d, c)
  BY <1>1, <1>8, <1>9, <1>13 DEF Tallied
<1>15. QED BY <1>14 DEF d, r

LEMMA CostsAreInt == ASSUME NEW b \in ResearchDoc, NEW a, Tallied(a, b) PROVE OpenCosts(a) \in Int
<1> DEFINE F == [g \in EquityFunds |-> LotCosts(a.lots[g])]
<1>1. \A g \in EquityFunds : LotCosts(a.lots[g]) \in Int
  BY DocFields, OneLotSums DEF Tallied
<1>2. DOMAIN F = EquityFunds /\ \A g \in EquityFunds : F[g] \in Int
  BY <1>1
<1> HIDE DEF F
<1>3. Summable(F, EquityFunds)
  BY <1>2, FundAmounts DEF Summable
<1>4. SumFunction(F) \in Int
  BY <1>3, SumsAreInt
<1>5. QED BY <1>4 DEF OpenCosts, F

LEMMA TallyPayment ==
  ASSUME NEW b \in ResearchDoc, NEW a, Tallied(a, b), NEW i \in DOMAIN b.receivables, b.receivables[i].paid = FALSE, NEW t,
         NEW c, c.cash = b.cash + b.receivables[i].amount, c.positions = b.positions,
         DOMAIN c.receivables = DOMAIN b.receivables, c.receivables[i].paid = TRUE,
         c.receivables[i].amount = b.receivables[i].amount,
         \A k \in DOMAIN b.receivables \ {i} : c.receivables[k] = b.receivables[k],
         c.receivables \in Seq(Entitlement)
  PROVE  Tallied(Audited(a, [kind |-> "payment", dividend |-> i, at |-> t]), c)
<1> DEFINE r == [kind |-> "payment", dividend |-> i, at |-> t]
           R == b.receivables
           Q == c.receivables
           m == R[i].amount
           left == a.cash + m
           list == [a.receivables EXCEPT ![i].paid = TRUE]
           d == Audited(a, r)
<1>1. /\ a \in AuditDoc /\ a.cash = b.cash
      /\ a.realized \in Int /\ a.income \in Int /\ a.receivables \in Seq(Claim) /\ a.cash \in Int /\ a.lots \in [EquityFunds -> Seq(Lot)]
      /\ SameClaims(a.receivables, R) /\ R \in Seq(Entitlement)
  BY DocFields, AuditFields DEF Tallied
<1>2. m \in Int /\ DOMAIN R = 1..Len(R) /\ Len(R) \in Nat /\ Q \in Seq(Entitlement) /\ Len(Q) = Len(R)
  <2>1. R \in Seq(Entitlement) /\ Q \in Seq(Entitlement) /\ DOMAIN Q = DOMAIN R
    BY <1>1
  <2>2. Len(Q) = Len(R)
    <3> HIDE DEF Q, R
    <3>1. QED BY <2>1, LenProperties
  <2>3. QED BY <2>1, <2>2, WorthSums
<1>3. i \in DOMAIN R /\ DOMAIN a.receivables = 1..Len(a.receivables) /\ Len(a.receivables) = Len(R) /\ a.receivables[i].amount = m
  BY <1>1, LenProperties DEF SameClaims
<1>4. d = [a EXCEPT !.cash = left, !.receivables = list]
  <2>1. r.kind = "payment" /\ r.dividend = i
    OBVIOUS
  <2> HIDE DEF r
  <2>2. d = [a EXCEPT !.cash = @ + a.receivables[i].amount, !.receivables[i].paid = TRUE]
    BY <2>1 DEF Audited
  <2> HIDE DEF m, d
  <2>3. d = [a EXCEPT !.cash = @ + m, !.receivables[i].paid = TRUE]
    BY <1>3, <2>2
  <2>4. QED BY <1>1, <2>3 DEF AuditDoc
<1> HIDE DEF d, r
<1>5. list \in Seq(Claim) /\ SameClaims(list, Q)
  <2> DEFINE s == a.receivables
             x == [s[i] EXCEPT !.paid = TRUE]
  <2>1. s \in Seq(Claim) /\ DOMAIN s = 1..Len(R) /\ Len(s) = Len(R) /\ i \in DOMAIN s
    BY <1>1, <1>2, <1>3
  <2>2. list = [s EXCEPT ![i] = x]
    OBVIOUS
  <2>3. x \in Claim /\ x.amount = s[i].amount /\ x.paid = TRUE
    <3>1. s[i] \in Claim
      <4> HIDE DEF s
      <4>1. QED BY <2>1, ElementOfSeq
    <3> HIDE DEF s
    <3>2. QED BY <3>1 DEF Claim, x
  <2> HIDE DEF x, s, list
  <2>4. list \in Seq(Claim) /\ Len(list) = Len(R) /\ list[i] = x /\ \A k \in DOMAIN s \ {i} : list[k] = s[k]
    BY <2>1, <2>2, <2>3, ExceptSeq
  <2>5. \A k \in 1..Len(R) : s[k].amount = R[k].amount /\ s[k].paid = R[k].paid
    BY <1>1, <1>2 DEF SameClaims, s
  <2>6. DOMAIN Q = 1..Len(R) /\ Q[i].amount = R[i].amount /\ Q[i].paid = TRUE /\ \A k \in 1..Len(R) : k # i => Q[k] = R[k]
    BY <1>2
  <2> HIDE DEF Q, R
  <2>7. ASSUME NEW k \in 1..Len(R) PROVE list[k].amount = Q[k].amount /\ list[k].paid = Q[k].paid
    <3>1. CASE k = i
      BY <2>3, <2>4, <2>5, <2>6, <3>1
    <3>2. CASE k # i
      BY <2>1, <2>4, <2>5, <2>6, <3>2
    <3>3. QED BY <3>1, <3>2
  <2>8. Len(list) = Len(Q) /\ DOMAIN Q = 1..Len(R)
    BY <1>2, <2>4, <2>6
  <2>9. QED BY <2>4, <2>7, <2>8 DEF SameClaims
<1> HIDE DEF list
<1>6. left \in Int
  BY <1>1, <1>2
<1> HIDE DEF left
<1>7. /\ d \in AuditDoc /\ d.cash = left /\ d.lots = a.lots /\ d.receivables = list /\ d.realized = a.realized
      /\ d.income = a.income
  BY <1>1, <1>4, <1>5, <1>6 DEF AuditDoc
<1>8. OpenCosts(d) = OpenCosts(a)
  BY <1>7 DEF OpenCosts
<1>9. ReceivableValue(c) = ReceivableValue(b) - m /\ ReceivableValue(b) \in Int
  <2>1. SumFunction(ClaimsDue(Q)) = SumFunction(ClaimsDue(R)) - R[i].amount
    <3>1. DOMAIN Q = DOMAIN R /\ Q[i].paid = TRUE /\ R[i].paid = FALSE /\ i \in DOMAIN R /\ \A k \in DOMAIN R \ {i} : Q[k] = R[k]
      OBVIOUS
    <3>2. R \in Seq(Entitlement)
      BY <1>1
    <3> HIDE DEF Q, R
    <3>3. QED BY <3>1, <3>2, WorthPaid
  <2>2. QED BY <2>1, ReceivablesWorth, ValueInt
<1>10. d.cash + ReceivableValue(c) + OpenCosts(d) = ResearchCash + d.realized + d.income
  <2>1. a.cash + ReceivableValue(b) + OpenCosts(a) = ResearchCash + a.realized + a.income
    BY DEF Tallied
  <2>2. a.cash \in Int /\ left = a.cash + m
    BY <1>1 DEF left
  <2>3. OpenCosts(a) \in Int
    BY CostsAreInt
  <2> HIDE DEF m
  <2>4. QED BY <1>2, <1>7, <1>8, <1>9, <2>1, <2>2, <2>3
<1>11. Tallied(d, c)
  BY <1>1, <1>5, <1>7, <1>10 DEF left, Tallied
<1>12. QED BY <1>11 DEF d, r

LEMMA SplitWhole ==
  ASSUME NEW held \in Nat, held > 0, NEW n \in Nat \ {0}, NEW d \in Nat \ {0}, (held * n) % d = 0
  PROVE  (held * n) \div d \in Nat /\ (held * n) \div d > 0
<1> DEFINE m == held * n
           q == m \div d
<1>1. m \in Nat /\ m > 0
  OBVIOUS
<1> HIDE DEF m
<1>2. q \in Int /\ m = d * q + (m % d)
  BY <1>1
<1> HIDE DEF q
<1>3. m = d * q
  BY <1>1, <1>2 DEF m
<1>4. ASSUME q <= 0 PROVE FALSE
  BY <1>2, <1>4, <1>1, <1>3
<1>5. QED BY <1>2, <1>4 DEF m, q

LEMMA TallySplit ==
  ASSUME NEW b \in ResearchDoc, NEW a, Tallied(a, b), NEW f \in EquityFunds, b.positions[f] > 0, NEW ratio \in SplitRatios,
         (b.positions[f] * ratio[1]) % ratio[2] = 0, NEW t,
         NEW c, c.cash = b.cash, c.receivables = b.receivables, c.positions[f] = (b.positions[f] * ratio[1]) \div ratio[2],
         \A g \in EquityFunds \ {f} : c.positions[g] = b.positions[g]
  PROVE  Tallied(Audited(a, [kind |-> "split", fund |-> f, ratio |-> ratio, at |-> t]), c)
<1> DEFINE r == [kind |-> "split", fund |-> f, ratio |-> ratio, at |-> t]
           held == b.positions[f]
           now == (held * ratio[1]) \div ratio[2]
           lots == a.lots[f]
           after == [i \in DOMAIN lots |-> [lots[i] EXCEPT !.units = (@ * ratio[1]) \div ratio[2]]]
           own == [a.lots EXCEPT ![f] = after]
           d == Audited(a, r)
<1>1. /\ a \in AuditDoc /\ a.cash = b.cash /\ OneLot(lots, held) /\ held \in Nat /\ held > 0
      /\ a.lots \in [EquityFunds -> Seq(Lot)] /\ a.cash \in Int /\ a.realized \in Int /\ a.income \in Int
  BY DocFields, AuditFields DEF Tallied
<1>2. d = [a EXCEPT !.lots = own]
  <2>1. r.kind = "split" /\ r.fund = f /\ r.ratio = ratio
    OBVIOUS
  <2> HIDE DEF r
  <2>2. d = [a EXCEPT !.lots[f] = SplitLots(@, ratio)]
    BY <2>1 DEF Audited
  <2> HIDE DEF d
  <2>3. SplitLots(a.lots[f], ratio) = after
    BY DEF SplitLots
  <2> HIDE DEF after
  <2>4. d = [a EXCEPT !.lots[f] = after]
    BY <1>1, <2>2, <2>3 DEF AuditDoc
  <2>5. QED BY <1>1, <2>4 DEF AuditDoc
<1> HIDE DEF d, r
<1>3. now \in Nat /\ now > 0
  BY FundAmounts, <1>1, SplitWhole
<1>4. PICK p \in Int : lots = <<[units |-> held, cost |-> p]>>
  BY <1>1 DEF OneLot
<1>5. after = <<[units |-> now, cost |-> p]>>
  <2> DEFINE one == [units |-> held, cost |-> p]
  <2>1. [one EXCEPT !.units = (@ * ratio[1]) \div ratio[2]] = [units |-> now, cost |-> p]
    OBVIOUS
  <2>2. DOMAIN lots = {1} /\ lots[1] = one
    BY <1>4
  <2>3. after = [i \in {1} |-> [one EXCEPT !.units = (@ * ratio[1]) \div ratio[2]]]
    <3> HIDE DEF one
    <3>1. \A i \in {1} : lots[i] = one
      BY <2>2
    <3>2. QED BY <2>2, <3>1
  <2> HIDE DEF after, one, now
  <2>4. QED BY <2>1, <2>3
<1> HIDE DEF after, now
<1>6. after \in Seq(Lot) /\ LotCosts(after) = p /\ LotCosts(lots) = p /\ OneLot(after, now)
  <2> DEFINE new == <<[units |-> now, cost |-> p]>>
             old == <<[units |-> held, cost |-> p]>>
  <2>a. now \in Int /\ held \in Int
    BY <1>1, <1>3
  <2>b. new \in Seq(Lot) /\ LotCosts(new) = p /\ LotCosts(old) = p
    <3> HIDE DEF held
    <3>1. QED BY <2>a, LotSums
  <2> HIDE DEF new, old
  <2>1. after \in Seq(Lot) /\ LotCosts(after) = p
    BY <1>5, <2>b DEF new
  <2>2. LotCosts(lots) = p
    BY <1>4, <2>b DEF old
  <2>3. OneLot(after, now)
    BY <1>3, <1>5 DEF OneLot
  <2>4. QED BY <2>1, <2>2, <2>3
<1> HIDE DEF lots
<1>7. own[f] = after /\ (\A g \in EquityFunds \ {f} : own[g] = a.lots[g]) /\ own \in [EquityFunds -> Seq(Lot)]
  BY <1>1, <1>6
<1> HIDE DEF own
<1>8. /\ d \in AuditDoc /\ d.cash = a.cash /\ d.lots = own /\ d.receivables = a.receivables /\ d.realized = a.realized
      /\ d.income = a.income
  BY <1>1, <1>2, <1>7 DEF AuditDoc
<1>9. OpenCosts(d) = OpenCosts(a)
  <2>1. LotCosts(d.lots[f]) = p /\ LotCosts(a.lots[f]) = p
    BY <1>6, <1>7, <1>8 DEF lots
  <2>2. LotCosts(d.lots[f]) \in Int
    BY <2>1
  <2>3. OpenCosts(d) = OpenCosts(a) + (LotCosts(d.lots[f]) - LotCosts(a.lots[f])) /\ OpenCosts(a) \in Int
    <3>1. a \in AuditDoc /\ b \in ResearchDoc /\ Tallied(a, b)
      BY <1>1
    <3>2. d \in AuditDoc /\ f \in EquityFunds /\ \A g \in EquityFunds \ {f} : d.lots[g] = a.lots[g]
      BY <1>7, <1>8
    <3> HIDE DEF d
    <3>3. QED BY <3>1, <3>2, <2>2, CostsMove
  <2>4. QED BY <2>1, <2>3
<1>10. ReceivableValue(c) = ReceivableValue(b)
  BY DEF ReceivableValue
<1>11. \A g \in EquityFunds : OneLot(d.lots[g], c.positions[g])
  BY <1>6, <1>7, <1>8 DEF now, Tallied
<1>12. Tallied(d, c)
  BY <1>1, <1>8, <1>9, <1>10, <1>11 DEF Tallied
<1>13. QED BY <1>12 DEF d, r

-----------------------------------------------------------------------------
(* The days of the book: losses, attempts and sales as in the journal.     *)

BookOrdered(J) ==
  \A i, j \in DOMAIN J :
    J[i].kind = "buy" /\ SessionOf(J[i].at) = SessionOf(J[j].at) /\ i # j =>
      /\ J[j].kind = "loss" => i < j
      /\ J[j].kind \in {"buy", "sell"} /\ J[j].fund = J[i].fund => i < j /\ J[j].kind = "sell"
BookDays(b, J, s) ==
  /\ \A i \in DOMAIN J : /\ J[i].kind = "loss" => SessionOf(J[i].at) <= b.day /\ (SessionOf(J[i].at) = b.day => b.halted)
                         /\ J[i].kind = "buy" => SessionOf(J[i].at) <= b.attempted[J[i].fund]
                         /\ J[i].kind = "sell" => SessionOf(J[i].at) <= b.closed[J[i].fund]
  /\ \A f \in EquityFunds : b.attempted[f] <= s /\ b.closed[f] <= s
  /\ BookOrdered(J)
Booked(b, J) == J \in Seq(FundRow) /\ b.cash >= 0 /\ Tallied(AuditOf(J), b)

ResearchInv ==
  /\ research \in ResearchDoc /\ operations \in 0..MaxOperations
  /\ {research.appliedAt, research.portfolioAt, research.eventAt} \subseteq Times \cup {NoTime}
  /\ research.pendingExits \subseteq Owned(research)
  /\ Booked(research, fillJournal) /\ BookDays(research, fillJournal, SessionOf(research.appliedAt))

LEMMA SessionsInOrder ==
  ASSUME NEW s \in Int, NEW t \in Int, s <= t
  PROVE  SessionOf(s) \in Int /\ SessionOf(t) \in Int /\ SessionOf(s) <= SessionOf(t)
<1> DEFINE d == SlotsPerDay
           p == s \div d
           q == t \div d
           m == s % d
           n == t % d
<1>1. d \in Nat /\ d > 0
  BY FundAmounts
<1>2. p \in Int /\ q \in Int /\ m \in 0..(d - 1) /\ n \in 0..(d - 1) /\ s = d * p + m /\ t = d * q + n
  BY <1>1
<1> HIDE DEF p, q, m, n, d
<1>3. ASSUME p > q PROVE FALSE
  <2> DEFINE z == p - (q + 1)
             x == d * z
             y == d * q
  <2>1. z \in Nat
    BY <1>2, <1>3
  <2>2. p = q + 1 + z /\ x \in Nat /\ y \in Int
    BY <1>1, <1>2, <2>1
  <2>3. d * p = y + d + x
    BY <1>1, <1>2, <2>1, <2>2
  <2> DEFINE w == d * p
  <2>4. s = w + m /\ t = y + n /\ w = y + d + x
    BY <1>2, <2>3
  <2> HIDE DEF x, y, z, w
  <2>5. QED BY <1>1, <1>2, <2>2, <2>4
<1>4. p <= q
  BY <1>2, <1>3
<1>5. QED BY <1>2, <1>4 DEF SessionOf, p, q, d

LEMMA SessionIsInt == \A t \in Int : SessionOf(t) \in Int
BY SessionsInOrder

\* Rows that are no trades, and a later day.
LEMMA BookDaysLater ==
  ASSUME NEW b \in ResearchDoc, NEW J, NEW s \in Int, BookDays(b, J, s), NEW u \in Int, s <= u,
         NEW c, c.day = b.day, b.halted => c.halted, c.attempted = b.attempted, c.closed = b.closed
  PROVE  BookDays(c, J, u)
<1>1. ASSUME NEW f \in EquityFunds PROVE b.attempted[f] <= u /\ b.closed[f] <= u
  BY DocFields DEF BookDays
<1>2. QED BY <1>1 DEF BookDays

LEMMA BookDaysQuiet ==
  ASSUME NEW b, NEW J \in Seq(FundRow), NEW s \in Int, BookDays(b, J, s), NEW r \in FundRow, r.kind \notin {"buy", "sell"},
         r.kind = "loss" => SessionOf(r.at) = b.day /\ b.halted, b.day \in Int
  PROVE  BookDays(b, Append(J, r), s)
<1> DEFINE K == Append(J, r)
<1>1. PICK n : OneMore(K, J, r, n)
  BY AppendOne
<1> HIDE DEF K
<1>2. ASSUME NEW i \in DOMAIN K
      PROVE  /\ K[i].kind = "loss" => SessionOf(K[i].at) <= b.day /\ (SessionOf(K[i].at) = b.day => b.halted)
             /\ K[i].kind = "buy" => SessionOf(K[i].at) <= b.attempted[K[i].fund]
             /\ K[i].kind = "sell" => SessionOf(K[i].at) <= b.closed[K[i].fund]
  <2>1. CASE i = n
    BY <1>1, <2>1 DEF OneMore
  <2>2. CASE i \in DOMAIN J
    BY <1>1, <2>2 DEF OneMore, BookDays
  <2>3. QED BY <1>1, <2>1, <2>2 DEF OneMore
<1>3. BookOrdered(K)
  <2> SUFFICES ASSUME NEW i \in DOMAIN K, NEW j \in DOMAIN K, K[i].kind = "buy", SessionOf(K[i].at) = SessionOf(K[j].at), i # j
               PROVE  /\ K[j].kind = "loss" => i < j
                      /\ K[j].kind \in {"buy", "sell"} /\ K[j].fund = K[i].fund => i < j /\ K[j].kind = "sell"
    BY DEF BookOrdered
  <2>1. i \in DOMAIN J /\ K[i] = J[i] /\ i < n
    BY <1>1 DEF OneMore
  <2>2. CASE j \in DOMAIN J
    BY <1>1, <2>1, <2>2 DEF OneMore, BookDays, BookOrdered
  <2>3. CASE j = n
    BY <1>1, <2>1, <2>3 DEF OneMore
  <2>4. QED BY <1>1, <2>2, <2>3 DEF OneMore
<1>4. BookDays(b, K, s)
  BY <1>2, <1>3 DEF BookDays
<1>5. QED BY <1>4 DEF K

\* A sale ends the buys of its fund for the session.
LEMMA BookDaysSold ==
  ASSUME NEW b, NEW J \in Seq(FundRow), NEW t \in Int, BookDays(b, J, SessionOf(t)), NEW r \in FundSale, r.at = t, NEW c,
         c.day = b.day, c.halted = b.halted, c.attempted = b.attempted, c.closed[r.fund] = SessionOf(t),
         \A f \in EquityFunds \ {r.fund} : c.closed[f] = b.closed[f], \A f \in EquityFunds : b.closed[f] \in Int
  PROVE  BookDays(c, Append(J, r), SessionOf(t))
<1> DEFINE K == Append(J, r)
           s == SessionOf(t)
<1>1. r \in FundRow /\ r.kind = "sell" /\ r.fund \in EquityFunds /\ s \in Int /\ SessionOf(r.at) = s
  BY SessionIsInt DEF FundRow, FundSale
<1>2. PICK n : OneMore(K, J, r, n)
  BY <1>1, AppendOne
<1> HIDE DEF K, s
<1>3. ASSUME NEW i \in DOMAIN J PROVE J[i].kind = "sell" => J[i].fund \in EquityFunds /\ SessionOf(J[i].at) \in Int
  <2>1. J[i] \in FundRow
    BY LenProperties, ElementOfSeq
  <2>2. J[i].kind = "sell" => J[i] \in FundSale
    BY <2>1, FundRows
  <2>3. QED BY <2>2, SessionIsInt DEF FundSale
<1>4. ASSUME NEW f \in EquityFunds PROVE b.closed[f] <= c.closed[f] /\ c.closed[f] <= s /\ c.closed[f] \in Int
  BY <1>1 DEF BookDays, s
<1>5. ASSUME NEW i \in DOMAIN K
      PROVE  /\ K[i].kind = "loss" => SessionOf(K[i].at) <= c.day /\ (SessionOf(K[i].at) = c.day => c.halted)
             /\ K[i].kind = "buy" => SessionOf(K[i].at) <= c.attempted[K[i].fund]
             /\ K[i].kind = "sell" => SessionOf(K[i].at) <= c.closed[K[i].fund]
  <2>1. CASE i = n
    BY <1>2, <2>1, <1>1 DEF OneMore, s
  <2>2. CASE i \in DOMAIN J
    <3>1. K[i] = J[i]
      BY <1>2, <2>2 DEF OneMore
    <3>2. K[i].kind = "sell" => SessionOf(K[i].at) <= c.closed[K[i].fund]
      <4> SUFFICES ASSUME K[i].kind = "sell" PROVE SessionOf(K[i].at) <= c.closed[K[i].fund]
        OBVIOUS
      <4> DEFINE f == K[i].fund
                 e == SessionOf(K[i].at)
      <4>1. f \in EquityFunds /\ e <= b.closed[f] /\ e \in Int
        BY <1>3, <2>2, <3>1 DEF BookDays
      <4>2. b.closed[f] <= c.closed[f] /\ b.closed[f] \in Int /\ c.closed[f] \in Int
        BY <1>4, <4>1
      <4> HIDE DEF f, e
      <4>3. e <= c.closed[f]
        BY <4>1, <4>2
      <4>4. QED BY <4>3 DEF f, e
    <3>3. QED BY <2>2, <3>1, <3>2 DEF BookDays
  <2>3. QED BY <1>2, <2>1, <2>2 DEF OneMore
<1>6. BookOrdered(K)
  BY <1>1, <1>2 DEF BookDays, BookOrdered, OneMore
<1>7. BookDays(c, K, s)
  BY <1>4, <1>5, <1>6 DEF BookDays, s
<1>8. QED BY <1>7 DEF K, s

\* An entry is tried once a session.
LEMMA BookDaysTried ==
  ASSUME NEW b, NEW J \in Seq(FundRow), NEW t \in Int, BookDays(b, J, SessionOf(t)), NEW u \in EquityFunds, NEW c,
         c.day = b.day, c.halted = b.halted, c.closed = b.closed, c.attempted[u] = SessionOf(t),
         \A x \in EquityFunds \ {u} : c.attempted[x] = b.attempted[x], \A x \in EquityFunds : b.attempted[x] \in Int
  PROVE  BookDays(c, J, SessionOf(t))
<1>1. SessionOf(t) \in Int
  BY SessionIsInt
<1>2. ASSUME NEW x \in EquityFunds PROVE b.attempted[x] <= c.attempted[x] /\ c.attempted[x] <= SessionOf(t) /\ c.attempted[x] \in Int
  BY <1>1 DEF BookDays
<1>3. ASSUME NEW i \in DOMAIN J, J[i].kind = "buy" PROVE SessionOf(J[i].at) <= c.attempted[J[i].fund]
  <2> DEFINE x == J[i].fund
             d == SessionOf(J[i].at)
  <2>1. J[i] \in FundRow
    BY LenProperties, ElementOfSeq
  <2>2. J[i] \in FundBuy
    BY <1>3, <2>1, FundRows
  <2>3. x \in EquityFunds /\ d \in Int /\ d <= b.attempted[x]
    BY <1>3, <2>2, SessionIsInt DEF FundBuy, BookDays
  <2>4. b.attempted[x] <= c.attempted[x] /\ b.attempted[x] \in Int /\ c.attempted[x] \in Int
    BY <1>2, <2>3
  <2> HIDE DEF x, d
  <2>5. d <= c.attempted[x]
    BY <2>3, <2>4
  <2>6. QED BY <2>5 DEF x, d
<1>4. QED BY <1>2, <1>3 DEF BookDays

LEMMA BookDaysBought ==
  ASSUME NEW b, NEW J \in Seq(FundRow), NEW t \in Int, BookDays(b, J, SessionOf(t)), NEW r \in FundBuy, r.at = t,
         b.attempted[r.fund] = SessionOf(t), SessionOf(t) = b.day, ~b.halted,
         \A j \in DOMAIN J : SessionOf(J[j].at) = SessionOf(t) /\ J[j].kind \in {"buy", "sell"} => J[j].fund # r.fund
  PROVE  BookDays(b, Append(J, r), SessionOf(t))
<1> DEFINE K == Append(J, r)
           now == SessionOf(t)
<1>1. r \in FundRow /\ r.kind = "buy" /\ r.fund \in EquityFunds /\ now \in Int
  BY SessionIsInt DEF FundRow, FundBuy
<1>2. PICK n : OneMore(K, J, r, n)
  BY <1>1, AppendOne
<1> HIDE DEF K
<1>4. ASSUME NEW i \in DOMAIN K
      PROVE  /\ K[i].kind = "loss" => SessionOf(K[i].at) <= b.day /\ (SessionOf(K[i].at) = b.day => b.halted)
             /\ K[i].kind = "buy" => SessionOf(K[i].at) <= b.attempted[K[i].fund]
             /\ K[i].kind = "sell" => SessionOf(K[i].at) <= b.closed[K[i].fund]
  <2>1. CASE i = n
    BY <1>1, <1>2, <2>1 DEF OneMore
  <2>2. CASE i \in DOMAIN J
    BY <1>2, <2>2 DEF OneMore, BookDays
  <2>3. QED BY <1>2, <2>1, <2>2 DEF OneMore
<1>5. ASSUME NEW j \in DOMAIN J, SessionOf(J[j].at) = now
      PROVE  J[j].kind # "loss" /\ (J[j].kind \in {"buy", "sell"} => J[j].fund # r.fund)
  BY <1>5 DEF BookDays
<1>6. BookOrdered(K)
  <2> SUFFICES ASSUME NEW i \in DOMAIN K, NEW j \in DOMAIN K, K[i].kind = "buy", SessionOf(K[i].at) = SessionOf(K[j].at), i # j
               PROVE  /\ K[j].kind = "loss" => i < j
                      /\ K[j].kind \in {"buy", "sell"} /\ K[j].fund = K[i].fund => i < j /\ K[j].kind = "sell"
    BY DEF BookOrdered
  <2>1. CASE i \in DOMAIN J /\ j \in DOMAIN J
    BY <1>2, <2>1 DEF OneMore, BookDays, BookOrdered
  <2>2. CASE i = n /\ j \in DOMAIN J
    BY <1>2, <2>2, <1>5 DEF OneMore
  <2>3. CASE i \in DOMAIN J /\ j = n
    BY <1>2, <2>3, <1>5, <1>1 DEF OneMore
  <2>4. QED BY <1>2, <2>1, <2>2, <2>3 DEF OneMore
<1>7. BookDays(b, K, now)
  BY <1>4, <1>6 DEF BookDays
<1>8. QED BY <1>7 DEF K

\* Nothing of a fund was booked in a session that it has not used.
LEMMA SessionUnused ==
  ASSUME NEW b \in ResearchDoc, NEW J \in Seq(FundRow), NEW t \in Int, BookDays(b, J, SessionOf(t)), NEW f \in EquityFunds,
         ~SessionUsed(b, f, t), NEW j \in DOMAIN J, SessionOf(J[j].at) = SessionOf(t), J[j].kind \in {"buy", "sell"}
  PROVE  J[j].fund # f
<1> SUFFICES ASSUME J[j].fund = f PROVE FALSE
  OBVIOUS
<1> DEFINE s == SessionOf(t)
           x == b.attempted[f]
           y == b.closed[f]
<1>1. s \in Int /\ x \in Int /\ y \in Int /\ x <= s /\ y <= s /\ x # s /\ y # s
  BY DocFields, SessionIsInt DEF BookDays, SessionUsed
<1>2. s <= x \/ s <= y
  BY DEF BookDays
<1> HIDE DEF s, x, y
<1>3. QED BY <1>1, <1>2

-----------------------------------------------------------------------------
(* What apply_batch has done so far: its book, the journal with its rows.  *)

\* c is b with the halt that the prices call for.
Snapped(c, b, prices, t) ==
  /\ c \in ResearchDoc /\ c.cash = b.cash /\ c.positions = b.positions /\ c.pendingExits = b.pendingExits /\ c.day = b.day
  /\ c.baseline = b.baseline /\ c.batch = b.batch /\ c.attempted = b.attempted /\ c.closed = b.closed /\ c.appliedAt = b.appliedAt
  /\ c.portfolioAt = b.portfolioAt /\ c.eventAt = b.eventAt /\ c.receivables = b.receivables
  /\ c.halted <=> b.halted \/ LossSeen(b, prices, t)
  /\ ~LossSeen(b, prices, t) => c = b
  /\ LossSeen(b, prices, t) => SessionOf(t) = b.day

LEMMA SnapshotHalts ==
  ASSUME NEW b \in ResearchDoc, NEW prices, NEW t
  PROVE  Snapped(Snapshot(b, prices, t), b, prices, t)
<1> DEFINE lost == LossSeen(b, prices, t)
           c == Snapshot(b, prices, t)
           stop == b.halted \/ lost
<1>1. b.halted \in BOOLEAN /\ stop \in BOOLEAN /\ lost \in BOOLEAN
  BY DocFields DEF LossSeen
<1>2. c = [b EXCEPT !.halted = stop]
  BY DEF Snapshot
<1>3. lost => SessionOf(t) = b.day
  BY DEF LossSeen, Valued
<1> HIDE DEF c, lost
<1>4. ~lost => c = b
  <2> SUFFICES ASSUME ~lost PROVE c = b
    OBVIOUS
  <2>1. stop = b.halted
    BY <1>1
  <2> HIDE DEF stop
  <2>2. c = [b EXCEPT !.halted = b.halted]
    BY <1>2, <2>1
  <2>3. QED BY <2>2 DEF ResearchDoc
<1>5. /\ c \in ResearchDoc /\ c.cash = b.cash /\ c.positions = b.positions /\ c.pendingExits = b.pendingExits /\ c.day = b.day
      /\ c.baseline = b.baseline /\ c.batch = b.batch /\ c.attempted = b.attempted /\ c.closed = b.closed
      /\ c.appliedAt = b.appliedAt /\ c.portfolioAt = b.portfolioAt /\ c.eventAt = b.eventAt /\ c.receivables = b.receivables
      /\ (c.halted <=> stop)
  <2> HIDE DEF stop
  <2>1. QED BY <1>1, <1>2 DEF ResearchDoc
<1>6. Snapped(c, b, prices, t)
  BY <1>3, <1>4, <1>5 DEF Snapped, lost, stop
<1>7. QED BY <1>6 DEF c

LEMMA BookedQuiet ==
  ASSUME NEW b \in ResearchDoc, NEW J, Booked(b, J),
         NEW c, c.cash = b.cash, c.positions = b.positions, c.receivables = b.receivables
  PROVE  Booked(c, J)
BY TallyQuiet DEF Booked

LEMMA LossNoted ==
  ASSUME NEW b \in ResearchDoc, NEW J, NEW s \in Int, NEW t \in Int, NEW prices, Booked(b, J), BookDays(b, J, s)
  PROVE  /\ LossRow(b, prices, t) \in Seq(FundRow)
         /\ Booked(Snapshot(b, prices, t), J \o LossRow(b, prices, t))
         /\ BookDays(Snapshot(b, prices, t), J \o LossRow(b, prices, t), s)
<1> DEFINE c == Snapshot(b, prices, t)
           L == LossRow(b, prices, t)
           r == [kind |-> "loss", at |-> t]
<1>1. Snapped(c, b, prices, t)
  BY SnapshotHalts
<1>2. L = IF LossSeen(b, prices, t) THEN <<r>> ELSE <<>>
  BY DEF LossRow
<1>3. r \in FundRow /\ r.kind = "loss" /\ r.at = t
  BY DEF FundRow, LossMade
<1>4. J \in Seq(FundRow) /\ b.day \in Int
  BY DocFields DEF Booked
<1> HIDE DEF c, L, r
<1>5. CASE LossSeen(b, prices, t)
  <2>1. L = <<r>> /\ L \in Seq(FundRow) /\ J \o L = Append(J, r)
    BY <1>2, <1>3, <1>4, <1>5, AppendIsConcat
  <2>2. Booked(c, Append(J, r))
    BY <1>3, <1>4, AuditAppends, <1>1, TallyQuiet, AppendProperties DEF Booked, Snapped, r
  <2>3. BookDays(c, J, s)
    BY <1>1, BookDaysLater DEF Snapped
  <2>4. BookDays(c, Append(J, r), s)
    BY <1>1, <1>3, <1>4, <1>5, <2>3, BookDaysQuiet DEF Snapped
  <2>5. QED BY <2>1, <2>2, <2>4 DEF c, L
<1>6. CASE ~LossSeen(b, prices, t)
  BY <1>2, <1>4, <1>6, ConcatEmptySeq, <1>1 DEF Snapped, c, L
<1>7. QED BY <1>5, <1>6

Filed(acc) == fillJournal \o acc.rows
FundBooking == [book : ResearchDoc, rows : Seq(FundRow)]
FundBooks(t) ==
  {acc \in FundBooking : /\ acc.book.batch = research.batch /\ acc.book.eventAt = research.eventAt
                         /\ acc.book.pendingExits \subseteq Owned(acc.book)
                         /\ Booked(acc.book, Filed(acc)) /\ BookDays(acc.book, Filed(acc), SessionOf(t))
                         /\ \A f \in EquityFunds : research.batch.actions[f] = "enter" =>
                              acc.book.positions[f] = 0 \/ acc.book.attempted[f] = SessionOf(t)}

LEMMA FundBookOf ==
  ASSUME ResearchInv, NEW t, NEW acc \in FundBooks(t)
  PROVE  /\ acc.book \in ResearchDoc /\ acc.rows \in Seq(FundRow) /\ acc.book.batch = research.batch
         /\ acc.book.eventAt = research.eventAt /\ acc.book.pendingExits \subseteq Owned(acc.book)
         /\ Booked(acc.book, Filed(acc)) /\ BookDays(acc.book, Filed(acc), SessionOf(t))
         /\ (\A f \in EquityFunds : research.batch.actions[f] = "enter" => acc.book.positions[f] = 0 \/ acc.book.attempted[f] = SessionOf(t))
         /\ fillJournal \in Seq(FundRow) /\ Filed(acc) \in Seq(FundRow)
         /\ acc = [book |-> acc.book, rows |-> acc.rows]
BY DEF FundBooks, ResearchInv, FundBooking, Booked

Looked(acc, prices, t) == [book |-> Snapshot(acc.book, prices, t), rows |-> acc.rows \o LossRow(acc.book, prices, t)]

LEMMA LookStep ==
  ASSUME ResearchInv, NEW t \in Int, NEW prices, NEW acc \in FundBooks(t)
  PROVE  Looked(acc, prices, t) \in FundBooks(t)
<1> DEFINE b == acc.book
           c == Snapshot(b, prices, t)
           L == LossRow(b, prices, t)
           d == [book |-> c, rows |-> acc.rows \o L]
<1>1. /\ b \in ResearchDoc /\ acc.rows \in Seq(FundRow) /\ b.batch = research.batch
      /\ b.eventAt = research.eventAt /\ b.pendingExits \subseteq Owned(b)
      /\ Booked(b, Filed(acc)) /\ BookDays(b, Filed(acc), SessionOf(t))
      /\ (\A f \in EquityFunds : research.batch.actions[f] = "enter" => b.positions[f] = 0 \/ b.attempted[f] = SessionOf(t))
      /\ fillJournal \in Seq(FundRow) /\ Filed(acc) \in Seq(FundRow)
  BY FundBookOf
<1>2. Snapped(c, b, prices, t)
  BY <1>1, SnapshotHalts
<1>3. L \in Seq(FundRow) /\ Booked(c, Filed(acc) \o L) /\ BookDays(c, Filed(acc) \o L, SessionOf(t))
  BY <1>1, SessionIsInt, LossNoted
<1> HIDE DEF c, L
<1>4. acc.rows \o L \in Seq(FundRow) /\ Filed(d) = Filed(acc) \o L
  <2>1. (fillJournal \o acc.rows) \o L = fillJournal \o (acc.rows \o L)
    <3>1. \A R \in Seq(FundRow) : (fillJournal \o R) \o L = fillJournal \o (R \o L)
      BY <1>1, <1>3, ConcatAssociative
    <3>2. QED BY <1>1, <3>1
  <2>2. QED BY <1>1, <1>3, <2>1, ConcatProperties DEF Filed
<1>5. d \in FundBooking /\ d.book = c
  BY <1>2, <1>4 DEF Snapped, FundBooking
<1> HIDE DEF d, b
<1>6. /\ c.batch = research.batch /\ c.eventAt = research.eventAt /\ c.pendingExits \subseteq Owned(c)
      /\ \A f \in EquityFunds : research.batch.actions[f] = "enter" => c.positions[f] = 0 \/ c.attempted[f] = SessionOf(t)
  BY <1>2, <1>1 DEF Snapped, Owned
<1>7. d \in FundBooks(t)
  BY <1>3, <1>4, <1>5, <1>6 DEF FundBooks
<1>8. QED BY <1>7 DEF d, Looked, c, L, b

FiledOneMore(d, acc, c, r) == d \in FundBooking /\ d.book = c /\ Filed(d) = Append(Filed(acc), r)

LEMMA FiledGrows ==
  ASSUME ResearchInv, NEW t, NEW acc \in FundBooks(t), NEW r \in FundRow, NEW c \in ResearchDoc
  PROVE  FiledOneMore([book |-> c, rows |-> acc.rows \o <<r>>], acc, c, r)
BY FundBookOf, AppendIsConcat, AppendProperties, JournalGrows DEF FiledOneMore, FundBooking, Filed

SoldOut(b, f, cost, t) ==
  [b EXCEPT !.cash = @ + cost - FixedFee, !.positions[f] = 0, !.pendingExits = @ \ {f}, !.closed[f] = SessionOf(t)]
SaleOf(b, f, cost, t) == [kind |-> "sell", fund |-> f, units |-> b.positions[f], cost |-> cost, at |-> t]
SaleFiled(acc, f, cost, t) == [book |-> SoldOut(acc.book, f, cost, t), rows |-> acc.rows \o <<SaleOf(acc.book, f, cost, t)>>]

LEMMA SoldOutFields ==
  ASSUME NEW b \in ResearchDoc, NEW f \in EquityFunds, NEW cost \in Int, NEW t \in Int
  PROVE  LET c == SoldOut(b, f, cost, t)
         IN  /\ c \in ResearchDoc /\ c.cash = b.cash + cost - FixedFee /\ c.pendingExits = b.pendingExits \ {f} /\ c.day = b.day
             /\ c.halted = b.halted /\ c.batch = b.batch /\ c.attempted = b.attempted /\ c.eventAt = b.eventAt
             /\ c.receivables = b.receivables /\ c.positions[f] = 0 /\ c.closed[f] = SessionOf(t)
             /\ \A g \in EquityFunds \ {f} : c.positions[g] = b.positions[g] /\ c.closed[g] = b.closed[g]
<1> DEFINE left == b.cash + cost - FixedFee
           own == [b.positions EXCEPT ![f] = 0]
           exits == b.pendingExits \ {f}
           shut == [b.closed EXCEPT ![f] = SessionOf(t)]
           c == SoldOut(b, f, cost, t)
<1>1. left \in Int /\ own \in [EquityFunds -> Nat] /\ exits \in SUBSET EquityFunds /\ shut \in [EquityFunds -> Int]
  <2>1. /\ b.cash \in Int /\ b.positions \in [EquityFunds -> Nat] /\ b.pendingExits \subseteq EquityFunds
        /\ b.closed \in [EquityFunds -> Int]
    BY DocFields
  <2>2. FixedFee \in Nat /\ SessionOf(t) \in Int
    BY FundAmounts, SessionIsInt
  <2>3. QED BY <2>1, <2>2
<1>2. /\ own[f] = 0 /\ shut[f] = SessionOf(t)
      /\ \A g \in EquityFunds \ {f} : own[g] = b.positions[g] /\ shut[g] = b.closed[g]
  BY DocFields
<1>3. c = [b EXCEPT !.cash = left, !.positions = own, !.pendingExits = exits, !.closed = shut]
  BY DEF SoldOut, ResearchDoc
<1>4. left = b.cash + cost - FixedFee /\ exits = b.pendingExits \ {f}
  OBVIOUS
<1> HIDE DEF left, own, exits, shut, c
<1>5. /\ c \in ResearchDoc /\ c.cash = left /\ c.positions = own /\ c.pendingExits = exits /\ c.day = b.day
      /\ c.halted = b.halted /\ c.batch = b.batch /\ c.attempted = b.attempted /\ c.eventAt = b.eventAt
      /\ c.receivables = b.receivables /\ c.closed = shut
  BY <1>1, <1>3 DEF ResearchDoc
<1>6. QED BY <1>2, <1>4, <1>5 DEF c

LEMMA SaleKept ==
  ASSUME ResearchInv, NEW t \in Int, NEW acc \in FundBooks(t), NEW f \in EquityFunds, NEW cost \in Nat, cost >= FixedFee
  PROVE  SaleFiled(acc, f, cost, t) \in FundBooks(t)
<1> DEFINE b == acc.book
           c == SoldOut(b, f, cost, t)
           r == SaleOf(b, f, cost, t)
           d == SaleFiled(acc, f, cost, t)
           J == Filed(acc)
<1>1. /\ b \in ResearchDoc /\ acc.rows \in Seq(FundRow) /\ b.batch = research.batch
      /\ b.eventAt = research.eventAt /\ b.pendingExits \subseteq Owned(b)
      /\ Booked(b, J) /\ BookDays(b, J, SessionOf(t))
      /\ (\A g \in EquityFunds : research.batch.actions[g] = "enter" => b.positions[g] = 0 \/ b.attempted[g] = SessionOf(t))
      /\ J \in Seq(FundRow)
  BY FundBookOf
<1>2. /\ c \in ResearchDoc /\ c.cash = b.cash + cost - FixedFee /\ c.pendingExits = b.pendingExits \ {f} /\ c.day = b.day
      /\ c.halted = b.halted /\ c.batch = b.batch /\ c.attempted = b.attempted /\ c.eventAt = b.eventAt
      /\ c.receivables = b.receivables /\ c.positions[f] = 0 /\ c.closed[f] = SessionOf(t)
      /\ \A g \in EquityFunds \ {f} : c.positions[g] = b.positions[g] /\ c.closed[g] = b.closed[g]
  BY <1>1, SoldOutFields
<1>3. r \in FundSale /\ r \in FundRow /\ r.at = t /\ r.fund = f
  BY <1>1, DocFields DEF SaleOf, FundSale, FundRow
<1> HIDE DEF c
<1>4. d \in FundBooking /\ d.book = c /\ Filed(d) = Append(J, r)
  <2>1. FiledOneMore([book |-> c, rows |-> acc.rows \o <<r>>], acc, c, r)
    <3> HIDE DEF r
    <3>1. QED BY <1>2, <1>3, FiledGrows
  <2>2. d = [book |-> c, rows |-> acc.rows \o <<r>>]
    BY DEF SaleFiled, c
  <2> HIDE DEF d, r
  <2>3. QED BY <2>1, <2>2 DEF FiledOneMore
<1>5. Booked(c, Append(J, r))
  <2>1. Tallied(AuditOf(J), b) /\ b.cash >= 0
    BY <1>1 DEF Booked
  <2>2. Tallied(Audited(AuditOf(J), r), c)
    <3> HIDE DEF b
    <3>1. Tallied(Audited(AuditOf(J), [kind |-> "sell", fund |-> f, units |-> b.positions[f], cost |-> cost, at |-> t]), c)
      BY <1>1, <1>2, <2>1, TallySold
    <3>2. QED BY <3>1 DEF SaleOf
  <2> HIDE DEF r, b, d, J
  <2>3. AuditOf(Append(J, r)) = Audited(AuditOf(J), r) /\ Append(J, r) \in Seq(FundRow)
    BY <1>1, <1>3, AuditAppends, AppendProperties
  <2>4. c.cash >= 0
    BY <1>1, <1>2, <2>1, DocFields, FundAmounts
  <2>5. QED BY <2>2, <2>3, <2>4 DEF Booked
<1> HIDE DEF r, d, b, J
<1>6. BookDays(c, Append(J, r), SessionOf(t))
  <2>1. \A g \in EquityFunds : b.closed[g] \in Int
    BY <1>1, DocFields
  <2>2. c.closed[r.fund] = SessionOf(t) /\ \A g \in EquityFunds \ {r.fund} : c.closed[g] = b.closed[g]
    BY <1>2, <1>3
  <2>3. QED BY <1>1, <1>2, <1>3, <2>1, <2>2, BookDaysSold
<1>7. c.pendingExits \subseteq Owned(c)
  <2>1. ASSUME NEW g \in c.pendingExits PROVE g \in Owned(c)
    BY <1>1, <1>2 DEF Owned
  <2>2. QED BY <2>1
<1>8. \A g \in EquityFunds : research.batch.actions[g] = "enter" => c.positions[g] = 0 \/ c.attempted[g] = SessionOf(t)
  BY <1>1, <1>2
<1>9. d \in FundBooks(t)
  BY <1>1, <1>2, <1>4, <1>5, <1>6, <1>7, <1>8 DEF FundBooks
<1>10. QED BY <1>9 DEF d

LEMMA FundExitStep ==
  ASSUME ResearchInv, NEW t \in Int, NEW opens \in Partial(EquityFunds), NEW prices, NEW acc \in FundBooks(t), NEW f \in EquityFunds
  PROVE  BookExit(acc, f, opens, prices, t) \in FundBooks(t)
<1> DEFINE b == acc.book
           held == b.positions[f]
           cost == held * (opens[f] - ShareFee)
           kept == \/ b.batch.actions[f] # "exit" \/ b.batch.at > b.batch.executesAt
                   \/ ~Executable(b, f, opens, t) \/ cost < FixedFee
           sold == SaleFiled(acc, f, cost, t)
           out == BookExit(acc, f, opens, prices, t)
<1>1. out = IF kept THEN acc ELSE Looked(sold, prices, t)
  BY DEF BookExit, SaleFiled, SoldOut, SaleOf, Looked
<1>2. ASSUME ~kept PROVE cost \in Nat /\ cost >= FixedFee
  <2>1. f \in DOMAIN opens
    BY <1>2 DEF Executable
  <2>2. opens[f] \in MarkPrices
    BY <2>1 DEF Partial
  <2>3. opens[f] - ShareFee \in Nat /\ FixedFee \in Nat
    BY <2>2, FundAmounts
  <2>4. held \in Nat
    BY FundBookOf, DocFields
  <2> DEFINE net == opens[f] - ShareFee
  <2>5. net \in Nat /\ cost = held * net
    BY <2>3
  <2> HIDE DEF net, held
  <2>6. held * net \in Nat
    BY <2>4, <2>5
  <2>7. cost \in Nat
    BY <2>5, <2>6
  <2>8. ~(cost < FixedFee)
    BY <1>2
  <2> HIDE DEF cost
  <2>9. QED BY <2>3, <2>7, <2>8
<1> HIDE DEF kept, cost
<1>3. ~kept => sold \in FundBooks(t)
  BY <1>2, SaleKept
<1> HIDE DEF sold, out
<1>4. ~kept => Looked(sold, prices, t) \in FundBooks(t)
  BY <1>3, LookStep
<1>5. out \in FundBooks(t)
  BY <1>1, <1>4
<1>6. QED BY <1>5 DEF out

-----------------------------------------------------------------------------
(* Entries of a batch: one attempt a session, and never more than the cash.*)

LEMMA GrossIsInt ==
  ASSUME NEW b \in ResearchDoc, NEW prices \in Partial(EquityFunds), Owned(b) \subseteq DOMAIN prices
  PROVE  BookGross(b, prices) \in Int /\ BookEquity(b, prices) \in Int
<1> DEFINE f == [x \in Owned(b) |-> b.positions[x] * prices[x]]
<1>1. /\ IsFiniteSet(Owned(b)) /\ b.cash \in Int
  BY DocFields, FundAmounts, FS_Subset DEF Owned
<1>2. ASSUME NEW x \in Owned(b) PROVE b.positions[x] * prices[x] \in Int
  <2>1. x \in EquityFunds /\ x \in DOMAIN prices
    BY DEF Owned
  <2>2. prices[x] \in MarkPrices
    BY <2>1 DEF Partial
  <2>3. prices[x] \in Int /\ b.positions[x] \in Int
    BY <2>1, <2>2, FundAmounts, DocFields
  <2> DEFINE n == prices[x]
             m == b.positions[x]
  <2>4. n \in Int /\ m \in Int
    BY <2>3
  <2> HIDE DEF n, m
  <2>5. m * n \in Int
    BY <2>4
  <2>6. QED BY <2>5 DEF m, n
<1>3. DOMAIN f = Owned(b) /\ \A x \in Owned(b) : f[x] \in Int
  BY <1>2
<1> HIDE DEF f
<1>4. SumFunction(f) \in Int
  BY <1>1, <1>3, SumsAreInt DEF Summable
<1>5. BookGross(b, prices) \in Int
  BY <1>4 DEF BookGross, f
<1>6. QED BY <1>1, <1>5, ValueInt DEF BookEquity

\* Whole units at a price leave the fixed fee, if there is one at all.
LEMMA UnitsAfford ==
  ASSUME NEW budget \in Int, NEW q \in Int, NEW price \in Nat \ {0}, NEW fee \in Nat,
         NEW units, units = Min({q, Max({0, budget - fee}) \div price}), ~(units <= 0)
  PROVE  units \in Nat \ {0} /\ units * price + fee <= budget
<1> DEFINE x == Max({0, budget - fee})
           n == x \div price
<1>1. x \in Nat /\ (x = 0 \/ x = budget - fee)
  BY MaxOfTwo
<1>2. n \in Int /\ n * price <= x /\ (x = 0 => n = 0)
  <2> HIDE DEF x
  <2>1. n \in Int /\ n * price <= x
    BY <1>1
  <2>2. ASSUME x = 0 PROVE n = 0
    BY <1>1, <2>2
  <2>3. QED BY <2>1, <2>2
<1> HIDE DEF x, n
<1>3. units = Min({q, n})
  BY DEF x, n
<1>4. units \in Int /\ units <= n
  BY <1>2, <1>3, MinOfTwo
<1>5. units > 0 /\ units \in Nat \ {0} /\ n - units \in Nat
  BY <1>2, <1>4
<1>6. units * price <= n * price
  <2> DEFINE k == n - units
             y == k * price
             z == units * price
  <2>1. k \in Nat /\ n = units + k
    BY <1>2, <1>4, <1>5
  <2>2. y \in Nat /\ z \in Int
    BY <1>5, <2>1
  <2>3. n * price = z + y
    BY <1>4, <2>1
  <2> HIDE DEF y, z
  <2>4. z <= n * price
    BY <2>2, <2>3
  <2>5. QED BY <2>4 DEF z
<1>7. x = budget - fee
  BY <1>1, <1>2, <1>4, <1>5
<1> DEFINE z == units * price
           w == n * price
<1>8. z \in Int /\ w \in Int /\ z <= w /\ w <= x
  BY <1>2, <1>4, <1>6
<1> HIDE DEF z, w
<1>9. z + fee <= budget
  BY <1>1, <1>7, <1>8
<1>10. QED BY <1>5, <1>9 DEF z

\* apply_batch at t, with what it is given.
CanBook(t, opens, prices) ==
  ResearchInv /\ t \in Int /\ research.batch \in OpenPlans /\ opens \in Partial(EquityFunds) /\ prices \in Partial(EquityFunds)

TriedAt(b, f, t) == [b EXCEPT !.attempted[f] = SessionOf(t)]
TriedBook(acc, f, t) == [book |-> TriedAt(acc.book, f, t), rows |-> acc.rows]

\* d is acc once an entry of f has been tried.
FundTried(d, acc, f, t) ==
  /\ d \in FundBooks(t) /\ d.book \in ResearchDoc /\ d.rows = acc.rows /\ Filed(d) = Filed(acc) /\ d.book.cash = acc.book.cash
  /\ d.book.positions = acc.book.positions /\ d.book.day = acc.book.day /\ d.book.halted = acc.book.halted
  /\ d.book.closed = acc.book.closed /\ d.book.batch = research.batch /\ d.book.attempted[f] = SessionOf(t)

LEMMA FundTriedStep ==
  ASSUME ResearchInv, NEW t \in Int, NEW acc \in FundBooks(t), NEW f \in EquityFunds
  PROVE  FundTried(TriedBook(acc, f, t), acc, f, t)
<1> DEFINE b == acc.book
           tries == [b.attempted EXCEPT ![f] = SessionOf(t)]
           c == TriedAt(b, f, t)
           d == TriedBook(acc, f, t)
<1>1. /\ b \in ResearchDoc /\ acc.rows \in Seq(FundRow) /\ b.batch = research.batch
      /\ b.eventAt = research.eventAt /\ b.pendingExits \subseteq Owned(b)
      /\ Booked(b, Filed(acc)) /\ BookDays(b, Filed(acc), SessionOf(t))
      /\ (\A g \in EquityFunds : research.batch.actions[g] = "enter" => b.positions[g] = 0 \/ b.attempted[g] = SessionOf(t))
      /\ Filed(acc) \in Seq(FundRow) /\ b.attempted \in [EquityFunds -> Int] /\ SessionOf(t) \in Int
  BY FundBookOf, DocFields, SessionIsInt
<1>2. /\ tries \in [EquityFunds -> Int] /\ tries[f] = SessionOf(t)
      /\ \A x \in EquityFunds \ {f} : tries[x] = b.attempted[x]
  BY <1>1
<1>3. c = [b EXCEPT !.attempted = tries]
  BY <1>1 DEF ResearchDoc, TriedAt
<1> HIDE DEF tries, c
<1>4. /\ c \in ResearchDoc /\ c.cash = b.cash /\ c.positions = b.positions /\ c.day = b.day /\ c.halted = b.halted
      /\ c.closed = b.closed /\ c.batch = b.batch /\ c.attempted = tries /\ c.eventAt = b.eventAt
      /\ c.receivables = b.receivables /\ c.pendingExits = b.pendingExits
  BY <1>1, <1>2, <1>3 DEF ResearchDoc
<1>5. d \in FundBooking /\ Filed(d) = Filed(acc) /\ d.book = c /\ d.rows = acc.rows
  BY <1>1, <1>4 DEF FundBooking, Filed, TriedBook, c
<1> HIDE DEF d, b
<1>6. Booked(c, Filed(acc))
  BY <1>1, <1>4, BookedQuiet
<1>7. BookDays(c, Filed(acc), SessionOf(t))
  BY <1>1, <1>2, <1>4, BookDaysTried
<1>8. /\ c.pendingExits \subseteq Owned(c)
      /\ \A g \in EquityFunds : research.batch.actions[g] = "enter" => c.positions[g] = 0 \/ c.attempted[g] = SessionOf(t)
  BY <1>4, <1>1, <1>2 DEF Owned
<1>9. d \in FundBooks(t)
  BY <1>1, <1>4, <1>5, <1>6, <1>7, <1>8 DEF FundBooks
<1>10. FundTried(d, acc, f, t)
  BY <1>1, <1>2, <1>4, <1>5, <1>9 DEF FundTried, b
<1>11. QED BY <1>10 DEF d

BoughtBook(b, f, units, cost) == [b EXCEPT !.cash = @ - cost - FixedFee, !.positions[f] = units]
BuyOf(f, units, cost, t) == [kind |-> "buy", fund |-> f, units |-> units, cost |-> cost, at |-> t]
BuyFiled(d, f, units, cost, t) == [book |-> BoughtBook(d.book, f, units, cost), rows |-> d.rows \o <<BuyOf(f, units, cost, t)>>]

Owns(c, b, f, units, cost) ==
  /\ c \in ResearchDoc /\ c.cash = b.cash - cost - FixedFee /\ c.pendingExits = b.pendingExits /\ c.day = b.day
  /\ c.halted = b.halted /\ c.batch = b.batch /\ c.attempted = b.attempted /\ c.eventAt = b.eventAt
  /\ c.receivables = b.receivables /\ c.positions[f] = units /\ c.closed = b.closed
  /\ \A g \in EquityFunds \ {f} : c.positions[g] = b.positions[g]

LEMMA BoughtFields ==
  ASSUME NEW b \in ResearchDoc, NEW f \in EquityFunds, NEW units \in Nat, NEW cost \in Int
  PROVE  Owns(BoughtBook(b, f, units, cost), b, f, units, cost)
<1> DEFINE left == b.cash - cost - FixedFee
           own == [b.positions EXCEPT ![f] = units]
           c == BoughtBook(b, f, units, cost)
<1>1. b.cash \in Int /\ b.positions \in [EquityFunds -> Nat] /\ FixedFee \in Nat
  BY DocFields, FundAmounts
<1>2. /\ left \in Int /\ own \in [EquityFunds -> Nat] /\ own[f] = units
      /\ \A g \in EquityFunds \ {f} : own[g] = b.positions[g]
  BY <1>1
<1>3. c = [b EXCEPT !.cash = left, !.positions = own]
  BY DEF BoughtBook, ResearchDoc
<1>4. left = b.cash - cost - FixedFee
  OBVIOUS
<1> HIDE DEF left, own, c
<1>5. /\ c \in ResearchDoc /\ c.cash = left /\ c.positions = own /\ c.pendingExits = b.pendingExits /\ c.day = b.day
      /\ c.halted = b.halted /\ c.batch = b.batch /\ c.attempted = b.attempted /\ c.eventAt = b.eventAt
      /\ c.receivables = b.receivables /\ c.closed = b.closed
  BY <1>2, <1>3 DEF ResearchDoc
<1>6. Owns(c, b, f, units, cost)
  BY <1>2, <1>4, <1>5 DEF Owns
<1>7. QED BY <1>6 DEF c

\* d is acc with a try for f in a session that f has not used, and nothing in the way of a buy.
MayBuyFund(d, acc, f, cost, t) ==
  /\ FundTried(d, acc, f, t) /\ cost + FixedFee <= d.book.cash /\ research.batch.actions[f] = "enter"
  /\ ~SessionUsed(acc.book, f, t) /\ SessionOf(t) = d.book.day /\ ~d.book.halted

LEMMA BuyKept ==
  ASSUME ResearchInv, NEW t \in Int, NEW acc \in FundBooks(t), NEW f \in EquityFunds, NEW units \in Nat \ {0}, NEW cost \in Nat,
         NEW d, MayBuyFund(d, acc, f, cost, t)
  PROVE  BuyFiled(d, f, units, cost, t) \in FundBooks(t)
<1> DEFINE b == d.book
           c == BoughtBook(b, f, units, cost)
           r == BuyOf(f, units, cost, t)
           e == BuyFiled(d, f, units, cost, t)
           J == Filed(d)
<1>1. /\ d \in FundBooks(t) /\ J = Filed(acc) /\ b.positions = acc.book.positions /\ b.attempted[f] = SessionOf(t)
      /\ cost + FixedFee <= b.cash /\ research.batch.actions[f] = "enter" /\ ~SessionUsed(acc.book, f, t)
      /\ SessionOf(t) = b.day /\ ~b.halted
  BY DEF MayBuyFund, FundTried
<1>2. /\ b \in ResearchDoc /\ d.rows \in Seq(FundRow) /\ b.batch = research.batch
      /\ b.eventAt = research.eventAt /\ b.pendingExits \subseteq Owned(b)
      /\ Booked(b, J) /\ BookDays(b, J, SessionOf(t))
      /\ (\A g \in EquityFunds : research.batch.actions[g] = "enter" => b.positions[g] = 0 \/ b.attempted[g] = SessionOf(t))
      /\ J \in Seq(FundRow)
  BY <1>1, FundBookOf
<1>3. acc.book \in ResearchDoc /\ BookDays(acc.book, Filed(acc), SessionOf(t)) /\ Filed(acc) \in Seq(FundRow)
      /\ (acc.book.positions[f] = 0 \/ acc.book.attempted[f] = SessionOf(t))
  BY <1>1, FundBookOf
<1>4. b.positions[f] = 0
  BY <1>1, <1>3 DEF SessionUsed
<1>5. /\ c \in ResearchDoc /\ c.cash = b.cash - cost - FixedFee /\ c.pendingExits = b.pendingExits /\ c.day = b.day
      /\ c.halted = b.halted /\ c.batch = b.batch /\ c.attempted = b.attempted /\ c.eventAt = b.eventAt
      /\ c.receivables = b.receivables /\ c.positions[f] = units /\ c.closed = b.closed
      /\ \A g \in EquityFunds \ {f} : c.positions[g] = b.positions[g]
  <2>1. units \in Nat /\ cost \in Int
    OBVIOUS
  <2> HIDE DEF b
  <2>2. Owns(c, b, f, units, cost)
    BY <1>2, <2>1, BoughtFields
  <2> HIDE DEF c
  <2>3. QED BY <2>2 DEF Owns
<1>6. r \in FundBuy /\ r \in FundRow /\ r.at = t /\ r.fund = f /\ r.kind = "buy"
  BY DEF BuyOf, FundBuy, FundRow
<1> HIDE DEF c
<1>7. e \in FundBooking /\ e.book = c /\ Filed(e) = Append(J, r)
  <2>1. FiledOneMore([book |-> c, rows |-> d.rows \o <<r>>], d, c, r)
    <3> HIDE DEF r
    <3>1. QED BY <1>1, <1>5, <1>6, FiledGrows
  <2>2. e = [book |-> c, rows |-> d.rows \o <<r>>]
    BY DEF BuyFiled, c
  <2> HIDE DEF e, r
  <2>3. QED BY <2>1, <2>2 DEF FiledOneMore
<1>8. Booked(c, Append(J, r))
  <2>1. Tallied(AuditOf(J), b) /\ b.cash \in Int /\ FixedFee \in Nat
    BY <1>2, DocFields, FundAmounts DEF Booked
  <2>2. Tallied(Audited(AuditOf(J), r), c)
    <3> HIDE DEF b, J
    <3>1. Tallied(Audited(AuditOf(J), [kind |-> "buy", fund |-> f, units |-> units, cost |-> cost, at |-> t]), c)
      BY <1>2, <1>4, <1>5, <2>1, TallyBought
    <3>2. QED BY <3>1 DEF BuyOf
  <2> HIDE DEF r, b, e, J
  <2>3. AuditOf(Append(J, r)) = Audited(AuditOf(J), r) /\ Append(J, r) \in Seq(FundRow)
    BY <1>2, <1>6, AuditAppends, AppendProperties
  <2>4. c.cash >= 0
    BY <1>1, <1>5, <2>1
  <2>5. QED BY <2>2, <2>3, <2>4 DEF Booked
<1>9. \A j \in DOMAIN J : SessionOf(J[j].at) = SessionOf(t) /\ J[j].kind \in {"buy", "sell"} => J[j].fund # r.fund
  <2>1. ASSUME NEW j \in DOMAIN Filed(acc), SessionOf(Filed(acc)[j].at) = SessionOf(t), Filed(acc)[j].kind \in {"buy", "sell"}
        PROVE  Filed(acc)[j].fund # f
    BY <1>1, <1>3, <2>1, SessionUnused
  <2>2. QED BY <1>1, <1>6, <2>1
<1> HIDE DEF r, e, b, J
<1>10. BookDays(c, Append(J, r), SessionOf(t))
  <2>1. BookDays(b, Append(J, r), SessionOf(t))
    BY <1>1, <1>2, <1>6, <1>9, BookDaysBought
  <2>2. SessionOf(t) \in Int /\ SessionOf(t) <= SessionOf(t)
    BY SessionIsInt
  <2>3. c.day = b.day /\ c.halted = b.halted /\ c.attempted = b.attempted /\ c.closed = b.closed
    BY <1>5
  <2> DEFINE K == Append(J, r)
             s == SessionOf(t)
  <2>4. BookDays(b, K, s) /\ s \in Int /\ s <= s
    BY <2>1, <2>2
  <2> HIDE DEF K, s
  <2>5. BookDays(c, K, s)
    BY <1>2, <2>3, <2>4, BookDaysLater
  <2>6. QED BY <2>5 DEF K, s
<1>11. c.pendingExits \subseteq Owned(c)
  <2>1. ASSUME NEW g \in c.pendingExits PROVE g \in Owned(c)
    BY <1>2, <1>5, <2>1, <1>4 DEF Owned
  <2>2. QED BY <2>1
<1>12. \A g \in EquityFunds : research.batch.actions[g] = "enter" => c.positions[g] = 0 \/ c.attempted[g] = SessionOf(t)
  BY <1>1, <1>2, <1>5
<1>13. e \in FundBooks(t)
  BY <1>2, <1>5, <1>7, <1>8, <1>10, <1>11, <1>12 DEF FundBooks
<1>14. QED BY <1>13 DEF e

LEMMA FundEntryStep ==
  ASSUME NEW t, NEW opens, NEW prices, CanBook(t, opens, prices), NEW acc \in FundBooks(t), NEW f \in EquityFunds
  PROVE  BookEntry(acc, f, opens, prices, t) \in FundBooks(t)
<1> DEFINE tried == TriedAt(acc.book, f, t)
           d == TriedBook(acc, f, t)
           b == Snapshot(tried, prices, t)
           plan == b.batch.plans[f]
           units == EntryQuantity(b, plan, opens[f], prices)
           cost == units * (opens[f] + ShareFee)
           seen == Looked(d, prices, t)
           bought == [book |-> [b EXCEPT !.cash = @ - cost - FixedFee, !.positions[f] = units],
                      rows |-> acc.rows \o <<[kind |-> "buy", fund |-> f, units |-> units, cost |-> cost, at |-> t]>>]
           away == acc.book.batch.actions[f] # "enter" \/ SessionUsed(acc.book, f, t)
           blind == f \notin DOMAIN prices \/ ~Valued(tried, prices, t)
           unfit == plan.quantity = 0 \/ ~Executable(b, f, opens, t) \/ EntriesBlocked(b, prices) \/ units <= 0
           out == BookEntry(acc, f, opens, prices, t)
<1>1. /\ ResearchInv /\ t \in Int /\ research.batch \in OpenPlans /\ opens \in Partial(EquityFunds) /\ prices \in Partial(EquityFunds)
      /\ acc = [book |-> acc.book, rows |-> acc.rows] /\ acc.book.batch = research.batch
  BY FundBookOf DEF CanBook
<1>2. FundTried(d, acc, f, t) /\ d.book = tried /\ d.rows = acc.rows
  BY <1>1, FundTriedStep DEF TriedBook
<1>3. out = IF away THEN acc ELSE IF blind THEN d ELSE IF unfit THEN seen ELSE bought
  <2>1. [acc EXCEPT !.book = tried] = d
    <3> HIDE DEF tried
    <3>1. QED BY <1>1 DEF TriedBook, tried
  <2>2. seen = [book |-> b, rows |-> acc.rows \o LossRow(tried, prices, t)]
    BY <1>2 DEF Looked
  <2> HIDE DEF seen, d
  <2>3. QED BY <2>1, <2>2 DEF BookEntry, TriedAt
<1>4. d \in FundBooks(t) /\ seen \in FundBooks(t)
  <2>1. d \in FundBooks(t)
    BY <1>2 DEF FundTried
  <2> HIDE DEF d
  <2>2. QED BY <1>1, <2>1, LookStep
<1>5. ASSUME ~away, ~blind, ~unfit PROVE bought \in FundBooks(t)
  <2>1. tried \in ResearchDoc /\ tried.batch = research.batch /\ tried.positions = acc.book.positions
    BY <1>2 DEF FundTried
  <2>2. Valued(tried, prices, t) /\ f \in DOMAIN opens /\ ~b.halted /\ ~(units <= 0) /\ research.batch.actions[f] = "enter"
        /\ ~SessionUsed(acc.book, f, t)
    BY <1>1, <1>5 DEF Executable, EntriesBlocked
  <2>3. b = tried
    <3> HIDE DEF tried
    <3>1. Snapped(b, tried, prices, t)
      BY <2>1, SnapshotHalts
    <3> HIDE DEF b
    <3>2. QED BY <2>2, <3>1 DEF Snapped
  <2>4. opens[f] \in Nat \ {0} /\ ShareFee \in Nat /\ FixedFee \in Nat /\ GrossCap \in Nat
    BY <1>1, <2>2, FundAmounts DEF Partial
  <2>5. plan \in FundPlan
    BY <2>1, <2>3, <1>1 DEF OpenPlans
  <2>6. BookGross(tried, prices) \in Int /\ BookEquity(tried, prices) \in Int /\ tried.cash \in Int
    <3>1. Owned(tried) \subseteq DOMAIN prices
      BY <2>2 DEF Valued
    <3> HIDE DEF tried
    <3>2. QED BY <1>1, <2>1, <3>1, GrossIsInt, DocFields
  <2> DEFINE price == opens[f] + ShareFee
             room == (GrossCap * BookEquity(tried, prices)) \div 1000 - BookGross(tried, prices)
             budget == Min({plan.budget, tried.cash, room})
  <2>7. room \in Int /\ plan.budget \in Int /\ plan.quantity \in Int /\ price \in Nat \ {0}
    <3>1. plan.budget \in Int /\ plan.quantity \in Int
      BY <2>5 DEF FundPlan
    <3> DEFINE q == GrossCap * BookEquity(tried, prices)
    <3>2. q \in Int
      BY <2>4, <2>6
    <3> HIDE DEF q, plan
    <3>3. q \div 1000 \in Int
      BY <3>2
    <3>4. room \in Int
      BY <2>6, <3>3 DEF q
    <3>5. QED BY <2>4, <3>1, <3>4
  <2>8. budget \in Int /\ budget <= tried.cash
    <3> HIDE DEF room, plan, tried
    <3>1. QED BY <2>6, <2>7, MinOfThree
  <2>9. units = Min({plan.quantity, Max({0, budget - FixedFee}) \div price})
    <3> HIDE DEF plan, tried, b
    <3>1. units = EntryQuantity(tried, plan, opens[f], prices)
      BY <2>3
    <3> HIDE DEF units
    <3>2. QED BY <3>1 DEF EntryQuantity
  <2> HIDE DEF budget, room
  <2>10. units \in Nat \ {0} /\ units * price + FixedFee <= budget
    <3> DEFINE q == plan.quantity
    <3>1. q \in Int /\ units = Min({q, Max({0, budget - FixedFee}) \div price}) /\ ~(units <= 0)
      BY <2>2, <2>7, <2>9
    <3> HIDE DEF q, units, price
    <3>2. QED BY <2>4, <2>7, <2>8, <3>1, UnitsAfford
  <2>11. cost \in Nat /\ cost + FixedFee <= tried.cash
    <3> DEFINE n == units
               p == price
               x == n * p
    <3>1. n \in Nat /\ p \in Nat /\ x + FixedFee <= budget /\ cost = x
      BY <2>7, <2>10
    <3>2. x \in Nat
      <4> HIDE DEF n, p
      <4>1. QED BY <3>1
    <3> HIDE DEF x, n, p, cost
    <3>3. QED BY <2>4, <2>6, <2>8, <3>1, <3>2
  <2>12. bought = BuyFiled(d, f, units, cost, t)
    <3>1. d.book = b /\ d.rows = acc.rows
      BY <1>2, <2>3
    <3> HIDE DEF d, b, units, cost
    <3>2. QED BY <3>1 DEF BuyFiled, BoughtBook, BuyOf
  <2>13. MayBuyFund(d, acc, f, cost, t)
    <3>1. SessionOf(t) = tried.day /\ ~tried.halted
      BY <2>2, <2>3 DEF Valued
    <3> HIDE DEF d, tried, cost, b
    <3>2. QED BY <1>2, <2>2, <2>11, <3>1 DEF MayBuyFund
  <2> HIDE DEF d, tried, cost, b, units, bought
  <2>14. BuyFiled(d, f, units, cost, t) \in FundBooks(t)
    BY <1>1, <2>10, <2>11, <2>13, BuyKept
  <2>15. QED BY <2>12, <2>14
<1>6. out \in FundBooks(t)
  <2> HIDE DEF out, away, blind, unfit, seen, bought, d
  <2>1. QED BY <1>3, <1>4, <1>5
<1>7. QED BY <1>6 DEF out

LEMMA FundsListed ==
  LET N == Len(ResearchOrder)
  IN  N \in Nat /\ DOMAIN ResearchOrder = 1..N /\ \A i \in 1..N : ResearchOrder[i] \in EquityFunds
BY OrderOf, FundAmounts, LenProperties, ElementOfSeq DEF ResearchOrder

LEMMA FundExitsDone ==
  ASSUME NEW t, NEW opens, NEW prices, CanBook(t, opens, prices), NEW start \in FundBooks(t)
  PROVE  BookExits(start, opens, prices, t) \in FundBooks(t)
<1> DEFINE N == Len(ResearchOrder)
           A == FundBooks(t)
           G == [p \in A \X (1..N) |-> BookExit(p[1], ResearchOrder[p[2]], opens, prices, t)]
           Iter(f) == [s \in SUBSET (1..N) |-> IF s = {} THEN start ELSE BookExit(f[s \ {Max(s)}], ResearchOrder[Max(s)], opens, prices, t)]
           it == CHOOSE f : f = Iter(f)
           Good == [i \in 0..N |-> A]
<1>1. N \in Nat /\ DOMAIN ResearchOrder = 1..N /\ \A i \in 1..N : ResearchOrder[i] \in EquityFunds
  BY FundsListed
<1>2. \A acc \in A, f \in EquityFunds : BookExit(acc, f, opens, prices, t) \in A
  BY FundExitStep DEF CanBook
<1>3. G \in [A \X (1..N) -> A] /\ \A x \in A, i \in 1..N : G[<<x, i>>] = BookExit(x, ResearchOrder[i], opens, prices, t)
  BY <1>1, <1>2
<1>4. start \in A
  OBVIOUS
<1> HIDE DEF A, G, N
<1>5. PICK f : Folding(f, N, A, start, G)
  BY <1>1, <1>3, <1>4, FoldIterates
<1>6. f = Iter(f)
  <2>1. ASSUME NEW s \in SUBSET (1..N), s # {} PROVE G[<<f[s \ {Max(s)}], Max(s)>>] = BookExit(f[s \ {Max(s)}], ResearchOrder[Max(s)], opens, prices, t)
    BY <1>1, <2>1, LargestIndex, <1>5, <1>3 DEF Folding
  <2>2. \A s \in SUBSET (1..N) : f[s] = IF s = {} THEN start ELSE BookExit(f[s \ {Max(s)}], ResearchOrder[Max(s)], opens, prices, t)
    BY <1>5, <2>1 DEF Folding
  <2>3. f = [s \in SUBSET (1..N) |-> f[s]]
    BY <1>5 DEF Folding
  <2>4. QED BY <2>2, <2>3
<1>7. it = Iter(it)
  BY <1>6
<1> HIDE DEF it
<1>8. BookExits(start, opens, prices, t) = it[1..N]
  BY <1>1 DEF BookExits, FoldLeft, MapThenFoldSet, it
<1> DEFINE onward == [s \in SUBSET (1..N) |-> BookExit(it[s \ {Max(s)}], ResearchOrder[Max(s)], opens, prices, t)]
<1>9. IsFold(it, N, onward, start)
  BY <1>7 DEF IsFold
<1>10. \A s \in SUBSET (1..N) : onward[s] = BookExit(it[s \ {Max(s)}], ResearchOrder[Max(s)], opens, prices, t)
  OBVIOUS
<1> HIDE DEF onward
<1>11. FoldWalks(it, N, onward, start)
  BY <1>1, <1>9, FoldWalk
<1>12. \A i \in 1..N : it[1..(i - 1)] \in Good[i - 1] => onward[1..i] \in Good[i]
  <2> SUFFICES ASSUME NEW i \in 1..N, it[1..(i - 1)] \in Good[i - 1] PROVE onward[1..i] \in Good[i]
    OBVIOUS
  <2>1. i - 1 \in 0..N /\ i \in 0..N
    BY <1>1
  <2>2. it[1..(i - 1)] \in A
    BY <2>1
  <2>3. onward[1..i] = BookExit(it[1..(i - 1)], ResearchOrder[i], opens, prices, t)
    BY <1>10, <1>11 DEF FoldWalks
  <2>4. onward[1..i] \in A
    BY <1>1, <1>2, <2>2, <2>3
  <2>5. QED BY <2>1, <2>4
<1>13. start \in Good[0] /\ Good[N] = A
  BY <1>1, <1>4
<1> HIDE DEF Good
<1>14. it[1..N] \in Good[N]
  BY <1>1, <1>11, <1>12, <1>13, FoldReaches
<1>15. QED BY <1>8, <1>13, <1>14 DEF A

LEMMA FundEntriesDone ==
  ASSUME NEW t, NEW opens, NEW prices, CanBook(t, opens, prices), NEW exited \in FundBooks(t)
  PROVE  BookEntries(exited, opens, prices, t) \in FundBooks(t)
<1> DEFINE N == Len(ResearchOrder)
           A == FundBooks(t)
           G == [p \in A \X (1..N) |-> BookEntry(p[1], ResearchOrder[p[2]], opens, prices, t)]
           Iter(f) == [s \in SUBSET (1..N) |-> IF s = {} THEN exited ELSE BookEntry(f[s \ {Max(s)}], ResearchOrder[Max(s)], opens, prices, t)]
           it == CHOOSE f : f = Iter(f)
           Good == [i \in 0..N |-> A]
<1>1. N \in Nat /\ DOMAIN ResearchOrder = 1..N /\ \A i \in 1..N : ResearchOrder[i] \in EquityFunds
  BY FundsListed
<1>2. \A acc \in A, f \in EquityFunds : BookEntry(acc, f, opens, prices, t) \in A
  BY FundEntryStep
<1>3. G \in [A \X (1..N) -> A] /\ \A x \in A, i \in 1..N : G[<<x, i>>] = BookEntry(x, ResearchOrder[i], opens, prices, t)
  BY <1>1, <1>2
<1>4. exited \in A
  OBVIOUS
<1> HIDE DEF A, G, N
<1>5. PICK f : Folding(f, N, A, exited, G)
  BY <1>1, <1>3, <1>4, FoldIterates
<1>6. f = Iter(f)
  <2>1. ASSUME NEW s \in SUBSET (1..N), s # {} PROVE G[<<f[s \ {Max(s)}], Max(s)>>] = BookEntry(f[s \ {Max(s)}], ResearchOrder[Max(s)], opens, prices, t)
    BY <1>1, <2>1, LargestIndex, <1>5, <1>3 DEF Folding
  <2>2. \A s \in SUBSET (1..N) : f[s] = IF s = {} THEN exited ELSE BookEntry(f[s \ {Max(s)}], ResearchOrder[Max(s)], opens, prices, t)
    BY <1>5, <2>1 DEF Folding
  <2>3. f = [s \in SUBSET (1..N) |-> f[s]]
    BY <1>5 DEF Folding
  <2>4. QED BY <2>2, <2>3
<1>7. it = Iter(it)
  BY <1>6
<1> HIDE DEF it
<1>8. BookEntries(exited, opens, prices, t) = it[1..N]
  BY <1>1 DEF BookEntries, FoldLeft, MapThenFoldSet, it
<1> DEFINE onward == [s \in SUBSET (1..N) |-> BookEntry(it[s \ {Max(s)}], ResearchOrder[Max(s)], opens, prices, t)]
<1>9. IsFold(it, N, onward, exited)
  BY <1>7 DEF IsFold
<1>10. \A s \in SUBSET (1..N) : onward[s] = BookEntry(it[s \ {Max(s)}], ResearchOrder[Max(s)], opens, prices, t)
  OBVIOUS
<1> HIDE DEF onward
<1>11. FoldWalks(it, N, onward, exited)
  BY <1>1, <1>9, FoldWalk
<1>12. \A i \in 1..N : it[1..(i - 1)] \in Good[i - 1] => onward[1..i] \in Good[i]
  <2> SUFFICES ASSUME NEW i \in 1..N, it[1..(i - 1)] \in Good[i - 1] PROVE onward[1..i] \in Good[i]
    OBVIOUS
  <2>1. i - 1 \in 0..N /\ i \in 0..N
    BY <1>1
  <2>2. it[1..(i - 1)] \in A
    BY <2>1
  <2>3. onward[1..i] = BookEntry(it[1..(i - 1)], ResearchOrder[i], opens, prices, t)
    BY <1>10, <1>11 DEF FoldWalks
  <2>4. onward[1..i] \in A
    BY <1>1, <1>2, <2>2, <2>3
  <2>5. QED BY <2>1, <2>4
<1>13. exited \in Good[0] /\ Good[N] = A
  BY <1>1, <1>4
<1> HIDE DEF Good
<1>14. it[1..N] \in Good[N]
  BY <1>1, <1>11, <1>12, <1>13, FoldReaches
<1>15. QED BY <1>8, <1>13, <1>14 DEF A

\* A plan is made of whole numbers, and the others stay.
LEMMA ReservedIsInt == ASSUME NEW p \in [EquityFunds -> FundPlan] PROVE Reserved(p) \in Int
<1> DEFINE f == [x \in EquityFunds |-> IF p[x].quantity > 0 THEN p[x].budget ELSE 0]
<1>1. IsFiniteSet(EquityFunds) /\ DOMAIN f = EquityFunds /\ \A x \in EquityFunds : f[x] \in Int
  BY FundAmounts DEF FundPlan
<1> HIDE DEF f
<1>2. SumFunction(f) \in Int
  BY <1>1, SumsAreInt DEF Summable
<1>3. QED BY <1>2 DEF Reserved, f

LEMMA PlanFundStep ==
  ASSUME NEW b \in ResearchDoc, NEW actions, NEW prices \in Partial(EquityFunds), NEW price \in MarkPrices, NEW t, NEW at,
         NEW p \in [EquityFunds -> FundPlan], NEW f \in EquityFunds
  PROVE  PlanFund(p, f, b, actions, prices, price, t, at) \in [EquityFunds -> FundPlan]
<1> DEFINE held == Reserved(p)
           plan == PlanEntry(b, prices, price, held)
           budget == PlanBudget(b, prices, held)
           away == actions[f] # "enter" \/ t > at \/ ~Valued(b, prices, t) \/ f \notin DOMAIN prices
<1>1. ASSUME ~away PROVE plan \in FundPlan
  <2>1. BookGross(b, prices) \in Int /\ BookEquity(b, prices) \in Int /\ b.cash \in Int /\ held \in Int
    BY <1>1, GrossIsInt, DocFields, ReservedIsInt DEF Valued
  <2> HIDE DEF held
  <2>2. TargetShare \in Int /\ GrossCap \in Int /\ price \in Nat \ {0}
    BY FundAmounts
  <2> DEFINE e == BookEquity(b, prices)
             x == TargetShare * e
             y == GrossCap * e
             u == y - 1000 * (BookGross(b, prices) + held)
             w == 1000 * (b.cash - held)
             m == Min({x, u, w})
  <2>3. x \in Int /\ y \in Int
    <3> DEFINE a == TargetShare
               c == GrossCap
    <3>1. a \in Int /\ c \in Int /\ e \in Int
      BY <2>1, <2>2
    <3> HIDE DEF a, c, e
    <3>2. a * e \in Int /\ c * e \in Int
      BY <3>1
    <3>3. QED BY <3>2 DEF a, c
  <2> HIDE DEF x, y
  <2>4. u \in Int /\ w \in Int
    BY <2>1, <2>3
  <2> HIDE DEF u, w
  <2>5. m \in Int
    BY <2>3, <2>4, MinOfThree
  <2>6. budget = Max({0, m}) \div 1000
    BY DEF PlanBudget, x, y, u, w
  <2> HIDE DEF m, budget
  <2>7. budget \in Int
    <3> DEFINE k == Max({0, m})
    <3>1. k \in Int /\ budget = k \div 1000
      BY <2>5, <2>6, MaxOfTwo
    <3> HIDE DEF k
    <3>2. QED BY <3>1
  <2>8. budget \div price \in Int
    BY <2>2, <2>7
  <2>9. [quantity |-> budget \div price, budget |-> budget] \in FundPlan /\ NoPlan \in FundPlan
    BY <2>7, <2>8 DEF FundPlan, NoPlan
  <2>10. QED BY <2>9 DEF PlanEntry, budget
<1>2. PlanFund(p, f, b, actions, prices, price, t, at) = IF away THEN p ELSE [p EXCEPT ![f] = plan]
  BY DEF PlanFund
<1> HIDE DEF away, plan
<1>3. QED BY <1>1, <1>2

LEMMA PlansArePlans ==
  ASSUME NEW b \in ResearchDoc, NEW actions, NEW prices \in Partial(EquityFunds), NEW price \in MarkPrices, NEW t, NEW at
  PROVE  PlansOf(b, actions, prices, price, t, at) \in [EquityFunds -> FundPlan]
<1> DEFINE N == Len(ResearchOrder)
           A == [EquityFunds -> FundPlan]
           first == [f \in EquityFunds |-> NoPlan]
           G == [p \in A \X (1..N) |-> PlanFund(p[1], ResearchOrder[p[2]], b, actions, prices, price, t, at)]
           Iter(f) == [s \in SUBSET (1..N) |-> IF s = {} THEN first ELSE PlanFund(f[s \ {Max(s)}], ResearchOrder[Max(s)], b, actions, prices, price, t, at)]
           it == CHOOSE f : f = Iter(f)
           Good == [i \in 0..N |-> A]
<1>1. N \in Nat /\ DOMAIN ResearchOrder = 1..N /\ \A i \in 1..N : ResearchOrder[i] \in EquityFunds
  BY FundsListed
<1>2. \A acc \in A, f \in EquityFunds : PlanFund(acc, f, b, actions, prices, price, t, at) \in A
  BY PlanFundStep
<1>3. G \in [A \X (1..N) -> A] /\ \A x \in A, i \in 1..N : G[<<x, i>>] = PlanFund(x, ResearchOrder[i], b, actions, prices, price, t, at)
  BY <1>1, <1>2
<1>4. first \in A
  BY DEF FundPlan, NoPlan
<1> HIDE DEF A, G, N, first
<1>5. PICK f : Folding(f, N, A, first, G)
  BY <1>1, <1>3, <1>4, FoldIterates
<1>6. f = Iter(f)
  <2>1. ASSUME NEW s \in SUBSET (1..N), s # {} PROVE G[<<f[s \ {Max(s)}], Max(s)>>] = PlanFund(f[s \ {Max(s)}], ResearchOrder[Max(s)], b, actions, prices, price, t, at)
    BY <1>1, <2>1, LargestIndex, <1>5, <1>3 DEF Folding
  <2>2. \A s \in SUBSET (1..N) : f[s] = IF s = {} THEN first ELSE PlanFund(f[s \ {Max(s)}], ResearchOrder[Max(s)], b, actions, prices, price, t, at)
    BY <1>5, <2>1 DEF Folding
  <2>3. f = [s \in SUBSET (1..N) |-> f[s]]
    BY <1>5 DEF Folding
  <2>4. QED BY <2>2, <2>3
<1>7. it = Iter(it)
  BY <1>6
<1> HIDE DEF it
<1>8. PlansOf(b, actions, prices, price, t, at) = it[1..N]
  BY <1>1 DEF PlansOf, FoldLeft, MapThenFoldSet, it, first
<1> DEFINE onward == [s \in SUBSET (1..N) |-> PlanFund(it[s \ {Max(s)}], ResearchOrder[Max(s)], b, actions, prices, price, t, at)]
<1>9. IsFold(it, N, onward, first)
  BY <1>7 DEF IsFold
<1>10. \A s \in SUBSET (1..N) : onward[s] = PlanFund(it[s \ {Max(s)}], ResearchOrder[Max(s)], b, actions, prices, price, t, at)
  OBVIOUS
<1> HIDE DEF onward
<1>11. FoldWalks(it, N, onward, first)
  BY <1>1, <1>9, FoldWalk
<1>12. \A i \in 1..N : it[1..(i - 1)] \in Good[i - 1] => onward[1..i] \in Good[i]
  <2> SUFFICES ASSUME NEW i \in 1..N, it[1..(i - 1)] \in Good[i - 1] PROVE onward[1..i] \in Good[i]
    OBVIOUS
  <2>1. i - 1 \in 0..N /\ i \in 0..N
    BY <1>1
  <2>2. it[1..(i - 1)] \in A
    BY <2>1
  <2>3. onward[1..i] = PlanFund(it[1..(i - 1)], ResearchOrder[i], b, actions, prices, price, t, at)
    BY <1>10, <1>11 DEF FoldWalks
  <2>4. onward[1..i] \in A
    BY <1>1, <1>2, <2>2, <2>3
  <2>5. QED BY <2>1, <2>4
<1>13. first \in Good[0] /\ Good[N] = A
  BY <1>1, <1>4
<1> HIDE DEF Good
<1>14. it[1..N] \in Good[N]
  BY <1>1, <1>11, <1>12, <1>13, FoldReaches
<1>15. QED BY <1>8, <1>13, <1>14 DEF A

-----------------------------------------------------------------------------
(* The operations of the book.                                             *)

\* What ResearchInv says of the state and of its times.
LEMMA FundState ==
  ASSUME ResearchInv
  PROVE  /\ research \in ResearchDoc /\ fillJournal \in Seq(FundRow) /\ operations \in 0..MaxOperations
         /\ research.appliedAt \in Int /\ research.day \in Int /\ SessionOf(research.appliedAt) \in Int
         /\ Booked(research, fillJournal) /\ BookDays(research, fillJournal, SessionOf(research.appliedAt))
         /\ research.pendingExits \subseteq Owned(research)
         /\ research.appliedAt \in Times \cup {NoTime} /\ research.portfolioAt \in Times \cup {NoTime}
         /\ research.eventAt \in Times \cup {NoTime}
BY DocFields, SessionIsInt DEF ResearchInv, Booked

LEMMA TimesAre == \A t \in Times : t \in Int /\ SessionOf(t) \in Int
BY FundAmounts, SessionIsInt DEF Times

LEMMA FundsStart ==
  ASSUME ResearchInv, NEW t \in Times, t >= research.appliedAt, OwnedMatches(research, research.batch.actions)
  PROVE  [book |-> research, rows |-> <<>>] \in FundBooks(t)
<1> DEFINE acc == [book |-> research, rows |-> <<>>]
<1>1. /\ research \in ResearchDoc /\ fillJournal \in Seq(FundRow) /\ research.appliedAt \in Int
      /\ SessionOf(research.appliedAt) \in Int /\ Booked(research, fillJournal)
      /\ BookDays(research, fillJournal, SessionOf(research.appliedAt)) /\ research.pendingExits \subseteq Owned(research)
  BY FundState
<1>2. acc \in FundBooking /\ acc.book = research /\ Filed(acc) = fillJournal
  BY <1>1, ConcatEmptySeq DEF FundBooking, Filed
<1> HIDE DEF acc
<1>3. BookDays(research, fillJournal, SessionOf(t))
  BY <1>1, TimesAre, SessionsInOrder, BookDaysLater
<1>4. \A f \in EquityFunds : research.batch.actions[f] = "enter" => research.positions[f] = 0
  BY DEF OwnedMatches
<1>5. acc \in FundBooks(t)
  BY <1>1, <1>2, <1>3, <1>4 DEF FundBooks
<1>6. QED BY <1>5 DEF acc

LEMMA FundsApplied ==
  ASSUME ResearchInv, operations' \in 0..MaxOperations, NEW t \in Times, NEW opens \in Partial(EquityFunds),
         NEW prices \in Partial(EquityFunds), ApplyBatch(t, opens, prices)
  PROVE  ResearchInv'
<1> DEFINE blank == [book |-> research, rows |-> <<>>]
           start == [book |-> Snapshot(research, prices, t), rows |-> LossRow(research, prices, t)]
           exited == BookExits(start, opens, prices, t)
           done == BookEntries(exited, opens, prices, t)
           final == Looked(done, prices, t)
<1>1. /\ research' = [Snapshot(done.book, prices, t) EXCEPT !.batch = NoBatch, !.appliedAt = t, !.portfolioAt = t]
      /\ fillJournal' = fillJournal \o done.rows \o LossRow(done.book, prices, t)
      /\ research.batch # NoBatch /\ t >= research.appliedAt /\ OwnedMatches(research, research.batch.actions)
  BY DEF ApplyBatch, MayApply
<1>2. /\ CanBook(t, opens, prices) /\ t \in Int /\ SessionOf(t) \in Int /\ research \in ResearchDoc
      /\ Booked(research, fillJournal) /\ BookDays(research, fillJournal, SessionOf(research.appliedAt))
      /\ SessionOf(research.appliedAt) \in Int
  BY FundState, TimesAre, <1>1, DocFields DEF CanBook
<1>3. blank \in FundBooks(t)
  BY <1>1, FundsStart
<1>4. start \in FundBooks(t)
  <2>1. LossRow(research, prices, t) \in Seq(FundRow)
    BY <1>2, LossNoted
  <2>2. <<>> \o LossRow(research, prices, t) = LossRow(research, prices, t)
    BY <2>1, ConcatEmptySeq
  <2>3. start = Looked(blank, prices, t)
    BY <2>2 DEF Looked
  <2> HIDE DEF blank, start
  <2>4. Looked(blank, prices, t) \in FundBooks(t)
    BY <1>2, <1>3, LookStep
  <2>5. QED BY <2>3, <2>4
<1> HIDE DEF start
<1>5. exited \in FundBooks(t)
  BY <1>2, <1>4, FundExitsDone
<1> HIDE DEF exited
<1>6. done \in FundBooks(t)
  BY <1>2, <1>5, FundEntriesDone
<1> HIDE DEF done
<1>7. final \in FundBooks(t)
  BY <1>2, <1>6, LookStep
<1>8. fillJournal' = Filed(final)
  <2> DEFINE L == LossRow(done.book, prices, t)
  <2>1. done.rows \in Seq(FundRow) /\ fillJournal \in Seq(FundRow) /\ done.book \in ResearchDoc
        /\ Booked(done.book, Filed(done)) /\ BookDays(done.book, Filed(done), SessionOf(t))
    BY <1>6, FundBookOf
  <2>2. L \in Seq(FundRow)
    BY <1>2, <2>1, LossNoted
  <2> HIDE DEF L
  <2>3. (fillJournal \o done.rows) \o L = fillJournal \o (done.rows \o L)
    <3>1. \A R \in Seq(FundRow) : (fillJournal \o R) \o L = fillJournal \o (R \o L)
      BY <2>1, <2>2, ConcatAssociative
    <3>2. QED BY <2>1, <3>1
  <2>4. QED BY <1>1, <2>3 DEF Filed, Looked, L
<1>9. /\ final.book \in ResearchDoc /\ Booked(final.book, Filed(final)) /\ BookDays(final.book, Filed(final), SessionOf(t))
      /\ final.book.pendingExits \subseteq Owned(final.book) /\ final.book.eventAt = research.eventAt
      /\ research' = [final.book EXCEPT !.batch = NoBatch, !.appliedAt = t, !.portfolioAt = t]
  <2>1. final.book = Snapshot(done.book, prices, t)
    BY DEF Looked
  <2> HIDE DEF final
  <2>2. QED BY <1>1, <1>7, <2>1, FundBookOf
<1> HIDE DEF final
<1>10. /\ research' \in ResearchDoc /\ research'.cash = final.book.cash /\ research'.positions = final.book.positions
       /\ research'.receivables = final.book.receivables /\ research'.pendingExits = final.book.pendingExits
       /\ research'.day = final.book.day /\ research'.halted = final.book.halted /\ research'.attempted = final.book.attempted
       /\ research'.closed = final.book.closed /\ research'.appliedAt = t /\ research'.portfolioAt = t
       /\ research'.eventAt = research.eventAt
  <2> HIDE DEF NoBatch
  <2>1. QED BY <1>2, <1>9 DEF ResearchDoc
<1>11. Booked(research', fillJournal')
  BY <1>8, <1>9, <1>10, BookedQuiet
<1>12. BookDays(research', fillJournal', SessionOf(t))
  BY <1>8, <1>9, <1>10 DEF BookDays
<1>13. research'.pendingExits \subseteq Owned(research')
  BY <1>9, <1>10 DEF Owned
<1>14. QED BY <1>10, <1>11, <1>12, <1>13, FundState DEF ResearchInv

LEMMA FundsPrepared ==
  ASSUME ResearchInv, operations' \in 0..MaxOperations, NEW t \in Times, NEW actions \in [EquityFunds -> {"enter", "exit", "none"}],
         NEW prices \in Partial(EquityFunds), NEW price \in MarkPrices, NEW at \in Int, PrepareBatch(t, actions, prices, price, at)
  PROVE  ResearchInv'
<1> DEFINE b == Snapshot(research, prices, t)
           L == LossRow(research, prices, t)
           exits == b.pendingExits \cup {f \in EquityFunds : actions[f] = "exit"}
           batch == [at |-> t, executesAt |-> at, actions |-> actions, plans |-> PlansOf(b, actions, prices, price, t, at)]
           s == SessionOf(research.appliedAt)
<1>1. /\ research' = [b EXCEPT !.pendingExits = exits, !.batch = batch]
      /\ fillJournal' = fillJournal \o L /\ OwnedMatches(research, actions)
  BY DEF PrepareBatch
<1>2. /\ research \in ResearchDoc /\ Booked(research, fillJournal) /\ BookDays(research, fillJournal, s) /\ s \in Int
      /\ research.pendingExits \subseteq Owned(research) /\ t \in Int
  BY FundState, TimesAre
<1>3. Snapped(b, research, prices, t)
  BY <1>2, SnapshotHalts
<1> HIDE DEF s
<1>4. Booked(b, fillJournal \o L) /\ BookDays(b, fillJournal \o L, s)
  BY <1>2, LossNoted
<1> HIDE DEF b, L
<1>5. /\ b \in ResearchDoc /\ b.positions = research.positions /\ b.pendingExits = research.pendingExits
      /\ b.appliedAt = research.appliedAt /\ b.portfolioAt = research.portfolioAt /\ b.eventAt = research.eventAt
  BY <1>3 DEF Snapped
<1>6. batch \in OpenPlans
  BY <1>5, PlansArePlans, <1>2 DEF OpenPlans
<1>7. exits \in SUBSET EquityFunds /\ exits \subseteq Owned(research)
  BY <1>1, <1>2, <1>5, DocFields DEF OwnedMatches, Owned
<1> HIDE DEF exits, batch
<1>8. /\ research' \in ResearchDoc /\ research'.cash = b.cash /\ research'.positions = b.positions
      /\ research'.receivables = b.receivables /\ research'.pendingExits = exits
      /\ research'.day = b.day /\ research'.halted = b.halted /\ research'.attempted = b.attempted
      /\ research'.closed = b.closed /\ research'.appliedAt = research.appliedAt /\ research'.portfolioAt = research.portfolioAt
      /\ research'.eventAt = research.eventAt
  BY <1>1, <1>5, <1>6, <1>7 DEF ResearchDoc
<1>9. Booked(research', fillJournal')
  BY <1>1, <1>4, <1>5, <1>8, BookedQuiet
<1>10. BookDays(research', fillJournal', SessionOf(research'.appliedAt))
  BY <1>1, <1>4, <1>8 DEF BookDays, s
<1>11. research'.pendingExits \subseteq Owned(research')
  BY <1>5, <1>7, <1>8 DEF Owned
<1>12. QED BY <1>8, <1>9, <1>10, <1>11, FundState DEF ResearchInv

LEMMA FundBaselineSet ==
  ASSUME ResearchInv, operations' \in 0..MaxOperations, NEW date \in Int, NEW worth \in Int, SetDayBaseline(date, worth)
  PROVE  ResearchInv'
<1> DEFINE stop == date = research.day /\ research.halted
           s == SessionOf(research.appliedAt)
<1>1. /\ date >= research.day /\ fillJournal' = fillJournal
      /\ research' = [research EXCEPT !.day = date, !.baseline = worth, !.halted = (date = research.day) /\ @]
  BY DEF SetDayBaseline, BaselineAllowed
<1>2. /\ research \in ResearchDoc /\ Booked(research, fillJournal) /\ BookDays(research, fillJournal, s) /\ s \in Int
      /\ research.pendingExits \subseteq Owned(research) /\ research.day \in Int /\ fillJournal \in Seq(FundRow) /\ stop \in BOOLEAN
  BY FundState
<1>3. research' = [research EXCEPT !.day = date, !.baseline = worth, !.halted = stop]
  BY <1>1, <1>2 DEF ResearchDoc
<1>4. stop <=> date = research.day /\ research.halted
  OBVIOUS
<1> HIDE DEF stop, s
<1>5. /\ research' \in ResearchDoc /\ research'.cash = research.cash /\ research'.positions = research.positions
      /\ research'.receivables = research.receivables /\ research'.pendingExits = research.pendingExits
      /\ research'.day = date /\ research'.halted = stop /\ research'.attempted = research.attempted
      /\ research'.closed = research.closed /\ research'.appliedAt = research.appliedAt
      /\ research'.portfolioAt = research.portfolioAt /\ research'.eventAt = research.eventAt
  BY <1>2, <1>3 DEF ResearchDoc
<1>6. Booked(research', fillJournal')
  BY <1>1, <1>2, <1>5, BookedQuiet
<1>7. ASSUME NEW i \in DOMAIN fillJournal, fillJournal[i].kind = "loss"
      PROVE  SessionOf(fillJournal[i].at) <= date /\ (SessionOf(fillJournal[i].at) = date => stop)
  <2>1. /\ SessionOf(fillJournal[i].at) <= research.day
        /\ (SessionOf(fillJournal[i].at) = research.day => research.halted)
    BY <1>2, <1>7 DEF BookDays
  <2>2. SessionOf(fillJournal[i].at) \in Int
    <3>1. fillJournal[i] \in FundRow
      BY <1>2, LenProperties, ElementOfSeq
    <3>2. QED BY <3>1, FundRows, SessionIsInt
  <2>3. QED BY <1>1, <1>2, <1>4, <2>1, <2>2
<1>8. BookDays(research', fillJournal', s)
  BY <1>1, <1>2, <1>5, <1>7 DEF BookDays
<1>9. research'.pendingExits \subseteq Owned(research')
  BY <1>2, <1>5 DEF Owned
<1>10. QED BY <1>5, <1>6, <1>8, <1>9, FundState DEF ResearchInv, s

\* c is the document after an event of t, but for what the event changes.
EventAfter(c, t) ==
  /\ c \in ResearchDoc /\ c.cash >= 0 /\ c.pendingExits = research.pendingExits /\ c.day = research.day /\ c.halted = research.halted
  /\ c.attempted = research.attempted /\ c.closed = research.closed /\ c.appliedAt = t /\ c.eventAt = t
  /\ c.portfolioAt = research.portfolioAt
  /\ \A f \in EquityFunds : research.positions[f] > 0 => c.positions[f] > 0

LEMMA EventDays ==
  ASSUME ResearchInv, NEW t \in Times, t >= research.appliedAt, NEW c, EventAfter(c, t)
  PROVE  BookDays(c, fillJournal, SessionOf(t)) /\ c.pendingExits \subseteq Owned(c)
BY FundState, TimesAre, SessionsInOrder, BookDaysLater DEF EventAfter, Owned

LEMMA EventBooked ==
  ASSUME ResearchInv, operations' \in 0..MaxOperations, NEW t \in Times, t >= research.appliedAt, EventAfter(research', t),
         NEW r \in FundRow, r.kind \notin {"buy", "sell", "loss"}, fillJournal' = Append(fillJournal, r),
         Tallied(Audited(AuditOf(fillJournal), r), research')
  PROVE  ResearchInv'
<1>1. fillJournal \in Seq(FundRow)
  BY FundState
<1>2. BookDays(research', fillJournal, SessionOf(t)) /\ research'.pendingExits \subseteq Owned(research')
  BY EventDays
<1>3. SessionOf(t) \in Int
  BY TimesAre
<1>4. research' \in ResearchDoc /\ research'.day \in Int /\ research'.cash >= 0 /\ research'.appliedAt = t /\ research'.eventAt = t
      /\ research'.portfolioAt = research.portfolioAt
  BY DocFields DEF EventAfter
<1>5. BookDays(research', Append(fillJournal, r), SessionOf(t))
  BY <1>1, <1>2, <1>3, <1>4, BookDaysQuiet
<1>6. Append(fillJournal, r) \in Seq(FundRow) /\ AuditOf(Append(fillJournal, r)) = Audited(AuditOf(fillJournal), r)
  BY <1>1, AuditAppends, AppendProperties
<1>7. Booked(research', Append(fillJournal, r))
  BY <1>4, <1>6 DEF Booked
<1>8. QED BY <1>2, <1>4, <1>5, <1>7, FundState DEF ResearchInv

EventOf(c, t, left, own, due) ==
  c = [research EXCEPT !.cash = left, !.positions = own, !.receivables = due, !.eventAt = t, !.appliedAt = t]
StillOwned(own) == \A f \in EquityFunds : research.positions[f] > 0 => own[f] > 0
EventLeaves(c, t, left, own, due) == EventAfter(c, t) /\ c.cash = left /\ c.positions = own /\ c.receivables = due

LEMMA EventFields ==
  ASSUME ResearchInv, NEW t \in Times, NEW c, NEW left \in Nat, NEW own \in [EquityFunds -> Nat],
         NEW due \in Seq(Entitlement), StillOwned(own), EventOf(c, t, left, own, due)
  PROVE  EventLeaves(c, t, left, own, due)
<1>1. /\ research \in ResearchDoc /\ t \in Int /\ left \in Int /\ left >= 0
      /\ c = [research EXCEPT !.cash = left, !.positions = own, !.receivables = due, !.eventAt = t, !.appliedAt = t]
  BY FundState, TimesAre DEF EventOf
<1>2. /\ c \in ResearchDoc /\ c.cash = left /\ c.pendingExits = research.pendingExits /\ c.day = research.day /\ c.halted = research.halted
      /\ c.attempted = research.attempted /\ c.closed = research.closed /\ c.appliedAt = t /\ c.eventAt = t
      /\ c.portfolioAt = research.portfolioAt /\ c.positions = own /\ c.receivables = due
  BY <1>1 DEF ResearchDoc
<1>3. QED BY <1>1, <1>2 DEF EventAfter, EventLeaves, StillOwned

LEMMA DividendBooked ==
  ASSUME ResearchInv, operations' \in 0..MaxOperations, NEW t \in Times, NEW f \in EquityFunds, NEW share \in DividendAmounts,
         CashDividend(t, f, share)
  PROVE  ResearchInv'
<1> DEFINE amount == DueOn(research, f, share)
           e == [fund |-> f, amount |-> amount, paid |-> FALSE, payAt |-> NoTime, since |-> t]
           r == [kind |-> "dividend", fund |-> f, perShare |-> share, at |-> t]
           due == Append(research.receivables, e)
           own == research.positions
           left == research.cash
<1>1. /\ research \in ResearchDoc /\ own \in [EquityFunds -> Nat] /\ research.receivables \in Seq(Entitlement) /\ left \in Nat
      /\ t \in Int /\ share \in Nat /\ Tallied(AuditOf(fillJournal), research)
  <2>1. research \in ResearchDoc /\ Booked(research, fillJournal)
    BY FundState
  <2>2. QED BY <2>1, DocFields, TimesAre, FundAmounts DEF Booked
<1>2. /\ research' = ActionApplied([research EXCEPT !.receivables = due], t)
      /\ fillJournal' = Append(fillJournal, r) /\ t >= research.appliedAt
  BY DEF CashDividend, EntitlementAllowed, ActionAllowed, DueOn
<1>3. amount \in Nat
  <2> DEFINE n == research.positions[f]
  <2>1. n \in Nat /\ amount = n * share
    BY <1>1 DEF DueOn
  <2> HIDE DEF n, amount
  <2>2. QED BY <1>1, <2>1
<1> HIDE DEF amount
<1>4. e \in Entitlement /\ e.amount = amount /\ e.paid = FALSE
  BY <1>1, <1>3 DEF Entitlement, NoTime
<1> HIDE DEF e
<1>5. due \in Seq(Entitlement)
  BY <1>1, <1>4, AppendProperties
<1>6. r \in FundRow /\ r.kind = "dividend"
  BY <1>1 DEF FundRow, DividendMade
<1>7. EventOf(research', t, left, own, due)
  <2> HIDE DEF due
  <2>1. research' = [research EXCEPT !.receivables = due, !.eventAt = t, !.appliedAt = t]
    BY <1>1, <1>2 DEF ActionApplied, ResearchDoc
  <2>2. QED BY <1>1, <2>1 DEF ResearchDoc, EventOf
<1> HIDE DEF due, own, left
<1>8. EventLeaves(research', t, left, own, due)
  BY <1>1, <1>5, <1>7, EventFields DEF own, StillOwned
<1>9. Tallied(Audited(AuditOf(fillJournal), r), research')
  <2> DEFINE a == AuditOf(fillJournal)
             c == research'
             b == research
  <2>1. /\ c.cash = b.cash /\ c.positions = b.positions /\ c.receivables = Append(b.receivables, e) /\ b \in ResearchDoc
        /\ Tallied(a, b) /\ e.amount = DueOn(b, f, share) /\ e.paid = FALSE /\ share \in Int
    BY <1>1, <1>4, <1>8 DEF due, own, left, amount, EventLeaves
  <2> HIDE DEF a, c, b
  <2>2. Tallied(Audited(a, [kind |-> "dividend", fund |-> f, perShare |-> share, at |-> t]), c)
    BY <1>4, <2>1, TallyDividend
  <2>3. QED BY <2>2 DEF a, c
<1> HIDE DEF r
<1>10. QED BY <1>2, <1>6, <1>8, <1>9, EventBooked DEF EventLeaves

LEMMA SplitBooked ==
  ASSUME ResearchInv, operations' \in 0..MaxOperations, NEW t \in Times, NEW f \in EquityFunds, NEW ratio \in SplitRatios,
         SplitAction(t, f, ratio)
  PROVE  ResearchInv'
<1> DEFINE now == (research.positions[f] * ratio[1]) \div ratio[2]
           own == [research.positions EXCEPT ![f] = now]
           r == [kind |-> "split", fund |-> f, ratio |-> ratio, at |-> t]
           due == research.receivables
           left == research.cash
<1>1. /\ research \in ResearchDoc /\ research.positions \in [EquityFunds -> Nat] /\ due \in Seq(Entitlement) /\ left \in Nat
      /\ t \in Int /\ Tallied(AuditOf(fillJournal), research) /\ ratio[1] \in Nat \ {0} /\ ratio[2] \in Nat \ {0}
  <2>1. research \in ResearchDoc /\ Booked(research, fillJournal)
    BY FundState
  <2>2. QED BY <2>1, DocFields, TimesAre, FundAmounts DEF Booked
<1>2. /\ research' = ActionApplied([research EXCEPT !.positions[f] = (@ * ratio[1]) \div ratio[2]], t)
      /\ fillJournal' = Append(fillJournal, r) /\ t >= research.appliedAt
      /\ research.positions[f] > 0 /\ (research.positions[f] * ratio[1]) % ratio[2] = 0
  BY DEF SplitAction, EntitlementAllowed, ActionAllowed
<1>3. now \in Nat /\ now > 0
  <2> DEFINE m == research.positions[f]
             n == ratio[1]
             d == ratio[2]
  <2>1. m \in Nat /\ m > 0 /\ n \in Nat \ {0} /\ d \in Nat \ {0} /\ (m * n) % d = 0
    BY <1>1, <1>2
  <2> HIDE DEF m, n, d
  <2>2. (m * n) \div d \in Nat /\ (m * n) \div d > 0
    BY <2>1, SplitWhole
  <2>3. QED BY <2>2 DEF m, n, d
<1>4. r \in FundRow /\ r.kind = "split"
  BY <1>1 DEF FundRow, SplitMade
<1>5. research' = [research EXCEPT !.positions = own, !.eventAt = t, !.appliedAt = t]
  <2>1. [research EXCEPT !.positions[f] = (@ * ratio[1]) \div ratio[2]] = [research EXCEPT !.positions = own]
    <3> HIDE DEF now
    <3>1. now = (research.positions[f] * ratio[1]) \div ratio[2]
      BY DEF now
    <3>2. QED BY <3>1 DEF ResearchDoc
  <2> HIDE DEF own
  <2>2. QED BY <1>1, <1>2, <2>1 DEF ActionApplied, ResearchDoc
<1> HIDE DEF now
<1>6. own \in [EquityFunds -> Nat] /\ own[f] = now /\ \A g \in EquityFunds \ {f} : own[g] = research.positions[g]
  BY <1>1, <1>3
<1> HIDE DEF own
<1>7. EventOf(research', t, left, own, due)
  BY <1>1, <1>5 DEF EventOf, ResearchDoc
<1>8. StillOwned(own)
  BY <1>3, <1>6 DEF StillOwned
<1> HIDE DEF left, due
<1>9. EventLeaves(research', t, left, own, due)
  BY <1>1, <1>6, <1>7, <1>8, EventFields
<1>10. Tallied(Audited(AuditOf(fillJournal), r), research')
  <2> DEFINE a == AuditOf(fillJournal)
             c == research'
             b == research
  <2>1. /\ c.cash = b.cash /\ c.receivables = b.receivables /\ b \in ResearchDoc /\ Tallied(a, b)
        /\ c.positions[f] = (b.positions[f] * ratio[1]) \div ratio[2]
        /\ b.positions[f] > 0 /\ (b.positions[f] * ratio[1]) % ratio[2] = 0
        /\ \A g \in EquityFunds \ {f} : c.positions[g] = b.positions[g]
    BY <1>1, <1>2, <1>6, <1>9 DEF left, due, now, EventLeaves
  <2> HIDE DEF a, c, b
  <2>2. Tallied(Audited(a, [kind |-> "split", fund |-> f, ratio |-> ratio, at |-> t]), c)
    BY <2>1, TallySplit
  <2>3. QED BY <2>2 DEF a, c
<1> HIDE DEF r
<1>11. QED BY <1>2, <1>4, <1>9, <1>10, EventBooked DEF EventLeaves

\* One receivable changed, the others as they were.
ClaimChanged(due, i, e) == DOMAIN due = DOMAIN research.receivables /\ due[i] = e /\ \A k \in DOMAIN due \ {i} : due[k] = research.receivables[k]

LEMMA ClaimChanges ==
  ASSUME ResearchInv, NEW i \in DOMAIN research.receivables, NEW e \in Entitlement
  PROVE  LET due == [research.receivables EXCEPT ![i] = e] IN due \in Seq(Entitlement) /\ ClaimChanged(due, i, e)
<1> DEFINE R == research.receivables
           due == [R EXCEPT ![i] = e]
<1>1. R \in Seq(Entitlement)
  BY FundState, DocFields
<1> HIDE DEF R
<1>2. DOMAIN R = 1..Len(R) /\ Len(R) \in Nat /\ R \in [1..Len(R) -> Entitlement]
  BY <1>1, LenProperties
<1>3. due \in [1..Len(R) -> Entitlement] /\ DOMAIN due = DOMAIN R /\ due[i] = e /\ \A k \in DOMAIN due \ {i} : due[k] = R[k]
  BY <1>2 DEF R
<1> HIDE DEF due
<1>4. due \in Seq(Entitlement)
  BY <1>2, <1>3
<1>5. ClaimChanged(due, i, e)
  BY <1>3 DEF ClaimChanged, R
<1>6. QED BY <1>4, <1>5 DEF due, R

LEMMA ClaimFields ==
  ASSUME ResearchInv, NEW i \in DOMAIN research.receivables
  PROVE  LET e == research.receivables[i]
         IN  e \in Entitlement /\ e.amount \in Nat /\ e.paid \in BOOLEAN /\ e = [fund |-> e.fund, amount |-> e.amount, paid |-> e.paid, payAt |-> e.payAt, since |-> e.since]
             /\ e.fund \in EquityFunds /\ e.since \in Int /\ e.payAt \in Int
<1> DEFINE R == research.receivables
           e == R[i]
<1>1. R \in Seq(Entitlement)
  BY FundState, DocFields
<1>2. e \in Entitlement
  BY <1>1, LenProperties, ElementOfSeq
<1> HIDE DEF e
<1>3. e.amount \in Nat /\ e.paid \in BOOLEAN /\ e.fund \in EquityFunds /\ e.since \in Int /\ e.payAt \in Int
      /\ e = [fund |-> e.fund, amount |-> e.amount, paid |-> e.paid, payAt |-> e.payAt, since |-> e.since]
  BY <1>2 DEF Entitlement
<1>4. QED BY <1>2, <1>3 DEF e

LEMMA ScheduleBooked ==
  ASSUME ResearchInv, operations' \in 0..MaxOperations, NEW t \in Times, NEW i \in DOMAIN research.receivables, NEW payAt \in Times,
         DividendSchedule(t, i, payAt)
  PROVE  ResearchInv'
<1> DEFINE R == research.receivables
           old == R[i]
           e == [old EXCEPT !.payAt = payAt]
           due == [R EXCEPT ![i] = e]
           own == research.positions
           left == research.cash
<1>1. /\ research \in ResearchDoc /\ own \in [EquityFunds -> Nat] /\ left \in Nat /\ t \in Int /\ payAt \in Int
      /\ Tallied(AuditOf(fillJournal), research) /\ fillJournal \in Seq(FundRow)
  <2>1. research \in ResearchDoc /\ Booked(research, fillJournal)
    BY FundState
  <2>2. QED BY <2>1, DocFields, TimesAre DEF Booked
<1>2. /\ research' = ActionApplied([research EXCEPT !.receivables[i].payAt = payAt], t) /\ fillJournal' = fillJournal
      /\ t >= research.appliedAt
  BY DEF DividendSchedule, ActionAllowed
<1>3. e \in Entitlement /\ e.amount = R[i].amount /\ e.paid = R[i].paid
  <2>1. old \in Entitlement
    BY ClaimFields
  <2> HIDE DEF old
  <2>2. e \in Entitlement /\ e.amount = old.amount /\ e.paid = old.paid
    BY <1>1, <2>1 DEF Entitlement
  <2>3. QED BY <2>2 DEF old
<1>4. research' = [research EXCEPT !.receivables = due, !.eventAt = t, !.appliedAt = t]
  BY <1>1, <1>2 DEF ActionApplied, ResearchDoc
<1> HIDE DEF e
<1>5. due \in Seq(Entitlement) /\ ClaimChanged(due, i, e)
  BY <1>3, ClaimChanges
<1> HIDE DEF due
<1>6. EventOf(research', t, left, own, due)
  BY <1>1, <1>4 DEF EventOf, ResearchDoc
<1>7. StillOwned(own)
  BY DEF StillOwned
<1> HIDE DEF left, own
<1>8. EventLeaves(research', t, left, own, due)
  BY <1>1, <1>5, <1>6, <1>7, EventFields
<1>9. Booked(research', fillJournal')
  <2>1. \A k \in DOMAIN R : due[k].amount = R[k].amount /\ due[k].paid = R[k].paid
    BY <1>3, <1>5 DEF ClaimChanged
  <2> DEFINE a == AuditOf(fillJournal)
             c == research'
             b == research
  <2>2. /\ c.cash = b.cash /\ c.positions = b.positions /\ b \in ResearchDoc /\ Tallied(a, b)
        /\ c.receivables \in Seq(Entitlement) /\ DOMAIN c.receivables = DOMAIN b.receivables
        /\ \A k \in DOMAIN b.receivables : c.receivables[k].amount = b.receivables[k].amount /\ c.receivables[k].paid = b.receivables[k].paid
    BY <1>1, <1>5, <1>8, <2>1 DEF left, own, EventLeaves, ClaimChanged
  <2> HIDE DEF a, c, b, R
  <2>3. Tallied(a, c)
    BY <2>2, TallySchedule
  <2>4. c.cash >= 0
    BY <1>1, <1>8 DEF EventLeaves, c
  <2>5. QED BY <1>1, <1>2, <2>3, <2>4 DEF a, c, Booked
<1>10. BookDays(research', fillJournal, SessionOf(t)) /\ research'.pendingExits \subseteq Owned(research')
  BY <1>2, <1>8, EventDays DEF EventLeaves
<1>11. research' \in ResearchDoc /\ research'.appliedAt = t /\ research'.eventAt = t /\ research'.portfolioAt = research.portfolioAt
  BY <1>8 DEF EventLeaves, EventAfter
<1>12. QED BY <1>2, <1>9, <1>10, <1>11, FundState DEF ResearchInv

LEMMA PaymentBooked ==
  ASSUME ResearchInv, operations' \in 0..MaxOperations, NEW t \in Times, NEW i \in DOMAIN research.receivables, DividendPayment(t, i)
  PROVE  ResearchInv'
<1> DEFINE R == research.receivables
           old == R[i]
           e == [old EXCEPT !.paid = TRUE]
           due == [R EXCEPT ![i] = e]
           own == research.positions
           left == research.cash + old.amount
           r == [kind |-> "payment", dividend |-> i, at |-> t]
<1>1. /\ research \in ResearchDoc /\ own \in [EquityFunds -> Nat] /\ research.cash \in Nat /\ t \in Int
      /\ Tallied(AuditOf(fillJournal), research) /\ fillJournal \in Seq(FundRow) /\ i \in Nat /\ R \in Seq(Entitlement)
  <2>1. research \in ResearchDoc /\ Booked(research, fillJournal)
    BY FundState
  <2>2. /\ own \in [EquityFunds -> Nat] /\ research.cash \in Nat /\ t \in Int /\ R \in Seq(Entitlement)
        /\ Tallied(AuditOf(fillJournal), research) /\ fillJournal \in Seq(FundRow)
    BY <2>1, DocFields, TimesAre DEF Booked
  <2>3. i \in Nat
    <3> HIDE DEF R
    <3>1. i \in DOMAIN R /\ DOMAIN R = 1..Len(R)
      BY <2>2, LenProperties DEF R
    <3>2. QED BY <3>1
  <2>4. QED BY <2>1, <2>2, <2>3
<1>2. /\ research' = ActionApplied([research EXCEPT !.cash = @ + old.amount, !.receivables[i].paid = TRUE], t)
      /\ fillJournal' = Append(fillJournal, r) /\ t >= research.appliedAt /\ ~R[i].paid
  BY DEF DividendPayment, ActionAllowed
<1>3. e \in Entitlement /\ e.amount = R[i].amount /\ e.paid = TRUE /\ old.amount \in Nat /\ R[i].paid = FALSE
  <2>1. old \in Entitlement /\ old.amount \in Nat /\ old.paid \in BOOLEAN /\ ~old.paid
    BY <1>2, ClaimFields
  <2> HIDE DEF old
  <2>2. e \in Entitlement /\ e.amount = old.amount /\ e.paid = TRUE
    BY <1>1, <2>1 DEF Entitlement
  <2>3. QED BY <2>1, <2>2 DEF old
<1>4. research' = [research EXCEPT !.cash = left, !.receivables = due, !.eventAt = t, !.appliedAt = t]
  BY <1>1, <1>2 DEF ActionApplied, ResearchDoc
<1>5. left \in Nat
  BY <1>1, <1>3
<1> HIDE DEF e
<1>6. due \in Seq(Entitlement) /\ ClaimChanged(due, i, e)
  BY <1>3, ClaimChanges
<1> HIDE DEF due, left
<1>7. EventOf(research', t, left, own, due)
  BY <1>1, <1>4 DEF EventOf, ResearchDoc
<1>8. StillOwned(own)
  BY DEF StillOwned
<1> HIDE DEF own
<1>9. EventLeaves(research', t, left, own, due)
  BY <1>1, <1>5, <1>6, <1>7, <1>8, EventFields
<1>10. Tallied(Audited(AuditOf(fillJournal), r), research')
  <2> DEFINE a == AuditOf(fillJournal)
             c == research'
             b == research
  <2>1. /\ c.cash = b.cash + b.receivables[i].amount /\ c.positions = b.positions /\ b \in ResearchDoc /\ Tallied(a, b)
        /\ i \in DOMAIN b.receivables /\ b.receivables[i].paid = FALSE
        /\ c.receivables \in Seq(Entitlement) /\ DOMAIN c.receivables = DOMAIN b.receivables
        /\ c.receivables[i].paid = TRUE /\ c.receivables[i].amount = b.receivables[i].amount
        /\ \A k \in DOMAIN b.receivables \ {i} : c.receivables[k] = b.receivables[k]
    BY <1>1, <1>3, <1>6, <1>9 DEF left, own, EventLeaves, ClaimChanged
  <2> HIDE DEF a, c, b, R
  <2>2. Tallied(Audited(a, [kind |-> "payment", dividend |-> i, at |-> t]), c)
    BY <2>1, TallyPayment
  <2>3. QED BY <2>2 DEF a, c
<1>11. r \in FundRow /\ r.kind = "payment"
  BY <1>1 DEF FundRow, PaymentMade
<1> HIDE DEF r, R
<1>12. QED BY <1>2, <1>9, <1>10, <1>11, EventBooked DEF EventLeaves

-----------------------------------------------------------------------------
(* The book as a whole.                                                    *)

\* The session of the time that stands for none is not before it.
LEMMA NoSession == NoTime \in Int /\ SessionOf(NoTime) \in Int /\ NoTime <= SessionOf(NoTime)
<1> DEFINE none == NoTime
           d == SlotsPerDay
           q == none \div d
           m == none % d
<1>1. none \in Int /\ none + 1 = 0
  BY DEF NoTime
<1>2. d \in Nat /\ d > 0
  BY FundAmounts
<1> HIDE DEF none, d
<1>3. q \in Int /\ m \in 0..(d - 1) /\ none = d * q + m
  BY <1>1, <1>2
<1> HIDE DEF q, m
<1>4. ASSUME none > q PROVE FALSE
  <2> DEFINE z == none - (q + 1)
             x == d * z
             y == d * (q + 1 + z)
  <2>1. z \in Nat /\ q + 1 + z = none
    BY <1>1, <1>3, <1>4
  <2>2. x \in Nat /\ y = d * none
    BY <1>2, <2>1
  <2>3. y + d = 0
    BY <1>1, <1>2, <2>2
  <2>4. y = d * q + d + x
    BY <1>2, <1>3, <2>1
  <2> DEFINE w == d * q
  <2>5. w \in Int /\ y = w + d + x /\ none = w + m
    BY <1>2, <1>3, <2>4
  <2> HIDE DEF w, x, y, z
  <2>6. QED BY <1>1, <1>2, <1>3, <2>2, <2>3, <2>5
<1>5. none <= q
  BY <1>1, <1>3, <1>4
<1>6. QED BY <1>1, <1>3, <1>5 DEF SessionOf, none, d, q

LEMMA ResearchBegins == ResearchInit => ResearchInv
<1> SUFFICES ASSUME ResearchInit PROVE ResearchInv
  OBVIOUS
<1> DEFINE blank == [cash |-> ResearchCash, positions |-> [f \in EquityFunds |-> 0], pendingExits |-> {},
                     day |-> 0, baseline |-> 0, halted |-> FALSE, batch |-> NoBatch,
                     attempted |-> [f \in EquityFunds |-> NoTime], closed |-> [f \in EquityFunds |-> NoTime],
                     appliedAt |-> NoTime, portfolioAt |-> NoTime, eventAt |-> NoTime, receivables |-> <<>>]
<1>1. research = blank /\ fillJournal = <<>> /\ operations = 0
  BY DEF ResearchInit
<1>2. ResearchCash \in Nat /\ MaxOperations \in Nat /\ NoTime \in Int
  BY FundAmounts, NoSession
<1>3. blank \in ResearchDoc
  <2>1. <<>> \in Seq(Entitlement)
    OBVIOUS
  <2> HIDE DEF NoBatch, NoTime, Entitlement
  <2>2. QED BY <1>2, <2>1 DEF ResearchDoc
<1>4. /\ blank.cash = ResearchCash /\ blank.receivables = <<>> /\ blank.pendingExits = {}
      /\ blank.appliedAt = NoTime /\ blank.portfolioAt = NoTime /\ blank.eventAt = NoTime
      /\ \A f \in EquityFunds : blank.positions[f] = 0 /\ blank.attempted[f] = NoTime /\ blank.closed[f] = NoTime
  OBVIOUS
<1> HIDE DEF blank
<1>5. <<>> \in Seq(FundRow) /\ DOMAIN <<>> = {} /\ Len(<<>>) = 0
  OBVIOUS
<1>6. NoAudit \in AuditDoc /\ NoAudit.cash = ResearchCash /\ NoAudit.receivables = <<>> /\ NoAudit.realized = 0
      /\ NoAudit.income = 0 /\ \A f \in EquityFunds : NoAudit.lots[f] = <<>>
  BY <1>2 DEF NoAudit, AuditDoc
<1>7. ReceivableValue(blank) = 0
  BY <1>5, SumOfNone, <1>4, ReceivablesWorth DEF ClaimsDue
<1>8. OpenCosts(NoAudit) = 0
  <2> DEFINE g == [f \in EquityFunds |-> LotCosts(NoAudit.lots[f])]
  <2>1. LotCosts(<<>>) = 0
    BY LotSums
  <2>2. IsFiniteSet(EquityFunds) /\ DOMAIN g = EquityFunds /\ \A f \in EquityFunds : g[f] = 0
    BY <1>6, <2>1, FundAmounts
  <2> HIDE DEF g
  <2>3. SumFunction(g) = 0
    BY <2>2, SumsAreInt DEF Summable
  <2>4. QED BY <2>3 DEF OpenCosts, g
<1>9. Tallied(NoAudit, blank)
  BY <1>4, <1>6, <1>5, <1>2, <1>7, <1>8 DEF OneLot, SameClaims, Tallied
<1>10. Booked(research, fillJournal)
  BY <1>1, <1>2, <1>4, <1>5, <1>9, AuditOfNone DEF Booked
<1>11. BookDays(research, fillJournal, SessionOf(research.appliedAt))
  BY <1>1, <1>4, <1>5, NoSession DEF BookDays, BookOrdered
<1>12. QED BY <1>1, <1>2, <1>3, <1>4, <1>10, <1>11 DEF ResearchInv

LEMMA ResearchKeeps == ResearchInv /\ [ResearchNext]_researchVars => ResearchInv'
<1> SUFFICES ASSUME ResearchInv, [ResearchNext]_researchVars PROVE ResearchInv'
  OBVIOUS
<1>1. CASE UNCHANGED researchVars
  BY <1>1 DEF researchVars, ResearchInv, Booked, BookDays, BookOrdered
<1>2. CASE ResearchNext
  <2>1. operations' \in 0..MaxOperations
    BY FundState, <1>2, FundAmounts DEF ResearchNext
  <2>2. ASSUME NEW t \in Times, SetDayBaseline(SessionOf(t), ResearchCash) PROVE ResearchInv'
    BY TimesAre, FundAmounts, <2>1, <2>2, FundBaselineSet
  <2>3. ASSUME NEW t \in Times, NEW actions \in [EquityFunds -> {"enter", "exit", "none"}],
               NEW date \in SessionOf(t)..SessionOf(LastTime), NEW prices \in Partial(EquityFunds), NEW p \in MarkPrices,
               PrepareBatch(t, actions, prices, p, OpenOf(date))
        PROVE  ResearchInv'
    <3> DEFINE at == OpenOf(date)
    <3>1. at \in Int
      BY FundAmounts DEF OpenOf
    <3>2. PrepareBatch(t, actions, prices, p, at)
      BY <2>3
    <3> HIDE DEF at
    <3>3. QED BY <2>1, <3>1, <3>2, FundsPrepared
  <2>4. ASSUME NEW t \in Times, NEW opens \in Partial(EquityFunds), NEW prices \in Partial(EquityFunds), ApplyBatch(t, opens, prices)
        PROVE  ResearchInv'
    BY <2>1, <2>4, FundsApplied
  <2>5. ASSUME NEW t \in Times, NEW f \in EquityFunds, NEW amount \in DividendAmounts, CashDividend(t, f, amount)
        PROVE  ResearchInv'
    BY <2>1, <2>5, DividendBooked
  <2>6. ASSUME NEW t \in Times, NEW f \in EquityFunds, NEW ratio \in SplitRatios, SplitAction(t, f, ratio) PROVE ResearchInv'
    BY <2>1, <2>6, SplitBooked
  <2>7. ASSUME NEW t \in Times, NEW i \in DOMAIN research.receivables, NEW payAt \in Times, DividendSchedule(t, i, payAt)
        PROVE  ResearchInv'
    BY <2>1, <2>7, ScheduleBooked
  <2>8. ASSUME NEW t \in Times, NEW i \in DOMAIN research.receivables, DividendPayment(t, i) PROVE ResearchInv'
    BY <2>1, <2>8, PaymentBooked
  <2>9. QED BY <1>2, <2>2, <2>3, <2>4, <2>5, <2>6, <2>7, <2>8 DEF ResearchNext, Operation
<1>3. QED BY <1>1, <1>2

LEMMA ResearchFollows == ResearchInv => ResearchTypeOK /\ ResearchBookIsSound
<1> SUFFICES ASSUME ResearchInv PROVE ResearchTypeOK /\ ResearchBookIsSound
  OBVIOUS
<1>1. /\ research \in ResearchDoc /\ operations \in 0..MaxOperations /\ research.pendingExits \subseteq Owned(research)
      /\ {research.appliedAt, research.portfolioAt, research.eventAt} \subseteq Times \cup {NoTime}
      /\ research.cash >= 0 /\ Tallied(Audit, research) /\ BookOrdered(fillJournal)
  BY DEF ResearchInv, Booked, BookDays, Audit
<1>2. ResearchTypeOK
  BY <1>1, DocFields DEF ResearchTypeOK
<1> DEFINE a == Audit
<1>3. /\ a \in AuditDoc /\ a.cash = research.cash /\ SameClaims(a.receivables, research.receivables)
      /\ a.cash + ReceivableValue(research) + OpenCosts(a) = ResearchCash + a.realized + a.income
      /\ \A f \in EquityFunds : OneLot(a.lots[f], research.positions[f])
  BY <1>1 DEF Tallied
<1>4. ReceivableValue(research) \in Int /\ OpenCosts(a) \in Int
  BY <1>1, ValueInt, CostsAreInt
<1> HIDE DEF a
<1>5. \A f \in EquityFunds : LotUnits(a.lots[f]) = research.positions[f] /\ research.positions[f] \in Nat
  BY <1>1, <1>3, DocFields, OneLotSums
<1>6. a.cash \in Int /\ a.realized \in Int /\ a.income \in Int /\ ResearchCash \in Int /\ a.receivables \in Seq(Claim)
  BY <1>3, AuditFields, FundAmounts
<1>7. ASSUME NEW p \in [EquityFunds -> MarkPrices]
      PROVE  LET v == SumFunction([f \in EquityFunds |-> LotUnits(a.lots[f]) * p[f]])
             IN  a.cash + v + ReceivableValue(research) - ResearchCash = a.realized + (v - OpenCosts(a)) + a.income
  <2> DEFINE g == [f \in EquityFunds |-> LotUnits(a.lots[f]) * p[f]]
             v == SumFunction(g)
             x == a.cash
             y == a.realized
             z == a.income
             r == ReceivableValue(research)
             c == OpenCosts(a)
             k == ResearchCash
  <2>1. \A f \in EquityFunds : g[f] \in Int
    <3> SUFFICES ASSUME NEW f \in EquityFunds PROVE g[f] \in Int
      OBVIOUS
    <3> DEFINE u == LotUnits(a.lots[f])
    <3>1. u \in Int /\ p[f] \in Int
      BY <1>5, FundAmounts
    <3> HIDE DEF u
    <3>2. u * p[f] \in Int
      BY <3>1
    <3>3. QED BY <3>2 DEF u
  <2>2. v \in Int
    <3>1. IsFiniteSet(EquityFunds) /\ DOMAIN g = EquityFunds
      BY FundAmounts
    <3>2. Summable(g, EquityFunds)
      BY <2>1, <3>1 DEF Summable
    <3> HIDE DEF g
    <3>3. QED BY <3>2, SumsAreInt
  <2>3. x \in Int /\ y \in Int /\ z \in Int /\ r \in Int /\ c \in Int /\ k \in Int /\ x + r + c = k + y + z
    BY <1>3, <1>4, <1>6
  <2> HIDE DEF v, x, y, z, r, c, k
  <2>4. x + v + r - k = y + (v - c) + z
    BY <2>2, <2>3
  <2>5. QED BY <2>4 DEF v, x, y, z, r, c, k
<1>8. BookReconciles
  <2>1. Len(a.receivables) = Len(research.receivables) /\ DOMAIN a.receivables = DOMAIN research.receivables
    BY <1>1, DocFields, <1>3, <1>6, LenProperties DEF SameClaims
  <2>2. \A i \in DOMAIN a.receivables : /\ a.receivables[i].amount = research.receivables[i].amount
                                        /\ a.receivables[i].paid = research.receivables[i].paid
    BY <1>3, <2>1 DEF SameClaims
  <2>3. QED BY <1>3, <1>5, <1>7, <2>1, <2>2 DEF BookReconciles, OpenCosts, a
<1>9. HaltLastsTheDay
  <2> SUFFICES ASSUME NEW i \in Rows("buy"), NEW j \in Rows("loss"), SameSession(i, j) PROVE i < j
    BY DEF HaltLastsTheDay
  <2>1. /\ i \in DOMAIN fillJournal /\ j \in DOMAIN fillJournal /\ fillJournal[i].kind = "buy" /\ fillJournal[j].kind = "loss"
        /\ SessionOf(fillJournal[i].at) = SessionOf(fillJournal[j].at)
    BY DEF Rows, SameSession
  <2>2. i # j
    BY <2>1
  <2>3. QED BY <1>1, <2>1, <2>2 DEF BookOrdered
<1>10. OneEntryPerSession
  <2> SUFFICES ASSUME NEW i \in Rows("buy"), NEW j \in Rows("buy") \cup Rows("sell"), i # j, SameSession(i, j),
                      fillJournal[i].fund = fillJournal[j].fund
               PROVE  i < j /\ fillJournal[j].kind = "sell"
    BY DEF OneEntryPerSession
  <2>1. /\ i \in DOMAIN fillJournal /\ j \in DOMAIN fillJournal /\ fillJournal[i].kind = "buy" /\ fillJournal[j].kind \in {"buy", "sell"}
        /\ SessionOf(fillJournal[i].at) = SessionOf(fillJournal[j].at)
    BY DEF Rows, SameSession
  <2>2. QED BY <1>1, <2>1 DEF BookOrdered
<1>11. QED BY <1>2, <1>8, <1>9, <1>10 DEF ResearchBookIsSound

LEMMA ResearchSteps ==
  ASSUME [ResearchSuiteNext]_suiteVars, Examined("portfolio")'
  PROVE  Examined("portfolio") /\ [ResearchNext]_researchVars
BY DEF ResearchSuiteNext, suiteVars, Steps, Examined, Studies, researchVars

LEMMA ResearchHolds == ResearchSuiteSpec => [](Examined("portfolio") => ResearchInv)
<1>1. ResearchSuiteInit => (Examined("portfolio") => ResearchInv)
  BY ResearchBegins DEF ResearchSuiteInit
<1>2. (Examined("portfolio") => ResearchInv) /\ [ResearchSuiteNext]_suiteVars => (Examined("portfolio") => ResearchInv)'
  BY ResearchSteps, ResearchKeeps
<1>3. QED BY <1>1, <1>2, PTL DEF ResearchSuiteSpec

-----------------------------------------------------------------------------
(* The books together.                                                     *)

\* However prepared batches, valuations, baselines, actions and premiums fall,
\* what each book says of its cash, its positions and its claims is what its
\* journal of fills adds up to, nothing is bought after its loss limit was seen
\* or twice in a session, and no entry is paid from proceeds not booked yet
\* (research/phase3_portfolio.py, phase3_options.py, phase3_benchmark.py,
\* phase3_accounting.py).
THEOREM BooksAlwaysReconcile == ResearchSuiteSpec => []BooksReconcile
<1>1. /\ Examined("portfolio") => ResearchInv
      /\ Examined("options") => OptionInv
      /\ Examined("control") => ControlInv
      => BooksReconcile
  BY ResearchFollows, OptionFollows, ControlFollows DEF BooksReconcile
<1>2. QED BY <1>1, ResearchHolds, OptionHolds, ControlHolds, PTL

\* Whatever they are fed, the replays, the store, the signals and the three
\* books stay within what the code declares of them.
THEOREM ResearchIsTyped == ResearchSuiteSpec => []ResearchTypesOK
<1>1. StoreInv => StoreTypeOK
  BY DEF StoreInv, StoreTypeOK
<1>2. /\ Examined("backtest") => BarInv
      /\ Examined("minutes") => MinuteInv
      /\ Examined("daily") => DailyInv
      /\ Examined("intraday") => IntradayInv
      /\ Examined("portfolio") => ResearchInv
      /\ Examined("store") => StoreInv
      /\ Examined("signals") => SignalInv
      /\ Examined("options") => OptionInv
      /\ Examined("control") => ControlInv
      => ResearchTypesOK
  BY <1>1, BarFollows, MinuteFollows, DailyFollows, IntradayFollows, ResearchFollows, SignalsFollow, OptionFollows,
     ControlFollows DEF ResearchTypesOK
<1>3. QED
  BY <1>2, BacktestHolds, MinutesHold, DailyHolds, IntradayHolds, ResearchHolds, StoreHolds, SignalsHold, OptionHolds,
     ControlHolds, PTL
=============================================================================
