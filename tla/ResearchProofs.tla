--------------------------- MODULE ResearchProofs ---------------------------
(***************************************************************************)
(* The research side of MCResearch, for every value of its constants: any  *)
(* runners, versions, funds, prices, horizons, limits and calendars.       *)
(*                                                                         *)
(* Each component has its own inductive invariant.  A step of the suite is *)
(* a step of one component and leaves the others alone, so what a          *)
(* component keeps the suite keeps.                                        *)
(***************************************************************************)
EXTENDS MCResearch, FiniteSetTheorems, SequenceTheorems, RunningSums, TLAPS

-----------------------------------------------------------------------------
(* Sums of functions, as the community modules fold them.                  *)

LEMMA SumIs ==
  ASSUME NEW f
  PROVE  SumFunction(f) = SetSum(f, DOMAIN f)
BY DEF SumFunction, SumFunctionOnSet, FoldFunctionOnSet, MapThenFoldSet, SetSum, SetSums, Pick

\* A sum is an integer, nothing adds up to 0, and naturals to a natural.
LEMMA SumType ==
  ASSUME NEW S, IsFiniteSet(S), NEW f, DOMAIN f = S, \A y \in S : f[y] \in Int
  PROVE  /\ SumFunction(f) \in Int
         /\ (\A y \in S : f[y] \in Nat) => SumFunction(f) \in Nat
         /\ (\A y \in S : f[y] = 0) => SumFunction(f) = 0
<1>1. SumFunction(f) = SetSum(f, S)
  BY SumIs
<1>2. SetSum(f, S) \in Int
  BY SetSumOrder
<1>3. ASSUME \A y \in S : f[y] = 0 PROVE SetSum(f, S) = 0
  BY <1>3, SetSumOfZero
<1>4. ASSUME \A y \in S : f[y] \in Nat PROVE SetSum(f, S) \in Nat
  <2> DEFINE z == [y \in S |-> 0]
  <2>1. /\ \A y \in S : z[y] \in Int /\ z[y] = 0
        /\ \A y \in S : z[y] <= f[y]
    BY <1>4
  <2> HIDE DEF z
  <2>2. SetSum(z, S) = 0
    BY <2>1, SetSumOfZero
  <2>3. SetSum(z, S) <= SetSum(f, S)
    BY <2>1, SetSumOrder
  <2>4. QED BY <1>2, <2>2, <2>3
<1>5. QED BY <1>1, <1>2, <1>3, <1>4

LEMMA SumAdds ==
  ASSUME NEW S, IsFiniteSet(S), NEW f, DOMAIN f = S, \A y \in S : f[y] \in Int,
         NEW g, DOMAIN g = S, \A y \in S : g[y] \in Int,
         NEW h, DOMAIN h = S, \A y \in S : h[y] = f[y] + g[y]
  PROVE  SumFunction(h) = SumFunction(f) + SumFunction(g)
BY SetSumAdds, SumIs

\* A sum over S is the sum over a part of it and the rest.
LEMMA SumSplits ==
  ASSUME NEW S, IsFiniteSet(S), NEW f, DOMAIN f = S, \A y \in S : f[y] \in Int,
         NEW T \in SUBSET S, NEW g, DOMAIN g = T, \A y \in T : g[y] = f[y],
         NEW h, DOMAIN h = S \ T, \A y \in S \ T : h[y] = f[y]
  PROVE  /\ SumFunction(f) = SumFunction(g) + SumFunction(h)
         /\ SumFunction(g) \in Int /\ SumFunction(h) \in Int
<1> DEFINE a == [y \in S |-> IF y \in T THEN g[y] ELSE 0]
           b == [y \in S |-> IF y \in S \ T THEN h[y] ELSE 0]
           gS == [y \in S |-> IF y \in T THEN g[y] ELSE 0]
           hS == [y \in S |-> IF y \in S \ T THEN h[y] ELSE 0]
<1>1. /\ \A y \in S : a[y] = IF y \in T THEN gS[y] ELSE 0
      /\ \A y \in S : b[y] = IF y \in S \ T THEN hS[y] ELSE 0
      /\ \A y \in S : a[y] \in Int /\ b[y] \in Int /\ gS[y] \in Int /\ hS[y] \in Int /\ f[y] = a[y] + b[y]
      /\ \A y \in T : gS[y] = g[y]
      /\ \A y \in S \ T : hS[y] = h[y]
  OBVIOUS
<1> HIDE DEF a, b, gS, hS
<1>2. IsFiniteSet(T) /\ IsFiniteSet(S \ T) /\ S \ T \in SUBSET S
  BY FS_Subset
<1>3. SetSum(gS, T) = SetSum(a, S) /\ SetSum(hS, S \ T) = SetSum(b, S)
  BY <1>1, SetSumRestricts, <1>2
<1>4. SetSum(f, S) = SetSum(a, S) + SetSum(b, S)
  BY <1>1, SetSumAdds
<1>5. SetSum(gS, T) = SetSum(g, T) /\ SetSum(g, T) \in Int
  BY <1>1, <1>2, SetSumOrder
<1>6. SetSum(hS, S \ T) = SetSum(h, S \ T) /\ SetSum(h, S \ T) \in Int
  <2> DEFINE R == S \ T
  <2>1. /\ \A y \in R : hS[y] \in Int /\ h[y] \in Int
        /\ \A y \in R : hS[y] <= h[y] /\ h[y] <= hS[y]
        /\ IsFiniteSet(R)
    BY <1>1, <1>2
  <2> HIDE DEF R
  <2>2. SetSum(hS, R) <= SetSum(h, R) /\ SetSum(hS, R) \in Int /\ SetSum(h, R) \in Int
    BY <2>1, SetSumOrder
  <2>3. SetSum(h, R) <= SetSum(hS, R)
    BY <2>1, SetSumOrder
  <2>4. QED BY <2>2, <2>3 DEF R
<1>7. SumFunction(f) = SetSum(f, S) /\ SumFunction(g) = SetSum(g, T) /\ SumFunction(h) = SetSum(h, S \ T)
  BY SumIs
<1>8. QED BY <1>3, <1>4, <1>5, <1>6, <1>7

\* One element more.
LEMMA SumGains ==
  ASSUME NEW S, IsFiniteSet(S), NEW f, DOMAIN f = S, \A y \in S : f[y] \in Int,
         NEW x, x \notin S, NEW g, DOMAIN g = S \cup {x}, \A y \in S : g[y] = f[y], g[x] \in Int
  PROVE  SumFunction(g) = SumFunction(f) + g[x] /\ SumFunction(f) \in Int
<1> DEFINE D == S \cup {x}
           o == [y \in {x} |-> g[y]]
<1>1. IsFiniteSet(D) /\ IsFiniteSet({x})
  BY FS_AddElement, FS_Singleton
<1>2. /\ DOMAIN g = D /\ \A y \in D : g[y] \in Int
      /\ DOMAIN o = {x} /\ \A y \in {x} : o[y] = g[y] /\ o[y] \in Int
      /\ DOMAIN f = D \ {x} /\ \A y \in D \ {x} : f[y] = g[y]
  OBVIOUS
<1>a. {x} \in SUBSET D
  OBVIOUS
<1> HIDE DEF D, o
<1>3. SumFunction(g) = SumFunction(o) + SumFunction(f) /\ SumFunction(o) \in Int /\ SumFunction(f) \in Int
  <2> DEFINE T == {x}
  <2>1. /\ T \in SUBSET D /\ DOMAIN o = T /\ \A y \in T : o[y] = g[y]
        /\ DOMAIN f = D \ T /\ \A y \in D \ T : f[y] = g[y]
    BY <1>2, <1>a
  <2> HIDE DEF T
  <2>2. QED BY <1>1, <1>2, <2>1, SumSplits
<1>4. SumFunction(o) = g[x]
  <2>1. SumFunction(o) = SetSum(o, {x}) /\ IsSetSums(SetSums(o, {x}), o, {x})
    BY <1>1, <1>2, SumIs, SetSumsAre
  <2>2. Pick({x}) = x
    BY DEF Pick
  <2>3. SetSums(o, {x})[{x}] = o[x] + SetSums(o, {x})[{x} \ {x}]
    BY <2>1, <2>2 DEF IsSetSums
  <2>4. {x} \ {x} = {} /\ SetSums(o, {x})[{}] = 0
    BY <2>1 DEF IsSetSums
  <2>5. o[x] = g[x] /\ o[x] \in Int
    BY <1>2
  <2>6. SumFunction(o) = o[x] + 0
    BY <2>1, <2>3, <2>4 DEF SetSum
  <2>7. QED BY <2>5, <2>6
<1>5. QED BY <1>3, <1>4, <1>2

\* Two functions that differ at x alone.
LEMMA SumChanges ==
  ASSUME NEW S, IsFiniteSet(S), NEW f, DOMAIN f = S, \A y \in S : f[y] \in Int,
         NEW x \in S, NEW g, DOMAIN g = S, \A y \in S \ {x} : g[y] = f[y], g[x] \in Int
  PROVE  SumFunction(g) = SumFunction(f) + (g[x] - f[x]) /\ SumFunction(f) \in Int
<1>1. /\ \A y \in S : g[y] \in Int
      /\ g[x] - f[x] \in Int
      /\ \A y \in S : g[y] = IF y = x THEN f[y] + (g[x] - f[x]) ELSE f[y]
  OBVIOUS
<1>2. SetSum(g, S) = SetSum(f, S) + (g[x] - f[x])
  <2> DEFINE d == g[x] - f[x]
  <2>1. d \in Int /\ \A y \in S : g[y] = IF y = x THEN f[y] + d ELSE f[y]
    BY <1>1
  <2> HIDE DEF d
  <2>2. SetSum(g, S) = SetSum(f, S) + d
    BY <1>1, <2>1, SetSumDiffers
  <2>3. QED BY <2>2 DEF d
<1>3. QED BY <1>2, SumIs, SumType

-----------------------------------------------------------------------------
(* The same, with what is asked of the functions under a name.             *)

Summable(f, S) == IsFiniteSet(S) /\ DOMAIN f = S /\ \A y \in S : f[y] \in Int
Restricted(g, f, T) == DOMAIN g = T /\ \A y \in T : g[y] = f[y]

LEMMA SumOfParts ==
  ASSUME NEW S, NEW f, Summable(f, S), NEW T \in SUBSET S, NEW g, Restricted(g, f, T), NEW h, Restricted(h, f, S \ T)
  PROVE  /\ SumFunction(f) = SumFunction(g) + SumFunction(h)
         /\ SumFunction(f) \in Int /\ SumFunction(g) \in Int /\ SumFunction(h) \in Int
BY SumSplits DEF Summable, Restricted

LEMMA SumOfSums ==
  ASSUME NEW S, NEW f, Summable(f, S), NEW g, Summable(g, S), NEW h, DOMAIN h = S, \A y \in S : h[y] = f[y] + g[y]
  PROVE  SumFunction(h) = SumFunction(f) + SumFunction(g) /\ SumFunction(f) \in Int /\ SumFunction(g) \in Int
BY SumAdds, SumType DEF Summable

Grown(g, f, S, x) == x \notin S /\ DOMAIN g = S \cup {x} /\ g[x] \in Int /\ \A y \in S : g[y] = f[y]

LEMMA SumOfOneMore ==
  ASSUME NEW S, NEW f, Summable(f, S), NEW x, NEW g, Grown(g, f, S, x)
  PROVE  SumFunction(g) = SumFunction(f) + g[x] /\ SumFunction(f) \in Int
<1>1. IsFiniteSet(S) /\ DOMAIN f = S /\ \A y \in S : f[y] \in Int
  BY DEF Summable
<1>2. x \notin S /\ DOMAIN g = S \cup {x} /\ g[x] \in Int /\ \A y \in S : g[y] = f[y]
  BY DEF Grown
<1>3. QED BY <1>1, <1>2, SumGains, SMTT(60)

LEMMA SumsAreInt ==
  ASSUME NEW S, NEW f, Summable(f, S)
  PROVE  SumFunction(f) \in Int /\ ((\A y \in S : f[y] = 0) => SumFunction(f) = 0)
BY SumType DEF Summable

\* Functions that agree have one sum.
LEMMA SumOfSame ==
  ASSUME NEW S, NEW f, Summable(f, S), NEW g, DOMAIN g = S, \A y \in S : g[y] = f[y]
  PROVE  SumFunction(g) = SumFunction(f)
BY SetSumOrder, SumIs DEF Summable

\* A sum does not change when its terms are given other names.
LEMMA SumRenamed ==
  ASSUME NEW S, NEW f, Summable(f, S), NEW T, NEW g, DOMAIN g = T, NEW h, \A x \in S : h[x] \in T /\ g[h[x]] = f[x],
         \A x, y \in S : h[x] = h[y] => x = y, \A t \in T : \E x \in S : h[x] = t
  PROVE  Summable(g, T) /\ SumFunction(g) = SumFunction(f)
<1> DEFINE img(s) == {h[x] : x \in s}
           piece(s) == [x \in s |-> f[x]]
           over(s) == [t \in img(s) |-> g[t]]
           G == {s \in SUBSET S : SumFunction(over(s)) = SumFunction(piece(s))}
<1>1. ASSUME NEW s \in SUBSET S PROVE Summable(piece(s), s) /\ IsFiniteSet(img(s)) /\ Summable(over(s), img(s))
  BY FS_Subset, FiniteImage DEF Summable
<1>2. {} \in G
  <2>1. Summable(piece({}), {}) /\ Summable(over({}), img({})) /\ img({}) = {} /\ {} \in SUBSET S
    BY <1>1
  <2>2. SumFunction(piece({})) = 0 /\ SumFunction(over({})) = 0
    <3> HIDE DEF piece, over, img
    <3>1. QED BY <2>1, SumsAreInt
  <2>3. QED BY <2>1, <2>2
<1>3. ASSUME NEW s \in SUBSET S, s # {}, s \ {Pick(s)} \in G PROVE s \in G
  <2> DEFINE p == Pick(s)
             r == s \ {p}
             pf == piece(s)
             pr == piece(r)
             og == over(s)
             qr == over(r)
             ir == img(r)
             hp == h[p]
  <2>1. p \in s /\ p \in S
    BY <1>3 DEF Pick
  <2>2. r \in SUBSET S /\ p \notin r /\ s = r \cup {p}
    BY <2>1
  <2>3. Summable(pr, r) /\ Summable(qr, ir)
    BY <1>1, <2>2
  <2>4. DOMAIN pf = r \cup {p} /\ pf[p] \in Int /\ (\A y \in r : pf[y] = pr[y]) /\ pf[p] = f[p]
    BY <2>1, <2>2 DEF Summable
  <2>5. img(s) = ir \cup {hp} /\ hp \notin ir
    BY <2>1, <2>2
  <2>6. DOMAIN og = ir \cup {hp} /\ og[hp] \in Int /\ (\A y \in ir : og[y] = qr[y]) /\ og[hp] = f[p]
    BY <2>1, <2>5 DEF Summable
  <2>7. SumFunction(qr) = SumFunction(pr)
    BY <1>3
  <2> HIDE DEF p, r, pf, pr, og, qr, ir, hp, piece, over, img
  <2>8. SumFunction(pf) = SumFunction(pr) + pf[p]
    <3>1. Grown(pf, pr, r, p)
      BY <2>2, <2>4 DEF Grown
    <3>2. QED BY <2>3, <3>1, SumOfOneMore
  <2>9. SumFunction(og) = SumFunction(qr) + og[hp]
    <3>1. Grown(og, qr, ir, hp)
      BY <2>5, <2>6 DEF Grown
    <3>2. QED BY <2>3, <3>1, SumOfOneMore
  <2>10. SumFunction(over(s)) = SumFunction(piece(s))
    BY <2>4, <2>6, <2>7, <2>8, <2>9 DEF og, pf
  <2>11. QED BY <2>10 DEF over, piece, img
<1>4. S \in G
  <2>1. IsFiniteSet(S) /\ S \in SUBSET S
    BY DEF Summable
  <2> HIDE DEF G
  <2>2. QED BY <1>2, <1>3, <2>1, SubsetInduction
<1>5. img(S) = T
  OBVIOUS
<1>6. SumFunction([t \in T |-> g[t]]) = SumFunction([x \in S |-> f[x]]) /\ Summable([t \in T |-> g[t]], T)
  BY <1>1, <1>4, <1>5
<1>7. Summable(g, T)
  BY <1>6 DEF Summable
<1>8. SumFunction([t \in T |-> g[t]]) = SumFunction(g) /\ SumFunction([x \in S |-> f[x]]) = SumFunction(f)
  <2> DEFINE a == [t \in T |-> g[t]]
             b == [x \in S |-> f[x]]
  <2>1. DOMAIN a = T /\ DOMAIN b = S /\ (\A t \in T : a[t] = g[t]) /\ (\A x \in S : b[x] = f[x])
    OBVIOUS
  <2> HIDE DEF a, b
  <2>2. SumFunction(a) = SumFunction(g)
    BY <1>7, <2>1, SumOfSame
  <2>3. SumFunction(b) = SumFunction(f)
    BY <2>1, SumOfSame
  <2>4. QED BY <2>2, <2>3 DEF a, b
<1>9. QED BY <1>6, <1>7, <1>8

\* What is owed: claims of an amount, each from a corporate action.
Owing(claimed) == SumFunction([k \in claimed |-> k.amount])
Payouts(claimed) == IsFiniteSet(claimed) /\ \A k \in claimed : k.amount \in Int

LEMMA OwingSplits ==
  ASSUME NEW claimed, Payouts(claimed), NEW settled \in SUBSET claimed
  PROVE  /\ Owing(claimed) = Owing(settled) + Owing(claimed \ settled)
         /\ Owing(claimed) \in Int /\ Owing(settled) \in Int /\ Owing(claimed \ settled) \in Int
         /\ Payouts(settled) /\ Payouts(claimed \ settled)
<1> DEFINE f == [k \in claimed |-> k.amount]
           g == [k \in settled |-> k.amount]
           h == [k \in claimed \ settled |-> k.amount]
<1>1. Summable(f, claimed) /\ Restricted(g, f, settled) /\ Restricted(h, f, claimed \ settled)
  BY DEF Summable, Restricted, Payouts
<1>2. Payouts(settled) /\ Payouts(claimed \ settled)
  BY FS_Subset DEF Payouts
<1> HIDE DEF f, g, h
<1>3. SumFunction(f) = SumFunction(g) + SumFunction(h) /\ SumFunction(f) \in Int /\ SumFunction(g) \in Int /\ SumFunction(h) \in Int
  BY <1>1, SumOfParts
<1>4. QED BY <1>2, <1>3 DEF Owing, f, g, h

\* New claims owe what their funds were credited with.
Credits(new, credit, D) ==
  /\ IsFiniteSet(D) /\ DOMAIN credit = D /\ \A s \in D : credit[s] \in Nat
  /\ \A k \in new : k.event.symbol \in D /\ k.amount = credit[k.event.symbol] /\ k.amount > 0
  /\ \A k, l \in new : k.event.symbol = l.event.symbol => k = l
  /\ \A s \in D : credit[s] > 0 => \E k \in new : k.event.symbol = s

LEMMA OwingGrows ==
  ASSUME NEW claimed, Payouts(claimed), NEW new, NEW credit, NEW D, Credits(new, credit, D), claimed \cap new = {}
  PROVE  /\ Owing(claimed \cup new) = Owing(claimed) + SumFunction(credit)
         /\ Payouts(claimed \cup new) /\ SumFunction(credit) \in Int
<1> DEFINE P == {s \in D : credit[s] > 0}
           pos == [s \in P |-> credit[s]]
           rest == [s \in D \ P |-> credit[s]]
           of == [s \in P |-> CHOOSE k \in new : k.event.symbol = s]
           amount == [k \in new |-> k.amount]
<1>1. Summable(credit, D) /\ P \in SUBSET D /\ Restricted(pos, credit, P) /\ Restricted(rest, credit, D \ P)
  BY DEF Credits, Summable, Restricted
<1>2. Summable(pos, P)
  BY FS_Subset DEF Credits, Summable
<1>3. Summable(rest, D \ P) /\ \A s \in D \ P : rest[s] = 0
  BY FS_Subset DEF Credits, Summable
<1>4. \A s \in P : of[s] \in new /\ of[s].event.symbol = s /\ amount[of[s]] = pos[s]
  BY DEF Credits
<1>5. \A s, t \in P : of[s] = of[t] => s = t
  <2> SUFFICES ASSUME NEW s \in P, NEW t \in P, of[s] = of[t] PROVE s = t
    OBVIOUS
  <2> DEFINE a == of[s]
             b == of[t]
  <2>1. a.event.symbol = s /\ b.event.symbol = t
    BY <1>4
  <2>2. a = b
    OBVIOUS
  <2> HIDE DEF a, b
  <2>3. QED BY <2>1, <2>2
<1>6. ASSUME NEW k \in new PROVE \E s \in P : of[s] = k
  BY <1>4 DEF Credits
<1>7. DOMAIN amount = new
  OBVIOUS
<1> HIDE DEF P, pos, rest, of, amount
<1>8. SumFunction(credit) = SumFunction(pos) + SumFunction(rest) /\ SumFunction(credit) \in Int
  BY <1>1, SumOfParts
<1>9. SumFunction(rest) = 0 /\ SumFunction(pos) \in Int
  BY <1>2, <1>3, SumsAreInt
<1>10. Summable(amount, new) /\ SumFunction(amount) = SumFunction(pos)
  BY <1>2, <1>4, <1>5, <1>6, <1>7, SumRenamed
<1>11. Owing(new) = SumFunction(credit) /\ Payouts(new)
  BY <1>10, <1>8, <1>9 DEF Summable, amount, Owing, Payouts
<1>12. Payouts(claimed \cup new)
  BY <1>11, FS_Union DEF Payouts
<1>13. (claimed \cup new) \ new = claimed /\ new \in SUBSET (claimed \cup new)
  OBVIOUS
<1>14. Owing(claimed \cup new) = Owing(new) + Owing(claimed) /\ Owing(claimed) \in Int /\ Owing(new) \in Int
  BY <1>12, <1>13, OwingSplits
<1>15. QED BY <1>8, <1>11, <1>12, <1>14

-----------------------------------------------------------------------------
(* The store.  The runner that holds the lock knows the rows it has read,  *)
(* and nobody else writes a row.                                           *)

LEMMA StoreSteps ==
  ASSUME [ResearchSuiteNext]_suiteVars, Examined("store")'
  PROVE  Examined("store") /\ [StoreNext]_storeVars
BY DEF ResearchSuiteNext, suiteVars, Steps, Examined, Studies, storeVars

Computations == [inputs : OperationInputs, by : SourceVersions]

BatchRow ==
  [id : OperationIds, inputs : OperationInputs, input : Seq(Computations), state : Seq(Computations)]

RunnerStates ==
  {Gone}
  \cup [at : {"idle"}, loaded : SourceVersions]
  \cup [at : {"called", "begun"}, loaded : SourceVersions, id : OperationIds, inputs : OperationInputs,
        implementation : SourceVersions]
  \cup [at : {"computed", "writing", "committed"}, loaded : SourceVersions, implementation : SourceVersions,
        row : BatchRow]

\* The lock is held by exactly the runner between BEGIN IMMEDIATE and its end.
LockIsHeld ==
  \A r \in Runners : runners[r].at \in {"begun", "computed", "writing"} <=> databaseLock = r

\* A process was called with the version it had loaded.
CallsAreLoaded ==
  \A r \in Runners :
    runners[r].at \in {"called", "begun", "computed", "writing", "committed"}
      => runners[r].implementation = runners[r].loaded

\* What a process is about to write continues the rows there are.
RowsContinue ==
  \A r \in Runners :
    runners[r].at \in {"computed", "writing"} =>
      /\ Accepted(r) /\ Stored(runners[r].row.id) = {} /\ Len(batchRows) < MaxBatches
      /\ runners[r].row.input = StateOf(batchRows)
      /\ runners[r].row.state = Append(StateOf(batchRows), [inputs |-> runners[r].row.inputs, by |-> runners[r].loaded])

\* What a process has committed is stored.
CommitsAreStored ==
  \A r \in Runners : runners[r].at = "committed" => runners[r].row \in Range(batchRows)

\* What callers were told is of its type and what the rows say.
AnswersAreStored ==
  /\ answered \subseteq [id : OperationIds, inputs : OperationInputs, result : Seq(Computations)]
  /\ OneResultPerId

StoreInv ==
  /\ sourceOnDisk \in SourceVersions /\ runRow \in SourceVersions \cup {0}
  /\ databaseLock \in Runners \cup {NoRunner} /\ runners \in [Runners -> RunnerStates]
  /\ batchRows \in Seq(BatchRow) /\ Len(batchRows) <= MaxBatches
  /\ \A n \in DOMAIN batchRows : batchRows[n].state # <<>>
  /\ runRow = 0 <=> batchRows = <<>>
  /\ LockIsHeld /\ CallsAreLoaded /\ RowsContinue /\ CommitsAreStored
  /\ OneChain /\ OneImplementation /\ AnswersAreStored

LEMMA StoreBegins == StoreInit => StoreInv
<1> SUFFICES ASSUME StoreInit PROVE StoreInv
  OBVIOUS
<1> USE DEF StoreInit
<1>1. sourceOnDisk \in SourceVersions /\ MaxBatches \in Nat /\ NoRunner \notin Runners
  BY StoreAssumption DEF NoRunner
<1>2. runners \in [Runners -> RunnerStates] /\ \A r \in Runners : runners[r].at = "gone"
  BY DEF RunnerStates, Gone
<1>3. batchRows = <<>> /\ DOMAIN batchRows = {} /\ Len(batchRows) = 0 /\ batchRows \in Seq(BatchRow)
  OBVIOUS
<1>4. LockIsHeld /\ CallsAreLoaded /\ RowsContinue /\ CommitsAreStored
  BY <1>1, <1>2 DEF LockIsHeld, CallsAreLoaded, RowsContinue, CommitsAreStored
<1>5. OneChain /\ OneImplementation /\ AnswersAreStored
  BY <1>3 DEF OneChain, Verified, OneImplementation, AnswersAreStored, OneResultPerId
<1>6. QED BY <1>1, <1>2, <1>3, <1>4, <1>5 DEF StoreInv

\* The rows before the n-th leave the state of the one before it.
LEMMA StateBefore ==
  ASSUME NEW journal \in Seq(BatchRow), NEW n \in 1..Len(journal)
  PROVE  StateOf(SubSeq(journal, 1, n - 1)) = IF n = 1 THEN <<>> ELSE journal[n - 1].state
<1>1. CASE n = 1
  BY <1>1 DEF StateOf
<1>2. CASE n # 1
  <2> DEFINE s == SubSeq(journal, 1, n - 1)
  <2>1. s \in Seq(BatchRow) /\ Len(s) = n - 1 /\ s[n - 1] = journal[n - 1]
    BY <1>2
  <2>2. s # <<>>
    BY <2>1, <1>2
  <2>3. QED BY <1>2, <2>1, <2>2 DEF StateOf, Last
<1>3. QED BY <1>1, <1>2

\* A step of one process that writes no row.
LEMMA RunnerMoves ==
  ASSUME StoreInv, NEW r \in Runners, NEW new \in RunnerStates,
         runners' = [runners EXCEPT ![r] = new],
         UNCHANGED <<batchRows, runRow, sourceOnDisk>>, AnswersAreStored',
         databaseLock' \in Runners \cup {NoRunner},
         \A s \in Runners \ {r} : databaseLock' = s <=> databaseLock = s,
         new.at \in {"begun", "computed", "writing"} <=> databaseLock' = r,
         new.at \in {"called", "begun", "computed", "writing", "committed"} => new.implementation = new.loaded,
         new.at \in {"computed", "writing"} =>
           /\ runRow \in {0, new.implementation} /\ Verified(batchRows)
           /\ Stored(new.row.id) = {} /\ Len(batchRows) < MaxBatches
           /\ new.row.input = StateOf(batchRows)
           /\ new.row.state = Append(StateOf(batchRows), [inputs |-> new.row.inputs, by |-> new.loaded]),
         new.at = "committed" => new.row \in Range(batchRows)
  PROVE  StoreInv'
<1>1. /\ runners' \in [Runners -> RunnerStates] /\ runners'[r] = new
      /\ \A s \in Runners \ {r} : runners'[s] = runners[s]
  BY DEF StoreInv
<1>2. LockIsHeld'
  BY <1>1 DEF StoreInv, LockIsHeld
<1>3. CallsAreLoaded'
  BY <1>1 DEF StoreInv, CallsAreLoaded
<1>4. RowsContinue'
  <2> SUFFICES ASSUME NEW s \in Runners, runners'[s].at \in {"computed", "writing"}
               PROVE  /\ Accepted(s)' /\ Stored(runners'[s].row.id) = {} /\ Len(batchRows) < MaxBatches
                      /\ runners'[s].row.input = StateOf(batchRows)
                      /\ runners'[s].row.state =
                           Append(StateOf(batchRows), [inputs |-> runners'[s].row.inputs, by |-> runners'[s].loaded])
    BY DEF RowsContinue, Stored
  <2>1. CASE s = r
    BY <2>1, <1>1 DEF Accepted
  <2>2. CASE s # r
    BY <2>2, <1>1 DEF StoreInv, RowsContinue, Accepted
  <2>3. QED BY <2>1, <2>2
<1>5. CommitsAreStored'
  BY <1>1 DEF StoreInv, CommitsAreStored
<1>6. (OneChain /\ OneImplementation)'
  BY DEF StoreInv, OneChain, OneImplementation
<1>7. QED BY <1>1, <1>2, <1>3, <1>4, <1>5, <1>6 DEF StoreInv

LEMMA StoreStands ==
  ASSUME StoreInv, UNCHANGED <<runners, databaseLock, runRow, batchRows, answered>>, sourceOnDisk' \in SourceVersions
  PROVE  StoreInv'
BY DEF StoreInv, AnswersAreStored, OneResultPerId, OneChain, OneImplementation, RowsContinue, Accepted, Stored,
  LockIsHeld, CallsAreLoaded, CommitsAreStored

\* What a process may be, field by field.
LEMMA RunnerFields ==
  ASSUME StoreInv, NEW r \in Runners
  PROVE  /\ runners[r] = Gone \/ runners[r].loaded \in SourceVersions
         /\ runners[r].at # "gone" <=> runners[r] # Gone
         /\ runners[r].at \in {"called", "begun"} =>
              runners[r] \in [at : {"called", "begun"}, loaded : SourceVersions, id : OperationIds,
                              inputs : OperationInputs, implementation : SourceVersions]
         /\ runners[r].at \in {"computed", "writing", "committed"} =>
              runners[r] \in [at : {"computed", "writing", "committed"}, loaded : SourceVersions,
                              implementation : SourceVersions, row : BatchRow]
BY DEF StoreInv, RunnerStates, Gone

LEMMA RollsBack ==
  ASSUME StoreInv, NEW r \in Runners, runners[r].at \in {"begun", "computed"}, Rollback(r)
  PROVE  StoreInv'
<1>1. Idle(r) \in RunnerStates /\ Idle(r).at = "idle"
  BY RunnerFields DEF Idle, RunnerStates, Gone
<1>2. databaseLock = r /\ NoRunner \notin Runners
  BY StoreAssumption DEF StoreInv, LockIsHeld, NoRunner
<1>3. runners' = [runners EXCEPT ![r] = Idle(r)] /\ databaseLock' = NoRunner
      /\ UNCHANGED <<sourceOnDisk, runRow, batchRows, answered>>
  BY DEF Rollback
<1>4. AnswersAreStored'
  BY <1>3 DEF StoreInv, AnswersAreStored, OneResultPerId
<1>5. QED BY <1>1, <1>2, <1>3, <1>4, RunnerMoves

LEMMA StoreEarlySteps ==
  ASSUME StoreInv, NEW r \in Runners,
         \/ ImportCode(r) \/ BeginImmediate(r) \/ LockTimeout(r) \/ Kill(r) \/ CheckAgain(r)
         \/ \E id \in OperationIds, inputs \in OperationInputs : RecordOperation(r, id, inputs)
  PROVE  StoreInv'
<1> USE DEF StoreInv
<1>1. /\ NoRunner \notin Runners /\ sourceOnDisk \in SourceVersions
      /\ runners[r].at \in {"begun", "computed", "writing"} <=> databaseLock = r
  BY StoreAssumption DEF NoRunner, LockIsHeld
<1>2. CASE ImportCode(r)
  <2> DEFINE new == [at |-> "idle", loaded |-> sourceOnDisk]
  <2>1. new \in RunnerStates /\ runners[r].at = "gone"
    BY <1>1, <1>2 DEF ImportCode, RunnerStates, Gone
  <2>2. AnswersAreStored'
    BY <1>2 DEF ImportCode, AnswersAreStored, OneResultPerId
  <2>3. QED BY <1>1, <1>2, <2>1, <2>2, RunnerMoves DEF ImportCode
<1>3. CASE BeginImmediate(r)
  <2> DEFINE new == [runners[r] EXCEPT !.at = "begun"]
  <2>1. /\ new \in RunnerStates /\ new.at = "begun" /\ new.implementation = new.loaded
        /\ runners' = [runners EXCEPT ![r] = new]
    BY <1>3, RunnerFields DEF BeginImmediate, RunnerStates, CallsAreLoaded
  <2>2. AnswersAreStored'
    BY <1>3 DEF BeginImmediate, AnswersAreStored, OneResultPerId
  <2>3. databaseLock' = r /\ databaseLock = NoRunner /\ UNCHANGED <<batchRows, runRow, sourceOnDisk>>
    BY <1>3 DEF BeginImmediate
  <2> HIDE DEF new
  <2>4. QED BY <1>1, <2>1, <2>2, <2>3, RunnerMoves
<1>4. CASE LockTimeout(r)
  <2>1. Idle(r) \in RunnerStates /\ Idle(r).at = "idle"
    BY <1>4, RunnerFields DEF LockTimeout, Idle, RunnerStates, Gone
  <2>2. AnswersAreStored'
    BY <1>4 DEF LockTimeout, AnswersAreStored, OneResultPerId
  <2>3. /\ runners' = [runners EXCEPT ![r] = Idle(r)] /\ runners[r].at = "called"
        /\ UNCHANGED <<sourceOnDisk, databaseLock, runRow, batchRows, answered>>
    BY <1>4 DEF LockTimeout
  <2>4. QED BY <1>1, <2>1, <2>2, <2>3, RunnerMoves
<1>5. CASE Kill(r)
  <2>1. Gone \in RunnerStates /\ Gone.at = "gone"
    BY DEF RunnerStates, Gone
  <2>2. AnswersAreStored'
    BY <1>5 DEF Kill, AnswersAreStored, OneResultPerId
  <2>3. /\ runners' = [runners EXCEPT ![r] = Gone]
        /\ databaseLock' = IF databaseLock = r THEN NoRunner ELSE databaseLock
        /\ UNCHANGED <<sourceOnDisk, runRow, batchRows, answered>>
    BY <1>5 DEF Kill
  <2>4. QED BY <1>1, <2>1, <2>2, <2>3, RunnerMoves
<1>6. CASE CheckAgain(r)
  <2>1. CASE ~Unchanged(r)
    BY <1>6, <2>1, RollsBack DEF CheckAgain
  <2>2. CASE Unchanged(r)
    <3> DEFINE new == [runners[r] EXCEPT !.at = "writing"]
    <3>1. /\ new \in RunnerStates /\ new.at = "writing" /\ new.implementation = runners[r].implementation
          /\ new.loaded = runners[r].loaded /\ new.row = runners[r].row
          /\ runners' = [runners EXCEPT ![r] = new] /\ runners[r].at = "computed"
          /\ UNCHANGED <<sourceOnDisk, databaseLock, runRow, batchRows, answered>>
      BY <1>6, <2>2, RunnerFields DEF CheckAgain, RunnerStates, CallsAreLoaded
    <3>2. AnswersAreStored' /\ new.implementation = new.loaded
      BY <3>1 DEF CheckAgain, AnswersAreStored, OneResultPerId, CallsAreLoaded
    <3>3. /\ runRow \in {0, new.implementation} /\ Verified(batchRows)
          /\ Stored(new.row.id) = {} /\ Len(batchRows) < MaxBatches
          /\ new.row.input = StateOf(batchRows)
          /\ new.row.state = Append(StateOf(batchRows), [inputs |-> new.row.inputs, by |-> new.loaded])
      BY <3>1 DEF RowsContinue, Accepted
    <3> HIDE DEF new
    <3>4. QED BY <1>1, <3>1, <3>2, <3>3, RunnerMoves
  <2>3. QED BY <2>1, <2>2
<1>7. ASSUME NEW id \in OperationIds, NEW inputs \in OperationInputs, RecordOperation(r, id, inputs) PROVE StoreInv'
  <2> DEFINE new == [at |-> "called", loaded |-> runners[r].loaded, id |-> id, inputs |-> inputs,
                     implementation |-> sourceOnDisk]
  <2>1. /\ new \in RunnerStates /\ new.at = "called" /\ new.implementation = new.loaded
        /\ runners' = [runners EXCEPT ![r] = new] /\ runners[r].at = "idle"
        /\ UNCHANGED <<sourceOnDisk, databaseLock, runRow, batchRows, answered>>
    BY <1>1, <1>7, RunnerFields DEF RecordOperation, RunnerStates, Unchanged, Gone
  <2>2. AnswersAreStored'
    BY <2>1 DEF AnswersAreStored, OneResultPerId
  <2> HIDE DEF new
  <2>3. QED BY <1>1, <2>1, <2>2, RunnerMoves
<1>8. QED BY <1>2, <1>3, <1>4, <1>5, <1>6, <1>7

LEMMA ComputeKeeps ==
  ASSUME StoreInv, NEW r \in Runners, Compute(r)
  PROVE  StoreInv'
<1>1. CASE ~Unchanged(r)
  BY <1>1, RollsBack DEF Compute
<1>2. CASE Unchanged(r)
  <2> DEFINE row == [id |-> runners[r].id, inputs |-> runners[r].inputs, input |-> StateOf(batchRows),
                     state |-> Append(StateOf(batchRows), [inputs |-> runners[r].inputs, by |-> runners[r].loaded])]
             new == [at |-> "computed", loaded |-> runners[r].loaded,
                     implementation |-> runners[r].implementation, row |-> row]
  <2>1. /\ runners[r].at = "begun" /\ Accepted(r) /\ Stored(runners[r].id) = {} /\ Len(batchRows) < MaxBatches
        /\ runners' = [runners EXCEPT ![r] = new]
        /\ UNCHANGED <<sourceOnDisk, databaseLock, runRow, batchRows, answered>>
    BY <1>2 DEF Compute
  <2>2. /\ runners[r].id \in OperationIds /\ runners[r].inputs \in OperationInputs
        /\ runners[r].loaded \in SourceVersions /\ runners[r].implementation = runners[r].loaded
    BY <2>1, RunnerFields DEF StoreInv, CallsAreLoaded
  <2>3. StateOf(batchRows) \in Seq(Computations)
    <3>1. CASE batchRows = <<>>
      BY <3>1 DEF StateOf
    <3>2. CASE batchRows # <<>>
      <4>1. batchRows[Len(batchRows)] \in BatchRow
        BY <3>2 DEF StoreInv
      <4>2. QED BY <3>2, <4>1 DEF StateOf, Last, BatchRow
    <3>3. QED BY <3>1, <3>2
  <2>4. row \in BatchRow /\ row.id = runners[r].id /\ row.inputs = runners[r].inputs
    BY <2>2, <2>3 DEF BatchRow, Computations
  <2>5. new \in RunnerStates /\ new.at = "computed" /\ new.implementation = new.loaded /\ new.row = row
    BY <2>2, <2>4 DEF RunnerStates
  <2>6. /\ runRow \in {0, new.implementation} /\ Verified(batchRows)
        /\ Stored(new.row.id) = {} /\ Len(batchRows) < MaxBatches
        /\ new.row.input = StateOf(batchRows)
        /\ new.row.state = Append(StateOf(batchRows), [inputs |-> new.row.inputs, by |-> new.loaded])
    BY <2>1 DEF Accepted
  <2>7. AnswersAreStored' /\ databaseLock = r /\ databaseLock' \in Runners \cup {NoRunner}
    BY <2>1 DEF StoreInv, AnswersAreStored, OneResultPerId, LockIsHeld
  <2>8. runners' = [runners EXCEPT ![r] = new] /\ UNCHANGED <<batchRows, runRow, sourceOnDisk, databaseLock>>
    BY <2>1
  <2> HIDE DEF new, row
  <2>9. QED BY <2>5, <2>6, <2>7, <2>8, RunnerMoves
<1>3. QED BY <1>1, <1>2

LEMMA CommitKeeps ==
  ASSUME StoreInv, NEW r \in Runners, Commit(r)
  PROVE  StoreInv'
<1> DEFINE row == runners[r].row
           last == Len(batchRows) + 1
           new == [runners[r] EXCEPT !.at = "committed"]
<1>1. /\ runners[r].at = "writing" /\ runRow' = runners[r].implementation /\ batchRows' = Append(batchRows, row)
      /\ databaseLock' = NoRunner /\ runners' = [runners EXCEPT ![r].at = "committed"]
      /\ UNCHANGED <<sourceOnDisk, answered>>
  BY DEF Commit
<1>2. /\ runners[r] \in [at : {"computed", "writing", "committed"}, loaded : SourceVersions,
                         implementation : SourceVersions, row : BatchRow]
      /\ runners[r].implementation = runners[r].loaded /\ row \in BatchRow
  BY <1>1, RunnerFields DEF StoreInv, CallsAreLoaded
<1>3. /\ Accepted(r) /\ Stored(row.id) = {} /\ Len(batchRows) < MaxBatches /\ row.input = StateOf(batchRows)
      /\ row.state = Append(StateOf(batchRows), [inputs |-> row.inputs, by |-> runners[r].loaded])
  BY <1>1 DEF StoreInv, RowsContinue
<1>4. /\ new \in RunnerStates /\ new.at = "committed" /\ new.row = row /\ new.implementation = new.loaded
      /\ runners' = [runners EXCEPT ![r] = new]
  BY <1>1, <1>2 DEF RunnerStates
<1>5. /\ runners' \in [Runners -> RunnerStates] /\ runners'[r] = new
      /\ \A s \in Runners \ {r} : runners'[s] = runners[s]
  BY <1>4 DEF StoreInv
<1> HIDE DEF new
<1>6. /\ batchRows' \in Seq(BatchRow) /\ Len(batchRows') = last /\ batchRows'[last] = row
      /\ \A n \in 1..Len(batchRows) : batchRows'[n] = batchRows[n]
      /\ batchRows \in Seq(BatchRow) /\ Len(batchRows) \in Nat
  BY <1>1, <1>2 DEF StoreInv
<1>7. StateOf(batchRows) \in Seq(Computations)
  <2>1. CASE batchRows = <<>>
    BY <2>1 DEF StateOf
  <2>2. CASE batchRows # <<>>
    <3>1. batchRows[Len(batchRows)] \in BatchRow
      BY <1>6, <2>2
    <3>2. QED BY <2>2, <3>1 DEF StateOf, Last, BatchRow
  <2>3. QED BY <2>1, <2>2
<1>8. row.state # <<>> /\ Last(row.state).by = runners[r].loaded
  BY <1>3, <1>7 DEF Last
<1>9. DOMAIN batchRows = 1..Len(batchRows) /\ DOMAIN (batchRows') = 1..last
  BY <1>6
<1>10. \A n \in DOMAIN (batchRows') : n = last \/ (n \in DOMAIN batchRows /\ batchRows'[n] = batchRows[n])
  BY <1>6, <1>9
<1> HIDE DEF row
<1>11. LockIsHeld' /\ CallsAreLoaded' /\ RowsContinue' /\ CommitsAreStored'
  <2>1. \A s \in Runners \ {r} : ~(runners[s].at \in {"begun", "computed", "writing"}) /\ databaseLock' # s
    BY <1>1, StoreAssumption DEF StoreInv, LockIsHeld, NoRunner
  <2>2. databaseLock' # r
    BY <1>1, StoreAssumption DEF NoRunner
  <2>3. Range(batchRows) \subseteq Range(batchRows') /\ row \in Range(batchRows')
    BY <1>6, <1>9 DEF Range
  <2>4. QED BY <1>4, <1>5, <2>1, <2>2, <2>3 DEF StoreInv, LockIsHeld, CallsAreLoaded, RowsContinue, CommitsAreStored
<1>12. runRow' \in SourceVersions /\ runRow' # 0 /\ batchRows' # <<>>
  BY <1>1, <1>2, <1>6, StoreAssumption
<1>13. \A n \in DOMAIN (batchRows') : batchRows'[n].state # <<>>
  BY <1>6, <1>8, <1>10 DEF StoreInv
<1>14. OneChain'
  <2> SUFFICES ASSUME NEW n \in DOMAIN (batchRows')
               PROVE  batchRows'[n].input = StateOf(SubSeq(batchRows', 1, n - 1))
    BY DEF OneChain, Verified
  <2>1. StateOf(SubSeq(batchRows', 1, n - 1)) = IF n = 1 THEN <<>> ELSE batchRows'[n - 1].state
    BY <1>6, <1>9, StateBefore
  <2>2. CASE n = last
    BY <1>6, <2>2, <2>1, <1>3 DEF StateOf, Last
  <2>3. CASE n # last
    BY <1>9, <1>10, <2>3, <1>6, StateBefore, <2>1 DEF StoreInv, OneChain, Verified
  <2>4. QED BY <2>2, <2>3
<1>15. OneImplementation'
  <2>1. runRow # 0 => runRow' = runRow
    BY <1>1, <1>3 DEF Accepted
  <2>2. DOMAIN batchRows # {} => runRow # 0
    BY <1>9, <1>6 DEF StoreInv
  <2>3. QED BY <2>1, <2>2, <1>1, <1>2, <1>6, <1>8, <1>10 DEF StoreInv, OneImplementation
<1>16. AnswersAreStored'
  <2>1. \A n \in DOMAIN batchRows : batchRows[n].id # row.id
    BY <1>3 DEF Stored, Range
  <2>2. \A m, n \in DOMAIN (batchRows') : batchRows'[m].id = batchRows'[n].id => m = n
    BY <1>6, <1>10, <2>1 DEF StoreInv, AnswersAreStored, OneResultPerId
  <2>3. \A a \in answered : \E n \in DOMAIN (batchRows') :
          batchRows'[n].id = a.id /\ batchRows'[n].inputs = a.inputs /\ batchRows'[n].state = a.result
    <3> SUFFICES ASSUME NEW a \in answered
                 PROVE  \E n \in DOMAIN (batchRows') :
                          batchRows'[n].id = a.id /\ batchRows'[n].inputs = a.inputs /\ batchRows'[n].state = a.result
      OBVIOUS
    <3>1. PICK n \in DOMAIN batchRows :
            batchRows[n].id = a.id /\ batchRows[n].inputs = a.inputs /\ batchRows[n].state = a.result
      BY DEF StoreInv, AnswersAreStored, OneResultPerId
    <3>2. n \in DOMAIN (batchRows') /\ batchRows'[n] = batchRows[n]
      BY <1>6, <1>9
    <3>3. QED BY <3>1, <3>2
  <2>4. QED BY <2>2, <2>3, <1>1 DEF StoreInv, AnswersAreStored, OneResultPerId
<1>17. QED BY <1>1, <1>3, <1>5, <1>6, <1>11, <1>12, <1>13, <1>14, <1>15, <1>16, StoreAssumption DEF StoreInv

\* A caller is told what the one row of its operation says.
LEMMA AnswersOfRows ==
  ASSUME StoreInv, NEW r \in Runners, NEW row \in Range(batchRows), Answer(r, row), UNCHANGED batchRows
  PROVE  AnswersAreStored'
<1> DEFINE new == [id |-> row.id, inputs |-> row.inputs, result |-> row.state]
<1>1. PICK k \in DOMAIN batchRows : batchRows[k] = row
  BY DEF Range
<1>2. answered' = answered \cup {new}
  BY DEF Answer
<1>3. \A a \in answered : a.id = row.id => a = new
  <2> SUFFICES ASSUME NEW a \in answered, a.id = row.id PROVE a = new
    OBVIOUS
  <2>1. PICK n \in DOMAIN batchRows :
          batchRows[n].id = a.id /\ batchRows[n].inputs = a.inputs /\ batchRows[n].state = a.result
    BY DEF StoreInv, AnswersAreStored, OneResultPerId
  <2>2. n = k
    BY <2>1, <1>1 DEF StoreInv, AnswersAreStored, OneResultPerId
  <2>3. a \in [id : OperationIds, inputs : OperationInputs, result : Seq(Computations)]
    BY DEF StoreInv, AnswersAreStored
  <2>4. QED BY <1>1, <2>1, <2>2, <2>3
<1>4. new \in [id : OperationIds, inputs : OperationInputs, result : Seq(Computations)]
  <2>1. row \in BatchRow
    BY <1>1 DEF StoreInv
  <2>2. QED BY <2>1 DEF BatchRow
<1>5. \A a, b \in answered' : a.id = b.id => a = b
  BY <1>2, <1>3 DEF StoreInv, AnswersAreStored, OneResultPerId
<1>6. \A a \in answered' : \E n \in DOMAIN batchRows :
        batchRows[n].id = a.id /\ batchRows[n].inputs = a.inputs /\ batchRows[n].state = a.result
  BY <1>1, <1>2 DEF StoreInv, AnswersAreStored, OneResultPerId
<1>7. QED BY <1>2, <1>4, <1>5, <1>6 DEF StoreInv, AnswersAreStored, OneResultPerId

LEMMA StoreAnswerSteps ==
  ASSUME StoreInv, NEW r \in Runners, Conflict(r) \/ Replay(r) \/ Return(r)
  PROVE  StoreInv'
<1>1. CASE Conflict(r)
  BY <1>1, RollsBack DEF Conflict
<1>2. /\ Idle(r).at = "idle" /\ NoRunner \notin Runners
      /\ (runners[r] # Gone => Idle(r) \in RunnerStates)
      /\ (runners[r].at \in {"begun", "computed", "writing"} <=> databaseLock = r)
      /\ databaseLock \in Runners \cup {NoRunner}
  BY RunnerFields, StoreAssumption DEF Idle, RunnerStates, Gone, NoRunner, StoreInv, LockIsHeld
<1>3. CASE Replay(r)
  <2>1. PICK row \in Range(batchRows) : Answer(r, row)
    BY <1>3 DEF Replay, Stored
  <2>2. /\ runners[r].at = "begun" /\ databaseLock' = NoRunner /\ runners' = [runners EXCEPT ![r] = Idle(r)]
        /\ UNCHANGED <<sourceOnDisk, runRow, batchRows>>
    BY <1>3 DEF Replay
  <2>3. AnswersAreStored'
    BY <2>1, <2>2, AnswersOfRows
  <2>4. runners[r] # Gone
    BY <2>2 DEF Gone
  <2>5. QED BY <1>2, <2>2, <2>3, <2>4, RunnerMoves
<1>4. CASE Return(r)
  <2>1. /\ runners[r].at = "committed" /\ Answer(r, runners[r].row) /\ runners' = [runners EXCEPT ![r] = Idle(r)]
        /\ UNCHANGED <<sourceOnDisk, databaseLock, runRow, batchRows>>
    BY <1>4 DEF Return
  <2>2. runners[r].row \in Range(batchRows) /\ runners[r] # Gone
    BY <2>1 DEF StoreInv, CommitsAreStored, Gone
  <2>3. AnswersAreStored'
    BY <2>1, <2>2, AnswersOfRows
  <2>4. QED BY <1>2, <2>1, <2>2, <2>3, RunnerMoves
<1>5. QED BY <1>1, <1>3, <1>4

LEMMA StoreKeeps == StoreInv /\ [StoreNext]_storeVars => StoreInv'
<1> SUFFICES ASSUME StoreInv, [StoreNext]_storeVars PROVE StoreInv'
  OBVIOUS
<1>1. CASE UNCHANGED storeVars
  BY <1>1, StoreStands DEF StoreInv, storeVars
<1>2. ASSUME NEW v \in SourceVersions, EditSource(v) PROVE StoreInv'
  BY <1>2, StoreStands DEF EditSource
<1>3. ASSUME NEW r \in Runners,
             \/ ImportCode(r) \/ BeginImmediate(r) \/ Conflict(r) \/ Replay(r) \/ Compute(r) \/ CheckAgain(r)
             \/ Commit(r) \/ Return(r) \/ LockTimeout(r) \/ Kill(r)
             \/ \E id \in OperationIds, inputs \in OperationInputs : RecordOperation(r, id, inputs)
      PROVE  StoreInv'
  BY <1>3, StoreEarlySteps, ComputeKeeps, CommitKeeps, StoreAnswerSteps
<1>4. QED BY <1>1, <1>2, <1>3 DEF StoreNext

-----------------------------------------------------------------------------
(* Signals and exits.  Evidence comes later than every decision taken, and *)
(* a decision looks at what was there by its own moment.                   *)

LEMMA SignalSteps ==
  ASSUME [ResearchSuiteNext]_suiteVars, Examined("signals")'
  PROVE  Examined("signals") /\ [SignalNext]_signalVars
BY DEF ResearchSuiteNext, suiteVars, Steps, Examined, Studies, signalVars

Usable(onDay) ==
  {at \in Observations(optionQuotes, onDay) :
     ValidQuote(optionQuotes, "option", at) /\ ValidQuote(optionQuotes, "underlying", at)}

ReasonOf(d) == ExitReason(bars, d.day, d.pending, d.due)

\* An exit found lies where it was found; one not found can only come later.
ExitStands(d) ==
  \/ /\ ReasonOf(d) \in {"evidence_missing", "no_exit_signal"}
     /\ d.outcome = [action |-> "hold", reason |-> ReasonOf(d), at |-> -1]
  \/ /\ ReasonOf(d) \notin {"evidence_missing", "no_exit_signal"} /\ \A at \in Usable(d.day) : at > d.at
     /\ d.outcome = [action |-> "pending_exit", reason |-> ReasonOf(d), at |-> -1]
  \/ /\ ReasonOf(d) \notin {"evidence_missing", "no_exit_signal"}
     /\ \E at \in Usable(d.day) : at <= d.at
     /\ d.outcome = [action |-> "exit_candidate", reason |-> ReasonOf(d), at |-> Min(Usable(d.day))]

SignalInv ==
  /\ SignalTypeOK /\ IsFiniteSet(bars) /\ IsFiniteSet(optionQuotes)
  /\ \A b \in bars : b.at \in Int /\ b.at <= moment
  /\ \A q \in optionQuotes : q.at \in Nat /\ q.at <= moment
  /\ \A d \in decided : d.at \in Int /\ d.at <= moment /\ d.day \in Nat
  /\ SignalsAreCausal
  /\ \A d \in Asked("exit") : CutoffOf(d.day) <= d.at /\ ExitStands(d)

LEMMA SignalBegins == SignalInit => SignalInv
<1> SUFFICES ASSUME SignalInit PROVE SignalInv
  OBVIOUS
<1>1. moment = 3 /\ bars = {} /\ optionQuotes = {} /\ decided = {}
  BY DEF SignalInit, CutoffOf
<1>2. LastDay \in Nat /\ LastDay > 0 /\ MaxBars \in Nat /\ MaxQuotes \in Nat
  BY SignalAssumption
<1>3. SignalTypeOK
  BY <1>1, <1>2, FS_EmptySet DEF SignalTypeOK, CutoffOf, CloseOf
<1>4. Asked("exit") = {} /\ Asked("signal") = {}
  BY <1>1 DEF Asked
<1>5. QED BY <1>1, <1>3, <1>4, FS_EmptySet DEF SignalInv, SignalsAreCausal

\* The first of the usable moments is one of them.
LEMMA FirstUsable ==
  ASSUME NEW T, T \subseteq Nat, T # {}
  PROVE  Min(T) \in T /\ \A y \in T : Min(T) <= y
BY LeastNat DEF Min

LEMMA ObservationsAre ==
  ASSUME NEW onDay \in Nat
  PROVE  /\ Usable(onDay) \subseteq Nat
         /\ \A at \in Usable(onDay) : at = CutoffOf(onDay) \/ \E q \in optionQuotes : at = q.at
BY DEF Usable, Observations, CutoffOf, CloseOf

\* What a decision sees when it is taken.
LEMMA ExitsAsPlanned ==
  ASSUME NEW d, ExitStands(d), Usable(d.day) \subseteq Nat, d.at \in Int
  PROVE  LET again == PlanExit(bars, optionQuotes, d.day, d.pending, d.due)
         IN  /\ d.outcome.action = "exit_candidate" => again = d.outcome
             /\ d.outcome.action = "pending_exit" =>
                   again = d.outcome \/ (again.action = "exit_candidate" /\ again.at >= d.at)
             /\ d.outcome.action = "hold" => again = d.outcome
             /\ d.pending => again.action # "hold"
<1> DEFINE again == PlanExit(bars, optionQuotes, d.day, d.pending, d.due)
           R == ReasonOf(d)
           U == Usable(d.day)
<1>1. again = IF R \in {"evidence_missing", "no_exit_signal"} THEN [action |-> "hold", reason |-> R, at |-> -1]
              ELSE IF U = {} THEN [action |-> "pending_exit", reason |-> R, at |-> -1]
              ELSE [action |-> "exit_candidate", reason |-> R, at |-> Min(U)]
  BY DEF PlanExit, ReasonOf, Usable
<1>2. U # {} => Min(U) \in U
  BY FirstUsable
<1>3. d.pending => R = "pending"
  BY DEF ReasonOf, ExitReason
<1>4. \/ R \in {"evidence_missing", "no_exit_signal"} /\ d.outcome = [action |-> "hold", reason |-> R, at |-> -1]
      \/ /\ R \notin {"evidence_missing", "no_exit_signal"} /\ \A at \in U : at > d.at
         /\ d.outcome = [action |-> "pending_exit", reason |-> R, at |-> -1]
      \/ /\ R \notin {"evidence_missing", "no_exit_signal"} /\ \E at \in U : at <= d.at
         /\ d.outcome = [action |-> "exit_candidate", reason |-> R, at |-> Min(U)]
  BY DEF ExitStands
<1>5. U \subseteq Nat /\ d.at \in Int
  OBVIOUS
<1> HIDE DEF again, R, U
<1>6. CASE R \in {"evidence_missing", "no_exit_signal"}
  BY <1>1, <1>3, <1>4, <1>6 DEF again
<1>7. CASE R \notin {"evidence_missing", "no_exit_signal"} /\ \A at \in U : at > d.at
  <2>1. d.outcome = [action |-> "pending_exit", reason |-> R, at |-> -1]
    <3>1. ~ \E at \in U : at <= d.at
      BY <1>5, <1>7
    <3>2. QED BY <1>4, <1>7, <3>1, Zenon
  <2>2. CASE U = {}
    BY <1>1, <1>7, <2>1, <2>2 DEF again
  <2>3. CASE U # {}
    <3>1. again = [action |-> "exit_candidate", reason |-> R, at |-> Min(U)] /\ Min(U) > d.at /\ Min(U) \in Nat
      BY <1>1, <1>2, <1>5, <1>7, <2>3
    <3>2. again.action = "exit_candidate" /\ again.at >= d.at
      BY <3>1
    <3>3. QED BY <2>1, <3>2 DEF again
  <2>4. QED BY <2>2, <2>3
<1>8. CASE R \notin {"evidence_missing", "no_exit_signal"} /\ \E at \in U : at <= d.at
  BY <1>1, <1>3, <1>4, <1>5, <1>8 DEF again
<1>9. QED BY <1>4, <1>6, <1>7, <1>8

LEMMA SignalsFollow == SignalInv => SignalTypeOK /\ SignalsAreSound
<1> SUFFICES ASSUME SignalInv PROVE ExitsAreCausal
  BY DEF SignalInv, SignalsAreSound
<1> SUFFICES ASSUME NEW d \in Asked("exit")
             PROVE  LET again == PlanExit(bars, optionQuotes, d.day, d.pending, d.due)
                    IN  /\ d.outcome.action = "exit_candidate" => again = d.outcome
                        /\ d.outcome.action = "pending_exit" =>
                              again = d.outcome \/ (again.action = "exit_candidate" /\ again.at >= d.at)
                        /\ d.outcome.action = "hold" => again = d.outcome
                        /\ d.pending => again.action # "hold"
  BY DEF ExitsAreCausal
<1>1. d \in decided /\ ExitStands(d) /\ d.at \in Int /\ d.day \in Nat
  BY DEF SignalInv, Asked
<1>2. QED BY <1>1, ObservationsAre, ExitsAsPlanned

\* A bar received now changes no set of bars asked for at an earlier moment.
LEMMA EarlierEvidence ==
  ASSUME SignalInv, NEW b, b.at = moment, bars' = bars \cup {b},
         NEW sessions, NEW at \in Int, at < moment
  PROVE  Eligible(bars', sessions, at) = Eligible(bars, sessions, at)
BY DEF Eligible, SignalInv, SignalTypeOK, CutoffOf, CloseOf

LEMMA EarlierDecisions ==
  ASSUME SignalInv, NEW b, b.at = moment, bars' = bars \cup {b}, NEW d, d.at \in Int, d.at < moment, d.day \in Nat
  PROVE  /\ DecideSignal(bars', d.track, d.day, d.at, d.held, d.pending)
              = DecideSignal(bars, d.track, d.day, d.at, d.held, d.pending)
         /\ CutoffOf(d.day) <= d.at =>
              ExitReason(bars', d.day, d.pending, d.due) = ExitReason(bars, d.day, d.pending, d.due)
<1>1. \A sessions : Eligible(bars', sessions, d.at) = Eligible(bars, sessions, d.at)
  BY EarlierEvidence
<1>2. DecideSignal(bars', d.track, d.day, d.at, d.held, d.pending)
        = DecideSignal(bars, d.track, d.day, d.at, d.held, d.pending)
  BY <1>1, Zenon DEF DecideSignal
<1>3. ASSUME CutoffOf(d.day) <= d.at
      PROVE  ExitReason(bars', d.day, d.pending, d.due) = ExitReason(bars, d.day, d.pending, d.due)
  <2>1. CutoffOf(d.day) \in Int /\ CutoffOf(d.day) < moment
    BY <1>3 DEF CutoffOf, SignalInv, SignalTypeOK, CloseOf
  <2>2. \A sessions : Eligible(bars', sessions, CutoffOf(d.day)) = Eligible(bars, sessions, CutoffOf(d.day))
    BY <2>1, EarlierEvidence
  <2>3. WeeklyTrend(bars', d.day) = WeeklyTrend(bars, d.day)
    BY <2>2, Zenon DEF WeeklyTrend
  <2>4. QED BY <2>3 DEF ExitReason
<1>4. QED BY <1>2, <1>3

\* A quote received now makes moments usable from now on, and no earlier one.
LEMMA EarlierQuotes ==
  ASSUME SignalInv, NEW q, q.at = moment, optionQuotes' = optionQuotes \cup {q}, NEW onDay \in Nat,
         CutoffOf(onDay) < moment
  PROVE  \A at \in Nat : at < moment => (at \in Usable(onDay)' <=> at \in Usable(onDay))
<1> SUFFICES ASSUME NEW at \in Nat, at < moment PROVE at \in Usable(onDay)' <=> at \in Usable(onDay)
  OBVIOUS
<1>1. moment \in Int /\ \A p \in optionQuotes : p.at \in Nat /\ p.at <= moment
  BY DEF SignalInv, SignalTypeOK, CutoffOf, CloseOf
<1>2. \A feed : {p \in optionQuotes' : p.feed = feed /\ p.at <= at} = {p \in optionQuotes : p.feed = feed /\ p.at <= at}
  BY <1>1
<1>3. \A feed : Latest(optionQuotes', feed, at) = Latest(optionQuotes, feed, at)
  BY <1>2, Zenon DEF Latest
<1>4. \A feed : ValidQuote(optionQuotes', feed, at) <=> ValidQuote(optionQuotes, feed, at)
  BY <1>3, Zenon DEF ValidQuote
<1>5. at \in Observations(optionQuotes', onDay) <=> at \in Observations(optionQuotes, onDay)
  BY <1>1 DEF Observations, CutoffOf, CloseOf
<1>6. QED BY <1>4, <1>5 DEF Usable

LEMMA ExitsStayFound ==
  ASSUME SignalInv, NEW q, q.at = moment, optionQuotes' = optionQuotes \cup {q}, UNCHANGED bars,
         NEW d, d.at \in Int, d.at < moment, d.day \in Nat, CutoffOf(d.day) <= d.at, ExitStands(d),
         Usable(d.day) \subseteq Nat, Usable(d.day)' \subseteq Nat
  PROVE  ExitStands(d)'
<1> DEFINE U == Usable(d.day)
           V == Usable(d.day)'
<1>1. moment \in Int /\ CutoffOf(d.day) < moment
  BY DEF SignalInv, SignalTypeOK, CutoffOf, CloseOf
<1>2. \A at \in Nat : at < moment => (at \in V <=> at \in U)
  BY <1>1, EarlierQuotes
<1>3. ReasonOf(d)' = ReasonOf(d)
  BY DEF ReasonOf
<1>4. U \subseteq Nat /\ V \subseteq Nat /\ d.at \in Int /\ d.at < moment
  OBVIOUS
<1>5. (\A at \in U : at > d.at) => \A at \in V : at > d.at
  <2> HIDE DEF U, V
  <2> QED BY <1>1, <1>2, <1>4
<1>6. ASSUME NEW at \in U, at <= d.at PROVE Min(V) = Min(U) /\ \E t \in V : t <= d.at
  <2> HIDE DEF U, V
  <2>1. Min(U) \in U /\ \A y \in U : Min(U) <= y
    BY <1>4, <1>6, FirstUsable
  <2>2. at \in V
    BY <1>1, <1>2, <1>4, <1>6
  <2>3. Min(V) \in V /\ \A y \in V : Min(V) <= y
    BY <1>4, <2>2, FirstUsable
  <2>4. Min(U) < moment /\ Min(V) < moment
    <3>1. Min(U) \in Nat /\ Min(V) \in Nat /\ at \in Nat /\ Min(U) <= at /\ Min(V) <= at /\ at <= d.at
      BY <1>4, <1>6, <2>1, <2>2, <2>3
    <3>2. QED BY <1>1, <1>4, <3>1
  <2>5. Min(U) \in V /\ Min(V) \in U
    BY <1>2, <1>4, <2>1, <2>3, <2>4
  <2>6. Min(V) <= Min(U) /\ Min(U) <= Min(V) /\ Min(U) \in Nat /\ Min(V) \in Nat
    BY <1>4, <2>1, <2>3, <2>5
  <2>7. QED BY <1>6, <2>2, <2>6
<1>7. Usable(d.day)' = V /\ Usable(d.day) = U
  OBVIOUS
<1> HIDE DEF U, V
<1>8. QED BY <1>3, <1>5, <1>6, <1>7, Zenon DEF ExitStands

LEMMA SignalWaits ==
  ASSUME SignalInv, UNCHANGED <<bars, optionQuotes, decided>>, moment' \in {moment, moment + 1},
         moment' <= CloseOf(LastDay)
  PROVE  SignalInv'
<1>1. moment \in CutoffOf(1)..CloseOf(LastDay) /\ LastDay \in Nat
  BY SignalAssumption DEF SignalInv, SignalTypeOK
<1>2. moment \in Int /\ CloseOf(LastDay) \in Int /\ CutoffOf(1) \in Int
  BY <1>1 DEF CutoffOf, CloseOf
<1>3. moment' >= moment /\ moment' \in Int /\ moment' \in CutoffOf(1)..CloseOf(LastDay)
  BY <1>1, <1>2
<1>4. SignalTypeOK'
  BY <1>3 DEF SignalInv, SignalTypeOK
<1>5. /\ \A b \in bars : b.at \in Int /\ b.at <= moment'
      /\ \A q \in optionQuotes : q.at \in Nat /\ q.at <= moment'
      /\ \A d \in decided : d.at \in Int /\ d.at <= moment' /\ d.day \in Nat
  <2> HIDE <1>1
  <2>1. CASE moment' = moment
    BY <2>1 DEF SignalInv
  <2>2. CASE moment' = moment + 1
    BY <2>2, <1>2 DEF SignalInv
  <2>3. QED BY <2>1, <2>2
<1>6. SignalsAreCausal' /\ \A d \in Asked("exit")' : CutoffOf(d.day) <= d.at /\ ExitStands(d)'
  BY DEF SignalInv, SignalsAreCausal, Asked, ExitStands, ReasonOf, Usable
<1>7. QED BY <1>4, <1>5, <1>6 DEF SignalInv

LEMMA BarReceived ==
  ASSUME SignalInv, NEW onDay \in SignalDays, NEW close \in Closes, Cardinality(bars) < MaxBars,
         ReceiveBar(onDay, close)
  PROVE  SignalInv'
<1> DEFINE b == [day |-> onDay, close |-> close, at |-> moment]
<1>1. /\ bars' = bars \cup {b} /\ b.at = moment /\ b.day = onDay /\ b.close = close
      /\ UNCHANGED <<moment, optionQuotes, decided>> /\ \A d \in decided : d.at < moment
  BY DEF ReceiveBar, MayReceive
<1> HIDE DEF b
<1>2. moment \in Int /\ MaxBars \in Nat
  BY SignalAssumption DEF SignalInv, SignalTypeOK, CutoffOf, CloseOf
<1>3. IsFiniteSet(bars') /\ Cardinality(bars') <= MaxBars
  <2>1. IsFiniteSet(bars) /\ Cardinality(bars) \in Nat /\ Cardinality(bars) < MaxBars
    BY FS_CardinalityType DEF SignalInv
  <2>2. /\ IsFiniteSet(bars \cup {b})
        /\ Cardinality(bars \cup {b}) = Cardinality(bars) \/ Cardinality(bars \cup {b}) = Cardinality(bars) + 1
    BY <2>1, FS_AddElement
  <2>3. QED BY <1>1, <1>2, <2>1, <2>2
<1>4. SignalTypeOK'
  BY <1>1, <1>3 DEF SignalInv, SignalTypeOK
<1>5. SignalsAreCausal'
  BY <1>1, EarlierDecisions DEF SignalInv, SignalsAreCausal, Asked
<1>6. \A d \in Asked("exit")' : CutoffOf(d.day) <= d.at /\ ExitStands(d)'
  <2> SUFFICES ASSUME NEW d \in Asked("exit") PROVE CutoffOf(d.day) <= d.at /\ ExitStands(d)'
    BY <1>1 DEF Asked
  <2>1. d \in decided /\ d.at \in Int /\ d.at < moment /\ d.day \in Nat /\ CutoffOf(d.day) <= d.at /\ ExitStands(d)
    BY <1>1 DEF SignalInv, Asked
  <2>2. ReasonOf(d)' = ReasonOf(d)
    BY <1>1, <2>1, EarlierDecisions DEF ReasonOf
  <2>3. Usable(d.day)' = Usable(d.day)
    BY <1>1 DEF Usable
  <2>4. QED BY <2>1, <2>2, <2>3, Zenon DEF ExitStands
<1>7. \A c \in bars' : c.at \in Int /\ c.at <= moment
  BY <1>1, <1>2 DEF SignalInv
<1>8. QED BY <1>1, <1>3, <1>4, <1>5, <1>6, <1>7 DEF SignalInv

LEMMA QuoteReceived ==
  ASSUME SignalInv, NEW feed, NEW event, NEW sound, Cardinality(optionQuotes) < MaxQuotes,
         ReceiveQuote(feed, event, sound)
  PROVE  SignalInv'
<1> DEFINE q == [feed |-> feed, event |-> event, at |-> moment, sound |-> sound]
<1>1. /\ optionQuotes' = optionQuotes \cup {q} /\ q.at = moment
      /\ UNCHANGED <<moment, bars, decided>> /\ \A d \in decided : d.at < moment
  BY DEF ReceiveQuote, MayReceive
<1> HIDE DEF q
<1>2. moment \in Nat /\ MaxQuotes \in Nat
  BY SignalAssumption DEF SignalInv, SignalTypeOK, CutoffOf, CloseOf
<1>3. IsFiniteSet(optionQuotes') /\ Cardinality(optionQuotes') <= MaxQuotes
  <2>1. IsFiniteSet(optionQuotes) /\ Cardinality(optionQuotes) \in Nat /\ Cardinality(optionQuotes) < MaxQuotes
    BY FS_CardinalityType DEF SignalInv
  <2>2. /\ IsFiniteSet(optionQuotes \cup {q})
        /\ Cardinality(optionQuotes \cup {q}) = Cardinality(optionQuotes) \/ Cardinality(optionQuotes \cup {q}) = Cardinality(optionQuotes) + 1
    BY <2>1, FS_AddElement
  <2>3. QED BY <1>1, <1>2, <2>1, <2>2
<1>4. SignalTypeOK'
  BY <1>1, <1>3 DEF SignalInv, SignalTypeOK
<1>5. SignalsAreCausal'
  BY <1>1 DEF SignalInv, SignalsAreCausal, Asked
<1>6. \A d \in Asked("exit")' : CutoffOf(d.day) <= d.at /\ ExitStands(d)'
  <2> SUFFICES ASSUME NEW d \in Asked("exit") PROVE CutoffOf(d.day) <= d.at /\ ExitStands(d)'
    BY <1>1 DEF Asked
  <2>1. d \in decided /\ d.at \in Int /\ d.at < moment /\ d.day \in Nat /\ CutoffOf(d.day) <= d.at /\ ExitStands(d)
    BY <1>1 DEF SignalInv, Asked
  <2>2. Usable(d.day) \subseteq Nat
    BY <2>1, ObservationsAre
  <2>3. Usable(d.day)' \subseteq Nat
    BY <1>2, <2>1 DEF Usable, Observations, CutoffOf, CloseOf
  <2>4. QED BY <1>1, <2>1, <2>2, <2>3, ExitsStayFound
<1>7. \A p \in optionQuotes' : p.at \in Nat /\ p.at <= moment
  BY <1>1, <1>2 DEF SignalInv
<1>8. QED BY <1>1, <1>3, <1>4, <1>5, <1>6, <1>7 DEF SignalInv

LEMMA SignalRecorded ==
  ASSUME SignalInv, NEW track \in Tracks, NEW onDay \in SignalDays, NEW held \in BOOLEAN, NEW leaving \in BOOLEAN,
         RecordSignal(track, onDay, held, leaving)
  PROVE  SignalInv'
<1> DEFINE outcome == DecideSignal(bars, track, onDay, moment, held, leaving)
           d == [of |-> "signal", track |-> track, day |-> onDay, at |-> moment, held |-> held,
                 pending |-> leaving, outcome |-> outcome]
<1>1. /\ decided' = decided \cup {d} /\ UNCHANGED <<moment, bars, optionQuotes>> /\ (leaving => held)
      /\ (leaving \/ Window(track, onDay, moment))
  BY DEF RecordSignal
<1>2. /\ outcome \in {"exit", "hold"} => held
      /\ outcome = "enter" => ~held /\ Window(track, onDay, moment)
  BY <1>1 DEF DecideSignal
<1>3. /\ d.of = "signal" /\ d.track = track /\ d.day = onDay /\ d.at = moment /\ d.held = held /\ d.pending = leaving
      /\ d.outcome = outcome
  OBVIOUS
<1>4. outcome = DecideSignal(bars, track, onDay, moment, held, leaving)
  OBVIOUS
<1> HIDE DEF d, outcome
<1>5. moment \in Int /\ onDay \in Nat
  BY DEF SignalInv, SignalTypeOK, CutoffOf, CloseOf, SignalDays
<1>6. Asked("signal")' = Asked("signal") \cup {d} /\ Asked("exit")' = Asked("exit")
  BY <1>1, <1>3 DEF Asked
<1>7. SignalsAreCausal'
  BY <1>1, <1>2, <1>3, <1>4, <1>6 DEF SignalInv, SignalsAreCausal, Window
<1>8. SignalTypeOK' /\ \A e \in Asked("exit")' : CutoffOf(e.day) <= e.at /\ ExitStands(e)'
  BY <1>1, <1>6 DEF SignalInv, SignalTypeOK, ExitStands, ReasonOf, Usable
<1>9. \A e \in decided' : e.at \in Int /\ e.at <= moment /\ e.day \in Nat
  BY <1>1, <1>3, <1>5 DEF SignalInv
<1>10. QED BY <1>1, <1>7, <1>8, <1>9 DEF SignalInv

LEMMA ExitRecorded ==
  ASSUME SignalInv, NEW leaving \in BOOLEAN, NEW due \in Int, RecordExit(leaving, due)
  PROVE  SignalInv'
<1> DEFINE outcome == PlanExit(bars, optionQuotes, SignalDay, leaving, due)
           d == [of |-> "exit", day |-> SignalDay, at |-> moment, pending |-> leaving, due |-> due,
                 outcome |-> outcome]
           R == ExitReason(bars, SignalDay, leaving, due)
           U == Usable(SignalDay)
<1>1. decided' = decided \cup {d} /\ UNCHANGED <<moment, bars, optionQuotes>>
  BY DEF RecordExit
<1>2. /\ d.of = "exit" /\ d.day = SignalDay /\ d.at = moment /\ d.pending = leaving /\ d.due = due
      /\ d.outcome = outcome /\ ReasonOf(d) = R
  BY DEF ReasonOf
<1>3. outcome = IF R \in {"evidence_missing", "no_exit_signal"} THEN [action |-> "hold", reason |-> R, at |-> -1]
                ELSE IF U = {} THEN [action |-> "pending_exit", reason |-> R, at |-> -1]
                ELSE [action |-> "exit_candidate", reason |-> R, at |-> Min(U)]
  BY DEF PlanExit, Usable
<1>4. moment \in Nat /\ SignalDay \in Nat /\ CutoffOf(SignalDay) <= moment
  BY DEF SignalInv, SignalTypeOK, CutoffOf, CloseOf, SignalDay
<1>5. \A at \in U : at <= moment
  BY <1>4, ObservationsAre DEF SignalInv
<1>6. Usable(d.day) = U /\ d.at = moment /\ CutoffOf(d.day) <= d.at
  BY <1>2, <1>4
<1> HIDE DEF d, outcome, R, U
<1>7. ExitStands(d)
  BY <1>2, <1>3, <1>5, <1>6, Zenon DEF ExitStands
<1>8. Asked("exit")' = Asked("exit") \cup {d} /\ Asked("signal")' = Asked("signal")
  BY <1>1, <1>2 DEF Asked
<1>9. \A e : ExitStands(e)' <=> ExitStands(e)
  BY <1>1 DEF ExitStands, ReasonOf, Usable
<1>10. SignalTypeOK' /\ SignalsAreCausal'
  BY <1>1, <1>8 DEF SignalInv, SignalTypeOK, SignalsAreCausal
<1>11. \A e \in decided' : e.at \in Int /\ e.at <= moment /\ e.day \in Nat
  BY <1>1, <1>2, <1>4 DEF SignalInv
<1>12. \A e \in Asked("exit")' : CutoffOf(e.day) <= e.at /\ ExitStands(e)'
  BY <1>6, <1>7, <1>8, <1>9 DEF SignalInv
<1>13. QED BY <1>1, <1>10, <1>11, <1>12 DEF SignalInv

LEMMA SignalKeeps == SignalInv /\ [SignalNext]_signalVars => SignalInv'
<1> SUFFICES ASSUME SignalInv, [SignalNext]_signalVars PROVE SignalInv'
  OBVIOUS
<1>1. moment \in Int /\ LastDay \in Nat /\ moment <= CloseOf(LastDay) /\ CloseOf(LastDay) \in Int /\ SignalDay \in Int
  BY SignalAssumption DEF SignalInv, SignalTypeOK, CutoffOf, CloseOf, SignalDay
<1>2. CASE UNCHANGED signalVars
  BY <1>1, <1>2, SignalWaits DEF signalVars
<1>3. CASE Wait
  BY <1>3, <1>1, SignalWaits DEF Wait
<1>4. ASSUME NEW onDay \in SignalDays, NEW close \in Closes, Cardinality(bars) < MaxBars, ReceiveBar(onDay, close)
      PROVE  SignalInv'
  BY <1>4, BarReceived
<1>5. ASSUME NEW feed, NEW event, NEW sound, Cardinality(optionQuotes) < MaxQuotes, ReceiveQuote(feed, event, sound)
      PROVE  SignalInv'
  BY <1>5, QuoteReceived
<1>6. ASSUME NEW track \in Tracks, NEW onDay \in SignalDays, NEW held \in BOOLEAN, NEW leaving \in BOOLEAN,
             RecordSignal(track, onDay, held, leaving)
      PROVE  SignalInv'
  BY <1>6, SignalRecorded
<1>7. ASSUME NEW leaving \in BOOLEAN, NEW due \in {SignalDay, LastDay + 1}, RecordExit(leaving, due) PROVE SignalInv'
  BY <1>1, <1>7, ExitRecorded
<1>8. QED BY <1>2, <1>3, <1>4, <1>5, <1>6, <1>7 DEF SignalNext

LEMMA StoreHolds == ResearchSuiteSpec => [](Examined("store") => StoreInv)
<1>1. ResearchSuiteInit => (Examined("store") => StoreInv)
  BY StoreBegins DEF ResearchSuiteInit
<1>2. (Examined("store") => StoreInv) /\ [ResearchSuiteNext]_suiteVars => (Examined("store") => StoreInv)'
  BY StoreSteps, StoreKeeps
<1>3. QED BY <1>1, <1>2, PTL DEF ResearchSuiteSpec

LEMMA SignalsHold == ResearchSuiteSpec => [](Examined("signals") => SignalInv)
<1>1. ResearchSuiteInit => (Examined("signals") => SignalInv)
  BY SignalBegins DEF ResearchSuiteInit
<1>2. (Examined("signals") => SignalInv) /\ [ResearchSuiteNext]_suiteVars => (Examined("signals") => SignalInv)'
  BY SignalSteps, SignalKeeps
<1>3. QED BY <1>1, <1>2, PTL DEF ResearchSuiteSpec

\* Whatever processes start, edit, race, wait and die, a research database is
\* one chain of batches by one implementation, and an operation has one result
\* that everyone is told; whatever bars, revisions and quotes arrive later,
\* deciding again gives the decision that was recorded.
THEOREM ResultsAlwaysRepeatable == ResearchSuiteSpec => []ResultsAreRepeatable
<1>1. (Examined("store") => StoreInv) /\ (Examined("signals") => SignalInv) => ResultsAreRepeatable
  BY SignalsFollow DEF ResultsAreRepeatable, StoreIsSound, StoreInv, AnswersAreStored
<1>2. QED BY <1>1, StoreHolds, SignalsHold, PTL

-----------------------------------------------------------------------------
(* The bar replay.  An order's fill bar is fixed by the bar that signalled *)
(* it, and an entry that a halt did not cancel was signalled after it.     *)

LEMMA BarSteps ==
  ASSUME [ResearchSuiteNext]_suiteVars, Examined("backtest")'
  PROVE  Examined("backtest") /\ [BacktestNext]_btVars
BY DEF ResearchSuiteNext, suiteVars, Steps, Examined, Studies, btVars

BarOrder ==
  {o \in [kind : {"entry", "exit"}, symbol : Symbols, side : {-1, 0, 1}, at : Nat, due : Nat] :
     /\ Later(o.symbol, o.at) # {} /\ o.due = Min(Later(o.symbol, o.at))
     /\ o.kind = "entry" => o.side # 0}

BarPosition ==
  [side : {-1, 1}, qty : Nat, entry : Int, stop : Int, bars : Nat, signal : Nat, since : Nat, lastHalt : Nat]

BarShape ==
  /\ bar \in Timeline /\ phase \in {"open", "openStops", "exits", "stops", "signals"}
  /\ phase # "open" => shape \in [Here -> Shapes]
  /\ marks \in [Symbols -> Nat] /\ positions \in [Symbols -> {Flat} \cup BarPosition]
  /\ cash \in Int /\ pnl \in Int /\ halted \in BOOLEAN /\ haltedAt \in {0} \cup Timeline

\* A halt is of this session's bar or of an earlier one.
BarHalts == haltedAt <= bar /\ (haltedAt = bar => halted /\ phase # "open")

\* What waits is due later, and is no entry from before the last halt.
BarQueue ==
  \A o \in queue :
    /\ o \in BarOrder
    /\ bar <= o.due /\ (phase \notin {"open", "openStops"} => bar < o.due)
    /\ o.at <= bar /\ (phase # "signals" => o.at < bar)
    /\ o.kind = "entry" => haltedAt < o.at

\* What the phase has still to handle.
BarTodo ==
  /\ phase = "open" => todo = {}
  /\ phase \in {"openStops", "stops"} => todo \subseteq Held \cap Here
  /\ phase = "exits" =>
       \A o \in todo :
         /\ o \in BarOrder /\ o.due = bar /\ o.at < bar /\ o \notin queue
         /\ \A x \in fates : x[1] # o
         /\ o.kind = "entry" => halted \/ haltedAt < o.at
  /\ phase = "signals" => todo \subseteq {s \in Here : Later(s, bar) # {}}

BarFates ==
  /\ \A x \in fates : x \in BarOrder \X {"cancelled", "skipped", "filled", "rejected"} /\ x[1].at < bar /\ x[1] \notin queue
  /\ \A x, y \in fates : x[1] = y[1] => x = y

BarBooks == HaltStopsQueuedEntries /\ NoLookAhead /\ CashReconciles

BarInv == BarShape /\ BarHalts /\ BarQueue /\ BarTodo /\ BarFates /\ BarBooks

LEMMA TimelineIs ==
  /\ Timeline \subseteq Nat \ {0} /\ Timeline # {} /\ IsFiniteSet(Timeline)
  /\ Min(Timeline) \in Timeline /\ \A t \in Timeline : Min(Timeline) <= t
  /\ Max(Timeline) \in Timeline /\ \A t \in Timeline : t <= Max(Timeline)
<1>1. Timeline \subseteq Nat \ {0} /\ Timeline # {}
  BY BacktestAssumption DEF Timeline, Symbols
<1>2. IsFiniteSet(Timeline)
  BY BacktestAssumption, FiniteUnion DEF Timeline, Symbols
<1>3. QED BY <1>1, <1>2, MinIsLeast, MaxIsLargest

LEMMA BarAmounts ==
  /\ InitialCash \in Nat /\ Slip \in Nat /\ Commission \in Nat /\ StopDistance \in Nat /\ Sizes \subseteq Nat \ {0}
  /\ IsFiniteSet(Symbols) /\ \A s \in Symbols : BarsOf[s] \subseteq Nat \ {0} /\ BarsOf[s] \subseteq Timeline
  /\ \A h \in Shapes : h.open \in Nat /\ h.low \in Nat /\ h.high \in Nat /\ h.close \in Nat
BY BacktestAssumption DEF Symbols, Timeline

\* The first bar after an order's own is a bar of its symbol, and later.
LEMMA DueIs ==
  ASSUME NEW s \in Symbols, NEW t \in Nat, Later(s, t) # {}
  PROVE  /\ Min(Later(s, t)) \in BarsOf[s] /\ Min(Later(s, t)) \in Timeline /\ Min(Later(s, t)) \in Nat
         /\ t < Min(Later(s, t))
BY BarAmounts, MinIsLeast DEF Later

\* What the open positions have taken out of the cash.
BarTie(bk, s) == bk[s].side * bk[s].qty * bk[s].entry + bk[s].qty * Commission
BarTied(bk) == SumFunction([s \in {k \in Symbols : bk[k] # Flat} |-> BarTie(bk, s)])

LEMMA CashIs == CashReconciles <=> cash = InitialCash + pnl - BarTied(positions)
BY DEF CashReconciles, BarTied, BarTie, Held

LEMMA BarTieType ==
  ASSUME NEW bk \in [Symbols -> {Flat} \cup BarPosition]
  PROVE  /\ \A s \in {k \in Symbols : bk[k] # Flat} : bk[s] \in BarPosition /\ BarTie(bk, s) \in Int
         /\ IsFiniteSet({k \in Symbols : bk[k] # Flat})
         /\ BarTied(bk) \in Int
<1> DEFINE S == {k \in Symbols : bk[k] # Flat}
           f == [s \in S |-> BarTie(bk, s)]
<1>1. IsFiniteSet(S)
  BY BarAmounts, FS_Subset
<1>2. \A s \in S : bk[s] \in BarPosition
  OBVIOUS
<1>3. \A s \in S : bk[s].side \in {-1, 1} /\ bk[s].qty \in Nat /\ bk[s].entry \in Int
  BY <1>2 DEF BarPosition
<1>4. \A s \in S : BarTie(bk, s) \in Int
  <2> SUFFICES ASSUME NEW s \in S PROVE BarTie(bk, s) \in Int
    OBVIOUS
  <2>1. bk[s].side * bk[s].qty \in Int /\ bk[s].qty * Commission \in Int
    BY <1>3, BarAmounts
  <2>2. QED BY <2>1, <1>3 DEF BarTie
<1>5. DOMAIN f = S /\ \A s \in S : f[s] \in Int
  BY <1>4
<1> HIDE DEF f
<1>6. SumFunction(f) \in Int
  BY <1>1, <1>5, SumType
<1>7. QED BY <1>1, <1>2, <1>4, <1>6 DEF BarTied, f

\* Opening a position ties its cost, closing it unties it.
LEMMA BarTiesPosition ==
  ASSUME NEW bk \in [Symbols -> {Flat} \cup BarPosition], NEW s \in Symbols, bk[s] = Flat, NEW p \in BarPosition,
         NEW new, new = [bk EXCEPT ![s] = p]
  PROVE  BarTied(new) = BarTied(bk) + BarTie(new, s)
<1> DEFINE S == {k \in Symbols : bk[k] # Flat}
           T == {k \in Symbols : new[k] # Flat}
           f == [k \in S |-> BarTie(bk, k)]
           g == [k \in T |-> BarTie(new, k)]
<1>1. p # Flat
  BY DEF BarPosition, Flat
<1>2. new \in [Symbols -> {Flat} \cup BarPosition] /\ new[s] = p /\ \A k \in Symbols \ {s} : new[k] = bk[k]
  OBVIOUS
<1>3. s \notin S /\ T = S \cup {s}
  BY <1>1, <1>2
<1>4. DOMAIN f = S /\ DOMAIN g = S \cup {s} /\ \A k \in S : g[k] = f[k]
  BY <1>2, <1>3 DEF BarTie
<1>5. IsFiniteSet(S) /\ (\A k \in S : f[k] \in Int) /\ g[s] \in Int /\ g[s] = BarTie(new, s)
  BY <1>2, <1>3, BarTieType
<1> HIDE DEF f, g, S, T
<1>6. SumFunction(g) = SumFunction(f) + g[s]
  <2>1. s \notin S /\ IsFiniteSet(S) /\ DOMAIN f = S /\ DOMAIN g = S \cup {s} /\ g[s] \in Int
    BY <1>3, <1>4, <1>5
  <2>2. (\A k \in S : f[k] \in Int) /\ (\A k \in S : g[k] = f[k])
    BY <1>4, <1>5
  <2>3. QED BY <2>1, <2>2, SumGains, SMTT(60)
<1>7. QED BY <1>5, <1>6 DEF BarTied, f, g, S, T

LEMMA BarUntiesPosition ==
  ASSUME NEW bk \in [Symbols -> {Flat} \cup BarPosition], NEW s \in Symbols, bk[s] # Flat,
         NEW new, new = [bk EXCEPT ![s] = Flat]
  PROVE  BarTied(new) = BarTied(bk) - BarTie(bk, s)
<1>1. new \in [Symbols -> {Flat} \cup BarPosition] /\ new[s] = Flat /\ bk[s] \in BarPosition
  OBVIOUS
<1>2. bk = [new EXCEPT ![s] = bk[s]]
  OBVIOUS
<1> DEFINE p == bk[s]
<1>3. BarTied(bk) = BarTied(new) + BarTie(bk, s)
  BY <1>1, <1>2, BarTiesPosition
<1>4. BarTied(bk) \in Int /\ BarTied(new) \in Int /\ BarTie(bk, s) \in Int
  BY <1>1, BarTieType
<1>5. QED BY <1>3, <1>4

\* Positions that only age and trail tie what they tied.
LEMMA BarTiesSame ==
  ASSUME NEW bk \in [Symbols -> {Flat} \cup BarPosition], NEW new \in [Symbols -> {Flat} \cup BarPosition],
         \A s \in Symbols : /\ new[s] = Flat <=> bk[s] = Flat
                            /\ bk[s] # Flat => /\ new[s].side = bk[s].side /\ new[s].qty = bk[s].qty
                                                 /\ new[s].entry = bk[s].entry
  PROVE  BarTied(new) = BarTied(bk)
BY DEF BarTie, BarTied

LEMMA BarBegins == BacktestInit => BarInv
<1> SUFFICES ASSUME BacktestInit PROVE BarInv
  OBVIOUS
<1> USE DEF BacktestInit
<1>1. BarShape /\ BarHalts
  <2>1. bar \in Timeline /\ bar \in Nat \ {0} /\ haltedAt = 0 /\ halted = FALSE
    BY TimelineIs
  <2>2. marks \in [Symbols -> Nat] /\ positions \in [Symbols -> {Flat} \cup BarPosition] /\ cash \in Int /\ pnl \in Int
    BY BarAmounts
  <2>3. phase = "open" /\ 0 <= bar /\ 0 # bar
    BY <2>1
  <2>4. BarHalts
    BY <2>1, <2>3 DEF BarHalts
  <2>5. QED BY <2>1, <2>2, <2>3, <2>4 DEF BarShape
<1>2. BarQueue /\ BarTodo /\ BarFates
  BY DEF BarQueue, BarTodo, BarFates
<1>3. Held = {}
  BY DEF Held
<1>4. cash = InitialCash + pnl - BarTied(positions)
  <2> DEFINE S == {k \in Symbols : positions[k] # Flat}
             f == [s \in S |-> BarTie(positions, s)]
  <2>1. S = {} /\ IsFiniteSet(S) /\ DOMAIN f = S /\ \A y \in S : f[y] \in Int /\ f[y] = 0
    BY FS_EmptySet
  <2> HIDE DEF f, S
  <2>2. SumFunction(f) = 0
    BY <2>1, SumType
  <2>3. QED BY <2>2, BarAmounts DEF BarTied, f, S
<1>5. BarBooks
  BY <1>3, <1>4, CashIs DEF BarBooks, HaltStopsQueuedEntries, NoLookAhead
<1>6. QED BY <1>1, <1>2, <1>5 DEF BarInv

\* A position was signalled after the last halt and filled at the first bar.
BarSound(bk) ==
  \A s \in Symbols : bk[s] # Flat =>
    bk[s].signal > bk[s].lastHalt /\ bk[s].since = Min(Later(s, bk[s].signal))

LEMMA BarBooksAre ==
  /\ BarBooks <=> BarSound(positions) /\ cash = InitialCash + pnl - BarTied(positions)
  /\ BarBooks' <=> BarSound(positions') /\ cash' = InitialCash + pnl' - BarTied(positions')
BY CashIs DEF BarSound, HaltStopsQueuedEntries, NoLookAhead, Held, Later, Symbols, CashReconciles, BarTied, BarTie,
  BarBooks

\* How a phase goes on: what it has done is no longer to be done.
BarGoesOn(bk, done) ==
  /\ phase \in {"openStops", "exits", "stops"} /\ bar' = bar /\ shape' = shape /\ marks' \in [Symbols -> Nat]
  /\ phase' = phase \/ (phase = "stops" /\ phase' = "signals")
  /\ \A x \in done : phase = "exits" /\ x[1] \in todo /\ x = <<x[1], "filled">> /\ x[1] \notin todo'
  /\ \A x, y \in done : x = y
  /\ phase' \in {"openStops", "stops"} => \A s \in todo' : s \in Here /\ bk[s] # Flat
  /\ phase' = "exits" => todo' \subseteq todo
  /\ phase' = "signals" => todo' \subseteq {s \in Here : Later(s, bar) # {}}

\* What Post makes of a step: a breach cancels every entry that waits.
LEMMA BarPosts ==
  ASSUME BarInv, pnl' \in Int,
         NEW c \in Int, NEW bk \in [Symbols -> {Flat} \cup BarPosition], NEW done, BarGoesOn(bk, done),
         Post(c, bk, queue, fates \cup done),
         BarSound(bk), c = InitialCash + pnl' - BarTied(bk)
  PROVE  BarInv'
<1> USE DEF BarGoesOn
<1>1. /\ cash' = c /\ positions' = bk /\ queue' \subseteq queue
      /\ fates' = (fates \cup done) \cup {<<o, "cancelled">> : o \in queue \ queue'}
      /\ \/ halted' = halted /\ haltedAt' = haltedAt
         \/ halted' = TRUE /\ haltedAt' = bar /\ \A o \in queue' : o.kind # "entry"
  BY DEF Post, Cancelled
<1>2. BarShape /\ BarHalts /\ BarQueue /\ BarTodo /\ BarFates
  BY DEF BarInv
<1>a. bar \in Nat \ {0}
  BY <1>2, TimelineIs DEF BarShape
<1>3. BarShape'
  BY <1>1, <1>2 DEF BarShape, Here, Symbols
<1>4. BarHalts'
  BY <1>1, <1>2, <1>a DEF BarHalts
<1>5. \A o \in queue : o \in BarOrder /\ o.at \in Nat /\ o.due \in Nat /\ o.kind \in {"entry", "exit"} /\ o.at < bar
  BY <1>2 DEF BarQueue, BarOrder
<1>6. BarQueue'
  <2> SUFFICES ASSUME NEW o \in queue'
               PROVE  /\ o \in BarOrder
                      /\ bar' <= o.due /\ (phase' \notin {"open", "openStops"} => bar' < o.due)
                      /\ o.at <= bar' /\ (phase' # "signals" => o.at < bar')
                      /\ o.kind = "entry" => haltedAt' < o.at
    BY DEF BarQueue, BarOrder, Later, Symbols
  <2>1. o \in queue
    BY <1>1
  <2>2. QED BY <1>1, <1>2, <2>1 DEF BarQueue
<1>7. BarTodo'
  <2>1. phase' = "open" => todo' = {}
    OBVIOUS
  <2>2. phase' \in {"openStops", "stops"} => todo' \subseteq (Held \cap Here)'
    BY <1>1 DEF Held, Here, Symbols
  <2>3. ASSUME phase' = "exits", NEW o \in todo'
        PROVE  /\ o \in BarOrder /\ o.due = bar' /\ o.at < bar' /\ o \notin queue'
               /\ \A x \in fates' : x[1] # o
               /\ o.kind = "entry" => halted' \/ haltedAt' < o.at
    BY <2>3, <1>2, <1>1 DEF BarTodo
  <2>4. phase' = "signals" => todo' \subseteq {s \in Here : Later(s, bar) # {}}'
    BY DEF Later, Here, Symbols
  <2>5. BarOrder' = BarOrder
    BY DEF BarOrder, Later, Symbols
  <2>6. QED BY <2>1, <2>2, <2>3, <2>4, <2>5 DEF BarTodo
<1>8. BarFates'
  <2>1. \A x \in fates : x \in BarOrder \X {"cancelled", "skipped", "filled", "rejected"} /\ x[1].at < bar /\ x[1] \notin queue
    BY <1>2 DEF BarFates
  <2>2. \A x \in done : /\ x \in BarOrder \X {"cancelled", "skipped", "filled", "rejected"} /\ x[1].at < bar
                        /\ x[1] \notin queue /\ \A y \in fates : y[1] # x[1]
    BY <1>2 DEF BarTodo
  <2> DEFINE gone == {<<o, "cancelled">> : o \in queue \ queue'}
  <2>3. \A x \in gone : x \in BarOrder \X {"cancelled", "skipped", "filled", "rejected"} /\ x[1].at < bar
                        /\ x[1] \in queue /\ x[1] \notin queue' /\ x = <<x[1], "cancelled">>
    BY <1>5
  <2> HIDE DEF gone
  <2>4. fates' = (fates \cup done) \cup gone
    BY <1>1 DEF gone
  <2>5. \A x \in fates' : x \in BarOrder \X {"cancelled", "skipped", "filled", "rejected"} /\ x[1].at < bar /\ x[1] \notin queue'
    BY <1>1, <2>1, <2>2, <2>3, <2>4
  <2>6. ASSUME NEW x \in fates', NEW y \in fates', x[1] = y[1] PROVE x = y
    <3>1. CASE x[1] \in queue
      BY <2>1, <2>2, <2>3, <2>4, <2>6, <3>1
    <3>2. CASE x[1] \notin queue
      BY <2>3, <2>4, <2>6, <3>2, <1>2, <2>2 DEF BarFates
    <3>3. QED BY <3>1, <3>2
  <2>7. QED BY <2>5, <2>6 DEF BarFates, BarOrder, Later, Symbols
<1>9. BarBooks'
  BY <1>1, BarBooksAre
<1>10. QED BY <1>3, <1>4, <1>6, <1>7, <1>8, <1>9 DEF BarInv

LEMMA BarOpens == BarInv /\ OpenBar => BarInv'
<1> SUFFICES ASSUME BarInv, OpenBar PROVE BarInv'
  OBVIOUS
<1>1. BarShape /\ BarHalts /\ BarQueue /\ BarTodo /\ BarFates
  BY DEF BarInv
<1>2. /\ phase = "open" /\ phase' = "openStops" /\ todo' = Held \cap Here /\ shape' \in [Here -> Shapes]
      /\ marks' = [s \in Symbols |-> IF s \in Here THEN shape'[s].open ELSE marks[s]]
      /\ UNCHANGED <<bar, positions, cash, pnl>>
  BY DEF OpenBar
<1>3. \/ haltedAt' = haltedAt /\ halted' \in BOOLEAN /\ queue' = queue /\ fates' = fates
      \/ /\ haltedAt' = bar /\ halted' = TRUE /\ queue' = {o \in queue : o.kind # "entry"}
         /\ fates' = fates \cup {<<o, "cancelled">> : o \in queue \ queue'}
  BY <1>1 DEF OpenBar, Cancelled, BarShape
<1>a. bar \in Nat \ {0} /\ bar \in Timeline
  BY <1>1, TimelineIs DEF BarShape
<1>4. marks' \in [Symbols -> Nat]
  BY <1>2, BarAmounts, <1>1 DEF BarShape
<1>5. BarShape'
  BY <1>1, <1>2, <1>3, <1>4, <1>a DEF BarShape, Here, Symbols
<1>6. BarHalts'
  BY <1>1, <1>2, <1>3, <1>a DEF BarHalts
<1>7. \A o \in queue : o \in BarOrder /\ o.at < bar /\ o.kind \in {"entry", "exit"} /\ o \in queue
  BY <1>1, <1>2 DEF BarQueue, BarOrder
<1>8. BarQueue'
  BY <1>3, <1>1, <1>2 DEF BarQueue, BarOrder, Later, Symbols
<1>9. BarTodo'
  BY <1>2 DEF BarTodo, Held, Here, Symbols
<1>10. BarFates'
  <2>1. CASE fates' = fates /\ queue' = queue
    BY <1>1, <1>2, <2>1 DEF BarFates, BarOrder, Later, Symbols
  <2>2. CASE fates' = fates \cup {<<o, "cancelled">> : o \in queue \ queue'} /\ queue' \subseteq queue
    <3> DEFINE gone == {<<o, "cancelled">> : o \in queue \ queue'}
    <3>1. \A x \in gone : x \in BarOrder \X {"cancelled", "skipped", "filled", "rejected"} /\ x[1].at < bar
                          /\ x[1] \in queue /\ x[1] \notin queue' /\ x = <<x[1], "cancelled">>
      BY <1>7
    <3> HIDE DEF gone
    <3>2. fates' = fates \cup gone
      BY <2>2 DEF gone
    <3>3. \A x \in fates' : x \in BarOrder \X {"cancelled", "skipped", "filled", "rejected"} /\ x[1].at < bar /\ x[1] \notin queue'
      BY <1>1, <2>2, <3>1, <3>2 DEF BarFates
    <3>4. ASSUME NEW x \in fates', NEW y \in fates', x[1] = y[1] PROVE x = y
      BY <1>1, <3>1, <3>2, <3>4 DEF BarFates
    <3>5. QED BY <1>2, <3>3, <3>4 DEF BarFates, BarOrder, Later, Symbols
  <2>3. QED BY <1>3, <2>1, <2>2
<1>11. BarBooks'
  BY <1>2, BarBooksAre DEF BarInv
<1>12. QED BY <1>5, <1>6, <1>8, <1>9, <1>10, <1>11 DEF BarInv

\* What a trade makes is what its legs bring, less both commissions.
LEMMA TradeLegs ==
  ASSUME NEW side \in {-1, 1}, NEW qty \in Int, NEW entry \in Int, NEW fill \in Int, NEW fee \in Int
  PROVE  /\ side * qty * fill \in Int /\ side * qty * entry \in Int /\ qty * fee \in Int
         /\ qty * (side * (fill - entry) - 2 * fee) = side * qty * fill - side * qty * entry - 2 * (qty * fee)
<1>1. side = 1 \/ side = -1
  OBVIOUS
<1>2. CASE side = 1
  BY <1>2
<1>3. CASE side = -1
  BY <1>3
<1>4. side * qty * fill \in Int /\ side * qty * entry \in Int /\ qty * fee \in Int
  OBVIOUS
<1>5. QED BY <1>1, <1>2, <1>3, <1>4

LEMMA BarClosed ==
  ASSUME BarInv, NEW s \in Symbols, s \in Held, NEW price \in Int
  PROVE  /\ ClosedCash(s, price) \in Int /\ TradePnl(s, price) \in Int
         /\ [positions EXCEPT ![s] = Flat] \in [Symbols -> {Flat} \cup BarPosition]
         /\ BarSound([positions EXCEPT ![s] = Flat])
         /\ ClosedCash(s, price)
              = InitialCash + (pnl + TradePnl(s, price)) - BarTied([positions EXCEPT ![s] = Flat])
<1> DEFINE p == positions[s]
           fill == ExitFill(p.side, price)
           new == [positions EXCEPT ![s] = Flat]
           made == pnl + 0
<1>1. /\ positions \in [Symbols -> {Flat} \cup BarPosition] /\ cash \in Int /\ pnl \in Int
      /\ positions[s] # Flat /\ BarSound(positions) /\ cash = InitialCash + pnl - BarTied(positions)
  BY BarBooksAre DEF BarInv, BarShape, Held
<1>2. p \in BarPosition
  BY <1>1
<1>3. p.side \in {-1, 1} /\ p.qty \in Nat /\ p.entry \in Int
  BY <1>2 DEF BarPosition
<1>4. fill \in Int
  BY <1>3, BarAmounts DEF ExitFill
<1>5. BarTied(new) = BarTied(positions) - (p.side * p.qty * p.entry + p.qty * Commission)
  BY <1>1, BarUntiesPosition DEF BarTie
<1>6. BarTied(positions) \in Int /\ Commission \in Nat
  BY <1>1, BarTieType, BarAmounts
<1>7. /\ ClosedCash(s, price) = cash + p.side * p.qty * fill - p.qty * Commission
      /\ TradePnl(s, price) = p.qty * (p.side * (fill - p.entry) - 2 * Commission)
  BY DEF ClosedCash, TradePnl
<1>8. new \in [Symbols -> {Flat} \cup BarPosition] /\ BarSound(new)
  BY <1>1 DEF BarSound
<1> HIDE DEF p, fill, new
<1>9. /\ p.side * p.qty * fill \in Int /\ p.side * p.qty * p.entry \in Int /\ p.qty * Commission \in Int
      /\ p.qty * (p.side * (fill - p.entry) - 2 * Commission)
         = p.side * p.qty * fill - p.side * p.qty * p.entry - 2 * (p.qty * Commission)
  <2>1. p.qty \in Int /\ Commission \in Int
    BY <1>3, <1>6
  <2>2. QED BY <1>3, <1>4, <2>1, TradeLegs
<1> DEFINE x == p.side * p.qty * fill
           y == p.side * p.qty * p.entry
           k == p.qty * Commission
<1> HIDE DEF x, y, k
<1>10. x \in Int /\ y \in Int /\ k \in Int /\ ClosedCash(s, price) = cash + x - k
       /\ TradePnl(s, price) = x - y - 2 * k /\ BarTied(new) = BarTied(positions) - (y + k)
  BY <1>5, <1>7, <1>9 DEF x, y, k
<1>11. InitialCash \in Int /\ cash \in Int /\ pnl \in Int /\ cash = InitialCash + pnl - BarTied(positions)
  BY <1>1, BarAmounts
<1>12. /\ ClosedCash(s, price) \in Int /\ TradePnl(s, price) \in Int
       /\ ClosedCash(s, price) = InitialCash + (pnl + TradePnl(s, price)) - BarTied(new)
  BY <1>6, <1>10, <1>11
<1>13. QED BY <1>8, <1>12 DEF new

\* Nothing happens to the books and the fates.
LEMMA BarStands ==
  ASSUME BarInv, UNCHANGED <<bar, marks, positions, cash, halted, fates, pnl, haltedAt>>,
         phase' \in {"open", "openStops", "exits", "stops", "signals"}, phase' = "open" => haltedAt < bar,
         phase' # "open" => shape' \in [Here -> Shapes], BarQueue', BarTodo', \A x \in fates : x[1] \notin queue'
  PROVE  BarInv'
BY TimelineIs, BarBooksAre DEF BarInv, BarShape, BarHalts, Here, Symbols, BarFates, BarOrder, Later

LEMMA BarStops ==
  ASSUME BarInv, NEW s \in Symbols, OpenStop(s) \/ IntrabarStop(s)
  PROVE  BarInv'
<1>1. /\ phase \in {"openStops", "stops"} /\ s \in todo /\ todo' = todo \ {s}
      /\ UNCHANGED <<bar, phase, shape, marks, dayStart>>
  BY DEF OpenStop, IntrabarStop
<1>2. /\ BarShape /\ BarQueue /\ BarFates /\ todo \subseteq Held \cap Here /\ s \in Held /\ s \in Here
      /\ BarTodo
  BY <1>1 DEF BarInv, BarTodo
<1>3. CASE UNCHANGED <<positions, queue, cash, halted, fates, pnl, haltedAt>>
  BY <1>1, <1>2, <1>3, BarStands DEF BarQueue, BarOrder, Later, Symbols, BarTodo, Held, Here, BarFates, BarShape
<1>4. ASSUME NEW price \in Int, ClosePosition(s, price, queue, fates)
      PROVE  BarInv'
  <2> DEFINE bk == [positions EXCEPT ![s] = Flat]
             c == ClosedCash(s, price)
             none == {}
  <2>1. Post(c, bk, queue, fates \cup none) /\ pnl' = pnl + TradePnl(s, price)
    BY <1>4 DEF ClosePosition
  <2>2. /\ c \in Int /\ TradePnl(s, price) \in Int /\ bk \in [Symbols -> {Flat} \cup BarPosition]
        /\ BarSound(bk) /\ c = InitialCash + (pnl + TradePnl(s, price)) - BarTied(bk)
    BY <1>2, <1>4, BarClosed
  <2>3. marks' \in [Symbols -> Nat] /\ pnl' \in Int
    BY <1>1, <1>2, <2>1, <2>2 DEF BarShape
  <2>4. \A k \in todo' : k \in Here /\ bk[k] # Flat
    BY <1>1, <1>2 DEF Held, BarShape
  <2>5. BarGoesOn(bk, none)
    BY <1>1, <2>3, <2>4 DEF BarGoesOn
  <2> HIDE DEF bk, c, none
  <2>6. QED BY <2>1, <2>2, <2>3, <2>5, BarPosts
<1>5. shape[s].open \in Int /\ StopExecution(s) \in Int
  BY <1>1, <1>2, BarAmounts DEF BarShape, Held, BarPosition, StopExecution
<1>6. \/ UNCHANGED <<positions, queue, cash, halted, fates, pnl, haltedAt>>
      \/ ClosePosition(s, shape[s].open, queue, fates)
      \/ ClosePosition(s, StopExecution(s), queue, fates)
  BY DEF OpenStop, IntrabarStop
<1>7. QED BY <1>3, <1>4, <1>5, <1>6

LEMMA BarTakesOrders == BarInv /\ (TakeOrders \/ StartStops) => BarInv'
<1> SUFFICES ASSUME BarInv, TakeOrders \/ StartStops PROVE BarInv'
  OBVIOUS
<1>1. BarShape /\ BarQueue /\ BarFates /\ BarTodo
  BY DEF BarInv
<1>2. /\ UNCHANGED <<bar, shape, marks, positions, cash, dayStart, halted, fates, pnl, haltedAt>>
      /\ phase # "open" /\ phase' \in {"exits", "stops"} /\ queue' \subseteq queue
  BY DEF TakeOrders, StartStops
<1>3. \A o \in queue : o \in BarOrder /\ o.kind \in {"entry", "exit"} /\ o.due \in Nat /\ o.at < bar /\ bar \in Nat
  BY <1>1, <1>2, TimelineIs DEF BarQueue, BarOrder, TakeOrders, StartStops, BarShape
<1>4. BarQueue'
  <2>1. CASE TakeOrders
    BY <2>1, <1>3, <1>1, <1>2 DEF TakeOrders, Due, BarQueue, BarOrder, Later, Symbols
  <2>2. CASE StartStops
    BY <1>1, <1>2, <2>2 DEF StartStops, BarQueue, BarOrder, Later, Symbols
  <2>3. QED BY <2>1, <2>2
<1>5. BarTodo'
  <2>1. CASE TakeOrders
    <3>1. todo' = Due("exit") \cup Due("entry") /\ queue' = queue \ todo' /\ phase' = "exits"
      BY <2>1 DEF TakeOrders
    <3>2. ASSUME NEW o \in todo'
          PROVE  o \in queue /\ o \notin queue' /\ o.due = bar
      BY <3>1 DEF Due
    <3>3. ASSUME NEW o \in todo'
          PROVE  /\ o \in BarOrder /\ o.due = bar /\ o.at < bar /\ o \notin queue'
                 /\ \A x \in fates : x[1] # o
                 /\ o.kind = "entry" => haltedAt < o.at
      BY <3>2, <1>1, <1>3 DEF BarFates, BarQueue
    <3>4. QED BY <1>2, <3>1, <3>3 DEF BarTodo, BarOrder, Later, Here, Symbols
  <2>2. CASE StartStops
    BY <1>2, <2>2 DEF StartStops, BarTodo, Held, Here, Symbols
  <2>3. QED BY <2>1, <2>2
<1>6. (\A x \in fates : x[1] \notin queue') /\ shape' \in [Here -> Shapes]
  BY <1>1, <1>2 DEF BarFates, BarShape
<1>7. QED BY <1>2, <1>4, <1>5, <1>6, BarStands

LEMMA BarExits ==
  ASSUME BarInv, NEW o \in todo, ExitOrder(o)
  PROVE  BarInv'
<1>1. phase = "exits" /\ todo' = todo \ {o} /\ UNCHANGED <<bar, phase, shape, marks, dayStart>>
  BY DEF ExitOrder
<1>2. /\ BarShape /\ BarQueue /\ BarFates /\ BarTodo /\ o \in BarOrder /\ o.due = bar /\ o.at < bar /\ o \notin queue
      /\ \A x \in fates : x[1] # o
  BY <1>1 DEF BarInv, BarTodo
<1>3. o.symbol \in Symbols /\ o.symbol \in Here
  BY <1>2, DueIs DEF BarOrder, Here
<1>4. CASE positions[o.symbol] = Flat
  <2>1. fates' = fates \cup {<<o, "skipped">>} /\ UNCHANGED <<positions, queue, cash, halted, pnl, haltedAt>>
    BY <1>4 DEF ExitOrder
  <2>2. BarFates'
    <3>1. \A x \in fates' : x \in BarOrder \X {"cancelled", "skipped", "filled", "rejected"} /\ x[1].at < bar /\ x[1] \notin queue
      BY <1>2, <2>1 DEF BarFates
    <3>2. \A x, y \in fates' : x[1] = y[1] => x = y
      BY <1>2, <2>1 DEF BarFates
    <3>3. QED BY <1>1, <2>1, <3>1, <3>2 DEF BarFates, BarOrder, Later, Symbols
  <2>3. BarTodo'
    <3>1. \A k \in todo' : \A x \in fates' : x[1] # k
      BY <1>1, <1>2, <2>1 DEF BarTodo
    <3>2. QED BY <1>1, <1>2, <2>1, <3>1 DEF BarTodo, BarOrder, Later, Here, Symbols
  <2>4. BarQueue' /\ BarShape' /\ BarHalts'
    BY <1>1, <1>2, <2>1 DEF BarInv, BarQueue, BarShape, BarHalts, BarOrder, Later, Here, Symbols
  <2>5. BarBooks'
    BY <2>1, BarBooksAre DEF BarInv
  <2>6. QED BY <2>2, <2>3, <2>4, <2>5 DEF BarInv
<1>5. CASE positions[o.symbol] # Flat
  <2> DEFINE s == o.symbol
             price == shape[s].open
             bk == [positions EXCEPT ![s] = Flat]
             c == ClosedCash(s, price)
             done == {<<o, "filled">>}
  <2>1. Post(c, bk, queue, fates \cup done) /\ pnl' = pnl + TradePnl(s, price)
    BY <1>5 DEF ExitOrder, ClosePosition
  <2>2. s \in Held /\ price \in Int
    BY <1>1, <1>2, <1>3, <1>5, BarAmounts DEF Held, BarShape
  <2>3. /\ c \in Int /\ TradePnl(s, price) \in Int /\ bk \in [Symbols -> {Flat} \cup BarPosition]
        /\ BarSound(bk) /\ c = InitialCash + (pnl + TradePnl(s, price)) - BarTied(bk)
    BY <1>3, <2>2, BarClosed
  <2>4. marks' \in [Symbols -> Nat] /\ pnl' \in Int
    BY <1>1, <1>2, <2>1, <2>3 DEF BarShape
  <2>5. BarGoesOn(bk, done)
    BY <1>1, <2>4 DEF BarGoesOn
  <2> HIDE DEF bk, c, done, s, price
  <2>6. QED BY <2>1, <2>3, <2>4, <2>5, BarPosts
<1>6. QED BY <1>4, <1>5

LEMMA BarRejects ==
  ASSUME BarInv, NEW o \in todo, RejectEntry(o)
  PROVE  BarInv'
<1>1. /\ phase = "exits" /\ todo' = todo \ {o} /\ fates' = fates \cup {<<o, "rejected">>}
      /\ UNCHANGED <<bar, phase, shape, marks, positions, queue, cash, dayStart, halted, pnl, haltedAt>>
  BY DEF RejectEntry, EntryReady
<1>2. /\ BarShape /\ BarQueue /\ BarFates /\ BarTodo /\ o \in BarOrder /\ o.due = bar /\ o.at < bar /\ o \notin queue
      /\ \A x \in fates : x[1] # o
  BY <1>1 DEF BarInv, BarTodo
<1>3. BarFates'
  BY <1>1, <1>2 DEF BarFates, BarOrder, Later, Symbols
<1>4. BarTodo'
  <2>1. \A k \in todo' : \A x \in fates' : x[1] # k
    BY <1>1, <1>2 DEF BarTodo
  <2>2. QED BY <1>1, <1>2, <2>1 DEF BarTodo, BarOrder, Later, Here, Symbols
<1>5. BarQueue' /\ BarShape' /\ BarHalts'
  BY <1>1, <1>2 DEF BarInv, BarQueue, BarShape, BarHalts, BarOrder, Later, Here, Symbols
<1>6. BarBooks'
  BY <1>1, BarBooksAre DEF BarInv
<1>7. QED BY <1>3, <1>4, <1>5, <1>6 DEF BarInv

LEMMA BarFills ==
  ASSUME BarInv, NEW o \in todo, FillEntry(o)
  PROVE  BarInv'
<1>1. /\ phase = "exits" /\ o.kind = "entry" /\ positions[o.symbol] = Flat /\ todo' = todo \ {o}
      /\ UNCHANGED <<bar, phase, shape, marks, dayStart, pnl>>
  BY DEF FillEntry, EntryReady
<1>2. /\ BarShape /\ BarHalts /\ o \in BarOrder /\ o.due = bar /\ o.at < bar
      /\ o.kind = "entry" => halted \/ haltedAt < o.at
  BY <1>1 DEF BarInv, BarTodo
<1> DEFINE s == o.symbol
           fill == EntryFill(o.side, shape[s].open)
           done == {<<o, "filled">>}
<1>3. PICK qty \in Sizes :
        /\ RoomFor(o, qty)
        /\ Post(cash - o.side * qty * fill - qty * Commission,
                [positions EXCEPT ![s] = [side |-> o.side, qty |-> qty, entry |-> fill, stop |-> StopFor(o.side, fill),
                                          bars |-> 0, signal |-> o.at, since |-> bar, lastHalt |-> haltedAt]],
                queue, fates \cup done)
  BY DEF FillEntry
<1> DEFINE p == [side |-> o.side, qty |-> qty, entry |-> fill, stop |-> StopFor(o.side, fill),
                 bars |-> 0, signal |-> o.at, since |-> bar, lastHalt |-> haltedAt]
           bk == [positions EXCEPT ![s] = p]
           c == cash - o.side * qty * fill - qty * Commission
<1>4. s \in Symbols /\ s \in Here /\ o.side \in {-1, 1} /\ o.at \in Nat /\ bar = Min(Later(s, o.at)) /\ bar \in Nat
  BY <1>1, <1>2, DueIs DEF BarOrder, Here
<1>5. haltedAt < o.at /\ haltedAt \in Nat
  BY <1>1, <1>2, <1>3, TimelineIs DEF RoomFor, BarShape
<1>6. shape[s].open \in Nat
  BY <1>1, <1>2, <1>4, BarAmounts DEF BarShape
<1>7. fill \in Int /\ qty \in Nat /\ StopFor(o.side, fill) \in Int
  BY BarAmounts, <1>4, <1>6 DEF EntryFill, StopFor
<1>8. p \in BarPosition
  BY <1>4, <1>5, <1>7 DEF BarPosition
<1>9. p.side = o.side /\ p.qty = qty /\ p.entry = fill /\ p.signal = o.at /\ p.since = bar /\ p.lastHalt = haltedAt
  OBVIOUS
<1> HIDE DEF p, fill
<1>10. positions \in [Symbols -> {Flat} \cup BarPosition] /\ positions[s] = Flat
  BY <1>1, <1>2 DEF BarShape
<1>11. /\ bk \in [Symbols -> {Flat} \cup BarPosition] /\ bk[s] = p
       /\ \A k \in Symbols \ {s} : bk[k] = positions[k]
  BY <1>4, <1>8, <1>10
<1>12. BarSound(bk)
  <2>1. BarSound(positions) /\ o.at > haltedAt
    BY <1>4, <1>5, BarBooksAre DEF BarInv
  <2> SUFFICES ASSUME NEW k \in Symbols, bk[k] # Flat
               PROVE  bk[k].signal > bk[k].lastHalt /\ bk[k].since = Min(Later(k, bk[k].signal))
    BY DEF BarSound
  <2>2. CASE k = s
    BY <1>4, <1>9, <1>11, <2>1, <2>2
  <2>3. CASE k # s
    BY <1>11, <2>1, <2>3 DEF BarSound
  <2>4. QED BY <2>2, <2>3
<1>13. BarTied(bk) = BarTied(positions) + BarTie(bk, s)
  BY <1>4, <1>8, <1>10, BarTiesPosition
<1>14. BarTie(bk, s) = o.side * qty * fill + qty * Commission
  BY <1>9, <1>11 DEF BarTie
<1>15. o.side * qty * fill \in Int /\ qty * Commission \in Int
  BY <1>7, BarAmounts, <1>4, TradeLegs
<1>16. c \in Int /\ c = InitialCash + pnl' - BarTied(bk)
  <2> DEFINE x == o.side * qty * fill
             k == qty * Commission
  <2>1. x \in Int /\ k \in Int
    BY <1>15
  <2> HIDE DEF x, k
  <2>2. c = cash - x - k /\ BarTied(bk) = BarTied(positions) + (x + k)
    BY <1>13, <1>14 DEF x, k
  <2>3. cash = InitialCash + pnl - BarTied(positions) /\ cash \in Int /\ pnl \in Int /\ InitialCash \in Int
        /\ BarTied(positions) \in Int /\ pnl' = pnl
    <3>1. cash = InitialCash + pnl - BarTied(positions)
      BY BarBooksAre DEF BarInv
    <3>2. BarTied(positions) \in Int
      BY <1>10, BarTieType
    <3>3. QED BY <1>1, <1>2, <3>1, <3>2, BarAmounts DEF BarShape
  <2>4. QED BY <2>1, <2>2, <2>3
<1>17. pnl' \in Int /\ marks' \in [Symbols -> Nat]
  BY <1>1, <1>2 DEF BarShape
<1>18. BarGoesOn(bk, done)
  BY <1>1, <1>17 DEF BarGoesOn
<1>19. Post(c, bk, queue, fates \cup done)
  BY <1>3 DEF p, fill
<1> HIDE DEF bk, c, done, s
<1>20. QED BY <1>11, <1>12, <1>16, <1>17, <1>18, <1>19, BarPosts

LEMMA TrailedIs ==
  ASSUME NEW p \in BarPosition, NEW close \in Nat
  PROVE  Trailed(p, close) \in Int
<1>1. p.stop \in Int /\ p.side \in {-1, 1}
  BY DEF BarPosition
<1>2. StopFor(p.side, close) \in Int
  BY <1>1, BarAmounts DEF StopFor
<1> DEFINE a == p.stop
           b == StopFor(p.side, close)
<1>3. a \in Int /\ b \in Int
  BY <1>1, <1>2
<1> HIDE DEF a, b
<1>4. Max({a, b}) \in Int /\ Min({a, b}) \in Int
  BY <1>3, MaxOfTwo, MinOfTwo
<1>5. QED BY <1>1, <1>4 DEF Trailed, a, b

LEMMA BarShuts == BarInv /\ CloseBar => BarInv'
<1> SUFFICES ASSUME BarInv, CloseBar PROVE BarInv'
  OBVIOUS
<1> DEFINE aged(s) == [positions[s] EXCEPT !.bars = @ + 1, !.stop = Trailed(positions[s], shape[s].close)]
           bk == [s \in Symbols |-> IF s \in Held \cap Here THEN aged(s) ELSE positions[s]]
           none == {}
<1>1. /\ phase = "stops" /\ phase' = "signals" /\ todo' = {s \in Here : Later(s, bar) # {}}
      /\ marks' = [s \in Symbols |-> IF s \in Here THEN shape[s].close ELSE marks[s]]
      /\ UNCHANGED <<bar, shape, dayStart, pnl>> /\ Post(cash, bk, queue, fates \cup none)
  <2>1. Post(cash, bk, queue, fates)
    BY DEF CloseBar
  <2>2. fates \cup none = fates
    OBVIOUS
  <2> HIDE DEF bk, none
  <2>3. Post(cash, bk, queue, fates \cup none)
    BY <2>1, <2>2
  <2>4. QED BY <2>3 DEF CloseBar
<1>2. BarShape /\ positions \in [Symbols -> {Flat} \cup BarPosition] /\ cash \in Int /\ pnl \in Int
  BY DEF BarInv, BarShape
<1>3. \A s \in Here : shape[s] \in Shapes /\ shape[s].close \in Nat
  BY <1>1, <1>2, BarAmounts DEF BarShape
<1>4. ASSUME NEW s \in Held \cap Here
      PROVE  /\ aged(s) \in BarPosition /\ aged(s) # Flat
             /\ aged(s).side = positions[s].side /\ aged(s).qty = positions[s].qty /\ aged(s).entry = positions[s].entry
             /\ aged(s).signal = positions[s].signal /\ aged(s).since = positions[s].since
             /\ aged(s).lastHalt = positions[s].lastHalt
  <2>1. positions[s] \in BarPosition
    BY <1>2 DEF Held
  <2>2. Trailed(positions[s], shape[s].close) \in Int
    BY <1>3, <2>1, TrailedIs
  <2> DEFINE p == positions[s]
             t == Trailed(p, shape[s].close)
             k == p.bars + 1
             new == [p EXCEPT !.bars = k, !.stop = t]
  <2>3. aged(s) = new /\ k \in Nat /\ t \in Int /\ p \in BarPosition
    BY <2>1, <2>2 DEF BarPosition
  <2> HIDE DEF k, t, p
  <2>4. /\ new \in BarPosition /\ new.side = p.side /\ new.qty = p.qty /\ new.entry = p.entry
        /\ new.signal = p.signal /\ new.since = p.since /\ new.lastHalt = p.lastHalt
    BY <2>3 DEF BarPosition
  <2>5. new # Flat
    BY <2>4 DEF BarPosition, Flat
  <2>6. QED BY <2>3, <2>4, <2>5 DEF p
<1> HIDE DEF aged
<1>5. bk \in [Symbols -> {Flat} \cup BarPosition]
  BY <1>2, <1>4
<1>6. ASSUME NEW s \in Symbols
      PROVE  /\ bk[s] = Flat <=> positions[s] = Flat
             /\ positions[s] # Flat =>
                  /\ bk[s].side = positions[s].side /\ bk[s].qty = positions[s].qty /\ bk[s].entry = positions[s].entry
                  /\ bk[s].signal = positions[s].signal /\ bk[s].since = positions[s].since
                  /\ bk[s].lastHalt = positions[s].lastHalt
  <2>1. CASE s \in Held \cap Here
    BY <1>4, <2>1 DEF Held
  <2>2. CASE s \notin Held \cap Here
    BY <2>2
  <2>3. QED BY <2>1, <2>2
<1> HIDE DEF bk
<1>7. BarTied(bk) = BarTied(positions)
  BY <1>2, <1>5, <1>6, BarTiesSame
<1>8. BarSound(positions) /\ cash = InitialCash + pnl - BarTied(positions)
  BY BarBooksAre DEF BarInv
<1>9. BarSound(bk) /\ cash = InitialCash + pnl' - BarTied(bk)
  BY <1>1, <1>6, <1>7, <1>8 DEF BarSound
<1>10. marks' \in [Symbols -> Nat] /\ pnl' \in Int
  BY <1>1, <1>2, <1>3 DEF BarShape
<1>11. BarGoesOn(bk, none)
  BY <1>1, <1>10 DEF BarGoesOn
<1> HIDE DEF none
<1>12. QED BY <1>1, <1>2, <1>5, <1>9, <1>10, <1>11, BarPosts

\* A signal's orders are due at the symbol's next bar, which is later.
LEMMA BarSignals ==
  ASSUME BarInv, NEW s \in Symbols, NEW side \in {-1, 0, 1}, NEW changed \in BOOLEAN, Signal(s, side, changed)
  PROVE  BarInv'
<1>1. /\ phase = "signals" /\ s \in todo /\ todo' = todo \ {s}
      /\ UNCHANGED <<bar, phase, shape, marks, positions, cash, dayStart, halted, fates, pnl, haltedAt>>
  BY DEF Signal
<1>2. BarShape /\ BarHalts /\ BarQueue /\ BarTodo /\ BarFates /\ bar \in Nat
  BY TimelineIs DEF BarInv, BarShape
<1>3. s \in Here /\ Later(s, bar) # {}
  BY <1>1, <1>2 DEF BarTodo
<1>4. ASSUME NEW o \in queue', o \notin queue
      PROVE  /\ o \in BarOrder /\ o.at = bar /\ bar < o.due
             /\ o.kind = "entry" => ~halted
  BY <1>4, <1>2, <1>3, DueIs DEF Signal, Order, BarOrder
<1>5. BarQueue'
  <2> SUFFICES ASSUME NEW o \in queue'
               PROVE  /\ o \in BarOrder
                      /\ bar <= o.due /\ bar < o.due /\ o.at <= bar
                      /\ o.kind = "entry" => haltedAt < o.at
    BY <1>1 DEF BarQueue, BarOrder, Later, Symbols
  <2>1. CASE o \in queue
    BY <1>1, <1>2, <2>1 DEF BarQueue
  <2>2. CASE o \notin queue
    BY <1>4, <2>2, <1>2, TimelineIs DEF BarOrder, BarShape, BarHalts
  <2>3. QED BY <2>1, <2>2
<1>6. \A x \in fates : x[1] \notin queue'
  <2> SUFFICES ASSUME NEW x \in fates, x[1] \in queue' PROVE FALSE
    OBVIOUS
  <2>1. x[1].at < bar /\ x[1] \notin queue
    BY <1>2 DEF BarFates
  <2>2. x[1].at = bar
    BY <1>4, <2>1
  <2>3. QED BY <1>2, <2>1, <2>2
<1>7. BarTodo'
  BY <1>1, <1>2 DEF BarTodo, Here, Later, Symbols
<1>8. shape' \in [Here -> Shapes]
  BY <1>1, <1>2 DEF BarShape
<1>9. QED BY <1>1, <1>5, <1>6, <1>7, <1>8, BarStands

LEMMA BarTurns == BarInv /\ NextBarOpens => BarInv'
<1> SUFFICES ASSUME BarInv, NextBarOpens PROVE BarInv'
  OBVIOUS
<1>1. /\ phase = "signals" /\ todo = {} /\ bar # Max(Timeline) /\ bar' = NextBar(bar) /\ phase' = "open"
      /\ UNCHANGED <<todo, marks, positions, queue, cash, dayStart, halted, fates, pnl, haltedAt>>
  BY DEF NextBarOpens
<1>2. BarShape /\ BarHalts /\ BarQueue /\ BarFates
  BY DEF BarInv
<1>3. bar \in Timeline /\ bar \in Nat /\ bar <= Max(Timeline) /\ Max(Timeline) \in Timeline /\ Max(Timeline) \in Nat
  BY <1>2, TimelineIs DEF BarShape
<1> DEFINE S == {u \in Timeline : u > bar}
<1>4. S # {} /\ S \subseteq Nat
  <2>1. Max(Timeline) \in S
    BY <1>1, <1>3
  <2>2. QED BY <2>1, TimelineIs
<1>5. bar' \in S /\ \A x \in S : bar' <= x
  BY <1>1, <1>4, MinIsLeast DEF NextBar
<1>6. bar' \in Timeline /\ bar' \in Nat /\ bar < bar' /\ \A u \in Timeline : u > bar => bar' <= u
  BY <1>5, TimelineIs
<1>7. haltedAt \in Nat /\ haltedAt < bar'
  BY <1>2, <1>3, <1>6, TimelineIs DEF BarShape, BarHalts
<1>8. BarShape' /\ BarHalts'
  BY <1>1, <1>2, <1>6, <1>7 DEF BarShape, BarHalts
<1>9. BarQueue'
  <2> SUFFICES ASSUME NEW o \in queue
               PROVE  o \in BarOrder /\ bar' <= o.due /\ o.at < bar' /\ (o.kind = "entry" => haltedAt < o.at)
    BY <1>1, <1>6 DEF BarQueue, BarOrder, Later, Symbols
  <2>1. o \in BarOrder /\ bar < o.due /\ o.at <= bar /\ (o.kind = "entry" => haltedAt < o.at)
    BY <1>1, <1>2 DEF BarQueue
  <2>2. o.due \in Timeline /\ o.due \in Nat /\ o.at \in Nat
    BY <2>1, DueIs DEF BarOrder
  <2>3. QED BY <1>3, <1>6, <2>1, <2>2
<1>10. BarTodo'
  BY <1>1 DEF BarTodo
<1>11. BarFates'
  <2>1. \A x \in fates : x \in BarOrder \X {"cancelled", "skipped", "filled", "rejected"} /\ x[1].at < bar /\ x[1] \notin queue
    BY <1>2 DEF BarFates
  <2>2. \A x \in fates : x[1].at \in Nat
    BY <2>1 DEF BarOrder
  <2>3. \A x \in fates : x[1].at < bar'
    BY <1>3, <1>6, <2>1, <2>2
  <2>4. \A x, y \in fates : x[1] = y[1] => x = y
    BY <1>2 DEF BarFates
  <2>5. QED BY <1>1, <2>1, <2>3, <2>4 DEF BarFates, BarOrder, Later, Symbols
<1>12. BarBooks'
  BY <1>1, BarBooksAre DEF BarInv
<1>13. QED BY <1>8, <1>9, <1>10, <1>11, <1>12 DEF BarInv

LEMMA BarEnds ==
  ASSUME BarInv, NEW s \in Symbols, EndOfTest(s)
  PROVE  BarInv'
<1> DEFINE bk == [positions EXCEPT ![s] = Flat]
           c == ClosedCash(s, marks[s])
<1>1. /\ phase = "signals" /\ todo = {} /\ s \in Held /\ cash' = c /\ positions' = bk
      /\ pnl' = pnl + TradePnl(s, marks[s])
      /\ UNCHANGED <<bar, phase, shape, todo, marks, queue, dayStart, halted, fates, haltedAt>>
  BY DEF EndOfTest
<1>2. BarShape /\ BarHalts /\ BarQueue /\ BarFates
  BY DEF BarInv
<1>3. marks[s] \in Int
  BY <1>2 DEF BarShape
<1>4. /\ c \in Int /\ TradePnl(s, marks[s]) \in Int /\ bk \in [Symbols -> {Flat} \cup BarPosition]
      /\ BarSound(bk) /\ c = InitialCash + (pnl + TradePnl(s, marks[s])) - BarTied(bk)
  BY <1>1, <1>3, BarClosed
<1> HIDE DEF bk, c
<1>5. BarShape'
  BY <1>1, <1>2, <1>4 DEF BarShape, Here, Symbols
<1>6. BarHalts' /\ BarQueue' /\ BarFates'
  BY <1>1, <1>2 DEF BarHalts, BarQueue, BarFates, BarOrder, Later, Symbols
<1>7. BarTodo'
  BY <1>1 DEF BarTodo
<1>8. BarBooks'
  BY <1>1, <1>4, BarBooksAre
<1>9. QED BY <1>5, <1>6, <1>7, <1>8 DEF BarInv

LEMMA BarKeeps == BarInv /\ [BacktestNext]_btVars => BarInv'
<1> SUFFICES ASSUME BarInv, [BacktestNext]_btVars PROVE BarInv'
  OBVIOUS
<1>1. CASE UNCHANGED btVars
  <2>1. BarShape' /\ BarHalts' /\ BarQueue' /\ BarFates'
    BY <1>1 DEF btVars, BarInv, BarShape, BarHalts, BarQueue, BarFates, BarOrder, Later, Here, Symbols
  <2>2. BarTodo'
    BY <1>1 DEF btVars, BarInv, BarTodo, Held, BarOrder, Later, Here, Symbols
  <2>3. BarBooks'
    BY <1>1, BarBooksAre DEF btVars, BarInv
  <2>4. QED BY <2>1, <2>2, <2>3 DEF BarInv
<1>2. CASE OpenBar \/ TakeOrders \/ StartStops \/ CloseBar \/ NextBarOpens
  BY <1>2, BarOpens, BarTakesOrders, BarShuts, BarTurns
<1>3. CASE \E s \in Symbols : OpenStop(s) \/ IntrabarStop(s) \/ EndOfTest(s)
  BY <1>3, BarStops, BarEnds
<1>4. CASE \E s \in Symbols, side \in {-1, 0, 1}, changed \in BOOLEAN : Signal(s, side, changed)
  BY <1>4, BarSignals
<1>5. CASE \E o \in {p \in todo : phase = "exits"} : ExitOrder(o) \/ FillEntry(o) \/ RejectEntry(o)
  BY <1>5, BarExits, BarFills, BarRejects
<1>6. QED BY <1>1, <1>2, <1>3, <1>4, <1>5 DEF BacktestNext

LEMMA BarFollows == BarInv => BacktestTypeOK /\ ReplayIsHonest
<1> SUFFICES ASSUME BarInv PROVE BacktestTypeOK /\ ReplayIsHonest
  OBVIOUS
<1>1. BarShape /\ BarQueue /\ BarFates /\ BarBooks
  BY DEF BarInv
<1>2. \A o \in queue : o.kind \in {"entry", "exit"} /\ o.due \in BarsOf[o.symbol] /\ o.due \in Timeline
  BY <1>1, DueIs DEF BarQueue, BarOrder
<1>3. \A s \in Symbols : marks[s] \in Nat /\ positions[s].side \in {-1, 0, 1}
  BY <1>1 DEF BarShape, BarPosition, Flat
<1>4. BacktestTypeOK
  BY <1>1, <1>2, <1>3 DEF BarShape, BacktestTypeOK
<1>5. ASSUME phase = "signals", bar = Max(Timeline) PROVE queue = {}
  <2> SUFFICES ASSUME NEW o \in queue PROVE FALSE
    OBVIOUS
  <2>1. bar < o.due /\ o.due \in Timeline
    BY <1>1, <1>2, <1>5 DEF BarQueue
  <2>2. o.due <= bar /\ o.due \in Nat /\ bar \in Nat
    BY <1>5, <2>1, TimelineIs
  <2>3. QED BY <2>1, <2>2
<1>6. OrdersMeetOneFate
  BY <1>1, <1>5 DEF BarFates, OrdersMeetOneFate
<1>7. QED BY <1>1, <1>4, <1>6 DEF ReplayIsHonest, BarBooks

LEMMA BacktestHolds == ResearchSuiteSpec => [](Examined("backtest") => BarInv)
<1>1. ResearchSuiteInit => (Examined("backtest") => BarInv)
  BY BarBegins DEF ResearchSuiteInit
<1>2. (Examined("backtest") => BarInv) /\ [ResearchSuiteNext]_suiteVars => (Examined("backtest") => BarInv)'
  BY BarSteps, BarKeeps
<1>3. QED BY <1>1, <1>2, PTL DEF ResearchSuiteSpec

-----------------------------------------------------------------------------
(* The intraday simulator.  Every position can be sold for more than its   *)
(* commission, and what it tied up comes back with its result.             *)

LEMMA IntradaySteps ==
  ASSUME [ResearchSuiteNext]_suiteVars, Examined("intraday")'
  PROVE  Examined("intraday") /\ [IntradayNext]_intradayVars
BY DEF ResearchSuiteNext, suiteVars, Steps, Examined, Studies, intradayVars

DayTrade ==
  [qty : Nat \ {0}, entry : Nat \ {0}, stop : Nat \ {0}, target : Nat \ {0}, since : Nat, signal : Nat]

DayOrder ==
  {o \in [ticker : Tickers, at : Nat, due : Nat] : o.due = o.at - 1 + TradeDelay /\ o.due < FlatAt}

IntradayShape ==
  /\ sessionNo \in 1..SessionCount /\ clock \in 1..(SessionLength + 1) /\ step \in {"open", "orders"}
  /\ step = "orders" => clock <= SessionLength /\ minuteBars \in [Tickers -> BarShapes]
  /\ open \in [DOMAIN open -> DayTrade] /\ DOMAIN open \subseteq Tickers
  /\ lossHalt \in BOOLEAN /\ coolUntil \in [Tickers -> Nat] /\ wallet \in Nat /\ tradePnl \in Int

\* An order is due its delay after the bar that signalled it, before the
\* flatten window.
IntradayOrders ==
  /\ orders \subseteq DayOrder
  /\ \A o \in dueOrders : step = "orders" /\ o \in DayOrder /\ o.due = clock

\* What the open positions have taken out of the wallet.
DayTied(bk) == SumFunction([s \in DOMAIN bk |-> bk[s].qty * (bk[s].entry + ShareCost)])

IntradayBooks ==
  /\ wallet = Capital0 + tradePnl - DayTied(open)
  /\ clock >= FlatAt /\ step = "orders" => open = <<>>
  /\ EntriesAreCausal

IntradayInv == IntradayShape /\ IntradayOrders /\ IntradayBooks

LEMMA IntradayAmounts ==
  /\ SessionLength \in Nat \ {0} /\ SessionCount \in Nat \ {0} /\ Capital0 \in Nat /\ TradeDelay \in Nat \ {0}
  /\ Distance \in Nat \ {0} /\ MaxHold \in Nat /\ FlatAt \in 2..SessionLength /\ FlatAt \in Nat
  /\ Reward \in Nat /\ CooldownMinutes \in Nat /\ VolumeShare \in Nat
  /\ ShareCost \in {0, 1} /\ IsFiniteSet(Tickers)
  /\ \A b \in BarShapes : b.open \in Nat \ {0} /\ b.low \in Nat \ {0} /\ b.high \in Nat /\ b.close \in Nat
<1>1. ASSUME NEW b \in BarShapes
      PROVE  b.open \in Nat \ {0} /\ b.low \in Nat \ {0} /\ b.high \in Nat /\ b.close \in Nat
  <2>1. b.open \in Nat /\ b.low \in Nat /\ b.high \in Nat /\ b.close \in Nat /\ b.low > 0 /\ b.low <= Min({b.open, b.close})
    BY IntradayAssumption
  <2>2. Min({b.open, b.close}) = IF b.open <= b.close THEN b.open ELSE b.close
    BY <2>1, MinOfTwo
  <2>3. QED BY <2>1, <2>2
<1>2. QED BY <1>1, IntradayAssumption

\* What a set of positions ties up, and what selling it brings.
LEMMA DayTies ==
  ASSUME NEW bk, NEW S \in SUBSET Tickers, bk \in [S -> DayTrade]
  PROVE  /\ IsFiniteSet(S) /\ DOMAIN bk = S
         /\ \A s \in S : /\ bk[s].qty \in Nat \ {0} /\ bk[s].entry \in Nat \ {0} /\ bk[s].stop \in Nat \ {0}
                         /\ bk[s].target \in Nat \ {0} /\ bk[s].since \in Nat /\ bk[s].signal \in Nat
                         /\ bk[s].qty * (bk[s].entry + ShareCost) \in Int
         /\ DayTied(bk) \in Int
<1> DEFINE f == [s \in S |-> bk[s].qty * (bk[s].entry + ShareCost)]
<1>1. IsFiniteSet(S) /\ DOMAIN bk = S
  BY IntradayAmounts, FS_Subset
<1>2. \A s \in S : bk[s] \in DayTrade
  OBVIOUS
<1>3. \A s \in S : /\ bk[s].qty \in Nat \ {0} /\ bk[s].entry \in Nat \ {0} /\ bk[s].stop \in Nat \ {0}
                   /\ bk[s].target \in Nat \ {0} /\ bk[s].since \in Nat /\ bk[s].signal \in Nat
  BY <1>2 DEF DayTrade
<1>4. \A s \in S : bk[s].qty * (bk[s].entry + ShareCost) \in Int
  BY <1>3, IntradayAmounts
<1>5. DOMAIN f = S /\ \A s \in S : f[s] \in Int
  BY <1>4
<1> HIDE DEF f
<1>6. SumFunction(f) \in Int
  BY <1>1, <1>5, SumType
<1>7. QED BY <1>1, <1>3, <1>4, <1>6 DEF f, DayTied

LEMMA DayCloses ==
  ASSUME IntradayInv, NEW S \in SUBSET DOMAIN open, NEW price, \A s \in S : price[s] \in Nat \ {0},
         NEW cool \in Nat, Closing(S, price, cool)
  PROVE  /\ open' \in [DOMAIN open \ S -> DayTrade] /\ DOMAIN open' = DOMAIN open \ S
         /\ \A s \in DOMAIN open' : open'[s] = open[s]
         /\ wallet' \in Nat /\ tradePnl' \in Int /\ wallet' = Capital0 + tradePnl' - DayTied(open')
         /\ coolUntil' \in [Tickers -> Nat] /\ EntriesAreCausal'
<1> DEFINE D == DOMAIN open
           f == [s \in D |-> open[s].qty * (open[s].entry + ShareCost)]
           freed == [s \in S |-> open[s].qty * (open[s].entry + ShareCost)]
           kept == [s \in D \ S |-> open[s].qty * (open[s].entry + ShareCost)]
           got == [s \in S |-> open[s].qty * (price[s] - ShareCost)]
           made == [s \in S |-> open[s].qty * (price[s] - open[s].entry - 2 * ShareCost)]
<1>1. /\ open \in [D -> DayTrade] /\ D \in SUBSET Tickers /\ wallet \in Nat /\ tradePnl \in Int
      /\ coolUntil \in [Tickers -> Nat] /\ wallet = Capital0 + tradePnl - DayTied(open) /\ EntriesAreCausal
  BY DEF IntradayInv, IntradayShape, IntradayBooks
<1>2. /\ open' = [s \in D \ S |-> open[s]] /\ wallet' = wallet + SumFunction(got)
      /\ tradePnl' = tradePnl + SumFunction(made)
      /\ coolUntil' = [s \in Tickers |-> IF s \in S THEN cool + CooldownMinutes ELSE coolUntil[s]]
  BY DEF Closing, Kept
<1>3. /\ IsFiniteSet(D)
      /\ \A s \in D : /\ open[s].qty \in Nat \ {0} /\ open[s].entry \in Nat \ {0} /\ open[s].since \in Nat
                      /\ open[s].qty * (open[s].entry + ShareCost) \in Int
  BY <1>1, DayTies
<1>4. open' \in [D \ S -> DayTrade] /\ DOMAIN open' = D \ S /\ \A s \in D \ S : open'[s] = open[s]
  BY <1>1, <1>2
<1>5. IsFiniteSet(S)
  BY <1>3, FS_Subset
<1>6. ASSUME NEW s \in S
      PROVE  /\ got[s] \in Nat /\ made[s] \in Int /\ freed[s] \in Int /\ got[s] = made[s] + freed[s]
  <2> DEFINE q == open[s].qty
             e == open[s].entry
             p == price[s]
  <2>1. q \in Nat /\ e \in Nat /\ p \in Nat /\ p >= 1 /\ ShareCost \in {0, 1}
    BY <1>3, IntradayAmounts
  <2>2. got[s] = q * (p - ShareCost) /\ made[s] = q * (p - e - 2 * ShareCost) /\ freed[s] = q * (e + ShareCost)
    OBVIOUS
  <2> HIDE DEF q, e, p, got, made, freed
  <2>3. p - ShareCost \in Nat /\ p - e - 2 * ShareCost \in Int /\ e + ShareCost \in Int
    BY <2>1
  <2>4. q * (p - ShareCost) \in Nat
    BY <2>1, <2>3
  <2>5. q * (p - e - 2 * ShareCost) + q * (e + ShareCost) = q * (p - ShareCost)
    BY <2>1
  <2>6. q * (p - e - 2 * ShareCost) \in Int /\ q * (e + ShareCost) \in Int
    BY <2>1, <2>3
  <2>7. QED BY <2>2, <2>4, <2>5, <2>6
<1>7. /\ DOMAIN f = D /\ (\A s \in D : f[s] \in Int) /\ DOMAIN freed = S /\ (\A s \in S : freed[s] = f[s])
      /\ DOMAIN kept = D \ S /\ (\A s \in D \ S : kept[s] = f[s]) /\ DOMAIN got = S /\ DOMAIN made = S
  BY <1>3
<1>8. DayTied(open) = SumFunction(f) /\ DayTied(open') = SumFunction(kept)
  BY <1>4 DEF DayTied
<1> HIDE DEF D, f, freed, kept, got, made
<1>9. S \in SUBSET D
  BY DEF D
<1>10. /\ SumFunction(f) = SumFunction(freed) + SumFunction(kept)
       /\ SumFunction(freed) \in Int /\ SumFunction(kept) \in Int
  <2>1. Summable(f, D) /\ Restricted(freed, f, S) /\ Restricted(kept, f, D \ S)
    BY <1>3, <1>7 DEF Summable, Restricted
  <2>2. QED BY <1>9, <2>1, SumOfParts
<1>11. \A s \in S : got[s] \in Nat /\ got[s] \in Int /\ made[s] \in Int /\ freed[s] \in Int /\ got[s] = made[s] + freed[s]
  BY <1>6
<1>12. SumFunction(got) = SumFunction(made) + SumFunction(freed)
  BY <1>5, <1>7, <1>11, SumAdds, SMTT(60)
<1>13. SumFunction(got) \in Nat /\ SumFunction(made) \in Int
  BY <1>5, <1>7, <1>11, SumType
<1>14. wallet' \in Nat /\ tradePnl' \in Int /\ wallet' = Capital0 + tradePnl' - DayTied(open')
  BY IntradayAmounts, <1>1, <1>2, <1>8, <1>10, <1>12, <1>13
<1>15. coolUntil' \in [Tickers -> Nat]
  BY <1>1, <1>2, IntradayAmounts
<1>16. EntriesAreCausal'
  BY <1>1, <1>2, <1>4 DEF EntriesAreCausal, D
<1>17. QED BY <1>4, <1>14, <1>15, <1>16 DEF D

LEMMA IntradayBegins == IntradayInit => IntradayInv
<1> SUFFICES ASSUME IntradayInit PROVE IntradayInv
  OBVIOUS
<1> USE DEF IntradayInit
<1>1. open = <<>> /\ DOMAIN open = {} /\ open \in [DOMAIN open -> DayTrade]
  OBVIOUS
<1>2. IntradayShape
  <2>1. sessionNo \in 1..SessionCount /\ clock \in 1..(SessionLength + 1)
    BY IntradayAmounts
  <2>2. wallet \in Nat /\ tradePnl \in Int /\ coolUntil \in [Tickers -> Nat]
    BY IntradayAmounts
  <2>3. QED BY <1>1, <2>1, <2>2 DEF IntradayShape
<1>3. IntradayOrders
  BY DEF IntradayOrders
<1>4. DayTied(open) = 0
  <2> DEFINE f == [s \in DOMAIN open |-> open[s].qty * (open[s].entry + ShareCost)]
             S == DOMAIN open
  <2>1. IsFiniteSet(S) /\ DOMAIN f = S /\ (\A y \in S : f[y] \in Int) /\ (\A y \in S : f[y] = 0)
    BY <1>1, FS_EmptySet
  <2> HIDE DEF f, S
  <2>2. SumFunction(f) = 0
    BY <2>1, SumType
  <2>3. QED BY <2>2 DEF DayTied, f
<1>5. IntradayBooks
  BY <1>1, <1>4, IntradayAmounts DEF IntradayBooks, EntriesAreCausal
<1>6. QED BY <1>2, <1>3, <1>5 DEF IntradayInv

LEMMA IntradayOpens == IntradayInv /\ MinuteOpens => IntradayInv'
<1> SUFFICES ASSUME IntradayInv, MinuteOpens PROVE IntradayInv'
  OBVIOUS
<1> DEFINE stopped == lossHalt \/ BreachedAt(Worth(wallet, open, "open"))
           Opening(s) == minuteBars'[s].open
           Leaves(s) == \/ stopped \/ clock >= FlatAt
                        \/ Opening(s) <= open[s].stop \/ Opening(s) >= open[s].target
                        \/ clock - open[s].since >= MaxHold
           AtTarget(s) == /\ ~stopped /\ clock < FlatAt
                          /\ Opening(s) > open[s].stop /\ Opening(s) >= open[s].target
           S == {s \in DOMAIN open : Leaves(s)}
           price == [s \in DOMAIN open |-> IF AtTarget(s) THEN open[s].target ELSE Opening(s)]
<1>1. /\ step = "open" /\ clock <= SessionLength /\ minuteBars' \in [Tickers -> BarShapes] /\ step' = "orders"
      /\ Closing(S, price, clock) /\ UNCHANGED <<sessionNo, clock, startEquity, counts>>
      /\ dueOrders' = {o \in orders : o.due = clock} /\ orders' = orders \ dueOrders'
  BY DEF MinuteOpens
<1>2. lossHalt' \in BOOLEAN
  BY DEF MinuteOpens
<1>3. IntradayShape /\ IntradayOrders /\ clock \in Nat /\ open \in [DOMAIN open -> DayTrade] /\ DOMAIN open \in SUBSET Tickers
  BY IntradayAmounts DEF IntradayInv, IntradayShape
<1>4. \A s \in DOMAIN open : open[s].target \in Nat \ {0} /\ minuteBars'[s].open \in Nat \ {0}
  BY <1>1, <1>3, DayTies, IntradayAmounts
<1>5. S \in SUBSET DOMAIN open /\ \A s \in S : price[s] \in Nat \ {0}
  BY <1>4
<1>6. clock >= FlatAt => S = DOMAIN open
  OBVIOUS
<1> HIDE DEF S, price, stopped, Opening, Leaves, AtTarget
<1>7. /\ open' \in [DOMAIN open \ S -> DayTrade] /\ DOMAIN open' = DOMAIN open \ S
      /\ \A s \in DOMAIN open' : open'[s] = open[s]
      /\ wallet' \in Nat /\ tradePnl' \in Int /\ wallet' = Capital0 + tradePnl' - DayTied(open')
      /\ coolUntil' \in [Tickers -> Nat] /\ EntriesAreCausal'
  BY <1>1, <1>3, <1>5, DayCloses
<1>8. IntradayShape'
  BY <1>1, <1>2, <1>3, <1>7 DEF IntradayShape
<1>9. IntradayOrders'
  BY <1>1, <1>3 DEF IntradayOrders, DayOrder
<1>10. clock' >= FlatAt => open' = <<>>
  <2> SUFFICES ASSUME clock >= FlatAt PROVE open' = <<>>
    BY <1>1
  <2>1. DOMAIN open' = {} /\ open' \in [{} -> DayTrade]
    BY <1>6, <1>7
  <2>2. QED BY <2>1
<1>11. IntradayBooks'
  BY <1>7, <1>10 DEF IntradayBooks, DayTied
<1>12. QED BY <1>8, <1>9, <1>11 DEF IntradayInv

LEMMA IntradayCloses ==
  ASSUME IntradayInv, NEW signalled \in SUBSET Tickers, MinuteCloses(signalled)
  PROVE  IntradayInv'
<1> DEFINE Stopped(s) == minuteBars[s].low <= open[s].stop
           S == {s \in DOMAIN open : Stopped(s) \/ minuteBars[s].high >= open[s].target}
           price == [s \in DOMAIN open |-> IF Stopped(s) THEN open[s].stop ELSE open[s].target]
<1>1. /\ step = "orders" /\ dueOrders = {} /\ Closing(S, price, clock + 1) /\ clock' = clock + 1 /\ step' = "open"
      /\ UNCHANGED <<sessionNo, dueOrders, startEquity, counts>>
  BY DEF MinuteCloses
<1>2. lossHalt' = (lossHalt \/ BreachedAt(Worth(wallet', open', "close")))
  BY DEF MinuteCloses
<1>3. orders' = IF lossHalt' \/ clock + TradeDelay >= FlatAt THEN orders
                ELSE orders \cup {[ticker |-> s, at |-> clock + 1, due |-> clock + TradeDelay] : s \in signalled}
  BY DEF MinuteCloses
<1>4. /\ IntradayShape /\ IntradayOrders /\ clock \in Nat /\ clock \in 1..SessionLength
      /\ open \in [DOMAIN open -> DayTrade] /\ DOMAIN open \in SUBSET Tickers
  BY <1>1, IntradayAmounts DEF IntradayInv, IntradayShape
<1>5. S \in SUBSET DOMAIN open /\ \A s \in S : price[s] \in Nat \ {0}
  BY <1>4, DayTies
<1> HIDE DEF S, price, Stopped
<1>6. /\ open' \in [DOMAIN open \ S -> DayTrade] /\ DOMAIN open' = DOMAIN open \ S
      /\ \A s \in DOMAIN open' : open'[s] = open[s]
      /\ wallet' \in Nat /\ tradePnl' \in Int /\ wallet' = Capital0 + tradePnl' - DayTied(open')
      /\ coolUntil' \in [Tickers -> Nat] /\ EntriesAreCausal'
  <2>1. clock + 1 \in Nat
    BY <1>4
  <2>2. QED BY <1>1, <1>5, <2>1, DayCloses
<1>7. IntradayShape'
  BY <1>2, <1>1, <1>4, IntradayAmounts, <1>6 DEF IntradayShape
<1>8. IntradayOrders'
  <2>1. ASSUME NEW o \in orders' PROVE o \in DayOrder
    <3>1. CASE o \in orders
      BY <1>4, <3>1 DEF IntradayOrders
    <3>2. CASE o \notin orders
      <4>1. PICK s \in signalled : o = [ticker |-> s, at |-> clock + 1, due |-> clock + TradeDelay]
        BY <1>3, <3>2
      <4>2. clock + TradeDelay < FlatAt
        BY <1>3, <1>4, <3>2, IntradayAmounts
      <4>3. clock + TradeDelay = (clock + 1) - 1 + TradeDelay /\ clock + TradeDelay \in Nat /\ clock + 1 \in Nat
        BY <1>4, IntradayAmounts
      <4>4. QED BY <4>1, <4>2, <4>3 DEF DayOrder
    <3>3. QED BY <3>1, <3>2
  <2>2. QED BY <1>1, <2>1 DEF IntradayOrders, DayOrder
<1>9. IntradayBooks'
  BY <1>1, <1>6 DEF IntradayBooks, DayTied
<1>10. QED BY <1>7, <1>8, <1>9 DEF IntradayInv

\* An entry that fills is for money the wallet has.
LEMMA IntradayFills ==
  ASSUME IntradayInv, NEW o \in dueOrders, NEW correlated \in BOOLEAN, DueOrder(o, correlated)
  PROVE  IntradayInv'
<1> DEFINE s == o.ticker
           price == minuteBars[s].open
           sizes == {q \in 1..VolumeShare : WithinLimits(s, q)}
           qty == Max(sizes)
<1>1. /\ step = "orders" /\ dueOrders' = dueOrders \ {o}
      /\ UNCHANGED <<sessionNo, clock, step, minuteBars, orders, startEquity, coolUntil, tradePnl>>
  BY DEF DueOrder
<1>2. /\ IntradayShape /\ IntradayOrders /\ IntradayBooks /\ clock \in Nat /\ o \in DayOrder /\ o.due = clock
      /\ open \in [DOMAIN open -> DayTrade] /\ DOMAIN open \in SUBSET Tickers /\ coolUntil \in [Tickers -> Nat]
      /\ wallet \in Nat /\ tradePnl \in Int
  BY IntradayAmounts DEF IntradayInv, IntradayShape, IntradayOrders
<1>3. IntradayOrders'
  BY <1>1, <1>2 DEF IntradayOrders, DayOrder
<1>4. CASE UNCHANGED <<open, wallet, counts, lossHalt>>
  BY <1>1, <1>2, <1>4, <1>3 DEF IntradayShape, IntradayBooks, EntriesAreCausal, DayTied, IntradayInv
<1>5. CASE ~UNCHANGED <<open, wallet, counts, lossHalt>>
  <2> DEFINE new == [qty |-> qty, entry |-> price, stop |-> price - Distance,
                     target |-> price + Distance * Reward, since |-> clock, signal |-> o.at]
  <2>1. /\ ~Refused(o) /\ sizes # {} /\ wallet' = wallet - qty * (price + ShareCost)
        /\ open' = [k \in DOMAIN open \cup {s} |-> IF k = s THEN new ELSE open[k]]
    BY <1>5 DEF DueOrder
  <2>2. lossHalt' \in BOOLEAN
    <3>1. lossHalt' = BreachedAt(wallet' + SumFunction([k \in DOMAIN open' |-> open'[k].qty * minuteBars[k].open]))
      BY <1>5 DEF DueOrder
    <3>2. QED BY <3>1 DEF BreachedAt
  <2>3. qty \in sizes
    <3>1. sizes \subseteq 0..VolumeShare /\ VolumeShare \in Nat
      BY IntradayAmounts
    <3> HIDE DEF sizes
    <3>2. QED BY <2>1, <3>1, LargestNat
  <2>4. qty \in Nat \ {0} /\ WithinLimits(s, qty)
    BY <2>3, IntradayAmounts
  <2>5. s \in Tickers /\ o.at \in Nat /\ clock = o.at - 1 + TradeDelay /\ clock < FlatAt
    BY <1>2 DEF DayOrder
  <2>6. price \in Nat \ {0}
    BY <1>1, <1>2, <2>5, IntradayAmounts DEF IntradayShape
  <2> HIDE DEF qty, sizes
  <2>7. s \notin DOMAIN open /\ ~(clock < coolUntil[s]) /\ ~(price - Distance <= 0)
    BY <2>1 DEF Refused
  <2>8. qty * (price + ShareCost) <= wallet
    BY <2>4 DEF WithinLimits
  <2>9. new \in DayTrade /\ new.qty = qty /\ new.entry = price /\ new.since = clock /\ new.signal = o.at
    <3>1. price - Distance \in Nat \ {0} /\ Distance * Reward \in Nat /\ price + Distance * Reward \in Nat \ {0}
      BY IntradayAmounts, <2>6, <2>7
    <3>2. QED BY <1>2, <2>4, <2>5, <2>6, <3>1 DEF DayTrade
  <2> HIDE DEF new, price, s
  <2>10. /\ DOMAIN open' = DOMAIN open \cup {s} /\ open' \in [DOMAIN open \cup {s} -> DayTrade]
         /\ open'[s] = new /\ \A k \in DOMAIN open : open'[k] = open[k]
    BY <1>2, <2>1, <2>7, <2>9
  <2>11. qty * (price + ShareCost) \in Nat
    BY <2>4, <2>6, IntradayAmounts
  <2>12. DayTied(open') = DayTied(open) + qty * (price + ShareCost) /\ DayTied(open) \in Int
    <3> DEFINE D == DOMAIN open
               f == [k \in DOMAIN open |-> open[k].qty * (open[k].entry + ShareCost)]
               g == [k \in DOMAIN open' |-> open'[k].qty * (open'[k].entry + ShareCost)]
    <3>1. IsFiniteSet(D) /\ DOMAIN f = D /\ \A k \in D : f[k] \in Int
      BY <1>2, DayTies
    <3>2. DOMAIN g = D \cup {s} /\ (\A k \in D : g[k] = f[k]) /\ g[s] = qty * (price + ShareCost) /\ g[s] \in Int
      BY <2>9, <2>10, <2>11
    <3> HIDE DEF f, g, D
    <3>3. s \notin D
      BY <2>7 DEF D
    <3>4. SumFunction(g) = SumFunction(f) + g[s] /\ SumFunction(f) \in Int
      BY <3>1, <3>2, <3>3, SumGains, SMTT(60)
    <3>5. QED BY <3>2, <3>4 DEF DayTied, f, g
  <2>13. wallet' \in Nat /\ wallet' = Capital0 + tradePnl' - DayTied(open')
    <3> DEFINE cost == qty * (price + ShareCost)
    <3>1. cost \in Nat /\ cost <= wallet /\ wallet' = wallet - cost /\ DayTied(open') = DayTied(open) + cost
      BY <2>1, <2>8, <2>11, <2>12
    <3> HIDE DEF cost
    <3>2. wallet = Capital0 + tradePnl - DayTied(open) /\ Capital0 \in Int
      BY <1>2, IntradayAmounts DEF IntradayBooks
    <3>3. QED BY <1>1, <1>2, <2>12, <3>1, <3>2
  <2>14. EntriesAreCausal'
    <3> SUFFICES ASSUME NEW k \in DOMAIN open'
                 PROVE  open'[k].since = open'[k].signal - 1 + TradeDelay /\ open'[k].since >= coolUntil[k]
      BY <1>1 DEF EntriesAreCausal
    <3>1. CASE k = s
      BY <1>2, <2>5, <2>7, <2>9, <2>10, <3>1
    <3>2. CASE k # s
      BY <1>2, <2>10, <3>2 DEF IntradayBooks, EntriesAreCausal
    <3>3. QED BY <3>1, <3>2
  <2>15. IntradayShape'
    BY <1>1, <1>2, <2>2, <2>5, <2>10, <2>13 DEF IntradayShape
  <2>16. clock' < FlatAt /\ clock' \in Nat /\ FlatAt \in Nat
    BY <1>1, <1>2, <2>5, IntradayAmounts
  <2>17. IntradayBooks'
    BY <2>13, <2>14, <2>16 DEF IntradayBooks, DayTied
  <2>18. QED BY <1>3, <2>15, <2>17 DEF IntradayInv
<1>6. QED BY <1>4, <1>5

LEMMA IntradayKeeps == IntradayInv /\ [IntradayNext]_intradayVars => IntradayInv'
<1> SUFFICES ASSUME IntradayInv, [IntradayNext]_intradayVars PROVE IntradayInv'
  OBVIOUS
<1>1. CASE UNCHANGED intradayVars
  BY <1>1 DEF intradayVars, IntradayInv, IntradayShape, IntradayOrders, DayOrder, IntradayBooks, EntriesAreCausal, DayTied
<1>2. CASE NextSession
  <2>1. /\ step = "open" /\ clock > SessionLength /\ sessionNo < SessionCount /\ sessionNo' = sessionNo + 1 /\ clock' = 1
        /\ lossHalt' = FALSE /\ orders' = {} /\ coolUntil' = [s \in Tickers |-> 0]
        /\ UNCHANGED <<step, minuteBars, dueOrders, open, wallet, tradePnl>>
    BY <1>2 DEF NextSession
  <2>2. IntradayShape /\ IntradayOrders /\ IntradayBooks /\ open \in [DOMAIN open -> DayTrade] /\ DOMAIN open \in SUBSET Tickers
    BY DEF IntradayInv, IntradayShape
  <2>3. sessionNo' \in 1..SessionCount /\ clock' \in 1..(SessionLength + 1) /\ coolUntil' \in [Tickers -> Nat]
    BY <2>1, <2>2, IntradayAmounts DEF IntradayShape
  <2>4. IntradayShape'
    BY <2>1, <2>2, <2>3 DEF IntradayShape
  <2>5. IntradayOrders'
    BY <2>1, <2>2 DEF IntradayOrders
  <2>6. EntriesAreCausal'
    BY <2>2, DayTies, <2>1 DEF EntriesAreCausal, IntradayBooks
  <2>7. QED BY <2>1, <2>2, <2>4, <2>5, <2>6 DEF IntradayInv, IntradayBooks, DayTied
<1>3. QED BY <1>1, <1>2, IntradayOpens, IntradayFills, IntradayCloses DEF IntradayNext

LEMMA IntradayFollows == IntradayInv => IntradayTypeOK /\ IntradayIsSound
<1> SUFFICES ASSUME IntradayInv PROVE IntradayTypeOK /\ IntradayIsSound
  OBVIOUS
<1>1. IntradayShape /\ IntradayBooks /\ open \in [DOMAIN open -> DayTrade] /\ DOMAIN open \in SUBSET Tickers
  BY DEF IntradayInv, IntradayShape
<1>2. \A s \in DOMAIN open : open[s].qty > 0
  BY <1>1, DayTies
<1>3. wallet >= 0
  BY <1>1 DEF IntradayShape
<1>4. QED BY <1>1, <1>2, <1>3
     DEF IntradayShape, IntradayBooks, DayTied, IntradayTypeOK, IntradayIsSound, SimulatorAssertions

LEMMA IntradayHolds == ResearchSuiteSpec => [](Examined("intraday") => IntradayInv)
<1>1. ResearchSuiteInit => (Examined("intraday") => IntradayInv)
  BY IntradayBegins DEF ResearchSuiteInit
<1>2. (Examined("intraday") => IntradayInv) /\ [ResearchSuiteNext]_suiteVars => (Examined("intraday") => IntradayInv)'
  BY IntradaySteps, IntradayKeeps
<1>3. QED BY <1>1, <1>2, PTL DEF ResearchSuiteSpec

-----------------------------------------------------------------------------
(* The minute replay of the funds.  Marks cancel out of the identity: what *)
(* is left says that cash and claims are the capital, the results and the  *)
(* costs, and what the open positions were bought for and are owed.        *)

LEMMA MinuteSteps ==
  ASSUME [ResearchSuiteNext]_suiteVars, Examined("minutes")'
  PROVE  Examined("minutes") /\ [EtfNext]_etfVars
BY DEF ResearchSuiteNext, suiteVars, Steps, Examined, Studies, etfVars

EtfHolding ==
  [qty : Nat \ {0}, basis : Int, dividends : Int, stop : Int, target : Int, since : Int, session : Int]

MinuteShape ==
  /\ stage \in {"configure", "session", "open", "entries"} /\ session \in 0..Sessions /\ minute \in 0..MinutesPerSession
  /\ holdings \in [DOMAIN holdings -> EtfHolding] /\ DOMAIN holdings \subseteq Etfs
  /\ etfMarks \in [Etfs -> Int] /\ etfCash \in Int /\ etfRealized \in Int /\ etfOverhead \in Int
  /\ dailyHalt \in BOOLEAN /\ drawdownHalt \in BOOLEAN /\ valuationValid \in BOOLEAN

\* Claims are of the actions that have been effective.
MinuteClaims ==
  /\ Payouts(claims)
  /\ \A k \in claims : k.amount \in Nat \ {0} /\ k.event \in Events
                       /\ k.event.at <= Now /\ (stage = "open" => k.event.at < Now)

\* An entry is for a fund with a bar that is not held.
MinuteRows ==
  stage = "entries" =>
    /\ DOMAIN rows \subseteq Etfs /\ \A s \in DOMAIN rows : rows[s] \in EtfShapes[s]
    /\ candidates \subseteq DOMAIN rows \ DOMAIN holdings

\* A halt that began stands, and what must not be held overnight is sold.
MinuteHalts ==
  /\ haltSince # 0 => dailyHalt \/ drawdownHalt
  /\ HaltsFlatten
  /\ stage = "configure" => holdings = <<>>
  /\ family = "MR" /\ valuationValid /\ (stage = "session" \/ (stage = "entries" /\ minute >= Cutoff)) => holdings = <<>>

\* What the open positions are owed more than they were bought for.
EtfCarry(bk) == SumFunction([s \in DOMAIN bk |-> bk[s].dividends - bk[s].basis])

MinuteBooks == etfCash + Owing(claims) = EtfCapital + etfRealized - etfOverhead + EtfCarry(holdings)

MinuteInv == MinuteShape /\ MinuteClaims /\ MinuteRows /\ MinuteHalts /\ MinuteBooks

LEMMA EtfAmounts ==
  /\ MinutesPerSession \in Nat \ {0} /\ Sessions \in Nat \ {0} /\ EtfCapital \in Nat
  /\ Impact \in Nat /\ Fee \in Nat /\ Overhead \in Nat /\ StopGap \in Nat /\ TargetGap \in Nat
  /\ Cutoff \in 1..MinutesPerSession /\ IsFiniteSet(Etfs) /\ IsFiniteSet(Events) /\ DOMAIN EtfShapes = Etfs
  /\ \A e \in Events : e.at \in Nat /\ e.ratio \in Nat \ {0} /\ e.dividend \in Nat /\ e.pay \in Nat
  /\ \A e, f \in Events : e.symbol = f.symbol /\ e.at = f.at => e = f
BY EtfAssumption

LEMMA EtfBars ==
  ASSUME NEW s \in Etfs, NEW b \in EtfShapes[s]
  PROVE  b.open \in Nat \ {0} /\ b.low \in Nat /\ b.high \in Nat /\ b.close \in Nat
<1>1. b.open \in Nat /\ b.low \in Nat /\ b.high \in Nat /\ b.close \in Nat /\ b.low > 0 /\ b.low <= Min({b.open, b.close})
  BY EtfAssumption
<1>2. Min({b.open, b.close}) = IF b.open <= b.close THEN b.open ELSE b.close
  BY <1>1, MinOfTwo
<1>3. QED BY <1>1, <1>2

LEMMA NowIs ==
  ASSUME NEW k \in Int, NEW m \in Int
  PROVE  /\ (k - 1) * MinutesPerSession + m \in Int
         /\ (k + 1 - 1) * MinutesPerSession + 1 = (k - 1) * MinutesPerSession + m + (MinutesPerSession - m) + 1
<1>1. MinutesPerSession \in Int
  BY EtfAmounts
<1> DEFINE n == MinutesPerSession
<1>2. n \in Int
  BY <1>1
<1> HIDE DEF n
<1>3. k + 1 - 1 = k /\ (k - 1) * n = k * n - n /\ k * n \in Int
  BY <1>2
<1>4. QED BY <1>2, <1>3 DEF n

LEMMA NextNowIs ==
  ASSUME NEW k \in Int, NEW m \in Int, NEW j, j = k + 1
  PROVE  (j - 1) * MinutesPerSession + 1 = (k - 1) * MinutesPerSession + m + (MinutesPerSession - m) + 1
<1>1. j - 1 = k + 1 - 1
  OBVIOUS
<1>2. (j - 1) * MinutesPerSession = (k + 1 - 1) * MinutesPerSession
  BY <1>1, Zenon
<1>3. (k + 1 - 1) * MinutesPerSession + 1 = (k - 1) * MinutesPerSession + m + (MinutesPerSession - m) + 1
  BY NowIs
<1>4. QED BY <1>2, <1>3, Zenon

\* The fields of a book of holdings, and that its carry is an integer.
LEMMA EtfBook ==
  ASSUME NEW D \in SUBSET Etfs, NEW bk \in [D -> EtfHolding]
  PROVE  /\ IsFiniteSet(D) /\ DOMAIN bk = D
         /\ \A s \in D : /\ bk[s].qty \in Nat \ {0} /\ bk[s].basis \in Int /\ bk[s].dividends \in Int
                         /\ bk[s].stop \in Int /\ bk[s].target \in Int /\ bk[s].since \in Int /\ bk[s].session \in Int
         /\ Summable([s \in D |-> bk[s].dividends - bk[s].basis], D)
         /\ EtfCarry(bk) \in Int
<1>1. IsFiniteSet(D) /\ DOMAIN bk = D
  BY EtfAmounts, FS_Subset
<1>2. \A s \in D : bk[s] \in EtfHolding
  OBVIOUS
<1>3. \A s \in D : /\ bk[s].qty \in Nat \ {0} /\ bk[s].basis \in Int /\ bk[s].dividends \in Int
                   /\ bk[s].stop \in Int /\ bk[s].target \in Int /\ bk[s].since \in Int /\ bk[s].session \in Int
  BY <1>2 DEF EtfHolding
<1> DEFINE f == [s \in D |-> bk[s].dividends - bk[s].basis]
<1>4. Summable(f, D)
  BY <1>1, <1>3 DEF Summable
<1> HIDE DEF f
<1>5. SumFunction(f) \in Int
  BY <1>4, SumsAreInt
<1>6. QED BY <1>1, <1>3, <1>4, <1>5 DEF EtfCarry, f

\* The holdings L of a book on D can be sold at the prices raw.
CanBeSold(bk, D, L, raw) ==
  D \in SUBSET Etfs /\ bk \in [D -> EtfHolding] /\ L \in SUBSET D /\ \A s \in L : raw[s] \in Int

\* Selling part of a book: its results are the proceeds and what it carried.
SaleBooked(bk, D, L, raw) ==
  /\ Without(bk, L) \in [D \ L -> EtfHolding] /\ DOMAIN Without(bk, L) = D \ L
  /\ Proceeds(bk, L, raw) \in Int /\ Gains(bk, L, raw) \in Int
  /\ EtfCarry(bk) \in Int /\ EtfCarry(Without(bk, L)) \in Int
  /\ Gains(bk, L, raw) = Proceeds(bk, L, raw) + EtfCarry(bk) - EtfCarry(Without(bk, L))

LEMMA EtfSells ==
  ASSUME NEW bk, NEW D, NEW L, NEW raw, CanBeSold(bk, D, L, raw)
  PROVE  SaleBooked(bk, D, L, raw)
<1> DEFINE all == [s \in D |-> bk[s].dividends - bk[s].basis]
           left == [s \in L |-> bk[s].dividends - bk[s].basis]
           kept == [s \in D \ L |-> bk[s].dividends - bk[s].basis]
           got == [s \in L |-> bk[s].qty * (raw[s] - Impact - Fee)]
           made == [s \in L |-> bk[s].qty * (raw[s] - Impact - Fee) - bk[s].basis + bk[s].dividends]
           w == Without(bk, L)
<1>0. D \in SUBSET Etfs /\ bk \in [D -> EtfHolding] /\ L \in SUBSET D /\ \A s \in L : raw[s] \in Int
  BY DEF CanBeSold
<1>1. IsFiniteSet(D) /\ DOMAIN bk = D /\ IsFiniteSet(L)
  BY <1>0, EtfBook, FS_Subset
<1>2. w \in [D \ L -> EtfHolding] /\ DOMAIN w = D \ L /\ \A s \in D \ L : w[s] = bk[s]
  BY <1>0, <1>1 DEF Without
<1>3. \A s \in D : bk[s].qty \in Nat /\ bk[s].basis \in Int /\ bk[s].dividends \in Int
  BY <1>0, EtfBook
<1>4. \A s \in L : /\ got[s] \in Int /\ left[s] \in Int /\ made[s] = got[s] + left[s]
  <2> SUFFICES ASSUME NEW s \in L PROVE got[s] \in Int /\ left[s] \in Int /\ made[s] = got[s] + left[s]
    OBVIOUS
  <2> DEFINE x == bk[s].qty * (raw[s] - Impact - Fee)
  <2>1. x \in Int
    BY <1>0, <1>3, EtfAmounts
  <2>2. got[s] = x /\ left[s] = bk[s].dividends - bk[s].basis /\ made[s] = x - bk[s].basis + bk[s].dividends
    OBVIOUS
  <2>3. s \in D
    BY <1>0
  <2> HIDE DEF x, got, left, made
  <2>4. QED BY <1>3, <2>1, <2>2, <2>3
<1>5. Summable(all, D) /\ Restricted(left, all, L) /\ Restricted(kept, all, D \ L)
  BY <1>0, <1>1, <1>3 DEF Summable, Restricted
<1>6. Summable(got, L) /\ Summable(left, L) /\ DOMAIN made = L
  BY <1>1, <1>4 DEF Summable
<1>7. EtfCarry(bk) = SumFunction(all) /\ EtfCarry(w) = SumFunction(kept)
      /\ Proceeds(bk, L, raw) = SumFunction(got) /\ Gains(bk, L, raw) = SumFunction(made)
  BY <1>2, <1>1 DEF EtfCarry, Proceeds, Gains
<1> HIDE DEF all, left, kept, got, made, w
<1>8. SumFunction(all) = SumFunction(left) + SumFunction(kept) /\ SumFunction(all) \in Int
      /\ SumFunction(left) \in Int /\ SumFunction(kept) \in Int
  BY <1>0, <1>5, SumOfParts
<1>9. SumFunction(made) = SumFunction(got) + SumFunction(left) /\ SumFunction(got) \in Int
  BY <1>4, <1>6, SumOfSums
<1>10. QED BY <1>2, <1>7, <1>8, <1>9 DEF w, SaleBooked

\* A corporate action credits its dividend to what is carried and to what is
\* owed alike.
LEMMA EtfAdjusts ==
  ASSUME MinuteInv, stage = "open"
  PROVE  /\ Adjusted \in [DOMAIN holdings -> EtfHolding]
         /\ \A s \in DOMAIN holdings : RatioOf(s) \in Nat \ {0}
         /\ Payouts(Entitled)
         /\ \A k \in Entitled : k.amount \in Nat \ {0} /\ k.event \in Events /\ k.event.at <= Now
         /\ Owing(Entitled) - EtfCarry(Adjusted) = Owing(claims) - EtfCarry(holdings)
<1> DEFINE D == DOMAIN holdings
           credit == [s \in D |-> CreditOf(s)]
           new == {[event |-> e, amount |-> CreditOf(e.symbol)] : e \in {x \in Today : CreditOf(x.symbol) > 0}}
<1>1. MinuteShape /\ MinuteClaims /\ holdings \in [D -> EtfHolding] /\ D \in SUBSET Etfs
  BY DEF MinuteInv, MinuteShape
<1>2. /\ IsFiniteSet(D)
      /\ \A s \in D : /\ holdings[s].qty \in Nat \ {0} /\ holdings[s].basis \in Int /\ holdings[s].dividends \in Int
                      /\ holdings[s].stop \in Int /\ holdings[s].target \in Int
  BY <1>1, EtfBook
<1>3. \A e \in Today : e \in Events /\ e.at = Now /\ e.symbol \in D /\ e.ratio \in Nat \ {0} /\ e.dividend \in Nat
  BY EtfAmounts DEF Today
<1>4. \A s \in D : RatioOf(s) \in Nat \ {0}
  BY <1>3 DEF RatioOf
<1>5. \A s \in D : CreditOf(s) \in Nat
  <2> SUFFICES ASSUME NEW s \in D, \E e \in Today : e.symbol = s PROVE CreditOf(s) \in Nat
    BY DEF CreditOf
  <2> DEFINE e == CHOOSE x \in Today : x.symbol = s
  <2>1. e \in Today
    OBVIOUS
  <2>2. CreditOf(s) = holdings[s].qty * e.ratio * e.dividend
    BY DEF CreditOf
  <2> HIDE DEF e
  <2>3. holdings[s].qty \in Nat /\ e.ratio \in Nat /\ e.dividend \in Nat
    BY <1>2, <1>3, <2>1
  <2>4. holdings[s].qty * e.ratio \in Nat
    BY <2>3
  <2> DEFINE x == holdings[s].qty * e.ratio
  <2> HIDE DEF x
  <2>5. x * e.dividend \in Nat
    BY <2>3, <2>4 DEF x
  <2>6. QED BY <2>2, <2>5 DEF x
<1>6. ASSUME NEW s \in D
      PROVE  /\ Adjusted[s] \in EtfHolding /\ Adjusted[s].basis = holdings[s].basis
             /\ Adjusted[s].dividends = holdings[s].dividends + CreditOf(s)
  <2> DEFINE p == holdings[s]
             r == RatioOf(s)
             q == p.qty * r
             st == p.stop \div r
             ta == p.target \div r
             di == p.dividends + CreditOf(s)
  <2>1. q \in Nat \ {0} /\ st \in Int /\ ta \in Int /\ di \in Int /\ p \in EtfHolding
    <3>1. r \in Nat \ {0} /\ p.qty \in Nat \ {0} /\ p.stop \in Int /\ p.target \in Int /\ p.dividends \in Int
      BY <1>2, <1>4
    <3>2. CreditOf(s) \in Nat /\ p \in EtfHolding
      BY <1>1, <1>5
    <3> HIDE DEF p, r
    <3>3. p.qty * r \in Nat \ {0}
      BY <3>1
    <3>4. p.stop \div r \in Int /\ p.target \div r \in Int
      BY <3>1
    <3>5. QED BY <3>1, <3>2, <3>3, <3>4
  <2>2. Adjusted[s] = [p EXCEPT !.qty = q, !.stop = st, !.target = ta, !.dividends = di]
    BY DEF Adjusted
  <2> HIDE DEF p, r, q, st, ta, di
  <2> DEFINE n == [p EXCEPT !.qty = q, !.stop = st, !.target = ta, !.dividends = di]
  <2>3. n \in EtfHolding /\ n.basis = p.basis /\ n.dividends = di
    BY <2>1 DEF EtfHolding
  <2>4. QED BY <2>2, <2>3 DEF p, di
<1>7. Adjusted \in [D -> EtfHolding]
  BY <1>6 DEF Adjusted
<1>8. Credits(new, credit, D)
  <2>1. DOMAIN credit = D /\ \A s \in D : credit[s] \in Nat /\ credit[s] = CreditOf(s)
    BY <1>5
  <2>2. ASSUME NEW k \in new
        PROVE  /\ k.event \in Today /\ k.event.symbol \in D /\ k.amount = CreditOf(k.event.symbol) /\ k.amount > 0
               /\ k = [event |-> k.event, amount |-> CreditOf(k.event.symbol)]
    BY <1>3
  <2>3. \A e, f \in Today : e.symbol = f.symbol => e = f
    BY <1>3, EtfAmounts
  <2>4. ASSUME NEW k \in new, NEW l \in new, k.event.symbol = l.event.symbol PROVE k = l
    BY <2>2, <2>3, <2>4
  <2>5. ASSUME NEW s \in D, credit[s] > 0 PROVE \E k \in new : k.event.symbol = s
    <3>1. PICK e \in Today : e.symbol = s
      BY <2>1, <2>5 DEF CreditOf
    <3>2. CreditOf(e.symbol) > 0
      BY <2>1, <2>5, <3>1
    <3>3. [event |-> e, amount |-> CreditOf(e.symbol)] \in new
      BY <3>2
    <3>4. QED BY <3>1, <3>3
  <2> HIDE DEF new, credit
  <2>6. QED BY <1>2, <2>1, <2>2, <2>4, <2>5 DEF Credits
<1>9. \A k \in new : k.event \in Events /\ k.event.at = Now /\ k.amount \in Nat \ {0}
  <2> SUFFICES ASSUME NEW e \in Today, CreditOf(e.symbol) > 0
               PROVE  e \in Events /\ e.at = Now /\ CreditOf(e.symbol) \in Nat \ {0}
    OBVIOUS
  <2>1. CreditOf(e.symbol) \in Nat
    BY <1>3, <1>5
  <2>2. QED BY <1>3, <2>1
<1>10. Now \in Int
  BY <1>1, NowIs DEF Now, MinuteShape
<1>11. Payouts(claims) /\ \A k \in claims : k.amount \in Nat \ {0} /\ k.event \in Events /\ k.event.at < Now
  BY <1>1 DEF MinuteClaims
<1>12. claims \cap new = {}
  <2> SUFFICES ASSUME NEW k \in claims, k \in new PROVE FALSE
    OBVIOUS
  <2>1. k.event.at < Now /\ k.event.at = Now
    BY <1>9, <1>11
  <2>2. QED BY <1>10, <2>1
<1>13. Entitled = claims \cup new
  BY DEF Entitled
<1>14. \A k \in Entitled : k.amount \in Nat \ {0} /\ k.event \in Events /\ k.event.at <= Now
  BY <1>11, EtfAmounts, <1>9, <1>10, <1>13
<1> HIDE DEF new
<1>15. /\ Owing(Entitled) = Owing(claims) + SumFunction(credit) /\ Payouts(Entitled) /\ SumFunction(credit) \in Int
  BY <1>8, <1>11, <1>12, <1>13, OwingGrows
<1>16. EtfCarry(Adjusted) = EtfCarry(holdings) + SumFunction(credit)
  <2> DEFINE f == [s \in D |-> holdings[s].dividends - holdings[s].basis]
             g == [s \in D |-> Adjusted[s].dividends - Adjusted[s].basis]
  <2>1. Summable(f, D)
    BY <1>1, EtfBook
  <2>2. Summable(credit, D)
    BY <1>2, <1>5 DEF Summable
  <2>3. DOMAIN g = D /\ \A s \in D : g[s] = f[s] + credit[s]
    <3> SUFFICES ASSUME NEW s \in D PROVE g[s] = f[s] + credit[s]
      OBVIOUS
    <3>1. holdings[s].dividends \in Int /\ holdings[s].basis \in Int /\ CreditOf(s) \in Int
      BY <1>2, <1>5
    <3>2. QED BY <1>6, <3>1
  <2>4. EtfCarry(holdings) = SumFunction(f) /\ EtfCarry(Adjusted) = SumFunction(g)
    BY DEF Adjusted, EtfCarry
  <2> HIDE DEF f, g, credit
  <2>5. SumFunction(g) = SumFunction(f) + SumFunction(credit)
    BY <2>1, <2>2, <2>3, SumOfSums
  <2>6. QED BY <2>4, <2>5
<1>17. EtfCarry(holdings) \in Int /\ Owing(claims) \in Int
  BY <1>11, OwingSplits, <1>1, EtfBook
<1>18. QED BY <1>4, <1>7, <1>14, <1>15, <1>16, <1>17

LEMMA MinuteOpensHolds ==
  ASSUME MinuteInv, NEW present \in SUBSET Etfs, NEW revalidated \in SUBSET Etfs, OpenMinute(present, revalidated)
  PROVE  MinuteInv'
<1> DEFINE bk == Adjusted
           owed == Entitled \ Payable
           paid == SumFunction([k \in Payable |-> k.amount])
           money == etfCash + paid
           prices == [s \in Etfs |-> IF s \in present THEN rows'[s].open
                                     ELSE IF s \in DOMAIN bk THEN etfMarks[s] \div RatioOf(s) ELSE etfMarks[s]]
           before == EtfEquity(money, bk, prices, owed)
           raised == HighOf(peak, before)
           drawdown == drawdownHalt \/ DrawdownReached(peak, before)
           daily == dailyHalt \/ DailyReached(before)
           leaving == {s \in DOMAIN bk \cap present : MustLeave(s, bk, rows'[s].open, drawdown \/ daily, drawdown)}
           raw == [s \in leaving |-> rows'[s].open]
           after == EtfEquity(money + Proceeds(bk, leaving, raw), Without(bk, leaving), prices, owed)
           D == DOMAIN holdings
<1>1. /\ stage = "open" /\ stage' = "entries"
      /\ DOMAIN rows' = present /\ \A s \in present : rows'[s] \in EtfShapes[s]
      /\ UNCHANGED <<family, session, minute, signals, etfOverhead, previousClose>>
      /\ valuationValid' = (valuationValid /\ DOMAIN holdings \subseteq present)
  BY DEF OpenMinute
<1>2. /\ holdings' = Without(bk, leaving) /\ etfCash' = money + Proceeds(bk, leaving, raw)
      /\ claims' = owed /\ etfMarks' = prices
      /\ etfRealized' = etfRealized + Gains(bk, leaving, raw)
      /\ drawdownHalt' = (drawdown \/ DrawdownReached(raised, after))
      /\ dailyHalt' = (daily \/ DailyReached(after))
      /\ haltSince' = IF haltSince = 0 /\ (drawdownHalt' \/ dailyHalt') THEN Now ELSE haltSince
      /\ candidates' = (Ready(revalidated) \cap present) \ (DOMAIN holdings' \cup entered')
  BY DEF OpenMinute
<1>3. /\ MinuteShape /\ MinuteClaims /\ MinuteHalts /\ MinuteBooks /\ D \in SUBSET Etfs /\ holdings \in [D -> EtfHolding]
      /\ etfCash \in Int /\ etfRealized \in Int /\ etfOverhead \in Int /\ etfMarks \in [Etfs -> Int]
      /\ haltSince # 0 => dailyHalt \/ drawdownHalt
  BY DEF MinuteInv, MinuteShape, MinuteHalts
<1>4. /\ bk \in [D -> EtfHolding] /\ DOMAIN bk = D /\ (\A s \in D : RatioOf(s) \in Nat \ {0})
      /\ Payouts(Entitled) /\ (\A k \in Entitled : k.amount \in Nat \ {0} /\ k.event \in Events /\ k.event.at <= Now)
      /\ Owing(Entitled) - EtfCarry(bk) = Owing(claims) - EtfCarry(holdings)
  BY <1>1, EtfAdjusts
<1>5. \A s \in present : rows'[s].open \in Nat \ {0}
  BY <1>1, EtfBars
<1>6. prices \in [Etfs -> Int]
  <2> SUFFICES ASSUME NEW s \in Etfs PROVE prices[s] \in Int
    OBVIOUS
  <2>1. etfMarks[s] \in Int
    BY <1>3
  <2>2. CASE s \in present
    BY <1>5, <2>2
  <2>3. CASE s \notin present /\ s \in DOMAIN bk
    <3> DEFINE r == RatioOf(s)
               m == etfMarks[s]
    <3>1. r \in Nat \ {0} /\ m \in Int /\ prices[s] = m \div r
      BY <1>4, <2>1, <2>3
    <3> HIDE DEF r, m
    <3>2. m \div r \in Int
      BY <3>1
    <3>3. QED BY <3>1, <3>2
  <2>4. CASE s \notin present /\ s \notin DOMAIN bk
    BY <2>1, <2>4
  <2>5. QED BY <2>2, <2>3, <2>4
<1>7. leaving \in SUBSET D /\ \A s \in leaving : raw[s] \in Int
  BY <1>4, <1>5
<1>8. drawdown \/ daily => leaving = D \cap present
  BY <1>4 DEF MustLeave
<1>9. family = "MR" /\ minute >= Cutoff => leaving = D \cap present
  BY <1>4 DEF MustLeave
<1>10. \A s \in D \cap present : s \notin leaving => ~(drawdown \/ daily)
  BY <1>8
<1> HIDE DEF bk, owed, prices, before, raised, drawdown, daily, leaving, raw, after, money, D
<1>11. /\ Without(bk, leaving) \in [D \ leaving -> EtfHolding] /\ DOMAIN Without(bk, leaving) = D \ leaving
       /\ Proceeds(bk, leaving, raw) \in Int /\ Gains(bk, leaving, raw) \in Int
       /\ EtfCarry(bk) \in Int /\ EtfCarry(Without(bk, leaving)) \in Int
       /\ Gains(bk, leaving, raw) = Proceeds(bk, leaving, raw) + EtfCarry(bk) - EtfCarry(Without(bk, leaving))
  <2>1. CanBeSold(bk, D, leaving, raw)
    BY <1>3, <1>4, <1>7 DEF CanBeSold
  <2>2. SaleBooked(bk, D, leaving, raw)
    BY <2>1, EtfSells
  <2>3. QED BY <2>2 DEF SaleBooked
<1>12. Payable \in SUBSET Entitled /\ paid = Owing(Payable)
  BY DEF Payable, Owing
<1>13. /\ Owing(Entitled) = paid + Owing(owed) /\ paid \in Int /\ Owing(owed) \in Int /\ Payouts(owed)
  BY <1>4, <1>12, OwingSplits DEF owed
<1>14. money = etfCash + paid
  BY DEF money
<1>15. MinuteBooks'
  <2>1. etfCash + Owing(claims) = EtfCapital + etfRealized - etfOverhead + EtfCarry(holdings)
    BY <1>3 DEF MinuteBooks
  <2>2. Owing(claims) \in Int /\ EtfCarry(holdings) \in Int /\ EtfCapital \in Int
    <3>1. Owing(claims) \in Int
      BY <1>3, OwingSplits DEF MinuteClaims
    <3>2. EtfCarry(holdings) \in Int
      BY <1>3, EtfBook
    <3>3. QED BY <3>1, <3>2, EtfAmounts
  <2> DEFINE p == Proceeds(bk, leaving, raw)
             g == Gains(bk, leaving, raw)
             w == EtfCarry(Without(bk, leaving))
             c == EtfCarry(bk)
             h == EtfCarry(holdings)
             o == Owing(claims)
             u == Owing(owed)
  <2>3. p \in Int /\ g \in Int /\ w \in Int /\ c \in Int /\ h \in Int /\ o \in Int /\ u \in Int
        /\ g = p + c - w /\ (paid + u) - c = o - h /\ etfCash + o = EtfCapital + etfRealized - etfOverhead + h
    BY <1>4, <1>11, <1>13, <2>1, <2>2
  <2>4. etfCash' = etfCash + paid + p /\ etfRealized' = etfRealized + g /\ etfOverhead' = etfOverhead
    BY <1>1, <1>2, <1>14
  <2>5. Owing(claims') = u /\ EtfCarry(holdings') = w
    BY <1>2
  <2> HIDE DEF p, g, w, c, h, o, u
  <2>6. etfCash' + u = EtfCapital + etfRealized' - etfOverhead' + w
    <3>1. etfCash \in Int /\ etfRealized \in Int /\ etfOverhead \in Int /\ EtfCapital \in Int /\ paid \in Int
      BY <1>3, <1>13, <2>2
    <3>2. QED BY <2>3, <2>4, <3>1
  <2>7. QED BY <2>5, <2>6 DEF MinuteBooks, Owing, EtfCarry
<1>16. MinuteShape'
  BY <1>1, <1>2, <1>3, <1>11, <1>13, <1>14, <1>6 DEF MinuteShape
<1>17. MinuteClaims'
  BY <1>1, <1>2, <1>13, <1>4 DEF Now, owed, MinuteClaims, Payouts
<1>18. MinuteRows'
  BY <1>1, <1>2 DEF MinuteRows
<1>19. MinuteHalts'
  <2>1. haltSince' # 0 => dailyHalt' \/ drawdownHalt'
    BY <1>2, <1>3 DEF drawdown, daily
  <2>2. HaltsFlatten'
    <3> SUFFICES ASSUME haltSince' # 0, haltSince' # Now' PROVE DOMAIN holdings' \cap DOMAIN rows' = {}
      BY DEF HaltsFlatten
    <3>1. Now' = Now
      BY <1>1 DEF Now
    <3>2. haltSince # 0
      BY <1>2, <3>1
    <3>3. drawdown \/ daily
      BY <1>3, <3>2 DEF drawdown, daily
    <3>4. leaving = D \cap present
      BY <1>8, <3>3
    <3>5. DOMAIN holdings' = D \ leaving
      BY <1>2, <1>11
    <3>6. QED BY <1>1, <3>4, <3>5
  <2>3. ASSUME family' = "MR", valuationValid', minute' >= Cutoff PROVE holdings' = <<>>
    <3>1. family = "MR" /\ minute >= Cutoff /\ D \subseteq present
      BY <1>1, <2>3 DEF D
    <3>2. D \ leaving = {}
      BY <1>9, <3>1
    <3>3. holdings' \in [{} -> EtfHolding]
      BY <1>2, <1>11, <3>2
    <3>4. QED BY <3>3
  <2>4. QED BY <1>1, <2>1, <2>2, <2>3 DEF MinuteHalts
<1>20. QED BY <1>15, <1>16, <1>17, <1>18, <1>19 DEF MinuteInv

LEMMA MinuteClosesHolds ==
  ASSUME MinuteInv, NEW eligible \in SUBSET Etfs, CloseMinute(eligible)
  PROVE  MinuteInv'
<1> DEFINE D == DOMAIN holdings
           leaving == {s \in DOMAIN holdings \cap DOMAIN rows : StopHit(s) \/ TargetHit(s)}
           raw == [s \in leaving |-> BarrierPrice(s)]
           left == Without(holdings, leaving)
           got == Proceeds(holdings, leaving, raw)
           made == Gains(holdings, leaving, raw)
           prices == [s \in Etfs |-> IF s \in DOMAIN rows THEN rows[s].close ELSE etfMarks[s]]
           worth == EtfEquity(etfCash + got, left, prices, claims)
<1>1. /\ stage = "entries" /\ holdings' = left /\ etfCash' = etfCash + got
      /\ etfMarks' = prices /\ etfRealized' = etfRealized + made
      /\ UNCHANGED <<family, session, candidates, signals, claims, etfOverhead, valuationValid>>
  BY DEF CloseMinute
<1>2. /\ drawdownHalt' = (drawdownHalt \/ DrawdownReached(peak, worth))
      /\ dailyHalt' = (dailyHalt \/ DailyReached(worth))
      /\ haltSince' = IF haltSince = 0 /\ (drawdownHalt' \/ dailyHalt') THEN Now ELSE haltSince
  BY DEF CloseMinute
<1>3. IF minute < MinutesPerSession THEN minute' = minute + 1 /\ stage' = "open" ELSE stage' = "session" /\ minute' = minute
  BY DEF CloseMinute
<1>4. /\ MinuteShape /\ MinuteClaims /\ MinuteHalts /\ MinuteBooks /\ D \in SUBSET Etfs /\ holdings \in [D -> EtfHolding]
      /\ etfCash \in Int /\ etfRealized \in Int /\ etfOverhead \in Int /\ etfMarks \in [Etfs -> Int]
      /\ haltSince # 0 => dailyHalt \/ drawdownHalt
      /\ DOMAIN rows \subseteq Etfs /\ \A s \in DOMAIN rows : rows[s] \in EtfShapes[s]
  BY <1>1 DEF MinuteInv, MinuteShape, MinuteHalts, MinuteRows
<1>5. \A s \in DOMAIN rows : rows[s].open \in Int /\ rows[s].close \in Int
  BY <1>4, EtfBars
<1>6. \A s \in D : holdings[s].stop \in Int /\ holdings[s].target \in Int
  BY <1>4, EtfBook
<1>7. ASSUME NEW s \in leaving PROVE BarrierPrice(s) \in Int
  BY <1>5, <1>6, MinOfTwo DEF BarrierPrice
<1>8. leaving \in SUBSET D /\ \A s \in leaving : raw[s] \in Int
  BY <1>7
<1>9. prices \in [Etfs -> Int]
  BY <1>4, <1>5
<1> HIDE DEF D, leaving, raw, left, got, made, prices, worth
<1>10. /\ left \in [D \ leaving -> EtfHolding] /\ DOMAIN left = D \ leaving
       /\ got \in Int /\ made \in Int /\ EtfCarry(holdings) \in Int /\ EtfCarry(left) \in Int
       /\ made = got + EtfCarry(holdings) - EtfCarry(left)
  <2>1. CanBeSold(holdings, D, leaving, raw)
    BY <1>4, <1>8 DEF CanBeSold
  <2>2. SaleBooked(holdings, D, leaving, raw)
    BY <2>1, EtfSells
  <2>3. QED BY <2>2 DEF SaleBooked, left, got, made
<1>11. MinuteBooks'
  <2>1. etfCash + Owing(claims) = EtfCapital + etfRealized - etfOverhead + EtfCarry(holdings) /\ EtfCapital \in Int
    BY <1>4, EtfAmounts DEF MinuteBooks
  <2>2. Owing(claims) \in Int
    BY <1>4, OwingSplits DEF MinuteClaims
  <2>3. etfCash' + Owing(claims) = EtfCapital + etfRealized' - etfOverhead + EtfCarry(left)
    BY <1>1, <1>4, <1>10, <2>1, <2>2
  <2>4. QED BY <1>1, <2>3 DEF MinuteBooks, Owing, EtfCarry
<1>12. MinuteShape'
  BY <1>1, <1>4, <1>9, <1>10, <1>2, <1>3, EtfAmounts DEF MinuteShape
<1>13. MinuteClaims'
  <2>1. Now \in Int /\ (minute' = minute + 1 => Now' = Now + 1) /\ (minute' = minute => Now' = Now)
    <3> DEFINE x == (session - 1) * MinutesPerSession
    <3>1. x \in Int /\ minute \in Int /\ session' = session
      BY <1>4, EtfAmounts, <1>1 DEF MinuteShape
    <3>2. Now = x + minute /\ Now' = x + minute'
      BY <3>1 DEF Now
    <3> HIDE DEF x
    <3>3. QED BY <3>1, <3>2
  <2>2. \A k \in claims : k.event.at \in Nat /\ k.event.at <= Now
    BY <1>4, EtfAmounts DEF MinuteClaims
  <2>3. \A k \in claims : k.event.at <= Now' /\ (stage' = "open" => k.event.at < Now')
    BY <1>3, <2>1, <2>2
  <2>4. QED BY <1>1, <1>4, <2>3 DEF MinuteClaims, Payouts
<1>14. MinuteRows'
  BY <1>3 DEF MinuteRows
<1>15. MinuteHalts'
  <2>1. haltSince' # 0 => dailyHalt' \/ drawdownHalt'
    BY <1>2, <1>4
  <2>2. ASSUME family' = "MR", valuationValid', stage' = "session" PROVE holdings' = <<>>
    <3>1. minute >= Cutoff
      BY <1>3, <1>4, <2>2, EtfAmounts DEF MinuteShape
    <3>2. holdings = <<>>
      BY <1>1, <1>4, <2>2, <3>1 DEF MinuteHalts
    <3>3. D = {}
      BY <3>2 DEF D
    <3>4. holdings' \in [{} -> EtfHolding]
      BY <1>1, <1>10, <3>3
    <3>5. QED BY <3>4
  <2>3. QED BY <1>3, <2>1, <2>2 DEF MinuteHalts, HaltsFlatten
<1>16. QED BY <1>11, <1>12, <1>13, <1>14, <1>15 DEF MinuteInv

\* An entry is carried at what it cost.
LEMMA EtfBuys ==
  ASSUME NEW D \in SUBSET Etfs, NEW bk \in [D -> EtfHolding], NEW s \in Etfs, s \notin D,
         NEW x \in EtfHolding, x.dividends = 0
  PROVE  /\ With(bk, s, x) \in [D \cup {s} -> EtfHolding] /\ DOMAIN With(bk, s, x) = D \cup {s}
         /\ EtfCarry(With(bk, s, x)) = EtfCarry(bk) - x.basis /\ EtfCarry(bk) \in Int
<1> DEFINE w == With(bk, s, x)
           f == [y \in D |-> bk[y].dividends - bk[y].basis]
           g == [y \in D \cup {s} |-> w[y].dividends - w[y].basis]
<1>1. Summable(f, D) /\ DOMAIN bk = D
  BY EtfBook
<1>2. DOMAIN w = D \cup {s} /\ w[s] = x /\ \A y \in D : w[y] = bk[y]
  BY <1>1 DEF With
<1>3. w \in [D \cup {s} -> EtfHolding]
  BY <1>1, <1>2 DEF With
<1>4. x.basis \in Int
  BY DEF EtfHolding
<1>5. Grown(g, f, D, s) /\ g[s] = 0 - x.basis
  BY <1>2, <1>4 DEF Grown
<1>6. EtfCarry(w) = SumFunction(g) /\ EtfCarry(bk) = SumFunction(f)
  BY <1>1, <1>2 DEF EtfCarry
<1> HIDE DEF f, g, w
<1>7. SumFunction(g) = SumFunction(f) + g[s] /\ SumFunction(f) \in Int
  BY <1>1, <1>5, SumOfOneMore
<1>8. QED BY <1>2, <1>3, <1>4, <1>5, <1>6, <1>7 DEF w

LEMMA MinuteEnters ==
  ASSUME MinuteInv, NEW s \in Etfs, Enter(s)
  PROVE  MinuteInv'
<1> DEFINE raw == rows[s].open
           price == raw + Impact
           sizes == {q \in 1..(etfCash \div raw) : Affordable(s, q)}
           idle == UNCHANGED <<entered, holdings, etfCash>>
           n == Max(sizes)
           paid == n * (price + Fee)
           x == [qty |-> n, basis |-> paid, dividends |-> 0, stop |-> price - StopGap,
                 target |-> IF family = "MR" THEN raw + TargetGap ELSE 0, since |-> Now, session |-> session]
           D == DOMAIN holdings
<1>1. /\ stage = "entries" /\ s \in candidates /\ candidates' = candidates \ {s}
      /\ UNCHANGED <<family, session, minute, stage, rows, etfMarks, claims, etfRealized, etfOverhead,
                     dailyHalt, drawdownHalt, valuationValid, haltSince>>
      /\ \/ UNCHANGED <<holdings, etfCash>>
         \/ /\ ~drawdownHalt /\ ~dailyHalt /\ ~(minute >= Cutoff) /\ sizes # {}
            /\ etfCash' = etfCash - paid /\ holdings' = With(holdings, s, x)
  BY DEF Enter
<1>2. /\ MinuteShape /\ MinuteClaims /\ MinuteHalts /\ MinuteBooks /\ D \in SUBSET Etfs /\ holdings \in [D -> EtfHolding]
      /\ DOMAIN rows \subseteq Etfs /\ (\A y \in DOMAIN rows : rows[y] \in EtfShapes[y])
      /\ candidates \subseteq DOMAIN rows \ D /\ s \notin D /\ s \in DOMAIN rows
      /\ etfCash \in Int /\ etfRealized \in Int /\ etfOverhead \in Int /\ session \in Int
  BY <1>1 DEF MinuteInv, MinuteShape, MinuteRows
<1>3. MinuteClaims'
  BY <1>1, <1>2 DEF Now, MinuteClaims, Payouts
<1>4. CASE UNCHANGED <<holdings, etfCash>>
  BY <1>1, <1>2, <1>4, <1>3 DEF MinuteShape, MinuteHalts, HaltsFlatten, Now, MinuteBooks, Owing, EtfCarry, MinuteRows,
    MinuteInv
<1>5. CASE /\ ~drawdownHalt /\ ~dailyHalt /\ ~(minute >= Cutoff) /\ sizes # {}
           /\ etfCash' = etfCash - paid /\ holdings' = With(holdings, s, x)
  <2>1. raw \in Nat \ {0}
    BY <1>2, EtfBars
  <2>2. n \in Nat \ {0}
    <3> DEFINE N == etfCash \div raw
    <3>1. N \in Int
      BY <1>2, <2>1
    <3>2. sizes # {} /\ \A q \in sizes : q \in Int /\ 1 <= q /\ q <= N
      BY <1>5, <3>1
    <3> HIDE DEF N, sizes
    <3>3. N \in Nat /\ sizes \subseteq 0..N
      <4>1. PICK q \in sizes : TRUE
        BY <3>2
      <4>2. N \in Nat
        BY <3>1, <3>2, <4>1
      <4>3. \A y \in sizes : y \in 0..N
        BY <3>2, <4>2
      <4>4. QED BY <4>2, <4>3
    <3>4. n \in sizes
      BY <3>2, <3>3, LargestNat
    <3> HIDE DEF n
    <3>5. QED BY <3>2, <3>4
  <2>3. /\ price - StopGap \in Int /\ raw + TargetGap \in Int /\ price + Fee \in Int /\ Now \in Int
    BY <1>2, NowIs, <2>1, EtfAmounts DEF MinuteShape, Now
  <2> DEFINE per == price + Fee
             st == price - StopGap
             ta == IF family = "MR" THEN raw + TargetGap ELSE 0
  <2>4. per \in Int /\ st \in Int /\ ta \in Int /\ paid = n * per
    BY <2>3
  <2>5. x = [qty |-> n, basis |-> paid, dividends |-> 0, stop |-> st, target |-> ta, since |-> Now, session |-> session]
    OBVIOUS
  <2> HIDE DEF sizes, n, price, raw, per, st, ta, paid
  <2>6. paid \in Int
    BY <2>2, <2>4
  <2>7. x \in EtfHolding /\ x.dividends = 0 /\ x.basis = paid
    BY <1>2, <2>2, <2>3, <2>4, <2>5, <2>6 DEF EtfHolding
  <2> HIDE DEF x
  <2>8. /\ holdings' \in [D \cup {s} -> EtfHolding] /\ DOMAIN holdings' = D \cup {s}
        /\ EtfCarry(holdings)' = EtfCarry(holdings) - paid /\ EtfCarry(holdings) \in Int
    <3>1. /\ With(holdings, s, x) \in [D \cup {s} -> EtfHolding] /\ DOMAIN With(holdings, s, x) = D \cup {s}
          /\ EtfCarry(With(holdings, s, x)) = EtfCarry(holdings) - x.basis /\ EtfCarry(holdings) \in Int
      BY <1>2, <2>7, EtfBuys
    <3>2. EtfCarry(holdings)' = EtfCarry(With(holdings, s, x))
      BY <1>5 DEF EtfCarry
    <3>3. QED BY <1>5, <2>7, <3>1, <3>2
  <2>9. MinuteBooks'
    <3>1. etfCash + Owing(claims) = EtfCapital + etfRealized - etfOverhead + EtfCarry(holdings) /\ EtfCapital \in Int
      BY <1>2, EtfAmounts DEF MinuteBooks
    <3>2. Owing(claims) \in Int
      BY <1>2, OwingSplits DEF MinuteClaims
    <3>3. Owing(claims)' = Owing(claims)
      BY <1>1 DEF Owing
    <3>4. (etfCash - paid) + Owing(claims) = EtfCapital + etfRealized - etfOverhead + (EtfCarry(holdings) - paid)
      BY <1>2, <2>6, <2>8, <3>1, <3>2
    <3>5. QED BY <1>1, <1>5, <2>8, <3>3, <3>4 DEF MinuteBooks
  <2>10. MinuteShape'
    BY <1>2, <1>5, <2>6, <1>1, <2>8 DEF MinuteShape
  <2>11. MinuteRows'
    BY <1>1, <1>2, <2>8 DEF MinuteRows
  <2>12. MinuteHalts'
    BY <1>2, <1>5, <1>1 DEF MinuteHalts, HaltsFlatten
  <2>13. QED BY <1>3, <2>9, <2>10, <2>11, <2>12 DEF MinuteInv
<1>6. QED BY <1>1, <1>4, <1>5

LEMMA MinuteSessions ==
  ASSUME MinuteInv, StartSession \/ \E f \in {"MR", "MOM"} : Configure(f)
  PROVE  MinuteInv'
<1>1. /\ MinuteShape /\ MinuteClaims /\ MinuteHalts /\ MinuteBooks /\ etfCash \in Int /\ etfRealized \in Int /\ etfOverhead \in Int
      /\ session \in 0..Sessions /\ minute \in 0..MinutesPerSession /\ Sessions \in Nat /\ MinutesPerSession \in Nat \ {0}
      /\ Overhead \in Int /\ EtfCapital \in Int
  BY EtfAmounts DEF MinuteInv, MinuteShape
<1>2. CASE \E f \in {"MR", "MOM"} : Configure(f)
  <2>1. /\ stage = "configure" /\ stage' = "session"
        /\ UNCHANGED <<session, minute, rows, candidates, holdings, etfMarks, etfCash, claims,
                       etfRealized, etfOverhead, dailyHalt, drawdownHalt, valuationValid, haltSince>>
    BY <1>2 DEF Configure
  <2>2. MinuteShape' /\ MinuteRows'
    BY <1>1, <2>1 DEF MinuteShape, MinuteRows
  <2>3. MinuteHalts'
    BY <1>1, <2>1 DEF MinuteHalts, HaltsFlatten
  <2>4. MinuteClaims'
    BY <2>1, <1>1 DEF Now, MinuteClaims, Payouts
  <2>5. MinuteBooks'
    BY <1>1, <2>1 DEF MinuteBooks, Owing, EtfCarry
  <2>6. QED BY <2>2, <2>3, <2>4, <2>5 DEF MinuteInv
<1>3. CASE StartSession
  <2>1. /\ stage = "session" /\ session < Sessions /\ session' = session + 1 /\ minute' = 1 /\ stage' = "open"
        /\ dailyHalt' = FALSE /\ haltSince' = (IF drawdownHalt THEN haltSince ELSE 0)
        /\ etfCash' = etfCash - Overhead /\ etfOverhead' = etfOverhead + Overhead
        /\ UNCHANGED <<family, rows, candidates, holdings, etfMarks, claims, etfRealized, drawdownHalt, valuationValid>>
    BY <1>3 DEF StartSession
  <2>2. MinuteShape'
    <3>1. etfCash' \in Int /\ etfOverhead' \in Int /\ session' \in 0..Sessions /\ minute' \in 0..MinutesPerSession
      BY <1>1, <2>1
    <3>2. QED BY <1>1, <2>1, <3>1 DEF MinuteShape
  <2>3. MinuteRows' /\ MinuteHalts'
    BY <1>1, <2>1 DEF MinuteRows, MinuteHalts, HaltsFlatten
  <2>4. Now \in Int /\ Now' = Now + (MinutesPerSession - minute) + 1
    BY <1>1, <2>1, NextNowIs, NowIs DEF Now
  <2>5. MinuteClaims'
    BY <1>1, <2>4, EtfAmounts, <2>1 DEF MinuteClaims, Payouts
  <2>6. MinuteBooks'
    <3>1. etfCash + Owing(claims) = EtfCapital + etfRealized - etfOverhead + EtfCarry(holdings)
      BY <1>1 DEF MinuteBooks
    <3>2. Owing(claims) \in Int /\ EtfCarry(holdings) \in Int
      BY <1>1, OwingSplits, EtfBook DEF MinuteClaims, MinuteShape
    <3>3. Owing(claims)' = Owing(claims) /\ EtfCarry(holdings)' = EtfCarry(holdings)
      BY <2>1 DEF Owing, EtfCarry
    <3>4. (etfCash - Overhead) + Owing(claims) = EtfCapital + etfRealized - (etfOverhead + Overhead) + EtfCarry(holdings)
      BY <1>1, <3>1, <3>2
    <3>5. QED BY <2>1, <3>3, <3>4 DEF MinuteBooks
  <2>7. QED BY <2>2, <2>3, <2>5, <2>6 DEF MinuteInv
<1>4. QED BY <1>2, <1>3

LEMMA MinuteBegins == EtfInit => MinuteInv
<1> SUFFICES ASSUME EtfInit PROVE MinuteInv
  OBVIOUS
<1>1. /\ session = 0 /\ minute = 0 /\ stage = "configure" /\ holdings = <<>> /\ etfMarks = [s \in Etfs |-> 0]
      /\ etfCash = EtfCapital /\ claims = {} /\ etfRealized = 0 /\ etfOverhead = 0
      /\ dailyHalt = FALSE /\ drawdownHalt = FALSE /\ valuationValid = TRUE /\ haltSince = 0
      /\ EtfCapital \in Int /\ Sessions \in Nat /\ MinutesPerSession \in Nat
  BY EtfAmounts DEF EtfInit
<1>2. holdings \in [{} -> EtfHolding] /\ DOMAIN holdings = {}
  BY <1>1
<1>3. MinuteShape
  <2>1. session \in 0..Sessions /\ minute \in 0..MinutesPerSession /\ etfMarks \in [Etfs -> Int]
    BY <1>1
  <2>2. holdings \in [DOMAIN holdings -> EtfHolding] /\ DOMAIN holdings \subseteq Etfs
    BY <1>2
  <2>3. dailyHalt \in BOOLEAN /\ drawdownHalt \in BOOLEAN /\ valuationValid \in BOOLEAN
    BY <1>1
  <2>4. etfCash \in Int /\ etfRealized \in Int /\ etfOverhead \in Int
    BY <1>1
  <2>5. QED BY <1>1, <2>1, <2>2, <2>3, <2>4 DEF MinuteShape
<1>4. IsFiniteSet({})
  BY FS_EmptySet
<1>5. MinuteClaims
  BY <1>1, <1>4 DEF MinuteClaims, Payouts
<1>6. MinuteRows /\ MinuteHalts
  BY <1>1 DEF MinuteRows, MinuteHalts, HaltsFlatten
<1>7. Owing(claims) = 0 /\ EtfCarry(holdings) = 0
  <2> DEFINE f == [k \in claims |-> k.amount]
             g == [s \in DOMAIN holdings |-> holdings[s].dividends - holdings[s].basis]
  <2>1. Summable(f, {}) /\ Summable(g, {})
    BY <1>1, <1>2, <1>4 DEF Summable
  <2> HIDE DEF f, g
  <2>2. SumFunction(f) = 0 /\ SumFunction(g) = 0
    BY <2>1, SumsAreInt
  <2>3. QED BY <2>2 DEF Owing, EtfCarry, f, g
<1>8. QED BY <1>1, <1>3, <1>5, <1>6, <1>7 DEF MinuteInv, MinuteBooks

LEMMA MinuteKeeps == MinuteInv /\ [EtfNext]_etfVars => MinuteInv'
<1> SUFFICES ASSUME MinuteInv, [EtfNext]_etfVars PROVE MinuteInv'
  OBVIOUS
<1>1. CASE UNCHANGED etfVars
  BY <1>1 DEF etfVars, MinuteInv, MinuteShape, MinuteClaims, MinuteRows, MinuteHalts, HaltsFlatten, MinuteBooks,
              Now, Payouts, Owing, EtfCarry
<1>2. CASE (\E f \in {"MR", "MOM"} : Configure(f)) \/ StartSession
  BY <1>2, MinuteSessions
<1>3. CASE \E present, revalidated \in SUBSET Etfs : OpenMinute(present, revalidated)
  BY <1>3, MinuteOpensHolds
<1>4. CASE \E s \in Etfs : Enter(s)
  BY <1>4, MinuteEnters
<1>5. CASE \E eligible \in SUBSET Etfs : CloseMinute(eligible)
  BY <1>5, MinuteClosesHolds
<1>6. QED BY <1>1, <1>2, <1>3, <1>4, <1>5 DEF EtfNext

LEMMA MinuteFollows == MinuteInv => EtfTypeOK /\ MinuteReplayIsSound
<1> SUFFICES ASSUME MinuteInv PROVE EtfTypeOK /\ MinuteReplayIsSound
  OBVIOUS
<1> DEFINE D == DOMAIN holdings
           value == [s \in D |-> holdings[s].qty * etfMarks[s]]
           carried == [s \in D |-> holdings[s].dividends - holdings[s].basis]
           both == [s \in D |-> holdings[s].qty * etfMarks[s] - holdings[s].basis + holdings[s].dividends]
<1>1. /\ MinuteShape /\ MinuteClaims /\ MinuteHalts /\ MinuteBooks /\ D \in SUBSET Etfs /\ holdings \in [D -> EtfHolding]
      /\ etfCash \in Int /\ etfRealized \in Int /\ etfOverhead \in Int /\ etfMarks \in [Etfs -> Int] /\ EtfCapital \in Int
  BY EtfAmounts DEF MinuteInv, MinuteShape
<1>2. /\ IsFiniteSet(D) /\ Summable(carried, D) /\ EtfCarry(holdings) \in Int
      /\ \A s \in D : holdings[s].qty \in Nat \ {0} /\ holdings[s].basis \in Int /\ holdings[s].dividends \in Int
  BY <1>1, EtfBook
<1>3. EtfTypeOK
  BY <1>1, <1>2 DEF EtfTypeOK, MinuteShape, MinuteClaims
<1>4. \A s \in D : value[s] \in Int /\ carried[s] \in Int /\ both[s] = value[s] + carried[s]
  <2> SUFFICES ASSUME NEW s \in D PROVE value[s] \in Int /\ carried[s] \in Int /\ both[s] = value[s] + carried[s]
    OBVIOUS
  <2> DEFINE v == holdings[s].qty * etfMarks[s]
  <2>1. v \in Int
    BY <1>1, <1>2
  <2>2. value[s] = v /\ carried[s] = holdings[s].dividends - holdings[s].basis /\ both[s] = v - holdings[s].basis + holdings[s].dividends
    OBVIOUS
  <2> HIDE DEF v, value, carried, both
  <2>3. QED BY <1>2, <2>1, <2>2
<1>5. Summable(value, D) /\ DOMAIN both = D
  BY <1>2, <1>4 DEF Summable
<1>6. EtfCarry(holdings) = SumFunction(carried)
  BY DEF EtfCarry
<1> DEFINE now == EtfEquity(etfCash, holdings, etfMarks, claims)
<1>7. now = etfCash + SumFunction(value) + Owing(claims)
  BY DEF EtfEquity, Owing
<1>7a. EquityIsContributions <=> (now - EtfCapital = etfRealized - etfOverhead + SumFunction(both))
  BY Zenon DEF EquityIsContributions
<1> HIDE DEF value, carried, both, now
<1>8. SumFunction(both) = SumFunction(value) + SumFunction(carried) /\ SumFunction(value) \in Int /\ SumFunction(carried) \in Int
  BY <1>2, <1>4, <1>5, SumOfSums
<1>9. Owing(claims) \in Int
  BY <1>1, OwingSplits DEF MinuteClaims
<1>10. etfCash + Owing(claims) = EtfCapital + etfRealized - etfOverhead + SumFunction(carried)
  BY <1>1, <1>6 DEF MinuteBooks
<1>11. now - EtfCapital = etfRealized - etfOverhead + SumFunction(both)
  BY <1>1, <1>7, <1>8, <1>9, <1>10
<1>12. HaltsFlatten /\ OvernightIsFlagged
  BY <1>1 DEF MinuteHalts, OvernightIsFlagged
<1>13. QED BY <1>3, <1>7a, <1>11, <1>12 DEF MinuteReplayIsSound

LEMMA MinutesHold == ResearchSuiteSpec => [](Examined("minutes") => MinuteInv)
<1>1. ResearchSuiteInit => (Examined("minutes") => MinuteInv)
  BY MinuteBegins DEF ResearchSuiteInit
<1>2. (Examined("minutes") => MinuteInv) /\ [ResearchSuiteNext]_suiteVars => (Examined("minutes") => MinuteInv)'
  BY MinuteSteps, MinuteKeeps
<1>3. QED BY <1>1, <1>2, PTL DEF ResearchSuiteSpec

-----------------------------------------------------------------------------
(* The daily replay of the funds.  Net and gross, marks cancel out of the  *)
(* identities as above; a partial sale takes its share of the basis along. *)

LEMMA DailySteps ==
  ASSUME [ResearchSuiteNext]_suiteVars, Examined("daily")'
  PROVE  Examined("daily") /\ [DailyNext]_dailyVars
BY DEF ResearchSuiteNext, suiteVars, Steps, Examined, Studies, dailyVars

DailyShare == [qty : Nat \ {0}, basis : Int, rawBasis : Int, stop : Int]
DailyPlan ==
  [qty : Nat, stop : Int, due : Int,
   reason : {"intent", "drawdown_halt", "daily_loss_halt", "protective_exit", "exposure_cap_reduction"}]

DailyShape ==
  /\ day \in 1..Days /\ part \in {"open", "adds", "close"} /\ halt \in BOOLEAN /\ staleDay \in BOOLEAN
  /\ shares \in [DOMAIN shares -> DailyShare] /\ DOMAIN shares \subseteq Funds
  /\ plans \in [DOMAIN plans -> DailyPlan] /\ DOMAIN plans \subseteq Funds
  /\ dayMarks \in [Funds -> Nat] /\ dayCash \in Nat
  /\ dayRealized \in Int /\ grossRealized \in Int /\ drag \in Int

\* What is owed is of the actions that have been effective.
DailyClaims ==
  /\ Payouts(owing)
  /\ \A k \in owing : k.amount \in Nat /\ k.event \in Actions /\ k.event.day <= day /\ (part = "open" => k.event.day < day)

\* An addition is due for a fund with a bar, and only before the close.
DailyRows ==
  /\ toAdd \subseteq DOMAIN plans /\ (part # "adds" => toAdd = {})
  /\ part # "open" => DOMAIN quotes \subseteq Funds /\ \A s \in DOMAIN quotes : quotes[s] \in DayShapes[s]
  /\ part = "adds" => toAdd \subseteq DOMAIN quotes

\* Who is forced out is held, and an order to sell all of it is pending that
\* is due no later; an open that could execute it has done so.
DailyForced ==
  /\ DOMAIN forcedDue \subseteq DOMAIN shares \cap DOMAIN plans /\ DOMAIN forcedDue \cap toAdd = {}
  /\ \A s \in DOMAIN forcedDue : forcedDue[s] \in Int /\ plans[s].qty = 0 /\ plans[s].due <= forcedDue[s]
  /\ part # "open" => \A s \in DOMAIN forcedDue \cap DOMAIN quotes : ~(forcedDue[s] <= day)

Bases(held) == SumFunction([s \in DOMAIN held |-> held[s].basis])
RawBases(held) == SumFunction([s \in DOMAIN held |-> held[s].rawBasis])

DailyBooks ==
  /\ dayCash + Owing(owing) = DailyCapital + dayRealized - Bases(shares)
  /\ dayCash + Owing(owing) + drag = DailyCapital + grossRealized - RawBases(shares)

DailyInv == DailyShape /\ DailyClaims /\ DailyRows /\ DailyForced /\ DailyBooks

LEMMA DailyAmounts ==
  /\ Days \in Nat \ {0} /\ DailyCapital \in Nat /\ DelaySessions \in Nat /\ Drag \in Nat /\ StopAtr \in Nat /\ Cooldown \in Nat
  /\ NameLimit \in Nat /\ BookLimit \in Nat /\ ClusterLimit \in Nat /\ Weights \subseteq 0..1000
  /\ IsFiniteSet(Funds) /\ IsFiniteSet(Actions) /\ Funds \subseteq DOMAIN DayShapes /\ FundOrder \in Seq(Funds)
  /\ \A a \in Actions : a.day \in Nat /\ a.ratio \in Nat \ {0} /\ a.dividend \in Nat
  /\ \A a, b \in Actions : a.symbol = b.symbol /\ a.day = b.day => a = b
<1>1. FundOrder \in Seq(Range(FundOrder)) /\ Range(FundOrder) \subseteq DOMAIN DayShapes
  BY DailyAssumption
<1>2. Funds = Range(FundOrder)
  BY DEF Funds, Range
<1>3. IsFiniteSet(Funds)
  <2>1. Len(FundOrder) \in Nat /\ DOMAIN FundOrder = 1..Len(FundOrder)
    BY <1>1, LenProperties
  <2>2. IsFiniteSet(DOMAIN FundOrder)
    BY <2>1, FS_Interval
  <2>3. QED BY <2>2, FiniteImage DEF Funds
<1>4. \A a \in Actions : a.day \in Nat /\ a.ratio \in Nat \ {0} /\ a.dividend \in Nat
  BY DailyAssumption
<1>5. QED BY <1>1, <1>2, <1>3, <1>4, DailyAssumption

LEMMA DailyBars ==
  ASSUME NEW s \in Funds, NEW b \in DayShapes[s]
  PROVE  b.open \in Nat \ {0} /\ b.close \in Nat \ {0} /\ b.open >= Drag
BY DailyAmounts, DailyAssumption

\* Parts are taken out of some amounts, all of those in gone.
Trims(f, out, g, S, some, gone) ==
  /\ Summable(f, S) /\ some \in SUBSET S /\ gone \in SUBSET some
  /\ DOMAIN out = some /\ (\A y \in some : out[y] \in Int) /\ (\A y \in gone : out[y] = f[y])
  /\ DOMAIN g = S \ gone /\ \A y \in S \ gone : g[y] = IF y \in some THEN f[y] - out[y] ELSE f[y]

LEMMA SumOfTrims ==
  ASSUME NEW S, NEW some, NEW gone, NEW f, NEW out, NEW g, Trims(f, out, g, S, some, gone)
  PROVE  SumFunction(g) = SumFunction(f) - SumFunction(out) /\ SumFunction(f) \in Int /\ SumFunction(out) \in Int
<1> DEFINE taken == [y \in S |-> IF y \in some THEN out[y] ELSE 0]
           kept == [y \in S |-> f[y] - taken[y]]
           none == [y \in S \ some |-> 0]
           zero == [y \in gone |-> 0]
<1>1. /\ IsFiniteSet(S) /\ DOMAIN f = S /\ (\A y \in S : f[y] \in Int) /\ some \in SUBSET S /\ gone \in SUBSET some
      /\ DOMAIN out = some /\ (\A y \in some : out[y] \in Int) /\ (\A y \in gone : out[y] = f[y])
      /\ DOMAIN g = S \ gone /\ \A y \in S \ gone : g[y] = IF y \in some THEN f[y] - out[y] ELSE f[y]
      /\ gone \in SUBSET S /\ Summable(f, S)
  BY DEF Trims, Summable
<1>2. \A y \in S : taken[y] \in Int /\ kept[y] \in Int /\ f[y] = taken[y] + kept[y]
  BY <1>1
<1>3. Summable(taken, S) /\ Summable(kept, S)
  BY <1>1, <1>2 DEF Summable
<1>4. Restricted(out, taken, some) /\ Restricted(none, taken, S \ some)
  BY <1>1 DEF Restricted
<1>5. \A y \in gone : kept[y] = 0
  <2> SUFFICES ASSUME NEW y \in gone PROVE kept[y] = 0
    OBVIOUS
  <2>1. kept[y] = f[y] - out[y] /\ out[y] = f[y] /\ f[y] \in Int
    BY <1>1
  <2>2. QED BY <2>1
<1>6. \A y \in S \ gone : g[y] = kept[y]
  <2> SUFFICES ASSUME NEW y \in S \ gone PROVE g[y] = kept[y]
    OBVIOUS
  <2>1. f[y] \in Int /\ kept[y] = f[y] - (IF y \in some THEN out[y] ELSE 0)
    BY <1>1
  <2>2. g[y] = IF y \in some THEN f[y] - out[y] ELSE f[y]
    BY <1>1
  <2> HIDE DEF kept, taken
  <2>3. QED BY <2>1, <2>2
<1>7. Restricted(zero, kept, gone) /\ Restricted(g, kept, S \ gone)
  BY <1>1, <1>5, <1>6 DEF Restricted
<1>8. Summable(none, S \ some) /\ Summable(zero, gone)
  BY <1>1, FS_Subset DEF Summable
<1>9. (\A y \in S \ some : none[y] = 0) /\ (\A y \in gone : zero[y] = 0)
  OBVIOUS
<1> HIDE DEF taken, kept, none, zero
<1>10. SumFunction(none) = 0 /\ SumFunction(zero) = 0
  BY <1>8, <1>9, SumsAreInt
<1>11. SumFunction(taken) = SumFunction(out) + SumFunction(none) /\ SumFunction(out) \in Int
  BY <1>1, <1>3, <1>4, SumOfParts
<1>12. SumFunction(kept) = SumFunction(zero) + SumFunction(g) /\ SumFunction(g) \in Int
  BY <1>1, <1>3, <1>7, SumOfParts
<1>13. SumFunction(f) = SumFunction(taken) + SumFunction(kept)
  BY <1>1, <1>2, <1>3, SumOfSums
<1>14. SumFunction(f) \in Int
  BY <1>1, SumsAreInt
<1>15. QED BY <1>10, <1>11, <1>12, <1>13, <1>14

\* One amount grows, or is new.
Raises(f, g, S, x, d) ==
  /\ Summable(f, S) /\ d \in Int /\ DOMAIN g = S \cup {x}
  /\ \A y \in S \ {x} : g[y] = f[y]
  /\ g[x] = (IF x \in S THEN f[x] ELSE 0) + d

LEMMA SumOfRaise ==
  ASSUME NEW S, NEW f, NEW g, NEW x, NEW d, Raises(f, g, S, x, d)
  PROVE  SumFunction(g) = SumFunction(f) + d /\ SumFunction(f) \in Int
<1>1. /\ IsFiniteSet(S) /\ DOMAIN f = S /\ (\A y \in S : f[y] \in Int) /\ d \in Int /\ DOMAIN g = S \cup {x}
      /\ (\A y \in S \ {x} : g[y] = f[y]) /\ g[x] = (IF x \in S THEN f[x] ELSE 0) + d /\ Summable(f, S)
  BY DEF Raises, Summable
<1>2. CASE x \in S
  BY <1>1, <1>2, SumChanges
<1>3. CASE x \notin S
  <2>1. g[x] = d /\ Grown(g, f, S, x)
    BY <1>1, <1>3 DEF Grown
  <2>2. SumFunction(g) = SumFunction(f) + g[x] /\ SumFunction(f) \in Int
    BY <1>1, <2>1, SumOfOneMore
  <2>3. QED BY <2>1, <2>2
<1>4. QED BY <1>2, <1>3

\* The fields of what is held.
LEMMA DailyHeld ==
  ASSUME NEW D \in SUBSET Funds, NEW held \in [D -> DailyShare]
  PROVE  /\ IsFiniteSet(D) /\ DOMAIN held = D
         /\ \A s \in D : /\ held[s].qty \in Nat \ {0} /\ held[s].basis \in Int /\ held[s].rawBasis \in Int
                         /\ held[s].stop \in Int
         /\ Summable([s \in D |-> held[s].basis], D) /\ Summable([s \in D |-> held[s].rawBasis], D)
         /\ Bases(held) \in Int /\ RawBases(held) \in Int
<1>1. IsFiniteSet(D) /\ DOMAIN held = D
  BY DailyAmounts, FS_Subset
<1>2. \A s \in D : held[s] \in DailyShare
  OBVIOUS
<1>3. \A s \in D : held[s].qty \in Nat \ {0} /\ held[s].basis \in Int /\ held[s].rawBasis \in Int /\ held[s].stop \in Int
  BY <1>2 DEF DailyShare
<1> DEFINE f == [s \in D |-> held[s].basis]
           g == [s \in D |-> held[s].rawBasis]
<1>4. Summable(f, D) /\ Summable(g, D)
  BY <1>1, <1>3 DEF Summable
<1>5. Bases(held) = SumFunction(f) /\ RawBases(held) = SumFunction(g)
  BY <1>1 DEF Bases, RawBases
<1> HIDE DEF f, g
<1>6. SumFunction(f) \in Int /\ SumFunction(g) \in Int
  BY <1>4, SumsAreInt
<1>7. QED BY <1>1, <1>3, <1>4, <1>5, <1>6 DEF f, g

LEMMA SplitsArePositive == \A s : SplitOf(s) \in Nat \ {0}
<1> SUFFICES ASSUME NEW s PROVE SplitOf(s) \in Nat \ {0}
  OBVIOUS
<1>1. CASE \E a \in Effective : a.symbol = s
  <2> DEFINE a == CHOOSE x \in Effective : x.symbol = s
  <2>1. a \in Effective
    BY <1>1
  <2>2. SplitOf(s) = a.ratio
    BY <1>1 DEF SplitOf
  <2> HIDE DEF a
  <2>3. QED BY <2>1, <2>2, DailyAmounts DEF Effective
<1>2. CASE ~\E a \in Effective : a.symbol = s
  BY <1>2 DEF SplitOf
<1>3. QED BY <1>1, <1>2

\* A split scales what is held and what is planned, and changes no cost.
LEMMA SplitScales ==
  ASSUME DailyShape
  PROVE  /\ Split(shares) \in [DOMAIN shares -> DailyShare]
         /\ \A s \in DOMAIN shares : /\ Split(shares)[s].basis = shares[s].basis
                                     /\ Split(shares)[s].rawBasis = shares[s].rawBasis
         /\ Split(plans) \in [DOMAIN plans -> DailyPlan]
         /\ \A s \in DOMAIN plans : /\ Split(plans)[s].due = plans[s].due
                                    /\ plans[s].qty = 0 => Split(plans)[s].qty = 0
<1>1. \A s : SplitOf(s) \in Nat \ {0}
  BY SplitsArePositive
<1>2. ASSUME NEW s \in DOMAIN shares
      PROVE  /\ Split(shares)[s] \in DailyShare /\ Split(shares)[s].basis = shares[s].basis
             /\ Split(shares)[s].rawBasis = shares[s].rawBasis
  <2> DEFINE p == shares[s]
             r == SplitOf(s)
             q == p.qty * r
             st == p.stop \div r
  <2>1. p \in DailyShare /\ r \in Nat \ {0}
    BY <1>1 DEF DailyShape
  <2>2. Split(shares)[s] = [p EXCEPT !.qty = q, !.stop = st]
    BY DEF Split
  <2>3. q \in Nat \ {0} /\ st \in Int
    <3>1. p.qty \in Nat \ {0} /\ p.stop \in Int
      BY <2>1 DEF DailyShare
    <3> HIDE DEF p, r
    <3>2. p.qty * r \in Nat \ {0}
      BY <2>1, <3>1
    <3>3. p.stop \div r \in Int
      BY <2>1, <3>1
    <3>4. QED BY <3>2, <3>3
  <2> HIDE DEF p, r, q, st
  <2> DEFINE n == [p EXCEPT !.qty = q, !.stop = st]
  <2>4. n \in DailyShare /\ n.basis = p.basis /\ n.rawBasis = p.rawBasis
    BY <2>1, <2>3 DEF DailyShare
  <2>5. QED BY <2>2, <2>4 DEF p
<1>3. ASSUME NEW s \in DOMAIN plans
      PROVE  /\ Split(plans)[s] \in DailyPlan /\ Split(plans)[s].due = plans[s].due
             /\ plans[s].qty = 0 => Split(plans)[s].qty = 0
  <2> DEFINE p == plans[s]
             r == SplitOf(s)
             q == p.qty * r
             st == p.stop \div r
  <2>1. p \in DailyPlan /\ r \in Nat \ {0}
    BY <1>1 DEF DailyShape
  <2>2. Split(plans)[s] = [p EXCEPT !.qty = q, !.stop = st]
    BY DEF Split
  <2>3. q \in Nat /\ st \in Int /\ (p.qty = 0 => q = 0)
    <3>1. p.qty \in Nat /\ p.stop \in Int
      BY <2>1 DEF DailyPlan
    <3> HIDE DEF p, r
    <3>2. p.qty * r \in Nat
      BY <2>1, <3>1
    <3>3. p.stop \div r \in Int
      BY <2>1, <3>1
    <3>4. p.qty = 0 => p.qty * r = 0
      BY <2>1, <3>1
    <3>5. QED BY <3>2, <3>3, <3>4
  <2> HIDE DEF p, r, q, st
  <2> DEFINE n == [p EXCEPT !.qty = q, !.stop = st]
  <2>4. n \in DailyPlan /\ n.due = p.due /\ n.qty = q
    BY <2>1, <2>3 DEF DailyPlan
  <2>5. QED BY <2>2, <2>3, <2>4 DEF p
<1>4. Split(shares) \in [DOMAIN shares -> DailyShare]
  BY <1>2 DEF Split
<1>5. Split(plans) \in [DOMAIN plans -> DailyPlan]
  BY <1>3 DEF Split
<1>6. QED BY <1>2, <1>3, <1>4, <1>5

\* A distribution is owed once per action.
LEMMA DailyOwes ==
  ASSUME DailyInv, part = "open"
  PROVE  LET credit == SumFunction([s \in DOMAIN shares |-> Dividend(s)])
         IN  /\ Owing(Owed) = Owing(owing) + credit /\ credit \in Int /\ Payouts(Owed)
             /\ \A k \in Owed : k.amount \in Nat /\ k.event \in Actions /\ k.event.day <= day
<1> DEFINE D == DOMAIN shares
           credit == [s \in D |-> Dividend(s)]
           new == {[event |-> a, amount |-> Dividend(a.symbol)] : a \in {x \in Effective : Dividend(x.symbol) > 0}}
<1>1. DailyShape /\ DailyClaims /\ shares \in [D -> DailyShare] /\ D \in SUBSET Funds /\ day \in Int
  BY DEF DailyInv, DailyShape
<1>2. IsFiniteSet(D) /\ \A s \in D : shares[s].qty \in Nat
  BY <1>1, DailyHeld
<1>3. \A a \in Effective : a \in Actions /\ a.day = day /\ a.ratio \in Nat \ {0} /\ a.dividend \in Nat
  BY DailyAmounts DEF Effective
<1>4. \A s \in D : Dividend(s) \in Nat
  <2> SUFFICES ASSUME NEW s \in D, \E a \in Effective : a.symbol = s PROVE Dividend(s) \in Nat
    BY DEF Dividend
  <2> DEFINE a == CHOOSE x \in Effective : x.symbol = s
  <2>1. a \in Effective
    OBVIOUS
  <2>2. Dividend(s) = shares[s].qty * a.ratio * a.dividend
    BY DEF Dividend
  <2> HIDE DEF a
  <2>3. shares[s].qty \in Nat /\ a.ratio \in Nat /\ a.dividend \in Nat
    BY <1>2, <1>3, <2>1
  <2>4. shares[s].qty * a.ratio \in Nat
    BY <2>3
  <2> DEFINE x == shares[s].qty * a.ratio
  <2> HIDE DEF x
  <2>5. x * a.dividend \in Nat
    BY <2>3, <2>4 DEF x
  <2>6. QED BY <2>2, <2>5 DEF x
<1>5. \A a \in Effective : Dividend(a.symbol) > 0 => a.symbol \in D
  BY DEF Dividend
<1>6. Credits(new, credit, D)
  <2>1. DOMAIN credit = D /\ \A s \in D : credit[s] \in Nat /\ credit[s] = Dividend(s)
    BY <1>4
  <2>2. ASSUME NEW k \in new
        PROVE  /\ k.event \in Effective /\ k.event.symbol \in D /\ k.amount = Dividend(k.event.symbol) /\ k.amount > 0
               /\ k = [event |-> k.event, amount |-> Dividend(k.event.symbol)]
    BY <1>5
  <2>3. \A a, b \in Effective : a.symbol = b.symbol => a = b
    BY <1>3, DailyAmounts
  <2>4. ASSUME NEW k \in new, NEW l \in new, k.event.symbol = l.event.symbol PROVE k = l
    BY <2>2, <2>3, <2>4
  <2>5. ASSUME NEW s \in D, credit[s] > 0 PROVE \E k \in new : k.event.symbol = s
    <3>1. PICK a \in Effective : a.symbol = s
      BY <2>1, <2>5 DEF Dividend
    <3>2. Dividend(a.symbol) > 0
      BY <2>1, <2>5, <3>1
    <3>3. [event |-> a, amount |-> Dividend(a.symbol)] \in new
      BY <3>2
    <3>4. QED BY <3>1, <3>3
  <2> HIDE DEF new, credit
  <2>6. QED BY <1>2, <2>1, <2>2, <2>4, <2>5 DEF Credits
<1>7. \A k \in new : k.event \in Actions /\ k.event.day = day /\ k.amount \in Nat
  <2> SUFFICES ASSUME NEW a \in Effective, Dividend(a.symbol) > 0
               PROVE  a \in Actions /\ a.day = day /\ Dividend(a.symbol) \in Nat
    OBVIOUS
  <2>1. Dividend(a.symbol) \in Nat
    BY <1>4, <1>5
  <2>2. QED BY <1>3, <2>1
<1>8. Payouts(owing) /\ \A k \in owing : k.amount \in Nat /\ k.event \in Actions /\ k.event.day < day
  BY <1>1 DEF DailyClaims
<1>9. owing \cap new = {}
  <2> SUFFICES ASSUME NEW k \in owing, k \in new PROVE FALSE
    OBVIOUS
  <2>1. k.event.day < day /\ k.event.day = day
    BY <1>7, <1>8
  <2>2. QED BY <1>1, <2>1
<1>10. Owed = owing \cup new
  BY DEF Owed
<1>11. \A k \in Owed : k.amount \in Nat /\ k.event \in Actions /\ k.event.day <= day
  <2>1. \A k \in owing : k.event.day \in Nat
    BY <1>8, DailyAmounts
  <2>2. QED BY <1>1, <1>7, <1>8, <1>10, <2>1
<1> HIDE DEF new
<1>12. /\ Owing(Owed) = Owing(owing) + SumFunction(credit) /\ Payouts(Owed) /\ SumFunction(credit) \in Int
  BY <1>6, <1>8, <1>9, <1>10, OwingGrows
<1>13. QED BY <1>11, <1>12

\* The whole basis leaves with the whole quantity.
LEMMA WholeShare ==
  ASSUME NEW b \in Int, NEW q \in Nat \ {0}
  PROVE  (b * q) \div q = b
OBVIOUS

LEMMA PartShare ==
  ASSUME NEW b \in Int, NEW n \in Nat, NEW q \in Nat \ {0}
  PROVE  (b * n) \div q \in Int
OBVIOUS

\* Of the shares of a book on D, sold[s] are sold of those in R, and all of
\* those in C.
DailySale(held, D, R, C, sold) ==
  /\ D \in SUBSET Funds /\ held \in [D -> DailyShare] /\ R \in SUBSET D /\ C \in SUBSET R
  /\ \A s \in R : sold[s] \in Nat
  /\ \A s \in C : sold[s] = held[s].qty
  /\ \A s \in R \ C : sold[s] < held[s].qty

SaleTrims(held, D, R, C, sold, left) ==
  /\ left \in [D \ C -> DailyShare] /\ DOMAIN left = D \ C
  /\ Bases(left) = Bases(held) - SumFunction([s \in R |-> (held[s].basis * sold[s]) \div held[s].qty])
  /\ RawBases(left) = RawBases(held) - SumFunction([s \in R |-> (held[s].rawBasis * sold[s]) \div held[s].qty])
  /\ SumFunction([s \in R |-> (held[s].basis * sold[s]) \div held[s].qty]) \in Int
  /\ SumFunction([s \in R |-> (held[s].rawBasis * sold[s]) \div held[s].qty]) \in Int
  /\ Bases(held) \in Int /\ RawBases(held) \in Int

LEMMA DailySells ==
  ASSUME NEW held, NEW D, NEW R, NEW C, NEW sold, DailySale(held, D, R, C, sold),
         NEW left, left = [s \in D \ C |-> IF s \in R THEN Sold(held[s], sold[s]) ELSE held[s]]
  PROVE  SaleTrims(held, D, R, C, sold, left)
<1> DEFINE f == [s \in D |-> held[s].basis]
           g == [s \in D |-> held[s].rawBasis]
           outF == [s \in R |-> (held[s].basis * sold[s]) \div held[s].qty]
           outG == [s \in R |-> (held[s].rawBasis * sold[s]) \div held[s].qty]
           newF == [s \in D \ C |-> left[s].basis]
           newG == [s \in D \ C |-> left[s].rawBasis]
<1>1. /\ D \in SUBSET Funds /\ held \in [D -> DailyShare] /\ R \in SUBSET D /\ C \in SUBSET R
      /\ (\A s \in R : sold[s] \in Nat) /\ (\A s \in C : sold[s] = held[s].qty)
      /\ \A s \in R \ C : sold[s] < held[s].qty
  BY DEF DailySale
<1>2. /\ Summable(f, D) /\ Summable(g, D) /\ Bases(held) \in Int /\ RawBases(held) \in Int /\ DOMAIN held = D
      /\ \A s \in D : /\ held[s].qty \in Nat \ {0} /\ held[s].basis \in Int /\ held[s].rawBasis \in Int
                      /\ held[s].stop \in Int
  BY <1>1, DailyHeld
<1>3. \A s \in R : outF[s] \in Int /\ outG[s] \in Int
  BY <1>1, <1>2, PartShare
<1>4. \A s \in C : outF[s] = f[s] /\ outG[s] = g[s]
  <2> SUFFICES ASSUME NEW s \in C PROVE outF[s] = f[s] /\ outG[s] = g[s]
    OBVIOUS
  <2>1. /\ sold[s] = held[s].qty /\ held[s].qty \in Nat \ {0} /\ held[s].basis \in Int /\ held[s].rawBasis \in Int
        /\ s \in R /\ s \in D
    BY <1>1, <1>2
  <2>2. (held[s].basis * held[s].qty) \div held[s].qty = held[s].basis
        /\ (held[s].rawBasis * held[s].qty) \div held[s].qty = held[s].rawBasis
    BY <2>1, WholeShare
  <2>3. QED BY <2>1, <2>2
<1>5. ASSUME NEW s \in D \ C, s \in R
      PROVE  left[s] \in DailyShare /\ left[s].basis = f[s] - outF[s] /\ left[s].rawBasis = g[s] - outG[s]
  <2> DEFINE p == held[s]
             q == p.qty - sold[s]
             b == p.basis - (p.basis * sold[s]) \div p.qty
             r == p.rawBasis - (p.rawBasis * sold[s]) \div p.qty
  <2>1. left[s] = [p EXCEPT !.qty = q, !.basis = b, !.rawBasis = r]
    BY <1>1, <1>5 DEF Sold
  <2>2. p \in DailyShare /\ p.qty \in Nat \ {0} /\ sold[s] \in Nat /\ sold[s] < p.qty /\ p.basis \in Int /\ p.rawBasis \in Int
    BY <1>1, <1>2, <1>5
  <2>3. q \in Nat \ {0}
    BY <2>2
  <2>4. b = f[s] - outF[s] /\ r = g[s] - outG[s] /\ outF[s] \in Int /\ outG[s] \in Int
    BY <1>3, <1>5
  <2>5. b \in Int /\ r \in Int
    BY <2>2, <2>4
  <2> HIDE DEF q, b, r, p, f, g, outF, outG
  <2> DEFINE n == [p EXCEPT !.qty = q, !.basis = b, !.rawBasis = r]
  <2>6. n \in DailyShare /\ n.basis = b /\ n.rawBasis = r
    BY <2>2, <2>3, <2>5 DEF DailyShare
  <2>7. QED BY <2>1, <2>4, <2>6
<1>6. ASSUME NEW s \in D \ C, s \notin R
      PROVE  left[s] \in DailyShare /\ left[s].basis = f[s] /\ left[s].rawBasis = g[s]
  BY <1>1, <1>6
<1>7. DOMAIN left = D \ C /\ left = [s \in D \ C |-> left[s]]
  OBVIOUS
<1>8. left \in [D \ C -> DailyShare]
  <2>1. \A s \in D \ C : left[s] \in DailyShare
    BY <1>5, <1>6
  <2> HIDE DEF f, g
  <2>2. QED BY <1>7, <2>1
<1>9. Trims(f, outF, newF, D, R, C)
  <2>1. \A s \in D \ C : newF[s] = IF s \in R THEN f[s] - outF[s] ELSE f[s]
    BY <1>5, <1>6
  <2>2. DOMAIN newF = D \ C /\ DOMAIN outF = R
    OBVIOUS
  <2> HIDE DEF f, outF, newF
  <2>3. QED BY <1>1, <1>2, <1>3, <1>4, <2>1, <2>2 DEF Trims
<1>10. Trims(g, outG, newG, D, R, C)
  <2>1. \A s \in D \ C : newG[s] = IF s \in R THEN g[s] - outG[s] ELSE g[s]
    BY <1>5, <1>6
  <2>2. DOMAIN newG = D \ C /\ DOMAIN outG = R
    OBVIOUS
  <2> HIDE DEF g, outG, newG
  <2>3. QED BY <1>1, <1>2, <1>3, <1>4, <2>1, <2>2 DEF Trims
<1>11. Bases(left) = SumFunction(newF) /\ RawBases(left) = SumFunction(newG) /\ Bases(held) = SumFunction(f) /\ RawBases(held) = SumFunction(g)
  BY <1>2, <1>7 DEF Bases, RawBases
<1> HIDE DEF f, g, outF, outG, newF, newG
<1>12. SumFunction(newF) = SumFunction(f) - SumFunction(outF) /\ SumFunction(outF) \in Int
  BY <1>9, SumOfTrims
<1>13. SumFunction(newG) = SumFunction(g) - SumFunction(outG) /\ SumFunction(outG) \in Int
  BY <1>10, SumOfTrims
<1>14. QED BY <1>2, <1>7, <1>8, <1>11, <1>12, <1>13 DEF SaleTrims, outF, outG

\* What is sold brings in at least what selling costs.
LEMMA NetOfDrag ==
  ASSUME NEW n \in Nat, NEW p \in Nat, NEW c \in Nat, p >= c
  PROVE  n * p \in Nat /\ n * c \in Nat /\ n * p - n * c \in Nat
<1>1. n * p - n * c = n * (p - c)
  OBVIOUS
<1>2. p - c \in Nat
  OBVIOUS
<1> DEFINE d == p - c
<1>3. n * d \in Nat
  <2>1. d \in Nat
    BY <1>2
  <2> HIDE DEF d
  <2>2. QED BY <2>1
<1>4. n * p \in Nat /\ n * c \in Nat
  OBVIOUS
<1>5. QED BY <1>1, <1>3, <1>4

LEMMA SalesCoverDrag ==
  ASSUME NEW R, IsFiniteSet(R), NEW sold, NEW price, \A s \in R : sold[s] \in Nat /\ price[s] \in Nat /\ price[s] >= Drag
  PROVE  /\ SumFunction([s \in R |-> sold[s] * price[s]]) \in Nat
         /\ SumFunction([s \in R |-> sold[s] * Drag]) \in Nat
         /\ SumFunction([s \in R |-> sold[s] * price[s]]) - SumFunction([s \in R |-> sold[s] * Drag]) \in Nat
<1> DEFINE got == [s \in R |-> sold[s] * price[s]]
           cost == [s \in R |-> sold[s] * Drag]
           net == [s \in R |-> got[s] - cost[s]]
<1>1. \A s \in R : got[s] \in Nat /\ cost[s] \in Nat /\ net[s] \in Nat
  <2> SUFFICES ASSUME NEW s \in R PROVE got[s] \in Nat /\ cost[s] \in Nat /\ net[s] \in Nat
    OBVIOUS
  <2>1. sold[s] \in Nat /\ price[s] \in Nat /\ price[s] >= Drag /\ Drag \in Nat
    BY DailyAmounts
  <2>2. sold[s] * price[s] \in Nat /\ sold[s] * Drag \in Nat /\ sold[s] * price[s] - sold[s] * Drag \in Nat
    BY <2>1, NetOfDrag
  <2>3. QED BY <2>2
<1>2. \A s \in R : got[s] = cost[s] + net[s]
  <2> SUFFICES ASSUME NEW s \in R PROVE got[s] = cost[s] + net[s]
    OBVIOUS
  <2>1. net[s] = got[s] - cost[s]
    OBVIOUS
  <2> HIDE DEF net, got, cost
  <2>2. QED BY <1>1, <2>1
<1>3. DOMAIN got = R /\ DOMAIN cost = R /\ DOMAIN net = R
  OBVIOUS
<1> HIDE DEF got, cost, net
<1>4. SumFunction(got) \in Nat
  BY <1>1, <1>3, SumType
<1>5. SumFunction(cost) \in Nat
  BY <1>1, <1>3, SumType
<1>6. SumFunction(net) \in Nat
  BY <1>1, <1>3, SumType
<1>7. SumFunction(got) = SumFunction(cost) + SumFunction(net)
  BY <1>1, <1>3, <1>2, SumOfSums DEF Summable
<1>8. SumFunction(got) - SumFunction(cost) \in Nat
  BY <1>4, <1>5, <1>6, <1>7
<1>9. QED BY <1>4, <1>5, <1>8 DEF got, cost

LEMMA OwingIsNat ==
  ASSUME NEW claimed, Payouts(claimed), \A k \in claimed : k.amount \in Nat
  PROVE  Owing(claimed) \in Nat
<1> DEFINE f == [k \in claimed |-> k.amount]
<1>1. IsFiniteSet(claimed) /\ DOMAIN f = claimed /\ \A k \in claimed : f[k] \in Nat
  BY DEF Payouts
<1> HIDE DEF f
<1>2. SumFunction(f) \in Nat
  BY <1>1, SumType
<1>3. QED BY <1>2 DEF Owing, f

LEMMA DailyOpens ==
  ASSUME DailyInv, NEW present \in SUBSET Funds, OpenDay(present)
  PROVE  DailyInv'
<1> DEFINE bk == Split(shares)
           asked == Split(plans)
           D == DOMAIN shares
           have == [s \in Funds |-> IF s \in DOMAIN bk THEN bk[s].qty ELSE 0]
           paid == PaidBy(2 * day, Owed)
           due == {s \in DOMAIN asked : asked[s].due <= day}
           reduced == {s \in due \cap present : asked[s].qty < have[s]}
           soldQty == [s \in reduced |-> have[s] - asked[s].qty]
           closed == {s \in reduced : asked[s].qty = 0}
           basis == SumFunction([s \in reduced |-> (bk[s].basis * soldQty[s]) \div bk[s].qty])
           rawBasis == SumFunction([s \in reduced |-> (bk[s].rawBasis * soldQty[s]) \div bk[s].qty])
           price == [s \in reduced |-> quotes'[s].open]
           raw == SumFunction([s \in reduced |-> soldQty[s] * price[s]])
           cost == SumFunction([s \in reduced |-> soldQty[s] * Drag])
           credit == SumFunction([s \in DOMAIN shares |-> Dividend(s)])
           left == [s \in DOMAIN bk \ closed |-> IF s \in reduced THEN Sold(bk[s], soldQty[s]) ELSE bk[s]]
           marked == [s \in Funds |-> IF s \in present THEN quotes'[s].open
                                      ELSE IF s \in DOMAIN bk THEN dayMarks[s] \div SplitOf(s) ELSE dayMarks[s]]
           ended == {s \in due \ present : asked[s].qty >= have[s]}
<1>1. /\ part = "open" /\ part' = "adds" /\ DOMAIN quotes' = present /\ \A s \in present : quotes'[s] \in DayShapes[s]
      /\ UNCHANGED <<day, halt>>
  BY DEF OpenDay
<1>2. /\ shares' = left /\ owing' = Owed \ paid /\ drag' = drag + cost
      /\ dayRealized' = dayRealized + credit + raw - cost - basis
      /\ grossRealized' = grossRealized + credit + raw - rawBasis
      /\ dayMarks' = marked
      /\ staleDay' = ~(DOMAIN bk \subseteq present)
      /\ toAdd' = due \cap present
      /\ plans' = Drop(asked, ended)
      /\ forcedDue' = Drop(forcedDue, closed)
  <2>1. raw = SumFunction([s \in reduced |-> soldQty[s] * quotes'[s].open])
    OBVIOUS
  <2> HIDE DEF raw
  <2>2. QED BY <2>1 DEF OpenDay
<1>3. dayCash' = dayCash + SumFunction([k \in paid |-> k.amount]) + raw - cost
  <2>1. raw = SumFunction([s \in reduced |-> soldQty[s] * quotes'[s].open])
    OBVIOUS
  <2> HIDE DEF raw
  <2>2. QED BY <2>1 DEF OpenDay
<1>4. /\ DailyShape /\ DailyClaims /\ DailyRows /\ DailyForced /\ DailyBooks /\ D \in SUBSET Funds
      /\ dayCash \in Nat /\ dayRealized \in Int /\ grossRealized \in Int /\ drag \in Int /\ day \in Int
      /\ dayMarks \in [Funds -> Nat] /\ plans \in [DOMAIN plans -> DailyPlan] /\ DOMAIN plans \subseteq Funds
  BY DEF DailyInv, DailyShape
<1>5. /\ bk \in [D -> DailyShare] /\ DOMAIN bk = D
      /\ \A s \in D : bk[s].basis = shares[s].basis /\ bk[s].rawBasis = shares[s].rawBasis
      /\ asked \in [DOMAIN plans -> DailyPlan] /\ DOMAIN asked = DOMAIN plans
      /\ \A s \in DOMAIN plans : asked[s].due = plans[s].due /\ (plans[s].qty = 0 => asked[s].qty = 0)
  BY <1>4, SplitScales
<1>6. /\ Owing(Owed) = Owing(owing) + credit /\ credit \in Int /\ Payouts(Owed)
      /\ \A k \in Owed : k.amount \in Nat /\ k.event \in Actions /\ k.event.day <= day
  BY <1>1, DailyOwes
<1> HIDE DEF bk, asked, credit
<1>7. (\A s \in D : bk[s].qty \in Nat \ {0}) /\ IsFiniteSet(D) /\ \A s \in DOMAIN plans : asked[s].qty \in Nat /\ asked[s].due \in Int
  BY <1>5, <1>4, DailyHeld DEF DailyPlan
<1>8. reduced \in SUBSET D /\ closed \in SUBSET reduced /\ reduced \subseteq present /\ reduced \subseteq DOMAIN plans
  <2>1. ASSUME NEW s \in reduced PROVE s \in D
    BY <1>5, <1>7
  <2>2. QED BY <1>5, <2>1
<1>9. \A s \in D : have[s] = bk[s].qty
  BY <1>4, <1>5
<1>10. DailySale(bk, D, reduced, closed, soldQty)
  <2>1. ASSUME NEW s \in reduced
        PROVE  /\ soldQty[s] \in Nat /\ (s \in closed => soldQty[s] = bk[s].qty)
               /\ (s \notin closed => soldQty[s] < bk[s].qty)
    <3>1. /\ s \in D /\ asked[s].qty \in Nat /\ have[s] = bk[s].qty /\ bk[s].qty \in Nat /\ asked[s].qty < have[s]
          /\ soldQty[s] = have[s] - asked[s].qty /\ (s \in closed <=> asked[s].qty = 0)
      BY <1>7, <1>8, <1>9
    <3> HIDE DEF soldQty, have, closed
    <3>2. QED BY <3>1
  <2> HIDE DEF soldQty, reduced, closed
  <2>2. QED BY <1>4, <1>5, <1>8, <2>1 DEF DailySale
<1>11. /\ IsFiniteSet(reduced)
       /\ \A s \in reduced : soldQty[s] \in Nat /\ price[s] \in Nat /\ price[s] >= Drag
  <2>1. IsFiniteSet(reduced)
    BY <1>7, <1>8, FS_Subset
  <2>2. \A s \in reduced : price[s] \in Nat /\ price[s] >= Drag
    BY <1>1, <1>8, DailyBars
  <2>3. \A s \in reduced : soldQty[s] \in Nat
    BY <1>10 DEF DailySale
  <2>4. QED BY <2>1, <2>2, <2>3
<1>12. \A s \in DOMAIN forcedDue : s \in D /\ s \in DOMAIN plans /\ asked[s].qty = 0 /\ asked[s].due <= forcedDue[s] /\ forcedDue[s] \in Int
  BY <1>4, <1>5 DEF DailyForced
<1>13. \A s \in DOMAIN forcedDue : s \notin ended
  <2> SUFFICES ASSUME NEW s \in DOMAIN forcedDue, s \in ended PROVE FALSE
    OBVIOUS
  <2>1. asked[s].qty = 0 /\ have[s] \in Nat \ {0} /\ asked[s].qty >= have[s]
    BY <1>7, <1>9, <1>12
  <2>2. QED BY <2>1
<1>14. \A s \in DOMAIN forcedDue : s \in present /\ asked[s].due <= day => s \in closed
  <2> SUFFICES ASSUME NEW s \in DOMAIN forcedDue, s \in present, asked[s].due <= day PROVE s \in closed
    OBVIOUS
  <2>1. asked[s].qty = 0 /\ have[s] \in Nat \ {0} /\ s \in DOMAIN asked
    BY <1>5, <1>7, <1>9, <1>12
  <2>2. QED BY <2>1
<1>15. toAdd' \subseteq DOMAIN plans' /\ toAdd' \subseteq present /\ \A s \in toAdd' : asked[s].due <= day /\ s \in DOMAIN asked
  BY <1>2 DEF Drop
<1>16. plans' \in [DOMAIN plans \ ended -> DailyPlan] /\ DOMAIN plans' = DOMAIN plans \ ended
       /\ \A s \in DOMAIN plans' : plans'[s] = asked[s]
  BY <1>2, <1>5 DEF Drop
<1>17. DOMAIN forcedDue' = DOMAIN forcedDue \ closed /\ \A s \in DOMAIN forcedDue' : forcedDue'[s] = forcedDue[s]
  BY <1>2 DEF Drop
<1>18. staleDay' \in BOOLEAN
  BY <1>2
<1>19. marked \in [Funds -> Nat]
  <2> SUFFICES ASSUME NEW s \in Funds PROVE marked[s] \in Nat
    OBVIOUS
  <2>1. dayMarks[s] \in Nat /\ SplitOf(s) \in Nat \ {0}
    BY <1>4, SplitsArePositive
  <2>2. dayMarks[s] \div SplitOf(s) \in Nat
    <3> DEFINE m == dayMarks[s]
               r == SplitOf(s)
    <3>1. m \in Nat /\ r \in Nat \ {0}
      BY <2>1
    <3> HIDE DEF m, r
    <3>2. m \div r \in Nat
      BY <3>1
    <3>3. QED BY <3>2 DEF m, r
  <2>3. s \in present => quotes'[s].open \in Nat
    BY <1>1, DailyBars
  <2>4. QED BY <2>1, <2>2, <2>3
<1>20. paid \in SUBSET Owed /\ SumFunction([k \in paid |-> k.amount]) = Owing(paid)
  BY DEF PaidBy, Owing
<1> HIDE DEF reduced, closed, soldQty, price, have, due, ended, left, paid, marked, D
<1>21. SaleTrims(bk, D, reduced, closed, soldQty, left)
  BY <1>5, <1>10, DailySells DEF left
<1>22. /\ left \in [D \ closed -> DailyShare] /\ DOMAIN left = D \ closed
       /\ Bases(left) = Bases(bk) - basis /\ RawBases(left) = RawBases(bk) - rawBasis
       /\ basis \in Int /\ rawBasis \in Int /\ Bases(bk) \in Int /\ RawBases(bk) \in Int
  BY <1>21 DEF SaleTrims
<1>23. Bases(bk) = Bases(shares) /\ RawBases(bk) = RawBases(shares)
  BY <1>5 DEF Bases, RawBases, D
<1>24. raw \in Nat /\ cost \in Nat /\ raw - cost \in Nat
  BY <1>11, SalesCoverDrag
<1> HIDE DEF basis, rawBasis, raw, cost
<1>25. /\ Owing(Owed) = Owing(paid) + Owing(Owed \ paid) /\ Owing(paid) \in Nat /\ Owing(Owed \ paid) \in Int
       /\ Payouts(Owed \ paid)
  BY <1>6, <1>20, OwingSplits, OwingIsNat
<1>26. dayCash' \in Nat /\ dayRealized' \in Int /\ grossRealized' \in Int /\ drag' \in Int
  BY <1>3, <1>4, <1>20, <1>24, <1>25, <1>2, <1>6, <1>22
<1>27. DailyBooks'
  <2>1. /\ dayCash + Owing(owing) = DailyCapital + dayRealized - Bases(shares)
        /\ dayCash + Owing(owing) + drag = DailyCapital + grossRealized - RawBases(shares)
        /\ DailyCapital \in Int
    BY <1>4, DailyAmounts DEF DailyBooks
  <2>2. Owing(owing) \in Int
    BY <1>4, OwingSplits DEF DailyClaims
  <2> DEFINE o == Owing(owing)
             u == Owing(Owed \ paid)
             y == Owing(paid)
             b == Bases(shares)
             r == RawBases(shares)
             bl == Bases(left)
             rl == RawBases(left)
  <2>3. /\ o \in Int /\ u \in Int /\ y \in Int /\ b \in Int /\ r \in Int
        /\ bl = b - basis /\ rl = r - rawBasis /\ y + u = o + credit
        /\ dayCash + o = DailyCapital + dayRealized - b
        /\ dayCash + o + drag = DailyCapital + grossRealized - r
        /\ dayCash' = dayCash + y + raw - cost
    BY <1>3, <1>6, <1>20, <1>22, <1>23, <1>25, <2>1, <2>2
  <2>4. Owing(owing)' = u /\ Bases(shares)' = bl /\ RawBases(shares)' = rl
    BY <1>2 DEF Owing, Bases, RawBases
  <2>5. /\ dayRealized' = dayRealized + credit + raw - cost - basis
        /\ grossRealized' = grossRealized + credit + raw - rawBasis /\ drag' = drag + cost
    BY <1>2
  <2> HIDE DEF o, u, y, b, r, bl, rl
  <2>6. dayCash' + u = DailyCapital + dayRealized' - bl
    BY <1>4, <1>6, <1>22, <1>24, <2>1, <2>3, <2>5
  <2>7. dayCash' + u + drag' = DailyCapital + grossRealized' - rl
    BY <1>4, <1>6, <1>22, <1>24, <2>1, <2>3, <2>5
  <2>8. QED BY <2>4, <2>6, <2>7 DEF DailyBooks
<1>28. DailyShape'
  BY <1>2, <1>4, <1>22, <1>16, <1>19, <1>1, <1>18, <1>26 DEF DailyShape
<1>29. DailyClaims'
  BY <1>2, <1>25, <1>1, <1>6 DEF DailyClaims, Payouts
<1>30. DailyRows'
  BY <1>1, <1>15 DEF DailyRows
<1>31. DailyForced'
  <2>1. \A s \in DOMAIN forcedDue' : s \in DOMAIN shares' /\ s \in DOMAIN plans'
    BY <1>2, <1>12, <1>13, <1>16, <1>17, <1>22
  <2>2. \A s \in DOMAIN forcedDue' : s \notin toAdd'
    BY <1>14, <1>15, <1>17
  <2>3. \A s \in DOMAIN forcedDue' : forcedDue'[s] \in Int /\ plans'[s].qty = 0 /\ plans'[s].due <= forcedDue'[s]
    BY <1>12, <1>16, <1>17, <2>1
  <2>4. ASSUME NEW s \in DOMAIN forcedDue' \cap DOMAIN quotes', forcedDue'[s] <= day' PROVE FALSE
    BY <1>1, <1>17, <2>4, <1>7, <1>12, <1>4, <1>14
  <2>5. QED BY <2>1, <2>2, <2>3, <2>4 DEF DailyForced
<1>32. QED BY <1>27, <1>28, <1>29, <1>30, <1>31 DEF DailyInv

\* An addition is paid for.
LEMMA AddsAreAfforded ==
  ASSUME NEW s, NEW requested \in Int, NEW raw, NEW stop, NEW equityNow, NEW cap
  PROVE  LET n == AllowedAdd(s, requested, raw, stop, equityNow, cap)
         IN  n \in Nat /\ (n # 0 => n * (raw + Drag) <= dayCash)
<1> DEFINE n == AllowedAdd(s, requested, raw, stop, equityNow, cap)
<1>1. PICK T : /\ n = (IF raw <= stop THEN 0 ELSE Max({0} \cup T)) /\ T \subseteq 1..requested
               /\ \A q \in T : q * (raw + Drag) <= dayCash
  <2> DEFINE value == SumFunction([k \in DOMAIN shares |-> shares[k].qty * dayMarks[k]])
             clustered == SumFunction([k \in DOMAIN shares \cap Clustered |-> shares[k].qty * dayMarks[k]])
             risk == SumFunction([k \in DOMAIN shares |-> MarkToStop(shares[k].qty, dayMarks[k], shares[k].stop)])
             own == MarkToStop(HeldQty(s), raw, stop)
             Fits(q) ==
               LET loss == q * (raw - stop + 2 * Drag)
                   left == equityNow - q * Drag
               IN  /\ q * (raw + Drag) <= dayCash
                   /\ (own + loss) * 1000 <= NameRisk * left
                   /\ (risk + loss) * 1000 <= PortfolioRisk * left
                   /\ (value + q * raw) * 1000 <= BookLimit * left
                   /\ (HeldQty(s) + q) * raw * 1000 <= cap * left
                   /\ s \in Clustered => (clustered + q * raw) * 1000 <= ClusterLimit * left
             T == {q \in 1..requested : Fits(q)}
  <2>1. n = IF raw <= stop THEN 0 ELSE Max({0} \cup T)
    BY DEF AllowedAdd
  <2>2. T \subseteq 1..requested /\ \A q \in T : q * (raw + Drag) <= dayCash
    OBVIOUS
  <2> HIDE DEF n, T
  <2>3. QED BY <2>1, <2>2
<1> HIDE DEF n
<1> DEFINE S == {0} \cup T
           N == IF requested >= 0 THEN requested ELSE 0
<1>2. N \in Nat /\ S # {} /\ S \subseteq 0..N
  BY <1>1
<1>3. Max(S) \in S
  <2> HIDE DEF S, N
  <2>1. QED BY <1>2, LargestNat
<1>4. Max(S) \in Nat /\ (Max(S) # 0 => Max(S) \in T)
  <2> DEFINE m == Max(S)
  <2>1. m \in S /\ S \subseteq 0..N /\ N \in Nat
    BY <1>2, <1>3
  <2>2. m = 0 \/ m \in T
    BY <1>3
  <2> HIDE DEF m, N, S
  <2>3. m \in Nat
    BY <2>1
  <2>4. QED BY <2>2, <2>3 DEF m
<1>5. n \in Nat /\ (n # 0 => n * (raw + Drag) <= dayCash)
  <2>1. CASE raw <= stop
    BY <1>1, <2>1
  <2>2. CASE ~(raw <= stop)
    <3>1. n = Max(S)
      BY <1>1, <2>2
    <3> HIDE DEF S
    <3>2. QED BY <1>1, <1>4, <3>1
  <2>3. QED BY <2>1, <2>2
<1>6. QED BY <1>5 DEF n

\* A bought amount is added to both bases.
DailyBuy(held, D, s, d, r, x) ==
  /\ D \in SUBSET Funds /\ held \in [D -> DailyShare] /\ s \in Funds /\ d \in Int /\ r \in Int /\ x \in DailyShare
  /\ x.basis = (IF s \in D THEN held[s].basis ELSE 0) + d
  /\ x.rawBasis = (IF s \in D THEN held[s].rawBasis ELSE 0) + r

BuyBooked(held, D, s, d, r, x) ==
  /\ Put(held, s, x) \in [D \cup {s} -> DailyShare] /\ DOMAIN Put(held, s, x) = D \cup {s}
  /\ Bases(Put(held, s, x)) = Bases(held) + d /\ RawBases(Put(held, s, x)) = RawBases(held) + r
  /\ Bases(held) \in Int /\ RawBases(held) \in Int

LEMMA DailyBuys ==
  ASSUME NEW held, NEW D, NEW s, NEW d, NEW r, NEW x, DailyBuy(held, D, s, d, r, x)
  PROVE  BuyBooked(held, D, s, d, r, x)
<1> DEFINE w == Put(held, s, x)
           f == [y \in D |-> held[y].basis]
           g == [y \in D |-> held[y].rawBasis]
           newF == [y \in D \cup {s} |-> w[y].basis]
           newG == [y \in D \cup {s} |-> w[y].rawBasis]
<1>0. /\ D \in SUBSET Funds /\ held \in [D -> DailyShare] /\ d \in Int /\ r \in Int /\ x \in DailyShare
      /\ x.basis = (IF s \in D THEN held[s].basis ELSE 0) + d
      /\ x.rawBasis = (IF s \in D THEN held[s].rawBasis ELSE 0) + r
  BY DEF DailyBuy
<1>1. Summable(f, D) /\ Summable(g, D) /\ DOMAIN held = D /\ Bases(held) \in Int /\ RawBases(held) \in Int
  BY <1>0, DailyHeld
<1>2. DOMAIN w = D \cup {s} /\ w[s] = x /\ \A y \in D \ {s} : w[y] = held[y]
  BY <1>1 DEF Put
<1>3. w \in [D \cup {s} -> DailyShare]
  BY <1>0, <1>1, <1>2 DEF Put
<1>4. Raises(f, newF, D, s, d) /\ Raises(g, newG, D, s, r)
  <2>1. /\ DOMAIN newF = D \cup {s} /\ \A y \in D \ {s} : newF[y] = f[y]
        /\ newF[s] = (IF s \in D THEN f[s] ELSE 0) + d
    BY <1>0, <1>2
  <2>2. /\ DOMAIN newG = D \cup {s} /\ \A y \in D \ {s} : newG[y] = g[y]
        /\ newG[s] = (IF s \in D THEN g[s] ELSE 0) + r
    BY <1>0, <1>2
  <2> HIDE DEF f, g, newF, newG
  <2>3. QED BY <1>0, <1>1, <2>1, <2>2 DEF Raises
<1>5. Bases(w) = SumFunction(newF) /\ RawBases(w) = SumFunction(newG) /\ Bases(held) = SumFunction(f) /\ RawBases(held) = SumFunction(g)
  BY <1>1, <1>2 DEF Bases, RawBases
<1> HIDE DEF f, g, newF, newG, w
<1>6. SumFunction(newF) = SumFunction(f) + d
  BY <1>4, SumOfRaise
<1>7. SumFunction(newG) = SumFunction(g) + r
  BY <1>4, SumOfRaise
<1>8. QED BY <1>1, <1>2, <1>3, <1>5, <1>6, <1>7 DEF w, BuyBooked

LEMMA DailyAdds ==
  ASSUME DailyInv, NEW s \in Funds, Add(s)
  PROVE  DailyInv'
<1> DEFINE D == DOMAIN shares
           raw == quotes[s].open
           request == plans[s].qty - HeldQty(s)
           refused == request <= 0 \/ halt \/ day <= blockUntil \/ staleDay \/ raw <= plans[s].stop
           n == IF refused THEN 0
                ELSE AllowedAdd(s, request, raw, plans[s].stop, DailyEquity(dayCash, shares, dayMarks, owing), NameLimit)
           old == IF s \in DOMAIN shares THEN shares[s] ELSE [qty |-> 0, basis |-> 0, rawBasis |-> 0, stop |-> plans[s].stop]
           x == [old EXCEPT !.qty = @ + n, !.basis = @ + n * (raw + Drag), !.rawBasis = @ + n * raw]
<1>1. /\ part = "adds" /\ s \in toAdd /\ toAdd' = toAdd \ {s} /\ plans' = Drop(plans, {s})
      /\ UNCHANGED <<day, part, quotes, dayMarks, owing, dayRealized, grossRealized, halt, staleDay, forcedDue>>
      /\ IF n = 0 THEN UNCHANGED <<shares, dayCash, drag>>
         ELSE /\ dayCash' = dayCash - n * (raw + Drag) /\ drag' = drag + n * Drag
              /\ shares' = Put(shares, s, x)
  BY DEF Add
<1>2. /\ DailyShape /\ DailyClaims /\ DailyRows /\ DailyForced /\ DailyBooks /\ D \in SUBSET Funds /\ shares \in [D -> DailyShare]
      /\ dayCash \in Nat /\ dayRealized \in Int /\ grossRealized \in Int /\ drag \in Int
      /\ s \in DOMAIN plans /\ plans \in [DOMAIN plans -> DailyPlan] /\ DOMAIN plans \subseteq Funds /\ s \notin DOMAIN forcedDue
      /\ s \in DOMAIN quotes /\ quotes[s] \in DayShapes[s]
  BY <1>1 DEF DailyInv, DailyShape, DailyRows, DailyForced
<1>3. /\ raw \in Nat \ {0} /\ plans[s].qty \in Int /\ plans[s].stop \in Int /\ HeldQty(s) \in Int /\ Drag \in Nat
      /\ s \in D => shares[s].qty \in Nat /\ shares[s].basis \in Int /\ shares[s].rawBasis \in Int /\ shares[s].stop \in Int
  <2>1. plans[s] \in DailyPlan /\ raw \in Nat \ {0} /\ Drag \in Nat
    BY <1>2, DailyBars, DailyAmounts
  <2>2. s \in D => shares[s].qty \in Nat /\ shares[s].basis \in Int /\ shares[s].rawBasis \in Int /\ shares[s].stop \in Int
    BY <1>2, DailyHeld
  <2>3. QED BY <2>1, <2>2 DEF DailyPlan, HeldQty
<1>4. n \in Nat /\ (n # 0 => n * (raw + Drag) <= dayCash)
  <2> DEFINE m == AllowedAdd(s, request, raw, plans[s].stop, DailyEquity(dayCash, shares, dayMarks, owing), NameLimit)
  <2>1. request \in Int
    BY <1>3
  <2>2. m \in Nat /\ (m # 0 => m * (raw + Drag) <= dayCash)
    BY <2>1, AddsAreAfforded
  <2>3. n = 0 \/ n = m
    OBVIOUS
  <2> HIDE DEF m, n
  <2>4. QED BY <2>2, <2>3
<1> DEFINE oq == IF s \in D THEN shares[s].qty ELSE 0
           ob == IF s \in D THEN shares[s].basis ELSE 0
           or == IF s \in D THEN shares[s].rawBasis ELSE 0
           os == IF s \in D THEN shares[s].stop ELSE plans[s].stop
           d == n * (raw + Drag)
           r == n * raw
           c == n * Drag
<1>5. oq \in Nat /\ ob \in Int /\ or \in Int /\ os \in Int
  BY <1>3
<1>6. old \in [qty : Nat, basis : Int, rawBasis : Int, stop : Int] /\ old.qty = oq /\ old.basis = ob /\ old.rawBasis = or
  <2>1. CASE s \in D
    BY <1>2, <2>1 DEF DailyShare
  <2>2. CASE s \notin D
    BY <1>3, <2>2
  <2>3. QED BY <2>1, <2>2
<1> HIDE DEF n
<1>7. d \in Nat /\ r \in Nat /\ c \in Nat /\ d = r + c
  <2> DEFINE p == raw
  <2>1. p \in Nat /\ n \in Nat /\ Drag \in Nat
    BY <1>3, <1>4
  <2> HIDE DEF p
  <2>2. n * (p + Drag) = n * p + n * Drag /\ n * p \in Nat /\ n * Drag \in Nat /\ n * (p + Drag) \in Nat
    BY <2>1
  <2>3. QED BY <2>2 DEF p
<1>8. DailyClaims'
  BY <1>1, <1>2 DEF DailyClaims, Payouts
<1>9. plans' \in [DOMAIN plans \ {s} -> DailyPlan] /\ DOMAIN plans' = DOMAIN plans \ {s} /\ \A y \in DOMAIN plans' : plans'[y] = plans[y]
  BY <1>1, <1>2 DEF Drop
<1>10. DailyRows'
  BY <1>1, <1>2, <1>9 DEF DailyRows
<1>11. Owing(owing)' = Owing(owing) /\ Owing(owing) \in Int
  BY <1>1, <1>2, OwingSplits DEF Owing, DailyClaims
<1>12. DOMAIN shares \subseteq DOMAIN shares' => DailyForced'
  <2> SUFFICES ASSUME DOMAIN shares \subseteq DOMAIN shares' PROVE DailyForced'
    OBVIOUS
  <2>1. \A y \in DOMAIN forcedDue : y # s /\ y \in DOMAIN shares /\ y \in DOMAIN plans
    BY <1>2 DEF DailyForced
  <2>2. QED BY <1>1, <1>2, <1>9, <2>1 DEF DailyForced
<1>13. CASE UNCHANGED <<shares, dayCash, drag>>
  BY <1>1, <1>2, <1>9, <1>13, <1>8, <1>10, <1>12 DEF DailyShape, DailyBooks, Owing, Bases, RawBases, DailyInv
<1>14. CASE n # 0 /\ dayCash' = dayCash - d /\ drag' = drag + c /\ shares' = Put(shares, s, x)
  <2> DEFINE nq == oq + n
             nb == ob + d
             nr == or + r
             y == [old EXCEPT !.qty = nq, !.basis = nb, !.rawBasis = nr]
  <2>1. x = y
    BY <1>6
  <2>2. nq \in Nat \ {0} /\ nb \in Int /\ nr \in Int
    <3> HIDE DEF oq, ob, or, d, r
    <3>1. QED BY <1>4, <1>5, <1>7, <1>14
  <2>3. y \in DailyShare /\ y.basis = nb /\ y.rawBasis = nr
    <3> HIDE DEF old, nq, nb, nr
    <3>1. QED BY <1>6, <2>2 DEF DailyShare
  <2>4. x \in DailyShare /\ x.basis = ob + d /\ x.rawBasis = or + r
    BY <2>1, <2>3
  <2> HIDE DEF x, d, r, c
  <2>5. /\ shares' \in [D \cup {s} -> DailyShare] /\ DOMAIN shares' = D \cup {s}
        /\ Bases(shares)' = Bases(shares) + d /\ RawBases(shares)' = RawBases(shares) + r
        /\ Bases(shares) \in Int /\ RawBases(shares) \in Int
    <3> DEFINE w == Put(shares, s, x)
    <3>1. /\ w \in [D \cup {s} -> DailyShare] /\ DOMAIN w = D \cup {s}
          /\ Bases(w) = Bases(shares) + d /\ RawBases(w) = RawBases(shares) + r
          /\ Bases(shares) \in Int /\ RawBases(shares) \in Int
      <4>1. DailyBuy(shares, D, s, d, r, x)
        BY <1>2, <1>7, <2>4 DEF DailyBuy
      <4>2. BuyBooked(shares, D, s, d, r, x)
        BY <4>1, DailyBuys
      <4>3. QED BY <4>2 DEF BuyBooked
    <3>2. Bases(shares)' = Bases(w) /\ RawBases(shares)' = RawBases(w)
      BY <1>14 DEF Bases, RawBases
    <3> HIDE DEF w
    <3>3. shares' = w
      BY <1>14 DEF w
    <3>4. QED BY <3>1, <3>2, <3>3
  <2>6. dayCash' \in Nat /\ drag' \in Int
    BY <1>4, <1>14, <1>2, <1>7 DEF d
  <2>7. DailyShape'
    BY <1>2, <2>5, <1>1, <1>9, <2>6 DEF DailyShape
  <2>8. DailyBooks'
    <3>1. /\ dayCash + Owing(owing) = DailyCapital + dayRealized - Bases(shares)
          /\ dayCash + Owing(owing) + drag = DailyCapital + grossRealized - RawBases(shares)
          /\ DailyCapital \in Int
      BY <1>2, DailyAmounts DEF DailyBooks
    <3>2. /\ (dayCash - d) + Owing(owing) = DailyCapital + dayRealized - (Bases(shares) + d)
          /\ (dayCash - d) + Owing(owing) + (drag + c) = DailyCapital + grossRealized - (RawBases(shares) + r)
      BY <1>2, <1>7, <1>11, <2>5, <3>1
    <3>3. QED BY <1>1, <1>11, <1>14, <2>5, <3>2 DEF DailyBooks
  <2>9. DailyForced'
    BY <1>12, <2>5
  <2>10. QED BY <1>8, <1>10, <2>7, <2>8, <2>9 DEF DailyInv
<1>15. QED BY <1>1, <1>13, <1>14

LEMMA DailyMarks ==
  ASSUME DailyInv, MarkClose
  PROVE  DailyInv'
<1> DEFINE paid == PaidBy(2 * day + 1, owing)
           equityNow == DailyEquity(dayCash', shares, dayMarks', owing')
           top == Max({dayPeak, equityNow})
<1>1. /\ part = "adds" /\ toAdd = {} /\ part' = "close" /\ dayMarks' = CloseDayMarks
      /\ dayCash' = dayCash + SumFunction([k \in paid |-> k.amount]) /\ owing' = owing \ paid
      /\ halt' = (halt \/ equityNow * 1000 <= top * (1000 - PeakHalt))
      /\ UNCHANGED <<day, quotes, toAdd, plans, shares, dayRealized, grossRealized, drag, staleDay, forcedDue>>
  BY DEF MarkClose
<1>2. /\ DailyShape /\ DailyClaims /\ DailyRows /\ DailyForced /\ DailyBooks
      /\ dayCash \in Nat /\ dayRealized \in Int /\ grossRealized \in Int /\ drag \in Int /\ dayMarks \in [Funds -> Nat]
      /\ Payouts(owing) /\ \A k \in owing : k.amount \in Nat
  BY DEF DailyInv, DailyShape, DailyClaims
<1>3. halt' \in BOOLEAN
  BY <1>1
<1>4. dayMarks' \in [Funds -> Nat]
  BY <1>1, <1>2, DailyBars DEF DailyRows, CloseDayMarks
<1>5. paid \in SUBSET owing /\ SumFunction([k \in paid |-> k.amount]) = Owing(paid)
  BY DEF PaidBy, Owing
<1> HIDE DEF paid, equityNow, top
<1>6. /\ Owing(owing) = Owing(paid) + Owing(owing \ paid) /\ Owing(paid) \in Nat /\ Owing(owing \ paid) \in Int
      /\ Payouts(owing \ paid)
  BY <1>2, <1>5, OwingSplits, OwingIsNat
<1>7. dayCash' \in Nat
  BY <1>1, <1>2, <1>5, <1>6
<1>8. DailyShape'
  BY <1>1, <1>2, <1>3, <1>4, <1>7 DEF DailyShape
<1>9. DailyClaims'
  BY <1>1, <1>2, <1>6 DEF DailyClaims, Payouts
<1>10. DailyRows' /\ DailyForced'
  BY <1>1, <1>2 DEF DailyRows, DailyForced
<1>11. DailyBooks'
  BY <1>1, <1>2, <1>5, <1>6 DEF Owing, Bases, RawBases, DailyBooks
<1>12. QED BY <1>8, <1>9, <1>10, <1>11 DEF DailyInv

\* Nothing is ever owed by the book, so its equity is not negative.
LEMMA DailyEquityIsNat ==
  ASSUME DailyShape, DailyClaims
  PROVE  DailyEquity(dayCash, shares, dayMarks, owing) \in Nat
<1> DEFINE D == DOMAIN shares
           f == [s \in D |-> shares[s].qty * dayMarks[s]]
<1>1. D \in SUBSET Funds /\ shares \in [D -> DailyShare] /\ dayMarks \in [Funds -> Nat] /\ dayCash \in Nat
  BY DEF DailyShape
<1>2. IsFiniteSet(D) /\ \A s \in D : shares[s].qty \in Nat
  BY <1>1, DailyHeld
<1>3. \A s \in D : f[s] \in Nat
  <2> SUFFICES ASSUME NEW s \in D PROVE f[s] \in Nat
    OBVIOUS
  <2>1. shares[s].qty \in Nat /\ dayMarks[s] \in Nat
    BY <1>1, <1>2
  <2>2. QED BY <2>1
<1>4. DOMAIN f = D
  OBVIOUS
<1>5. DailyEquity(dayCash, shares, dayMarks, owing) = dayCash + SumFunction(f) + Owing(owing)
  BY DEF DailyEquity, Owing
<1> HIDE DEF f, D
<1>6. SumFunction(f) \in Nat
  BY <1>2, <1>3, <1>4, SumType
<1>7. Owing(owing) \in Nat
  BY OwingIsNat DEF DailyClaims
<1>8. QED BY <1>1, <1>5, <1>6, <1>7

CapState == [used : Nat, clustered : Nat, kept : [DOMAIN shares -> Nat]]
CapFirst == [used |-> 0, clustered |-> 0, kept |-> [s \in DOMAIN shares |-> 0]]

\* What the cap leaves of a fund, and what the next funds are left with.
CapStep(total, prices, before, i) ==
  LET s == FundOrder[i]
      qty == CapFor(s, total, prices, before.used, before.clustered)
  IN  IF s \notin DOMAIN shares THEN before
      ELSE [used |-> before.used + qty * prices[s],
            clustered |-> before.clustered + (IF s \in Clustered THEN qty * prices[s] ELSE 0),
            kept |-> [before.kept EXCEPT ![s] = qty]]

LEMMA CapsAreNat ==
  ASSUME DailyShape, NEW s \in DOMAIN shares, NEW total \in Nat, NEW used \in Nat, NEW clustered \in Nat
  PROVE  CapFor(s, total, dayMarks, used, clustered) \in Nat
<1> DEFINE q == shares[s].qty
           p == dayMarks[s]
           value == q * p
           a == (NameLimit * total) \div 1000
           b == Max({0, (BookLimit * total) \div 1000 - used})
           c == Max({0, (ClusterLimit * total) \div 1000 - clustered})
           S == {value, a, b} \cup (IF s \in Clustered THEN {c} ELSE {})
           allowed == Min(S)
<1>1. q \in Nat /\ p \in Nat
  BY DailyHeld DEF DailyShape
<1>2. CapFor(s, total, dayMarks, used, clustered) = IF allowed < value THEN allowed \div p ELSE q
  BY DEF CapFor
<1>3. value \in Nat
  <2> HIDE DEF q, p
  <2>1. QED BY <1>1
<1>4. a \in Nat
  <2> DEFINE x == NameLimit * total
  <2>1. x \in Nat
    BY DailyAmounts
  <2> HIDE DEF x
  <2>2. QED BY <2>1 DEF x
<1>5. b \in Nat
  <2> DEFINE x == BookLimit * total
             y == x \div 1000 - used
  <2>1. x \in Nat
    BY DailyAmounts
  <2> HIDE DEF x
  <2>2. y \in Int
    BY <2>1
  <2> HIDE DEF y
  <2>3. Max({0, y}) = IF 0 >= y THEN 0 ELSE y
    BY <2>2, MaxOfTwo
  <2>4. b = Max({0, y})
    BY DEF x, y
  <2>5. QED BY <2>2, <2>3, <2>4
<1>6. c \in Nat
  <2> DEFINE x == ClusterLimit * total
             y == x \div 1000 - clustered
  <2>1. x \in Nat
    BY DailyAmounts
  <2> HIDE DEF x
  <2>2. y \in Int
    BY <2>1
  <2> HIDE DEF y
  <2>3. Max({0, y}) = IF 0 >= y THEN 0 ELSE y
    BY <2>2, MaxOfTwo
  <2>4. c = Max({0, y})
    BY DEF x, y
  <2>5. QED BY <2>2, <2>3, <2>4
<1>7. S # {} /\ S \subseteq Nat
  <2> HIDE DEF value, a, b, c
  <2>1. QED BY <1>3, <1>4, <1>5, <1>6
<1>8. allowed \in Nat
  <2> HIDE DEF S
  <2>1. QED BY <1>7, MinIsLeast
<1>9. allowed < value => p # 0
  <2>1. p = 0 => value = 0
    <3> HIDE DEF q, p
    <3>1. p = 0 => q * p = 0
      BY <1>1
    <3>2. QED BY <3>1
  <2> HIDE DEF allowed, value, p
  <2>2. QED BY <1>3, <1>8, <2>1
<1> HIDE DEF allowed, value, p, q
<1>10. allowed < value => allowed \div p \in Nat
  BY <1>1, <1>8, <1>9
<1>11. QED BY <1>1, <1>2, <1>10

LEMMA CapStepIs ==
  ASSUME DailyShape, NEW total \in Nat, NEW i \in 1..Len(FundOrder), NEW before \in CapState
  PROVE  CapStep(total, dayMarks, before, i) \in CapState
<1> DEFINE s == FundOrder[i]
           n == CapFor(s, total, dayMarks, before.used, before.clustered)
<1>1. before.used \in Nat /\ before.clustered \in Nat /\ before.kept \in [DOMAIN shares -> Nat]
  BY DEF CapState
<1>2. CASE s \notin DOMAIN shares
  BY <1>2 DEF CapStep
<1>3. CASE s \in DOMAIN shares
  <2>1. n \in Nat
    BY <1>1, <1>3, CapsAreNat
  <2>2. dayMarks[s] \in Nat
    BY <1>3 DEF DailyShape
  <2> DEFINE v == n * dayMarks[s]
             u == before.used + v
             c == before.clustered + (IF s \in Clustered THEN v ELSE 0)
             k == [before.kept EXCEPT ![s] = n]
  <2>3. v \in Nat
    <3> HIDE DEF n
    <3>1. QED BY <2>1, <2>2
  <2>4. CapStep(total, dayMarks, before, i) = [used |-> u, clustered |-> c, kept |-> k]
    BY <1>3 DEF CapStep
  <2>5. k \in [DOMAIN shares -> Nat]
    <3> HIDE DEF n
    <3>1. QED BY <1>1, <2>1
  <2> HIDE DEF v
  <2>6. u \in Nat /\ c \in Nat
    BY <1>1, <2>3
  <2> HIDE DEF u, c, k, n
  <2>7. QED BY <2>4, <2>5, <2>6 DEF CapState
<1>4. QED BY <1>2, <1>3

IsCapWalk(walk, total, N) ==
  /\ walk = [i \in 0..N |-> walk[i]] /\ walk[0] = CapFirst
  /\ \A i \in 1..N : walk[i] = CapStep(total, dayMarks, walk[i - 1], i)

LEMMA CapWalkExists ==
  ASSUME NEW total
  PROVE  \A n \in Nat : \E walk : IsCapWalk(walk, total, n)
<1> DEFINE T == {n \in Nat : \E walk : IsCapWalk(walk, total, n)}
<1>1. 0 \in T
  <2> DEFINE w == [i \in 0..0 |-> CapFirst]
  <2>1. IsCapWalk(w, total, 0)
    BY DEF IsCapWalk
  <2> HIDE DEF w
  <2>2. QED BY <2>1
<1>2. ASSUME NEW n \in Nat, n \in T PROVE n + 1 \in T
  <2>1. PICK v : IsCapWalk(v, total, n)
    BY <1>2
  <2> DEFINE w == [i \in 0..(n + 1) |-> IF i = n + 1 THEN CapStep(total, dayMarks, v[n], n + 1) ELSE v[i]]
  <2>2. w = [i \in 0..(n + 1) |-> w[i]]
    OBVIOUS
  <2>3. \A i \in 0..n : w[i] = v[i]
    OBVIOUS
  <2>4. w[n + 1] = CapStep(total, dayMarks, v[n], n + 1)
    OBVIOUS
  <2> HIDE DEF w
  <2>5. w[0] = CapFirst
    BY <2>1, <2>3 DEF IsCapWalk
  <2>6. ASSUME NEW i \in 1..(n + 1) PROVE w[i] = CapStep(total, dayMarks, w[i - 1], i)
    <3>1. CASE i = n + 1
      BY <2>3, <3>1, <2>4
    <3>2. CASE i # n + 1
      <4>1. i \in 1..n /\ i \in 0..n /\ i - 1 \in 0..n
        BY <3>2
      <4>2. w[i] = v[i] /\ w[i - 1] = v[i - 1]
        BY <2>3, <4>1
      <4>3. v[i] = CapStep(total, dayMarks, v[i - 1], i)
        BY <2>1, <4>1 DEF IsCapWalk
      <4>4. QED BY <4>2, <4>3
    <3>3. QED BY <3>1, <3>2
  <2>7. IsCapWalk(w, total, n + 1)
    BY <2>2, <2>5, <2>6 DEF IsCapWalk
  <2>8. QED BY <2>7
<1> HIDE DEF T
<1>3. \A n \in Nat : n \in T
  BY <1>1, <1>2, SetInduction
<1>4. QED BY <1>3 DEF T

\* The walk over the funds keeps an amount of every fund that is held.
LEMMA CappedIs ==
  ASSUME DailyShape, NEW total \in Nat
  PROVE  Capped(total, dayMarks) \in [DOMAIN shares -> Nat]
<1> DEFINE N == Len(FundOrder)
           Next(walk) == [i \in 0..N |-> IF i = 0 THEN CapFirst ELSE CapStep(total, dayMarks, walk[i - 1], i)]
           w == CHOOSE walk : walk = Next(walk)
<1>1. N \in Nat
  BY DailyAmounts, LenProperties
<1>2. Capped(total, dayMarks) = w[N].kept
  BY Zenon DEF Capped, CapFirst, CapStep
<1>3. \E walk : walk = Next(walk)
  <2>1. PICK v : IsCapWalk(v, total, N)
    BY <1>1, CapWalkExists
  <2>2. \A i \in 0..N : v[i] = IF i = 0 THEN CapFirst ELSE CapStep(total, dayMarks, v[i - 1], i)
    <3> SUFFICES ASSUME NEW i \in 0..N, i # 0 PROVE v[i] = CapStep(total, dayMarks, v[i - 1], i)
      BY <2>1 DEF IsCapWalk
    <3>1. i \in 1..N
      BY <1>1
    <3>2. QED BY <2>1, <3>1 DEF IsCapWalk
  <2>3. v = Next(v)
    BY <2>1, <2>2 DEF IsCapWalk
  <2>4. QED BY <2>3
<1>4. w = Next(w)
  <2> HIDE DEF Next
  <2>1. QED BY <1>3
<1> HIDE DEF w
<1>5. w[0] = CapFirst /\ \A i \in 1..N : w[i] = CapStep(total, dayMarks, w[i - 1], i)
  BY <1>4, <1>1
<1> DEFINE T == {n \in Nat : n <= N => w[n] \in CapState}
<1>6. 0 \in T
  BY <1>5 DEF CapFirst, CapState
<1>7. ASSUME NEW n \in Nat, n \in T PROVE n + 1 \in T
  <2> SUFFICES ASSUME n + 1 <= N PROVE w[n + 1] \in CapState
    OBVIOUS
  <2>1. n + 1 \in 1..N /\ (n + 1) - 1 = n /\ w[n] \in CapState
    BY <1>1, <1>7
  <2>2. w[n + 1] = CapStep(total, dayMarks, w[n], n + 1)
    BY <1>5, <2>1
  <2>3. QED BY <2>1, <2>2, CapStepIs
<1> HIDE DEF T
<1>8. \A n \in Nat : n \in T
  BY <1>6, <1>7, SetInduction
<1>9. w[N] \in CapState
  BY <1>1, <1>8 DEF T
<1>10. QED BY <1>2, <1>9 DEF CapState

\* A plan is of its type when its quantity, stop and day are.
Reasons == {"intent", "drawdown_halt", "daily_loss_halt", "protective_exit", "exposure_cap_reduction"}

LEMMA PlansAre ==
  ASSUME NEW s, NEW q \in Nat, NEW stop \in Int, NEW due \in Int, NEW reason \in Reasons
  PROVE  Plan(s, q, stop, due, reason) \in DailyPlan /\ Plan(s, q, stop, due, reason).qty = q
         /\ Plan(s, q, stop, due, reason).due = due
BY DEF Plan, DailyPlan, Reasons

LEMMA NextDueIs == DailyShape => NextDue \in Int
<1> SUFFICES ASSUME DailyShape PROVE NextDue \in Int
  OBVIOUS
<1>1. day \in Int /\ DelaySessions \in Int
  BY DailyAmounts DEF DailyShape
<1>2. QED BY <1>1 DEF NextDue

\* Whom a close forces out gets a plan to sell everything, due no later than
\* one that was there.
LEMMA ForcedPlans ==
  ASSUME DailyShape, NEW h, NEW hit
  PROVE  LET F == Forced(h, hit)
             o == WithForced(h, hit)
         IN  /\ F \subseteq DOMAIN shares /\ DOMAIN o = DOMAIN plans \cup F /\ o \in [DOMAIN plans \cup F -> DailyPlan]
             /\ \A s \in F : /\ o[s].qty = 0 /\ o[s].due <= NextDue
                             /\ s \in DOMAIN plans /\ plans[s].qty = 0 => o[s].due <= plans[s].due
             /\ \A s \in DOMAIN plans \ F : o[s] = plans[s]
<1> DEFINE F == Forced(h, hit)
           o == WithForced(h, hit)
           why == IF h THEN "drawdown_halt" ELSE IF hit THEN "daily_loss_halt" ELSE "protective_exit"
<1>1. F \subseteq DOMAIN shares
  BY DEF Forced
<1>2. /\ DOMAIN o = DOMAIN plans \cup F /\ o = [s \in DOMAIN plans \cup F |-> o[s]]
      /\ \A s \in F : o[s] = Plan(s, 0, shares[s].stop, Earlier(s), why)
      /\ \A s \in DOMAIN plans \ F : o[s] = plans[s]
  BY DEF WithForced
<1>3. why \in Reasons
  BY DEF Reasons
<1>4. \A s \in DOMAIN plans : plans[s] \in DailyPlan /\ plans[s].due \in Int
  BY DEF DailyShape, DailyPlan
<1>5. \A s \in DOMAIN shares : shares[s].stop \in Int /\ shares[s].qty \in Nat \ {0}
  BY DailyHeld DEF DailyShape
<1>6. NextDue \in Int
  BY NextDueIs
<1>7. ASSUME NEW s \in F
      PROVE  /\ Earlier(s) \in Int /\ Earlier(s) <= NextDue
             /\ s \in DOMAIN plans /\ plans[s].qty = 0 => Earlier(s) <= plans[s].due
  <2> DEFINE a == NextDue
             b == plans[s].due
  <2>1. CASE s \in DOMAIN plans /\ plans[s].qty < HeldQty(s)
    <3>1. Earlier(s) = Min({a, b})
      BY <2>1 DEF Earlier
    <3>2. a \in Int /\ b \in Int
      BY <1>4, <1>6, <2>1
    <3> HIDE DEF a, b
    <3>3. Min({a, b}) = IF a <= b THEN a ELSE b
      BY <3>2, MinOfTwo
    <3>4. Earlier(s) \in Int /\ Earlier(s) <= a /\ Earlier(s) <= b
      BY <3>1, <3>2, <3>3
    <3>5. QED BY <3>4 DEF a, b
  <2>2. CASE ~(s \in DOMAIN plans /\ plans[s].qty < HeldQty(s))
    <3>1. Earlier(s) = a
      BY <2>2 DEF Earlier
    <3>2. s \in DOMAIN plans => plans[s].qty # 0
      BY <1>1, <1>5, <2>2 DEF HeldQty
    <3>3. QED BY <1>6, <3>1, <3>2
  <2>3. QED BY <2>1, <2>2
<1> HIDE DEF F, o, why
<1>8. \A s \in F : o[s] \in DailyPlan /\ o[s].qty = 0 /\ o[s].due = Earlier(s)
  <2> SUFFICES ASSUME NEW s \in F PROVE o[s] \in DailyPlan /\ o[s].qty = 0 /\ o[s].due = Earlier(s)
    OBVIOUS
  <2>1. shares[s].stop \in Int /\ Earlier(s) \in Int
    BY <1>1, <1>5, <1>7
  <2>2. QED BY <1>2, <1>3, <2>1, PlansAre
<1>9. \A s \in DOMAIN plans \cup F : o[s] \in DailyPlan
  BY <1>2, <1>4, <1>8
<1>10. o \in [DOMAIN plans \cup F -> DailyPlan]
  BY <1>2, <1>9
<1>11. QED BY <1>1, <1>2, <1>7, <1>8, <1>10 DEF F, o

\* A cap takes nothing back from a plan to sell everything, and delays none.
LEMMA CutPlans ==
  ASSUME DailyShape, NEW h, NEW hit, NEW o, NEW O \in SUBSET Funds, o \in [O -> DailyPlan],
         NEW cuts \in [DOMAIN shares -> Nat]
  PROVE  LET c == WithCuts(o, cuts, h, hit)
         IN  /\ c \in [DOMAIN c -> DailyPlan] /\ O \subseteq DOMAIN c /\ DOMAIN c \subseteq Funds
             /\ \A s \in O : s \in Forced(h, hit) \/ s \notin DOMAIN shares => c[s] = o[s]
             /\ \A s \in O : o[s].qty = 0 => c[s].qty = 0 /\ c[s].due <= o[s].due
<1> DEFINE c == WithCuts(o, cuts, h, hit)
           cut == {s \in DOMAIN shares : cuts[s] < shares[s].qty} \ Forced(h, hit)
           reducing(s) == s \in DOMAIN o /\ o[s].qty < shares[s].qty
           q(s) == IF reducing(s) THEN Min({cuts[s], o[s].qty}) ELSE cuts[s]
           t(s) == IF reducing(s) THEN Min({NextDue, o[s].due}) ELSE NextDue
           why(s) == IF reducing(s) /\ o[s].qty <= cuts[s] THEN o[s].reason ELSE "exposure_cap_reduction"
<1>1. /\ DOMAIN c = DOMAIN o \cup cut /\ c = [s \in DOMAIN o \cup cut |-> c[s]]
      /\ \A s \in cut : c[s] = Plan(s, q(s), shares[s].stop, t(s), why(s))
      /\ \A s \in DOMAIN o : s \notin cut => c[s] = o[s]
  BY DEF WithCuts
<1>2. DOMAIN o = O
  OBVIOUS
<1>3. /\ DOMAIN shares \subseteq Funds /\ NextDue \in Int
      /\ \A s \in DOMAIN shares : shares[s].qty \in Nat \ {0} /\ shares[s].stop \in Int /\ cuts[s] \in Nat
  BY DailyHeld, NextDueIs DEF DailyShape
<1>4. \A s \in O : o[s] \in DailyPlan /\ o[s].qty \in Nat /\ o[s].due \in Int /\ o[s].reason \in Reasons
  BY DEF DailyPlan, Reasons
<1>5. ASSUME NEW s \in cut
      PROVE  /\ c[s] \in DailyPlan /\ c[s].qty = q(s) /\ c[s].due = t(s)
             /\ s \in O /\ o[s].qty = 0 => q(s) = 0 /\ t(s) <= o[s].due
  <2>1. s \in DOMAIN shares /\ cuts[s] \in Nat /\ shares[s].stop \in Int /\ shares[s].qty \in Nat \ {0}
    BY <1>3
  <2>2. CASE reducing(s)
    <3> DEFINE a == cuts[s]
               b == o[s].qty
               x == NextDue
               y == o[s].due
    <3>1. a \in Nat /\ b \in Nat /\ x \in Int /\ y \in Int /\ o[s].reason \in Reasons
      BY <1>2, <1>3, <1>4, <2>1, <2>2
    <3>2. q(s) = Min({a, b}) /\ t(s) = Min({x, y}) /\ (why(s) = o[s].reason \/ why(s) = "exposure_cap_reduction")
      BY <2>2
    <3> HIDE DEF a, b, x, y, q, t, why
    <3>3. Min({a, b}) = IF a <= b THEN a ELSE b
      BY <3>1, MinOfTwo
    <3>4. Min({x, y}) = IF x <= y THEN x ELSE y
      BY <3>1, MinOfTwo
    <3>5. q(s) \in Nat /\ t(s) \in Int /\ (b = 0 => q(s) = 0) /\ t(s) <= y
      BY <3>1, <3>2, <3>3, <3>4
    <3>6. why(s) \in Reasons
      BY <3>1, <3>2 DEF Reasons
    <3>7. c[s] \in DailyPlan /\ c[s].qty = q(s) /\ c[s].due = t(s)
      <4> DEFINE qs == q(s)
                 ts == t(s)
                 ws == why(s)
                 ss == shares[s].stop
      <4>1. c[s] = Plan(s, qs, ss, ts, ws)
        BY <1>1
      <4>2. qs \in Nat /\ ss \in Int /\ ts \in Int /\ ws \in Reasons
        BY <2>1, <3>5, <3>6
      <4> HIDE DEF qs, ts, ws, ss
      <4>3. QED BY <4>1, <4>2, PlansAre DEF qs, ts
    <3>8. QED BY <3>5, <3>7 DEF b, y
  <2>3. CASE ~reducing(s)
    <3>1. q(s) = cuts[s] /\ t(s) = NextDue /\ why(s) = "exposure_cap_reduction"
      BY <2>3
    <3>2. s \in O => o[s].qty # 0
      BY <1>2, <1>4, <2>3, <2>1
    <3> HIDE DEF q, t, why
    <3>3. q(s) \in Nat /\ t(s) \in Int /\ why(s) \in Reasons
      BY <1>3, <2>1, <3>1 DEF Reasons
    <3>4. c[s] \in DailyPlan /\ c[s].qty = q(s) /\ c[s].due = t(s)
      <4> DEFINE qs == q(s)
                 ts == t(s)
                 ws == why(s)
                 ss == shares[s].stop
      <4>1. c[s] = Plan(s, qs, ss, ts, ws)
        BY <1>1
      <4>2. qs \in Nat /\ ss \in Int /\ ts \in Int /\ ws \in Reasons
        BY <2>1, <3>3
      <4> HIDE DEF qs, ts, ws, ss
      <4>3. QED BY <4>1, <4>2, PlansAre DEF qs, ts
    <3>5. QED BY <3>2, <3>4
  <2>4. QED BY <2>2, <2>3
<1>6. \A s \in DOMAIN c : c[s] \in DailyPlan
  BY <1>1, <1>2, <1>4, <1>5
<1>7. cut \subseteq DOMAIN shares /\ cut \cap Forced(h, hit) = {}
  OBVIOUS
<1> HIDE DEF c, cut, q, t
<1>8. c \in [DOMAIN c -> DailyPlan]
  BY <1>1, <1>6
<1>9. \A s \in O : o[s].qty = 0 => c[s].qty = 0 /\ c[s].due <= o[s].due
  <2> SUFFICES ASSUME NEW s \in O, o[s].qty = 0 PROVE c[s].qty = 0 /\ c[s].due <= o[s].due
    OBVIOUS
  <2>1. CASE s \in cut
    BY <1>5, <2>1
  <2>2. CASE s \notin cut
    BY <1>1, <1>2, <1>4, <2>2
  <2>3. QED BY <2>1, <2>2
<1>10. \A s \in O : s \in Forced(h, hit) \/ s \notin DOMAIN shares => c[s] = o[s]
  BY <1>1, <1>2, <1>7
<1>11. O \subseteq DOMAIN c /\ DOMAIN c \subseteq Funds
  BY <1>1, <1>2, <1>3, <1>7
<1>12. QED BY <1>8, <1>9, <1>10, <1>11 DEF c

\* A target is a quantity.
LEMMA TargetsAre ==
  ASSUME DailyShape, NEW s, NEW weight \in 0..1000, NEW price, weight # 0 => price \in Nat \ {0}, NEW stop, NEW total \in Nat
  PROVE  Target(s, weight, price, stop, total) \in Nat
<1> DEFINE wanted == (total * weight) \div (1000 * (price + Drag))
           more == wanted - HeldQty(s)
           add == AllowedAdd(s, more, price, stop, total, Min({NameLimit, weight}))
<1>1. Target(s, weight, price, stop, total) = IF weight = 0 THEN 0 ELSE IF wanted <= HeldQty(s) THEN wanted ELSE HeldQty(s) + add
  BY DEF Target
<1>2. HeldQty(s) \in Nat
  BY DailyHeld DEF DailyShape, HeldQty
<1>3. weight # 0 => wanted \in Nat
  <2> SUFFICES ASSUME weight # 0 PROVE wanted \in Nat
    OBVIOUS
  <2> DEFINE x == total * weight
             y == 1000 * (price + Drag)
  <2>1. x \in Nat /\ y \in Nat \ {0}
    BY DailyAmounts
  <2> HIDE DEF x, y
  <2>2. x \div y \in Nat
    BY <2>1
  <2>3. QED BY <2>2 DEF x, y
<1>4. weight # 0 => add \in Nat
  <2> SUFFICES ASSUME weight # 0 PROVE add \in Nat
    OBVIOUS
  <2>1. more \in Int
    BY <1>2, <1>3
  <2> HIDE DEF more
  <2>2. QED BY <2>1, AddsAreAfforded
<1> HIDE DEF wanted, add
<1>5. QED BY <1>1, <1>2, <1>3, <1>4

LEMMA DecidedPlans ==
  ASSUME DailyShape, DOMAIN quotes \subseteq Funds, \A s \in DOMAIN quotes : quotes[s] \in DayShapes[s],
         NEW orders_, NEW O \in SUBSET Funds, orders_ \in [O -> DailyPlan],
         NEW S \in SUBSET Funds, NEW intents \in [S -> Weights], S \cap O = {},
         \A s \in S : IF intents[s] = 0 THEN s \in DOMAIN shares ELSE s \in DOMAIN quotes,
         NEW total \in Nat
  PROVE  LET d == Decided(orders_, intents, total)
         IN  /\ d \in [DOMAIN d -> DailyPlan] /\ O \subseteq DOMAIN d /\ DOMAIN d \subseteq Funds
             /\ \A s \in O : d[s] = orders_[s]
<1> DEFINE d == Decided(orders_, intents, total)
           StopOf(s) == IF s \in DOMAIN shares THEN shares[s].stop ELSE quotes[s].close - StopAtr
           Goal(s) == Target(s, intents[s], quotes[s].close, StopOf(s), total)
           new == {s \in DOMAIN intents : (intents[s] = 0 \/ StopOf(s) > 0) /\ Goal(s) # HeldQty(s)}
<1>1. /\ DOMAIN d = DOMAIN orders_ \cup new /\ d = [s \in DOMAIN orders_ \cup new |-> d[s]]
      /\ \A s \in new : d[s] = Plan(s, Goal(s), StopOf(s), NextDue, "intent")
      /\ \A s \in DOMAIN orders_ : s \notin new => d[s] = orders_[s]
  BY DEF Decided
<1>2. new \subseteq S /\ DOMAIN orders_ = O
  OBVIOUS
<1>3. ASSUME NEW s \in S PROVE Goal(s) \in Nat /\ StopOf(s) \in Int
  <2>1. intents[s] \in 0..1000
    <3>1. intents[s] \in Weights
      OBVIOUS
    <3>2. Weights \subseteq 0..1000
      BY DailyAmounts
    <3>3. QED BY <3>1, <3>2
  <2>2. s \in DOMAIN quotes => quotes[s].close \in Nat \ {0}
    BY DailyBars
  <2>3. s \in DOMAIN shares => shares[s].stop \in Int
    BY DEF DailyShape, DailyShare
  <2>4. StopOf(s) \in Int
    BY <2>2, <2>3, DailyAmounts
  <2>5. intents[s] # 0 => quotes[s].close \in Nat \ {0}
    BY <2>2
  <2> DEFINE price == quotes[s].close
             weight == intents[s]
             stop == StopOf(s)
  <2>6. weight \in 0..1000 /\ (weight # 0 => price \in Nat \ {0})
    BY <2>1, <2>5
  <2>7. Goal(s) = Target(s, weight, price, stop, total)
    OBVIOUS
  <2> HIDE DEF price, weight, stop, StopOf, Goal
  <2>8. Target(s, weight, price, stop, total) \in Nat
    BY <2>6, TargetsAre
  <2>9. QED BY <2>4, <2>7, <2>8
<1> HIDE DEF Goal, StopOf, new, d
<1>4. \A s \in new : d[s] \in DailyPlan
  <2> SUFFICES ASSUME NEW s \in new PROVE d[s] \in DailyPlan
    OBVIOUS
  <2>1. Goal(s) \in Nat /\ StopOf(s) \in Int /\ NextDue \in Int /\ "intent" \in Reasons
    BY <1>2, <1>3, NextDueIs DEF Reasons
  <2>2. QED BY <1>1, <2>1, PlansAre
<1>5. \A s \in O : s \notin new /\ d[s] = orders_[s] /\ orders_[s] \in DailyPlan
  BY <1>1, <1>2
<1>6. \A s \in DOMAIN d : d[s] \in DailyPlan
  BY <1>1, <1>2, <1>4, <1>5
<1>7. d \in [DOMAIN d -> DailyPlan]
  BY <1>1, <1>6
<1>8. QED BY <1>1, <1>2, <1>5, <1>7 DEF d

LEMMA DailyCloses ==
  ASSUME DailyInv, NEW S \in SUBSET Funds, NEW intents \in [S -> Weights], CloseDay(intents)
  PROVE  DailyInv'
<1> DEFINE total == DailyEquity(dayCash, shares, dayMarks, owing)
           hit == blockUntil = day + 1
           F == Forced(halt, hit)
           o == WithForced(halt, hit)
           cuts == Capped(total, dayMarks)
           c == WithCuts(o, cuts, halt, hit)
           d == Decided(c, intents, total)
           O == DOMAIN plans \cup F
           due == [s \in DOMAIN forcedDue \cup F |-> IF s \in DOMAIN forcedDue THEN forcedDue[s] ELSE NextDue]
<1>1. /\ part = "close" /\ day < Days /\ day' = day + 1 /\ part' = "open" /\ plans' = d /\ forcedDue' = due
      /\ DOMAIN intents \cap DOMAIN c = {}
      /\ \A s \in DOMAIN intents : IF intents[s] = 0 THEN s \in DOMAIN shares ELSE s \in DOMAIN quotes
      /\ UNCHANGED <<toAdd, shares, dayMarks, dayCash, owing, dayRealized, grossRealized, drag, halt, staleDay>>
  BY DEF CloseDay
<1>2. /\ DailyShape /\ DailyClaims /\ DailyRows /\ DailyForced /\ DailyBooks /\ DOMAIN shares \subseteq Funds
      /\ DOMAIN plans \subseteq Funds /\ day \in 1..Days /\ Days \in Nat
      /\ DOMAIN quotes \subseteq Funds /\ (\A s \in DOMAIN quotes : quotes[s] \in DayShapes[s]) /\ toAdd = {}
  BY <1>1, DailyAmounts DEF DailyInv, DailyShape, DailyRows
<1>3. total \in Nat
  BY <1>2, DailyEquityIsNat
<1> HIDE DEF total, hit
<1>4. /\ F \subseteq DOMAIN shares /\ o \in [O -> DailyPlan] /\ DOMAIN o = O
      /\ \A s \in F : /\ o[s].qty = 0 /\ o[s].due <= NextDue
                      /\ s \in DOMAIN plans /\ plans[s].qty = 0 => o[s].due <= plans[s].due
      /\ \A s \in DOMAIN plans \ F : o[s] = plans[s]
  BY <1>2, ForcedPlans
<1>5. cuts \in [DOMAIN shares -> Nat]
  BY <1>2, <1>3, CappedIs
<1>6. O \in SUBSET Funds
  BY <1>2, <1>4
<1> HIDE DEF O, o, cuts, F
<1>7. /\ c \in [DOMAIN c -> DailyPlan] /\ O \subseteq DOMAIN c /\ DOMAIN c \subseteq Funds
      /\ \A s \in O : s \in F \/ s \notin DOMAIN shares => c[s] = o[s]
      /\ \A s \in O : o[s].qty = 0 => c[s].qty = 0 /\ c[s].due <= o[s].due
  BY <1>2, <1>4, <1>5, <1>6, CutPlans DEF F
<1>8. DOMAIN intents = S
  OBVIOUS
<1>9. /\ d \in [DOMAIN d -> DailyPlan] /\ DOMAIN c \subseteq DOMAIN d /\ DOMAIN d \subseteq Funds
      /\ \A s \in DOMAIN c : d[s] = c[s]
  <2> DEFINE C == DOMAIN c
  <2>1. C \in SUBSET Funds /\ c \in [C -> DailyPlan] /\ S \cap C = {}
    BY <1>1, <1>7, <1>8
  <2>2. \A s \in S : IF intents[s] = 0 THEN s \in DOMAIN shares ELSE s \in DOMAIN quotes
    BY <1>1, <1>8
  <2> HIDE DEF c, C
  <2>3. QED BY <1>2, <1>3, <2>1, <2>2, DecidedPlans DEF C
<1> HIDE DEF c, d, due
<1>10. \A s \in DOMAIN forcedDue : /\ s \in DOMAIN shares /\ s \in DOMAIN plans /\ forcedDue[s] \in Int /\ plans[s].qty = 0
                                   /\ plans[s].due <= forcedDue[s] /\ plans[s].due \in Int
  BY <1>2 DEF DailyShape, DailyPlan, DailyForced
<1>11. \A s \in O : o[s].due \in Int
  BY <1>4 DEF DailyPlan
<1>12. \A s \in DOMAIN d : d[s] \in DailyPlan /\ d[s].due \in Int
  BY <1>9 DEF DailyPlan
<1>13. NextDue \in Int
  BY <1>2, NextDueIs
<1>14. DOMAIN due = DOMAIN forcedDue \cup F /\ \A s \in DOMAIN due : due[s] = IF s \in DOMAIN forcedDue THEN forcedDue[s] ELSE NextDue
  BY DEF due
<1>15. ASSUME NEW s \in DOMAIN due
       PROVE  s \in DOMAIN shares /\ s \in DOMAIN d /\ due[s] \in Int /\ d[s].qty = 0 /\ d[s].due <= due[s]
  <2>1. s \in O /\ s \in DOMAIN shares
    BY <1>4, <1>10, <1>14 DEF O
  <2>2. o[s].qty = 0 /\ o[s].due <= due[s] /\ due[s] \in Int
    <3>1. CASE s \in DOMAIN forcedDue /\ s \in F
      BY <1>4, <1>10, <1>14, <3>1, <1>11, <2>1
    <3>2. CASE s \in DOMAIN forcedDue /\ s \notin F
      BY <1>4, <1>10, <1>14, <3>2
    <3>3. CASE s \notin DOMAIN forcedDue
      BY <1>14, <3>3, <1>4, <1>13
    <3>4. QED BY <3>1, <3>2, <3>3
  <2>3. c[s].qty = 0 /\ c[s].due <= o[s].due /\ d[s] = c[s] /\ s \in DOMAIN d
    BY <1>7, <1>9, <2>1, <2>2
  <2>4. d[s].due <= due[s]
    BY <1>11, <1>12, <2>1, <2>3, <2>2
  <2>5. QED BY <2>1, <2>2, <2>3, <2>4
<1>16. DailyShape'
  BY <1>1, <1>2, <1>9 DEF DailyShape
<1>17. DailyClaims'
  BY <1>2, DailyAmounts, <1>1 DEF DailyClaims, Payouts
<1>18. DailyRows'
  BY <1>1, <1>2 DEF DailyRows
<1>19. DailyForced'
  BY <1>1, <1>2, <1>15 DEF DailyForced
<1>20. DailyBooks'
  BY <1>1, <1>2 DEF DailyBooks, Owing, Bases, RawBases
<1>21. QED BY <1>16, <1>17, <1>18, <1>19, <1>20 DEF DailyInv

LEMMA DailyBegins == DailyInit => DailyInv
<1> SUFFICES ASSUME DailyInit PROVE DailyInv
  OBVIOUS
<1>1. /\ day = 1 /\ part = "open" /\ toAdd = {} /\ plans = <<>> /\ shares = <<>> /\ dayMarks = [s \in Funds |-> 0]
      /\ dayCash = DailyCapital /\ owing = {} /\ dayRealized = 0 /\ grossRealized = 0 /\ drag = 0
      /\ halt = FALSE /\ staleDay = FALSE /\ forcedDue = <<>> /\ DailyCapital \in Nat /\ Days \in Nat \ {0}
  BY DailyAmounts DEF DailyInit
<1>2. /\ shares \in [{} -> DailyShare] /\ DOMAIN shares = {} /\ plans \in [{} -> DailyPlan] /\ DOMAIN plans = {}
      /\ DOMAIN forcedDue = {}
  BY <1>1
<1>3. DailyShape
  <2>1. day \in 1..Days /\ dayMarks \in [Funds -> Nat]
    BY <1>1
  <2>2. halt \in BOOLEAN /\ staleDay \in BOOLEAN
    BY <1>1
  <2>3. /\ dayCash \in Nat /\ dayRealized \in Int /\ grossRealized \in Int /\ drag \in Int
        /\ part \in {"open", "adds", "close"}
    BY <1>1
  <2>4. /\ shares \in [DOMAIN shares -> DailyShare] /\ DOMAIN shares \subseteq Funds
        /\ plans \in [DOMAIN plans -> DailyPlan] /\ DOMAIN plans \subseteq Funds
    BY <1>2
  <2>5. QED BY <2>1, <2>2, <2>3, <2>4 DEF DailyShape
<1>4. IsFiniteSet({})
  BY FS_EmptySet
<1>5. DailyClaims
  BY <1>1, <1>4 DEF DailyClaims, Payouts
<1>6. DailyRows /\ DailyForced
  BY <1>1, <1>2 DEF DailyRows, DailyForced
<1>7. Owing(owing) = 0 /\ Bases(shares) = 0 /\ RawBases(shares) = 0
  <2> DEFINE f == [k \in owing |-> k.amount]
             g == [s \in DOMAIN shares |-> shares[s].basis]
             h == [s \in DOMAIN shares |-> shares[s].rawBasis]
  <2>1. Summable(f, {}) /\ Summable(g, {}) /\ Summable(h, {})
    BY <1>1, <1>2, <1>4 DEF Summable
  <2> HIDE DEF f, g, h
  <2>2. SumFunction(f) = 0 /\ SumFunction(g) = 0 /\ SumFunction(h) = 0
    BY <2>1, SumsAreInt
  <2>3. QED BY <2>2 DEF Owing, Bases, RawBases, f, g, h
<1>8. QED BY <1>1, <1>3, <1>5, <1>6, <1>7 DEF DailyInv, DailyBooks

LEMMA DailyKeeps == DailyInv /\ [DailyNext]_dailyVars => DailyInv'
<1> SUFFICES ASSUME DailyInv, [DailyNext]_dailyVars PROVE DailyInv'
  OBVIOUS
<1>1. CASE UNCHANGED dailyVars
  BY <1>1 DEF dailyVars, DailyInv, DailyShape, DailyClaims, DailyRows, DailyForced, DailyBooks, Payouts, Owing, Bases, RawBases
<1>2. CASE \E present \in SUBSET Funds : OpenDay(present)
  BY <1>2, DailyOpens
<1>3. CASE \E s \in Funds : Add(s)
  BY <1>3, DailyAdds
<1>4. CASE MarkClose
  BY <1>4, DailyMarks
<1>5. CASE \E S \in SUBSET Funds : \E intents \in [S -> Weights] : CloseDay(intents)
  BY <1>5, DailyCloses
<1>6. QED BY <1>1, <1>2, <1>3, <1>4, <1>5 DEF DailyNext

LEMMA DailyFollows == DailyInv => DailyTypeOK /\ DailyReplayIsSound
<1> SUFFICES ASSUME DailyInv PROVE DailyTypeOK /\ DailyReplayIsSound
  OBVIOUS
<1> DEFINE D == DOMAIN shares
           value == [s \in D |-> shares[s].qty * dayMarks[s]]
           f == [s \in D |-> shares[s].basis]
           g == [s \in D |-> shares[s].rawBasis]
           net == [s \in D |-> shares[s].qty * dayMarks[s] - shares[s].basis]
           gross == [s \in D |-> shares[s].qty * dayMarks[s] - shares[s].rawBasis]
           now == DailyEquity(dayCash, shares, dayMarks, owing)
<1>1. /\ DailyShape /\ DailyClaims /\ DailyRows /\ DailyForced /\ DailyBooks /\ D \in SUBSET Funds /\ shares \in [D -> DailyShare]
      /\ dayCash \in Int /\ dayRealized \in Int /\ grossRealized \in Int /\ drag \in Int /\ dayMarks \in [Funds -> Nat] /\ DailyCapital \in Int
  BY DailyAmounts DEF DailyInv, DailyShape
<1>2. /\ IsFiniteSet(D) /\ Summable(f, D) /\ Summable(g, D)
      /\ \A s \in D : shares[s].qty \in Nat \ {0} /\ shares[s].basis \in Int /\ shares[s].rawBasis \in Int
  BY <1>1, DailyHeld
<1>3. DailyTypeOK
  BY <1>1, <1>2 DEF DailyTypeOK, DailyShape, DailyRows
<1>4. \A s \in D : /\ value[s] \in Int /\ net[s] \in Int /\ gross[s] \in Int
                   /\ value[s] = net[s] + f[s] /\ value[s] = gross[s] + g[s]
  <2> SUFFICES ASSUME NEW s \in D
               PROVE  /\ value[s] \in Int /\ net[s] \in Int /\ gross[s] \in Int
                      /\ value[s] = net[s] + f[s] /\ value[s] = gross[s] + g[s]
    OBVIOUS
  <2> DEFINE v == shares[s].qty * dayMarks[s]
  <2>1. v \in Int
    BY <1>1, <1>2
  <2>2. value[s] = v /\ f[s] = shares[s].basis /\ g[s] = shares[s].rawBasis /\ net[s] = v - shares[s].basis /\ gross[s] = v - shares[s].rawBasis
    OBVIOUS
  <2> HIDE DEF v, value, f, g, net, gross
  <2>3. QED BY <1>2, <2>1, <2>2
<1>5. Summable(net, D) /\ Summable(gross, D) /\ DOMAIN value = D
  BY <1>2, <1>4 DEF Summable
<1>6. now = dayCash + SumFunction(value) + Owing(owing) /\ Bases(shares) = SumFunction(f) /\ RawBases(shares) = SumFunction(g)
  BY DEF DailyEquity, Owing, Bases, RawBases
<1>7. DailyIdentities <=> /\ now - DailyCapital = dayRealized + SumFunction(net)
                          /\ now - DailyCapital + drag = grossRealized + SumFunction(gross)
  BY Zenon DEF DailyIdentities
<1> HIDE DEF value, f, g, net, gross, now
<1>8. SumFunction(value) = SumFunction(net) + SumFunction(f) /\ SumFunction(net) \in Int /\ SumFunction(f) \in Int
  BY <1>2, <1>4, <1>5, SumOfSums
<1>9. SumFunction(value) = SumFunction(gross) + SumFunction(g) /\ SumFunction(gross) \in Int /\ SumFunction(g) \in Int
  BY <1>2, <1>4, <1>5, SumOfSums
<1>10. Owing(owing) \in Int
  BY <1>1, OwingSplits DEF DailyClaims
<1>11. /\ dayCash + Owing(owing) = DailyCapital + dayRealized - SumFunction(f)
       /\ dayCash + Owing(owing) + drag = DailyCapital + grossRealized - SumFunction(g)
  BY <1>1, <1>6 DEF DailyBooks
<1>12. DailyIdentities
  BY <1>1, <1>6, <1>8, <1>10, <1>11, <1>9, <1>7
<1>13. ForcedExitsAreKept
  BY <1>1 DEF DailyForced, ForcedExitsAreKept
<1>14. QED BY <1>3, <1>12, <1>13 DEF DailyReplayIsSound

LEMMA DailyHolds == ResearchSuiteSpec => [](Examined("daily") => DailyInv)
<1>1. ResearchSuiteInit => (Examined("daily") => DailyInv)
  BY DailyBegins DEF ResearchSuiteInit
<1>2. (Examined("daily") => DailyInv) /\ [ResearchSuiteNext]_suiteVars => (Examined("daily") => DailyInv)'
  BY DailySteps, DailyKeeps
<1>3. QED BY <1>1, <1>2, PTL DEF ResearchSuiteSpec

-----------------------------------------------------------------------------
(* The four replays together.                                              *)

\* However bars, gaps, splits, distributions, signals and intents fall, a
\* replay's equity is its capital and what its trades, income and costs
\* contributed, a halt is obeyed until the end, what was forced out is gone,
\* and no order is executed twice or before its bar (backtest/engine.py,
\* daily_etf.py, intraday/engine.py).
THEOREM ReplaysAreAlwaysHonest == ResearchSuiteSpec => []ReplaysAreHonest
<1>1. /\ Examined("backtest") => BarInv
      /\ Examined("minutes") => MinuteInv
      /\ Examined("daily") => DailyInv
      /\ Examined("intraday") => IntradayInv
      => ReplaysAreHonest
  BY BarFollows, MinuteFollows, DailyFollows, IntradayFollows DEF ReplaysAreHonest
<1>2. QED BY <1>1, BacktestHolds, MinutesHold, DailyHolds, IntradayHolds, PTL
=============================================================================
