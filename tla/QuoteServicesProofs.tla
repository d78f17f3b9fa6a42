------------------------ MODULE QuoteServicesProofs -------------------------
(***************************************************************************)
(* The two services that bring quotes, the stream and the scanner: what    *)
(* they publish is what it is labelled, whatever connections break, saved  *)
(* rows are restored, symbols are refused and cycles die.  With the proofs *)
(* of the other services (ServicesProofs), the suite's properties that     *)
(* speak of several of them, and its types.                                *)
(***************************************************************************)
EXTENDS ServicesProofs

-----------------------------------------------------------------------------
(* The quote stream.  Rows are labelled by the generation of the connection *)
(* they came on; within one process a generation is one connection.         *)

\* A walk that begins at base and makes the move of (x, i) from x at its i-th step.
Moves(S, N) == [S \X (1..N) -> S]
IsWalk(r, N, S, base, move) ==
    r \in [0..N -> S] /\ r[0] = base /\ \A i \in 1..N : r[i] = move[<<r[i - 1], i>>]

LEMMA WalkExists ==
  ASSUME NEW N \in Nat, NEW S, NEW base \in S, NEW move \in Moves(S, N)
  PROVE  \E r : IsWalk(r, N, S, base, move)
<1> DEFINE Solves(r, n) == r \in [0..n -> S] /\ r[0] = base /\ \A i \in 1..n : r[i] = move[<<r[i - 1], i>>]
           T == {n \in Nat : n <= N => \E r : Solves(r, n)}
<1>1. 0 \in T
  <2>1. Solves([k \in 0..0 |-> base], 0)
    OBVIOUS
  <2>2. QED BY <2>1
<1>2. ASSUME NEW n \in Nat, n \in T PROVE n + 1 \in T
  <2> SUFFICES ASSUME n + 1 <= N PROVE \E r : Solves(r, n + 1)
    OBVIOUS
  <2>1. PICK s : Solves(s, n)
    BY <1>2
  <2> DEFINE r == [k \in 0..(n + 1) |-> IF k = n + 1 THEN move[<<s[n], n + 1>>] ELSE s[k]]
  <2>2. s[n] \in S /\ n + 1 \in 1..N /\ s \in [0..n -> S] /\ s[0] = base
    BY <2>1
  <2>3. <<s[n], n + 1>> \in S \X (1..N)
    BY <2>2
  <2>4. move[<<s[n], n + 1>>] \in S
    BY <2>3 DEF Moves
  <2>5. r \in [0..(n + 1) -> S]
    <3>1. ASSUME NEW k \in 0..(n + 1) PROVE r[k] \in S
      <4>1. CASE k = n + 1
        BY <2>4, <4>1
      <4>2. CASE k # n + 1
        BY <4>2, <2>2
      <4>3. QED BY <4>1, <4>2
    <3>2. QED BY <3>1
  <2>6. r[0] = base
    BY <2>2
  <2>7. \A k \in 1..(n + 1) : r[k] = move[<<r[k - 1], k>>]
    <3> TAKE k \in 1..(n + 1)
    <3>1. CASE k = n + 1
      <4>1. r[k] = move[<<s[n], n + 1>>] /\ k - 1 = n /\ r[n] = s[n]
        BY <3>1
      <4>2. QED BY <3>1, <4>1
    <3>2. CASE k # n + 1
      BY <3>2, <2>1
    <3>3. QED BY <3>1, <3>2
  <2>8. QED BY <2>5, <2>6, <2>7
<1> HIDE DEF T
<1>3. N \in T
  BY <1>1, <1>2, SetInduction
<1>4. QED BY <1>3 DEF T, IsWalk

StreamSymbols == {r.symbol : r \in StreamRows}
StreamRecord == [symbol : StreamSymbols, stamp : Int, generation : Nat, on : Nat]
OneEach(store) == \A i, j \in 1..Len(store) : store[i].symbol = store[j].symbol => i = j

\* A symbol's row taken out leaves the others, in their order.
LEMMA WithoutIs ==
  ASSUME NEW R, NEW store \in Seq(R), OneEach(store), NEW s
  PROVE  LET w == Without(store, s)
         IN  /\ w \in Seq(R) /\ Len(w) <= Len(store) /\ OneEach(w)
             /\ \A k \in 1..Len(w) : w[k].symbol # s /\ \E i \in 1..Len(store) : w[k] = store[i]
<1> DEFINE w == Without(store, s)
           N == Len(store)
           I == {i \in 1..N : store[i].symbol = s}
           at1 == CHOOSE i \in I : TRUE
<1>1. N \in Nat /\ \A i \in 1..N : store[i] \in R
  OBVIOUS
<1>2. CASE I = {}
  <2>1. w = store
    BY <1>2 DEF Without, RemoveFirstMatch
  <2>2. QED BY <1>1, <1>2, <2>1
<1>3. CASE I # {}
  <2>1. PICK c \in 1..N : store[c].symbol = s /\ w = RemoveAt(store, c)
    <3>1. PICK b \in 1..N : store[b].symbol = s
      BY <1>3
    <3>2. \A i \in 1..N : store[i].symbol = s => i = b
      BY <3>1 DEF OneEach
    <3>3. SelectInSeq(store, LAMBDA r : r.symbol = s) = b
      BY <3>1, <3>2 DEF Min, SelectInSeq
    <3>4. w = RemoveAt(store, b)
      BY <3>1, <3>3 DEF Without, RemoveFirstMatch
    <3>5. QED BY <3>1, <3>4
  <2> DEFINE front == SubSeq(store, 1, c - 1)
             back == SubSeq(store, c + 1, N)
  <2>2. /\ front \in Seq(R) /\ Len(front) = c - 1 /\ \A i \in 1..(c - 1) : front[i] = store[i]
    BY <1>1, SubSeqProperties
  <2>3. /\ back \in Seq(R) /\ Len(back) = N - c /\ \A i \in 1..(N - c) : back[i] = store[c + i]
    BY <1>1, SubSeqProperties
  <2> HIDE DEF front, back
  <2>4. /\ w = front \o back
    BY <2>1 DEF RemoveAt, front, back
  <2>5. /\ w \in Seq(R) /\ Len(w) = N - 1
        /\ \A k \in 1..(N - 1) : w[k] = IF k <= c - 1 THEN store[k] ELSE store[k + 1]
    <3>1. /\ w \in Seq(R) /\ Len(w) = Len(front) + Len(back)
          /\ \A k \in 1..(Len(front) + Len(back)) : w[k] = IF k <= Len(front) THEN front[k] ELSE back[k - Len(front)]
      BY <2>2, <2>3, <2>4, ConcatProperties
    <3>2. ASSUME NEW k \in 1..(N - 1) PROVE w[k] = IF k <= c - 1 THEN store[k] ELSE store[k + 1]
      <4>1. w[k] = IF k <= c - 1 THEN front[k] ELSE back[k - (c - 1)]
        BY <1>1, <2>2, <2>3, <3>1
      <4>2. CASE k <= c - 1
        BY <2>2, <4>1, <4>2
      <4>3. CASE ~(k <= c - 1)
        BY <1>1, <4>3, <2>3, <4>1
      <4>4. QED BY <4>2, <4>3
    <3>3. QED BY <1>1, <2>2, <2>3, <3>1, <3>2
  <2>6. ASSUME NEW k \in 1..(N - 1)
        PROVE  \E i \in 1..N : i # c /\ w[k] = store[i] /\ i = (IF k <= c - 1 THEN k ELSE k + 1)
    BY <1>1, <2>5
  <2>7. \A k \in 1..(N - 1) : w[k].symbol # s
    BY <1>1, <2>1, <2>6 DEF OneEach
  <2>8. ASSUME NEW j \in 1..(N - 1), NEW k \in 1..(N - 1), w[j].symbol = w[k].symbol PROVE j = k
    <3>1. PICK a \in 1..N : w[j] = store[a] /\ a = (IF j <= c - 1 THEN j ELSE j + 1)
      BY <2>6
    <3>2. PICK b \in 1..N : w[k] = store[b] /\ b = (IF k <= c - 1 THEN k ELSE k + 1)
      BY <2>6
    <3>3. a = b
      BY <2>8, <3>1, <3>2 DEF OneEach
    <3>4. QED BY <1>1, <3>1, <3>2, <3>3
  <2>9. QED BY <1>1, <2>5, <2>6, <2>7, <2>8 DEF OneEach
<1>4. QED BY <1>2, <1>3

\* A row put into a store replaces the one of its symbol; the store stays within
\* its cap and has every symbol once.
LEMMA PutRowIs ==
  ASSUME NEW R, NEW store \in Seq(R), OneEach(store), NEW e \in R, NEW cap \in Nat \ {0}, Len(store) <= cap
  PROVE  LET p == PutRow(store, e, cap)
         IN  /\ p \in Seq(R) /\ Len(p) <= cap /\ OneEach(p)
             /\ \A k \in 1..Len(p) : p[k] = e \/ (p[k].symbol # e.symbol /\ \E i \in 1..Len(store) : p[k] = store[i])
<1> DEFINE w == Without(store, e.symbol)
           moved == Append(w, e)
           p == PutRow(store, e, cap)
<1>1. /\ w \in Seq(R) /\ Len(w) <= Len(store) /\ OneEach(w)
      /\ \A k \in 1..Len(w) : w[k].symbol # e.symbol /\ \E i \in 1..Len(store) : w[k] = store[i]
  BY WithoutIs
<1> HIDE DEF w
<1>2. /\ moved \in Seq(R) /\ Len(moved) = Len(w) + 1 /\ moved[Len(w) + 1] = e
      /\ \A k \in 1..Len(w) : moved[k] = w[k]
  BY <1>1, AppendProperties
<1>3. p = IF Len(moved) > cap THEN Tail(moved) ELSE moved
  BY DEF PutRow, w
<1> HIDE DEF moved, p
<1>4. Len(w) \in Nat /\ Len(store) \in Nat
  BY <1>1
<1>5. ASSUME NEW k \in 1..Len(moved)
      PROVE  \/ k = Len(w) + 1 /\ moved[k] = e
             \/ k \in 1..Len(w) /\ moved[k] = w[k] /\ moved[k].symbol # e.symbol /\ \E i \in 1..Len(store) : moved[k] = store[i]
  <2>1. CASE k = Len(w) + 1
    BY <1>2, <2>1
  <2>2. CASE k # Len(w) + 1
    BY <1>2, <1>4, <2>2, <1>1
  <2>3. QED BY <2>1, <2>2
<1>6. OneEach(moved)
  <2> SUFFICES ASSUME NEW i \in 1..Len(moved), NEW j \in 1..Len(moved), moved[i].symbol = moved[j].symbol PROVE i = j
    BY DEF OneEach
  <2>1. CASE i = Len(w) + 1 /\ moved[i] = e
    BY <1>5, <2>1
  <2>2. CASE i \in 1..Len(w) /\ moved[i] = w[i] /\ moved[i].symbol # e.symbol
    BY <1>5, <2>2, <1>1 DEF OneEach
  <2>3. QED BY <1>5, <2>1, <2>2
<1>7. CASE ~(Len(moved) > cap)
  BY <1>3, <1>7, <1>2, <1>4, <1>5, <1>6 DEF p
<1>8. CASE Len(moved) > cap
  <2>1. p = Tail(moved) /\ moved # << >>
    BY <1>2, <1>3, <1>4, <1>8
  <2>2. /\ p \in Seq(R) /\ Len(p) = Len(moved) - 1
        /\ \A k \in 1..Len(p) : p[k] = moved[k + 1]
    BY <1>2, <2>1, HeadTailProperties
  <2>3. Len(p) <= cap
    BY <1>1, <1>2, <1>4, <2>2
  <2>4. ASSUME NEW k \in 1..Len(p)
        PROVE  k + 1 \in 1..Len(moved) /\ p[k] = moved[k + 1]
    BY <1>2, <1>4, <2>2
  <2>5. OneEach(p)
    <3> SUFFICES ASSUME NEW i \in 1..Len(p), NEW j \in 1..Len(p), p[i].symbol = p[j].symbol PROVE i = j
      BY DEF OneEach
    <3>1. i + 1 = j + 1
      BY <1>6, <2>4 DEF OneEach
    <3>2. QED BY <3>1
  <2>6. ASSUME NEW k \in 1..Len(p)
        PROVE  p[k] = e \/ (p[k].symbol # e.symbol /\ \E i \in 1..Len(store) : p[k] = store[i])
    BY <1>5, <2>4
  <2>7. QED BY <2>2, <2>3, <2>5, <2>6 DEF p
<1>9. QED BY <1>7, <1>8

\* What a process remembers: rows of what the provider may send, a symbol once,
\* none of a connection to come.
StreamErrors == {"none", "connection_failed", "option_selection_unavailable_or_stale", "subscription_not_confirmed",
                 "provider_error", "authentication_or_subscription_timeout", "option_selection_changed"}
StreamMemories ==
    [feed : {"sip", "opra"}, selection : Selections \cup {FixedSelection}, bars : Seq(StreamRecord), quotes : Seq(StreamRecord),
     generation : Nat, connected : BOOLEAN, authenticated : BOOLEAN, subscribed : BOOLEAN, error : StreamErrors]
IsMemory(m) ==
    /\ m \in StreamMemories
    /\ OneEach(m.bars) /\ OneEach(m.quotes) /\ Len(m.bars) <= MaxBars /\ Len(m.quotes) <= 1000
    /\ \A k \in 1..Len(m.bars) : m.bars[k].generation <= m.generation
    /\ \A k \in 1..Len(m.quotes) : m.quotes[k].generation <= m.generation /\ m.quotes[k].symbol \in m.selection
    /\ m.feed = "opra" => m.bars = << >>
\* The rows of its generation came on the connection c.
OnThis(m, c) ==
    /\ \A k \in 1..Len(m.bars) : m.bars[k].generation = m.generation => m.bars[k].on = c
    /\ \A k \in 1..Len(m.quotes) : m.quotes[k].generation = m.generation => m.quotes[k].on = c
SameSession(m, n) ==
    /\ n.feed = m.feed /\ n.selection = m.selection /\ n.generation = m.generation
    /\ n.connected = m.connected /\ n.authenticated = m.authenticated /\ n.subscribed = m.subscribed
NoneOlder(m, n) ==
    \A i \in 1..Len(m.quotes), k \in 1..Len(n.quotes) :
        m.quotes[i].symbol = n.quotes[k].symbol => m.quotes[i].stamp <= n.quotes[k].stamp

\* Nothing older than itself replaces a row.
LEMMA AdmitKeeps ==
  ASSUME NEW m, IsMemory(m), NEW row, row.channel \in {"bars", "quotes"}, row.symbol \in StreamSymbols, row.stamp \in Int,
         NEW until, NEW on \in Nat
  PROVE  LET n == Admit(m, row, until, on)
         IN  IsMemory(n) /\ SameSession(m, n) /\ NoneOlder(m, n) /\ (OnThis(m, on) => OnThis(n, on))
<1> DEFINE n == Admit(m, row, until, on)
           e == [symbol |-> row.symbol, stamp |-> row.stamp, generation |-> m.generation, on |-> on]
<1>1. /\ m \in StreamMemories /\ m.bars \in Seq(StreamRecord) /\ m.quotes \in Seq(StreamRecord) /\ m.generation \in Nat
      /\ OneEach(m.bars) /\ OneEach(m.quotes) /\ MaxBars \in Nat \ {0} /\ Len(m.bars) <= MaxBars /\ Len(m.quotes) <= 1000
  BY StreamAssumption DEF IsMemory, StreamMemories
<1>2. /\ e \in StreamRecord /\ e.symbol = row.symbol /\ e.stamp = row.stamp /\ e.generation = m.generation /\ e.on = on
  BY <1>1 DEF StreamRecord
<1>3. CASE ~(Admissible(m, row, until) /\ InOrder(m[row.channel], row))
  <2>1. n = m
    BY <1>3 DEF Admit
  <2>2. NoneOlder(m, m)
    <3> SUFFICES ASSUME NEW i \in 1..Len(m.quotes), NEW k \in 1..Len(m.quotes), m.quotes[i].symbol = m.quotes[k].symbol
                 PROVE  m.quotes[i].stamp <= m.quotes[k].stamp
      BY DEF NoneOlder
    <3>1. i = k /\ m.quotes[i] \in StreamRecord
      BY <1>1 DEF OneEach
    <3>2. m.quotes[i].stamp \in Int
      BY <3>1 DEF StreamRecord
    <3>3. QED BY <3>1, <3>2
  <2>3. SameSession(m, m)
    BY DEF SameSession
  <2>4. QED BY <2>1, <2>2, <2>3 DEF n
<1>4. CASE Admissible(m, row, until) /\ InOrder(m[row.channel], row) /\ row.channel = "bars"
  <2> DEFINE p == PutRow(m.bars, e, MaxBars)
  <2>1. /\ p \in Seq(StreamRecord) /\ Len(p) <= MaxBars /\ OneEach(p)
        /\ \A k \in 1..Len(p) : p[k] = e \/ (p[k].symbol # e.symbol /\ \E i \in 1..Len(m.bars) : p[k] = m.bars[i])
    <3>1. PICK c : c = MaxBars
      OBVIOUS
    <3>2. c \in Nat \ {0} /\ Len(m.bars) <= c
      BY <1>1, <3>1
    <3> HIDE DEF e
    <3>3. QED BY <1>1, <1>2, <3>1, <3>2, PutRowIs
  <2>2. n = [m EXCEPT !.bars = p]
    BY <1>4 DEF Admit, Cap
  <2> HIDE DEF p, e, n
  <2>3. /\ n \in StreamMemories /\ n.bars = p /\ n.quotes = m.quotes /\ n.error = m.error /\ SameSession(m, n)
    BY <1>1, <2>1, <2>2 DEF StreamMemories, SameSession
  <2>4. m.feed = "sip"
    BY <1>4 DEF Admissible
  <2>5. \A k \in 1..Len(p) : p[k].generation <= n.generation
    BY <1>1, <1>2, <2>1, <2>3 DEF IsMemory, SameSession
  <2>6. IsMemory(n)
    BY <1>1, <2>1, <2>3, <2>4, <2>5 DEF IsMemory, SameSession
  <2>7. NoneOlder(m, n)
    <3> SUFFICES ASSUME NEW i \in 1..Len(m.quotes), NEW k \in 1..Len(m.quotes), m.quotes[i].symbol = m.quotes[k].symbol
                 PROVE  m.quotes[i].stamp <= m.quotes[k].stamp
      BY <2>3 DEF NoneOlder
    <3>1. i = k /\ m.quotes[i] \in StreamRecord
      BY <1>1 DEF OneEach
    <3>2. m.quotes[i].stamp \in Int
      BY <3>1 DEF StreamRecord
    <3>3. QED BY <3>1, <3>2
  <2>8. ASSUME OnThis(m, on) PROVE OnThis(n, on)
    BY <1>2, <2>1, <2>3, <2>8 DEF OnThis, SameSession
  <2>9. QED BY <2>3, <2>6, <2>7, <2>8 DEF n
<1>5. CASE Admissible(m, row, until) /\ InOrder(m[row.channel], row) /\ row.channel = "quotes"
  <2> DEFINE p == PutRow(m.quotes, e, 1000)
  <2>1. /\ p \in Seq(StreamRecord) /\ Len(p) <= 1000 /\ OneEach(p)
        /\ \A k \in 1..Len(p) : p[k] = e \/ (p[k].symbol # e.symbol /\ \E i \in 1..Len(m.quotes) : p[k] = m.quotes[i])
    BY <1>1, <1>2, PutRowIs
  <2>2. n = [m EXCEPT !.quotes = p]
    BY <1>5 DEF Admit, Cap
  <2>3. row.symbol \in m.selection /\ \A r \in Range(m.quotes) : r.symbol = row.symbol => r.stamp <= row.stamp
    BY <1>5 DEF Admissible, InOrder
  <2> HIDE DEF p, e, n
  <2>4. /\ n \in StreamMemories /\ n.quotes = p /\ n.bars = m.bars /\ n.error = m.error /\ SameSession(m, n)
    BY <1>1, <2>1, <2>2 DEF StreamMemories, SameSession
  <2>5. \A k \in 1..Len(p) : p[k].generation <= n.generation /\ p[k].symbol \in n.selection
    <3> SUFFICES ASSUME NEW k \in 1..Len(p) PROVE p[k].generation <= m.generation /\ p[k].symbol \in m.selection
      BY <2>4 DEF SameSession
    <3>1. CASE p[k] = e
      BY <1>1, <1>2, <2>3, <3>1
    <3>2. CASE \E i \in 1..Len(m.quotes) : p[k] = m.quotes[i]
      BY <3>2 DEF IsMemory
    <3>3. QED BY <2>1, <3>1, <3>2
  <2>6. IsMemory(n)
    BY <1>1, <2>1, <2>4, <2>5 DEF IsMemory, SameSession
  <2>7. NoneOlder(m, n)
    <3> SUFFICES ASSUME NEW i \in 1..Len(m.quotes), NEW k \in 1..Len(p), m.quotes[i].symbol = p[k].symbol
                 PROVE  m.quotes[i].stamp <= p[k].stamp
      BY <2>4 DEF NoneOlder
    <3>1. m.quotes[i] \in Range(m.quotes)
      BY <1>1 DEF Range
    <3>2. CASE p[k] = e
      BY <1>2, <2>3, <3>1, <3>2
    <3>3. CASE \E j \in 1..Len(m.quotes) : p[k] = m.quotes[j]
      <4>1. PICK j \in 1..Len(m.quotes) : p[k] = m.quotes[j]
        BY <3>3
      <4>2. j = i /\ m.quotes[i] \in StreamRecord
        BY <1>1, <4>1 DEF OneEach
      <4>3. m.quotes[i].stamp \in Int
        BY <4>2 DEF StreamRecord
      <4>4. QED BY <4>1, <4>2, <4>3
    <3>4. QED BY <2>1, <3>2, <3>3
  <2>8. ASSUME OnThis(m, on) PROVE OnThis(n, on)
    BY <1>2, <2>1, <2>4, <2>8 DEF OnThis, SameSession
  <2>9. QED BY <2>4, <2>6, <2>7, <2>8 DEF n
<1>6. QED BY <1>3, <1>4, <1>5

\* The rows kept are rows of the store, of the symbols asked for.
LEMMA OnlyOfIs ==
  ASSUME NEW R, NEW store \in Seq(R), OneEach(store), NEW symbols
  PROVE  LET o == OnlyOf(store, symbols)
         IN  /\ o \in Seq(R) /\ Len(o) <= Len(store) /\ OneEach(o)
             /\ \A k \in 1..Len(o) : o[k].symbol \in symbols /\ \E i \in 1..Len(store) : o[k] = store[i]
<1>a. PICK N \in Nat : N = Len(store)
  OBVIOUS
<1> DEFINE kept[i \in 0..N] ==
             IF i = 0 THEN << >>
             ELSE IF store[i].symbol \in symbols THEN Append(kept[i - 1], store[i]) ELSE kept[i - 1]
           move == [p \in Seq(R) \X (1..N) |-> IF store[p[2]].symbol \in symbols THEN Append(p[1], store[p[2]]) ELSE p[1]]
           Solves(f) == f = [i \in 0..N |-> IF i = 0 THEN << >>
                                            ELSE IF store[i].symbol \in symbols THEN Append(f[i - 1], store[i]) ELSE f[i - 1]]
<1>1. N \in Nat /\ \A i \in 1..N : store[i] \in R
  BY <1>a
<1>2. \E f : Solves(f)
  <2>1. ASSUME NEW x \in Seq(R), NEW i \in 1..N PROVE move[<<x, i>>] \in Seq(R)
    BY <1>1
  <2>2. move \in Moves(Seq(R), N) /\ << >> \in Seq(R)
    <3>1. move \in [Seq(R) \X (1..N) -> Seq(R)]
      BY <2>1
    <3> HIDE DEF move
    <3>2. QED BY <3>1 DEF Moves
  <2>4. PICK r : IsWalk(r, N, Seq(R), << >>, move)
    <3> HIDE DEF move
    <3>1. QED BY <1>1, <2>2, WalkExists
  <2>a. r \in [0..N -> Seq(R)] /\ r[0] = << >> /\ \A i \in 1..N : r[i] = move[<<r[i - 1], i>>]
    <3> HIDE DEF move
    <3>1. QED BY <2>4 DEF IsWalk
  <2>5. ASSUME NEW i \in 0..N
        PROVE  r[i] = IF i = 0 THEN << >> ELSE IF store[i].symbol \in symbols THEN Append(r[i - 1], store[i]) ELSE r[i - 1]
    <3>1. CASE i = 0
      BY <2>a, <3>1
    <3>2. CASE i # 0
      <4>1. r[i - 1] \in Seq(R) /\ i \in 1..N
        BY <1>1, <2>a, <3>2
      <4>2. r[i] = move[<<r[i - 1], i>>]
        <5> HIDE DEF move
        <5>1. QED BY <2>a, <4>1
      <4>3. QED BY <3>2, <4>1, <4>2
    <3>3. QED BY <3>1, <3>2
  <2>6. r = [i \in 0..N |-> r[i]]
    BY <2>a
  <2> HIDE DEF move
  <2>7. Solves(r)
    BY <2>5, <2>6
  <2>8. QED BY <2>7
<1>3. Solves(kept)
  BY <1>2
<1>4. OnlyOf(store, symbols) = kept[N]
  BY <1>a DEF OnlyOf
<1> HIDE DEF kept, move
<1>5. kept[0] = << >>
  BY <1>1, <1>3
<1>6. ASSUME NEW i \in 1..N
      PROVE  kept[i] = IF store[i].symbol \in symbols THEN Append(kept[i - 1], store[i]) ELSE kept[i - 1]
  <2>1. i \in 0..N /\ i # 0
    OBVIOUS
  <2>2. kept[i] = IF i = 0 THEN << >>
                  ELSE IF store[i].symbol \in symbols THEN Append(kept[i - 1], store[i]) ELSE kept[i - 1]
    BY <1>3, <2>1
  <2>3. QED BY <2>1, <2>2
<1> HIDE DEF Solves
<1> DEFINE Good(n) == /\ kept[n] \in Seq(R) /\ Len(kept[n]) <= n /\ OneEach(kept[n])
                      /\ \A k \in 1..Len(kept[n]) : kept[n][k].symbol \in symbols /\ \E i \in 1..n : kept[n][k] = store[i]
           T == {n \in Nat : n <= N => Good(n)}
<1>7. 0 \in T
  <2>1. Len(kept[0]) = 0 /\ kept[0] \in Seq(R)
    BY <1>5
  <2>2. QED BY <2>1 DEF OneEach
<1>8. ASSUME NEW n \in Nat, n \in T PROVE n + 1 \in T
  <2> SUFFICES ASSUME n + 1 <= N PROVE Good(n + 1)
    OBVIOUS
  <2>1. Good(n) /\ n + 1 \in 1..N /\ (n + 1) - 1 = n
    BY <1>1, <1>8
  <2>2. CASE store[n + 1].symbol \notin symbols
    BY <1>6, <2>1, <2>2
  <2>3. CASE store[n + 1].symbol \in symbols
    <3> DEFINE x == kept[n]
               y == kept[n + 1]
    <3>1. y = Append(x, store[n + 1])
      BY <1>6, <2>1, <2>3
    <3>2. x \in Seq(R) /\ store[n + 1] \in R /\ Len(x) \in Nat
      BY <1>1, <2>1
    <3>3. /\ y \in Seq(R) /\ Len(y) = Len(x) + 1 /\ y[Len(x) + 1] = store[n + 1]
          /\ \A k \in 1..Len(x) : y[k] = x[k]
      <4> HIDE DEF x, y
      <4>1. QED BY <3>1, <3>2, AppendProperties
    <3>4. ASSUME NEW k \in 1..Len(y)
          PROVE  \/ k = Len(x) + 1 /\ y[k] = store[n + 1]
                 \/ k \in 1..Len(x) /\ y[k] = x[k] /\ x[k].symbol \in symbols /\ \E i \in 1..n : y[k] = store[i]
      <4>1. CASE k = Len(x) + 1
        BY <3>3, <4>1
      <4>2. CASE k # Len(x) + 1
        <5>1. k \in 1..Len(x)
          <6> HIDE DEF x, y
          <6>1. QED BY <3>2, <3>3, <4>2
        <5>2. QED BY <2>1, <3>3, <5>1
      <4>3. QED BY <4>1, <4>2
    <3>5. ASSUME NEW k \in 1..Len(x), y[k].symbol = store[n + 1].symbol PROVE FALSE
      <4>1. PICK i \in 1..n : x[k] = store[i]
        BY <2>1
      <4>2. i \in 1..N /\ i # n + 1 /\ store[i].symbol = store[n + 1].symbol
        <5>1. i \in 1..N /\ i # n + 1
          BY <1>1, <2>1
        <5>2. y[k] = x[k]
          <6> HIDE DEF x, y
          <6>1. QED BY <3>3
        <5> HIDE DEF x, y
        <5>3. QED BY <3>5, <4>1, <5>1, <5>2
      <4>3. QED BY <2>1, <4>2, <1>a DEF OneEach
    <3>6. OneEach(y)
      <4> SUFFICES ASSUME NEW i \in 1..Len(y), NEW j \in 1..Len(y), y[i].symbol = y[j].symbol PROVE i = j
        BY DEF OneEach
      <4>1. OneEach(x)
        BY <2>1
      <4>2. \/ i = Len(x) + 1 /\ y[i] = store[n + 1]
            \/ i \in 1..Len(x) /\ y[i] = x[i]
        BY <3>4
      <4>3. \/ j = Len(x) + 1 /\ y[j] = store[n + 1]
            \/ j \in 1..Len(x) /\ y[j] = x[j]
        BY <3>4
      <4> HIDE DEF x, y
      <4>4. QED BY <3>5, <4>1, <4>2, <4>3 DEF OneEach
    <3>7. ASSUME NEW k \in 1..Len(y) PROVE y[k].symbol \in symbols /\ \E i \in 1..(n + 1) : y[k] = store[i]
      <4>1. n + 1 \in 1..(n + 1) /\ \A i \in 1..n : i \in 1..(n + 1)
        OBVIOUS
      <4> HIDE DEF x, y
      <4>2. QED BY <2>3, <3>4, <4>1
    <3>8. Len(y) <= n + 1
      <4>1. Len(x) <= n
        BY <2>1
      <4> HIDE DEF x, y
      <4>2. QED BY <3>2, <3>3, <4>1
    <3>9. QED BY <3>3, <3>6, <3>7, <3>8
  <2>4. QED BY <2>2, <2>3
<1> HIDE DEF T
<1>9. N \in T
  BY <1>1, <1>7, <1>8, SetInduction
<1>10. Good(N)
  BY <1>1, <1>9 DEF T
<1>11. QED BY <1>a, <1>4, <1>10

\* Saved rows are taken in as rows of generation 0, so none is of a connection
\* that will be made.
FreshnessLabels == {"fresh", "stale", "retained_previous_session"}
Published == [symbol : StreamSymbols, stamp : Int, on : Nat, state : FreshnessLabels]
SameHead(m, n) == n.feed = m.feed /\ n.selection = m.selection /\ n.generation = m.generation /\ n.connected = m.connected

LEMMA RestoreRowsKeeps ==
  ASSUME NEW m, IsMemory(m), NEW channel \in {"bars", "quotes"}, NEW file \in Seq(Published)
  PROVE  LET n == RestoreRows(m, channel, file)
         IN  IsMemory(n) /\ SameHead(m, n) /\ ~n.authenticated /\ ~n.subscribed
<1>1. PICK limit : limit = IF channel = "bars" THEN MaxBars ELSE Cardinality(m.selection)
  OBVIOUS
<1>2. limit \in Nat
  BY StreamAssumption, FS_CardinalityType, <1>1 DEF IsMemory, StreamMemories
<1>3. PICK kept : kept = SubSeq(file, Max({1, Len(file) - limit + 1}), Len(file))
  OBVIOUS
<1>4. kept \in Seq(Published)
  <2>1. PICK low \in Int : low = Len(file) - limit + 1
    <3>1. Len(file) \in Nat
      OBVIOUS
    <3>2. Len(file) - limit + 1 \in Int
      BY <1>2, <3>1
    <3>3. QED BY <3>2
  <2>2. PICK from : from = Max({1, low})
    OBVIOUS
  <2>3. from \in Nat /\ from >= 1
    BY <2>1, <2>2, MaxOfTwo
  <2>4. \A i \in from..Len(file) : file[i] \in Published
    BY <2>3
  <2>5. SubSeq(file, from, Len(file)) \in Seq(Published)
    BY <2>3, <2>4, SubSeqProperties
  <2>6. QED BY <1>3, <2>1, <2>2, <2>5
<1>5. PICK N \in Nat : N = Len(kept)
  BY <1>4
<1> DEFINE walked[i \in 0..N] ==
             IF i = 0 THEN [m EXCEPT !.authenticated = TRUE, !.subscribed = TRUE]
             ELSE Admit(walked[i - 1], [channel |-> channel, symbol |-> kept[i].symbol, stamp |-> kept[i].stamp, sound |-> TRUE],
                        MaxMinute + 1, kept[i].on)
           base == [m EXCEPT !.authenticated = TRUE, !.subscribed = TRUE]
           RowAt(i) == [channel |-> channel, symbol |-> kept[i].symbol, stamp |-> kept[i].stamp, sound |-> TRUE]
           S == {n \in StreamMemories : IsMemory(n) /\ SameHead(m, n)}
           move == [p \in S \X (1..N) |-> Admit(p[1], RowAt(p[2]), MaxMinute + 1, kept[p[2]].on)]
           Solves(f) == f = [i \in 0..N |-> IF i = 0 THEN base ELSE Admit(f[i - 1], RowAt(i), MaxMinute + 1, kept[i].on)]
<1>6. base \in S
  BY DEF IsMemory, StreamMemories, SameHead
<1>7. ASSUME NEW x \in S, NEW i \in 1..N PROVE Admit(x, RowAt(i), MaxMinute + 1, kept[i].on) \in S
  <2>1. kept[i] \in Published
    BY <1>4, <1>5
  <2>2. /\ RowAt(i).channel \in {"bars", "quotes"} /\ RowAt(i).symbol \in StreamSymbols /\ RowAt(i).stamp \in Int
        /\ kept[i].on \in Nat
    BY <2>1 DEF Published
  <2>3. PICK row : row = RowAt(i)
    OBVIOUS
  <2>4. PICK until : until = MaxMinute + 1
    OBVIOUS
  <2>5. PICK y : y = Admit(x, row, until, kept[i].on)
    OBVIOUS
  <2>6. IsMemory(y) /\ SameSession(x, y)
    <3> HIDE DEF RowAt
    <3>1. IsMemory(x)
      OBVIOUS
    <3>2. QED BY <2>2, <2>3, <2>5, <3>1, AdmitKeeps
  <2>7. y \in S
    BY <2>6 DEF SameHead, SameSession, IsMemory
  <2>8. QED BY <2>3, <2>4, <2>5, <2>7
<1>8. \E f : Solves(f)
  <2>1. move \in [S \X (1..N) -> S]
    <3>1. \A p \in S \X (1..N) : p[1] \in S /\ p[2] \in 1..N
      OBVIOUS
    <3> HIDE DEF S, RowAt
    <3>2. QED BY <1>7, <3>1
  <2>2. move \in Moves(S, N)
    <3> HIDE DEF move, S
    <3>1. QED BY <2>1 DEF Moves
  <2>3. PICK r : IsWalk(r, N, S, base, move)
    <3> HIDE DEF move, S, base
    <3>1. QED BY <1>6, <2>2, WalkExists
  <2>4. r \in [0..N -> S] /\ r[0] = base /\ \A i \in 1..N : r[i] = move[<<r[i - 1], i>>]
    <3> HIDE DEF move, S, base
    <3>1. QED BY <2>3 DEF IsWalk
  <2>5. ASSUME NEW i \in 0..N
        PROVE  r[i] = IF i = 0 THEN base ELSE Admit(r[i - 1], RowAt(i), MaxMinute + 1, kept[i].on)
    <3> HIDE DEF S, base, RowAt
    <3>1. CASE i = 0
      BY <2>4, <3>1
    <3>2. CASE i # 0
      <4>1. r[i - 1] \in S /\ i \in 1..N
        BY <2>4, <3>2
      <4>2. r[i] = move[<<r[i - 1], i>>]
        <5> HIDE DEF move
        <5>1. QED BY <2>4, <4>1
      <4>3. <<r[i - 1], i>> \in S \X (1..N)
        BY <4>1
      <4>4. QED BY <3>2, <4>2, <4>3
    <3>3. QED BY <3>1, <3>2
  <2>6. r = [i \in 0..N |-> r[i]]
    BY <2>4
  <2> HIDE DEF move, S, base, RowAt
  <2>7. Solves(r)
    BY <2>5, <2>6
  <2>8. QED BY <2>7
<1>9. Solves(walked)
  BY <1>8
<1>10. RestoreRows(m, channel, file) = [walked[N] EXCEPT !.authenticated = FALSE, !.subscribed = FALSE]
  BY <1>1, <1>3, <1>5 DEF RestoreRows
<1> HIDE DEF walked, move, S, base, RowAt
<1>11. walked[0] = base /\ \A i \in 1..N : walked[i] = Admit(walked[i - 1], RowAt(i), MaxMinute + 1, kept[i].on)
  BY <1>9
<1> HIDE DEF Solves
<1> DEFINE T == {n \in Nat : n <= N => walked[n] \in S}
<1>12. 0 \in T
  BY <1>6, <1>11
<1>13. ASSUME NEW n \in Nat, n \in T PROVE n + 1 \in T
  <2> SUFFICES ASSUME n + 1 <= N PROVE walked[n + 1] \in S
    OBVIOUS
  <2>1. walked[n] \in S /\ n + 1 \in 1..N /\ (n + 1) - 1 = n
    BY <1>13
  <2>2. walked[n + 1] = Admit(walked[n], RowAt(n + 1), MaxMinute + 1, kept[n + 1].on)
    BY <1>11, <2>1
  <2>3. QED BY <1>7, <2>1, <2>2
<1> HIDE DEF T
<1>14. N \in T
  BY <1>12, <1>13, SetInduction
<1>15. PICK x \in S : x = walked[N]
  BY <1>14 DEF T
<1>16. PICK n : n = [x EXCEPT !.authenticated = FALSE, !.subscribed = FALSE]
  OBVIOUS
<1>17. IsMemory(n) /\ SameHead(m, n) /\ ~n.authenticated /\ ~n.subscribed
  <2>1. x \in StreamMemories /\ IsMemory(x) /\ SameHead(m, x)
    BY <1>15 DEF S
  <2>2. /\ n \in StreamMemories /\ n.bars = x.bars /\ n.quotes = x.quotes /\ n.generation = x.generation
        /\ n.selection = x.selection /\ n.feed = x.feed /\ n.connected = x.connected
        /\ ~n.authenticated /\ ~n.subscribed
    BY <1>16, <2>1 DEF StreamMemories
  <2>3. QED BY <2>1, <2>2 DEF IsMemory, SameHead
<1>18. QED BY <1>10, <1>15, <1>16, <1>17

\* What a publication says is fresh was received on the connection it names.
FilesOfStream ==
    [feed : {"sip", "opra"}, bars : Seq(Published), quotes : Seq(Published), at : Nat, during : Nat, live : BOOLEAN]
LiveRows(store, f, channel) ==
    \A k \in 1..Len(store) :
        store[k].state = "fresh" => f.live /\ store[k].on = f.during /\ f.at - store[k].stamp \in 0..FreshFor(channel)
LatestInv(file, until) ==
    \/ file = << >>
    \/ \E f \in FilesOfStream : /\ file = <<f>> /\ f.at <= until
                                /\ LiveRows(f.bars, f, "bars") /\ LiveRows(f.quotes, f, "quotes")
StatusInv(file, observations, until) ==
    \/ file = << >>
    \/ \E s : /\ file = <<s>> /\ s.at \in Nat /\ s.at <= until
              /\ s.status = "streaming" => observations # << >> /\ observations[1].at >= s.at
StreamInv ==
    /\ service \in {"down", "trying", "session", "waiting"} /\ sentRequests \in 0..1 /\ backoff \in 1..BackoffCap
    /\ minute \in Nat /\ connection \in Nat /\ began \in Nat /\ began <= minute
    /\ IsMemory(memory)
    /\ memory.connected \/ memory.authenticated \/ memory.subscribed => service = "session"
    /\ memory.authenticated => sentRequests = 1
    /\ memory.subscribed => memory.authenticated
    /\ service = "session" => OnThis(memory, connection)
    /\ service = "session" /\ ~memory.subscribed => minute = began
    /\ \/ newcomer = << >>
       \/ \E m : /\ newcomer = <<m>> /\ IsMemory(m) /\ ~m.connected /\ ~m.authenticated /\ ~m.subscribed
    /\ LatestInv(latest, minute)
    /\ StatusInv(status, latest, minute)

LEMMA StreamSteps ==
  ASSUME [ServicesNext]_servicesVars
  PROVE  /\ Examined("stream")' => Examined("stream") /\ [StreamNext]_streamVars
         /\ \/ UNCHANGED streamVars
            \/ Examined("stream") /\ StreamNext
<1>1. CASE ServicesNext
  <2>1. CASE focus' = "stream"
    BY <1>1, <2>1 DEF ServicesNext, Steps, Examined, Components, streamVars
  <2>2. CASE focus' # "stream"
    BY <1>1, <2>2 DEF ServicesNext, Steps, Examined, Components, streamVars
  <2>3. QED BY <2>1, <2>2
<1>2. CASE UNCHANGED servicesVars
  BY <1>2 DEF servicesVars, Examined, streamVars
<1>3. QED BY <1>1, <1>2

LEMMA FreshMemory ==
  /\ IsMemory(Fresh0) /\ ~Fresh0.connected /\ ~Fresh0.authenticated /\ ~Fresh0.subscribed
  /\ Fresh0.feed = "sip" /\ Fresh0.bars = << >> /\ Fresh0.quotes = << >>
BY StreamAssumption DEF Fresh0, StreamMemories, StreamErrors, IsMemory, OneEach

LEMMA StreamBegins == StreamInit => StreamInv
<1> SUFFICES ASSUME StreamInit PROVE StreamInv
  OBVIOUS
<1>1. 1 \in 1..BackoffCap
  BY StreamAssumption
<1>2. memory = Fresh0
  BY DEF StreamInit
<1>3. IsMemory(memory) /\ ~memory.connected /\ ~memory.authenticated /\ ~memory.subscribed
  BY <1>2, FreshMemory
<1>4. LatestInv(latest, minute) /\ StatusInv(status, latest, minute)
  BY DEF StreamInit, LatestInv, StatusInv
<1>5. QED BY <1>1, <1>3, <1>4 DEF StreamInit, StreamInv

\* A publication labels the rows in memory.
LEMMA LabelledRows ==
  ASSUME NEW m, IsMemory(m), minute \in Nat, connection \in Nat, NEW channel \in {"bars", "quotes"},
         m.connected => OnThis(m, connection)
  PROVE  LET rows1 == Labelled(m, channel)
         IN  /\ rows1 \in Seq(Published)
             /\ \A k \in 1..Len(rows1) : rows1[k].state = "fresh" =>
                  m.connected /\ m.subscribed /\ rows1[k].on = connection /\ minute - rows1[k].stamp \in 0..FreshFor(channel)
<1> DEFINE rows1 == Labelled(m, channel)
<1>1. PICK store \in Seq(StreamRecord) : store = m[channel]
  BY DEF IsMemory, StreamMemories
<1>2. rows1 = [i \in 1..Len(store) |-> [symbol |-> store[i].symbol, stamp |-> store[i].stamp, on |-> store[i].on,
                                        state |-> Label(m, channel, store[i])]]
  BY <1>1 DEF Labelled
<1> HIDE DEF rows1
<1>3. ASSUME NEW i \in 1..Len(store) PROVE Label(m, channel, store[i]) \in FreshnessLabels
  BY DEF Label, FreshnessLabels
<1>4. Len(store) \in Nat /\ \A i \in 1..Len(store) : store[i] \in StreamRecord
  BY <1>1
<1>5. \A i \in 1..Len(store) : /\ rows1[i] = [symbol |-> store[i].symbol, stamp |-> store[i].stamp, on |-> store[i].on,
                                             state |-> Label(m, channel, store[i])]
                              /\ rows1[i] \in Published
  BY <1>2, <1>3, <1>4 DEF StreamRecord, Published
<1>6. rows1 \in Seq(Published) /\ Len(rows1) = Len(store)
  BY <1>2, <1>5, <1>4
<1>7. ASSUME NEW k \in 1..Len(rows1), rows1[k].state = "fresh"
      PROVE  m.connected /\ m.subscribed /\ rows1[k].on = connection /\ minute - rows1[k].stamp \in 0..FreshFor(channel)
  <2>1. k \in 1..Len(store)
    BY <1>6
  <2>2. Label(m, channel, store[k]) = "fresh" /\ rows1[k].on = store[k].on /\ rows1[k].stamp = store[k].stamp
    <3>1. PICK lab : lab = Label(m, channel, store[k])
      OBVIOUS
    <3>2. rows1[k] = [symbol |-> store[k].symbol, stamp |-> store[k].stamp, on |-> store[k].on, state |-> lab]
      BY <1>5, <2>1, <3>1
    <3>3. QED BY <1>7, <3>1, <3>2
  <2>3. Current(m, store[k]) /\ minute - store[k].stamp \in 0..FreshFor(channel)
    <3> DEFINE young == minute - store[k].stamp \in 0..FreshFor(channel)
    <3>1. Label(m, channel, store[k]) = IF ~Current(m, store[k]) THEN "retained_previous_session"
                                        ELSE IF young THEN "fresh" ELSE "stale"
      BY DEF Label
    <3> HIDE DEF young
    <3>2. Current(m, store[k]) /\ young
      BY <2>2, <3>1
    <3>3. QED BY <3>2 DEF young
  <2>4. OnThis(m, connection) /\ store[k].generation = m.generation /\ m.connected /\ m.subscribed
    BY <2>3 DEF Current
  <2>5. store[k].on = connection
    BY <1>1, <2>1, <2>4 DEF OnThis
  <2>6. QED BY <2>2, <2>3, <2>4, <2>5
<1>8. QED BY <1>6, <1>7 DEF rows1

LEMMA PublicationIs ==
  ASSUME NEW m, IsMemory(m), minute \in Nat, connection \in Nat, m.connected => OnThis(m, connection)
  PROVE  LatestInv(LatestOf(m), minute) /\ LatestOf(m) # << >> /\ LatestOf(m)[1].at = minute
<1> DEFINE f == [feed |-> m.feed, bars |-> Labelled(m, "bars"), quotes |-> Labelled(m, "quotes"),
                 at |-> minute, during |-> connection, live |-> m.subscribed]
<1>1. PICK b : b = Labelled(m, "bars")
  OBVIOUS
<1>2. PICK q : q = Labelled(m, "quotes")
  OBVIOUS
<1>3. /\ b \in Seq(Published)
      /\ \A k \in 1..Len(b) : b[k].state = "fresh" =>
           m.connected /\ m.subscribed /\ b[k].on = connection /\ minute - b[k].stamp \in 0..FreshFor("bars")
  BY <1>1, LabelledRows
<1>4. /\ q \in Seq(Published)
      /\ \A k \in 1..Len(q) : q[k].state = "fresh" =>
           m.connected /\ m.subscribed /\ q[k].on = connection /\ minute - q[k].stamp \in 0..FreshFor("quotes")
  BY <1>2, LabelledRows
<1>5. m.feed \in {"sip", "opra"} /\ m.subscribed \in BOOLEAN
  BY DEF IsMemory, StreamMemories
<1>6. f = [feed |-> m.feed, bars |-> b, quotes |-> q, at |-> minute, during |-> connection, live |-> m.subscribed]
  BY <1>1, <1>2
<1>7. LatestOf(m) = <<f>>
  BY DEF LatestOf
<1> HIDE DEF f
<1>8. f \in FilesOfStream /\ f.at = minute /\ f.bars = b /\ f.quotes = q /\ f.live = m.subscribed /\ f.during = connection
  BY <1>3, <1>4, <1>5, <1>6 DEF FilesOfStream
<1>9. LiveRows(f.bars, f, "bars") /\ LiveRows(f.quotes, f, "quotes")
  BY <1>3, <1>4, <1>8 DEF LiveRows
<1>10. QED BY <1>7, <1>8, <1>9 DEF LatestInv

\* A file stays what it is while time passes.
LEMMA FilesAge ==
  ASSUME NEW a \in Nat, NEW b \in Nat, a <= b, NEW file, LatestInv(file, a)
  PROVE  LatestInv(file, b)
<1>1. CASE file = << >>
  BY <1>1 DEF LatestInv
<1>2. CASE file # << >>
  <2>1. PICK f \in FilesOfStream : /\ file = <<f>> /\ f.at <= a
                                   /\ LiveRows(f.bars, f, "bars") /\ LiveRows(f.quotes, f, "quotes")
    BY <1>2 DEF LatestInv
  <2>2. f.at \in Nat
    BY DEF FilesOfStream
  <2>3. f.at <= b
    BY <2>1, <2>2
  <2>4. QED BY <2>1, <2>3 DEF LatestInv
<1>3. QED BY <1>1, <1>2

\* What the two files say holds of what a step writes to them.
LEMMA StatusWritten ==
  ASSUME minute \in Nat, NEW s, NEW file, s # "streaming" \/ (file # << >> /\ file[1].at = minute)
  PROVE  StatusInv(StatusFile(s), file, minute)
<1> DEFINE e == [status |-> s, at |-> minute]
<1>1. e.status = s /\ e.at = minute /\ StatusFile(s) = <<e>>
  BY DEF StatusFile
<1> HIDE DEF e
<1>2. QED BY <1>1 DEF StatusInv

LEMMA StatusOutlives ==
  ASSUME minute \in Nat, NEW a \in Nat, a <= minute, NEW f, NEW g, NEW file, StatusInv(file, f, a),
         g = f \/ (g # << >> /\ g[1].at = minute)
  PROVE  StatusInv(file, g, minute)
<1>1. CASE file = << >>
  BY <1>1 DEF StatusInv
<1>2. CASE file # << >>
  <2>1. PICK s : /\ file = <<s>> /\ s.at \in Nat /\ s.at <= a
                 /\ s.status = "streaming" => f # << >> /\ f[1].at >= s.at
    BY <1>2 DEF StatusInv
  <2>2. s.at <= minute
    BY <2>1
  <2>3. QED BY <2>1, <2>2 DEF StatusInv
<1>3. QED BY <1>1, <1>2

LEMMA FlagsKeep ==
  ASSUME NEW m, IsMemory(m), NEW n \in StreamMemories,
         n.bars = m.bars, n.quotes = m.quotes, n.feed = m.feed, n.selection = m.selection, n.generation >= m.generation
  PROVE  IsMemory(n)
<1>1. /\ m.bars \in Seq(StreamRecord) /\ m.quotes \in Seq(StreamRecord) /\ m.generation \in Nat /\ n.generation \in Nat
  BY DEF IsMemory, StreamMemories
<1>2. ASSUME NEW k \in 1..Len(m.bars) PROVE m.bars[k].generation <= n.generation
  <2>1. m.bars[k] \in StreamRecord
    BY <1>1
  <2>2. m.bars[k].generation \in Nat /\ m.bars[k].generation <= m.generation
    BY <2>1 DEF StreamRecord, IsMemory
  <2>3. QED BY <1>1, <2>2
<1>3. ASSUME NEW k \in 1..Len(m.quotes) PROVE m.quotes[k].generation <= n.generation /\ m.quotes[k].symbol \in n.selection
  <2>1. m.quotes[k] \in StreamRecord
    BY <1>1
  <2>2. m.quotes[k].generation \in Nat /\ m.quotes[k].generation <= m.generation /\ m.quotes[k].symbol \in m.selection
    BY <2>1 DEF StreamRecord, IsMemory
  <2>3. QED BY <1>1, <2>2
<1>4. QED BY <1>2, <1>3 DEF IsMemory

\* The memory after a failure, of a new connection, and of a process that starts.
LEMMA DisconnectedIs ==
  ASSUME NEW m, IsMemory(m), NEW reason \in StreamErrors
  PROVE  LET n == Disconnected(m, reason)
         IN  IsMemory(n) /\ ~n.connected /\ ~n.authenticated /\ ~n.subscribed /\ n.quotes = m.quotes
<1> DEFINE n == Disconnected(m, reason)
<1>1. m \in StreamMemories
  BY DEF IsMemory
<1>2. /\ n \in StreamMemories /\ n.bars = m.bars /\ n.quotes = m.quotes /\ n.feed = m.feed /\ n.selection = m.selection
      /\ n.generation = m.generation /\ ~n.connected /\ ~n.authenticated /\ ~n.subscribed
  BY <1>1 DEF Disconnected, StreamMemories
<1>3. n.generation >= m.generation
  BY <1>1, <1>2 DEF StreamMemories
<1> HIDE DEF n
<1>4. IsMemory(n)
  BY <1>2, <1>3, FlagsKeep
<1>5. QED BY <1>2, <1>4 DEF n

LEMMA ChosenIs ==
  ASSUME NEW m, IsMemory(m), NEW selection \in Selections \cup {FixedSelection}
  PROVE  LET n == [m EXCEPT !.selection = selection, !.quotes = OnlyOf(m.quotes, selection)]
         IN  IsMemory(n) /\ NoneOlder(m, n) /\ n.generation = m.generation
<1> DEFINE o == OnlyOf(m.quotes, selection)
           n == [m EXCEPT !.selection = selection, !.quotes = o]
<1>1. m \in StreamMemories /\ m.quotes \in Seq(StreamRecord) /\ OneEach(m.quotes) /\ Len(m.quotes) <= 1000
  BY DEF IsMemory, StreamMemories
<1>2. /\ o \in Seq(StreamRecord) /\ Len(o) <= Len(m.quotes) /\ OneEach(o)
      /\ \A k \in 1..Len(o) : o[k].symbol \in selection /\ \E i \in 1..Len(m.quotes) : o[k] = m.quotes[i]
  BY <1>1, OnlyOfIs
<1> HIDE DEF o
<1>3. /\ n \in StreamMemories /\ n.bars = m.bars /\ n.quotes = o /\ n.feed = m.feed /\ n.selection = selection
      /\ n.generation = m.generation
  BY <1>1, <1>2 DEF StreamMemories
<1> HIDE DEF n
<1>4. \A k \in 1..Len(o) : o[k].generation <= m.generation
  BY <1>2 DEF IsMemory
<1>5. Len(o) <= 1000
  BY <1>1, <1>2
<1>6. IsMemory(n)
  BY <1>2, <1>3, <1>4, <1>5 DEF IsMemory
<1>7. NoneOlder(m, n)
  <2> SUFFICES ASSUME NEW i \in 1..Len(m.quotes), NEW k \in 1..Len(o), m.quotes[i].symbol = o[k].symbol
               PROVE  m.quotes[i].stamp <= o[k].stamp
    BY <1>3 DEF NoneOlder
  <2>1. PICK j \in 1..Len(m.quotes) : o[k] = m.quotes[j]
    BY <1>2
  <2>2. i = j /\ m.quotes[i] \in StreamRecord
    BY <1>1, <2>1 DEF OneEach
  <2>3. m.quotes[i].stamp \in Int
    BY <2>2 DEF StreamRecord
  <2>4. QED BY <2>1, <2>2, <2>3
<1>8. QED BY <1>3, <1>6, <1>7 DEF n, o

LEMMA BegunIs ==
  ASSUME NEW m, IsMemory(m), NEW c
  PROVE  LET n == BeginConnection(m)
         IN  IsMemory(n) /\ OnThis(n, c) /\ n.connected /\ ~n.authenticated /\ ~n.subscribed /\ n.quotes = m.quotes
<1> DEFINE n == BeginConnection(m)
<1>1. m \in StreamMemories /\ m.bars \in Seq(StreamRecord) /\ m.quotes \in Seq(StreamRecord) /\ m.generation \in Nat
  BY DEF IsMemory, StreamMemories
<1>2. /\ n \in StreamMemories /\ n.bars = m.bars /\ n.quotes = m.quotes /\ n.feed = m.feed /\ n.selection = m.selection
      /\ n.generation = m.generation + 1 /\ n.connected /\ ~n.authenticated /\ ~n.subscribed
  <2>1. PICK g \in Nat : g = m.generation + 1
    BY <1>1
  <2>2. n = [m EXCEPT !.generation = g, !.connected = TRUE, !.authenticated = FALSE, !.subscribed = FALSE, !.error = "none"]
    BY <2>1 DEF BeginConnection
  <2>3. "none" \in StreamErrors
    BY DEF StreamErrors
  <2> HIDE DEF n
  <2>4. n \in StreamMemories
    BY <1>1, <2>2, <2>3 DEF StreamMemories
  <2>5. /\ n.bars = m.bars /\ n.quotes = m.quotes /\ n.feed = m.feed /\ n.selection = m.selection
        /\ n.generation = g /\ n.connected = TRUE /\ n.authenticated = FALSE /\ n.subscribed = FALSE
    BY <1>1, <2>2 DEF StreamMemories
  <2>6. QED BY <2>1, <2>4, <2>5
<1> HIDE DEF n
<1>3. n.generation >= m.generation
  BY <1>1, <1>2
<1>4. IsMemory(n)
  BY <1>2, <1>3, FlagsKeep
<1>5. ASSUME NEW k \in 1..Len(m.bars) PROVE m.bars[k].generation # n.generation
  BY <1>1, <1>2 DEF IsMemory, StreamRecord
<1>6. ASSUME NEW k \in 1..Len(m.quotes) PROVE m.quotes[k].generation # n.generation
  BY <1>1, <1>2 DEF IsMemory, StreamRecord
<1>7. OnThis(n, c)
  BY <1>2, <1>5, <1>6 DEF OnThis
<1>8. QED BY <1>2, <1>4, <1>7 DEF n

LEMMA RestoreIs ==
  ASSUME NEW m, IsMemory(m), ~m.connected, ~m.authenticated, ~m.subscribed, NEW file, NEW until, LatestInv(file, until)
  PROVE  LET n == Restore(m, file)
         IN  IsMemory(n) /\ ~n.connected /\ ~n.authenticated /\ ~n.subscribed
<1>1. CASE file = << >> \/ file[1].feed # m.feed
  BY <1>1 DEF Restore
<1>2. CASE ~(file = << >> \/ file[1].feed # m.feed)
  <2>1. PICK f \in FilesOfStream : file = <<f>>
    BY <1>2 DEF LatestInv
  <2>2. f.bars \in Seq(Published) /\ f.quotes \in Seq(Published) /\ file[1] = f
    BY <2>1 DEF FilesOfStream
  <2>3. PICK x : x = RestoreRows(m, "bars", f.bars)
    OBVIOUS
  <2>4. IsMemory(x) /\ SameHead(m, x)
    BY <2>2, <2>3, RestoreRowsKeeps
  <2>5. PICK y : y = RestoreRows(x, "quotes", f.quotes)
    OBVIOUS
  <2>6. IsMemory(y) /\ SameHead(x, y) /\ ~y.authenticated /\ ~y.subscribed
    BY <2>2, <2>4, <2>5, RestoreRowsKeeps
  <2>7. ~y.connected
    BY <2>4, <2>6 DEF SameHead
  <2>8. Restore(m, file) = y
    BY <1>2, <2>2, <2>3, <2>5 DEF Restore
  <2>9. QED BY <2>6, <2>7, <2>8
<1>3. QED BY <1>1, <1>2

\* What a step of a running process may not do to a quote, or to its retries.
StreamStep ==
    service # "down" /\ service' # "down" =>
        /\ NoneOlder(memory, memory')
        /\ service # "trying" /\ backoff' < backoff => memory.subscribed

LEMMA SameQuotes ==
  ASSUME NEW m, IsMemory(m), NEW n, n.quotes = m.quotes
  PROVE  NoneOlder(m, n)
<1> SUFFICES ASSUME NEW i \in 1..Len(m.quotes), NEW k \in 1..Len(m.quotes), m.quotes[i].symbol = m.quotes[k].symbol
             PROVE  m.quotes[i].stamp <= m.quotes[k].stamp
  BY DEF NoneOlder
<1>1. m.quotes \in Seq(StreamRecord) /\ OneEach(m.quotes)
  BY DEF IsMemory, StreamMemories
<1>2. i = k /\ m.quotes[i] \in StreamRecord
  BY <1>1 DEF OneEach
<1>3. m.quotes[i].stamp \in Int
  BY <1>2 DEF StreamRecord
<1>4. QED BY <1>2, <1>3

LEMMA Waits ==
  ASSUME NEW a \in Nat \ {0}
  PROVE  /\ Min({BackoffCap, a}) \in 1..BackoffCap
         /\ \A b \in 1..BackoffCap : a >= b => Min({BackoffCap, a}) >= b
<1>1. BackoffCap \in Nat \ {0}
  BY StreamAssumption
<1>2. PICK w : w = Min({BackoffCap, a})
  OBVIOUS
<1>3. w = IF BackoffCap <= a THEN BackoffCap ELSE a
  BY <1>1, <1>2, MinOfTwo
<1>4. QED BY <1>1, <1>2, <1>3

LEMMA FailKeeps ==
  ASSUME StreamInv, service = "session", NEW reason \in StreamErrors, Fail(memory, reason), NothingPublished,
         UNCHANGED <<sentRequests, began, newcomer, minute, connection>>
  PROVE  StreamInv' /\ StreamStep
<1>1. IsMemory(memory') /\ ~memory'.connected /\ ~memory'.authenticated /\ ~memory'.subscribed /\ memory'.quotes = memory.quotes
  BY DisconnectedIs DEF StreamInv, Fail
<1>2. NoneOlder(memory, memory')
  BY <1>1, SameQuotes DEF StreamInv
<1>3. backoff' \in 1..BackoffCap /\ (backoff' < backoff => memory.subscribed)
  <2>1. PICK sustained \in {FALSE, minute > began} : backoff' = Min({BackoffCap, 2 * IF sustained THEN 1 ELSE backoff})
    BY DEF Fail
  <2>2. backoff \in 1..BackoffCap /\ minute \in Nat /\ began \in Nat /\ BackoffCap \in Nat
    BY StreamAssumption DEF StreamInv
  <2>3. CASE sustained
    <3>1. minute > began
      BY <2>1, <2>3
    <3>2. memory.subscribed
      BY <2>2, <3>1 DEF StreamInv
    <3>3. backoff' = Min({BackoffCap, 2})
      BY <2>1, <2>3
    <3>4. QED BY <3>2, <3>3, Waits
  <2>4. CASE ~sustained
    <3>1. PICK a \in Nat \ {0} : a = 2 * backoff /\ a >= backoff
      BY <2>2
    <3>2. backoff' = Min({BackoffCap, a})
      BY <2>1, <2>4, <3>1
    <3>3. backoff' \in 1..BackoffCap /\ backoff' >= backoff
      BY <2>2, <3>1, <3>2, Waits
    <3>4. QED BY <2>2, <3>3
  <2>5. QED BY <2>3, <2>4
<1>4. service' = "waiting"
  BY DEF Fail
<1>5. LatestInv(latest, minute)' /\ StatusInv(status, latest, minute)'
  BY DEF NothingPublished, StreamInv
<1>6. QED BY <1>1, <1>2, <1>3, <1>4, <1>5 DEF StreamInv, StreamStep

LEMMA ExitKeeps ==
  ASSUME StreamInv, Exit, LatestInv(latest', minute), StatusInv(status', latest', minute),
         UNCHANGED <<sentRequests, began, newcomer, minute, connection>>
  PROVE  StreamInv' /\ StreamStep
BY StreamAssumption, FreshMemory DEF Exit, StreamInv, StreamStep

LEMMA StartKeeps ==
  ASSUME StreamInv, NEW feed \in Feeds, NEW selection \in Selections \cup {FixedSelection}, StartService(feed, selection)
  PROVE  StreamInv' /\ StreamStep
<1>1. PICK f : f = [Fresh0 EXCEPT !.feed = feed, !.selection = selection]
  OBVIOUS
<1>2. IsMemory(f) /\ ~f.connected /\ ~f.authenticated /\ ~f.subscribed
  <2>1. Fresh0 \in StreamMemories /\ feed \in {"sip", "opra"}
    BY FreshMemory, StreamAssumption DEF IsMemory
  <2>2. f \in StreamMemories
    BY <1>1, <2>1 DEF StreamMemories
  <2>3. /\ f.bars = << >> /\ f.quotes = << >> /\ ~f.connected /\ ~f.authenticated /\ ~f.subscribed
    BY <1>1, FreshMemory, <2>1 DEF StreamMemories
  <2>4. MaxBars \in Nat /\ Len(<< >>) = 0
    BY StreamAssumption
  <2>5. QED BY <2>2, <2>3, <2>4 DEF IsMemory, OneEach
<1>3. PICK n : n = Restore(f, latest)
  OBVIOUS
<1>4. IsMemory(n) /\ ~n.connected /\ ~n.authenticated /\ ~n.subscribed
  BY <1>2, <1>3, RestoreIs DEF StreamInv
<1>5. newcomer' = <<n>>
  BY <1>1, <1>3 DEF StartService
<1>6. UNCHANGED <<memory, service, sentRequests, backoff, began, latest, status, minute, connection>>
  BY DEF StartService
<1>7. NoneOlder(memory, memory')
  BY <1>6, SameQuotes DEF StreamInv
<1>8. backoff \in Int
  BY DEF StreamInv
<1>9. QED BY <1>4, <1>5, <1>6, <1>7, <1>8 DEF StreamInv, StreamStep

LEMMA LockKeeps ==
  ASSUME StreamInv, TakeLock
  PROVE  StreamInv' /\ StreamStep
<1>1. UNCHANGED <<sentRequests, backoff, began, latest, status, minute, connection>> /\ newcomer' = << >>
  BY DEF TakeLock
<1>2. backoff \in Int
  BY DEF StreamInv
<1>3. CASE service = "down"
  <2>1. PICK m : /\ newcomer = <<m>> /\ IsMemory(m) /\ ~m.connected /\ ~m.authenticated /\ ~m.subscribed
    BY DEF TakeLock, StreamInv
  <2>2. memory' = m /\ service' = "trying"
    BY <1>3, <2>1 DEF TakeLock
  <2>3. QED BY <1>1, <1>3, <2>1, <2>2 DEF StreamInv, StreamStep
<1>4. CASE service # "down"
  BY <1>4, SameQuotes, <1>1, <1>2 DEF TakeLock, StreamInv, StreamStep
<1>5. QED BY <1>3, <1>4

\* A connection that is not confirmed yet publishes no fresh row.
LEMMA QuietPublication ==
  ASSUME NEW m, IsMemory(m), ~m.subscribed, minute \in Nat, connection \in Nat, m.connected => OnThis(m, connection), NEW c \in Nat
  PROVE  LET file == <<[LatestOf(m)[1] EXCEPT !.during = c]>>
         IN  LatestInv(file, minute)
<1>1. PICK b : b = Labelled(m, "bars")
  OBVIOUS
<1>2. PICK q : q = Labelled(m, "quotes")
  OBVIOUS
<1>3. b \in Seq(Published) /\ \A k \in 1..Len(b) : b[k].state # "fresh"
  BY <1>1, LabelledRows
<1>4. q \in Seq(Published) /\ \A k \in 1..Len(q) : q[k].state # "fresh"
  BY <1>2, LabelledRows
<1>5. m.feed \in {"sip", "opra"} /\ m.subscribed \in BOOLEAN
  BY DEF IsMemory, StreamMemories
<1>6. PICK f : f = [feed |-> m.feed, bars |-> b, quotes |-> q, at |-> minute, during |-> connection, live |-> m.subscribed]
  OBVIOUS
<1>7. LatestOf(m)[1] = f
  BY <1>1, <1>2, <1>6 DEF LatestOf
<1>8. PICK g : g = [f EXCEPT !.during = c]
  OBVIOUS
<1>9. g \in FilesOfStream /\ g.at = minute /\ g.bars = b /\ g.quotes = q
  BY <1>3, <1>4, <1>5, <1>6, <1>8 DEF FilesOfStream
<1>10. LiveRows(g.bars, g, "bars") /\ LiveRows(g.quotes, g, "quotes")
  BY <1>3, <1>4, <1>9 DEF LiveRows
<1>11. <<[LatestOf(m)[1] EXCEPT !.during = c]>> = <<g>>
  BY <1>7, <1>8
<1>12. QED BY <1>9, <1>10, <1>11 DEF LatestInv

LEMMA ConnectKeeps ==
  ASSUME StreamInv, NEW selection \in Selections \cup {FixedSelection}, Connect(selection)
  PROVE  StreamInv' /\ StreamStep
<1>1. /\ service = "trying" /\ connection' = connection + 1 /\ sentRequests' = 0 /\ began' = minute /\ service' = "session"
      /\ UNCHANGED <<backoff, newcomer, minute, starts>> /\ status' = StatusFile("authenticating")
  BY DEF Connect
<1>2. IsMemory(memory) /\ minute \in Nat /\ connection \in Nat /\ backoff \in 1..BackoffCap
  BY DEF StreamInv
<1>3. PICK chosen : chosen = [memory EXCEPT !.selection = selection, !.quotes = OnlyOf(memory.quotes, selection)]
  OBVIOUS
<1>4. IsMemory(chosen) /\ NoneOlder(memory, chosen)
  BY <1>2, <1>3, ChosenIs
<1>5. PICK n : n = BeginConnection(chosen)
  OBVIOUS
<1>6. IsMemory(n) /\ n.connected /\ ~n.authenticated /\ ~n.subscribed /\ n.quotes = chosen.quotes
  BY <1>4, <1>5, BegunIs
<1>7. OnThis(n, connection) /\ OnThis(n, connection + 1)
  BY <1>4, <1>5, BegunIs
<1>8. memory' = n /\ latest' = <<[LatestOf(n)[1] EXCEPT !.during = connection + 1]>>
  BY <1>3, <1>5 DEF Connect
<1>9. LatestInv(latest', minute)
  <2>1. PICK c \in Nat : c = connection + 1
    BY <1>2
  <2>2. QED BY <1>2, <1>6, <1>7, <1>8, <2>1, QuietPublication
<1>10. StatusInv(status', latest', minute)
  BY <1>1, <1>2, StatusWritten
<1>11. NoneOlder(memory, memory')
  BY <1>4, <1>6, <1>8 DEF NoneOlder
<1>12. OnThis(memory', connection') /\ IsMemory(memory')
  BY <1>1, <1>6, <1>7, <1>8
<1>13. connection' \in Nat /\ began' = minute /\ minute' = minute /\ sentRequests' \in 0..1
  BY <1>1, <1>2
<1>14. LatestInv(latest, minute)' /\ StatusInv(status, latest, minute)'
  BY <1>9, <1>10, <1>13
<1>15. QED BY <1>1, <1>2, <1>6, <1>8, <1>11, <1>12, <1>13, <1>14 DEF StreamInv, StreamStep

LEMMA ConnectFailsKeeps ==
  ASSUME StreamInv, NEW reason \in {"connection_failed", "option_selection_unavailable_or_stale"}, NEW hangs \in BOOLEAN,
         ConnectFails(reason, hangs)
  PROVE  StreamInv' /\ StreamStep
<1>1. /\ service = "trying" /\ service' = "waiting" /\ began' = minute /\ memory' = Disconnected(memory, reason)
      /\ minute' = (IF hangs THEN minute + 1 ELSE minute)
      /\ latest' = LatestOf(memory) /\ status' = StatusFile("connecting")
      /\ backoff' = Min({BackoffCap, 2 * IF hangs THEN 1 ELSE backoff})
      /\ UNCHANGED <<sentRequests, newcomer, connection>>
  BY DEF ConnectFails, PublishStream
<1>2. IsMemory(memory) /\ minute \in Nat /\ connection \in Nat /\ backoff \in 1..BackoffCap /\ ~memory.connected
  BY <1>1 DEF StreamInv
<1>3. reason \in StreamErrors
  BY DEF StreamErrors
<1>4. IsMemory(memory') /\ ~memory'.connected /\ ~memory'.authenticated /\ ~memory'.subscribed /\ memory'.quotes = memory.quotes
  BY <1>1, <1>2, <1>3, DisconnectedIs
<1>5. NoneOlder(memory, memory')
  BY <1>2, <1>4, SameQuotes
<1>6. backoff' \in 1..BackoffCap
  <2>1. PICK a \in Nat \ {0} : a = 2 * IF hangs THEN 1 ELSE backoff
    BY <1>2, StreamAssumption
  <2>2. backoff' = Min({BackoffCap, a})
    BY <1>1, <2>1
  <2>3. QED BY <2>1, <2>2, Waits
<1>7. minute' \in Nat /\ minute <= minute'
  BY <1>1, <1>2
<1>8. LatestInv(latest', minute) /\ StatusInv(status', latest', minute)
  BY <1>1, <1>2, PublicationIs, StatusWritten
<1>9. LatestInv(latest', minute')
  BY <1>2, <1>7, <1>8, FilesAge
<1>10. StatusInv(status', latest', minute')
  <2>1. status' = <<[status |-> "connecting", at |-> minute]>>
    BY <1>1 DEF StatusFile
  <2>2. QED BY <1>2, <1>7, <2>1 DEF StatusInv
<1>11. LatestInv(latest, minute)' /\ StatusInv(status, latest, minute)'
  BY <1>9, <1>10
<1>12. QED BY <1>1, <1>2, <1>4, <1>5, <1>6, <1>7, <1>11 DEF StreamInv, StreamStep

LEMMA AuthenticatedKeeps ==
  ASSUME StreamInv, Authenticated
  PROVE  StreamInv' /\ StreamStep
<1>1. /\ service = "session" /\ memory' = [memory EXCEPT !.authenticated = TRUE]
      /\ sentRequests' = IF sentRequests = 0 THEN 1 ELSE sentRequests
      /\ UNCHANGED <<service, backoff, began, newcomer, minute, connection, latest, status>>
  BY DEF Authenticated, NothingPublished
<1>2. memory \in StreamMemories /\ IsMemory(memory) /\ sentRequests \in 0..1 /\ backoff \in 1..BackoffCap
  BY DEF StreamInv, IsMemory
<1>3. sentRequests' = 1
  BY <1>1, <1>2
<1>4. /\ memory' \in StreamMemories /\ memory'.bars = memory.bars /\ memory'.quotes = memory.quotes
      /\ memory'.feed = memory.feed /\ memory'.selection = memory.selection /\ memory'.generation = memory.generation
      /\ memory'.connected = memory.connected /\ memory'.subscribed = memory.subscribed /\ memory'.authenticated
  BY <1>1, <1>2 DEF StreamMemories
<1>5. memory.generation \in Nat
  BY <1>2 DEF StreamMemories
<1>6. PICK n : n = memory'
  OBVIOUS
<1>7. IsMemory(n)
  BY <1>2, <1>4, <1>5, <1>6, FlagsKeep
<1>8. OnThis(memory', connection')
  BY <1>1, <1>4 DEF OnThis, StreamInv
<1>9. NoneOlder(memory, memory')
  BY <1>2, <1>4, SameQuotes
<1>10. LatestInv(latest, minute)' /\ StatusInv(status, latest, minute)'
  BY <1>1 DEF StreamInv
<1>11. ~(backoff' < backoff)
  BY <1>1, <1>2
<1>12. QED BY <1>1, <1>2, <1>3, <1>4, <1>6, <1>7, <1>8, <1>9, <1>10, <1>11 DEF StreamInv, StreamStep

LEMMA SubscribedKeeps ==
  ASSUME StreamInv, NEW exact \in BOOLEAN, Subscribed(exact)
  PROVE  StreamInv' /\ StreamStep
<1>1. /\ service = "session"
      /\ UNCHANGED <<sentRequests, began, newcomer, minute, connection, latest, status>>
  BY DEF Subscribed, NothingPublished
<1>2. CASE memory.authenticated /\ exact
  <2>1. memory' = [memory EXCEPT !.subscribed = TRUE] /\ UNCHANGED <<service, backoff>>
    BY <1>2 DEF Subscribed
  <2>2. memory \in StreamMemories /\ IsMemory(memory) /\ backoff \in 1..BackoffCap
    BY DEF StreamInv, IsMemory
  <2>3. /\ memory' \in StreamMemories /\ memory'.bars = memory.bars /\ memory'.quotes = memory.quotes
        /\ memory'.feed = memory.feed /\ memory'.selection = memory.selection /\ memory'.generation = memory.generation
        /\ memory'.connected = memory.connected /\ memory'.authenticated = memory.authenticated /\ memory'.subscribed
    BY <2>1, <2>2 DEF StreamMemories
  <2>4. memory.generation \in Nat
    BY <2>2 DEF StreamMemories
  <2>5. PICK n : n = memory'
    OBVIOUS
  <2>6. IsMemory(n)
    BY <2>2, <2>3, <2>4, <2>5, FlagsKeep
  <2>7. OnThis(memory', connection')
    BY <1>1, <2>3 DEF OnThis, StreamInv
  <2>8. NoneOlder(memory, memory')
    BY <2>2, <2>3, SameQuotes
  <2>9. LatestInv(latest, minute)' /\ StatusInv(status, latest, minute)'
    BY <1>1 DEF StreamInv
  <2>10. ~(backoff' < backoff)
    BY <2>1, <2>2
  <2>11. QED BY <1>1, <1>2, <2>1, <2>2, <2>3, <2>5, <2>6, <2>7, <2>8, <2>9, <2>10 DEF StreamInv, StreamStep
<1>3. CASE ~(memory.authenticated /\ exact)
  BY <1>3, <1>1, FailKeeps DEF Subscribed, StreamErrors
<1>4. QED BY <1>2, <1>3

LEMMA ReceiveKeeps ==
  ASSUME StreamInv, NEW row \in StreamRows, Receive(row)
  PROVE  StreamInv' /\ StreamStep
<1>1. /\ service = "session" /\ memory' = Admit(memory, row, minute, connection)
      /\ UNCHANGED <<service, sentRequests, backoff, began, newcomer, minute, connection, latest, status>>
  BY DEF Receive, NothingPublished
<1>2. IsMemory(memory) /\ OnThis(memory, connection) /\ connection \in Nat /\ backoff \in 1..BackoffCap
  BY <1>1 DEF StreamInv
<1>3. row.channel \in {"bars", "quotes"} /\ row.symbol \in StreamSymbols /\ row.stamp \in Int
  BY StreamAssumption DEF StreamSymbols
<1>4. PICK n : n = Admit(memory, row, minute, connection)
  OBVIOUS
<1>5. IsMemory(n) /\ SameSession(memory, n) /\ NoneOlder(memory, n) /\ OnThis(n, connection)
  BY <1>2, <1>3, <1>4, AdmitKeeps
<1>6. memory' = n
  BY <1>1, <1>4
<1>7. LatestInv(latest, minute)' /\ StatusInv(status, latest, minute)'
  BY <1>1 DEF StreamInv
<1>8. ~(backoff' < backoff)
  BY <1>1, <1>2
<1>9. QED BY <1>1, <1>2, <1>5, <1>6, <1>7, <1>8 DEF StreamInv, StreamStep, SameSession

LEMMA SessionFailsKeeps ==
  ASSUME StreamInv, NEW reason \in {"provider_error", "authentication_or_subscription_timeout", "option_selection_changed"},
         SessionFails(reason)
  PROVE  StreamInv' /\ StreamStep
BY FailKeeps DEF StreamErrors, SessionFails

\* A step that leaves the process as it is, whatever it writes.
LEMMA FilesKeep ==
  ASSUME StreamInv, UNCHANGED <<memory, sentRequests, backoff, began, newcomer, minute, connection>>,
         \/ service' = service
         \/ service = "waiting" /\ service' = "trying",
         LatestInv(latest', minute), StatusInv(status', latest', minute)
  PROVE  StreamInv' /\ StreamStep
BY SameQuotes DEF StreamInv, StreamStep

LEMMA FlushKeeps ==
  ASSUME StreamInv, FlushStream
  PROVE  StreamInv' /\ StreamStep
<1>1. PICK s : s = StatusOf(memory)
  OBVIOUS
<1>2. latest' = LatestOf(memory) /\ status' = StatusFile(s)
      /\ UNCHANGED <<memory, service, sentRequests, backoff, began, newcomer, minute, connection>>
  BY <1>1 DEF FlushStream, PublishStream
<1>3. IsMemory(memory) /\ minute \in Nat /\ connection \in Nat /\ (memory.connected => OnThis(memory, connection))
  BY DEF StreamInv
<1>4. LatestInv(latest', minute) /\ latest' # << >> /\ latest'[1].at = minute
  BY <1>2, <1>3, PublicationIs
<1>5. StatusInv(status', latest', minute)
  BY <1>2, <1>3, <1>4, StatusWritten
<1>6. QED BY <1>2, <1>4, <1>5, FilesKeep

LEMMA ShutdownKeeps ==
  ASSUME StreamInv, Shutdown
  PROVE  StreamInv' /\ StreamStep
<1>1. PICK m : m = [memory EXCEPT !.connected = FALSE, !.authenticated = FALSE, !.subscribed = FALSE]
  OBVIOUS
<1>2. memory \in StreamMemories /\ IsMemory(memory) /\ minute \in Nat /\ connection \in Nat
  BY DEF StreamInv, IsMemory
<1>3. /\ m \in StreamMemories /\ m.bars = memory.bars /\ m.quotes = memory.quotes /\ m.feed = memory.feed
      /\ m.selection = memory.selection /\ m.generation = memory.generation /\ ~m.connected
  BY <1>1, <1>2 DEF StreamMemories
<1>4. memory.generation \in Nat
  BY <1>2 DEF StreamMemories
<1>5. IsMemory(m)
  BY <1>2, <1>3, <1>4, FlagsKeep
<1>6. /\ Exit /\ latest' = LatestOf(m) /\ status' = StatusFile("shutdown")
      /\ UNCHANGED <<sentRequests, began, newcomer, minute, connection>>
  BY <1>1 DEF Shutdown, PublishStream
<1>7. LatestInv(latest', minute)
  BY <1>2, <1>3, <1>5, <1>6, PublicationIs
<1>8. StatusInv(status', latest', minute)
  BY <1>2, <1>6, StatusWritten
<1>9. QED BY <1>6, <1>7, <1>8, ExitKeeps

LEMMA HeadroomKeeps ==
  ASSUME StreamInv, Headroom
  PROVE  StreamInv' /\ StreamStep
BY StatusWritten, ExitKeeps DEF Headroom, DiskFull, StreamInv

LEMMA KillKeeps ==
  ASSUME StreamInv, NEW published \in BOOLEAN, Kill(published)
  PROVE  StreamInv' /\ StreamStep
<1>1. Exit /\ status' = status /\ UNCHANGED <<sentRequests, began, newcomer, minute, connection>>
  BY DEF Kill
<1>2. IsMemory(memory) /\ minute \in Nat /\ connection \in Nat /\ (memory.connected => OnThis(memory, connection))
  BY DEF StreamInv
<1>3. CASE published
  BY <1>3, <1>2, PublicationIs, <1>1, StatusOutlives, ExitKeeps DEF Kill, StreamInv
<1>4. CASE ~published
  BY <1>4, <1>1, ExitKeeps DEF Kill, StreamInv
<1>5. QED BY <1>3, <1>4

LEMMA StreamTicks ==
  ASSUME StreamInv, StreamTick
  PROVE  StreamInv' /\ StreamStep
<1>1. /\ minute' = minute + 1 /\ (service = "session" => memory.subscribed)
      /\ UNCHANGED <<memory, service, sentRequests, backoff, began, newcomer, latest, status, connection>>
  BY DEF StreamTick
<1>2. minute \in Nat /\ began \in Nat /\ began <= minute /\ backoff \in 1..BackoffCap
  BY DEF StreamInv
<1>3. minute' \in Nat /\ minute <= minute' /\ began <= minute'
  BY <1>1, <1>2
<1>4. LatestInv(latest, minute)'
  BY <1>2, <1>3, FilesAge, <1>1 DEF StreamInv
<1>5. StatusInv(status, latest, minute)'
  <2>1. CASE status = << >>
    BY <1>1, <2>1 DEF StatusInv
  <2>2. CASE status # << >>
    <3>1. PICK s : /\ status = <<s>> /\ s.at \in Nat /\ s.at <= minute
                   /\ s.status = "streaming" => latest # << >> /\ latest[1].at >= s.at
      BY <2>2 DEF StreamInv, StatusInv
    <3>2. s.at <= minute'
      BY <1>2, <1>3, <3>1
    <3>3. QED BY <1>1, <3>1, <3>2 DEF StatusInv
  <2>3. QED BY <2>1, <2>2
<1>6. NoneOlder(memory, memory')
  BY <1>1, SameQuotes DEF StreamInv
<1>7. QED BY <1>1, <1>2, <1>3, <1>4, <1>5, <1>6 DEF StreamInv, StreamStep

LEMMA StreamKeeps ==
  ASSUME StreamInv, StreamNext
  PROVE  StreamInv' /\ StreamStep
<1>1. CASE \E feed \in Feeds, selection \in Selections \cup {FixedSelection} : StartService(feed, selection)
  BY <1>1, StartKeeps
<1>2. CASE TakeLock
  BY <1>2, LockKeeps
<1>3. CASE \E selection \in Selections \cup {FixedSelection} : Connect(selection)
  BY <1>3, ConnectKeeps
<1>4. CASE \E reason \in {"connection_failed", "option_selection_unavailable_or_stale"}, hangs \in BOOLEAN :
             ConnectFails(reason, hangs)
  BY <1>4, ConnectFailsKeeps
<1>5. CASE Authenticated
  BY <1>5, AuthenticatedKeeps
<1>6. CASE \E exact \in BOOLEAN : Subscribed(exact)
  BY <1>6, SubscribedKeeps
<1>7. CASE \E row \in StreamRows : Receive(row)
  BY <1>7, ReceiveKeeps
<1>8. CASE \E reason \in {"provider_error", "authentication_or_subscription_timeout", "option_selection_changed"} : SessionFails(reason)
  BY <1>8, SessionFailsKeeps
<1>9. CASE FlushStream
  BY <1>9, FlushKeeps
<1>10. CASE Retry
  BY <1>10, FilesKeep DEF Retry, NothingPublished, StreamInv
<1>11. CASE Shutdown
  BY <1>11, ShutdownKeeps
<1>12. CASE Headroom
  BY <1>12, HeadroomKeeps
<1>13. CASE \E published \in BOOLEAN : Kill(published)
  BY <1>13, KillKeeps
<1>14. CASE StreamTick
  BY <1>14, StreamTicks
<1>15. QED BY <1>1, <1>2, <1>3, <1>4, <1>5, <1>6, <1>7, <1>8, <1>9, <1>10, <1>11, <1>12, <1>13, <1>14 DEF StreamNext

LEMMA StreamHolds == ServicesSpec => [](Examined("stream") => StreamInv)
<1>1. ServicesInit => (Examined("stream") => StreamInv)
  BY StreamBegins DEF ServicesInit
<1>2. (Examined("stream") => StreamInv) /\ [ServicesNext]_servicesVars => (Examined("stream") => StreamInv)'
  <2> SUFFICES ASSUME Examined("stream") => StreamInv, [ServicesNext]_servicesVars, Examined("stream")'
               PROVE  StreamInv'
    OBVIOUS
  <2>1. StreamInv /\ [StreamNext]_streamVars
    BY StreamSteps
  <2>2. CASE StreamNext
    BY <2>1, <2>2, StreamKeeps
  <2>3. CASE UNCHANGED streamVars
    BY <2>1, <2>3 DEF streamVars, StreamInv
  <2>4. QED BY <2>1, <2>2, <2>3
<1>3. QED BY <1>1, <1>2, PTL DEF ServicesSpec

LEMMA StreamSound == StreamInv => StreamIsSound /\ StreamTypeOK
<1> SUFFICES ASSUME StreamInv PROVE StreamIsSound /\ StreamTypeOK
  OBVIOUS
<1>1. IsMemory(memory) /\ memory \in StreamMemories /\ memory.bars \in Seq(StreamRecord) /\ memory.quotes \in Seq(StreamRecord)
  BY DEF StreamInv, IsMemory, StreamMemories
<1>2. FreshIsLive
  <2> SUFFICES ASSUME NEW f \in Range(latest), NEW c \in {"bars", "quotes"}, NEW r \in Range(f[c]), r.state = "fresh"
               PROVE  f.live /\ r.on = f.during /\ f.at - r.stamp \in 0 .. FreshFor(c)
    BY DEF FreshIsLive
  <2>1. latest # << >>
    BY DEF Range
  <2>2. PICK g \in FilesOfStream : /\ latest = <<g>>
                                   /\ LiveRows(g.bars, g, "bars") /\ LiveRows(g.quotes, g, "quotes")
    BY <2>1 DEF StreamInv, LatestInv
  <2>3. f = g
    BY <2>2 DEF Range
  <2>4. f.bars \in Seq(Published) /\ f.quotes \in Seq(Published)
    BY <2>3 DEF FilesOfStream
  <2>5. PICK store \in Seq(Published) : store = f[c]
    BY <2>4
  <2>6. PICK k \in 1..Len(store) : r = store[k]
    BY <2>5 DEF Range
  <2>7. LiveRows(store, f, c)
    BY <2>2, <2>3, <2>5
  <2>8. QED BY <2>6, <2>7 DEF LiveRows
<1>3. StoresAreBounded
  <2>1. {r.symbol : r \in Range(memory.quotes)} \subseteq memory.selection
    BY <1>1 DEF Range, IsMemory
  <2>2. ASSUME NEW c \in {"bars", "quotes"}
        PROVE  IsInjective([i \in DOMAIN memory[c] |-> memory[c][i].symbol])
    <3>1. PICK store \in Seq(StreamRecord) : store = memory[c]
      BY <1>1
    <3>2. OneEach(store)
      BY <1>1, <3>1 DEF IsMemory
    <3>3. DOMAIN store = 1..Len(store)
      OBVIOUS
    <3>4. QED BY <3>1, <3>2, <3>3 DEF IsInjective, OneEach
  <2>3. QED BY <1>1, <2>1, <2>2 DEF StoresAreBounded, IsMemory
<1>4. StatusFollowsLatest
  <2>1. ASSUME NEW s \in Range(status), s.status = "streaming" PROVE latest # << >> /\ latest[1].at >= s.at
    <3>1. status # << >>
      BY DEF Range
    <3>2. PICK e : /\ status = <<e>> /\ (e.status = "streaming" => latest # << >> /\ latest[1].at >= e.at)
      BY <3>1 DEF StreamInv, StatusInv
    <3>3. s = e
      BY <3>2 DEF Range
    <3>4. QED BY <2>1, <3>2, <3>3
  <2>2. QED BY <2>1 DEF StatusFollowsLatest, StreamInv
<1>5. StreamTypeOK
  <2>1. Len(newcomer) <= 1 /\ Len(latest) <= 1 /\ Len(status) <= 1
    <3>1. Len(newcomer) <= 1
      <4>1. CASE newcomer = << >>
        BY <4>1
      <4>2. CASE newcomer # << >>
        <5>1. PICK s : newcomer = <<s>>
          BY <4>2 DEF StreamInv
        <5>2. QED BY <5>1
      <4>3. QED BY <4>1, <4>2
    <3>2. Len(latest) <= 1
      <4>1. CASE latest = << >>
        BY <4>1
      <4>2. CASE latest # << >>
        <5>1. PICK s : latest = <<s>>
          BY <4>2 DEF StreamInv, LatestInv
        <5>2. QED BY <5>1
      <4>3. QED BY <4>1, <4>2
    <3>3. Len(status) <= 1
      <4>1. CASE status = << >>
        BY <4>1
      <4>2. CASE status # << >>
        <5>1. PICK s : status = <<s>>
          BY <4>2 DEF StreamInv, StatusInv
        <5>2. QED BY <5>1
      <4>3. QED BY <4>1, <4>2
    <3>4. QED BY <3>1, <3>2, <3>3
  <2>2. memory.feed \in {"sip", "opra"}
    BY <1>1 DEF StreamMemories
  <2>3. QED BY <2>1, <2>2 DEF StreamTypeOK, StreamInv
<1>6. QED BY <1>2, <1>3, <1>4, <1>5 DEF StreamIsSound

\* A quote that a running process holds is replaced by one at least as recent
\* or by none, and a session it ends lets its waits start over only when it was
\* confirmed.
THEOREM QuotesOnlyGetNewer == ServicesSpec => QuotesNeverGoBack /\ BackoffIsEarned
<1> DEFINE newer == service # "down" /\ service' # "down" =>
             \A r \in Range(memory.quotes), q \in Range(memory'.quotes) : r.symbol = q.symbol => r.stamp <= q.stamp
           earned == service \notin {"down", "trying"} /\ service' # "down" /\ backoff' < backoff => memory.subscribed
<1>1. ASSUME StreamInv, StreamInv', StreamStep PROVE newer /\ earned
  <2>1. memory.quotes \in Seq(StreamRecord) /\ memory'.quotes \in Seq(StreamRecord)
    BY <1>1 DEF StreamInv, IsMemory, StreamMemories
  <2>2. \A r \in Range(memory.quotes) : \E i \in 1..Len(memory.quotes) : r = memory.quotes[i]
    BY <2>1 DEF Range
  <2>3. \A q \in Range(memory'.quotes) : \E k \in 1..Len(memory'.quotes) : q = memory'.quotes[k]
    BY <2>1 DEF Range
  <2>4. ASSUME service # "down", service' # "down", NEW r \in Range(memory.quotes), NEW q \in Range(memory'.quotes), r.symbol = q.symbol
        PROVE  r.stamp <= q.stamp
    <3>1. PICK i \in 1..Len(memory.quotes) : r = memory.quotes[i]
      BY <2>2
    <3>2. PICK k \in 1..Len(memory'.quotes) : q = memory'.quotes[k]
      BY <2>3
    <3>3. NoneOlder(memory, memory')
      BY <1>1, <2>4 DEF StreamStep
    <3>4. QED BY <2>4, <3>1, <3>2, <3>3 DEF NoneOlder
  <2>5. earned
    BY <1>1 DEF StreamStep
  <2>6. QED BY <2>4, <2>5
<1>2. (Examined("stream") => StreamInv) /\ (Examined("stream") => StreamInv)' /\ [ServicesNext]_servicesVars
      => [newer]_streamVars /\ [earned]_streamVars
  <2> SUFFICES ASSUME Examined("stream") => StreamInv, [ServicesNext]_servicesVars
               PROVE  [newer]_streamVars /\ [earned]_streamVars
    OBVIOUS
  <2>1. CASE UNCHANGED streamVars
    BY <2>1
  <2>2. CASE Examined("stream") /\ StreamNext
    BY <1>1, <2>2, StreamKeeps
  <2>3. QED BY <2>1, <2>2, StreamSteps
<1> HIDE DEF newer, earned
<1>3. ServicesSpec => [][newer]_streamVars /\ [][earned]_streamVars
  BY <1>2, StreamHolds, PTL DEF ServicesSpec
<1>4. QED BY <1>3 DEF QuotesNeverGoBack, BackoffIsEarned, newer, earned

-----------------------------------------------------------------------------
(* The market scanner.  A row of the scan is pending until the batch of its *)
(* class is recorded; the classes still to be asked for cover the pending   *)
(* rows, and the requests still to be made the stocks without an answer.    *)

ScanClasses == {"stocks", "coins", "futures"}
ScanSymbols == Range(Stocks) \cup Range(Coins) \cup Range(Proxies)
AskedOf(class, d) == Range(Symbols(class)) \cap Universe(d)
ScanStates == {"missing", "unavailable", "invalid", "pending", "inactive", "indicative", "stale", "closed", "fresh"}
ScanRow == [asof : Int, count : Nat, active : BOOLEAN, since : Int, retained : BOOLEAN, state : ScanStates]
Directories == [{"stocks", "coins"} -> [symbols : SUBSET ScanSymbols, day : Int]]
IsDirectory(d) ==
    /\ d \in Directories
    /\ d["stocks"].symbols \subseteq Range(Stocks) /\ d["coins"].symbols \subseteq Range(Coins)

LEMMA ListedClasses == Range(Listed) = {"stocks", "coins"}
BY DEF Listed, Range

LEMMA SymbolsAre ==
  ASSUME NEW class \in ScanClasses
  PROVE  Symbols(class) \in Seq(Range(Symbols(class))) /\ Range(Symbols(class)) \subseteq ScanSymbols
BY ScannerAssumption DEF Symbols, ScanClasses, ScanSymbols

LEMMA EveryoneIsAsked ==
  ASSUME NEW d, IsDirectory(d), NEW s \in Universe(d)
  PROVE  \E class \in ScanClasses : s \in AskedOf(class, d)
BY DEF Universe, IsDirectory, Symbols, AskedOf, ScanClasses

\* The order of a scan lists the symbols of the class that are in the directory.
LEMMA ScanOrderIs ==
  ASSUME NEW class \in ScanClasses
  PROVE  ScanOrder(class) \in Seq(ScanSymbols) /\ Range(ScanOrder(class)) = AskedOf(class, directory)
<1>1. PICK all \in Seq(ScanSymbols) : all = Symbols(class)
  BY SymbolsAre
<1>2. PICK N \in Nat : N = Len(all)
  BY <1>1
<1> DEFINE taken[i \in 0..N] ==
             IF i = 0 THEN << >>
             ELSE IF all[i] \in Universe(directory) THEN Append(taken[i - 1], all[i]) ELSE taken[i - 1]
           move == [p \in Seq(ScanSymbols) \X (1..N) |-> IF all[p[2]] \in Universe(directory) THEN Append(p[1], all[p[2]]) ELSE p[1]]
           Solves(f) == f = [i \in 0..N |-> IF i = 0 THEN << >>
                                            ELSE IF all[i] \in Universe(directory) THEN Append(f[i - 1], all[i]) ELSE f[i - 1]]
<1>3. \A i \in 1..N : all[i] \in ScanSymbols
  BY <1>2
<1>4. \E f : Solves(f)
  <2>1. ASSUME NEW x \in Seq(ScanSymbols), NEW i \in 1..N PROVE move[<<x, i>>] \in Seq(ScanSymbols)
    BY <1>3
  <2>2. move \in Moves(Seq(ScanSymbols), N) /\ << >> \in Seq(ScanSymbols)
    <3>1. move \in [Seq(ScanSymbols) \X (1..N) -> Seq(ScanSymbols)]
      BY <2>1
    <3> HIDE DEF move
    <3>2. QED BY <3>1 DEF Moves
  <2>3. PICK r : IsWalk(r, N, Seq(ScanSymbols), << >>, move)
    <3> HIDE DEF move
    <3>1. QED BY <2>2, WalkExists
  <2>4. r \in [0..N -> Seq(ScanSymbols)] /\ r[0] = << >> /\ \A i \in 1..N : r[i] = move[<<r[i - 1], i>>]
    <3> HIDE DEF move
    <3>1. QED BY <2>3 DEF IsWalk
  <2>5. ASSUME NEW i \in 0..N
        PROVE  r[i] = IF i = 0 THEN << >> ELSE IF all[i] \in Universe(directory) THEN Append(r[i - 1], all[i]) ELSE r[i - 1]
    <3>1. CASE i = 0
      BY <2>4, <3>1
    <3>2. CASE i # 0
      <4>1. r[i - 1] \in Seq(ScanSymbols) /\ i \in 1..N
        BY <2>4, <3>2
      <4>2. r[i] = move[<<r[i - 1], i>>]
        <5> HIDE DEF move
        <5>1. QED BY <2>4, <4>1
      <4>3. QED BY <3>2, <4>1, <4>2
    <3>3. QED BY <3>1, <3>2
  <2>6. r = [i \in 0..N |-> r[i]]
    BY <2>4
  <2> HIDE DEF move
  <2>7. Solves(r)
    BY <2>5, <2>6
  <2>8. QED BY <2>7
<1>5. Solves(taken)
  BY <1>4
<1>6. ScanOrder(class) = taken[N]
  BY <1>1, <1>2 DEF ScanOrder
<1> HIDE DEF taken, move
<1>7. taken[0] = << >>
  BY <1>5
<1>8. ASSUME NEW i \in 1..N
      PROVE  taken[i] = IF all[i] \in Universe(directory) THEN Append(taken[i - 1], all[i]) ELSE taken[i - 1]
  <2>1. i \in 0..N /\ i # 0
    OBVIOUS
  <2>2. taken[i] = IF i = 0 THEN << >>
                   ELSE IF all[i] \in Universe(directory) THEN Append(taken[i - 1], all[i]) ELSE taken[i - 1]
    BY <1>5, <2>1
  <2>3. QED BY <2>1, <2>2
<1> HIDE DEF Solves
<1> DEFINE Here(x, n) == \A s : (\E k \in 1..Len(x) : x[k] = s) <=> (\E j \in 1..n : all[j] = s /\ s \in Universe(directory))
           T == {n \in Nat : n <= N => taken[n] \in Seq(ScanSymbols) /\ Here(taken[n], n)}
<1>9. 0 \in T
  <2>1. Len(taken[0]) = 0 /\ taken[0] \in Seq(ScanSymbols)
    BY <1>7
  <2>2. QED BY <2>1
<1>10. ASSUME NEW n \in Nat, n \in T PROVE n + 1 \in T
  <2> SUFFICES ASSUME n + 1 <= N PROVE taken[n + 1] \in Seq(ScanSymbols) /\ Here(taken[n + 1], n + 1)
    OBVIOUS
  <2>1. taken[n] \in Seq(ScanSymbols) /\ Here(taken[n], n) /\ n + 1 \in 1..N /\ (n + 1) - 1 = n
    BY <1>2, <1>10
  <2>2. \A j : j \in 1..(n + 1) <=> j \in 1..n \/ j = n + 1
    OBVIOUS
  <2>3. CASE all[n + 1] \notin Universe(directory)
    BY <1>8, <2>1, <2>3, <2>2
  <2>4. CASE all[n + 1] \in Universe(directory)
    <3>1. PICK x \in Seq(ScanSymbols) : x = taken[n]
      BY <2>1
    <3>2. PICK y : y = Append(x, all[n + 1])
      OBVIOUS
    <3>3. /\ y \in Seq(ScanSymbols) /\ Len(y) = Len(x) + 1 /\ y[Len(x) + 1] = all[n + 1]
          /\ \A k \in 1..Len(x) : y[k] = x[k]
      BY <1>3, <2>1, <3>2, AppendProperties
    <3>4. taken[n + 1] = y
      BY <1>8, <2>1, <2>4, <3>1, <3>2
    <3>5. \A s : (\E k \in 1..Len(y) : y[k] = s) <=> (\E k \in 1..Len(x) : x[k] = s) \/ all[n + 1] = s
      BY <3>3
    <3>6. \A s : (\E k \in 1..Len(x) : x[k] = s) <=> (\E j \in 1..n : all[j] = s /\ s \in Universe(directory))
      BY <2>1, <3>1
    <3>7. Here(y, n + 1)
      BY <2>2, <2>4, <3>5, <3>6
    <3>8. QED BY <3>3, <3>4, <3>7
  <2>5. QED BY <2>3, <2>4
<1> HIDE DEF T
<1>11. N \in T
  BY <1>9, <1>10, SetInduction
<1>12. PICK x \in Seq(ScanSymbols) : x = ScanOrder(class) /\ Here(x, N)
  <2>1. taken[N] \in Seq(ScanSymbols) /\ Here(taken[N], N)
    <3> HIDE DEF Here
    <3>1. QED BY <1>11 DEF T
  <2>2. QED BY <1>6, <2>1
<1>13. ASSUME NEW s PROVE s \in Range(x) <=> s \in AskedOf(class, directory)
  BY <1>2, <1>1, <1>12 DEF Range, AskedOf
<1>14. QED BY <1>12, <1>13

ScanAsk == [symbols : Seq(ScanSymbols), extra : BOOLEAN]
Covers(q, s) == \E i \in 1..Len(q) : s \in Range(q[i].symbols)

\* The two halves of a batch are the batch.
LEMMA HalvesAre ==
  ASSUME NEW x \in Seq(ScanSymbols)
  PROVE  Halves(x) \in Seq(ScanAsk) /\ Halves(x) # << >> /\ \A s : Covers(Halves(x), s) <=> s \in Range(x)
<1>1. PICK mid : mid = Len(x) \div 2
  OBVIOUS
<1>2. mid \in Nat /\ mid <= Len(x) /\ Len(x) \in Nat
  BY <1>1
<1>3. PICK a : a = SubSeq(x, 1, mid)
  OBVIOUS
<1>4. PICK b : b = SubSeq(x, mid + 1, Len(x))
  OBVIOUS
<1>5. a \in Seq(ScanSymbols) /\ Len(a) = mid /\ \A i \in 1..mid : a[i] = x[i]
  BY <1>2, <1>3, SubSeqProperties
<1>6. b \in Seq(ScanSymbols) /\ Len(b) = Len(x) - mid /\ \A i \in 1..(Len(x) - mid) : b[i] = x[mid + i]
  <2>1. PICK low \in Nat : low = mid + 1
    BY <1>2
  <2>2. \A i \in low..Len(x) : x[i] \in ScanSymbols
    BY <1>2, <2>1
  <2>3. /\ b \in Seq(ScanSymbols) /\ Len(b) = (IF low <= Len(x) THEN Len(x) - low + 1 ELSE 0)
        /\ \A i \in 1..(Len(x) - low + 1) : b[i] = x[low + i - 1]
    BY <1>2, <1>4, <2>1, <2>2, SubSeqProperties
  <2>4. Len(b) = Len(x) - mid
    BY <1>2, <2>1, <2>3
  <2>5. ASSUME NEW i \in 1..(Len(x) - mid) PROVE b[i] = x[mid + i]
    <3>1. i \in 1..(Len(x) - low + 1) /\ low + i - 1 = mid + i
      BY <1>2, <2>1
    <3>2. b[i] = x[low + i - 1]
      BY <2>3, <3>1
    <3>3. QED BY <3>1, <3>2
  <2>6. QED BY <2>3, <2>4, <2>5
<1>7. PICK h : h = <<[symbols |-> a, extra |-> TRUE], [symbols |-> b, extra |-> TRUE]>>
  OBVIOUS
<1>8. h = Halves(x)
  BY <1>1, <1>3, <1>4, <1>7 DEF Halves
<1>9. h \in Seq(ScanAsk) /\ h # << >> /\ Len(h) = 2 /\ h[1].symbols = a /\ h[2].symbols = b
  BY <1>5, <1>6, <1>7 DEF ScanAsk
<1>10. ASSUME NEW s PROVE Covers(h, s) <=> s \in Range(a) \/ s \in Range(b)
  BY <1>9 DEF Covers
<1>11. ASSUME NEW s PROVE s \in Range(a) \/ s \in Range(b) <=> s \in Range(x)
  <2>1. s \in Range(a) <=> \E i \in 1..mid : a[i] = s
    BY <1>5 DEF Range
  <2>2. s \in Range(b) <=> \E i \in 1..(Len(x) - mid) : b[i] = s
    BY <1>6 DEF Range
  <2>3. s \in Range(x) <=> \E i \in 1..Len(x) : x[i] = s
    BY DEF Range
  <2>4. ASSUME NEW i \in 1..Len(x) PROVE i \in 1..mid \/ (i - mid \in 1..(Len(x) - mid) /\ mid + (i - mid) = i)
    BY <1>2
  <2>5. (\A i \in 1..mid : i \in 1..Len(x)) /\ (\A i \in 1..(Len(x) - mid) : mid + i \in 1..Len(x))
    BY <1>2
  <2>6. ASSUME s \in Range(x) PROVE s \in Range(a) \/ s \in Range(b)
    <3>1. PICK i \in 1..Len(x) : x[i] = s
      BY <2>3, <2>6
    <3>2. CASE i \in 1..mid
      BY <1>5, <2>1, <3>1, <3>2
    <3>3. CASE i - mid \in 1..(Len(x) - mid) /\ mid + (i - mid) = i
      BY <1>6, <2>2, <3>1, <3>3
    <3>4. QED BY <2>4, <3>2, <3>3
  <2>7. ASSUME s \in Range(a) PROVE s \in Range(x)
    BY <1>5, <2>1, <2>3, <2>5, <2>7
  <2>8. ASSUME s \in Range(b) PROVE s \in Range(x)
    BY <1>6, <2>2, <2>3, <2>5, <2>8
  <2>9. QED BY <2>6, <2>7, <2>8
<1>12. QED BY <1>8, <1>9, <1>10, <1>11

LEMMA RefusalIs ==
  ASSUME NEW ask \in ScanAsk, NEW left \in Int
  PROVE  LET q == AfterRefusal(ask, left)
         IN  /\ q \in Seq(ScanAsk)
             /\ q # << >> => \A s : Covers(q, s) <=> s \in Range(ask.symbols)
             /\ q = << >> => Len(ask.symbols) <= 1
<1> DEFINE q == AfterRefusal(ask, left)
<1>1. ask.symbols \in Seq(ScanSymbols)
  BY DEF ScanAsk
<1>2. CASE ~ask.extra /\ left > 0
  <2>1. PICK e \in ScanAsk : e = [ask EXCEPT !.extra = TRUE]
    BY DEF ScanAsk
  <2>2. e.symbols = ask.symbols
    BY <2>1 DEF ScanAsk
  <2>3. q = <<e>>
    BY <1>2, <2>1 DEF AfterRefusal
  <2>4. q \in Seq(ScanAsk) /\ Len(q) = 1 /\ q[1] = e /\ q # << >>
    BY <2>3
  <2>5. ASSUME NEW s PROVE Covers(q, s) <=> s \in Range(ask.symbols)
    BY <2>2, <2>4 DEF Covers
  <2>6. QED BY <2>4, <2>5
<1>3. CASE ~(~ask.extra /\ left > 0) /\ Len(ask.symbols) <= 1
  BY <1>3 DEF AfterRefusal
<1>4. CASE ~(~ask.extra /\ left > 0) /\ ~(Len(ask.symbols) <= 1)
  BY <1>4, <1>1, HalvesAre DEF AfterRefusal
<1>5. QED BY <1>2, <1>3, <1>4

LEMMA QueueCovers ==
  ASSUME NEW q \in Seq(ScanAsk), NEW p \in Seq(ScanAsk), q # << >>
  PROVE  /\ Tail(q) \in Seq(ScanAsk) /\ Head(q) \in ScanAsk /\ p \o Tail(q) \in Seq(ScanAsk)
         /\ \A s : Covers(q, s) <=> s \in Range(Head(q).symbols) \/ Covers(Tail(q), s)
         /\ \A s : Covers(p \o Tail(q), s) <=> Covers(p, s) \/ Covers(Tail(q), s)
<1>1. PICK t : t = Tail(q)
  OBVIOUS
<1>2. /\ t \in Seq(ScanAsk) /\ Len(t) = Len(q) - 1 /\ Head(q) = q[1] /\ Head(q) \in ScanAsk
      /\ \A i \in 1..(Len(q) - 1) : t[i] = q[i + 1]
  BY <1>1
<1>3. PICK n \in Nat : n = Len(t)
  BY <1>2
<1>4. Len(q) = n + 1 /\ (\A i \in 1..n : t[i] = q[i + 1]) /\ \A i : i \in 1..(n + 1) <=> i = 1 \/ (i - 1 \in 1..n /\ i \in Int)
  BY <1>2, <1>3
<1>5. ASSUME NEW s PROVE Covers(q, s) <=> s \in Range(Head(q).symbols) \/ Covers(t, s)
  <2>1. ASSUME NEW i \in 1..n, s \in Range(t[i].symbols) PROVE Covers(q, s)
    BY <1>4, <2>1 DEF Covers
  <2>2. ASSUME s \in Range(Head(q).symbols) PROVE Covers(q, s)
    BY <1>4, <1>2, <2>2 DEF Covers
  <2>3. ASSUME NEW i \in 1..Len(q), s \in Range(q[i].symbols) PROVE s \in Range(Head(q).symbols) \/ Covers(t, s)
    <3>1. CASE i = 1
      BY <1>2, <2>3, <3>1
    <3>2. CASE i # 1
      BY <1>4, <3>2, <1>3, <2>3 DEF Covers
    <3>3. QED BY <3>1, <3>2
  <2>4. QED BY <1>3, <2>1, <2>2, <2>3 DEF Covers
<1>6. PICK m \in Nat : m = Len(p)
  OBVIOUS
<1>7. PICK c : c = p \o t
  OBVIOUS
<1>8. /\ c \in Seq(ScanAsk) /\ Len(c) = m + n
      /\ \A i \in 1..(m + n) : c[i] = IF i <= m THEN p[i] ELSE t[i - m]
  BY <1>2, <1>3, <1>6, <1>7, ConcatProperties
<1>9. ASSUME NEW s PROVE Covers(c, s) <=> Covers(p, s) \/ Covers(t, s)
  <2>1. ASSUME NEW i \in 1..m, s \in Range(p[i].symbols) PROVE Covers(c, s)
    BY <1>8, <2>1 DEF Covers
  <2>2. ASSUME NEW i \in 1..n, s \in Range(t[i].symbols) PROVE Covers(c, s)
    <3>1. m + i \in 1..(m + n) /\ ~(m + i <= m) /\ (m + i) - m = i
      OBVIOUS
    <3>2. c[m + i] = t[(m + i) - m]
      BY <1>8, <3>1
    <3>3. QED BY <1>8, <2>2, <3>1, <3>2 DEF Covers
  <2>3. ASSUME NEW i \in 1..(m + n), s \in Range(c[i].symbols) PROVE Covers(p, s) \/ Covers(t, s)
    <3>1. CASE i <= m
      BY <1>8, <3>1, <1>6, <2>3 DEF Covers
    <3>2. CASE ~(i <= m)
      BY <1>8, <3>2, <1>3, <2>3 DEF Covers
    <3>3. QED BY <3>1, <3>2
  <2>4. QED BY <1>3, <1>6, <1>8, <2>1, <2>2, <2>3 DEF Covers
<1>10. QED BY <1>1, <1>2, <1>5, <1>7, <1>8, <1>9

\* Rows and answers.
GoodRow(r, h) == r \in ScanRow /\ r.asof <= h /\ r.since <= h /\ (r.active => r.since = NoData)
Follows(r, p) == r.count >= p.count /\ (p.asof # NoData => r.asof # NoData)
Lively(r) == r.active /\ (Weak(r) \/ ~r.retained)
UpToDate(r, s, h) == Weak(r) \/ r.asof >= h - LimitOf(s, r)
GoodAnswer(a) == a \in [kind : {"failure", "none", "malformed", "data"}, asof : Int] /\ IF a.kind = "data" THEN a.asof >= 0 ELSE a.asof = NoData

LEMMA AgeStates ==
  ASSUME NEW class, NEW age \in Int
  PROVE  LET st == AgeState(class, age)
         IN  /\ st \in ScanStates /\ st # "pending"
             /\ \/ st \in {"stale", "unavailable"}
                \/ st = "closed" /\ age <= ClosedAge
                \/ st # "closed" /\ age <= Limit(class)
<1>1. CASE class = "futures"
  BY <1>1 DEF AgeState, ScanStates
<1>2. CASE class = "stocks" /\ exchange = "closed"
  BY <1>2 DEF AgeState, ScanStates
<1>3. CASE class = "stocks" /\ exchange = "unknown"
  BY <1>3 DEF AgeState, ScanStates
<1>4. CASE class # "futures" /\ ~(class = "stocks" /\ exchange = "closed") /\ ~(class = "stocks" /\ exchange = "unknown")
  BY <1>4 DEF AgeState, ScanStates
<1>5. QED BY <1>1, <1>2, <1>3, <1>4

LEMMA LimitsAre == \A s, r : LimitOf(s, r) \in Int
BY ScannerAssumption DEF LimitOf, Limit

LEMMA ObserveIs ==
  ASSUME hour \in Nat, NEW s, s \in DOMAIN previous => GoodRow(previous[s], hour), NEW a, GoodAnswer(a)
  PROVE  LET r == ObserveSymbol(s, a)
         IN  /\ GoodRow(r, hour) /\ Lively(r) /\ r.state # "pending"
             /\ Weak(r) \/ r.asof >= hour - LimitOf(s, r)
             /\ s \in DOMAIN previous => Follows(r, previous[s])
<1>1. PICK k : k = Known(s)
  OBVIOUS
<1>2. k.asof \in Int /\ k.count \in Nat /\ k.asof <= hour
  BY <1>1 DEF Known, GoodRow, ScanRow, NoData
<1>3. s \in DOMAIN previous => k = previous[s]
  BY <1>1 DEF Known
<1>4. PICK kept \in BOOLEAN : kept = (k.asof # NoData)
  OBVIOUS
<1>5. PICK base : base = [asof |-> k.asof, count |-> k.count + 1, active |-> TRUE, since |-> NoData, retained |-> kept, state |-> "missing"]
  OBVIOUS
<1>6. /\ base \in ScanRow /\ base.asof = k.asof /\ base.count = k.count + 1 /\ base.active = TRUE /\ base.since = NoData
      /\ base.state = "missing"
  BY <1>2, <1>5 DEF ScanRow, ScanStates, NoData
<1>7. PICK age \in Int : age = hour - a.asof
  BY DEF GoodAnswer
<1>8. PICK st : st = AgeState(ClassOfSymbol(s), age)
  OBVIOUS
<1>9. /\ st \in ScanStates /\ st # "pending"
      /\ \/ st \in {"stale", "unavailable"}
         \/ st = "closed" /\ age <= ClosedAge
         \/ st # "closed" /\ age <= Limit(ClassOfSymbol(s))
  BY <1>8, AgeStates
<1>10. PICK r : r = ObserveSymbol(s, a)
  OBVIOUS
<1>11. r = CASE a.kind = "failure" -> [base EXCEPT !.state = "unavailable"]
             [] a.kind = "none" -> base
             [] a.kind = "malformed" \/ age < 0 -> [base EXCEPT !.state = "invalid"]
             [] OTHER -> [base EXCEPT !.state = st, !.asof = a.asof, !.retained = FALSE]
  BY <1>1, <1>4, <1>5, <1>7, <1>8, <1>10 DEF ObserveSymbol
<1>12. CASE a.kind \in {"failure", "none", "malformed"} \/ age < 0
  <2>1. PICK w \in {"unavailable", "missing", "invalid"} : r = [base EXCEPT !.state = w]
    <3>1. CASE a.kind = "failure"
      <4>1. ~(a.kind = "malformed" \/ age < 0)
        BY <3>1, <1>7 DEF GoodAnswer, NoData
      <4>2. QED BY <1>11, <3>1, <4>1
    <3>2. CASE a.kind = "none"
      <4>1. ~(a.kind = "malformed" \/ age < 0)
        BY <3>2, <1>7 DEF GoodAnswer, NoData
      <4>3. r = base
        BY <1>11, <3>2, <4>1
      <4>2. base = [base EXCEPT !.state = "missing"]
        BY <1>6 DEF ScanRow
      <4>4. QED BY <4>2, <4>3
    <3>3. CASE a.kind # "failure" /\ a.kind # "none" /\ (a.kind = "malformed" \/ age < 0)
      BY <1>11, <3>3
    <3>4. QED BY <1>12, <3>1, <3>2, <3>3
  <2>2. /\ r \in ScanRow /\ r.asof = k.asof /\ r.count = k.count + 1 /\ r.active /\ r.since = NoData /\ r.state = w
    BY <1>6, <2>1 DEF ScanRow, ScanStates
  <2>3. GoodRow(r, hour)
    BY <1>2, <2>2 DEF GoodRow, NoData
  <2>4. Lively(r) /\ r.state # "pending" /\ Weak(r)
    BY <2>2 DEF Lively, Weak
  <2>5. ASSUME s \in DOMAIN previous PROVE Follows(r, previous[s])
    BY <1>2, <1>3, <2>2, <2>5 DEF Follows
  <2>6. QED BY <1>10, <2>3, <2>4, <2>5
<1>13. CASE ~(a.kind \in {"failure", "none", "malformed"} \/ age < 0)
  <2>1. r = [base EXCEPT !.state = st, !.asof = a.asof, !.retained = FALSE]
    BY <1>11, <1>13
  <2>2. a.asof \in Int /\ a.asof >= 0 /\ a.asof <= hour
    BY <1>7, <1>13 DEF GoodAnswer
  <2>3. /\ r \in ScanRow /\ r.asof = a.asof /\ r.count = k.count + 1 /\ r.active /\ r.since = NoData /\ r.state = st /\ ~r.retained
    BY <1>6, <1>9, <2>1, <2>2 DEF ScanRow
  <2>4. GoodRow(r, hour)
    BY <2>2, <2>3 DEF GoodRow, NoData
  <2>5. Lively(r) /\ r.state # "pending"
    BY <1>9, <2>3 DEF Lively
  <2>6. ASSUME s \in DOMAIN previous PROVE Follows(r, previous[s])
    BY <1>2, <2>3, <2>2, <1>3, <2>6 DEF NoData, Follows
  <2>7. Weak(r) \/ r.asof >= hour - LimitOf(s, r)
    <3>1. CASE st \in {"stale", "unavailable"}
      BY <2>3, <3>1 DEF Weak
    <3>2. CASE st = "closed" /\ age <= ClosedAge
      BY <1>7, <2>2, <2>3, <3>2, ScannerAssumption DEF LimitOf
    <3>3. CASE st # "closed" /\ age <= Limit(ClassOfSymbol(s))
      <4>1. PICK most \in Int : most = LimitOf(s, r)
        BY LimitsAre
      <4>2. age <= most
        BY <2>3, <3>3, <4>1 DEF LimitOf
      <4>3. QED BY <1>7, <2>2, <2>3, <4>1, <4>2
    <3>4. QED BY <1>9, <3>1, <3>2, <3>3
  <2>8. QED BY <1>10, <2>4, <2>5, <2>6, <2>7
<1>14. QED BY <1>12, <1>13

LEMMA PendingIs ==
  ASSUME hour \in Nat, NEW s, s \in DOMAIN previous => GoodRow(previous[s], hour)
  PROVE  LET r == PendingRow(s)
         IN  /\ GoodRow(r, hour) /\ r.active /\ r.state = "pending"
             /\ s \in DOMAIN previous => Follows(r, previous[s])
<1>1. PICK a : a = [kind |-> "failure", asof |-> NoData]
  OBVIOUS
<1>2. GoodAnswer(a)
  BY <1>1 DEF GoodAnswer, NoData
<1>3. PICK o : o = ObserveSymbol(s, a)
  OBVIOUS
<1>4. GoodRow(o, hour) /\ Lively(o) /\ (s \in DOMAIN previous => Follows(o, previous[s]))
  BY <1>2, <1>3, ObserveIs
<1>5. PICK r : r = [o EXCEPT !.state = "pending"]
  OBVIOUS
<1>6. r \in ScanRow /\ r.asof = o.asof /\ r.count = o.count /\ r.active = o.active /\ r.since = o.since /\ r.state = "pending"
  BY <1>4, <1>5 DEF GoodRow, ScanRow, ScanStates
<1>7. PendingRow(s) = r
  BY <1>1, <1>3, <1>5 DEF PendingRow
<1>8. GoodRow(r, hour) /\ r.active
  BY <1>4, <1>6 DEF GoodRow, Lively
<1>9. s \in DOMAIN previous => Follows(r, previous[s])
  BY <1>4, <1>6 DEF Follows
<1>10. QED BY <1>6, <1>7, <1>8, <1>9

LEMMA RetiredIs ==
  ASSUME hour \in Nat, noted.start \in 0..hour, NEW s \in DOMAIN previous, GoodRow(previous[s], hour)
  PROVE  LET r == RetiredRow(s)
         IN  /\ GoodRow(r, hour) /\ ~r.active /\ r.state = "inactive" /\ Follows(r, previous[s])
             /\ r.since = IF previous[s].since = NoData THEN noted.start ELSE previous[s].since
<1>1. PICK p \in ScanRow : p = previous[s]
  BY DEF GoodRow
<1>2. p.since \in Int /\ p.asof \in Int /\ p.count \in Nat
  BY DEF ScanRow
<1>3. PICK when \in Int : when = IF p.since = NoData THEN noted.start ELSE p.since
  BY <1>2
<1>4. PICK r : r = [p EXCEPT !.active = FALSE, !.state = "inactive", !.retained = TRUE, !.since = when]
  OBVIOUS
<1>5. RetiredRow(s) = r
  BY <1>1, <1>3, <1>4 DEF Known, RetiredRow
<1>6. r \in ScanRow
  BY <1>4 DEF ScanRow, ScanStates
<1>7. r.asof = p.asof /\ r.count = p.count /\ ~r.active /\ r.since = when /\ r.state = "inactive"
  BY <1>4 DEF ScanRow
<1>8. when <= hour /\ p.asof <= hour
  BY <1>1, <1>2, <1>3 DEF GoodRow
<1>9. GoodRow(r, hour)
  BY <1>6, <1>7, <1>8 DEF GoodRow
<1>10. Follows(r, p)
  BY <1>2, <1>7 DEF Follows
<1>11. QED BY <1>1, <1>3, <1>5, <1>7, <1>9, <1>10

ScanRest == {"down", "idle", "aborted"}
EarlyStages == {"stocks", "coins", "directory", "announce"}
Asking == {"batch", "ask", "single", "record"}
AfterRows == Asking \cup {"clock", "publish"}
InCycle == EarlyStages \cup AfterRows \cup {"status"}
ScanStages == ScanRest \cup InCycle \cup {"history"}

ScanTypes ==
    /\ scanStage \in ScanStages /\ budget \in 0..IsolationBudget /\ hour \in 0..MaxHour /\ faults \in Nat /\ scans \in Nat
    /\ IsDirectory(directory) /\ IsDirectory(savedDirectory)
    /\ batches \in Seq(ScanClasses) /\ asks \in Seq(ScanAsk)
    /\ scanStage \in InCycle => snapshot \in Snapshots
RowsAreGood ==
    /\ \A s \in DOMAIN previous : GoodRow(previous[s], hour)
    /\ \A s \in DOMAIN savedLatest.rows : GoodRow(savedLatest.rows[s], hour)
    /\ \A s \in DOMAIN scanRows : GoodRow(scanRows[s], hour)
\* The published scan: its rows are settled, those of instruments that are gone
\* are within their week.
SavedInv ==
    /\ savedLatest.start \in Nat
    /\ savedLatest.listed = {s \in DOMAIN savedLatest.rows : savedLatest.rows[s].active}
    /\ \A s \in DOMAIN savedLatest.rows :
          /\ savedLatest.rows[s].state # "pending"
          /\ IF savedLatest.rows[s].active
             THEN Lively(savedLatest.rows[s]) /\ UpToDate(savedLatest.rows[s], s, savedLatest.start)
             ELSE savedLatest.rows[s].since \in savedLatest.start - Retention .. savedLatest.start
\* The hours a cycle notes: no row is older than its start, which is no later
\* than its look at the directory.
NotedInv ==
    /\ noted \in [start : 0..hour, look : 0..hour]
    /\ scanStage \in InCycle => \A s \in DOMAIN previous : previous[s].since <= noted.start
    /\ scanStage \in InCycle \ {"stocks"} => noted.start <= noted.look
LookDay == noted.look \div DayLength
\* What holds at every stage.
Settled ==
    /\ ScanTypes /\ RowsAreGood /\ SavedInv /\ HealthyIsTrue /\ NotedInv
    /\ \A s \in DOMAIN answers : GoodAnswer(answers[s])
    /\ scanStage \in {"ask", "record", "aborted"} \/ DOMAIN answers = {}
    /\ ~lagging /\ scanStage # "down" => previous = savedLatest.rows
\* A row of the cycle, against the directory and the last rows.
RowIsDue(r, s, d, old, h) ==
    /\ r.active <=> s \in Universe(d)
    /\ r.active /\ r.state # "pending" => Lively(r) /\ UpToDate(r, s, h)
    /\ ~r.active => r.state # "pending" /\ r.since \in h - Retention .. h
    /\ s \in DOMAIN old => Follows(r, old[s])
\* The last row of an instrument that is left out of the present ones.
Dropped(p, present, h) == (~p.active /\ p.since < h - Retention) \/ Cardinality(present) >= MaxRecords
CycleRows ==
    scanStage \in AfterRows =>
        /\ Universe(directory) \subseteq DOMAIN scanRows
        /\ \A s \in DOMAIN scanRows : RowIsDue(scanRows[s], s, directory, previous, noted.start)
        /\ \A s \in DOMAIN previous \ DOMAIN scanRows : Dropped(previous[s], DOMAIN scanRows, noted.start)
\* Pending rows wait for a class that is still to be asked for.
PendingRows ==
    /\ scanStage \in Asking =>
         \A s \in DOMAIN scanRows : scanRows[s].state = "pending" =>
             \E i \in 1..Len(batches) : s \in AskedOf(batches[i], directory)
    /\ scanStage = "publish" => \A s \in DOMAIN scanRows : scanRows[s].state # "pending"
BatchInv ==
    /\ scanStage \in {"ask", "single", "record"} => batches # << >>
    /\ scanStage = "ask" => Head(batches) = "stocks" /\ asks # << >>
    /\ scanStage = "single" => Head(batches) # "stocks"
\* What came back is what was asked for, and only refused requests have no answer.
AnswersInv ==
    /\ scanStage = "record" => DOMAIN answers = AskedOf(Head(batches), directory)
    /\ scanStage = "ask" =>
         /\ DOMAIN answers \subseteq AskedOf("stocks", directory)
         /\ \A s : Covers(asks, s) => s \in AskedOf("stocks", directory)
         /\ \A s \in AskedOf("stocks", directory) : s \in DOMAIN answers \/ Covers(asks, s)
    /\ scanStage \in {"ask", "record"} /\ Head(batches) = "stocks" =>
         \A s \in DOMAIN answers :
            /\ snapshot[s].kind = "barred" => answers[s] = Failure
            /\ faults = 0 /\ budget > 0 /\ answers[s] = Failure => snapshot[s].kind = "barred"
DaysInv ==
    /\ scanStage \in AfterRows \cup {"announce", "status"} => savedDirectory = directory
    /\ scanStage \in InCycle \ {"stocks"} => troubled \/ directory["stocks"].day = LookDay
    /\ scanStage \in InCycle \ {"stocks", "coins"} => troubled \/ directory["coins"].day = LookDay
FilesInv ==
    /\ scanStage \in InCycle => savedStatus.status # "healthy"
    /\ scanStage \in {"status", "history"} => savedLatest.rows = scanRows
    /\ scanStage = "status" =>
         /\ savedLatest.scan = scans /\ savedLatest.start = noted.start /\ savedLatest.listed = Universe(directory)
         /\ savedLatest.at \in Nat /\ noted.look <= savedLatest.at
ScannerInv == Settled /\ CycleRows /\ PendingRows /\ BatchInv /\ AnswersInv /\ DaysInv /\ FilesInv

LEMMA ScannerSteps ==
  ASSUME [ServicesNext]_servicesVars
  PROVE  /\ Examined("scanner")' => Examined("scanner") /\ [ScannerNext]_scannerVars
         /\ \/ UNCHANGED scannerVars
            \/ Examined("scanner") /\ ScannerNext
<1>1. CASE ServicesNext
  <2>1. CASE focus' = "scanner"
    BY <1>1, <2>1 DEF ServicesNext, Steps, Examined, Components, scannerVars
  <2>2. CASE focus' # "scanner"
    BY <1>1, <2>2 DEF ServicesNext, Steps, Examined, Components, scannerVars
  <2>3. QED BY <2>1, <2>2
<1>2. CASE UNCHANGED servicesVars
  BY <1>2 DEF servicesVars, Examined, scannerVars
<1>3. QED BY <1>1, <1>2

LEMMA NoRowsAre == DOMAIN NoRows = {}
BY DEF NoRows

LEMMA ScannerBegins == ScannerInit => ScannerInv
<1> SUFFICES ASSUME ScannerInit PROVE ScannerInv
  OBVIOUS
<1>1. IsDirectory(EmptyDirectory)
  BY ListedClasses DEF EmptyDirectory, IsDirectory, Directories
<1>2. scanStage = "down" /\ IsolationBudget \in Nat /\ MaxHour \in Nat
  BY ScannerAssumption DEF ScannerInit
<1>3. ScanTypes
  BY <1>1, <1>2 DEF ScannerInit, ScanTypes, ScanStages, ScanRest, InCycle, EarlyStages, AfterRows, Asking
<1>4. RowsAreGood /\ SavedInv /\ \A s \in DOMAIN answers : GoodAnswer(answers[s])
  BY NoRowsAre DEF ScannerInit, RowsAreGood, SavedInv
<1>5. HealthyIsTrue
  BY DEF ScannerInit, HealthyIsTrue
<1>6. Settled
  <2>1. NotedInv
    BY <1>2 DEF ScannerInit, NotedInv, InCycle, EarlyStages, AfterRows, Asking
  <2>2. QED BY <1>2, <1>3, <1>4, <1>5, <2>1, NoRowsAre DEF Settled, ScannerInit
<1>7. QED
  BY <1>2, <1>6 DEF ScannerInv, CycleRows, PendingRows, BatchInv, AnswersInv, DaysInv, FilesInv, InCycle, EarlyStages, AfterRows, Asking

\* Out of the cycle only what always holds is to be shown; early in the cycle
\* there are no rows yet.
LEMMA AtRest ==
  ASSUME Settled', scanStage' \in ScanRest
  PROVE  ScannerInv'
BY DEF ScannerInv, ScanRest, CycleRows, PendingRows, BatchInv, AnswersInv, DaysInv, FilesInv, InCycle, EarlyStages, AfterRows, Asking

LEMMA EarlyOn ==
  ASSUME Settled', scanStage' \in EarlyStages, DaysInv', savedStatus'.status # "healthy"
  PROVE  ScannerInv'
BY DEF ScannerInv, CycleRows, PendingRows, BatchInv, AnswersInv, FilesInv, InCycle, EarlyStages, AfterRows, Asking

LEMMA SettledStays ==
  ASSUME Settled, scanStage # "down", UNCHANGED <<previous, scanRows, savedLatest, hour, lagging>>,
         NotedInv' \/ (noted' = noted /\ (scanStage \in InCycle \ {"stocks"} \/ scanStage' \notin InCycle)),
         ScanTypes', HealthyIsTrue', \A s \in DOMAIN answers' : GoodAnswer(answers'[s]),
         scanStage' \in {"ask", "record", "aborted"} \/ DOMAIN answers' = {}
  PROVE  Settled'
<1>1. NotedInv'
  BY DEF Settled, NotedInv
<1>2. RowsAreGood' /\ SavedInv'
  BY DEF Settled, RowsAreGood, SavedInv
<1>3. QED BY <1>1, <1>2 DEF Settled

LEMMA StatusStays ==
  ASSUME HealthyIsTrue, UNCHANGED <<savedLatest, savedDirectory>>, savedStatus' = savedStatus \/ savedStatus'.status # "healthy"
  PROVE  HealthyIsTrue'
BY DEF HealthyIsTrue

LEMMA EndNotes ==
  ASSUME CycleEnds, scanStage' \in ScanRest, hour \in 0..MaxHour, hour' = hour
  PROVE  NotedInv'
BY ScannerAssumption DEF CycleEnds, NotedInv, ScanRest, InCycle, EarlyStages, AfterRows, Asking

LEMMA AbortKeeps ==
  ASSUME ScannerInv, NEW outcome \in Outcomes, Abort(outcome)
  PROVE  ScannerInv'
<1>1. Settled
  BY DEF ScannerInv
<1>2. scanStage' \in ScanRest
  BY DEF Abort, ScanRest
<1>3. savedStatus' = savedStatus \/ savedStatus'.status # "healthy"
  BY DEF Abort, Write, StatusOfScan
<1>4. HealthyIsTrue'
  BY <1>1, <1>3, StatusStays DEF Abort, Settled
<1>5. ScanTypes'
  BY ScannerAssumption, <1>2, <1>1 DEF ScanRest, ScanStages, InCycle, EarlyStages, AfterRows, Asking, Abort, Write,
    Faulty, CycleEnds, Settled, ScanTypes
<1>6. Settled'
  <2>1. NotedInv'
    BY <1>1, <1>2, EndNotes DEF Abort, Settled, ScanTypes
  <2>2. QED BY NoRowsAre, <1>1, <1>4, <1>5, <2>1 DEF Abort, CycleEnds, Settled, RowsAreGood, SavedInv
<1>7. QED BY <1>2, <1>6, AtRest

LEMMA BeginScanKeeps ==
  ASSUME ScannerInv, NEW plenty \in BOOLEAN, NEW outcome \in Outcomes, BeginScan(plenty, outcome)
  PROVE  ScannerInv'
<1>1. Settled /\ scanStage = "idle"
  BY DEF ScannerInv, BeginScan
<1>2. scanStage' \in {"stocks", "idle", "aborted"}
  BY DEF BeginScan, Then
<1>3. /\ savedStatus' = savedStatus \/ savedStatus'.status # "healthy"
      /\ scanStage' = "stocks" => savedStatus'.status # "healthy"
  BY DEF BeginScan, Write, Then
<1>4. HealthyIsTrue'
  BY <1>1, <1>3, StatusStays DEF BeginScan, Settled
<1>5. ScanTypes'
  BY <1>1, <1>2 DEF BeginScan, Write, Faulty, Settled, ScanTypes, ScanRest, ScanStages, InCycle, EarlyStages
<1>6. Settled'
  <2>1. noted' \in [start : 0..hour, look : 0..hour] /\ noted'.start = hour
    <3>1. hour \in 0..hour
      BY <1>1, ScannerAssumption DEF Settled, ScanTypes
    <3>2. QED BY <1>1, <3>1 DEF BeginScan, Settled, NotedInv
  <2>2. NotedInv'
    BY <1>1, <1>2, <2>1 DEF BeginScan, NotedInv, Settled, RowsAreGood, GoodRow, InCycle, EarlyStages, AfterRows, Asking
  <2>3. QED BY <1>1, <1>4, <1>5, <2>2, SettledStays DEF BeginScan, Settled
<1>7. CASE scanStage' = "stocks"
  BY <1>3, <1>6, <1>7, EarlyOn DEF EarlyStages, DaysInv, AfterRows, Asking
<1>8. CASE scanStage' # "stocks"
  BY <1>2, <1>6, <1>8, AtRest DEF ScanRest
<1>9. QED BY <1>7, <1>8

LEMMA RefreshKeeps ==
  ASSUME ScannerInv, NEW class \in Range(Listed), NEW listed \in {l \in Listings : l \subseteq Range(Symbols(class))},
         RefreshDirectory(class, listed)
  PROVE  ScannerInv'
<1>1. Settled /\ class \in {"stocks", "coins"} /\ scanStage = class
  BY ListedClasses DEF ScannerInv, RefreshDirectory
<1>2. scanStage' = (IF class = "stocks" THEN "coins" ELSE "directory") /\ scanStage' \in {"coins", "directory"}
  BY DEF RefreshDirectory
<1>3. savedStatus' = savedStatus /\ savedStatus.status # "healthy"
  BY <1>1 DEF RefreshDirectory, ScannerInv, FilesInv, InCycle, EarlyStages
<1>4. HealthyIsTrue'
  BY <1>1, <1>3, StatusStays DEF RefreshDirectory, Settled
<1>5. /\ NotedInv' /\ noted' \in [start : 0..hour, look : 0..hour] /\ (class = "coins" => noted' = noted)
      /\ LookDay' \in Int
  <2>1. hour \in 0..hour /\ noted \in [start : 0..hour, look : 0..hour]
    BY <1>1, ScannerAssumption DEF Settled, ScanTypes, NotedInv
  <2>2. noted' \in [start : 0..hour, look : 0..hour] /\ noted'.start = noted.start /\ (class = "coins" => noted' = noted)
    BY <1>1, <2>1 DEF RefreshDirectory
  <2>3. noted'.start <= noted'.look
    BY <1>1, <2>1, <2>2 DEF RefreshDirectory, Settled, NotedInv, InCycle, EarlyStages
  <2>4. NotedInv'
    BY <1>1, <2>2, <2>3 DEF RefreshDirectory, Settled, NotedInv, InCycle, EarlyStages
  <2>5. LookDay' \in Int
    BY <2>1, <2>2, ScannerAssumption DEF LookDay
  <2>6. QED BY <2>2, <2>4, <2>5
<1>6. PICK entry : entry = [symbols |-> listed, day |-> LookDay']
  OBVIOUS
<1>7. \/ directory' = directory /\ (directory[class].day = LookDay' \/ troubled')
      \/ directory' = [directory EXCEPT ![class] = entry]
  BY <1>6 DEF RefreshDirectory, LookDay
<1>8. IsDirectory(directory)
  BY <1>1 DEF Settled, ScanTypes
<1>9. entry \in [symbols : SUBSET ScanSymbols, day : Int] /\ entry.symbols = listed /\ entry.day = LookDay'
  BY <1>1, <1>5, <1>6 DEF Symbols, ScanSymbols
<1>10. /\ IsDirectory(directory')
       /\ directory'[class].day = LookDay' \/ troubled'
       /\ \A c \in {"stocks", "coins"} : c # class => directory'[c] = directory[c]
  <2>1. CASE directory' = directory
    BY <1>5, <1>7, <1>8, <2>1, <1>9, <1>1 DEF IsDirectory, Directories
  <2>2. CASE directory' = [directory EXCEPT ![class] = entry]
    <3>1. directory' \in Directories /\ directory'[class] = entry /\ \A c \in {"stocks", "coins"} : c # class => directory'[c] = directory[c]
      BY <1>1, <1>8, <1>9, <2>2 DEF IsDirectory, Directories
    <3>2. listed \subseteq Range(Symbols(class))
      OBVIOUS
    <3>3. directory'["stocks"].symbols \subseteq Range(Stocks) /\ directory'["coins"].symbols \subseteq Range(Coins)
      <4>1. CASE class = "stocks"
        BY <1>8, <1>9, <3>1, <3>2, <4>1 DEF Symbols, IsDirectory
      <4>2. CASE class = "coins"
        BY <1>8, <1>9, <3>1, <3>2, <4>2 DEF Symbols, IsDirectory
      <4>3. QED BY <1>1, <4>1, <4>2
    <3>4. QED BY <1>9, <3>1, <3>3 DEF IsDirectory
  <2>3. QED BY <1>7, <2>1, <2>2
<1>11. ScanTypes'
  BY <1>1, <1>2, <1>10 DEF RefreshDirectory, Faulty, Settled, ScanTypes, ScanStages, InCycle, EarlyStages
<1>12. Settled'
  BY <1>1, <1>4, <1>5, <1>11, SettledStays DEF RefreshDirectory, Settled
<1>13. DaysInv'
  <2>1. troubled => troubled'
    BY DEF RefreshDirectory
  <2>2. scanStage = "coins" => troubled \/ directory["stocks"].day = LookDay
    BY DEF ScannerInv, DaysInv, InCycle, EarlyStages
  <2>3. scanStage' = "coins" => class = "stocks"
    BY <1>1, <1>2
  <2>4. scanStage' = "directory" => class = "coins"
    BY <1>1, <1>2
  <2>5. troubled' \/ directory'["stocks"].day = LookDay'
    <3>1. CASE class = "stocks"
      BY <1>5, <1>10, <3>1
    <3>2. CASE class = "coins"
      BY <1>1, <1>5, <1>10, <2>1, <2>2, <3>2 DEF LookDay
    <3>3. QED BY <1>1, <3>1, <3>2
  <2>6. scanStage' = "directory" => troubled' \/ directory'["coins"].day = LookDay'
    BY <1>5, <1>10, <2>4
  <2>7. QED BY <1>2, <2>5, <2>6 DEF DaysInv, AfterRows, Asking
<1>14. QED BY <1>2, <1>3, <1>12, <1>13, EarlyOn DEF EarlyStages

LEMMA SaveDirectoryKeeps ==
  ASSUME ScannerInv, NEW outcome \in Outcomes, SaveDirectory(outcome)
  PROVE  ScannerInv'
<1>1. Settled /\ scanStage = "directory"
  BY DEF ScannerInv, SaveDirectory
<1>2. scanStage' \in {"announce", "aborted"} /\ (scanStage' = "announce" => outcome = "done")
  BY DEF SaveDirectory, Then
<1>3. savedStatus' = savedStatus /\ savedStatus.status # "healthy"
  BY <1>1 DEF SaveDirectory, ScannerInv, FilesInv, InCycle, EarlyStages
<1>4. HealthyIsTrue'
  BY <1>3 DEF HealthyIsTrue
<1>5. savedDirectory' \in {savedDirectory, directory} /\ (outcome = "done" => savedDirectory' = directory)
  BY DEF SaveDirectory, Write
<1>6. ScanTypes'
  BY <1>1, <1>2, <1>5 DEF SaveDirectory, Write, Faulty, Settled, ScanTypes, ScanStages, InCycle, EarlyStages,
    ScanRest, cycleVars
<1>7. Settled'
  BY <1>1, <1>4, <1>6, SettledStays DEF SaveDirectory, cycleVars, Settled, InCycle, EarlyStages
<1>8. CASE scanStage' = "announce"
  BY <1>2, <1>5, <1>8, <1>1, <1>3, <1>7, EarlyOn DEF SaveDirectory, cycleVars, ScannerInv, DaysInv, InCycle,
    EarlyStages, AfterRows, Asking, LookDay
<1>9. CASE scanStage' = "aborted"
  BY <1>7, <1>9, AtRest DEF ScanRest
<1>10. QED BY <1>2, <1>8, <1>9

\* The rows with which a scan begins: every listed instrument pending, and the
\* others until their week is over.
LEMMA FirstRowsAre ==
  ASSUME hour \in Nat, noted.start \in 0..hour, NEW kept \in SUBSET Retired, HasRoomFor(kept),
         \A s \in DOMAIN previous : GoodRow(previous[s], hour) /\ previous[s].since <= noted.start
  PROVE  LET first == FirstRows(kept)
         IN  /\ Universe(directory) \subseteq DOMAIN first
             /\ \A s \in DOMAIN first : GoodRow(first[s], hour) /\ RowIsDue(first[s], s, directory, previous, noted.start)
             /\ \A s \in DOMAIN previous \ DOMAIN first : Dropped(previous[s], DOMAIN first, noted.start)
<1>1. PICK gone : gone = kept
  OBVIOUS
<1>2. PICK listed : listed = Universe(directory)
  OBVIOUS
<1>3. PICK first : first = [s \in listed \cup gone |-> IF s \in gone THEN RetiredRow(s) ELSE PendingRow(s)]
  OBVIOUS
<1>4. first = FirstRows(kept)
  BY <1>1, <1>2, <1>3 DEF FirstRows
<1>5. Retention \in Nat
  BY ScannerAssumption
<1>6. /\ gone \subseteq DOMAIN previous \ listed /\ \A s \in gone : RetiredRow(s).since >= noted.start - Retention
      /\ gone # Retired => Cardinality(listed \cup gone) >= MaxRecords
      /\ gone = Retired => \A s \in DOMAIN previous \ listed : s \in gone <=> RetiredRow(s).since >= noted.start - Retention
  BY <1>1, <1>2 DEF Retired, HasRoomFor
<1>7. ASSUME NEW s \in listed \cup gone PROVE GoodRow(first[s], hour) /\ RowIsDue(first[s], s, directory, previous, noted.start)
  <2>1. CASE s \in gone
    <3>1. first[s] = RetiredRow(s)
      BY <1>3, <2>1
    <3>2. s \in DOMAIN previous /\ s \notin listed /\ GoodRow(previous[s], hour)
      BY <1>6, <2>1
    <3>3. PICK r : r = RetiredRow(s)
      OBVIOUS
    <3>4. GoodRow(r, hour) /\ ~r.active /\ r.state = "inactive" /\ Follows(r, previous[s])
      BY <3>2, <3>3, RetiredIs
    <3>5. r.since >= noted.start - Retention /\ r.since <= noted.start
      BY <1>6, <2>1, <3>2, <3>3, RetiredIs
    <3>6. r.since \in noted.start - Retention .. noted.start
      BY <1>5, <3>4, <3>5 DEF GoodRow, ScanRow
    <3>7. RowIsDue(r, s, directory, previous, noted.start)
      BY <1>2, <3>2, <3>4, <3>6 DEF RowIsDue
    <3>8. QED BY <3>1, <3>3, <3>4, <3>7
  <2>2. CASE s \notin gone
    <3>1. first[s] = PendingRow(s) /\ s \in listed
      BY <1>3, <2>2
    <3>2. PICK r : r = PendingRow(s)
      OBVIOUS
    <3>3. GoodRow(r, hour) /\ r.active /\ r.state = "pending" /\ (s \in DOMAIN previous => Follows(r, previous[s]))
      BY <3>2, PendingIs
    <3>4. RowIsDue(r, s, directory, previous, noted.start)
      BY <1>2, <3>1, <3>3 DEF RowIsDue
    <3>5. QED BY <3>1, <3>2, <3>3, <3>4
  <2>3. QED BY <2>1, <2>2
<1>8. ASSUME NEW s \in DOMAIN previous \ (listed \cup gone) PROVE Dropped(previous[s], listed \cup gone, noted.start)
  <2>1. CASE gone # Retired
    BY <1>6, <2>1 DEF Dropped
  <2>2. CASE gone = Retired
    <3>1. GoodRow(previous[s], hour)
      OBVIOUS
    <3>2. PICK r : r = RetiredRow(s)
      OBVIOUS
    <3>3. r.since = IF previous[s].since = NoData THEN noted.start ELSE previous[s].since
      BY <3>1, <3>2, RetiredIs
    <3>4. ~(r.since >= noted.start - Retention)
      BY <1>6, <2>2, <3>2
    <3>5. previous[s].since # NoData
      BY <1>5, <3>3, <3>4
    <3>6. previous[s].since \in Int /\ (previous[s].active => previous[s].since = NoData) /\ previous[s].active \in BOOLEAN
      BY <3>1 DEF GoodRow, ScanRow
    <3>7. QED BY <1>5, <3>3, <3>4, <3>5, <3>6 DEF Dropped
  <2>3. QED BY <2>1, <2>2
<1>9. DOMAIN first = listed \cup gone
  BY <1>3
<1> DEFINE fr == FirstRows(kept)
<1>10. fr = first
  BY <1>4
<1> HIDE DEF fr
<1>11. Universe(directory) \subseteq DOMAIN fr
  BY <1>2, <1>9, <1>10
<1>12. \A s \in DOMAIN fr : GoodRow(fr[s], hour) /\ RowIsDue(fr[s], s, directory, previous, noted.start)
  BY <1>7, <1>9, <1>10
<1>13. \A s \in DOMAIN previous \ DOMAIN fr : Dropped(previous[s], DOMAIN fr, noted.start)
  BY <1>8, <1>9, <1>10
<1>14. QED BY <1>11, <1>12, <1>13 DEF fr

LEMMA AnnounceKeeps ==
  ASSUME ScannerInv, NEW outcome \in Outcomes, AnnounceRows(outcome)
  PROVE  ScannerInv'
<1>1. Settled /\ scanStage = "announce"
  BY DEF ScannerInv, AnnounceRows
<1>2. scanStage' \in {"clock", "aborted"}
  BY DEF AnnounceRows, Then
<1>3. savedStatus.status # "healthy" /\ savedStatus'.status # "healthy"
  BY <1>1 DEF AnnounceRows, ScannerInv, FilesInv, InCycle, EarlyStages, Write, StatusOfScan
<1>4. HealthyIsTrue'
  BY <1>3 DEF HealthyIsTrue
<1>5. /\ hour \in Nat /\ noted.start \in 0..hour
      /\ \A s \in DOMAIN previous : GoodRow(previous[s], hour) /\ previous[s].since <= noted.start
  BY <1>1, ScannerAssumption DEF Settled, ScanTypes, RowsAreGood, NotedInv, InCycle, EarlyStages
<1>14. PICK kept \in SUBSET Retired : HasRoomFor(kept) /\ scanRows' = FirstRows(kept)
  BY DEF AnnounceRows
<1>6. PICK first : first = FirstRows(kept)
  OBVIOUS
<1>7. /\ Universe(directory) \subseteq DOMAIN first
      /\ \A s \in DOMAIN first : GoodRow(first[s], hour) /\ RowIsDue(first[s], s, directory, previous, noted.start)
      /\ \A s \in DOMAIN previous \ DOMAIN first : Dropped(previous[s], DOMAIN first, noted.start)
  BY <1>5, <1>6, <1>14, FirstRowsAre
<1>8. /\ scanRows' = first
      /\ UNCHANGED <<directory, previous, asks, answers, snapshot, budget, troubled, exchange, batches, savedDirectory, savedLatest, scans,
                     hour, noted, lagging>>
  BY <1>6, <1>14 DEF AnnounceRows
<1>9. ScanTypes'
  BY <1>1, <1>2, <1>8 DEF AnnounceRows, Write, Faulty, Settled, ScanTypes, ScanStages, InCycle, EarlyStages, ScanRest,
    AfterRows
<1>10. Settled'
  <2>1. NotedInv'
    BY <1>1, <1>8 DEF Settled, NotedInv, InCycle, EarlyStages
  <2>2. QED BY <1>1, <1>7, <1>8, <1>4, <1>9, <2>1 DEF Settled, RowsAreGood, SavedInv
<1>11. CASE scanStage' = "clock"
  <2>1. CycleRows'
    BY <1>7, <1>8 DEF CycleRows
  <2>2. DaysInv'
    BY <1>1, <1>8 DEF ScannerInv, DaysInv, InCycle, EarlyStages, LookDay
  <2>3. BatchInv' /\ PendingRows' /\ AnswersInv' /\ FilesInv'
    BY <1>1, <1>3, <1>8, <1>11 DEF Settled, BatchInv, PendingRows, AnswersInv, FilesInv, Asking
  <2>4. QED BY <1>10, <2>1, <2>2, <2>3 DEF ScannerInv
<1>12. CASE scanStage' = "aborted"
  BY <1>10, <1>12, AtRest DEF ScanRest
<1>13. QED BY <1>2, <1>11, <1>12

Within(q, x) == \E i \in 1..Len(q) : q[i] = x

LEMMA Joined ==
  ASSUME NEW a \in Seq(ScanClasses), NEW b \in Seq(ScanClasses)
  PROVE  a \o b \in Seq(ScanClasses) /\ \A x : Within(a, x) \/ Within(b, x) => Within(a \o b, x)
<1>1. PICK c : c = a \o b
  OBVIOUS
<1>2. PICK n \in Nat : n = Len(a)
  OBVIOUS
<1>3. PICK m \in Nat : m = Len(b)
  OBVIOUS
<1>4. c \in Seq(ScanClasses) /\ Len(c) = n + m /\ \A i \in 1..(n + m) : c[i] = IF i <= n THEN a[i] ELSE b[i - n]
  BY <1>1, <1>2, <1>3, ConcatProperties
<1>5. ASSUME NEW x, Within(a, x) PROVE Within(c, x)
  <2>1. PICK i \in 1..n : a[i] = x
    BY <1>2, <1>5 DEF Within
  <2>2. i \in 1..(n + m) /\ c[i] = a[i]
    BY <1>4
  <2>3. QED BY <1>4, <2>1, <2>2 DEF Within
<1>6. ASSUME NEW x, Within(b, x) PROVE Within(c, x)
  <2>1. PICK i \in 1..m : b[i] = x
    BY <1>3, <1>6 DEF Within
  <2>2. n + i \in 1..(n + m) /\ ~(n + i <= n) /\ (n + i) - n = i
    OBVIOUS
  <2>3. c[n + i] = b[(n + i) - n]
    BY <1>4, <2>2
  <2>4. QED BY <1>4, <2>1, <2>2, <2>3 DEF Within
<1>7. QED BY <1>1, <1>4, <1>5, <1>6

\* Every class with an instrument to ask for is among those asked.
LEMMA ToAskIs ==
  LET q == ToAsk("stocks") \o ToAsk("coins") \o ToAsk("futures")
  IN  q \in Seq(ScanClasses) /\ \A class \in ScanClasses : AskedOf(class, directory) # {} => Within(q, class)
<1>1. ASSUME NEW class \in ScanClasses
      PROVE  ToAsk(class) \in Seq(ScanClasses) /\ (AskedOf(class, directory) # {} => Within(ToAsk(class), class))
  <2>1. CASE ScanOrder(class) = << >>
    BY <2>1, ScanOrderIs DEF Range, ToAsk
  <2>2. CASE ScanOrder(class) # << >>
    <3>1. PICK t : t = <<class>>
      OBVIOUS
    <3>2. t \in Seq(ScanClasses) /\ Len(t) = 1 /\ t[1] = class
      BY <3>1
    <3>3. ToAsk(class) = t
      BY <2>2, <3>1 DEF ToAsk
    <3>4. Within(t, class)
      BY <3>2 DEF Within
    <3>5. QED BY <3>2, <3>3, <3>4
  <2>3. QED BY <2>1, <2>2
<1>2. {"stocks", "coins", "futures"} = ScanClasses
  BY DEF ScanClasses
<1>3. PICK a \in Seq(ScanClasses) : a = ToAsk("stocks") /\ (AskedOf("stocks", directory) # {} => Within(a, "stocks"))
  BY <1>1, <1>2
<1>4. PICK b \in Seq(ScanClasses) : b = ToAsk("coins") /\ (AskedOf("coins", directory) # {} => Within(b, "coins"))
  BY <1>1, <1>2
<1>5. PICK c \in Seq(ScanClasses) : c = ToAsk("futures") /\ (AskedOf("futures", directory) # {} => Within(c, "futures"))
  BY <1>1, <1>2
<1>6. PICK ab \in Seq(ScanClasses) : ab = a \o b /\ \A x : Within(a, x) \/ Within(b, x) => Within(ab, x)
  BY Joined
<1>7. PICK q \in Seq(ScanClasses) : q = ab \o c /\ \A x : Within(ab, x) \/ Within(c, x) => Within(q, x)
  BY Joined
<1>8. q = ToAsk("stocks") \o ToAsk("coins") \o ToAsk("futures")
  BY <1>3, <1>4, <1>5, <1>6, <1>7
<1>9. ASSUME NEW class \in ScanClasses, AskedOf(class, directory) # {} PROVE Within(q, class)
  BY <1>2, <1>3, <1>4, <1>5, <1>6, <1>7, <1>9
<1>10. QED BY <1>8, <1>9

\* The rows of the cycle stay as they are while it asks.
LEMMA CycleStays ==
  ASSUME CycleRows, scanStage \in AfterRows, UNCHANGED <<directory, previous, scanRows, noted>>
  PROVE  CycleRows'
BY DEF CycleRows

LEMMA DaysStay ==
  ASSUME DaysInv, scanStage \in AfterRows \cup {"status"}, scanStage' \in AfterRows \cup {"status"},
         UNCHANGED <<directory, savedDirectory, noted>>, troubled => troubled'
  PROVE  DaysInv'
BY DEF DaysInv, InCycle, EarlyStages, AfterRows, Asking, LookDay

LEMMA AskClockKeeps ==
  ASSUME ScannerInv, NEW failed \in BOOLEAN, AskClock(failed)
  PROVE  ScannerInv'
<1>1. Settled /\ scanStage = "clock" /\ scanStage' = "batch"
  BY DEF ScannerInv, AskClock
<1>2. UNCHANGED <<directory, previous, scanRows, asks, answers, snapshot, budget, savedDirectory, savedLatest, savedStatus, scans, hour, noted, lagging>>
  BY DEF AskClock
<1>3. savedStatus.status # "healthy"
  BY <1>1 DEF ScannerInv, FilesInv, InCycle, AfterRows
<1>4. HealthyIsTrue'
  BY <1>2, <1>3 DEF HealthyIsTrue
<1>5. PICK q : q = ToAsk("stocks") \o ToAsk("coins") \o ToAsk("futures")
  OBVIOUS
<1>6. q \in Seq(ScanClasses) /\ \A class \in ScanClasses : AskedOf(class, directory) # {} => Within(q, class)
  BY <1>5, ToAskIs
<1>7. batches' = q
  BY <1>5 DEF AskClock
<1>8. ScanTypes'
  <2>1. faults' \in Nat
    BY <1>1 DEF AskClock, Faulty, Settled, ScanTypes
  <2>2. scanStage' \in ScanStages /\ scanStage \in InCycle
    BY <1>1 DEF ScanStages, InCycle, AfterRows, Asking
  <2>3. QED BY <1>1, <1>2, <1>6, <1>7, <2>1, <2>2 DEF Settled, ScanTypes
<1>9. Settled'
  BY <1>1, <1>2, <1>4, <1>8, SettledStays DEF Settled, InCycle, AfterRows, Asking
<1>10. CycleRows
  BY DEF ScannerInv
<1>11. CycleRows'
  BY <1>1, <1>2, <1>10, CycleStays DEF AfterRows
<1>12. PendingRows'
  <2>1. ASSUME NEW s \in DOMAIN scanRows, scanRows[s].state = "pending"
        PROVE  \E i \in 1..Len(q) : s \in AskedOf(q[i], directory)
    <3>1. s \in Universe(directory)
      BY <1>1, <1>10, <2>1 DEF CycleRows, AfterRows, RowIsDue
    <3>2. PICK class \in ScanClasses : s \in AskedOf(class, directory)
      BY <1>1, <3>1, EveryoneIsAsked DEF Settled, ScanTypes
    <3>3. PICK i \in 1..Len(q) : q[i] = class
      BY <1>6, <3>2 DEF Within
    <3>4. QED BY <3>2, <3>3
  <2>2. QED BY <1>1, <1>2, <1>7, <2>1 DEF PendingRows
<1>13. DaysInv'
  BY <1>1, <1>2, DaysStay DEF ScannerInv, AskClock, AfterRows, Asking
<1>14. BatchInv' /\ AnswersInv' /\ FilesInv'
  BY <1>1, <1>2, <1>3 DEF BatchInv, AnswersInv, FilesInv, Settled
<1>15. QED BY <1>9, <1>11, <1>12, <1>13, <1>14 DEF ScannerInv

LEMMA BeginBatchKeeps ==
  ASSUME ScannerInv, NEW outcome \in Outcomes, BeginBatch(outcome)
  PROVE  ScannerInv'
<1>1. Settled /\ scanStage = "batch" /\ batches # << >> /\ DOMAIN answers = {}
  BY DEF ScannerInv, BeginBatch, Settled
<1>2. /\ UNCHANGED <<directory, previous, scanRows, answers, snapshot, budget, troubled, exchange, batches, savedDirectory, savedLatest,
                     scans, hour, noted, lagging>>
      /\ asks' = IF Head(batches) = "stocks" THEN <<[symbols |-> ScanOrder("stocks"), extra |-> FALSE]>> ELSE << >>
  BY DEF BeginBatch
<1>3. savedStatus.status # "healthy" /\ savedStatus'.status # "healthy"
  BY <1>1 DEF BeginBatch, ScannerInv, FilesInv, InCycle, AfterRows, Asking, Write, StatusOfScan
<1>4. HealthyIsTrue'
  BY <1>3 DEF HealthyIsTrue
<1>5. \/ scanStage' = "aborted"
      \/ scanStage' = "ask" /\ Head(batches) = "stocks"
      \/ scanStage' = "single" /\ Head(batches) # "stocks"
  BY DEF BeginBatch, Then
<1>6. PICK o \in Seq(ScanSymbols) : o = ScanOrder("stocks") /\ Range(o) = AskedOf("stocks", directory)
  BY ScanOrderIs DEF ScanClasses
<1>7. PICK e : e = [symbols |-> o, extra |-> FALSE]
  OBVIOUS
<1>8. e \in ScanAsk /\ e.symbols = o
  BY <1>7 DEF ScanAsk
<1>9. asks' = IF Head(batches) = "stocks" THEN <<e>> ELSE << >>
  BY <1>2, <1>6, <1>7
<1>10. ScanTypes'
  <2>1. faults' \in Nat
    BY <1>1 DEF BeginBatch, Write, Faulty, Settled, ScanTypes
  <2>2. scanStage' \in ScanStages /\ scanStage \in InCycle
    BY <1>1, <1>5 DEF ScanStages, InCycle, AfterRows, Asking, ScanRest
  <2>3. asks' \in Seq(ScanAsk)
    BY <1>8, <1>9
  <2>4. QED BY <1>1, <1>2, <2>1, <2>2, <2>3 DEF Settled, ScanTypes
<1>11. Settled'
  BY <1>1, <1>2, <1>4, <1>10, SettledStays DEF Settled, InCycle, AfterRows, Asking
<1>12. CASE scanStage' = "aborted"
  BY <1>11, <1>12, AtRest DEF ScanRest
<1>13. CASE scanStage' \in {"ask", "single"}
  <2>1. CycleRows'
    BY <1>1, <1>2, CycleStays DEF ScannerInv, AfterRows, Asking
  <2>2. PendingRows'
    BY <1>1, <1>2, <1>13 DEF ScannerInv, PendingRows, Asking
  <2>3. DaysInv'
    BY <1>1, <1>2, <1>13, DaysStay DEF ScannerInv, AfterRows, Asking
  <2>4. BatchInv' /\ FilesInv'
    BY <1>1, <1>2, <1>3, <1>5, <1>9, <1>13 DEF BatchInv, FilesInv
  <2>5. ASSUME scanStage' = "ask", NEW s PROVE Covers(asks', s) <=> s \in AskedOf("stocks", directory)
    BY <1>5, <1>9, <2>5, <1>6, <1>8 DEF Covers
  <2>6. AnswersInv'
    BY <1>1, <1>2, <1>13, <2>5 DEF AnswersInv
  <2>7. QED BY <1>11, <2>1, <2>2, <2>3, <2>4, <2>6 DEF ScannerInv
<1>14. QED BY <1>5, <1>12, <1>13

LEMMA HeartbeatKeeps ==
  ASSUME ScannerInv, HeartbeatFails
  PROVE  ScannerInv'
<1>1. Settled /\ scanStage = "ask" /\ scanStage' = "aborted"
  BY DEF ScannerInv, HeartbeatFails
<1>2. HealthyIsTrue'
  BY <1>1 DEF HeartbeatFails, Settled, HealthyIsTrue
<1>3. ScanTypes'
  BY <1>1 DEF HeartbeatFails, Faulty, Settled, ScanTypes, ScanStages, ScanRest, InCycle, EarlyStages, AfterRows,
    Asking, cycleVars
<1>4. Settled'
  BY <1>1, <1>2, <1>3, SettledStays DEF HeartbeatFails, cycleVars, Settled, InCycle, AfterRows, Asking
<1>5. QED BY <1>1, <1>4, AtRest DEF ScanRest

LEMMA ServedIs ==
  ASSUME snapshot \in Snapshots, NEW s \in ScanSymbols
  PROVE  /\ snapshot[s].kind # "barred" => GoodAnswer(snapshot[s])
         /\ snapshot[s] # Failure
         /\ s \in Range(Coins) \cup Range(Proxies) => snapshot[s].kind # "barred"
BY ScannerAssumption DEF ScanSymbols, Failure, GoodAnswer

LEMMA FailedIs == GoodAnswer(Failure)
BY DEF Failure, GoodAnswer, NoData

\* A refusal settles a request only for a single symbol, which is barred.
LEMMA SingleSymbol ==
  ASSUME NEW x \in Seq(ScanSymbols), Len(x) <= 1, NEW s \in Range(x), NEW t \in Range(x)
  PROVE  s = t
<1>1. PICK i \in 1..Len(x) : x[i] = s
  BY DEF Range
<1>2. PICK k \in 1..Len(x) : x[k] = t
  BY DEF Range
<1>3. QED BY <1>1, <1>2

LEMMA AskStocksKeeps ==
  ASSUME ScannerInv, NEW reply \in {"payload", "forbidden", "error"}, AskStocks(reply)
  PROVE  ScannerInv'
<1>1. /\ Settled /\ scanStage = "ask" /\ batches # << >> /\ Head(batches) = "stocks" /\ asks # << >> /\ snapshot \in Snapshots
      /\ asks \in Seq(ScanAsk) /\ budget \in 0..IsolationBudget /\ faults \in Nat
  BY DEF ScannerInv, AskStocks, BatchInv, Settled, ScanTypes, InCycle, AfterRows, Asking
<1>2. UNCHANGED <<directory, previous, scanRows, snapshot, exchange, batches, savedDirectory, savedLatest, savedStatus, scans, hour, noted, lagging>>
  BY DEF AskStocks
<1>3. PICK ask \in ScanAsk : ask = Head(asks)
  BY <1>1
<1>4. PICK symbols \in Seq(ScanSymbols) : symbols = ask.symbols
  BY DEF ScanAsk
<1>5. PICK left : left = IF ask.extra /\ ~Exhausted(ask) THEN budget - 1 ELSE budget
  OBVIOUS
<1>6. left \in 0..IsolationBudget /\ left <= budget
  <2>1. IsolationBudget \in Nat
    BY ScannerAssumption
  <2>2. ask.extra \in BOOLEAN
    BY DEF ScanAsk
  <2>3. CASE ask.extra /\ ~Exhausted(ask)
    BY <1>1, <2>3, <1>5, <2>1 DEF Exhausted
  <2>4. CASE ~(ask.extra /\ ~Exhausted(ask))
    BY <1>1, <1>5, <2>1, <2>4
  <2>5. QED BY <2>3, <2>4
<1>7. PICK again : again = IF reply = "forbidden" THEN AfterRefusal(ask, left) ELSE << >>
  OBVIOUS
<1>8. /\ again \in Seq(ScanAsk)
      /\ again # << >> => \A s : Covers(again, s) <=> s \in Range(symbols)
      /\ again = << >> /\ reply = "forbidden" => Len(symbols) <= 1
  <2>1. CASE reply = "forbidden"
    <3>1. left \in Int
      BY <1>6
    <3>2. PICK q : q = AfterRefusal(ask, left)
      OBVIOUS
    <3>3. /\ q \in Seq(ScanAsk)
          /\ q # << >> => \A s : Covers(q, s) <=> s \in Range(ask.symbols)
          /\ q = << >> => Len(ask.symbols) <= 1
      BY <3>1, <3>2, RefusalIs
    <3>4. again = q
      BY <1>7, <2>1, <3>2
    <3>5. QED BY <1>4, <3>3, <3>4
  <2>2. CASE reply # "forbidden"
    BY <1>7, <2>2
  <2>3. QED BY <2>1, <2>2
<1>9. /\ Exhausted(ask) => reply = "error"
      /\ reply = "payload" => Barred(symbols) = {}
      /\ budget' = left /\ asks' = again \o Tail(asks)
      /\ again # << >> => answers' = answers
      /\ again = << >> => answers' = Answered(symbols, IF reply = "payload" THEN Served(symbols) ELSE Failed(symbols))
      /\ Faulty(~Exhausted(ask) /\ reply # IF Barred(symbols) = {} THEN "payload" ELSE "forbidden")
      /\ scanStage' = IF asks' = << >> THEN "record" ELSE "ask"
  BY <1>3, <1>4, <1>5, <1>7 DEF AskStocks
<1>10. faults' \in Nat /\ (faults' = 0 => faults = 0 /\ (Exhausted(ask) \/ reply = IF Barred(symbols) = {} THEN "payload" ELSE "forbidden"))
  <2>1. PICK wrong \in BOOLEAN : wrong <=> (~Exhausted(ask) /\ reply # IF Barred(symbols) = {} THEN "payload" ELSE "forbidden")
    OBVIOUS
  <2>2. faults' = faults + (IF wrong THEN 1 ELSE 0)
    BY <1>9, <2>1 DEF Faulty
  <2>3. faults' \in Nat /\ (faults' = 0 => faults = 0 /\ ~wrong)
    BY <1>1, <2>2
  <2>4. QED BY <2>1, <2>3
<1>11. /\ Tail(asks) \in Seq(ScanAsk) /\ asks' \in Seq(ScanAsk)
       /\ \A s : Covers(asks, s) <=> s \in Range(symbols) \/ Covers(Tail(asks), s)
       /\ \A s : Covers(asks', s) <=> Covers(again, s) \/ Covers(Tail(asks), s)
  BY <1>1, <1>3, <1>4, <1>8, <1>9, QueueCovers
<1>12. /\ DOMAIN answers \subseteq AskedOf("stocks", directory)
       /\ \A s : Covers(asks, s) => s \in AskedOf("stocks", directory)
       /\ \A s \in AskedOf("stocks", directory) : s \in DOMAIN answers \/ Covers(asks, s)
       /\ \A s \in DOMAIN answers :
             /\ snapshot[s].kind = "barred" => answers[s] = Failure
             /\ faults = 0 /\ budget > 0 /\ answers[s] = Failure => snapshot[s].kind = "barred"
       /\ \A s \in DOMAIN answers : GoodAnswer(answers[s])
  BY <1>1 DEF ScannerInv, AnswersInv, Settled
<1>13. \A s \in Range(symbols) : s \in AskedOf("stocks", directory) /\ s \in ScanSymbols
  BY <1>11, <1>12 DEF AskedOf, Symbols, ScanSymbols
\* What the request settles.
<1>14. /\ DOMAIN answers' \subseteq AskedOf("stocks", directory)
       /\ \A s : Covers(asks', s) => s \in AskedOf("stocks", directory)
       /\ \A s \in AskedOf("stocks", directory) : s \in DOMAIN answers' \/ Covers(asks', s)
       /\ \A s \in DOMAIN answers' :
             /\ snapshot[s].kind = "barred" => answers'[s] = Failure
             /\ faults' = 0 /\ budget' > 0 /\ answers'[s] = Failure => snapshot[s].kind = "barred"
       /\ \A s \in DOMAIN answers' : GoodAnswer(answers'[s])
  <2>1. CASE again # << >>
    BY <1>1, <1>6, <1>9, <1>10, <2>1, <1>8, <1>11, <1>12
  <2>2. CASE again = << >>
    <3>1. ~\E s : Covers(again, s)
      BY <2>2 DEF Covers
    <3>2. PICK given : given = IF reply = "payload" THEN Served(symbols) ELSE Failed(symbols)
      OBVIOUS
    <3>3. answers' = [s \in DOMAIN answers \cup Range(symbols) |-> IF s \in Range(symbols) THEN given[s] ELSE answers[s]]
      BY <1>9, <2>2, <3>2 DEF Answered
    <3>4. DOMAIN answers' = DOMAIN answers \cup Range(symbols)
      BY <3>3
    <3>5. \A s \in DOMAIN answers' : answers'[s] = IF s \in Range(symbols) THEN given[s] ELSE answers[s]
      BY <3>3
    <3>6. \A s \in Range(symbols) : given[s] = IF reply = "payload" THEN snapshot[s] ELSE Failure
      BY <3>2 DEF Served, Failed
    <3>7. ASSUME NEW s \in Range(symbols)
          PROVE  /\ GoodAnswer(given[s]) /\ (snapshot[s].kind = "barred" => given[s] = Failure)
                 /\ faults' = 0 /\ budget' > 0 /\ given[s] = Failure => snapshot[s].kind = "barred"
      <4>1. CASE reply = "payload"
        BY <1>9, <4>1, <1>1, <1>13, <3>6, ServedIs DEF Barred
      <4>2. CASE reply # "payload"
        <5>1. given[s] = Failure /\ GoodAnswer(Failure)
          BY <3>6, <4>2, FailedIs
        <5>2. ASSUME faults' = 0, budget' > 0 PROVE snapshot[s].kind = "barred"
          <6>1. ~Exhausted(ask)
            BY <1>1, <1>6, <1>9, <5>2 DEF Exhausted
          <6>2. Barred(symbols) # {} /\ reply = "forbidden"
            BY <1>10, <4>2, <5>2, <6>1
          <6>3. PICK t \in Range(symbols) : snapshot[t].kind = "barred"
            BY <6>2 DEF Barred
          <6>4. s = t
            BY <1>8, <2>2, <6>2, SingleSymbol
          <6>5. QED BY <6>3, <6>4
        <5>3. QED BY <5>1, <5>2
      <4>3. QED BY <4>1, <4>2
    <3>8. (budget' > 0 => budget > 0) /\ (faults' = 0 => faults = 0)
      BY <1>1, <1>6, <1>9, <1>10
    <3>9. \A s : Covers(asks', s) <=> Covers(Tail(asks), s)
      BY <1>11, <3>1
    <3>10. ASSUME NEW s \in DOMAIN answers'
           PROVE  /\ GoodAnswer(answers'[s]) /\ (snapshot[s].kind = "barred" => answers'[s] = Failure)
                  /\ faults' = 0 /\ budget' > 0 /\ answers'[s] = Failure => snapshot[s].kind = "barred"
      <4>1. CASE s \in Range(symbols)
        BY <3>5, <3>7, <4>1
      <4>2. CASE s \notin Range(symbols)
        BY <1>12, <3>4, <3>5, <3>8, <4>2
      <4>3. QED BY <4>1, <4>2
    <3>11. DOMAIN answers' \subseteq AskedOf("stocks", directory)
      BY <1>12, <1>13, <3>4
    <3>12. \A s : Covers(asks', s) => s \in AskedOf("stocks", directory)
      BY <1>11, <1>12, <3>9
    <3>13. \A s \in AskedOf("stocks", directory) : s \in DOMAIN answers' \/ Covers(asks', s)
      BY <1>11, <1>12, <3>4, <3>9
    <3>14. QED BY <3>10, <3>11, <3>12, <3>13
  <2>3. QED BY <2>1, <2>2
<1>15. savedStatus.status # "healthy"
  BY <1>1 DEF ScannerInv, FilesInv, InCycle, AfterRows, Asking
<1>16. HealthyIsTrue'
  BY <1>2, <1>15 DEF HealthyIsTrue
<1>17. scanStage' \in {"ask", "record"}
  BY <1>9
<1>18. ScanTypes'
  BY <1>17, <1>1, <1>2, <1>6, <1>9, <1>10, <1>11 DEF ScanStages, InCycle, AfterRows, Asking, Settled, ScanTypes
<1>19. Settled'
  BY <1>1, <1>2, <1>14, <1>16, <1>17, <1>18, SettledStays DEF Settled, InCycle, AfterRows, Asking
<1>20. CycleRows'
  BY <1>1, <1>2, CycleStays DEF ScannerInv, AfterRows, Asking
<1>21. PendingRows'
  BY <1>1, <1>2, <1>17 DEF ScannerInv, PendingRows, Asking
<1>22. DaysInv'
  BY <1>1, <1>2, <1>17, DaysStay DEF ScannerInv, AskStocks, AfterRows, Asking
<1>23. BatchInv' /\ FilesInv'
  BY <1>1, <1>2, <1>9, <1>15, <1>17 DEF BatchInv, FilesInv
<1>24. AnswersInv'
  <2>1. ASSUME scanStage' = "record" PROVE DOMAIN answers' = AskedOf("stocks", directory)
    <3>1. asks' = << >>
      BY <1>9, <2>1
    <3>2. ~\E s : Covers(asks', s)
      BY <3>1 DEF Covers
    <3>3. QED BY <1>14, <3>2
  <2>2. QED BY <1>1, <1>2, <1>14, <1>17, <2>1 DEF AnswersInv
<1>25. QED BY <1>19, <1>20, <1>21, <1>22, <1>23, <1>24 DEF ScannerInv

LEMMA AskSingleKeeps ==
  ASSUME ScannerInv, NEW failed \in BOOLEAN, AskSingle(failed)
  PROVE  ScannerInv'
<1>1. /\ Settled /\ scanStage = "single" /\ scanStage' = "record" /\ batches \in Seq(ScanClasses) /\ batches # << >>
      /\ Head(batches) # "stocks" /\ snapshot \in Snapshots
  BY DEF ScannerInv, AskSingle, BatchInv, Settled, ScanTypes, InCycle, AfterRows, Asking
<1>2. UNCHANGED <<directory, previous, scanRows, asks, snapshot, budget, exchange, batches, savedDirectory, savedLatest, savedStatus,
                  scans, hour, noted, lagging>>
  BY DEF AskSingle
<1>3. PICK class \in ScanClasses : class = Head(batches)
  BY <1>1
<1>4. PICK symbols \in Seq(ScanSymbols) : symbols = ScanOrder(class) /\ Range(symbols) = AskedOf(class, directory)
  BY ScanOrderIs
<1>5. answers' = IF failed THEN Failed(symbols) ELSE Served(symbols)
  BY <1>3, <1>4 DEF AskSingle
<1>6. DOMAIN answers' = Range(symbols) /\ \A s \in Range(symbols) : answers'[s] = IF failed THEN Failure ELSE snapshot[s]
  <2>1. CASE failed
    BY <1>5, <2>1 DEF Failed
  <2>2. CASE ~failed
    BY <1>5, <2>2 DEF Served
  <2>3. QED BY <2>1, <2>2
<1>7. ASSUME NEW s \in Range(symbols) PROVE GoodAnswer(answers'[s])
  BY <1>1, <1>3, <1>4, ServedIs, <1>6, FailedIs DEF AskedOf, Symbols, ScanClasses, ScanSymbols
<1>8. savedStatus.status # "healthy"
  BY <1>1 DEF ScannerInv, FilesInv, InCycle, AfterRows, Asking
<1>9. HealthyIsTrue'
  BY <1>2, <1>8 DEF HealthyIsTrue
<1>10. ScanTypes'
  BY <1>1, <1>2 DEF AskSingle, Faulty, Settled, ScanTypes, ScanStages, InCycle, AfterRows, Asking
<1>11. Settled'
  BY <1>1, <1>2, <1>6, <1>7, <1>9, <1>10, SettledStays DEF Settled, InCycle, AfterRows, Asking
<1>12. CycleRows'
  BY <1>1, <1>2, CycleStays DEF ScannerInv, AfterRows, Asking
<1>13. PendingRows'
  BY <1>1, <1>2 DEF ScannerInv, PendingRows, Asking
<1>14. DaysInv'
  BY <1>1, <1>2, DaysStay DEF ScannerInv, AskSingle, AfterRows, Asking
<1>15. BatchInv' /\ FilesInv'
  BY <1>1, <1>2, <1>8 DEF BatchInv, FilesInv
<1>16. AnswersInv'
  BY <1>1, <1>2, <1>3, <1>4, <1>6 DEF AnswersInv
<1>17. QED BY <1>11, <1>12, <1>13, <1>14, <1>15, <1>16 DEF ScannerInv

LEMMA RecordBatchKeeps ==
  ASSUME ScannerInv, NEW outcome \in Outcomes, RecordBatch(outcome)
  PROVE  ScannerInv'
<1>1. /\ Settled /\ scanStage = "record" /\ batches \in Seq(ScanClasses) /\ batches # << >>
      /\ DOMAIN answers = AskedOf(Head(batches), directory) /\ hour \in Nat
  BY ScannerAssumption DEF ScannerInv, RecordBatch, BatchInv, AnswersInv, Settled, ScanTypes
<1>2. UNCHANGED <<directory, previous, asks, snapshot, budget, troubled, exchange, savedDirectory, savedLatest, scans, hour, noted, lagging>>
  BY DEF RecordBatch
<1>3. PICK rest \in Seq(ScanClasses) : rest = Tail(batches)
  <2>1. PICK q \in Seq(ScanClasses) : q = batches
    BY <1>1
  <2>2. q # << >>
    BY <1>1, <2>1
  <2>3. Tail(q) \in Seq(ScanClasses)
    BY <2>2
  <2>4. QED BY <2>1, <2>3
<1>4. PICK m \in Nat : m = Len(rest)
  OBVIOUS
<1>5. Len(batches) = m + 1 /\ Head(batches) = batches[1] /\ \A i \in 1..m : rest[i] = batches[i + 1]
  BY <1>1, <1>3, <1>4
<1>6. batches' = rest /\ DOMAIN answers' = {}
  BY <1>3, NoRowsAre DEF RecordBatch
<1>7. \/ scanStage' = "aborted"
      \/ scanStage' = "publish" /\ rest = << >>
      \/ scanStage' = "batch" /\ rest # << >>
  BY <1>6 DEF RecordBatch, Then
<1>8. savedStatus.status # "healthy" /\ savedStatus'.status # "healthy"
  BY <1>1 DEF RecordBatch, ScannerInv, FilesInv, InCycle, AfterRows, Asking, Write, StatusOfScan
<1>9. HealthyIsTrue'
  BY <1>8 DEF HealthyIsTrue
<1>10. /\ Universe(directory) \subseteq DOMAIN scanRows
       /\ \A s \in DOMAIN scanRows : RowIsDue(scanRows[s], s, directory, previous, noted.start)
       /\ \A s \in DOMAIN previous \ DOMAIN scanRows : Dropped(previous[s], DOMAIN scanRows, noted.start)
  BY <1>1 DEF ScannerInv, CycleRows, AfterRows, Asking
<1>11. /\ \A s \in DOMAIN previous : GoodRow(previous[s], hour)
       /\ \A s \in DOMAIN scanRows : GoodRow(scanRows[s], hour)
       /\ \A s \in DOMAIN answers : GoodAnswer(answers[s])
  BY <1>1 DEF Settled, RowsAreGood
<1>12. /\ DOMAIN scanRows' = DOMAIN scanRows
       /\ \A s \in DOMAIN scanRows : scanRows'[s] = IF s \in DOMAIN answers THEN ObserveSymbol(s, answers[s]) ELSE scanRows[s]
  BY DEF RecordBatch
<1>13. ASSUME NEW s \in DOMAIN scanRows
       PROVE  /\ GoodRow(scanRows'[s], hour) /\ RowIsDue(scanRows'[s], s, directory, previous, noted.start)
              /\ s \in DOMAIN answers => scanRows'[s].state # "pending"
  <2>1. CASE s \in DOMAIN answers
    <3>1. PICK r : r = ObserveSymbol(s, answers[s])
      OBVIOUS
    <3>2. PICK a : a = answers[s] /\ GoodAnswer(a)
      BY <1>11, <2>1
    <3>3. /\ GoodRow(r, hour) /\ Lively(r) /\ r.state # "pending"
          /\ Weak(r) \/ r.asof >= hour - LimitOf(s, r)
          /\ s \in DOMAIN previous => Follows(r, previous[s])
      BY <1>1, <1>11, <3>1, <3>2, ObserveIs
    <3>4. s \in Universe(directory)
      BY <1>1, <2>1 DEF AskedOf
    <3>7. UpToDate(r, s, noted.start)
      <4>1. PICK most \in Int : most = LimitOf(s, r)
        BY LimitsAre
      <4>2. r.asof \in Int /\ noted.start \in 0..hour
        BY <1>1, <3>3 DEF GoodRow, ScanRow, Settled, NotedInv
      <4>3. QED BY <1>1, <3>3, <4>1, <4>2 DEF UpToDate
    <3>5. RowIsDue(r, s, directory, previous, noted.start)
      BY <3>3, <3>4, <3>7 DEF RowIsDue, Lively
    <3>6. QED BY <1>12, <2>1, <3>1, <3>3, <3>5
  <2>2. CASE s \notin DOMAIN answers
    BY <1>10, <1>11, <1>12, <2>2
  <2>3. QED BY <2>1, <2>2
<1>14. ScanTypes'
  BY <1>1, <1>7, <1>2, <1>6 DEF RecordBatch, Write, Faulty, Settled, ScanTypes, ScanStages, ScanRest, InCycle,
    AfterRows, Asking
<1>15. Settled'
  <2>1. NotedInv'
    BY <1>1, <1>2 DEF Settled, NotedInv, InCycle, EarlyStages, AfterRows, Asking
  <2>2. QED BY <1>1, <1>2, <1>12, <1>13, <1>6, <1>9, <1>14, <2>1 DEF Settled, RowsAreGood, SavedInv
<1>16. CASE scanStage' = "aborted"
  BY <1>15, <1>16, AtRest DEF ScanRest
<1>17. CASE scanStage' \in {"publish", "batch"}
  <2>1. CycleRows'
    BY <1>2, <1>10, <1>12, <1>13 DEF CycleRows
  <2>2. ASSUME NEW s \in DOMAIN scanRows, scanRows'[s].state = "pending"
        PROVE  \E i \in 1..m : s \in AskedOf(rest[i], directory)
    <3>1. s \notin DOMAIN answers /\ scanRows'[s] = scanRows[s]
      BY <1>12, <1>13, <2>2
    <3>2. PICK i \in 1..Len(batches) : s \in AskedOf(batches[i], directory)
      BY <1>1, <2>2, <3>1 DEF ScannerInv, PendingRows, Asking
    <3>3. i # 1
      BY <1>1, <1>5, <3>1, <3>2
    <3>4. PICK k \in 1..m : k = i - 1 /\ k + 1 = i
      BY <1>5, <3>3
    <3>5. rest[k] = batches[i]
      BY <1>5, <3>4
    <3>6. QED BY <3>2, <3>5
  <2>3. PendingRows'
    BY <1>4, <1>7, <1>2, <1>6, <1>12, <2>2 DEF PendingRows
  <2>4. DaysInv'
    BY <1>1, <1>2, <1>17, DaysStay DEF ScannerInv, AfterRows, Asking
  <2>5. BatchInv' /\ FilesInv' /\ AnswersInv'
    BY <1>8, <1>17 DEF BatchInv, FilesInv, AnswersInv
  <2>6. QED BY <1>15, <2>1, <2>3, <2>4, <2>5 DEF ScannerInv
<1>18. QED BY <1>7, <1>16, <1>17

LEMMA PublishRowsKeeps ==
  ASSUME ScannerInv, NEW plenty \in BOOLEAN, NEW outcome \in Outcomes, PublishRows(plenty, outcome)
  PROVE  ScannerInv'
<1>1. Settled /\ scanStage = "publish" /\ hour \in Nat /\ DOMAIN answers = {}
  BY ScannerAssumption DEF ScannerInv, PublishRows, Settled, ScanTypes
<1>2. UNCHANGED <<directory, previous, scanRows, asks, answers, snapshot, budget, troubled, exchange, batches, savedDirectory, savedStatus,
                  scans, hour, noted>>
  BY DEF PublishRows, cycleVars
<1>3. PICK new : new = [rows |-> scanRows, listed |-> Universe(directory), scan |-> scans, start |-> noted.start, at |-> hour]
  OBVIOUS
<1>4. new.rows = scanRows /\ new.listed = Universe(directory) /\ new.scan = scans /\ new.start = noted.start /\ new.at = hour
  BY <1>3
<1>5. \/ savedLatest' = savedLatest /\ scanStage' = "aborted" /\ (lagging => lagging')
      \/ savedLatest' = new /\ scanStage' \in {"status", "aborted"} /\ lagging'
  <2>1. CASE ~plenty
    BY <2>1 DEF PublishRows
  <2>2. CASE plenty /\ outcome = "refused"
    BY <2>2 DEF PublishRows, Write, Then
  <2>3. CASE plenty /\ outcome # "refused"
    BY <1>3, <2>3 DEF PublishRows, Write, Then
  <2>4. QED BY <2>1, <2>2, <2>3
<1>6. savedStatus.status # "healthy"
  BY <1>1 DEF ScannerInv, FilesInv, InCycle, AfterRows
<1>7. HealthyIsTrue'
  BY <1>2, <1>6 DEF HealthyIsTrue
<1>8. /\ Universe(directory) \subseteq DOMAIN scanRows
      /\ \A s \in DOMAIN scanRows : RowIsDue(scanRows[s], s, directory, previous, noted.start) /\ scanRows[s].state # "pending"
      /\ \A s \in DOMAIN scanRows : GoodRow(scanRows[s], hour)
  BY <1>1 DEF ScannerInv, CycleRows, AfterRows, PendingRows, Settled, RowsAreGood
<1>9. SavedInv' /\ \A s \in DOMAIN savedLatest'.rows : GoodRow(savedLatest'.rows[s], hour)
  <2>1. CASE savedLatest' = savedLatest
    BY <1>1, <2>1 DEF Settled, SavedInv, RowsAreGood
  <2>2. CASE savedLatest' = new
    <3>1. ASSUME NEW s \in DOMAIN scanRows
          PROVE  IF scanRows[s].active THEN Lively(scanRows[s]) /\ UpToDate(scanRows[s], s, noted.start)
                 ELSE scanRows[s].since \in noted.start - Retention .. noted.start
      BY <1>8 DEF RowIsDue
    <3>2. Universe(directory) = {s \in DOMAIN scanRows : scanRows[s].active}
      BY <1>8 DEF RowIsDue
    <3>5. noted.start \in Nat
      BY <1>1 DEF Settled, NotedInv
    <3>3. SavedInv'
      BY <1>1, <1>4, <1>8, <2>2, <3>1, <3>2, <3>5 DEF SavedInv
    <3>4. QED BY <1>4, <1>8, <2>2, <3>3
  <2>3. QED BY <1>5, <2>1, <2>2
<1>10. ScanTypes'
  BY <1>1, <1>5, <1>2 DEF PublishRows, Write, Faulty, Settled, ScanTypes, ScanStages, ScanRest, InCycle, AfterRows
<1>11. Settled'
  <2>1. NotedInv'
    BY <1>1, <1>2 DEF Settled, NotedInv, InCycle, EarlyStages, AfterRows
  <2>2. QED BY <1>1, <1>2, <1>9, <1>5, <1>7, <1>10, <2>1 DEF Settled, RowsAreGood
<1>12. CASE scanStage' = "aborted"
  BY <1>11, <1>12, AtRest DEF ScanRest
<1>15. noted.look <= hour
  BY <1>1 DEF Settled, NotedInv
<1>13. CASE scanStage' = "status"
  BY <1>5, <1>15, <1>13, <1>1, <1>2, DaysStay, <1>4, <1>6, <1>11 DEF ScannerInv, AfterRows, FilesInv, CycleRows, PendingRows,
    BatchInv, AnswersInv, Asking
<1>14. QED BY <1>5, <1>12, <1>13

LEMMA PublishStatusKeeps ==
  ASSUME ScannerInv, NEW outcome \in Outcomes, PublishStatus(outcome)
  PROVE  ScannerInv'
<1>1. Settled /\ scanStage = "status" /\ scanStage' \in {"history", "aborted"} /\ DOMAIN answers = {}
  BY DEF ScannerInv, PublishStatus, Then, Settled
<1>2. /\ UNCHANGED <<directory, previous, scanRows, asks, answers, snapshot, budget, troubled, exchange, batches, savedDirectory,
                     savedLatest, scans, hour, noted, lagging>>
      /\ savedStatus' = savedStatus \/ savedStatus' = StatusOfScan(ScanVerdict)
  BY DEF PublishStatus, cycleVars, Write
<1>3. /\ savedStatus.status # "healthy" /\ savedLatest.rows = scanRows /\ savedLatest.scan = scans
      /\ savedLatest.start = noted.start /\ savedLatest.at \in Nat /\ noted.look <= savedLatest.at
      /\ savedLatest.listed = Universe(directory) /\ savedDirectory = directory
      /\ troubled \/ directory["stocks"].day = LookDay
      /\ troubled \/ directory["coins"].day = LookDay
  BY <1>1 DEF ScannerInv, FilesInv, DaysInv, InCycle, EarlyStages
<1>4. HealthyIsTrue'
  <2>1. CASE savedStatus' = savedStatus
    BY <1>3, <2>1 DEF HealthyIsTrue
  <2>2. CASE savedStatus' = StatusOfScan(ScanVerdict)
    <3>1. savedStatus'.status = ScanVerdict /\ savedStatus'.scan = scans
      BY <2>2 DEF StatusOfScan
    <3>2. SUFFICES ASSUME savedStatus'.status = "healthy" PROVE HealthyIsTrue'
      BY DEF HealthyIsTrue
    <3>3. ~troubled /\ \A s \in DOMAIN scanRows : ~Weak(scanRows[s])
      BY <3>1, <3>2 DEF ScanVerdict
    <3>4. ASSUME NEW s \in savedLatest.listed PROVE SoundAt(s, savedLatest.rows[s], savedLatest.start)
      BY <1>1, <1>3, <3>3 DEF Settled, SavedInv, Lively, UpToDate, SoundAt
    <3>5. /\ noted.look \in savedLatest.start .. savedLatest.at
          /\ \A c \in Range(Listed) : savedDirectory[c].day = noted.look \div DayLength
      BY ListedClasses, <1>1, <1>3, <3>3 DEF LookDay, Settled, NotedInv, InCycle, EarlyStages
    <3>6. UNCHANGED <<savedLatest, savedDirectory>>
      BY <1>2
    <3>7. savedLatest.scan = savedStatus'.scan /\ Universe(savedDirectory) = savedLatest.listed
      BY <1>3, <3>1
    <3>8. QED BY <3>4, <3>5, <3>6, <3>7 DEF HealthyIsTrue
  <2>3. QED BY <1>2, <2>1, <2>2
<1>5. ScanTypes'
  BY <1>1, <1>2 DEF PublishStatus, Write, Faulty, Settled, ScanTypes, ScanStages, ScanRest, InCycle, EarlyStages,
    AfterRows, Asking
<1>6. Settled'
  BY <1>1, <1>2, <1>4, <1>5, SettledStays DEF Settled, InCycle, EarlyStages
<1>7. CASE scanStage' = "aborted"
  BY <1>6, <1>7, AtRest DEF ScanRest
<1>8. CASE scanStage' = "history"
  BY <1>2, <1>3, <1>6, <1>8
     DEF ScannerInv, CycleRows, PendingRows, BatchInv, AnswersInv, DaysInv, FilesInv, InCycle, EarlyStages, AfterRows, Asking
<1>9. QED BY <1>1, <1>7, <1>8

\* The end of a cycle.
LEMMA EndedTypes ==
  ASSUME ScanTypes, CycleEnds, scanStage' \in ScanRest, UNCHANGED <<savedDirectory, scans, hour, directory>>, faults' \in Nat
  PROVE  ScanTypes' /\ DOMAIN scanRows' = {} /\ DOMAIN answers' = {}
BY ScannerAssumption, NoRowsAre DEF ScanRest, ScanStages, InCycle, EarlyStages, AfterRows, Asking, CycleEnds,
  ScanTypes

LEMMA FinishKeeps ==
  ASSUME ScannerInv, NEW outcome \in Outcomes, FinishScan(outcome)
  PROVE  ScannerInv'
<1>1. Settled /\ scanStage = "history" /\ scanStage' \in ScanRest /\ savedLatest.rows = scanRows
  BY DEF ScannerInv, FilesInv, FinishScan, Then, ScanRest
<1>2. previous' = scanRows /\ UNCHANGED <<directory, savedDirectory, savedLatest, savedStatus, scans, hour>> /\ CycleEnds
  BY DEF FinishScan
<1>3. faults' \in Nat
  BY <1>1 DEF FinishScan, Faulty, Settled, ScanTypes
<1>4. ScanTypes' /\ DOMAIN scanRows' = {} /\ DOMAIN answers' = {}
  BY <1>1, <1>2, <1>3, EndedTypes DEF Settled
<1>5. HealthyIsTrue' /\ SavedInv' /\ RowsAreGood'
  BY <1>1, <1>2, <1>4 DEF Settled, HealthyIsTrue, SavedInv, RowsAreGood
<1>8. NotedInv'
  BY <1>1, <1>2, EndNotes DEF Settled, ScanTypes
<1>6. Settled'
  BY <1>1, <1>2, <1>4, <1>5, <1>2, <1>8 DEF Settled
<1>7. QED BY <1>1, <1>6, AtRest

LEMMA KillScannerKeeps ==
  ASSUME ScannerInv, KillScanner
  PROVE  ScannerInv'
<1>1. Settled /\ scanStage' = "down" /\ scanStage' \in ScanRest
  BY DEF ScannerInv, KillScanner, ScanRest
<1>2. UNCHANGED <<directory, previous, savedDirectory, savedLatest, savedStatus, scans, hour, lagging>> /\ CycleEnds
  BY DEF KillScanner
<1>3. faults' \in Nat
  BY <1>1 DEF KillScanner, Settled, ScanTypes
<1>4. ScanTypes' /\ DOMAIN scanRows' = {} /\ DOMAIN answers' = {}
  BY <1>1, <1>2, <1>3, EndedTypes DEF Settled
<1>5. HealthyIsTrue' /\ SavedInv' /\ RowsAreGood'
  BY <1>1, <1>2, <1>4 DEF Settled, HealthyIsTrue, SavedInv, RowsAreGood
<1>8. NotedInv'
  BY <1>1, <1>2, EndNotes DEF Settled, ScanTypes
<1>6. Settled'
  BY <1>1, <1>4, <1>5, <1>2, <1>8 DEF Settled
<1>7. QED BY <1>1, <1>6, AtRest

LEMMA StopScannerKeeps ==
  ASSUME ScannerInv, StopScanner
  PROVE  ScannerInv'
BY SettledStays, AtRest DEF ScannerInv, NotedInv, StopScanner, ScanRest, cycleVars, StatusOfScan, HealthyIsTrue, Settled,
  ScanTypes, ScanStages, InCycle, EarlyStages, AfterRows, Asking

LEMMA StartScannerKeeps ==
  ASSUME ScannerInv, StartScanner
  PROVE  ScannerInv'
BY AtRest DEF ScannerInv, NotedInv, StartScanner, ScanRest, cycleVars, Settled, HealthyIsTrue, SavedInv, RowsAreGood, ScanTypes,
  ScanStages, InCycle, EarlyStages, AfterRows, Asking

LEMMA ScannerTicks ==
  ASSUME ScannerInv, ScannerTick
  PROVE  ScannerInv'
<1>1. Settled
  BY DEF ScannerInv
<1>2. UNCHANGED <<scanStage, directory, previous, scanRows, asks, answers, snapshot, budget, troubled, exchange, batches, savedDirectory,
                  savedLatest, savedStatus, scans, faults, noted, lagging>>
  BY DEF ScannerTick, cycleVars
<1>3. hour' = hour + 1 /\ hour \in 0..MaxHour /\ hour' \in 0..MaxHour
  BY <1>1, ScannerAssumption DEF ScannerTick, Settled, ScanTypes
<1>4. \A r : GoodRow(r, hour) => GoodRow(r, hour')
  BY <1>3 DEF GoodRow, ScanRow
<1>5. HealthyIsTrue' /\ SavedInv' /\ RowsAreGood'
  BY <1>1, <1>2, <1>4 DEF Settled, HealthyIsTrue, SavedInv, RowsAreGood
<1>6. ScanTypes'
  BY <1>1, <1>2, <1>3 DEF Settled, ScanTypes
<1>7. NotedInv'
  <2>1. noted' \in [start : 0..hour', look : 0..hour']
    BY <1>1, <1>2, <1>3 DEF Settled, NotedInv
  <2>2. QED BY <1>1, <1>2, <2>1 DEF Settled, NotedInv
<1>8. Settled'
  BY <1>1, <1>2, <1>5, <1>6, <1>7 DEF Settled
<1>9. CycleRows' /\ PendingRows' /\ BatchInv' /\ AnswersInv'
  BY <1>2 DEF ScannerInv, CycleRows, PendingRows, BatchInv, AnswersInv
<1>10. DaysInv' /\ FilesInv'
  BY <1>2 DEF ScannerInv, DaysInv, FilesInv, LookDay
<1>11. QED BY <1>8, <1>9, <1>10 DEF ScannerInv

LEMMA ScannerKeeps ==
  ASSUME ScannerInv, ScannerNext
  PROVE  ScannerInv'
<1>1. ASSUME NEW o \in Outcomes,
             Abort(o) \/ SaveDirectory(o) \/ AnnounceRows(o) \/ BeginBatch(o) \/ RecordBatch(o) \/ PublishStatus(o) \/ FinishScan(o)
      PROVE  ScannerInv'
  BY <1>1, AbortKeeps, SaveDirectoryKeeps, AnnounceKeeps, BeginBatchKeeps, RecordBatchKeeps, PublishStatusKeeps, FinishKeeps
<1>2. ASSUME NEW o \in Outcomes, NEW plenty \in BOOLEAN, BeginScan(plenty, o) \/ PublishRows(plenty, o)
      PROVE  ScannerInv'
  BY <1>2, BeginScanKeeps, PublishRowsKeeps
<1>3. ASSUME NEW class \in Range(Listed), NEW listed \in {l \in Listings : l \subseteq Range(Symbols(class))},
             RefreshDirectory(class, listed)
      PROVE  ScannerInv'
  BY <1>3, RefreshKeeps
<1>4. ASSUME NEW failed \in BOOLEAN, AskClock(failed) \/ AskSingle(failed)
      PROVE  ScannerInv'
  BY <1>4, AskClockKeeps, AskSingleKeeps
<1>5. ASSUME NEW reply \in {"payload", "forbidden", "error"}, AskStocks(reply)
      PROVE  ScannerInv'
  BY <1>5, AskStocksKeeps
<1>6. CASE HeartbeatFails \/ StopScanner \/ KillScanner \/ StartScanner \/ ScannerTick
  BY <1>6, HeartbeatKeeps, StopScannerKeeps, KillScannerKeeps, StartScannerKeeps, ScannerTicks
<1>7. QED BY <1>1, <1>2, <1>3, <1>4, <1>5, <1>6 DEF ScannerNext

LEMMA ScannerHolds == ServicesSpec => [](Examined("scanner") => ScannerInv)
<1>1. ServicesInit => ScannerInv
  BY ScannerBegins DEF ServicesInit
<1>2. ASSUME Examined("scanner") => ScannerInv, [ServicesNext]_servicesVars
      PROVE  (Examined("scanner") => ScannerInv)'
  <2>1. ASSUME Examined("scanner")' PROVE ScannerInv'
    <3>1. ScannerInv /\ [ScannerNext]_scannerVars
      BY <1>2, <2>1, ScannerSteps
    <3>2. CASE ScannerNext
      BY <3>1, <3>2, ScannerKeeps
    <3>3. CASE UNCHANGED scannerVars
      <4>1. UNCHANGED <<scanStage, directory, previous, scanRows, asks, answers, snapshot, budget, troubled, exchange, batches,
                        savedDirectory, savedLatest, savedStatus, scans, faults, hour, noted, lagging>>
        BY <3>3 DEF scannerVars
      <4>2. Settled'
        BY <3>1, <4>1 DEF ScannerInv, Settled, ScanTypes, RowsAreGood, SavedInv, HealthyIsTrue, NotedInv
      <4>3. CycleRows' /\ PendingRows' /\ BatchInv' /\ AnswersInv'
        BY <3>1, <4>1 DEF ScannerInv, CycleRows, PendingRows, BatchInv, AnswersInv
      <4>4. DaysInv' /\ FilesInv'
        BY <3>1, <4>1 DEF ScannerInv, DaysInv, FilesInv, LookDay
      <4>5. QED BY <4>2, <4>3, <4>4 DEF ScannerInv
    <3>4. QED BY <3>1, <3>2, <3>3
  <2>2. QED BY <2>1
<1>3. QED BY <1>1, <1>2, PTL DEF ServicesSpec

LEMMA ScannerSound == ScannerInv => ScannerIsSound /\ ScannerTypeOK
<1> SUFFICES ASSUME ScannerInv PROVE ScannerIsSound /\ ScannerTypeOK
  OBVIOUS
<1>1. Settled
  BY DEF ScannerInv
<1>2. LatestIsComplete
  BY <1>1 DEF Settled, SavedInv, LatestIsComplete
<1>3. HealthyIsTrue
  BY <1>1 DEF Settled
<1>4. IsolationIsExact
  <2> SUFFICES ASSUME scanStage = "record", Head(batches) = "stocks" PROVE IsolationIsExact
    BY DEF IsolationIsExact
  <2>1. PICK order : order = ScanOrder("stocks")
    OBVIOUS
  <2>2. Range(order) = AskedOf("stocks", directory)
    BY <2>1, ScanOrderIs DEF ScanClasses
  <2>3. DOMAIN answers = Range(order)
    BY <2>2 DEF ScannerInv, AnswersInv
  <2>4. \A s \in DOMAIN answers :
          /\ snapshot[s].kind = "barred" => answers[s] = Failure
          /\ faults = 0 /\ budget > 0 /\ answers[s] = Failure => snapshot[s].kind = "barred"
    BY DEF ScannerInv, AnswersInv
  <2>5. Barred(order) = {s \in Range(order) : snapshot[s].kind = "barred"}
    BY DEF Barred
  <2>6. Barred(order) \subseteq {s \in DOMAIN answers : answers[s] = Failure}
    BY <2>3, <2>4, <2>5
  <2>7. ASSUME faults = 0, budget > 0 PROVE {s \in DOMAIN answers : answers[s] = Failure} = Barred(order)
    BY <2>3, <2>4, <2>5, <2>7
  <2>8. QED BY <2>1, <2>3, <2>6, <2>7 DEF IsolationIsExact
<1>5. ScannerTypeOK
  BY <1>1 DEF Settled, ScanTypes, RowsAreGood, GoodRow, ScannerTypeOK
<1>6. QED BY <1>2, <1>3, <1>4, <1>5 DEF ScannerIsSound

-----------------------------------------------------------------------------
(* What holds of all the services together. *)

\* Entries thaw after an incident only once the broker was reconciled; a quote
\* published as fresh came over the present connection, and no restored or
\* retained one is passed off as fresh; a verdict lets through only quotes that
\* are usable; the scanner's files say no more than its scan found.
THEOREM QuotesAlwaysSound == ServicesSpec => []QuotesAreSound
<1>1. (Examined("recovery") => RecoveryInv) => (Examined("recovery") => ThawNeedsReconciliation)
  BY DEF RecoveryInv
<1>2. (Examined("stream") => StreamInv) => (Examined("stream") => StreamIsSound)
  BY StreamSound
<1>3. (Examined("quotes") => QuotesInv) => (Examined("quotes") => VerdictsAreSound)
  BY VerdictsHold
<1>4. (Examined("scanner") => ScannerInv) => (Examined("scanner") => ScannerIsSound)
  BY ScannerSound
<1>5. /\ Examined("recovery") => ThawNeedsReconciliation
      /\ Examined("stream") => StreamIsSound
      /\ Examined("quotes") => VerdictsAreSound
      /\ Examined("scanner") => ScannerIsSound
      => QuotesAreSound
  BY DEF QuotesAreSound
<1>6. QED BY <1>1, <1>2, <1>3, <1>4, <1>5, RecoveryHolds, StreamHolds, QuotesHold, ScannerHolds, PTL

\* From one published scan to the next no instrument's counter falls, none loses
\* its last observation and none is dropped before its week, over aborted cycles,
\* kills and restarts, as long as memory is not behind the file and a record has
\* room in it.
THEOREM NothingIsLost == ServicesSpec => NothingIsForgotten
<1> DEFINE kept == LET old == savedLatest.rows
                       new == savedLatest'.rows
                   IN  old # new /\ ~lagging =>
                         \A s \in DOMAIN old :
                            IF s \in DOMAIN new
                            THEN new[s].count >= old[s].count /\ (old[s].asof # NoData => new[s].asof # NoData)
                            ELSE \/ ~old[s].active /\ old[s].since < savedLatest'.start - Retention
                                 \/ Cardinality(DOMAIN new) >= MaxRecords
<1>1. ASSUME ScannerInv, ScannerNext PROVE kept
  <2>1. SUFFICES ASSUME savedLatest.rows # savedLatest'.rows, ~lagging,
                        NEW s \in DOMAIN savedLatest.rows
                 PROVE  IF s \in DOMAIN savedLatest'.rows
                        THEN /\ savedLatest'.rows[s].count >= savedLatest.rows[s].count
                             /\ savedLatest.rows[s].asof # NoData => savedLatest'.rows[s].asof # NoData
                        ELSE \/ ~savedLatest.rows[s].active /\ savedLatest.rows[s].since < savedLatest'.start - Retention
                             \/ Cardinality(DOMAIN savedLatest'.rows) >= MaxRecords
    OBVIOUS
  <2>2. PICK plenty \in BOOLEAN, o \in Outcomes : PublishRows(plenty, o)
    BY <1>1, <2>1 DEF ScannerNext, Abort, SaveDirectory, AnnounceRows, BeginBatch, RecordBatch, PublishStatus, FinishScan, BeginScan,
         RefreshDirectory, HeartbeatFails, AskClock, AskSingle, AskStocks, StopScanner, KillScanner, StartScanner, ScannerTick
  <2>3. scanStage = "publish" /\ savedLatest'.rows = scanRows /\ savedLatest'.start = noted.start
    <3>1. CASE ~plenty \/ o = "refused"
      BY <2>2, <3>1, <2>1 DEF PublishRows, Write
    <3>2. CASE plenty /\ o # "refused"
      <4>1. PICK new : new = [rows |-> scanRows, listed |-> Universe(directory), scan |-> scans, start |-> noted.start, at |-> hour]
        OBVIOUS
      <4>2. new.rows = scanRows /\ new.start = noted.start
        BY <4>1
      <4>3. scanStage = "publish" /\ savedLatest' = new
        BY <2>2, <3>2, <4>1 DEF PublishRows, Write
      <4>4. QED BY <4>2, <4>3
    <3>3. QED BY <3>1, <3>2
  <2>4. previous = savedLatest.rows
    BY <1>1, <2>1, <2>3 DEF ScannerInv, Settled
  <2>5. /\ \A t \in DOMAIN scanRows : RowIsDue(scanRows[t], t, directory, previous, noted.start)
        /\ \A t \in DOMAIN previous \ DOMAIN scanRows : Dropped(previous[t], DOMAIN scanRows, noted.start)
    BY <1>1, <2>3 DEF ScannerInv, CycleRows, AfterRows
  <2>6. QED BY <2>3, <2>4, <2>5 DEF RowIsDue, Follows, Dropped
<1>2. (Examined("scanner") => ScannerInv) /\ [ServicesNext]_servicesVars => [kept]_scannerVars
  <2> SUFFICES ASSUME Examined("scanner") => ScannerInv, [ServicesNext]_servicesVars
               PROVE  [kept]_scannerVars
    OBVIOUS
  <2>1. CASE UNCHANGED scannerVars
    BY <2>1
  <2>2. CASE Examined("scanner") /\ ScannerNext
    BY <1>1, <2>2
  <2>3. QED BY <2>1, <2>2, ScannerSteps
<1> HIDE DEF kept
<1>3. ServicesSpec => [][kept]_scannerVars
  BY <1>2, ScannerHolds, PTL DEF ServicesSpec
<1>4. QED BY <1>3 DEF NothingIsForgotten, kept

\* No step of a service sends an entry before a waiting emergency, retries past
\* an incident's deadline, rewrites the ledger, replaces a quote by an older one,
\* forgets a backoff that was not earned back, or drops from the published scan
\* what earlier scans had seen.
THEOREM ServicesAlwaysStepSoundly == ServicesSpec => ServicesStepSoundly
BY EmergenciesGoFirst, RetriesAreBounded, LedgerOnlyGrows, QuotesOnlyGetNewer, NothingIsLost DEF ServicesStepSoundly

-----------------------------------------------------------------------------
(* Types.  What the invariants above leave open is bounded here. *)

RiskBounds == today <= LastSession

LEMMA RiskTypes == ServicesSpec => [](Examined("risk") => RiskTypeOK)
<1>1. ServicesInit => (Examined("risk") => RiskBounds)
  BY RiskAssumption DEF ServicesInit, RiskInit, RiskBounds
<1>2. (Examined("risk") => RiskInv) /\ (Examined("risk") => RiskBounds) /\ [ServicesNext]_servicesVars => (Examined("risk") => RiskBounds)'
  <2> SUFFICES ASSUME Examined("risk") => RiskInv, Examined("risk") => RiskBounds, [ServicesNext]_servicesVars, Examined("risk")'
               PROVE  RiskBounds'
    OBVIOUS
  <2>1. RiskInv /\ RiskBounds /\ [RiskNext]_riskVars
    BY RiskSteps
  <2>2. today \in Nat /\ LastSession \in Nat
    BY <2>1, RiskAssumption DEF RiskInv
  <2>3. today' = today \/ (today < LastSession /\ today' = today + 1)
    BY <2>1 DEF RiskNext, riskVars, Initialize, Observe, ReviewDrawdownReset, ApproveEntry, Restart, PowerLoss, NextSession
  <2>4. QED BY <2>1, <2>2, <2>3 DEF RiskBounds
<1>3. (Examined("risk") => RiskInv) /\ (Examined("risk") => RiskBounds) => (Examined("risk") => RiskTypeOK)
  <2> SUFFICES ASSUME RiskInv, RiskBounds PROVE RiskTypeOK
    OBVIOUS
  <2>1. today \in 1..LastSession /\ mustReview \in BOOLEAN /\ haltedOn \in 0..LastSession
    BY RiskAssumption DEF RiskInv, RiskBounds
  <2>2. {riskMemory, riskFile, riskDurable} \subseteq RiskStates
    BY DEF RiskInv, SoundRisk, RiskRecords, RiskStates
  <2>3. QED BY <2>1, <2>2 DEF RiskTypeOK
<1>4. QED BY <1>1, <1>2, <1>3, RiskHolds, PTL DEF ServicesSpec

LEMMA RunTypes == RunInv => RunTypeOK
<1> SUFFICES ASSUME RunInv PROVE RunTypeOK
  OBVIOUS
<1>1. record.cycles \in 0..MaxCycles /\ trade.tries \in 0..3 /\ onFile.plan \in RunSymbols \cup {"none"}
  BY DEF RunInv, RunShape, RunRecords, RunTrades
<1>2. logged \subseteq [cycle : 1..MaxCycles, storage : BOOLEAN]
  BY <1>1, RunAssumption DEF RunInv, CyclesAreRecorded
<1>3. QED BY <1>1, <1>2 DEF RunInv, RunShape, RunTypeOK

LEMMA TrialTypes == ServicesSpec => [](Examined("trial") => TrialTypeOK)
<1> DEFINE begins == trialMeta.started <= trialMeta.last /\ trialMeta.started \in Nat
<1>1. ServicesInit => (Examined("trial") => begins)
  BY DEF ServicesInit, TrialInit, NoMeta
<1>2. (Examined("trial") => TrialInv) /\ (Examined("trial") => begins) /\ [ServicesNext]_servicesVars => (Examined("trial") => begins)'
  <2> SUFFICES ASSUME Examined("trial") => TrialInv, Examined("trial") => begins, [ServicesNext]_servicesVars, Examined("trial")'
               PROVE  begins'
    OBVIOUS
  <2>1. TrialInv /\ begins /\ [TrialNext]_trialVars
    BY TrialSteps
  <2>2. CASE UNCHANGED trialMeta
    BY <2>1, <2>2
  <2>3. CASE PollCommits /\ ~UNCHANGED trialMeta
    BY <2>3, <2>1, TrialAssumption DEF PollCommits, TrialInv, TrialShape
  <2>4. UNCHANGED trialMeta \/ PollCommits
    BY <2>1 DEF TrialNext, trialVars, SourceWrites, TimePasses, ObserverStarts, ObserverEnds, PollBegins, ReadSource, PollFails
  <2>5. QED BY <2>2, <2>3, <2>4
<1>3. (Examined("trial") => TrialInv) /\ (Examined("trial") => begins) => (Examined("trial") => TrialTypeOK)
  BY DEF TrialInv, TrialShape, TrialTypeOK
<1> HIDE DEF begins
<1>4. QED BY <1>1, <1>2, <1>3, TrialHolds, PTL DEF ServicesSpec

LEMMA BackupTypes == BackupInv => BackupTypeOK
<1> SUFFICES ASSUME BackupInv PROVE BackupTypeOK
  OBVIOUS
<1>1. MaxVersion \in Nat /\ ledger \in 1..MaxVersion /\ begunAt \in 0..ledger
  BY BackupAssumption DEF BackupInv, BackupFiles
<1>2. Holdings \subseteq NoVersion..MaxVersion
  BY <1>1 DEF Holdings, Committed, NoVersion, Torn
<1>3. QED BY <1>1, <1>2 DEF BackupInv, BackupFiles, BackupTypeOK, MakerStages

BundleIsPlain ==
    /\ DOMAIN captured \subseteq Paths
    /\ restored.confirmed \in BOOLEAN /\ restored = [files |-> restored.files, confirmed |-> restored.confirmed]

LEMMA BundleTypes == ServicesSpec => [](Examined("bundle") => BundleTypeOK)
<1>1. ServicesInit => (Examined("bundle") => BundleIsPlain)
  BY DEF ServicesInit, BundleInit, BundleIsPlain, NoRestore
<1>2. (Examined("bundle") => BundleInv) /\ (Examined("bundle") => BundleIsPlain) /\ [ServicesNext]_servicesVars
        => (Examined("bundle") => BundleIsPlain)'
  <2> SUFFICES ASSUME Examined("bundle") => BundleInv, Examined("bundle") => BundleIsPlain,
                      [ServicesNext]_servicesVars, Examined("bundle")'
               PROVE  BundleIsPlain'
    OBVIOUS
  <2>1. BundleInv /\ BundleIsPlain /\ [BundleNext]_bundleVars
    BY BundleSteps
  <2>2. UNCHANGED captured \/ captured' = <<>> \/ \E p \in Paths : DOMAIN captured' = DOMAIN captured \cup {p}
    <3>1. ASSUME NEW c, CaptureFile(c)
          PROVE  UNCHANGED captured \/ DOMAIN captured' = DOMAIN captured \cup {Selected[at]}
      BY <3>1 DEF CaptureFile, Refuse
    <3>2. Selected[at] \in Paths
      BY <2>1, SelectedFacts DEF BundleInv, BundleShape
    <3>3. CASE BeginBundle
      BY <3>3 DEF BeginBundle
    <3>4. CASE UNCHANGED captured
      BY <3>4
    <3>5. UNCHANGED captured \/ BeginBundle \/ \E c \in Contents : CaptureFile(c)
      BY <2>1 DEF BundleNext, bundleVars, WorkerWrites, OpenFile, Refuse, WritePayloads, RecheckFile, PublishManifest,
                  BundlerStops, PayloadDecays, RestoreFile, ConfirmBundle
    <3>6. QED BY <3>1, <3>2, <3>3, <3>5
  <2>3. DOMAIN captured' \subseteq Paths
    <3>1. DOMAIN <<>> = {}
      OBVIOUS
    <3>2. QED BY <2>1, <2>2, <3>1 DEF BundleIsPlain
  <2>4. /\ restored'.confirmed \in BOOLEAN
        /\ restored' = [files |-> restored'.files, confirmed |-> restored'.confirmed]
    <3>1. CASE UNCHANGED restored
      BY <2>1, <3>1 DEF BundleIsPlain
    <3>2. ASSUME NEW p \in Paths, RestoreFile(p)
          PROVE  /\ restored'.confirmed \in BOOLEAN
                 /\ restored' = [files |-> restored'.files, confirmed |-> restored'.confirmed]
      <4> DEFINE new == [q \in DOMAIN restored.files \cup {p} |-> IF q = p THEN bundle.payloads[p] ELSE restored.files[q]]
      <4>1. restored' = [restored EXCEPT !.files = new]
        BY <3>2 DEF RestoreFile
      <4> HIDE DEF new
      <4>2. restored = [files |-> restored.files, confirmed |-> restored.confirmed] /\ restored.confirmed \in BOOLEAN
        BY <2>1 DEF BundleIsPlain
      <4>3. restored' = [files |-> new, confirmed |-> restored.confirmed]
        BY <4>1, <4>2
      <4>4. restored'.files = new /\ restored'.confirmed = restored.confirmed
        BY <4>3
      <4>5. QED BY <4>2, <4>3, <4>4
    <3>3. CASE ConfirmBundle
      BY <3>3, <2>1 DEF ConfirmBundle, BundleIsPlain
    <3>4. UNCHANGED restored \/ ConfirmBundle \/ \E p \in Paths : RestoreFile(p)
      BY <2>1 DEF BundleNext, bundleVars, WorkerWrites, BeginBundle, OpenFile, Refuse, WritePayloads, CaptureFile,
                  RecheckFile, PublishManifest, BundlerStops, PayloadDecays
    <3>5. QED BY <3>1, <3>2, <3>3, <3>4
  <2>5. QED BY <2>3, <2>4 DEF BundleIsPlain
<1>3. (Examined("bundle") => BundleInv) /\ (Examined("bundle") => BundleIsPlain) => (Examined("bundle") => BundleTypeOK)
  BY SelectedFacts DEF BundleInv, BundleShape, BundleTypeOK, BundleIsPlain, InPasses
<1>4. QED BY <1>1, <1>2, <1>3, BundleHolds, PTL DEF ServicesSpec

LEMMA LedgerTypes == ServicesSpec => [](Examined("ledger") => LedgerTypeOK)
<1>1. ServicesInit => (Examined("ledger") => LedgerTypeOK)
  BY DEF ServicesInit, LedgerInit, LedgerTypeOK
<1>2. (Examined("ledger") => LedgerTypeOK) /\ [ServicesNext]_servicesVars => (Examined("ledger") => LedgerTypeOK)'
  <2> SUFFICES ASSUME Examined("ledger") => LedgerTypeOK, [ServicesNext]_servicesVars, Examined("ledger")'
               PROVE  LedgerTypeOK'
    OBVIOUS
  <2>1. LedgerTypeOK /\ [LedgerNext]_ledgerVars
    BY LedgerSteps
  <2>2. ASSUME NEW id \in DecisionIds, NEW moment \in Moments, NEW result \in Results, NEW inputs \in SUBSET Evidence,
               NEW amends \in DecisionIds \cup {NoParent}, RecordDecision(id, moment, result, amends, inputs)
        PROVE  LedgerTypeOK'
    BY <2>1, <2>2 DEF RecordDecision, LedgerTypeOK, Added
  <2>3. ASSUME NEW id \in LinkIds, NEW link, RecordLink(id, link)
        PROVE  LedgerTypeOK'
    BY <2>1, <2>3 DEF RecordLink, LedgerTypeOK, Added
  <2>4. CASE VerifyInputs
    BY <2>1, <2>4 DEF VerifyInputs, LedgerTypeOK
  <2>5. CASE VerifyDecisions
    BY <2>1, <2>5 DEF VerifyDecisions, Reads, LedgerTypeOK
  <2>6. CASE VerifyLinks
    BY <2>1, <2>6 DEF VerifyLinks, Reads, LedgerTypeOK
  <2>7. CASE UNCHANGED ledgerVars
    BY <2>1, <2>7 DEF ledgerVars, LedgerTypeOK
  <2>8. QED BY <2>1, <2>2, <2>3, <2>4, <2>5, <2>6, <2>7 DEF LedgerNext
<1>3. QED BY <1>1, <1>2, PTL DEF ServicesSpec

LEMMA AccountingTypes == ServicesSpec => [](Examined("accounting") => AccountingTypeOK)
<1> DEFINE placed == \A p \in Readers : reader[p] \in {"idle", "context", "events"}
<1>1. ServicesInit => (Examined("accounting") => placed)
  BY DEF ServicesInit, AccountingInit
<1>2. (Examined("accounting") => AccountingInv) /\ (Examined("accounting") => placed) /\ [ServicesNext]_servicesVars
        => (Examined("accounting") => placed)'
  <2> SUFFICES ASSUME Examined("accounting") => AccountingInv, Examined("accounting") => placed, [ServicesNext]_servicesVars,
                      Examined("accounting")', NEW q \in Readers
               PROVE  reader'[q] \in {"idle", "context", "events"}
    OBVIOUS
  <2>1. AccountingInv /\ placed /\ [AccountingNext]_accountingVars
    BY AccountingSteps
  <2>2. DOMAIN reader = Readers
    BY <2>1 DEF AccountingInv
  <2>3. \/ UNCHANGED reader
        \/ \E p \in Readers, to \in {"idle", "context", "events"} : reader' = [reader EXCEPT ![p] = to]
    <3>1. ASSUME NEW p \in Readers, NEW source, NEW c, Import(p, source, c) PROVE reader' = [reader EXCEPT ![p] = "context"]
      BY <3>1 DEF Import
    <3>2. ASSUME NEW p \in Readers, BeginReconcile(p) PROVE reader' = [reader EXCEPT ![p] = "context"]
      BY <3>2 DEF BeginReconcile
    <3>3. ASSUME NEW p \in Readers, ReadEvents(p) PROVE reader' = [reader EXCEPT ![p] = "events"]
      BY <3>3 DEF ReadEvents
    <3>4. ASSUME NEW p \in Readers, ReadImports(p) PROVE reader' = [reader EXCEPT ![p] = "idle"]
      BY <3>4 DEF ReadImports
    <3>5. CASE UNCHANGED accountingVars
      BY <3>5 DEF accountingVars
    <3>6. QED BY <2>1, <3>1, <3>2, <3>3, <3>4, <3>5 DEF AccountingNext
  <2>4. QED BY <2>1, <2>2, <2>3
<1>3. (Examined("accounting") => AccountingInv) /\ (Examined("accounting") => placed) => (Examined("accounting") => AccountingTypeOK)
  <2> SUFFICES ASSUME AccountingInv, placed PROVE AccountingTypeOK
    OBVIOUS
  <2>1. Cardinality(context) <= 1
    <3>1. CASE context = {}
      BY <3>1, FS_EmptySet
    <3>2. CASE context # {}
      <4>1. PICK c : context = {c}
        BY <3>2 DEF AccountingInv
      <4>2. QED BY <4>1, FS_Singleton
    <3>3. QED BY <3>1, <3>2
  <2>2. QED BY <2>1 DEF AccountingInv, AccountingTypeOK
<1> HIDE DEF placed
<1>4. QED BY <1>1, <1>2, <1>3, AccountingHolds, PTL DEF ServicesSpec

\* What a part of a lot takes of its fee never exceeds the fee.
LEMMA ShareFits ==
  ASSUME NEW fee \in Nat, NEW closed \in Nat, NEW size \in Nat, 0 < size, closed <= size
  PROVE  Allocated(fee, closed, size) \in Int /\ Allocated(fee, closed, size) <= fee
<1>1. CASE closed = size
  BY <1>1 DEF Allocated
<1>2. CASE closed # size
  <2> DEFINE whole == fee * closed
             d == whole \div size
  <2>1. whole \in Int
    OBVIOUS
  <2>2. (size - closed) * fee \in Nat
    OBVIOUS
  <2>3. (size - closed) * fee = fee * size - whole /\ fee * size \in Int
    OBVIOUS
  <2>4. (fee + 1) * size = fee * size + size
    OBVIOUS
  <2> HIDE DEF whole
  <2>5. d \in Int /\ (fee + 1 <= d <=> (fee + 1) * size <= whole)
    BY <2>1, FloorFits
  <2>6. ~((fee + 1) * size <= whole)
    BY <2>1, <2>2, <2>3, <2>4
  <2> HIDE DEF d
  <2>7. d <= fee
    BY <2>5, <2>6
  <2>8. QED BY <1>2, <2>5, <2>7 DEF Allocated, d, whole
<1>3. QED BY <1>1, <1>2

FeesStay == events <= MaxEvents + 1 /\ fill.fee >= 0 /\ \A i \in 1..Len(lots) : lots[i].fee >= 0

LEMMA MatchKeepsFees ==
  ASSUME FifoInv, FifoInv', FeesStay, MatchLot
  PROVE  FeesStay'
<1> DEFINE lot == Head(lots)
           closed == IF Size(fill.qty) < Size(lot.qty) THEN Size(fill.qty) ELSE Size(lot.qty)
           part == Sign(lot.qty) * closed
           oldFee == Allocated(lot.fee, closed, Size(lot.qty))
           exitFee == Allocated(fill.fee, closed, Size(fill.qty))
           rest == [lot EXCEPT !.qty = @ - part, !.fee = @ - oldFee]
           left == [fill EXCEPT !.qty = @ + part, !.fee = @ - exitFee]
<1>1. /\ Opposite /\ UNCHANGED events
      /\ lots' = IF rest.qty = 0 THEN Tail(lots) ELSE <<rest>> \o Tail(lots)
      /\ fill' = IF left.qty = 0 THEN [NoFill EXCEPT !.fee = left.fee] ELSE left
  BY DEF MatchLot
<1>2. /\ lots \in Seq(Amount) /\ lots # <<>> /\ lot \in Amount /\ Tail(lots) \in Seq(Amount)
      /\ fill \in Amount /\ fill.qty * lot.qty < 0
      /\ lot = lots[1] /\ Len(Tail(lots)) = Len(lots) - 1 /\ Len(lots) \in Nat /\ Len(lots) # 0
      /\ \A i \in 1..(Len(lots) - 1) : Tail(lots)[i] = lots[i + 1]
  <2>1. lots \in Seq(Amount) /\ lots # <<>> /\ fill \in Amount /\ fill.qty * lot.qty < 0
    BY <1>1 DEF Opposite, FifoInv, FifoShape
  <2>2. lots[1] \in Amount /\ Len(lots) \in Nat /\ Len(lots) # 0
    BY <2>1
  <2>3. /\ Tail(lots) \in Seq(Amount) /\ Len(Tail(lots)) = Len(lots) - 1
        /\ \A i \in 1..(Len(lots) - 1) : Tail(lots)[i] = lots[i + 1]
    BY <2>1
  <2>4. lot = lots[1]
    BY <2>1
  <2>5. QED BY <2>1, <2>2, <2>3, <2>4
<1> HIDE DEF lot
<1>3. /\ lot.qty \in Int /\ lot.fee \in Nat /\ fill.qty \in Int /\ fill.fee \in Nat
  BY <1>2 DEF FeesStay, Amount
<1>4. lot.qty # 0 /\ fill.qty # 0
  BY <1>2, <1>3, <1>1 DEF Opposite
<1>5. /\ Size(fill.qty) \in Nat \ {0} /\ Size(lot.qty) \in Nat \ {0} /\ closed \in Nat
      /\ closed <= Size(lot.qty) /\ closed <= Size(fill.qty)
  BY <1>3, <1>4 DEF Size
<1> HIDE DEF closed
<1>6. oldFee \in Int /\ oldFee <= lot.fee /\ exitFee \in Int /\ exitFee <= fill.fee
  BY <1>3, <1>5, ShareFits
<1> HIDE DEF oldFee, exitFee, part
<1>7. rest.fee = lot.fee - oldFee /\ left.fee = fill.fee - exitFee
  BY <1>2 DEF Amount
<1>8. rest.fee >= 0 /\ left.fee >= 0
  BY <1>3, <1>6, <1>7
<1> HIDE DEF rest, left
<1>9. fill'.fee >= 0
  BY <1>1, <1>8 DEF NoFill
<1>10. \A i \in 1..Len(Tail(lots)) : Tail(lots)[i].fee >= 0
  BY <1>2 DEF FeesStay
<1>11. \A i \in 1..Len(lots') : lots'[i].fee >= 0
  <2>1. CASE rest.qty = 0
    BY <1>1, <1>10, <2>1
  <2>2. CASE rest.qty # 0
    <3> DEFINE t == Tail(lots)
    <3>1. t \in Seq(Amount) /\ \A i \in 1..Len(t) : t[i].fee >= 0
      BY <1>2, <1>10
    <3> HIDE DEF t
    <3>2. lots' = <<rest>> \o t
      BY <1>1, <2>2 DEF t
    <3>3. Len(lots') = Len(t) + 1 /\ lots'[1] = rest /\ Len(t) \in Nat /\ \A i \in 2..(Len(t) + 1) : lots'[i] = t[i - 1]
      BY <3>1, <3>2
    <3>4. QED BY <1>8, <3>1, <3>3
  <2>3. QED BY <2>1, <2>2
<1>12. QED BY <1>1, <1>9, <1>11 DEF FeesStay

LEMMA FifoTypes == ServicesSpec => [](Examined("fifo") => FifoTypeOK)
<1>1. ServicesInit => (Examined("fifo") => FeesStay)
  BY FifoAssumption DEF ServicesInit, FifoInit, FeesStay, NoFill
<1>2. (Examined("fifo") => FifoInv) /\ (Examined("fifo") => FifoInv)' /\ (Examined("fifo") => FeesStay) /\ [ServicesNext]_servicesVars
        => (Examined("fifo") => FeesStay)'
  <2> SUFFICES ASSUME Examined("fifo") => FifoInv, (Examined("fifo") => FifoInv)', Examined("fifo") => FeesStay,
                      [ServicesNext]_servicesVars, Examined("fifo")'
               PROVE  FeesStay'
    OBVIOUS
  <2>1. FifoInv /\ FifoInv' /\ FeesStay /\ [FifoNext]_fifoVars
    BY FifoSteps
  <2>2. ASSUME NEW ls \in OpeningLots, OpenWindow(ls) PROVE FeesStay'
    BY FifoAssumption, <2>1, <2>2 DEF OpenWindow, FeesStay
  <2>3. ASSUME NEW a \in Activities, Activity(a) PROVE FeesStay'
    BY <2>1, <2>3, FifoAssumption DEF Activity, FeesStay
  <2>4. ASSUME NEW f \in Fills, BeginFill(f) PROVE FeesStay'
    BY <2>1, <2>4, FifoAssumption DEF BeginFill, FeesStay
  <2>5. CASE MatchLot
    BY <2>1, <2>5, MatchKeepsFees
  <2>6. CASE OpenLot
    BY <2>6, <2>1 DEF OpenLot, FifoInv, FifoShape, FeesStay, NoFill
  <2>7. CASE UNCHANGED fifoVars
    BY <2>1, <2>7 DEF fifoVars, FeesStay
  <2>8. QED BY <2>1, <2>2, <2>3, <2>4, <2>5, <2>6, <2>7 DEF FifoNext
<1>3. (Examined("fifo") => FifoInv) /\ (Examined("fifo") => FeesStay) => (Examined("fifo") => FifoTypeOK)
  <2> SUFFICES ASSUME FifoInv, FeesStay PROVE FifoTypeOK
    OBVIOUS
  <2>1. lots \in Seq(Amount) /\ DOMAIN lots = 1..Len(lots) /\ events \in Nat
    BY DEF FifoInv, FifoShape
  <2>2. \A i \in 1..Len(lots) : lots[i].qty # 0
    BY <2>1 DEF FifoInv, OneDirection
  <2>3. QED BY <2>1, <2>2, FifoAssumption DEF FeesStay, FifoTypeOK
<1>4. QED BY <1>1, <1>2, <1>3, FifoHolds, PTL DEF ServicesSpec

\* Every component's variables have their types.
THEOREM ServicesAlwaysTyped == ServicesSpec => []ServicesTypeOK
<1>1. /\ (Examined("client") => ClientInv) => (Examined("client") => ClientTypeOK)
      /\ (Examined("recovery") => RecoveryInv) => (Examined("recovery") => RecoveryTypeOK)
      /\ (Examined("sizing") => SizingInv) => (Examined("sizing") => SizingTypeOK)
      /\ (Examined("run") => RunInv) => (Examined("run") => RunTypeOK)
      /\ (Examined("stream") => StreamInv) => (Examined("stream") => StreamTypeOK)
      /\ (Examined("backup") => BackupInv) => (Examined("backup") => BackupTypeOK)
      /\ (Examined("scanner") => ScannerInv) => (Examined("scanner") => ScannerTypeOK)
  BY RunTypes, BackupTypes, StreamSound, ScannerSound DEF SizingInv, SizingTypeOK, Trades, ClientInv, RecoveryInv
<1> DEFINE early == /\ (Examined("client") => ClientTypeOK) /\ (Examined("recovery") => RecoveryTypeOK)
                    /\ (Examined("risk") => RiskTypeOK) /\ (Examined("sizing") => SizingTypeOK)
                    /\ (Examined("run") => RunTypeOK) /\ (Examined("stream") => StreamTypeOK)
                    /\ (Examined("backup") => BackupTypeOK) /\ (Examined("scanner") => ScannerTypeOK)
           late == /\ (Examined("trial") => TrialTypeOK) /\ (Examined("bundle") => BundleTypeOK)
                   /\ (Examined("ledger") => LedgerTypeOK) /\ (Examined("accounting") => AccountingTypeOK)
                   /\ (Examined("fifo") => FifoTypeOK)
<1>2. early /\ late => ServicesTypeOK
  BY DEF ServicesTypeOK
<1>3. ServicesSpec => []((Examined("client") => ClientTypeOK) /\ (Examined("recovery") => RecoveryTypeOK))
  BY <1>1, ClientHolds, RecoveryHolds, PTL
<1>4. ServicesSpec => []((Examined("sizing") => SizingTypeOK) /\ (Examined("run") => RunTypeOK))
  BY <1>1, SizingHolds, RunHolds, PTL
<1>5. ServicesSpec => []((Examined("stream") => StreamTypeOK) /\ (Examined("backup") => BackupTypeOK))
  BY <1>1, StreamHolds, BackupHolds, PTL
<1>6. ServicesSpec => [](Examined("scanner") => ScannerTypeOK)
  BY <1>1, ScannerHolds, PTL
<1>7. ServicesSpec => []early
  BY <1>3, <1>4, <1>5, <1>6, RiskTypes, PTL
<1>8. ServicesSpec => []late
  BY TrialTypes, BundleTypes, LedgerTypes, AccountingTypes, FifoTypes, PTL
<1> HIDE DEF early, late
<1>9. QED BY <1>2, <1>7, <1>8, PTL
=============================================================================
