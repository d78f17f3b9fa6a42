--------------------------- MODULE ServicesProofs ---------------------------
(***************************************************************************)
(* The services of MCServices, for every value of their constants: any     *)
(* ceilings, queues, windows, budgets, limits and prices, any number of    *)
(* calls, symbols, sessions and steps.                                     *)
(*                                                                         *)
(* Each component has its own inductive invariant.  A step of the suite is *)
(* a step of one component and leaves the others alone, so what a          *)
(* component keeps the suite keeps.  Stream and scanner follow in          *)
(* QuoteServicesProofs.                                                    *)
(***************************************************************************)
EXTENDS MCServices, FiniteSetTheorems, SequenceTheorems, RunningSums, TLAPS

-----------------------------------------------------------------------------
(* The limiter.  Admissions come in the order of time, so those of a       *)
(* window that ends now are the last ones, and the limiter counts them.    *)

LEMMA ClientSteps ==
  ASSUME [ServicesNext]_servicesVars, Examined("client")'
  PROVE  Examined("client") /\ [ClientNext]_clientVars
BY DEF ServicesNext, servicesVars, Steps, Examined, Components, clientVars

ClientInv ==
  /\ ClientTypeOK
  /\ \A i \in DOMAIN admitted : admitted[i].at <= now
  /\ CeilingsHold
  /\ blockedUntil = silentUntil

LEMMA ClientBegins == ClientInit => ClientInv
<1> SUFFICES ASSUME ClientInit PROVE ClientInv
  OBVIOUS
<1>1. now = 0 /\ admitted = << >> /\ calls = << >>
      /\ blockedUntil = 0 /\ silentUntil = 0
  BY DEF ClientInit
<1>2. ClientTypeOK
  BY <1>1, LimiterAssumption, EmptySeq DEF ClientTypeOK
<1>3. DOMAIN admitted = {}
  BY <1>1
<1>4. QED BY <1>1, <1>2, <1>3 DEF ClientInv, CeilingsHold

LEMMA ClientFacts ==
  ASSUME ClientTypeOK
  PROVE  /\ Len(admitted) \in Nat /\ DOMAIN admitted = 1..Len(admitted)
         /\ \A i \in DOMAIN admitted :
              admitted[i].at \in 0..MaxNow /\ admitted[i].at \in Nat
         /\ DOMAIN calls = 1..Len(calls)
         /\ \A t \in DOMAIN calls :
              calls[t] \in [class : Classes, stage : Stages]
         /\ MaxNow \in Nat /\ Window \in Nat /\ Spacing \in Nat
         /\ Delays \subseteq Nat
<1>1. /\ admitted \in Seq([class : Classes, at : 0..MaxNow])
      /\ calls \in Seq([class : Classes, stage : Stages])
  BY DEF ClientTypeOK
<1>2. MaxNow \in Nat /\ Window \in Nat /\ Spacing \in Nat /\ Delays \subseteq Nat
  BY LimiterAssumption
<1>3. /\ Len(admitted) \in Nat /\ DOMAIN admitted = 1..Len(admitted)
      /\ DOMAIN calls = 1..Len(calls)
  BY <1>1, LenProperties
<1>4. \A i \in 1..Len(admitted) :
        admitted[i] \in [class : Classes, at : 0..MaxNow]
  BY <1>1, ElementOfSeq
<1>5. \A t \in 1..Len(calls) : calls[t] \in [class : Classes, stage : Stages]
  BY <1>1, ElementOfSeq
<1>6. QED BY <1>2, <1>3, <1>4, <1>5

LEMMA ClientStage ==
  ASSUME ClientTypeOK, NEW t \in DOMAIN calls, NEW s \in Stages, To(t, s)
  PROVE  calls' \in Seq([class : Classes, stage : Stages])
<1>1. calls[t] \in [class : Classes, stage : Stages] /\ t \in 1..Len(calls)
  BY ClientFacts
<1>2. calls' = [calls EXCEPT ![t] = [calls[t] EXCEPT !.stage = s]]
  BY DEF To
<1>3. [calls[t] EXCEPT !.stage = s] \in [class : Classes, stage : Stages]
  BY <1>1
<1>4. QED BY <1>1, <1>2, <1>3, ExceptSeq DEF ClientTypeOK

LEMMA RequestsFinite ==
  ASSUME ClientTypeOK
  PROVE  IsFiniteSet(Requests) /\ Cardinality(Requests) \in Nat
<1>1. Requests \in SUBSET (1..Len(admitted)) /\ Len(admitted) \in Nat
  BY ClientFacts DEF Requests
<1>2. IsFiniteSet(1..Len(admitted))
  BY <1>1, FS_Interval
<1>3. IsFiniteSet(Requests)
  BY <1>1, <1>2, FS_Subset
<1>4. QED BY <1>3, FS_CardinalityType

\* The admissions after the i-th are all in the window that has the i-th.
LEMMA WindowCounts ==
  ASSUME ClientInv, NEW i \in DOMAIN admitted, now - admitted[i].at < Window
  PROVE  Len(admitted) - i < Cardinality(Requests)
<1>1. ClientTypeOK /\ now \in Nat /\ Window \in Nat
  BY ClientFacts DEF ClientInv, ClientTypeOK
<1>2. Len(admitted) \in Nat /\ DOMAIN admitted = 1..Len(admitted)
      /\ i \in 1..Len(admitted)
  BY <1>1, ClientFacts
<1>3. \A j \in 1..Len(admitted) : admitted[j].at \in Nat
  BY <1>1, ClientFacts
<1>4. ASSUME NEW j \in i..Len(admitted)
      PROVE  admitted[j].at >= admitted[i].at
  <2>1. i \in DOMAIN admitted /\ j \in DOMAIN admitted
    BY <1>2
  <2>2. CASE i < j
    BY <2>1, <2>2, <1>2, <1>3, LimiterAssumption DEF ClientInv, CeilingsHold
  <2>3. CASE i = j
    BY <2>1, <2>3, <1>2, <1>3
  <2>4. QED BY <1>2, <2>2, <2>3
<1>5. i..Len(admitted) \subseteq Requests
  BY <1>1, <1>2, <1>3, <1>4 DEF Requests
<1>6. /\ Cardinality(i..Len(admitted)) <= Cardinality(Requests)
      /\ Cardinality(Requests) \in Nat
  BY <1>1, <1>5, RequestsFinite, FS_Subset
<1>7. Cardinality(i..Len(admitted)) = Len(admitted) - i + 1
  BY <1>2, FS_Interval
<1>8. QED BY <1>2, <1>6, <1>7

LEMMA ClientAdmits ==
  ASSUME ClientInv, NEW t \in Pending, TryAdmit(t)
  PROVE  ClientInv'
<1> DEFINE class == calls[t].class
           n == Len(admitted)
<1>1. /\ admitted' = Append(admitted, [class |-> class, at |-> now])
      /\ calls' = [calls EXCEPT ![t].stage = "admitted"]
      /\ UNCHANGED <<now, blockedUntil, silentUntil>>
      /\ ~MustWait(class) /\ To(t, "admitted")
  BY DEF TryAdmit, To
<1>2. /\ calls \in Seq([class : Classes, stage : Stages]) /\ t \in DOMAIN calls
      /\ now \in 0..MaxNow /\ blockedUntil \in Nat /\ silentUntil \in Nat
      /\ admitted \in Seq([class : Classes, at : 0..MaxNow])
  BY DEF ClientInv, ClientTypeOK, Pending
<1>3. ClientTypeOK /\ class \in Classes
  BY <1>2, ClientFacts DEF ClientInv
<1> DEFINE admission == [class |-> class, at |-> now]
<1> admission \in [class : Classes, at : 0..MaxNow]
  BY <1>2, <1>3
<1> HIDE DEF class
<1>4. /\ n \in Nat /\ DOMAIN admitted = 1..n /\ DOMAIN admitted' = 1..(n + 1)
      /\ \A i \in 1..n : admitted'[i] = admitted[i]
      /\ admitted'[n + 1] = [class |-> class, at |-> now]
      /\ admitted' \in Seq([class : Classes, at : 0..MaxNow])
  BY <1>1, <1>2, <1>3, AppendProperties, LenProperties
<1>5. calls' \in Seq([class : Classes, stage : Stages])
  BY <1>1, <1>2, <1>3, ClientStage DEF Stages
<1>6. ClientTypeOK'
  BY <1>1, <1>2, <1>4, <1>5 DEF ClientTypeOK
<1>7. \A i \in DOMAIN admitted' : admitted'[i].at <= now'
  BY <1>1, <1>2, <1>4 DEF ClientInv
<1>8. ASSUME NEW i \in 1..n
      PROVE  /\ now >= admitted[i].at + Spacing
             /\ now - admitted[i].at < Window => (n + 1) - i < CapacityOf(class)
  <2>0. i \in DOMAIN admitted /\ n \in DOMAIN admitted /\ now \in Nat
    BY <1>2, <1>4
  <2>1. admitted[i].at \in Nat /\ admitted[n].at \in Nat /\ Spacing \in Nat /\ now \in Nat
    BY <2>0, <1>3, ClientFacts
  <2>2. admitted[n].at + Spacing <= now
    BY <1>2, <1>4, <1>1, <2>1 DEF MustWait, TooSoon
  <2>3. admitted[i].at <= admitted[n].at
    <3>1. CASE i < n
      <4>1. i \in DOMAIN admitted /\ n \in DOMAIN admitted
        BY <1>4, <3>1
      <4>2. admitted[n].at >= admitted[i].at + Spacing
        BY <3>1, <4>1 DEF ClientInv, CeilingsHold
      <4>3. QED BY <4>2, <2>1
    <3>2. CASE i = n
      BY <3>2, <2>1
    <3>3. i < n \/ i = n
      <4>1. i \in 1..n /\ n \in Nat
        BY <1>4
      <4>2. QED BY <4>1
    <3>4. QED BY <3>1, <3>2, <3>3
  <2>4. ASSUME now - admitted[i].at < Window
        PROVE  (n + 1) - i < CapacityOf(class)
    <3>1. n - i < Cardinality(Requests)
      BY <1>4, <2>4, WindowCounts
    <3>2. ~(Cardinality(Requests) >= CapacityOf(class))
      BY <1>1 DEF MustWait
    <3>3. CapacityOf(class) \in Nat
      BY LimiterAssumption DEF CapacityOf
    <3>4. Cardinality(Requests) \in Nat
      BY <1>3, RequestsFinite
    <3>5. QED BY <1>4, <3>1, <3>2, <3>3, <3>4
  <2>5. QED BY <2>1, <2>2, <2>3, <2>4
<1>9. CeilingsHold'
  <2> SUFFICES ASSUME NEW i \in DOMAIN admitted', NEW j \in DOMAIN admitted', i < j
      PROVE  /\ admitted'[j].at >= admitted'[i].at + Spacing
             /\ admitted'[j].at - admitted'[i].at < Window
                  => j - i < CapacityOf(admitted'[j].class)
    BY DEF CeilingsHold, CapacityOf
  <2>1. CASE j \in 1..n
    <3>1. i \in 1..n
      BY <1>4, <2>1
    <3>2. admitted'[i] = admitted[i] /\ admitted'[j] = admitted[j]
      BY <1>4, <2>1, <3>1
    <3>3. QED BY <1>4, <2>1, <3>1, <3>2 DEF ClientInv, CeilingsHold
  <2>2. CASE j = n + 1
    BY <1>4, <2>2, <1>8
  <2>3. QED BY <1>4, <2>1, <2>2
<1>10. QED BY <1>1, <1>6, <1>7, <1>9 DEF ClientInv

LEMMA ClientKeeps ==
  ASSUME ClientInv, [ClientNext]_clientVars
  PROVE  ClientInv'
<1>1. /\ calls \in Seq([class : Classes, stage : Stages])
      /\ now \in 0..MaxNow /\ blockedUntil \in Nat /\ silentUntil \in Nat
      /\ admitted \in Seq([class : Classes, at : 0..MaxNow])
      /\ MaxNow \in Nat /\ Window \in Nat /\ Delays \subseteq Nat
      /\ blockedUntil = silentUntil
  BY LimiterAssumption DEF ClientInv, ClientTypeOK
<1>2. CASE admitted' = admitted /\ now' = now /\ ClientTypeOK'
           /\ blockedUntil' = silentUntil'
  BY <1>2 DEF ClientInv, CeilingsHold, CapacityOf
<1>3. CASE \E class \in Classes : Enqueue(class)
  <2>1. PICK class \in Classes : Enqueue(class)
    BY <1>3
  <2>2. [class |-> class, stage |-> "queued"] \in [class : Classes, stage : Stages]
    BY DEF Stages
  <2>3. calls' \in Seq([class : Classes, stage : Stages])
    BY <1>1, <2>1, <2>2, AppendProperties DEF Enqueue
  <2>4. QED BY <1>1, <1>2, <2>1, <2>3 DEF Enqueue, ClientTypeOK
<1>4. CASE \E t \in Pending : TryAdmit(t)
  BY <1>4, ClientAdmits
<1>5. ClientTypeOK
  BY DEF ClientInv
<1>6. CASE (\E t \in Pending : Interrupt(t)) \/ (\E t \in DOMAIN calls : Exchange(t))
  BY <1>5, <1>6, ClientStage, <1>1, <1>2 DEF Interrupt, Exchange, Pending, Stages, ClientTypeOK
<1>7. CASE \E t \in DOMAIN calls : \E delay \in Delays : Throttle(t, delay)
  <2>1. PICK t \in DOMAIN calls : \E delay \in Delays : Throttle(t, delay)
    BY <1>7
  <2>2. PICK delay \in Delays : Throttle(t, delay)
    BY <2>1
  <2>3. calls' \in Seq([class : Classes, stage : Stages])
    BY <1>5, <2>2, ClientStage DEF Throttle, Stages
  <2>4. SilenceOf(delay) \in Nat
    BY <1>1 DEF SilenceOf
  <2>5. /\ blockedUntil' = Max({blockedUntil, SilenceOf(delay)})
        /\ silentUntil' = Max({silentUntil, SilenceOf(delay)})
        /\ UNCHANGED <<now, admitted>>
    BY <2>2 DEF Throttle, BlockUntil
  <2>6. blockedUntil' \in Nat /\ blockedUntil' = silentUntil'
    BY <1>1, <2>4, <2>5, MaxOfTwo
  <2>7. QED BY <1>1, <1>2, <2>3, <2>5, <2>6 DEF ClientTypeOK
<1>8. CASE Tick
  BY <1>1, <1>8, <1>5, ClientFacts DEF Tick, ClientInv, ClientTypeOK, CeilingsHold, CapacityOf
<1>9. CASE UNCHANGED clientVars
  BY <1>9, <1>2 DEF clientVars, ClientInv, ClientTypeOK
<1>10. QED BY <1>3, <1>4, <1>6, <1>7, <1>8, <1>9 DEF ClientNext

LEMMA ClientHolds == ServicesSpec => [](Examined("client") => ClientInv)
<1>1. ServicesInit => (Examined("client") => ClientInv)
  BY ClientBegins DEF ServicesInit
<1>2. (Examined("client") => ClientInv) /\ [ServicesNext]_servicesVars
        => (Examined("client") => ClientInv)'
  BY ClientSteps, ClientKeeps
<1>3. QED BY <1>1, <1>2, PTL DEF ServicesSpec

\* No window ends with more admissions than its last request may bring it to,
\* and admissions are spaced, for any ceilings, window and order of arrivals,
\* waits, cancellations and 429s.
THEOREM CeilingsAlwaysHold == ServicesSpec => []RequestsAreBounded
<1>1. (Examined("client") => ClientInv) => RequestsAreBounded
  BY DEF ClientInv, RequestsAreBounded
<1>2. QED BY <1>1, ClientHolds, PTL

-----------------------------------------------------------------------------
(* Account risk.  A halt that was answered is in memory (unless a save     *)
(* failed) and in every copy of the file, and no observation takes it out  *)
(* of any of them.                                                         *)

LEMMA RiskSteps ==
  ASSUME [ServicesNext]_servicesVars, Examined("risk")'
  PROVE  Examined("risk") /\ [RiskNext]_riskVars
BY DEF ServicesNext, servicesVars, Steps, Examined, Components, riskVars

RiskRecords ==
  [equity : Int, highwater : Int, baseline : Int, cashflow : Int, session : Nat,
   dataHalt : BOOLEAN, dailyHalt : BOOLEAN, drawdownHalt : BOOLEAN, peak : Int]

\* A state somebody saved by session t, or nothing yet.
SoundRisk(s, t) ==
  s # NoRisk => /\ s \in RiskRecords /\ s.session \in 1..t
                /\ s.highwater - s.cashflow = s.peak

Latched(s) == s # NoRisk => s.drawdownHalt
HaltedIn(s, t) == s # NoRisk => s.session = t /\ s.dailyHalt

\* A halt that was answered is in every copy there is, and one is on the disk.
RiskInv ==
  /\ today \in Nat \ {0} /\ mustReview \in BOOLEAN /\ haltedOn \in 0..today
  /\ \A s \in {riskMemory, riskFile, riskDurable} : SoundRisk(s, today)
  /\ mustReview =>
       /\ riskFile # NoRisk /\ riskDurable # NoRisk
       /\ \A s \in {riskMemory, riskFile, riskDurable} : Latched(s)
  /\ haltedOn = today =>
       /\ riskFile # NoRisk /\ riskDurable # NoRisk
       /\ \A s \in {riskMemory, riskFile, riskDurable} : HaltedIn(s, today)
  /\ answer \in {"allowed", "approved", "limit"} => Reason(riskMemory) = "allowed"

LEMMA NothingSaved == NoRisk.session = 0
BY DEF NoRisk

LEMMA RiskBegins == RiskInit => RiskInv
<1> SUFFICES ASSUME RiskInit PROVE RiskInv
  OBVIOUS
<1>1. /\ riskMemory = NoRisk /\ riskFile = NoRisk /\ riskDurable = NoRisk /\ today = 1
      /\ answer = "unknown_risk_state" /\ mustReview = FALSE /\ haltedOn = 0
  BY DEF RiskInit
<1>2. SoundRisk(NoRisk, today)
  BY DEF SoundRisk
<1>3. today \in Nat \ {0} /\ mustReview \in BOOLEAN /\ haltedOn \in 0..today
  <2>1. today \in Nat \ {0} /\ haltedOn \in 0..today
    BY <1>1
  <2>2. mustReview \in BOOLEAN
    BY <1>1, Zenon
  <2>3. QED BY <2>1, <2>2
<1>4. \A s \in {riskMemory, riskFile, riskDurable} : SoundRisk(s, today)
  BY <1>1, <1>2
<1>5. ~mustReview /\ haltedOn # today /\ answer \notin {"allowed", "approved", "limit"}
  BY <1>1
<1>6. QED BY <1>3, <1>4, <1>5 DEF RiskInv

\* What an observation makes of a state: flows are netted out, sessions go on,
\* and halts stay.
LEMMA ObservedFacts ==
  ASSUME NEW t \in Nat, NEW s, s # NoRisk, SoundRisk(s, t), NEW e \in Int,
         NEW n \in 1..t, NEW c \in Int, NEW p \in Int,
         NEW o, o = Observed(s, e, n, c, p)
  PROVE  /\ o # NoRisk /\ SoundRisk(o, t)
         /\ s.drawdownHalt => o.drawdownHalt
         /\ n <= s.session /\ s.dailyHalt =>
               o.session = s.session /\ o.dailyHalt
<1> DEFINE delta == c - s.cashflow
           rolls == n # s.session
           baseline == IF rolls THEN p ELSE s.baseline + delta
           daily == s.dailyHalt /\ ~rolls
           high == Larger(s.highwater + delta, e)
<1>1. /\ s \in RiskRecords /\ s.session \in 1..t
      /\ s.highwater - s.cashflow = s.peak
      /\ s.equity \in Int /\ s.highwater \in Int /\ s.baseline \in Int
      /\ s.cashflow \in Int /\ s.dataHalt \in BOOLEAN /\ s.dailyHalt \in BOOLEAN
      /\ s.drawdownHalt \in BOOLEAN /\ s.peak \in Int /\ s.session \in Nat
  BY DEF SoundRisk, RiskRecords
<1>2. NoRisk.session = 0
  BY NothingSaved
<1>3. CASE rolls /\ (n <= s.session \/ p = 0)
  <2>1. o = [s EXCEPT !.dataHalt = TRUE]
    BY <1>3 DEF Observed
  <2>2. /\ o \in RiskRecords /\ o.session = s.session /\ o.highwater = s.highwater
        /\ o.cashflow = s.cashflow /\ o.peak = s.peak
        /\ o.drawdownHalt = s.drawdownHalt /\ o.dailyHalt = s.dailyHalt
    BY <1>1, <2>1 DEF RiskRecords
  <2>3. QED BY <1>1, <1>2, <2>2 DEF SoundRisk
<1>4. CASE ~(rolls /\ (n <= s.session \/ p = 0))
           /\ (e <= 0 \/ baseline <= 0 \/ s.highwater + delta <= 0)
  <2>1. o = [s EXCEPT !.dataHalt = TRUE, !.dailyHalt = daily]
    BY <1>4 DEF Observed
  <2>2. /\ o \in RiskRecords /\ o.session = s.session /\ o.highwater = s.highwater
        /\ o.cashflow = s.cashflow /\ o.peak = s.peak
        /\ o.drawdownHalt = s.drawdownHalt /\ o.dailyHalt = daily
    BY <1>1, <2>1 DEF RiskRecords
  <2>3. QED BY <1>1, <1>2, <1>4, <2>2 DEF SoundRisk
<1>5. CASE ~(rolls /\ (n <= s.session \/ p = 0))
           /\ ~(e <= 0 \/ baseline <= 0 \/ s.highwater + delta <= 0)
  <2>1. o = [equity |-> e, highwater |-> high, baseline |-> baseline, cashflow |-> c,
              session |-> n, dataHalt |-> FALSE,
              dailyHalt |-> daily \/ e * 1000 <= baseline * 995,
              drawdownHalt |-> Drawdown(s, e, high),
              peak |-> Larger(s.peak, e - c)]
    BY <1>5 DEF Observed
  <2>2. high \in Int /\ Larger(s.peak, e - c) \in Int
        /\ high - c = Larger(s.peak, e - c)
    BY <1>1 DEF Larger
  <2>3. /\ (daily \/ e * 1000 <= baseline * 995) \in BOOLEAN
        /\ Drawdown(s, e, high) \in BOOLEAN /\ baseline \in Int /\ n \in Nat
        /\ s.drawdownHalt => Drawdown(s, e, high)
    BY <1>1 DEF Drawdown
  <2> HIDE DEF high, baseline
  <2>4. o \in RiskRecords
    BY <2>1, <2>2, <2>3 DEF RiskRecords
  <2>5. /\ o.session = n /\ o.highwater = high /\ o.cashflow = c
        /\ o.peak = Larger(s.peak, e - c)
        /\ o.drawdownHalt = Drawdown(s, e, high)
        /\ o.dailyHalt = (daily \/ e * 1000 <= baseline * 995)
    BY <2>1
  <2>6. n <= s.session => ~rolls
    BY <1>1, <1>5
  <2>7. o # NoRisk /\ SoundRisk(o, t)
    BY <1>2, <2>2, <2>4, <2>5 DEF SoundRisk
  <2>8. n <= s.session /\ s.dailyHalt => o.session = s.session /\ o.dailyHalt
    <3> SUFFICES ASSUME n <= s.session, s.dailyHalt
                 PROVE  o.session = s.session /\ o.dailyHalt
      OBVIOUS
    <3>1. n = s.session
      BY <2>6
    <3>2. daily = TRUE
      BY <1>1, <3>1
    <3> HIDE DEF daily
    <3>3. o.dailyHalt = (TRUE \/ e * 1000 <= baseline * 995)
      BY <2>5, <3>2
    <3>4. (TRUE \/ e * 1000 <= baseline * 995) = TRUE
      OBVIOUS
    <3>5. o.dailyHalt = TRUE
      BY <3>3, <3>4
    <3>6. QED BY <2>5, <3>1, <3>5
  <2>9. QED BY <1>1, <2>3, <2>5, <2>7, <2>8
<1>6. QED BY <1>3, <1>4, <1>5

LEMMA ReasonFacts ==
  ASSUME NEW s
  PROVE  /\ Reason(s) \in {"unknown_risk_state", "drawdown_halt", "data_halt",
                           "daily_halt", "allowed"}
         /\ Reason(s) = "drawdown_halt" => s # NoRisk /\ s.drawdownHalt
         /\ Reason(s) = "daily_halt" => s # NoRisk /\ s.dailyHalt
         /\ Reason(s) = "allowed" =>
              s # NoRisk /\ ~s.drawdownHalt /\ ~s.dailyHalt
BY DEF Reason

\* A save of a state that keeps the halts keeps the invariant, however it ends.
LEMMA SaveKeeps ==
  ASSUME RiskInv, UNCHANGED today,
         NEW s, s # NoRisk, NEW onDisk, NEW kept, SaveRisk(s, onDisk, kept),
         \A x \in {s, onDisk, kept} : SoundRisk(x, today),
         mustReview =>
           \A x \in {s, onDisk, kept} : x # NoRisk /\ x.drawdownHalt,
         haltedOn = today =>
           \A x \in {s, onDisk, kept} : x # NoRisk /\ x.session = today /\ x.dailyHalt
  PROVE  RiskInv'
<1>1. PICK outcome \in {"saved", "notReplaced", "notSynced"} :
         /\ riskMemory' = IF outcome = "saved" THEN s ELSE NoRisk
         /\ riskFile' = IF outcome = "notReplaced" THEN onDisk ELSE s
         /\ riskDurable' = IF outcome = "saved" THEN s ELSE kept
         /\ Announce(IF outcome = "saved" THEN Reason(s) ELSE "raised")
  BY DEF SaveRisk
<1>2. /\ riskMemory' \in {s, NoRisk} /\ riskFile' \in {s, onDisk}
      /\ riskDurable' \in {s, kept}
  BY <1>1
<1>3. \A x \in {riskMemory', riskFile', riskDurable'} : SoundRisk(x, today')
  BY <1>2 DEF SoundRisk
<1>4. s.session \in 1..today /\ today \in Nat \ {0}
  BY DEF SoundRisk, RiskInv
<1>5. CASE outcome = "saved"
  BY <1>1, <1>5, ReasonFacts, <1>4, <1>3 DEF Announce, RiskInv, Latched, HaltedIn
<1>6. CASE outcome # "saved"
  BY <1>1, <1>6, <1>2, <1>3, <1>4 DEF Announce, RiskInv, Latched, HaltedIn
<1>7. QED BY <1>5, <1>6

LEMMA ObserveKeeps ==
  ASSUME RiskInv, NEW e \in Equities, NEW n \in 1..LastSession, NEW c \in Cashflows,
         NEW p \in PriorCloses, Observe(e, n, c, p)
  PROVE  RiskInv'
<1>1. e \in Int /\ c \in Int /\ p \in Int /\ LastSession \in Nat
  BY RiskAssumption
<1>2. today \in Nat /\ n \in 1..today /\ riskMemory # NoRisk
  BY <1>1 DEF Observe, RiskInv
<1> DEFINE o == Observed(riskMemory, e, n, c, p)
<1>3. SaveRisk(o, riskFile, riskDurable) /\ UNCHANGED today
  BY DEF Observe
<1>4. SoundRisk(riskMemory, today)
  BY DEF RiskInv
<1>5. /\ o # NoRisk /\ SoundRisk(o, today)
      /\ riskMemory.drawdownHalt => o.drawdownHalt
      /\ n <= riskMemory.session /\ riskMemory.dailyHalt =>
           o.session = riskMemory.session /\ o.dailyHalt
  BY <1>1, <1>2, <1>4, ObservedFacts
<1> HIDE DEF o
<1>6. \A x \in {o, riskFile, riskDurable} : SoundRisk(x, today)
  BY <1>5 DEF RiskInv
<1>7. mustReview => \A x \in {o, riskFile, riskDurable} : x # NoRisk /\ x.drawdownHalt
  BY <1>2, <1>5 DEF RiskInv, Latched
<1>8. haltedOn = today =>
        \A x \in {o, riskFile, riskDurable} : x # NoRisk /\ x.session = today /\ x.dailyHalt
  BY <1>2, <1>5 DEF RiskInv, HaltedIn
<1>9. QED BY <1>3, <1>5, <1>6, <1>7, <1>8, SaveKeeps

LEMMA InitializeKeeps ==
  ASSUME RiskInv, NEW e \in Equities, NEW p \in PriorCloses, NEW c \in Cashflows,
         Initialize(e, p, c)
  PROVE  RiskInv'
<1> DEFINE s == FirstState(e, p, today, c)
           o == Observed(s, e, today, c, 0)
<1>1. e \in Int /\ c \in Int /\ p \in Int /\ today \in Nat /\ today \in 1..today
  BY RiskAssumption DEF RiskInv
<1>2. ~mustReview /\ haltedOn # today /\ UNCHANGED today
  BY DEF Initialize, RiskInv
<1>3. s # NoRisk /\ SoundRisk(s, today)
  BY <1>1 DEF FirstState, NoRisk, RiskRecords, Larger, SoundRisk
<1>4. o # NoRisk /\ SoundRisk(o, today)
  BY <1>1, <1>3, ObservedFacts
<1>5. \/ /\ riskMemory' = NoRisk /\ riskFile' \in {riskFile, s} /\ UNCHANGED riskDurable
         /\ Announce("raised")
      \/ SaveRisk(o, s, s)
  BY DEF Initialize
<1> HIDE DEF s, o
<1>6. CASE SaveRisk(o, s, s)
  BY <1>2, <1>3, <1>4, <1>6, SaveKeeps
<1>7. CASE /\ riskMemory' = NoRisk /\ riskFile' \in {riskFile, s} /\ UNCHANGED riskDurable
           /\ Announce("raised")
  BY <1>7, <1>2, <1>3 DEF Announce, RiskInv, SoundRisk
<1>8. QED BY <1>5, <1>6, <1>7

LEMMA ReviewKeeps ==
  ASSUME RiskInv, ReviewDrawdownReset
  PROVE  RiskInv'
<1> DEFINE r == Reviewed(riskMemory)
<1>1. riskMemory # NoRisk /\ mustReview' = FALSE /\ UNCHANGED today
      /\ haltedOn' = IF answer' = "daily_halt" THEN riskMemory'.session ELSE haltedOn
  BY DEF ReviewDrawdownReset
<1>2. PICK outcome \in {"saved", "notReplaced", "notSynced"} :
        /\ riskMemory' = IF outcome = "saved" THEN r ELSE NoRisk
        /\ riskFile' = IF outcome = "notReplaced" THEN riskFile ELSE r
        /\ riskDurable' = IF outcome = "saved" THEN r ELSE riskDurable
        /\ answer' = IF outcome = "saved" THEN Reason(r) ELSE "raised"
  BY DEF ReviewDrawdownReset
<1>3. /\ riskMemory \in RiskRecords /\ riskMemory.session \in 1..today
      /\ today \in Nat \ {0}
  BY <1>1 DEF RiskInv, SoundRisk
<1>4. /\ r = [riskMemory EXCEPT !.drawdownHalt = FALSE, !.highwater = riskMemory.equity,
                               !.peak = riskMemory.equity - riskMemory.cashflow]
  BY DEF Reviewed
<1>5. /\ r \in RiskRecords /\ r.session = riskMemory.session
      /\ r.highwater = riskMemory.equity /\ r.cashflow = riskMemory.cashflow
      /\ r.peak = riskMemory.equity - riskMemory.cashflow
      /\ r.dailyHalt = riskMemory.dailyHalt
  <2>1. /\ riskMemory.equity \in Int /\ riskMemory.cashflow \in Int
        /\ riskMemory.equity - riskMemory.cashflow \in Int
    BY <1>3 DEF RiskRecords
  <2>2. r \in RiskRecords
    BY <1>3, <1>4, <2>1 DEF RiskRecords
  <2>3. QED BY <1>3, <1>4, <2>2 DEF RiskRecords
<1> HIDE DEF r
<1>6. r # NoRisk /\ SoundRisk(r, today)
  BY <1>3, <1>5, NothingSaved DEF SoundRisk
<1>7. /\ riskMemory' \in {r, NoRisk} /\ riskFile' \in {r, riskFile}
      /\ riskDurable' \in {r, riskDurable}
  BY <1>2
<1>8. \A x \in {riskMemory', riskFile', riskDurable'} : SoundRisk(x, today')
  BY <1>1, <1>6, <1>7 DEF RiskInv, SoundRisk
<1>9. CASE outcome = "saved"
  <2>1. /\ riskMemory' = r /\ riskFile' = r /\ riskDurable' = r /\ answer' = Reason(r)
        /\ haltedOn' = IF Reason(r) = "daily_halt" THEN r.session ELSE haltedOn
    BY <1>1, <1>2, <1>9
  <2>2. haltedOn' \in 0..today'
    BY <1>1, <1>3, <1>5, <2>1 DEF RiskInv
  <2>3. haltedOn' = today => r.session = today /\ r.dailyHalt
    BY <1>1, <1>5, <2>1, ReasonFacts DEF RiskInv, HaltedIn
  <2>4. haltedOn' = today' =>
          \A x \in {riskMemory', riskFile', riskDurable'} : HaltedIn(x, today')
    BY <1>1, <2>1, <2>3 DEF HaltedIn
  <2>5. QED BY <1>1, <1>3, <2>1, ReasonFacts, <1>6, <1>8, <2>2, <2>4 DEF RiskInv
<1>10. CASE outcome # "saved"
  BY <1>1, <1>2, <1>10, <1>5, <1>6, <1>7, <1>3, <1>8 DEF RiskInv, HaltedIn
<1>11. QED BY <1>9, <1>10

LEMMA RiskKeeps ==
  ASSUME RiskInv, [RiskNext]_riskVars
  PROVE  RiskInv'
<1>1. ASSUME NEW e \in Equities, NEW p \in PriorCloses, NEW c \in Cashflows,
             Initialize(e, p, c)
      PROVE  RiskInv'
  BY <1>1, InitializeKeeps
<1>2. ASSUME NEW e \in Equities, NEW n \in 1..LastSession, NEW c \in Cashflows,
             NEW p \in PriorCloses, Observe(e, n, c, p)
      PROVE  RiskInv'
  BY <1>2, ObserveKeeps
<1>3. CASE ReviewDrawdownReset
  BY <1>3, ReviewKeeps
<1>4. ASSUME NEW h \in Held, NEW p \in Proposals, ApproveEntry(h, p)
      PROVE  RiskInv'
  BY <1>4, ReasonFacts DEF ApproveEntry, RiskInv, SoundRisk, Latched, HaltedIn
<1>5. CASE Restart
  BY <1>5, ReasonFacts DEF Restart, RiskInv, SoundRisk, Latched, HaltedIn
<1>6. CASE PowerLoss
  BY <1>6, ReasonFacts DEF PowerLoss, RiskInv, SoundRisk, Latched, HaltedIn
<1>7. CASE NextSession
  BY <1>7 DEF NextSession, RiskInv, SoundRisk, Latched
<1>8. CASE UNCHANGED riskVars
  BY <1>8 DEF riskVars, RiskInv, SoundRisk, Latched, HaltedIn
<1>9. QED BY <1>1, <1>2, <1>3, <1>4, <1>5, <1>6, <1>7, <1>8 DEF RiskNext

LEMMA RiskHolds == ServicesSpec => [](Examined("risk") => RiskInv)
<1>1. ServicesInit => (Examined("risk") => RiskInv)
  BY RiskBegins DEF ServicesInit
<1>2. (Examined("risk") => RiskInv) /\ [ServicesNext]_servicesVars
        => (Examined("risk") => RiskInv)'
  BY RiskSteps, RiskKeeps
<1>3. QED BY <1>1, <1>2, PTL DEF ServicesSpec

LEMMA HaltsAreKept == RiskInv => HaltsStand /\ HighwaterIsNetOfFlows
<1> SUFFICES ASSUME RiskInv PROVE HaltsStand /\ HighwaterIsNetOfFlows
  OBVIOUS
<1>1. HighwaterIsNetOfFlows
  BY DEF RiskInv, SoundRisk, HighwaterIsNetOfFlows
<1>2. ASSUME answer \in {"allowed", "approved", "limit"}
      PROVE  ~mustReview /\ haltedOn # today
  BY <1>2, ReasonFacts DEF RiskInv, Latched, HaltedIn
<1>3. QED BY <1>1, <1>2 DEF HaltsStand

-----------------------------------------------------------------------------
(* Sizing.  Each trade contributes to three sums over the names, so a step *)
(* that changes one trade changes the sums by what the trade changed.      *)

LEMMA SizingSteps ==
  ASSUME [ServicesNext]_servicesVars, Examined("sizing")'
  PROVE  Examined("sizing") /\ [SizingNext]_sizingVars
BY DEF ServicesNext, servicesVars, Steps, Examined, Components, sizingVars

Trades ==
  [stage : {"none", "reserved", "open"}, qty : Nat, entry : Nat, stop : Nat, mark : Nat]

SoundTrade(t) ==
  /\ t \in Trades
  /\ t.stage = "none" => t = NoTrade
  /\ t.stage # "none" => 0 < t.stop /\ t.stop <= t.mark /\ t.mark <= t.entry
  /\ t.stage = "reserved" => t.mark = t.entry

LossOf(t) == IF t.stage = "open" THEN t.qty * (t.entry - t.mark) ELSE 0
RiskOf(t) ==
  IF t.stage \in {"open", "reserved"} THEN t.qty * (t.mark - t.stop + CostBuffer) ELSE 0
ReserveOf(t) == IF t.stage = "reserved" THEN t.qty * (t.entry + CostBuffer) ELSE 0

Losses == SetSum([n \in Names |-> LossOf(book[n])], Names)
Risks == SetSum([n \in Names |-> RiskOf(book[n])], Names)
Reserves == SetSum([n \in Names |-> ReserveOf(book[n])], Names)

SizingInv ==
  /\ book \in [Names -> Trades] /\ \A n \in Names : SoundTrade(book[n])
  /\ cashLeft \in Int /\ realizedLoss \in Nat
  /\ MaxSessionLoss >= 0 => realizedLoss + Losses + Risks <= MaxSessionLoss
  /\ Reserves <= cashLeft

LEMMA SizingConstants ==
  /\ IsFiniteSet(Names) /\ StartEquity \in Nat /\ StartCash \in Nat /\ CostBuffer \in Nat
  /\ MaxSessionLoss \in Int /\ TargetNotional \in Nat /\ MaxPosition \in Nat
  /\ MaxGross \in Nat /\ PositionPerMille \in Nat /\ GrossPerMille \in Nat
  /\ RiskPerMille \in Nat
  /\ \A pair \in Prices : /\ pair[1] \in Nat /\ pair[2] \in Nat
                          /\ 0 < pair[2] /\ pair[2] < pair[1]
BY SizingAssumption

LEMMA Products ==
  ASSUME NEW a \in Nat, NEW b \in Nat
  PROVE  a * b \in Nat
OBVIOUS

LEMMA Contributions ==
  ASSUME NEW t, SoundTrade(t)
  PROVE  LossOf(t) \in Nat /\ RiskOf(t) \in Nat /\ ReserveOf(t) \in Nat
<1>1. /\ t.qty \in Nat /\ t.entry \in Nat /\ t.stop \in Nat /\ t.mark \in Nat
      /\ CostBuffer \in Nat
  BY SizingConstants DEF SoundTrade, Trades
<1>2. LossOf(t) \in Nat
  <2>1. CASE t.stage = "open"
    BY <1>1, <2>1, Products DEF SoundTrade, LossOf
  <2>2. QED BY <2>1 DEF LossOf
<1>3. RiskOf(t) \in Nat
  <2>1. CASE t.stage \in {"open", "reserved"}
    BY <1>1, <2>1, Products DEF SoundTrade, RiskOf
  <2>2. QED BY <2>1 DEF RiskOf
<1>4. ReserveOf(t) \in Nat
  BY <1>1, Products DEF ReserveOf
<1>5. QED BY <1>2, <1>3, <1>4

LEMMA SumsOfContributions ==
  ASSUME \A n \in Names : SoundTrade(book[n])
  PROVE  /\ Losses \in Int /\ 0 <= Losses /\ Risks \in Int /\ 0 <= Risks
         /\ Reserves \in Int /\ 0 <= Reserves
<1> DEFINE zero == [n \in Names |-> 0]
           l == [n \in Names |-> LossOf(book[n])]
           r == [n \in Names |-> RiskOf(book[n])]
           c == [n \in Names |-> ReserveOf(book[n])]
<1>1. \A n \in Names : l[n] \in Nat /\ r[n] \in Nat /\ c[n] \in Nat /\ zero[n] = 0
  BY Contributions
<1>2. IsFiniteSet(Names)
  BY SizingConstants
<1> HIDE DEF zero, l, r, c
<1>3. /\ \A n \in Names : l[n] \in Int /\ r[n] \in Int /\ c[n] \in Int /\ zero[n] \in Int
      /\ \A n \in Names : zero[n] <= l[n] /\ zero[n] <= r[n] /\ zero[n] <= c[n]
  BY <1>1
<1>4. SetSum(zero, Names) = 0
  BY <1>1, <1>2, <1>3, SetSumOfZero
<1>5. SetSum(l, Names) \in Int /\ SetSum(zero, Names) <= SetSum(l, Names)
  BY <1>2, <1>3, SetSumOrder
<1>6. SetSum(r, Names) \in Int /\ SetSum(zero, Names) <= SetSum(r, Names)
  BY <1>2, <1>3, SetSumOrder
<1>7. SetSum(c, Names) \in Int /\ SetSum(zero, Names) <= SetSum(c, Names)
  BY <1>2, <1>3, SetSumOrder
<1>8. QED BY <1>4, <1>5, <1>6, <1>7 DEF l, r, c, Losses, Risks, Reserves

\* What the module sums over a stage is what it sums over the names.
LEMMA SumsAreOfStages ==
  ASSUME \A n \in Names : SoundTrade(book[n])
  PROVE  /\ SumIn({"open"}, OpenLoss) = Losses
         /\ UsedRisk = Risks
         /\ SumIn({"reserved"}, ReservedCash) = Reserves
         /\ GrossUse \in Int
<1>1. SumIn({"open"}, OpenLoss) = SetSum(OpenLoss, InStage({"open"}))
  BY DEF SumIn, FoldFunctionOnSet, MapThenFoldSet, SetSum, SetSums, Pick
<1>2. UsedRisk = SetSum(StopRisk, InStage({"open", "reserved"}))
  BY DEF UsedRisk, SumIn, FoldFunctionOnSet, MapThenFoldSet, SetSum, SetSums, Pick
<1>3. SumIn({"reserved"}, ReservedCash) = SetSum(ReservedCash, InStage({"reserved"}))
  BY DEF SumIn, FoldFunctionOnSet, MapThenFoldSet, SetSum, SetSums, Pick
<1>4. GrossUse = SetSum(OpenNotional, InStage({"open"}))
                 + SetSum(Notional, InStage({"reserved"}))
  BY DEF GrossUse, SumIn, FoldFunctionOnSet, MapThenFoldSet, SetSum, SetSums, Pick
<1>5. \A n \in Names : /\ book[n].qty \in Nat /\ book[n].entry \in Nat
                        /\ book[n].stop \in Nat /\ book[n].mark \in Nat
  BY DEF SoundTrade, Trades
<1>6. IsFiniteSet(Names) /\ CostBuffer \in Nat
  BY SizingConstants
<1>7. \A stages : InStage(stages) \in SUBSET Names
  BY DEF InStage
<1>8. SetSum(OpenLoss, InStage({"open"})) = Losses
  <2> DEFINE g == [n \in Names |-> LossOf(book[n])]
             T == InStage({"open"})
             f == OpenLoss
  <2>1. \A n \in Names : f[n] \in Int /\ g[n] \in Int
    BY <1>5, Contributions DEF OpenLoss
  <2>2. \A n \in Names : g[n] = IF n \in T THEN f[n] ELSE 0
    BY DEF LossOf, OpenLoss, InStage
  <2>3. T \in SUBSET Names
    BY <1>7
  <2> HIDE DEF g, T, f
  <2>4. SetSum(f, T) = SetSum(g, Names)
    BY <1>6, <2>1, <2>2, <2>3, SetSumRestricts
  <2>5. QED BY <2>4 DEF f, T, g, Losses
<1>9. SetSum(StopRisk, InStage({"open", "reserved"})) = Risks
  <2> DEFINE g == [n \in Names |-> RiskOf(book[n])]
             T == InStage({"open", "reserved"})
             f == StopRisk
  <2>1. \A n \in Names : f[n] \in Int /\ g[n] \in Int
    BY <1>5, <1>6, Contributions DEF StopRisk
  <2>2. \A n \in Names : g[n] = IF n \in T THEN f[n] ELSE 0
    BY DEF RiskOf, StopRisk, InStage
  <2>3. T \in SUBSET Names
    BY <1>7
  <2> HIDE DEF g, T, f
  <2>4. SetSum(f, T) = SetSum(g, Names)
    BY <1>6, <2>1, <2>2, <2>3, SetSumRestricts
  <2>5. QED BY <2>4 DEF f, T, g, Risks
<1>10. SetSum(ReservedCash, InStage({"reserved"})) = Reserves
  <2> DEFINE g == [n \in Names |-> ReserveOf(book[n])]
             T == InStage({"reserved"})
             f == ReservedCash
  <2>1. \A n \in Names : f[n] \in Int /\ g[n] \in Int
    BY <1>5, <1>6, Contributions DEF ReservedCash
  <2>2. \A n \in Names : g[n] = IF n \in T THEN f[n] ELSE 0
    BY DEF ReserveOf, ReservedCash, InStage
  <2>3. T \in SUBSET Names
    BY <1>7
  <2> HIDE DEF g, T, f
  <2>4. SetSum(f, T) = SetSum(g, Names)
    BY <1>6, <2>1, <2>2, <2>3, SetSumRestricts
  <2>5. QED BY <2>4 DEF f, T, g, Reserves
<1>11. GrossUse \in Int
  <2> DEFINE T == InStage({"open"})
             f == OpenNotional
             U == InStage({"reserved"})
             h == Notional
  <2>1. \A n \in Names : f[n] \in Int /\ h[n] \in Int
    BY <1>5 DEF OpenNotional, Notional
  <2>2. IsFiniteSet(T) /\ IsFiniteSet(U) /\ T \subseteq Names /\ U \subseteq Names
    BY <1>6, <1>7, FS_Subset
  <2> HIDE DEF T, f, U, h
  <2>3. SetSum(f, T) \in Int
    BY <2>1, <2>2, SetSumOrder
  <2>4. SetSum(h, U) \in Int
    BY <2>1, <2>2, SetSumOrder
  <2>5. QED BY <1>4, <2>3, <2>4 DEF f, T, U, h
<1>12. QED BY <1>1, <1>2, <1>3, <1>8, <1>9, <1>10, <1>11

\* A step that changes one trade changes each sum by what the trade changed.
LEMMA TradeChanges ==
  ASSUME book \in [Names -> Trades], \A n \in Names : SoundTrade(book[n]),
         NEW n \in Names, NEW t, SoundTrade(t), book' = [book EXCEPT ![n] = t]
  PROVE  /\ book' \in [Names -> Trades] /\ \A m \in Names : SoundTrade(book[m])'
         /\ Losses' = Losses + (LossOf(t) - LossOf(book[n]))
         /\ Risks' = Risks + (RiskOf(t) - RiskOf(book[n]))
         /\ Reserves' = Reserves + (ReserveOf(t) - ReserveOf(book[n]))
<1>1. book'[n] = t /\ \A m \in Names : m # n => book'[m] = book[m]
  OBVIOUS
<1>2. IsFiniteSet(Names) /\ CostBuffer' = CostBuffer
  BY SizingConstants
<1>3. \A m \in Names : SoundTrade(book'[m])
  BY <1>1
<1>4. book' \in [Names -> Trades]
  BY DEF SoundTrade
<1>5. Losses' = Losses + (LossOf(t) - LossOf(book[n]))
  <2> DEFINE f == [m \in Names |-> LossOf(book[m])]
             g == [m \in Names |-> LossOf(book'[m])]
             d == LossOf(t) - LossOf(book[n])
  <2>1. d \in Int /\ \A m \in Names : f[m] \in Int /\ g[m] \in Int
    BY <1>3, Contributions
  <2>2. \A m \in Names : g[m] = IF m = n THEN f[m] + d ELSE f[m]
    BY <1>1, Contributions
  <2> HIDE DEF f, g, d
  <2>3. SetSum(g, Names) = SetSum(f, Names) + d
    BY <1>2, <2>1, <2>2, SetSumDiffers
  <2>4. QED BY <2>3 DEF f, g, d, Losses, LossOf
<1>6. Risks' = Risks + (RiskOf(t) - RiskOf(book[n]))
  <2> DEFINE f == [m \in Names |-> RiskOf(book[m])]
             g == [m \in Names |-> RiskOf(book'[m])]
             d == RiskOf(t) - RiskOf(book[n])
  <2>1. d \in Int /\ \A m \in Names : f[m] \in Int /\ g[m] \in Int
    BY <1>3, Contributions
  <2>2. \A m \in Names : g[m] = IF m = n THEN f[m] + d ELSE f[m]
    BY <1>1, Contributions
  <2> HIDE DEF f, g, d
  <2>3. SetSum(g, Names) = SetSum(f, Names) + d
    BY <1>2, <2>1, <2>2, SetSumDiffers
  <2>4. QED BY <1>2, <2>3 DEF f, g, d, Risks, RiskOf
<1>7. Reserves' = Reserves + (ReserveOf(t) - ReserveOf(book[n]))
  <2> DEFINE f == [m \in Names |-> ReserveOf(book[m])]
             g == [m \in Names |-> ReserveOf(book'[m])]
             d == ReserveOf(t) - ReserveOf(book[n])
  <2>1. d \in Int /\ \A m \in Names : f[m] \in Int /\ g[m] \in Int
    BY <1>3, Contributions
  <2>2. \A m \in Names : g[m] = IF m = n THEN f[m] + d ELSE f[m]
    BY <1>1, Contributions
  <2> HIDE DEF f, g, d
  <2>3. SetSum(g, Names) = SetSum(f, Names) + d
    BY <1>2, <2>1, <2>2, SetSumDiffers
  <2>4. QED BY <1>2, <2>3 DEF f, g, d, Reserves, ReserveOf
<1>8. QED BY <1>3, <1>4, <1>5, <1>6, <1>7 DEF SoundTrade

\* The arithmetic of sizing: a quantity fits when it is at most the floor.
LEMMA FloorFits ==
  ASSUME NEW x \in Int, NEW y \in Nat, 0 < y, NEW q \in Int
  PROVE  x \div y \in Int /\ (q <= x \div y <=> q * y <= x)
<1> DEFINE d == x \div y
<1>1. d \in Int /\ d * y <= x /\ x < (d + 1) * y
  OBVIOUS
<1> HIDE DEF d
<1>2. ASSUME q <= d PROVE q * y <= x
  BY <1>1, <1>2, Products
<1>3. ASSUME d < q PROVE x < q * y
  BY <1>1, <1>3, Products
<1>4. QED BY <1>1, <1>2, <1>3 DEF d

LEMMA LeastOfFive ==
  ASSUME NEW a \in Int, NEW b \in Int, NEW c \in Int, NEW d \in Int, NEW e \in Int
  PROVE  /\ Min({a, b, c, d, e}) \in {a, b, c, d, e}
         /\ Min({a, b, c, d, e}) <= a /\ Min({a, b, c, d, e}) <= b
         /\ Min({a, b, c, d, e}) <= c /\ Min({a, b, c, d, e}) <= d
         /\ Min({a, b, c, d, e}) <= e
<1> DEFINE S == {a, b, c, d, e}
           p == IF a <= b THEN a ELSE b
           q == IF p <= c THEN p ELSE c
           r == IF q <= d THEN q ELSE d
           m == IF r <= e THEN r ELSE e
<1>1. p \in {a, b} /\ p \in Int /\ p <= a /\ p <= b
  OBVIOUS
<1> HIDE DEF p
<1>2. q \in {p, c} /\ q \in Int /\ q <= p /\ q <= c
  BY <1>1
<1> HIDE DEF q
<1>3. r \in {q, d} /\ r \in Int /\ r <= q /\ r <= d
  BY <1>2
<1> HIDE DEF r
<1>4. m \in {r, e} /\ m \in Int /\ m <= r /\ m <= e
  BY <1>3
<1> HIDE DEF m
<1>5. m \in S /\ m <= a /\ m <= b /\ m <= c /\ m <= d /\ m <= e
  BY <1>1, <1>2, <1>3, <1>4
<1>6. m \in S /\ \A y \in S : m <= y
  BY <1>5
<1> HIDE DEF S
<1>7. Min(S) \in S /\ \A y \in S : Min(S) <= y
  BY <1>6 DEF Min
<1> DEFINE least == Min(S)
<1> HIDE DEF least
<1>8. least \in S /\ least <= a /\ least <= b /\ least <= c /\ least <= d /\ least <= e
  BY <1>7 DEF S, least
<1>9. QED BY <1>8 DEF S, least

LEMMA LossOfSession ==
  ASSUME SizingInv
  PROVE  /\ Equity \in Int /\ SessionLoss = realizedLoss + Losses
         /\ StartEquity - Equity = realizedLoss + Losses
         /\ RiskBudget \in Int /\ PositionCap \in Int /\ GrossCap \in Int
         /\ UsedRisk = Risks /\ GrossUse \in Int
         /\ SumIn({"reserved"}, ReservedCash) = Reserves
         /\ Losses \in Int /\ Risks \in Int /\ Reserves \in Int
         /\ 0 <= Losses /\ 0 <= Risks /\ 0 <= Reserves
         /\ MaxSessionLoss >= 0 =>
              RiskBudget <= 1000 * Max({0, RemainingLoss - UsedRisk})
         /\ RemainingLoss = Max({0, MaxSessionLoss - SessionLoss})
         /\ RemainingLoss \in Int
<1>1. /\ Losses \in Int /\ Risks \in Int /\ Reserves \in Int
      /\ 0 <= Losses /\ 0 <= Risks /\ 0 <= Reserves
  BY SumsOfContributions DEF SizingInv
<1>2. /\ SumIn({"open"}, OpenLoss) = Losses /\ UsedRisk = Risks
      /\ SumIn({"reserved"}, ReservedCash) = Reserves /\ GrossUse \in Int
  BY SumsAreOfStages DEF SizingInv
<1>3. Equity \in Int /\ StartEquity - Equity = realizedLoss + Losses
  BY <1>1, <1>2, SizingConstants DEF Equity, SizingInv
<1>4. SessionLoss = realizedLoss + Losses /\ SessionLoss \in Int
  BY <1>1, <1>3, MaxOfTwo DEF SessionLoss, SizingInv
<1>5. RemainingLoss = Max({0, MaxSessionLoss - SessionLoss}) /\ RemainingLoss \in Int
  BY <1>4, SizingConstants, MaxOfTwo DEF RemainingLoss
<1>6. /\ PositionCap \in Int /\ GrossCap \in Int
  BY <1>3, SizingConstants, MinOfTwo DEF PositionCap, GrossCap
<1>7. /\ RiskBudget \in Int
      /\ MaxSessionLoss >= 0 => RiskBudget <= 1000 * Max({0, RemainingLoss - UsedRisk})
  <2> DEFINE left == 1000 * Max({0, RemainingLoss - UsedRisk})
  <2>1. Max({0, RemainingLoss - UsedRisk}) \in Int
    <3> DEFINE x == RemainingLoss - UsedRisk
    <3>1. x \in Int
      BY <1>1, <1>2, <1>5
    <3> HIDE DEF x
    <3>2. Max({0, x}) \in Int
      BY <3>1, MaxOfTwo
    <3>3. QED BY <3>2 DEF x
  <2>2. left \in Int
    BY <2>1
  <2>3. Equity * RiskPerMille \in Int
    BY <1>3, SizingConstants
  <2> HIDE DEF left
  <2>4. Min({Equity * RiskPerMille, left}) \in Int
        /\ Min({Equity * RiskPerMille, left}) <= left
    BY <2>2, <2>3, MinOfTwo
  <2>5. RiskBudget = IF MaxSessionLoss = -1 THEN Equity * RiskPerMille
                     ELSE Min({Equity * RiskPerMille, left})
    BY DEF RiskBudget, left
  <2>6. QED BY <2>3, <2>4, <2>5, SizingConstants DEF left
<1>8. QED BY <1>1, <1>2, <1>3, <1>4, <1>5, <1>6, <1>7

\* The size fits every limit, and one share more breaks one.
LEMMA SizeFacts ==
  ASSUME SizingInv, NEW n \in Names, NEW entry \in Nat, NEW stop \in Nat,
         0 < stop, stop < entry, book[n] = NoTrade,
         NEW q, q = SizeLongEntry(n, entry, stop)
  PROVE  /\ q \in Int /\ SymbolUse(n) = 0
         /\ q * entry <= TargetNotional
         /\ q > 0 => 1000 * (q * entry) <= PositionCap
         /\ q > 0 => 1000 * (q * entry + GrossUse) <= GrossCap
         /\ q > 0 => q * (entry + CostBuffer) + Reserves <= cashLeft
         /\ 1000 * q * (entry - stop + CostBuffer) <= RiskBudget
         /\ \/ TargetNotional < (q + 1) * entry
            \/ PositionCap < 1000 * ((q + 1) * entry)
            \/ GrossCap < 1000 * ((q + 1) * entry + GrossUse)
            \/ cashLeft < (q + 1) * (entry + CostBuffer) + Reserves
            \/ RiskBudget < 1000 * (q + 1) * (entry - stop + CostBuffer)
<1>1. /\ RiskBudget \in Int /\ PositionCap \in Int /\ GrossCap \in Int /\ GrossUse \in Int
      /\ Reserves \in Int /\ SumIn({"reserved"}, ReservedCash) = Reserves
      /\ cashLeft \in Int
  BY LossOfSession DEF SizingInv
<1>2. TargetNotional \in Nat /\ CostBuffer \in Nat
  BY SizingConstants
<1>3. SymbolUse(n) = 0
  BY DEF SymbolUse, Notional, NoTrade
<1> DEFINE share == 1000 * entry
           cash == entry + CostBuffer
           risk == 1000 * (entry - stop + CostBuffer)
           mine == PositionCap - 1000 * SymbolUse(n)
           all == GrossCap - 1000 * GrossUse
           free == cashLeft - SumIn({"reserved"}, ReservedCash)
           A == (1000 * TargetNotional) \div share
           B == Max({0, mine}) \div share
           C == Max({0, all}) \div share
           D == Max({0, free}) \div cash
           E == RiskBudget \div risk
<1>4. share \in Nat /\ 0 < share /\ cash \in Nat /\ 0 < cash /\ risk \in Nat /\ 0 < risk
  BY <1>2
<1>5. mine = PositionCap /\ mine \in Int /\ all \in Int /\ free \in Int
      /\ free = cashLeft - Reserves
      /\ 1000 * TargetNotional \in Int
  BY <1>1, <1>2, <1>3
<1>6. q = Min({A, B, C, D, E})
  BY DEF SizeLongEntry, Capacities
<1> HIDE DEF share, cash, risk, mine, all, free
<1>7. /\ Max({0, mine}) \in Int /\ mine <= Max({0, mine}) /\ Max({0, mine}) \in {0, mine}
      /\ Max({0, all}) \in Int /\ all <= Max({0, all}) /\ Max({0, all}) \in {0, all}
      /\ Max({0, free}) \in Int /\ free <= Max({0, free}) /\ Max({0, free}) \in {0, free}
  BY <1>5, MaxOfTwo
<1>8. A \in Int /\ B \in Int /\ C \in Int /\ D \in Int /\ E \in Int
  BY <1>1, <1>4, <1>5, <1>7, FloorFits
<1> DEFINE Fits(k) == /\ k <= A <=> k * share <= 1000 * TargetNotional
                      /\ k <= B <=> k * share <= Max({0, mine})
                      /\ k <= C <=> k * share <= Max({0, all})
                      /\ k <= D <=> k * cash <= Max({0, free})
                      /\ k <= E <=> k * risk <= RiskBudget
<1>9. ASSUME NEW k \in Int PROVE Fits(k)
  <2>1. k <= A <=> k * share <= 1000 * TargetNotional
    BY <1>4, <1>5, FloorFits
  <2>2. k <= B <=> k * share <= Max({0, mine})
    BY <1>4, <1>7, FloorFits
  <2>3. k <= C <=> k * share <= Max({0, all})
    BY <1>4, <1>7, FloorFits
  <2>4. k <= D <=> k * cash <= Max({0, free})
    BY <1>4, <1>7, FloorFits
  <2>5. k <= E <=> k * risk <= RiskBudget
    BY <1>1, <1>4, FloorFits
  <2> HIDE DEF A, B, C, D, E
  <2>6. QED BY <2>1, <2>2, <2>3, <2>4, <2>5, Zenon DEF Fits
<1> HIDE DEF A, B, C, D, E, Fits
<1>10. /\ q \in {A, B, C, D, E} /\ q \in Int
       /\ q <= A /\ q <= B /\ q <= C /\ q <= D /\ q <= E
  <2> DEFINE m == Min({A, B, C, D, E})
  <2>1. m \in {A, B, C, D, E} /\ m <= A /\ m <= B /\ m <= C /\ m <= D /\ m <= E
    BY <1>8, LeastOfFive
  <2> HIDE DEF m
  <2>2. q = m
    BY <1>6 DEF m
  <2>3. QED BY <1>8, <2>1, <2>2
<1>11. /\ q * share <= 1000 * TargetNotional /\ q * share <= Max({0, mine})
       /\ q * share <= Max({0, all}) /\ q * cash <= Max({0, free})
       /\ q * risk <= RiskBudget
  <2>1. Fits(q)
    BY <1>9, <1>10
  <2>2. QED BY <1>10, <2>1, Zenon DEF Fits
<1>12. \/ 1000 * TargetNotional < (q + 1) * share
       \/ Max({0, mine}) < (q + 1) * share
       \/ Max({0, all}) < (q + 1) * share
       \/ Max({0, free}) < (q + 1) * cash
       \/ RiskBudget < (q + 1) * risk
  <2>1. q + 1 \in Int /\ (q + 1) * share \in Int /\ (q + 1) * cash \in Int
        /\ (q + 1) * risk \in Int
    BY <1>4, <1>10
  <2>2. Fits(q + 1)
    BY <1>9, <2>1
  <2> DEFINE u == (q + 1) * share
             v == (q + 1) * cash
             w == (q + 1) * risk
  <2>3. ~(q + 1 <= A /\ q + 1 <= B /\ q + 1 <= C /\ q + 1 <= D /\ q + 1 <= E)
    BY <1>8, <1>10
  <2>4. ~(/\ u <= 1000 * TargetNotional /\ u <= Max({0, mine}) /\ u <= Max({0, all})
          /\ v <= Max({0, free}) /\ w <= RiskBudget)
    BY <2>2, <2>3, Zenon DEF Fits
  <2>5. u \in Int /\ v \in Int /\ w \in Int
    BY <2>1
  <2> HIDE DEF u, v, w
  <2>6. \/ 1000 * TargetNotional < u \/ Max({0, mine}) < u \/ Max({0, all}) < u
        \/ Max({0, free}) < v \/ RiskBudget < w
    BY <1>1, <1>5, <1>7, <2>4, <2>5
  <2>7. QED BY <2>6 DEF u, v, w
<1>13. /\ \A k \in Int : k * share = 1000 * (k * entry)
       /\ \A k \in Int : k * risk = 1000 * k * (entry - stop + CostBuffer)
       /\ \A k \in Int : k * cash = k * (entry + CostBuffer)
       /\ \A k \in Int : k * entry \in Int
  BY <1>2 DEF share, risk, cash
<1>14. q > 0 => q * share > 0 /\ q * cash > 0
  <2> SUFFICES ASSUME q > 0 PROVE q * share > 0 /\ q * cash > 0
    OBVIOUS
  <2>1. q - 1 \in Nat
    BY <1>10
  <2>2. (q - 1) * share \in Nat /\ (q - 1) * cash \in Nat
    BY <1>4, <2>1, Products
  <2>3. q * share = (q - 1) * share + share /\ q * cash = (q - 1) * cash + cash
    BY <1>4, <1>10
  <2>4. QED BY <1>4, <2>2, <2>3
<1>15. q * entry \in Int /\ (q + 1) * entry \in Int /\ q + 1 \in Int
  BY <1>10, <1>13
<1>16. q * entry <= TargetNotional
  BY <1>2, <1>10, <1>11, <1>13, <1>15
<1>17. q > 0 => 1000 * (q * entry) <= PositionCap
  BY <1>1, <1>5, <1>7, <1>10, <1>11, <1>13, <1>14, <1>15
<1>18. q > 0 => 1000 * (q * entry + GrossUse) <= GrossCap
  <2> SUFFICES ASSUME q > 0 PROVE 1000 * (q * entry + GrossUse) <= GrossCap
    OBVIOUS
  <2>1. q * share <= all
    <3> DEFINE u == q * share
    <3>1. u \in Int /\ 0 < u /\ u <= Max({0, all})
      BY <1>4, <1>10, <1>11, <1>14
    <3> HIDE DEF u
    <3>2. u <= all
      BY <1>5, <1>7, <3>1
    <3>3. QED BY <3>2 DEF u
  <2>2. 1000 * (q * entry) <= all
    BY <1>10, <1>13, <2>1
  <2>3. QED BY <1>1, <1>15, <2>2 DEF all
<1>19. q > 0 => q * (entry + CostBuffer) + Reserves <= cashLeft
  <2> SUFFICES ASSUME q > 0 PROVE q * (entry + CostBuffer) + Reserves <= cashLeft
    OBVIOUS
  <2>1. q * cash <= free
    <3> DEFINE u == q * cash
    <3>1. u \in Int /\ 0 < u /\ u <= Max({0, free})
      BY <1>4, <1>10, <1>11, <1>14
    <3> HIDE DEF u
    <3>2. u <= free
      BY <1>5, <1>7, <3>1
    <3>3. QED BY <3>2 DEF u
  <2>2. q * cash \in Int
    BY <1>4, <1>10
  <2>3. QED BY <1>1, <1>5, <1>10, <1>13, <2>1, <2>2
<1>20. 1000 * q * (entry - stop + CostBuffer) <= RiskBudget
  BY <1>10, <1>11, <1>13
<1>21. \/ TargetNotional < (q + 1) * entry
       \/ PositionCap < 1000 * ((q + 1) * entry)
       \/ GrossCap < 1000 * ((q + 1) * entry + GrossUse)
       \/ cashLeft < (q + 1) * (entry + CostBuffer) + Reserves
       \/ RiskBudget < 1000 * (q + 1) * (entry - stop + CostBuffer)
  <2>1. CASE 1000 * TargetNotional < (q + 1) * share
    BY <1>2, <1>13, <1>15, <2>1
  <2>2. CASE Max({0, mine}) < (q + 1) * share
    BY <1>1, <1>5, <1>7, <1>13, <1>15, <2>2
  <2>3. CASE Max({0, all}) < (q + 1) * share
    BY <1>5, <1>7, <1>13, <1>15, <2>3, <1>1 DEF all
  <2>4. CASE Max({0, free}) < (q + 1) * cash
    BY <1>4, <1>5, <1>7, <1>15, <2>4, <1>1, <1>13
  <2>5. CASE RiskBudget < (q + 1) * risk
    BY <1>13, <1>15, <2>5
  <2>6. QED BY <1>12, <2>1, <2>2, <2>3, <2>4, <2>5
<1>22. QED BY <1>3, <1>10, <1>16, <1>17, <1>18, <1>19, <1>20, <1>21

LEMMA SizingBegins == SizingInit => SizingInv
<1> SUFFICES ASSUME SizingInit PROVE SizingInv
  OBVIOUS
<1>1. /\ book = [n \in Names |-> NoTrade] /\ cashLeft = StartCash /\ realizedLoss = 0
      /\ StartCash \in Nat /\ IsFiniteSet(Names)
  BY SizingConstants DEF SizingInit
<1>2. SoundTrade(NoTrade) /\ NoTrade \in Trades
  BY DEF SoundTrade, NoTrade, Trades
<1>3. LossOf(NoTrade) = 0 /\ RiskOf(NoTrade) = 0 /\ ReserveOf(NoTrade) = 0
  BY DEF LossOf, RiskOf, ReserveOf, NoTrade
<1>4. Losses = 0 /\ Risks = 0 /\ Reserves = 0
  <2>1. ASSUME NEW f, \A n \in Names : f[n] = 0 PROVE SetSum(f, Names) = 0
    BY <1>1, <2>1, SetSumOfZero
  <2> DEFINE l == [n \in Names |-> LossOf(book[n])]
             r == [n \in Names |-> RiskOf(book[n])]
             c == [n \in Names |-> ReserveOf(book[n])]
  <2>2. \A n \in Names : l[n] = 0 /\ r[n] = 0 /\ c[n] = 0
    BY <1>1, <1>3
  <2> HIDE DEF l, r, c
  <2>3. SetSum(l, Names) = 0 /\ SetSum(r, Names) = 0 /\ SetSum(c, Names) = 0
    BY <2>1, <2>2
  <2>4. QED BY <2>3 DEF l, r, c, Losses, Risks, Reserves
<1>5. QED BY <1>1, <1>2, <1>4 DEF SizingInv

\* A step that changes one trade keeps the invariant when what it does to the
\* contributions, the losses and the cash does.
LEMMA TradeKeeps ==
  ASSUME SizingInv, NEW n \in Names, NEW t, SoundTrade(t), book' = [book EXCEPT ![n] = t],
         cashLeft' \in Int, realizedLoss' \in Nat,
         MaxSessionLoss >= 0 =>
           \/ realizedLoss' + LossOf(t) + RiskOf(t)
                <= realizedLoss + LossOf(book[n]) + RiskOf(book[n])
           \/ realizedLoss' + Losses + (LossOf(t) - LossOf(book[n]))
                + Risks + (RiskOf(t) - RiskOf(book[n])) <= MaxSessionLoss,
         Reserves + (ReserveOf(t) - ReserveOf(book[n])) <= cashLeft'
  PROVE  SizingInv'
<1>1. /\ book' \in [Names -> Trades] /\ \A m \in Names : SoundTrade(book[m])'
      /\ Losses' = Losses + (LossOf(t) - LossOf(book[n]))
      /\ Risks' = Risks + (RiskOf(t) - RiskOf(book[n]))
      /\ Reserves' = Reserves + (ReserveOf(t) - ReserveOf(book[n]))
  BY TradeChanges DEF SizingInv
<1>2. /\ Losses \in Int /\ Risks \in Int /\ Reserves \in Int
      /\ LossOf(t) \in Int /\ LossOf(book[n]) \in Int
      /\ RiskOf(t) \in Int /\ RiskOf(book[n]) \in Int
      /\ ReserveOf(t) \in Int /\ ReserveOf(book[n]) \in Int
      /\ MaxSessionLoss \in Int /\ realizedLoss \in Int
  BY SumsOfContributions, Contributions, SizingConstants DEF SizingInv
<1>3. MaxSessionLoss >= 0 => realizedLoss' + Losses' + Risks' <= MaxSessionLoss
  BY <1>1, <1>2 DEF SizingInv
<1>4. QED BY <1>1, <1>3 DEF SizingInv

LEMMA ReserveKeeps ==
  ASSUME SizingInv, NEW n \in Names, NEW entry \in Nat, NEW stop \in Nat, 0 < stop,
         stop < entry, Reserve(n, entry, stop)
  PROVE  SizingInv'
<1> DEFINE q == SizeLongEntry(n, entry, stop)
           t == [stage |-> "reserved", qty |-> q, entry |-> entry, stop |-> stop,
                 mark |-> entry]
           risk == q * (entry - stop + CostBuffer)
<1>1. book[n] = NoTrade /\ q > 0 /\ book' = [book EXCEPT ![n] = t]
      /\ UNCHANGED <<cashLeft, realizedLoss>>
  BY DEF Reserve
<1>2. /\ q \in Int /\ q * (entry + CostBuffer) + Reserves <= cashLeft
      /\ 1000 * q * (entry - stop + CostBuffer) <= RiskBudget
  BY <1>1, SizeFacts
<1> HIDE DEF q
<1>3. q \in Nat /\ CostBuffer \in Nat
  BY <1>1, <1>2, SizingConstants
<1>4. SoundTrade(t)
  BY <1>3 DEF SoundTrade, Trades
<1>5. LossOf(t) = 0 /\ RiskOf(t) = risk /\ ReserveOf(t) = q * (entry + CostBuffer)
  BY DEF LossOf, RiskOf, ReserveOf
<1>6. LossOf(book[n]) = 0 /\ RiskOf(book[n]) = 0 /\ ReserveOf(book[n]) = 0
  BY <1>1 DEF LossOf, RiskOf, ReserveOf, NoTrade
<1>7. risk \in Int /\ risk > 0 /\ 1000 * risk <= RiskBudget
  <2>1. q - 1 \in Nat /\ entry - stop + CostBuffer \in Nat /\ 0 < entry - stop + CostBuffer
    BY <1>1, <1>3
  <2> DEFINE w == entry - stop + CostBuffer
  <2>2. w \in Nat /\ 0 < w
    BY <2>1
  <2> HIDE DEF w
  <2>3. (q - 1) * w \in Nat
    BY <2>1, <2>2, Products
  <2>4. q * w = (q - 1) * w + w
    BY <1>3, <2>2
  <2>5. q * w \in Int /\ q * w > 0
    BY <2>2, <2>3, <2>4
  <2>6. 1000 * q * w = 1000 * (q * w)
    BY <1>3, <2>2
  <2>7. QED BY <1>2, <2>5, <2>6 DEF w
<1>8. MaxSessionLoss >= 0 => realizedLoss + Losses + Risks + risk <= MaxSessionLoss
  <2> SUFFICES ASSUME MaxSessionLoss >= 0
               PROVE  realizedLoss + Losses + Risks + risk <= MaxSessionLoss
    OBVIOUS
  <2> DEFINE left == RemainingLoss - UsedRisk
             spare == MaxSessionLoss - SessionLoss
  <2>1. /\ RiskBudget <= 1000 * Max({0, left}) /\ RiskBudget \in Int
        /\ RemainingLoss = Max({0, spare}) /\ RemainingLoss \in Int
        /\ SessionLoss = realizedLoss + Losses /\ UsedRisk = Risks
        /\ Losses \in Int /\ Risks \in Int /\ 0 <= Risks
    BY LossOfSession
  <2>2. MaxSessionLoss \in Int /\ realizedLoss \in Int
    BY SizingConstants DEF SizingInv
  <2>3. left \in Int /\ spare \in Int
    BY <2>1, <2>2
  <2> HIDE DEF risk
  <2>4. left = RemainingLoss - Risks /\ spare = MaxSessionLoss - (realizedLoss + Losses)
    BY <2>1
  <2> HIDE DEF left, spare
  <2>5. Max({0, left}) = (IF 0 >= left THEN 0 ELSE left)
        /\ Max({0, spare}) = (IF 0 >= spare THEN 0 ELSE spare)
    BY <2>3, MaxOfTwo
  <2>6. risk <= left
    BY <1>7, <2>1, <2>3, <2>5
  <2>7. risk <= spare - Risks
    BY <1>7, <2>1, <2>3, <2>4, <2>5, <2>6
  <2>8. QED BY <1>7, <2>1, <2>2, <2>4, <2>7
<1> HIDE DEF t, risk
<1>9. /\ cashLeft' \in Int /\ realizedLoss' \in Nat /\ Losses \in Int /\ Risks \in Int
      /\ Reserves \in Int /\ q * (entry + CostBuffer) \in Int /\ realizedLoss \in Int
  BY <1>1, <1>3, LossOfSession DEF SizingInv
<1>10. MaxSessionLoss >= 0 =>
         realizedLoss' + Losses + (LossOf(t) - LossOf(book[n]))
           + Risks + (RiskOf(t) - RiskOf(book[n])) <= MaxSessionLoss
  BY <1>1, <1>5, <1>6, <1>7, <1>8, <1>9
<1>11. Reserves + (ReserveOf(t) - ReserveOf(book[n])) <= cashLeft'
  BY <1>1, <1>2, <1>5, <1>6, <1>9
<1>12. QED BY <1>1, <1>4, <1>9, <1>10, <1>11, TradeKeeps

LEMMA FillKeeps ==
  ASSUME SizingInv, NEW n \in Names, Fill(n)
  PROVE  SizingInv'
<1> DEFINE b == book[n]
           t == [b EXCEPT !.stage = "open"]
<1>1. /\ b \in Trades /\ b.stage = "reserved" /\ b.mark = b.entry /\ SoundTrade(b)
      /\ 0 < b.stop /\ b.stop <= b.mark
      /\ b.qty \in Nat /\ b.entry \in Nat /\ b.stop \in Nat /\ b.mark \in Nat
  BY DEF Fill, SizingInv, SoundTrade, Trades
<1>2. /\ book' = [book EXCEPT ![n] = t] /\ realizedLoss' = realizedLoss
      /\ cashLeft' = cashLeft - b.qty * b.entry
  BY DEF Fill, Notional, SizingInv
<1>3. /\ t \in Trades /\ t.stage = "open" /\ t.qty = b.qty /\ t.entry = b.entry
      /\ t.stop = b.stop /\ t.mark = b.mark
  BY <1>1 DEF Trades
<1> HIDE DEF t
<1>4. SoundTrade(t)
  BY <1>1, <1>3 DEF SoundTrade
<1>5. /\ LossOf(t) = 0 /\ LossOf(b) = 0 /\ RiskOf(t) = RiskOf(b) /\ ReserveOf(t) = 0
      /\ ReserveOf(b) = b.qty * (b.entry + CostBuffer)
  BY <1>1, <1>3 DEF LossOf, RiskOf, ReserveOf
<1>6. /\ RiskOf(b) \in Int /\ Reserves \in Int /\ CostBuffer \in Nat
      /\ b.qty * b.entry \in Int /\ b.qty * CostBuffer \in Nat
      /\ b.qty * (b.entry + CostBuffer) = b.qty * b.entry + b.qty * CostBuffer
  BY SizingConstants, <1>1, Contributions, LossOfSession, Products
<1>7. cashLeft' \in Int /\ realizedLoss' \in Nat /\ Reserves <= cashLeft /\ cashLeft \in Int
  BY <1>2, <1>6 DEF SizingInv
<1> DEFINE cash == b.qty * b.entry
           cost == b.qty * CostBuffer
<1>8. Reserves + (ReserveOf(t) - ReserveOf(b)) <= cashLeft'
  <2>1. /\ cash \in Int /\ cost \in Nat /\ ReserveOf(b) = cash + cost
        /\ cashLeft' = cashLeft - cash
    BY <1>2, <1>5, <1>6
  <2> HIDE DEF cash, cost
  <2>2. QED BY <1>5, <1>6, <1>7, <2>1
<1>9. realizedLoss' + LossOf(t) + RiskOf(t) <= realizedLoss + LossOf(b) + RiskOf(b)
  BY <1>2, <1>5, <1>6, <1>7
<1> HIDE DEF b
<1>10. b = book[n]
  BY DEF b
<1>11. QED BY <1>2, <1>4, <1>7, <1>8, <1>9, <1>10, TradeKeeps

LEMMA MarkKeeps ==
  ASSUME SizingInv, NEW n \in Names, NEW price \in Nat, Mark(n, price)
  PROVE  SizingInv'
<1> DEFINE b == book[n]
           t == [b EXCEPT !.mark = price]
<1>1. /\ b \in Trades /\ b.stage = "open" /\ SoundTrade(b) /\ 0 < b.stop
      /\ b.qty \in Nat /\ b.entry \in Nat /\ b.stop \in Nat /\ b.mark \in Nat
      /\ b.stop <= price /\ price <= b.entry
  BY DEF Mark, SizingInv, SoundTrade, Trades
<1>2. book' = [book EXCEPT ![n] = t] /\ UNCHANGED <<cashLeft, realizedLoss>>
  BY DEF Mark
<1>3. /\ t \in Trades /\ t.stage = "open" /\ t.qty = b.qty /\ t.entry = b.entry
      /\ t.stop = b.stop /\ t.mark = price
  BY <1>1 DEF Trades
<1> HIDE DEF t
<1>4. SoundTrade(t)
  BY <1>1, <1>3 DEF SoundTrade
<1>5. CostBuffer \in Nat
  BY SizingConstants
<1>6. LossOf(t) + RiskOf(t) = LossOf(b) + RiskOf(b)
  BY <1>1, <1>3, <1>5 DEF LossOf, RiskOf
<1>7. ReserveOf(t) = 0 /\ ReserveOf(b) = 0
  BY <1>1, <1>3 DEF ReserveOf
<1>8. /\ LossOf(t) \in Int /\ RiskOf(t) \in Int /\ LossOf(b) \in Int /\ RiskOf(b) \in Int
      /\ Reserves \in Int /\ realizedLoss \in Int
  BY <1>1, <1>4, Contributions, LossOfSession DEF SizingInv
<1>9. /\ cashLeft' \in Int /\ realizedLoss' \in Nat
      /\ Reserves + (ReserveOf(t) - ReserveOf(b)) <= cashLeft'
      /\ realizedLoss' + LossOf(t) + RiskOf(t) <= realizedLoss + LossOf(b) + RiskOf(b)
  BY <1>2, <1>6, <1>7, <1>8 DEF SizingInv
<1> HIDE DEF b
<1>10. b = book[n]
  BY DEF b
<1>11. QED BY <1>2, <1>4, <1>9, <1>10, TradeKeeps

LEMMA WithdrawKeeps ==
  ASSUME SizingInv, NEW n \in Names, Withdraw(n)
  PROVE  SizingInv'
<1> DEFINE b == book[n]
<1>1. SoundTrade(b) /\ SoundTrade(NoTrade)
  BY DEF SizingInv, SoundTrade, Trades, NoTrade
<1>2. book' = [book EXCEPT ![n] = NoTrade] /\ UNCHANGED <<cashLeft, realizedLoss>>
  BY DEF Withdraw
<1>3. LossOf(NoTrade) = 0 /\ RiskOf(NoTrade) = 0 /\ ReserveOf(NoTrade) = 0
  BY DEF LossOf, RiskOf, ReserveOf, NoTrade
<1>4. LossOf(b) \in Nat /\ RiskOf(b) \in Nat /\ ReserveOf(b) \in Nat
  BY <1>1, Contributions
<1>5. Reserves \in Int /\ Reserves <= cashLeft /\ cashLeft \in Int /\ realizedLoss \in Nat
  BY LossOfSession DEF SizingInv
<1> HIDE DEF b
<1>6. /\ cashLeft' \in Int /\ realizedLoss' \in Nat
      /\ Reserves + (ReserveOf(NoTrade) - ReserveOf(b)) <= cashLeft'
      /\ realizedLoss' + LossOf(NoTrade) + RiskOf(NoTrade)
           <= realizedLoss + LossOf(b) + RiskOf(b)
  BY <1>2, <1>3, <1>4, <1>5
<1>7. b = book[n]
  BY DEF b
<1>8. QED BY <1>1, <1>2, <1>6, <1>7, TradeKeeps

LEMMA CloseKeeps ==
  ASSUME SizingInv, NEW n \in Names, CloseTrade(n)
  PROVE  SizingInv'
<1> DEFINE b == book[n]
           each == Min({CostBuffer, b.mark})
           cost == b.qty * each
<1>1. /\ b \in Trades /\ b.stage = "open" /\ SoundTrade(b) /\ SoundTrade(NoTrade)
      /\ b.stop <= b.mark /\ b.mark <= b.entry
      /\ b.qty \in Nat /\ b.entry \in Nat /\ b.stop \in Nat /\ b.mark \in Nat
  BY DEF CloseTrade, SizingInv, SoundTrade, Trades, NoTrade
<1>2. /\ book' = [book EXCEPT ![n] = NoTrade]
      /\ cashLeft' = cashLeft + b.qty * b.mark - cost
      /\ realizedLoss' = realizedLoss + b.qty * (b.entry - b.mark) + cost
  BY DEF CloseTrade, OpenNotional, OpenLoss
<1>3. LossOf(NoTrade) = 0 /\ RiskOf(NoTrade) = 0 /\ ReserveOf(NoTrade) = 0
  BY DEF LossOf, RiskOf, ReserveOf, NoTrade
<1>4. /\ LossOf(b) = b.qty * (b.entry - b.mark) /\ ReserveOf(b) = 0
      /\ RiskOf(b) = b.qty * (b.mark - b.stop + CostBuffer)
  BY <1>1 DEF LossOf, RiskOf, ReserveOf
<1>5. CostBuffer \in Nat
  BY SizingConstants
<1>6. each \in Nat /\ each <= CostBuffer /\ each <= b.mark
  BY <1>1, <1>5, MinOfTwo
<1> HIDE DEF b, each
<1>7. /\ cost \in Nat /\ b.qty * (b.mark - each) \in Nat
      /\ b.qty * (b.mark - b.stop + CostBuffer - each) \in Nat
      /\ b.qty * (b.entry - b.mark) \in Nat
  BY <1>1, <1>5, <1>6, Products
<1>8. /\ b.qty * (b.mark - each) = b.qty * b.mark - cost
      /\ b.qty * (b.mark - b.stop + CostBuffer - each)
           = b.qty * (b.mark - b.stop + CostBuffer) - cost
      /\ b.qty * b.mark \in Int /\ b.qty * (b.mark - b.stop + CostBuffer) \in Int
  BY <1>1, <1>5, <1>6
<1> DEFINE sale == b.qty * b.mark
           risk == b.qty * (b.mark - b.stop + CostBuffer)
           loss == b.qty * (b.entry - b.mark)
<1>9. /\ cost \in Nat /\ loss \in Nat /\ sale - cost \in Nat /\ risk - cost \in Nat
      /\ sale \in Int /\ risk \in Int
      /\ cashLeft' = cashLeft + sale - cost /\ realizedLoss' = realizedLoss + loss + cost
      /\ LossOf(b) = loss /\ RiskOf(b) = risk
  BY <1>2, <1>4, <1>7, <1>8
<1> HIDE DEF cost, sale, risk, loss
<1>10. Reserves \in Int /\ Reserves <= cashLeft /\ cashLeft \in Int /\ realizedLoss \in Nat
  BY LossOfSession DEF SizingInv
<1>11. /\ cashLeft' \in Int /\ realizedLoss' \in Nat
       /\ Reserves + (ReserveOf(NoTrade) - ReserveOf(b)) <= cashLeft'
       /\ realizedLoss' + LossOf(NoTrade) + RiskOf(NoTrade)
            <= realizedLoss + LossOf(b) + RiskOf(b)
  BY <1>3, <1>4, <1>9, <1>10
<1>12. b = book[n]
  BY DEF b
<1>13. QED BY <1>1, <1>2, <1>11, <1>12, TradeKeeps

LEMMA SizingKeeps ==
  ASSUME SizingInv, [SizingNext]_sizingVars
  PROVE  SizingInv'
<1>1. ASSUME NEW n \in Names, NEW pair \in Prices, Reserve(n, pair[1], pair[2])
      PROVE  SizingInv'
  BY <1>1, SizingConstants, ReserveKeeps
<1>2. ASSUME NEW n \in Names, Fill(n) PROVE SizingInv'
  BY <1>2, FillKeeps
<1>3. ASSUME NEW n \in Names, CloseTrade(n) PROVE SizingInv'
  BY <1>3, CloseKeeps
<1>4. ASSUME NEW n \in Names, Withdraw(n) PROVE SizingInv'
  BY <1>4, WithdrawKeeps
<1>5. ASSUME NEW n \in Names, NEW pair \in Prices, NEW i \in 1..2, Mark(n, pair[i])
      PROVE  SizingInv'
  BY SizingConstants, <1>5, MarkKeeps
<1>6. CASE UNCHANGED sizingVars
  BY <1>6 DEF sizingVars, SizingInv, SoundTrade, Losses, Risks, Reserves,
    LossOf, RiskOf, ReserveOf
<1>7. QED BY <1>1, <1>2, <1>3, <1>4, <1>5, <1>6 DEF SizingNext

LEMMA SizingHolds == ServicesSpec => [](Examined("sizing") => SizingInv)
<1>1. ServicesInit => (Examined("sizing") => SizingInv)
  BY SizingBegins DEF ServicesInit
<1>2. (Examined("sizing") => SizingInv) /\ [ServicesNext]_servicesVars
        => (Examined("sizing") => SizingInv)'
  BY SizingSteps, SizingKeeps
<1>3. QED BY <1>1, <1>2, PTL DEF ServicesSpec

LEMMA SizingIsSound == SizingInv => SessionLossBounded /\ SizeIsLargest
<1> SUFFICES ASSUME SizingInv PROVE SessionLossBounded /\ SizeIsLargest
  OBVIOUS
<1>1. /\ SessionLoss = realizedLoss + Losses /\ UsedRisk = Risks
      /\ SumIn({"reserved"}, ReservedCash) = Reserves
      /\ PositionCap \in Int /\ GrossCap \in Int /\ GrossUse \in Int /\ RiskBudget \in Int
      /\ Reserves \in Int /\ cashLeft \in Int
  BY LossOfSession DEF SizingInv
<1>2. SessionLossBounded
  BY <1>1, LossOfSession, SizingConstants DEF SessionLossBounded, SizingInv
<1>3. ASSUME NEW n \in Names, NEW pair \in Prices, book[n] = NoTrade,
             NEW q, q = SizeLongEntry(n, pair[1], pair[2]), NEW k, k \in {q, q + 1}
      PROVE  LET keeps ==
                   /\ k * pair[1] <= TargetNotional
                   /\ 1000 * (k * pair[1] + SymbolUse(n)) <= PositionCap
                   /\ 1000 * (k * pair[1] + GrossUse) <= GrossCap
                   /\ k * (pair[1] + CostBuffer)
                        + SumIn({"reserved"}, ReservedCash) <= cashLeft
                   /\ 1000 * k * (pair[1] - pair[2] + CostBuffer) <= RiskBudget
             IN  (q > 0 /\ k = q => keeps) /\ (k = q + 1 => ~keeps)
  <2> DEFINE entry == pair[1]
             stop == pair[2]
             whole == q * entry
             more == (q + 1) * entry
             paid == (q + 1) * (entry + CostBuffer)
             risk == 1000 * (q + 1) * (entry - stop + CostBuffer)
  <2>1. entry \in Nat /\ stop \in Nat /\ 0 < stop /\ stop < entry
    BY SizingConstants
  <2>2. /\ q \in Int /\ SymbolUse(n) = 0
        /\ q * entry <= TargetNotional
        /\ q > 0 => 1000 * (q * entry) <= PositionCap
        /\ q > 0 => 1000 * (q * entry + GrossUse) <= GrossCap
        /\ q > 0 => q * (entry + CostBuffer) + Reserves <= cashLeft
        /\ 1000 * q * (entry - stop + CostBuffer) <= RiskBudget
        /\ \/ TargetNotional < (q + 1) * entry
           \/ PositionCap < 1000 * ((q + 1) * entry)
           \/ GrossCap < 1000 * ((q + 1) * entry + GrossUse)
           \/ cashLeft < (q + 1) * (entry + CostBuffer) + Reserves
           \/ RiskBudget < 1000 * (q + 1) * (entry - stop + CostBuffer)
    BY <1>3, <2>1, SizeFacts
  <2>3. /\ whole \in Int /\ more \in Int /\ paid \in Int /\ risk \in Int
        /\ TargetNotional \in Int
    BY <2>1, <2>2, SizingConstants
  <2> HIDE DEF whole, more, paid, risk
  <2>4. CASE k = q
    BY <2>2, <2>3, <1>1, <2>4 DEF whole
  <2>5. CASE k = q + 1
    BY <2>2, <1>1, <2>3, <2>5 DEF more, paid, risk
  <2>6. QED BY <1>3, <2>4, <2>5
<1>4. SizeIsLargest
  BY <1>3 DEF SizeIsLargest
<1>5. QED BY <1>2, <1>4

\* A drawdown or daily halt is lifted by nothing but the review or session that
\* may, through failing saves, restarts and power losses; flows move the
\* highwater mark and nothing else; the entries of a session cannot lose more
\* than its limit, although each is sized to the largest quantity allowed.
THEOREM RiskIsAlwaysContained == ServicesSpec => []RiskIsContained
<1>1. ASSUME Examined("risk") => RiskInv, Examined("sizing") => SizingInv
      PROVE  RiskIsContained
  BY <1>1, HaltsAreKept, SizingIsSound DEF RiskIsContained
<1>2. QED BY <1>1, RiskHolds, SizingHolds, PTL

-----------------------------------------------------------------------------
(* Runners.  The invariant follows a cycle through its stages: what the    *)
(* status file names, which cycles are in the record, what may be posted.  *)

RunStages ==
    {"idle", "preflight", "top", "choose", "journal", "guard", "work", "resume", "report", "close",
     "verify", "ended", "killed"}
RunStatuses == {"none", "preflight", "running", "stopped", "needs_attention", "complete"}
RunReasons ==
    {"none", "stop_requested", "close_cutoff", "low_disk_space", "session_loss_cutoff", "rejected_size",
     "executor_halted"}
RunResults == {"none", "not_submitted", "needs_reconciliation", "flat", "flat_accounting_pending"}
RunRecords ==
    [status : RunStatuses, reason : RunReasons, cycles : 0..MaxCycles, plan : RunSymbols \cup {"none"}, recovered : BOOLEAN]
RunTrades ==
    [sym : RunSymbols \cup {"none"}, sig : Nat, open : BOOLEAN, active : BOOLEAN, result : RunResults,
     bought : BOOLEAN, tries : 0..3]
RunShape ==
    /\ runStage \in RunStages /\ script \in {"none", "cyclic", "breakout"}
    /\ steady \in 0..LastMinute /\ local \in 0..LastMinute
    /\ record \in RunRecords /\ trade \in RunTrades
    /\ onFile \in [status : RunStatuses, plan : RunSymbols \cup {"none"}]
    /\ signal \in [RunSymbols -> Nat]

\* The status file and the record name the plan before it may be open, and
\* until it is not.
PlanIsNamed ==
    trade.open \/ runStage \in {"journal", "guard", "work"}
        => onFile.plan = trade.sym /\ record.plan = trade.sym

\* The cycles in the record are those that ended: all of them in a round's
\* checks, all but the last while that one is worked on.
CyclesAreRecorded ==
    /\ logged \subseteq [cycle : 1..record.cycles, storage : BOOLEAN]
    /\ runStage \in {"idle", "preflight", "top", "choose", "close"}
         => logged = Recorded(1..record.cycles) /\ ~record.recovered
    /\ runStage \in {"journal", "guard", "work", "resume", "report"}
         => record.cycles > 0 /\ logged = Recorded(1..(record.cycles - 1))
    /\ runStage = "verify" /\ record.reason = "close_cutoff" /\ record.status # "needs_attention"
         => logged = Recorded(1..record.cycles) /\ ~record.recovered

\* Only the verification says complete.
VerdictIsLast ==
    /\ runStage # "ended" => onFile.status # "complete" /\ record.status # "complete"
    /\ runStage = "ended" => CompleteIsClean
    /\ runStage = "ended" /\ trade.open => record.status = "needs_attention" /\ onFile.status # "complete"

\* A cycle that may still post has posted nothing; what it would post is seen
\* and, of the breakout runner, new and covered by the stored judgement.
EntriesAreFresh ==
    /\ runStage = "idle" => entries = {}
    /\ \A e \in entries : e.cycle \in 1..record.cycles
    /\ runStage \in {"journal", "guard"} => \A e \in entries : e.cycle < record.cycles
    /\ script = "breakout" => \A e \in entries : <<e.sym, e.sig>> \in seen
    /\ script = "breakout" /\ runStage \in {"journal", "guard"}
         => /\ shown = record.cycles /\ <<trade.sym, trade.sig>> \in seen
            /\ \A e \in entries : <<e.sym, e.sig>> # <<trade.sym, trade.sig>>

RunInv == RunShape /\ PlanIsNamed /\ CyclesAreRecorded /\ VerdictIsLast /\ EntriesAreFresh /\ EntriesAreDue

LEMMA RunSteps ==
  ASSUME [ServicesNext]_servicesVars, Examined("run")'
  PROVE  Examined("run") /\ [RunNext]_runVars
BY DEF ServicesNext, servicesVars, Steps, Examined, Components, runVars

LEMMA RunBegin == RunInit => RunInv
<1> SUFFICES ASSUME RunInit PROVE RunInv
  OBVIOUS
<1> USE RunAssumption
<1>1. record \in RunRecords
  BY DEF RunInit, RunRecords, RunStatuses, RunReasons
<1>2. trade \in RunTrades
  BY DEF RunInit, RunTrades, NoOpenTrade, RunResults
<1>3. RunShape
  BY <1>1, <1>2 DEF RunInit, RunShape, RunStages, RunStatuses
<1>4. PlanIsNamed /\ CyclesAreRecorded
  BY DEF RunInit, PlanIsNamed, CyclesAreRecorded, Recorded, NoOpenTrade
<1>5. VerdictIsLast /\ EntriesAreFresh /\ EntriesAreDue
  BY DEF RunInit, VerdictIsLast, EntriesAreFresh, EntriesAreDue
<1>6. QED BY <1>3, <1>4, <1>5 DEF RunInv

LEMMA RecordChanges ==
  ASSUME NEW r \in RunRecords, NEW s \in RunStatuses
  PROVE  /\ [r EXCEPT !.status = s] \in RunRecords
         /\ [r EXCEPT !.status = s].status = s
         /\ [r EXCEPT !.status = s].reason = r.reason
         /\ [r EXCEPT !.status = s].cycles = r.cycles
         /\ [r EXCEPT !.status = s].plan = r.plan
         /\ [r EXCEPT !.status = s].recovered = r.recovered
BY DEF RunRecords

\* What the world does to a runner leaves its own state alone; a kill ends it.
LEMMA WorldKeeps ==
  ASSUME RunInv, steady' \in 0..LastMinute, local' \in 0..LastMinute,
         signal' \in [RunSymbols -> Nat],
         UNCHANGED <<script, record, onFile, shown, logged, seen, lastExit, trade, entries>>,
         \/ runStage' = runStage
         \/ runStage \notin {"idle", "ended"} /\ runStage' = "killed"
  PROVE  RunInv'
BY DEF RunInv, RunShape, RunStages, EntriesAreDue, PlanIsNamed, CyclesAreRecorded, VerdictIsLast, EntriesAreFresh,
  CompleteIsClean

\* A step that posts nothing keeps what is said of the entries, if the plan
\* and the judgement it may post on stay.
LEMMA EntriesStay ==
  ASSUME RunInv, runStage # "idle", record'.cycles = record.cycles, logged \subseteq logged',
         UNCHANGED <<script, shown, seen, entries>>,
         \/ runStage' \notin {"journal", "guard", "idle"}
         \/ runStage \in {"journal", "guard"} /\ runStage' # "idle"
              /\ trade'.sym = trade.sym /\ trade'.sig = trade.sig
  PROVE  EntriesAreFresh' /\ EntriesAreDue'
BY DEF RunInv, EntriesAreFresh, EntriesAreDue

\* Whatever raises leaves the plan named and asks for attention.
LEMMA RaiseKeeps ==
  ASSUME RunInv, UNCHANGED world, runStage \notin {"idle", "ended", "killed", "verify"},
         NEW r \in RunRecords, NEW t \in RunTrades, RaiseWith(r, t),
         r.cycles = record.cycles, t.open => trade.open /\ t.sym = trade.sym /\ r.plan = record.plan,
         UNCHANGED <<onFile, shown, logged, seen, lastExit, entries>>
  PROVE  RunInv'
<1>1. /\ runStage' = "verify" /\ record' = [r EXCEPT !.status = "needs_attention"]
      /\ UNCHANGED <<script, steady, local, signal, onFile, shown, logged, seen, entries>>
  BY DEF RaiseWith, world
<1>2. /\ record' \in RunRecords /\ record'.status = "needs_attention"
      /\ record'.cycles = record.cycles /\ record'.plan = r.plan
  BY <1>1, RecordChanges DEF RunStatuses
<1>3. /\ trade' \in RunTrades /\ trade'.sym = t.sym
      /\ trade'.open => t.open
  BY DEF RaiseWith, RunTrades
<1>4. RunShape'
  BY <1>1, <1>2, <1>3 DEF RunInv, RunShape, RunStages
<1>5. PlanIsNamed'
  BY <1>1, <1>2, <1>3 DEF RunInv, PlanIsNamed
<1>6. CyclesAreRecorded'
  BY <1>1, <1>2 DEF RunInv, CyclesAreRecorded
<1>7. VerdictIsLast'
  BY <1>1, <1>2 DEF RunInv, VerdictIsLast
<1>8. EntriesAreFresh' /\ EntriesAreDue'
  BY <1>1, <1>2, EntriesStay
<1>9. QED BY <1>4, <1>5, <1>6, <1>7, <1>8 DEF RunInv

LEMMA RaisedKeeps ==
  ASSUME RunInv, UNCHANGED world, runStage \notin {"idle", "ended", "killed", "verify"}, Raise
  PROVE  RunInv'
BY RaiseKeeps DEF Raise, RunInv, RunShape

LEMMA BreakKeeps ==
  ASSUME RunInv, UNCHANGED world, runStage \in {"top", "choose"},
         NEW reason \in RunReasons, Break([record EXCEPT !.reason = reason])
  PROVE  RunInv'
<1> DEFINE r == [record EXCEPT !.reason = reason]
<1>1. /\ runStage' = "verify"
      /\ UNCHANGED <<script, steady, local, signal, onFile, shown, logged, seen, entries, trade>>
      /\ record' = [r EXCEPT !.status = IF r.status = "running" THEN "stopped" ELSE r.status]
  BY DEF Break, world
<1>2. /\ r \in RunRecords /\ r.status = record.status /\ r.cycles = record.cycles
      /\ r.plan = record.plan /\ r.recovered = record.recovered
  BY DEF RunInv, RunShape, RunRecords
<1> HIDE DEF r
<1>3. PICK s \in RunStatuses :
        record' = [r EXCEPT !.status = s] /\ (record.status # "complete" => s # "complete")
  BY <1>1, <1>2 DEF RunRecords, RunStatuses
<1>4. /\ record' \in RunRecords /\ record'.cycles = record.cycles /\ record'.plan = record.plan
      /\ record'.recovered = record.recovered /\ record'.status = s
  BY <1>2, <1>3, RecordChanges
<1>5. RunShape' /\ PlanIsNamed' /\ CyclesAreRecorded'
  BY <1>1, <1>4 DEF RunInv, RunShape, RunStages, PlanIsNamed, CyclesAreRecorded
<1>6. VerdictIsLast'
  BY <1>1, <1>3, <1>4 DEF RunInv, VerdictIsLast
<1>7. EntriesAreFresh' /\ EntriesAreDue'
  BY <1>1, <1>4, EntriesStay
<1>8. QED BY <1>5, <1>6, <1>7 DEF RunInv

LEMMA BeginsKeep ==
  ASSUME RunInv, NEW which \in {"breakout", "cyclic"}, NEW held, RunBegins(which, held)
  PROVE  RunInv'
<1>1. /\ runStage = "idle" /\ runStage' = "preflight" /\ script' = which /\ entries = {}
      /\ UNCHANGED <<steady, local, signal, shown, logged, seen, trade, entries>>
      /\ record' = [record EXCEPT !.status = "preflight"]
      /\ onFile' = [onFile EXCEPT !.status = "preflight"]
  BY DEF RunBegins, RunInv, EntriesAreFresh
<1>2. /\ record' \in RunRecords /\ record'.status = "preflight" /\ record'.cycles = record.cycles
      /\ record'.plan = record.plan /\ record'.recovered = record.recovered
  BY <1>1, RecordChanges DEF RunInv, RunShape, RunStatuses
<1>3. /\ onFile' \in [status : RunStatuses, plan : RunSymbols \cup {"none"}]
      /\ onFile'.status = "preflight" /\ onFile'.plan = onFile.plan
  BY <1>1 DEF RunInv, RunShape, RunStatuses
<1>4. RunShape' /\ PlanIsNamed' /\ CyclesAreRecorded'
  BY <1>1, <1>2, <1>3 DEF RunInv, RunShape, RunStages, PlanIsNamed, CyclesAreRecorded
<1>5. VerdictIsLast' /\ EntriesAreFresh' /\ EntriesAreDue'
  BY <1>1, <1>2, <1>3 DEF VerdictIsLast, EntriesAreFresh, EntriesAreDue
<1>6. QED BY <1>4, <1>5 DEF RunInv

LEMMA SavedFile ==
  ASSUME NEW r \in RunRecords, Save(r)
  PROVE  /\ onFile' \in [status : RunStatuses, plan : RunSymbols \cup {"none"}]
         /\ onFile'.status = r.status /\ onFile'.plan = r.plan
BY DEF Save, RunRecords

LEMMA PreflightKeeps ==
  ASSUME RunInv, NEW blocked, Preflight(blocked)
  PROVE  RunInv'
<1> DEFINE r == [record EXCEPT !.status = "running"]
<1>1. CASE Raise
  BY <1>1, RaisedKeeps DEF Preflight
<1>2. CASE ~Raise
  <2>1. /\ runStage = "preflight" /\ runStage' = "top" /\ Save(r) /\ record' = r
        /\ UNCHANGED <<script, steady, local, signal, shown, logged, seen, trade, entries>>
    BY <1>2 DEF Preflight, world
  <2>2. /\ record' \in RunRecords /\ record'.status = "running" /\ record'.cycles = record.cycles
        /\ record'.plan = record.plan /\ record'.recovered = record.recovered
    BY <2>1, RecordChanges DEF RunInv, RunShape, RunStatuses
  <2>3. /\ onFile' \in [status : RunStatuses, plan : RunSymbols \cup {"none"}]
        /\ onFile'.status = "running" /\ onFile'.plan = record.plan
    BY <2>1, <2>2, SavedFile
  <2>4. RunShape' /\ PlanIsNamed' /\ CyclesAreRecorded' /\ VerdictIsLast'
    BY <2>1, <2>2, <2>3 DEF RunInv, RunShape, RunStages, PlanIsNamed, CyclesAreRecorded, VerdictIsLast
  <2>5. EntriesAreFresh' /\ EntriesAreDue'
    BY <2>1, <2>2, EntriesStay
  <2>6. QED BY <2>4, <2>5 DEF RunInv
<1>3. QED BY <1>1, <1>2

LEMMA RoundKeeps ==
  ASSUME RunInv, NEW lowDisk, NEW blocked, NEW lost, RoundChecks(lowDisk, blocked, lost)
  PROVE  RunInv'
<1>1. CASE Raise
  BY <1>1, RaisedKeeps DEF RoundChecks
<1>2. CASE \E reason \in RunReasons : Break([record EXCEPT !.reason = reason])
  BY <1>2, BreakKeeps DEF RoundChecks
<1>3. CASE /\ runStage' = "choose"
           /\ UNCHANGED <<record, onFile, shown, logged, seen, lastExit, trade, entries>>
  BY <1>3, EntriesStay DEF RoundChecks, world, RunInv, RunShape, RunStages, PlanIsNamed, CyclesAreRecorded,
    VerdictIsLast
<1>4. QED BY <1>1, <1>2, <1>3 DEF RoundChecks, RunReasons

LEMMA SkipKeeps ==
  ASSUME RunInv, Skip
  PROVE  RunInv'
<1>1. CASE Raise
  BY <1>1, RaisedKeeps DEF Skip
<1>2. CASE ~Raise
  BY <1>2, SavedFile, EntriesStay DEF Skip, world, RunInv, RunShape, RunStages, PlanIsNamed, CyclesAreRecorded,
    VerdictIsLast
<1>3. QED BY <1>1, <1>2

LEMMA PlanKeeps ==
  ASSUME RunInv, NEW s \in RunSymbols,
         BreakoutEntry(s) \/ CyclicEntry(s)
  PROVE  RunInv'
<1> DEFINE r == [record EXCEPT !.cycles = @ + 1, !.plan = s]
<1>1. /\ runStage = "choose" /\ runStage' = "journal" /\ record.cycles < MaxCycles
      /\ record' = r /\ Save(r) /\ trade' = [NoOpenTrade EXCEPT !.sym = s, !.sig = signal[s]]
      /\ UNCHANGED <<script, steady, local, signal, logged, entries>>
  BY DEF BreakoutEntry, CyclicEntry, PlanFor, world
<1>2. /\ record' \in RunRecords /\ record'.cycles = record.cycles + 1 /\ record'.plan = s
      /\ record'.status = record.status /\ record'.recovered = record.recovered
  <2> DEFINE c == record.cycles + 1
  <2>1. record.cycles \in 0..MaxCycles /\ record \in RunRecords
    BY DEF RunInv, RunShape, RunRecords
  <2>2. c \in 0..MaxCycles /\ record' = [record EXCEPT !.cycles = c, !.plan = s]
    BY <1>1, <2>1, RunAssumption
  <2> HIDE DEF c
  <2>3. /\ record' \in RunRecords /\ record'.cycles = c /\ record'.plan = s
        /\ record'.status = record.status /\ record'.recovered = record.recovered
    BY <2>1, <2>2 DEF RunRecords
  <2>4. QED BY <2>3 DEF c
<1>3. /\ onFile' \in [status : RunStatuses, plan : RunSymbols \cup {"none"}]
      /\ onFile'.status = record.status /\ onFile'.plan = s
  BY <1>1, <1>2, SavedFile
<1>4. trade' \in RunTrades /\ trade'.sym = s /\ trade'.sig = signal[s] /\ ~trade'.open
  <2>1. signal[s] \in Nat
    BY DEF RunInv, RunShape
  <2>2. trade' = [sym |-> s, sig |-> signal[s], open |-> FALSE, active |-> FALSE, result |-> "none",
                  bought |-> FALSE, tries |-> 0]
    BY <1>1 DEF NoOpenTrade
  <2>3. QED BY <2>1, <2>2 DEF RunTrades, RunResults
<1>5. record.cycles \in Nat
  BY DEF RunInv, RunShape, RunRecords
<1>6. RunShape' /\ PlanIsNamed' /\ VerdictIsLast'
  BY <1>1, <1>2, <1>3, <1>4 DEF RunInv, RunShape, RunStages, PlanIsNamed, VerdictIsLast
<1>7. CyclesAreRecorded'
  BY <1>1, <1>2, <1>5 DEF RunInv, CyclesAreRecorded
<1>8. /\ \A e \in entries : e.cycle \in 1..record'.cycles /\ e.cycle < record'.cycles
  BY <1>2, <1>5 DEF RunInv, EntriesAreFresh
<1>9. ASSUME script = "breakout"
      PROVE  /\ \A e \in entries : <<e.sym, e.sig>> \in seen'
             /\ shown' = record'.cycles /\ <<s, signal[s]>> \in seen'
             /\ \A e \in entries : <<e.sym, e.sig>> # <<s, signal[s]>>
  BY <1>9, <1>2 DEF CyclicEntry, BreakoutEntry, Candidate, RunInv, EntriesAreFresh
<1>10. EntriesAreFresh'
  BY <1>1, <1>4, <1>8, <1>9 DEF EntriesAreFresh
<1>11. EntriesAreDue'
  BY <1>1 DEF RunInv, EntriesAreDue
<1>12. QED BY <1>6, <1>7, <1>10, <1>11 DEF RunInv

LEMMA ExecuteKeeps ==
  ASSUME RunInv, ExecuteBegins
  PROVE  RunInv'
<1>1. CASE Raise
  BY <1>1, RaisedKeeps DEF ExecuteBegins
<1>2. CASE ~Raise
  BY <1>2, EntriesStay DEF ExecuteBegins, world, RunInv, RunShape, RunTrades, RunStages, PlanIsNamed,
    CyclesAreRecorded, VerdictIsLast
<1>3. QED BY <1>1, <1>2

\* The entry: everything that makes it due is known when it is posted.
LEMMA PostKeeps ==
  ASSUME RunInv, runStage = "guard", runStage' = "work", local < EntryCutoff,
         UNCHANGED <<world, record, onFile, shown, logged, seen>>,
         trade' = [trade EXCEPT !.open = TRUE],
         entries' = entries \cup {[sym |-> trade.sym, sig |-> trade.sig, cycle |-> record.cycles,
                                   local |-> local, onFile |-> onFile.plan, shown |-> shown]}
  PROVE  RunInv'
<1> DEFINE new == [sym |-> trade.sym, sig |-> trade.sig, cycle |-> record.cycles,
                   local |-> local, onFile |-> onFile.plan, shown |-> shown]
<1>1. /\ trade' \in RunTrades /\ trade'.sym = trade.sym /\ trade'.sig = trade.sig /\ trade'.open
  BY DEF RunInv, RunShape, RunTrades
<1>2. UNCHANGED <<script, steady, local, signal, record, onFile, shown, logged, seen>>
  BY DEF world
<1>3. RunShape' /\ PlanIsNamed' /\ CyclesAreRecorded' /\ VerdictIsLast'
  BY <1>1, <1>2 DEF RunInv, RunShape, RunStages, PlanIsNamed, CyclesAreRecorded, VerdictIsLast
<1>4. /\ record.cycles \in Nat /\ record.cycles > 0 /\ logged = Recorded(1..(record.cycles - 1))
      /\ onFile.plan = trade.sym
      /\ \A e \in entries : e.cycle \in 1..record.cycles /\ e.cycle < record.cycles
      /\ script = "breakout"
           => /\ shown = record.cycles /\ <<trade.sym, trade.sig>> \in seen
              /\ \A e \in entries : /\ <<e.sym, e.sig>> \in seen
                                    /\ <<e.sym, e.sig>> # <<trade.sym, trade.sig>>
  BY DEF RunInv, RunShape, RunRecords, CyclesAreRecorded, EntriesAreFresh, PlanIsNamed
<1>5. /\ new.sym = trade.sym /\ new.sig = trade.sig /\ new.cycle = record.cycles /\ new.local = local
      /\ new.onFile = onFile.plan /\ new.shown = shown /\ entries' = entries \cup {new}
  OBVIOUS
<1> HIDE DEF new
<1>6. EntriesAreFresh'
  BY <1>1, <1>2, <1>4, <1>5 DEF EntriesAreFresh
<1>7. ASSUME NEW e \in entries', NEW f \in entries'
      PROVE  /\ e.local < EntryCutoff /\ e.onFile = e.sym
             /\ script = "breakout" => e.shown = e.cycle
             /\ f.cycle = e.cycle => f = e
             /\ f.cycle < e.cycle => Recorded({f.cycle}) \subseteq logged
             /\ script = "breakout" /\ f # e /\ f.sym = e.sym => f.sig # e.sig
  <2>1. CASE e \in entries /\ f \in entries
    BY <2>1 DEF RunInv, EntriesAreDue
  <2>2. CASE e = new
    <3>1. f \in entries => f.cycle \in 1..(record.cycles - 1)
      BY <1>4
    <3>2. f \in entries => Recorded({f.cycle}) \subseteq logged
      <4> SUFFICES ASSUME f \in entries PROVE CycleRow(f.cycle, FALSE) \in logged
        BY DEF Recorded
      <4>1. QED BY <1>4, <3>1 DEF Recorded
    <3>3. CASE f \in entries
      <4> DEFINE R == Recorded({f.cycle})
      <4>1. R \subseteq logged /\ f.cycle < record.cycles /\ f.cycle # record.cycles
        <5>1. record.cycles \in Nat
          BY <1>4
        <5>2. f.cycle \in 1..(record.cycles - 1) /\ Recorded({f.cycle}) \subseteq logged
          BY <3>1, <3>2, <3>3
        <5>3. f.cycle < record.cycles /\ f.cycle # record.cycles
          BY <5>1, <5>2
        <5>4. QED BY <5>2, <5>3
      <4>2. script = "breakout" /\ f.sym = e.sym => f.sig # e.sig
        BY <1>4, <1>5, <2>2, <3>3
      <4> HIDE DEF R
      <4>3. e.local < EntryCutoff /\ e.onFile = e.sym /\ (script = "breakout" => e.shown = e.cycle) /\ e.cycle = record.cycles
        BY <1>4, <1>5, <2>2
      <4>4. QED BY <4>1, <4>2, <4>3 DEF R
    <3>4. CASE f = new
      BY <1>4, <1>5, <2>2, <3>4
    <3>5. QED BY <1>5, <3>3, <3>4
  <2>3. CASE e \in entries /\ f = new
    BY <1>4, <2>3, <1>5 DEF RunInv, EntriesAreDue
  <2>4. QED BY <1>5, <2>1, <2>2, <2>3
<1>8. EntriesAreDue'
  BY <1>2, <1>7 DEF EntriesAreDue
<1>9. QED BY <1>3, <1>6, <1>8 DEF RunInv

\* A step of a cycle that changes the executor's state and the stage, and
\* perhaps remembers a recovery, and posts nothing.
LEMMA CycleKeeps ==
  ASSUME RunInv, UNCHANGED <<world, onFile, shown, logged, seen, entries>>,
         runStage \in {"guard", "work", "resume"}, runStage' \in {"resume", "report"},
         trade' \in RunTrades, trade'.sym = trade.sym,
         \/ runStage = "guard" /\ trade'.open = trade.open
         \/ runStage = "work"
         \/ runStage = "resume" /\ (trade'.open => trade.open),
         record' \in RunRecords, record'.cycles = record.cycles, record'.plan = record.plan,
         record'.status = record.status
  PROVE  RunInv'
BY EntriesStay DEF world, RunInv, RunShape, RunStages, PlanIsNamed, CyclesAreRecorded, VerdictIsLast

LEMMA GuardKeeps ==
  ASSUME RunInv, NEW good, Guard(good)
  PROVE  RunInv'
<1>1. /\ runStage = "guard"
      /\ UNCHANGED <<world, record, onFile, shown, logged, seen>>
      /\ trade \in RunTrades /\ record \in RunRecords
  BY DEF Guard, RunInv, RunShape
<1>2. CASE /\ trade' = [trade EXCEPT !.result = "needs_reconciliation"] /\ runStage' = "resume"
           /\ UNCHANGED entries
  BY <1>1, <1>2, CycleKeeps DEF RunTrades, RunResults
<1>3. CASE /\ GuardHolds(good) /\ trade' = [trade EXCEPT !.open = TRUE] /\ runStage' = "work"
           /\ entries' = entries \cup {[sym |-> trade.sym, sig |-> trade.sig, cycle |-> record.cycles,
                                        local |-> local, onFile |-> onFile.plan, shown |-> shown]}
  BY <1>1, <1>3, PostKeeps DEF GuardHolds
<1>4. CASE /\ trade' = [trade EXCEPT !.active = FALSE, !.result = "not_submitted"]
           /\ runStage' = "resume" /\ UNCHANGED entries
  BY <1>1, <1>4, CycleKeeps DEF RunTrades, RunResults
<1>5. QED BY <1>2, <1>3, <1>4 DEF Guard, Answer

LEMMA ExecutedKeeps ==
  ASSUME RunInv, NEW result \in {"flat", "flat_accounting_pending", "needs_reconciliation"},
         NEW bought \in BOOLEAN, Executed(result, bought)
  PROVE  RunInv'
<1> DEFINE unsure == result = "needs_reconciliation"
<1>1. /\ runStage = "work" /\ runStage' = "resume"
      /\ UNCHANGED <<world, record, onFile, shown, logged, seen, entries>>
      /\ trade \in RunTrades /\ record \in RunRecords
      /\ trade' = [trade EXCEPT !.result = result, !.bought = bought, !.active = unsure, !.open = unsure]
  BY DEF Executed, Answer, RunInv, RunShape
<1>2. unsure \in BOOLEAN
  OBVIOUS
<1> HIDE DEF unsure
<1>3. trade' \in RunTrades /\ trade'.sym = trade.sym
  BY <1>1, <1>2 DEF RunTrades, RunResults
<1>4. QED BY <1>1, <1>3, CycleKeeps

LEMMA ResumeKeeps ==
  ASSUME RunInv, NEW flat, NEW isOpen, Resume(flat, isOpen)
  PROVE  RunInv'
<1>1. /\ runStage = "resume" /\ UNCHANGED <<world, onFile, shown, logged, seen, entries>>
      /\ trade \in RunTrades /\ record \in RunRecords
  BY DEF Resume, RunInv, RunShape
<1>2. record' = record \/ record' = [record EXCEPT !.recovered = TRUE]
  BY DEF Resume
<1>3. /\ record' \in RunRecords /\ record'.cycles = record.cycles /\ record'.plan = record.plan
      /\ record'.status = record.status
  BY <1>1, <1>2 DEF RunRecords
<1>4. CASE UNCHANGED trade /\ runStage' = "report"
  BY <1>1, <1>3, <1>4, CycleKeeps
<1>5. CASE /\ trade' = [trade EXCEPT !.result = "flat", !.open = FALSE, !.active = FALSE, !.bought = TRUE]
           /\ runStage' = "report"
  BY <1>1, <1>5, <1>3, CycleKeeps DEF RunTrades, RunResults
<1>6. CASE trade.tries < 3 /\ trade' = [trade EXCEPT !.tries = @ + 1] /\ runStage' = "resume"
  <2> DEFINE n == trade.tries + 1
  <2>1. n \in 0..3 /\ trade' = [trade EXCEPT !.tries = n]
    BY <1>1, <1>6 DEF RunTrades
  <2> HIDE DEF n
  <2>2. trade' \in RunTrades /\ trade'.sym = trade.sym /\ trade'.open = trade.open
    BY <1>1, <2>1 DEF RunTrades
  <2>3. QED BY <1>1, <1>3, <1>6, <2>2, CycleKeeps
<1>7. QED BY <1>4, <1>5, <1>6 DEF Resume, DrainsLeft

LEMMA ReportKeeps ==
  ASSUME RunInv, NEW storage \in BOOLEAN, NEW blocked \in BOOLEAN, ReportCycle(storage, blocked)
  PROVE  RunInv'
<1>1. CASE Raise
  BY <1>1, RaisedKeeps DEF ReportCycle
<1>2. CASE ~Raise
  <2>1. /\ runStage = "report" /\ logged' = logged \cup {CycleRow(record.cycles, storage)}
        /\ UNCHANGED <<script, steady, local, signal, onFile, shown, seen, entries, trade>>
    BY <1>2 DEF ReportCycle, world
  <2>2. /\ record \in RunRecords /\ record.cycles \in Nat /\ record.cycles > 0
        /\ logged = Recorded(1..(record.cycles - 1))
    BY <2>1 DEF RunInv, RunShape, RunRecords, CyclesAreRecorded
  <2>3. /\ logged' \subseteq [cycle : 1..record.cycles, storage : BOOLEAN] /\ logged \subseteq logged'
        /\ ~storage => logged' = Recorded(1..record.cycles)
    <3>1. 1..record.cycles = 1..(record.cycles - 1) \cup {record.cycles}
      BY <2>2
    <3>2. Recorded(1..record.cycles) = Recorded(1..(record.cycles - 1)) \cup {CycleRow(record.cycles, FALSE)}
      BY <3>1 DEF Recorded
    <3>3. \A c \in 1..record.cycles, f \in BOOLEAN : CycleRow(c, f) \in [cycle : 1..record.cycles, storage : BOOLEAN]
      BY DEF CycleRow
    <3>4. \A x \in Recorded(1..(record.cycles - 1)) : \E c \in 1..record.cycles : x = CycleRow(c, FALSE)
      <4> SUFFICES ASSUME NEW x \in Recorded(1..(record.cycles - 1)) PROVE \E c \in 1..record.cycles : x = CycleRow(c, FALSE)
        OBVIOUS
      <4>1. PICK c \in 1..(record.cycles - 1) : x = CycleRow(c, FALSE)
        BY DEF Recorded
      <4>2. QED BY <3>1, <4>1
    <3> DEFINE R == [cycle : 1..record.cycles, storage : BOOLEAN]
    <3>5. record.cycles \in 1..record.cycles
      BY <2>2
    <3> HIDE DEF R
    <3>6. \A c \in 1..record.cycles, f \in BOOLEAN : CycleRow(c, f) \in R
      BY <3>3 DEF R
    <3>7. logged' \subseteq R
      BY <2>1, <2>2, <3>4, <3>5, <3>6
    <3>8. ~storage => logged' = Recorded(1..record.cycles)
      <4>1. ~storage => CycleRow(record.cycles, storage) = CycleRow(record.cycles, FALSE)
        OBVIOUS
      <4>2. logged' = logged \cup {CycleRow(record.cycles, storage)} /\ logged = Recorded(1..(record.cycles - 1))
        BY <2>1, <2>2
      <4>3. QED BY <3>2, <4>1, <4>2
    <3>9. QED BY <2>1, <3>7, <3>8 DEF R
  <2>4. CASE Halts(storage, blocked)
    <3>1. PICK s \in RunStatuses : /\ s # "complete"
                                   /\ record' = [record EXCEPT !.reason = "executor_halted", !.status = s]
      BY <1>2, <2>4 DEF ReportCycle, RunStatuses
    <3>2. /\ record' \in RunRecords /\ record'.cycles = record.cycles /\ record'.plan = record.plan
          /\ record'.status = s /\ record'.reason = "executor_halted" /\ runStage' = "verify"
      BY <1>2, <2>2, <2>4, <3>1 DEF ReportCycle, RunRecords, RunReasons
    <3>3. RunShape' /\ PlanIsNamed' /\ CyclesAreRecorded' /\ VerdictIsLast'
      BY <2>1, <2>3, <3>1, <3>2
         DEF RunInv, RunShape, RunStages, PlanIsNamed, CyclesAreRecorded, VerdictIsLast
    <3>4. EntriesAreFresh' /\ EntriesAreDue'
      BY <2>1, <2>3, <3>2, EntriesStay
    <3>5. QED BY <3>3, <3>4 DEF RunInv
  <2>5. CASE ~Halts(storage, blocked)
    BY <1>2, <2>5, <2>1, <2>3, EntriesStay DEF ReportCycle, Halts, Unfinished, RunInv, RunShape, RunStages, PlanIsNamed,
      CyclesAreRecorded, VerdictIsLast
  <2>6. QED BY <2>4, <2>5
<1>3. QED BY <1>1, <1>2

LEMMA NothingOpen ==
  NoOpenTrade \in RunTrades /\ ~NoOpenTrade.open
BY DEF NoOpenTrade, RunTrades, RunResults

LEMMA CloseCycleKeeps ==
  ASSUME RunInv, CloseCycle
  PROVE  RunInv'
<1> DEFINE r == [record EXCEPT !.plan = "none"]
<1>1. runStage = "close" /\ UNCHANGED <<world, shown, logged, seen, entries>>
  BY DEF CloseCycle
<1>2. /\ r \in RunRecords /\ r.cycles = record.cycles /\ r.plan = "none"
      /\ r.status = record.status /\ r.recovered = record.recovered
  BY DEF RunInv, RunShape, RunRecords
<1>3. CASE RaiseWith(r, NoOpenTrade) /\ UNCHANGED <<onFile, lastExit>>
  <2> HIDE DEF r
  <2>1. QED BY <1>1, <1>2, <1>3, NothingOpen, RaiseKeeps
<1>4. CASE Save(r) /\ record' = r /\ runStage' = "top" /\ trade' = NoOpenTrade
  <2> HIDE DEF r
  <2>1. UNCHANGED <<script, steady, local, signal>>
    BY <1>1 DEF world
  <2>2. /\ onFile' \in [status : RunStatuses, plan : RunSymbols \cup {"none"}]
        /\ onFile'.status = record.status
    BY <1>2, <1>4, SavedFile
  <2>3. RunShape' /\ PlanIsNamed' /\ CyclesAreRecorded' /\ VerdictIsLast'
    BY <1>1, <1>2, <1>4, <2>1, <2>2, NothingOpen
       DEF RunInv, RunShape, RunStages, PlanIsNamed, CyclesAreRecorded, VerdictIsLast
  <2>4. EntriesAreFresh' /\ EntriesAreDue'
    BY <1>1, <1>2, <1>4, <2>1, EntriesStay
  <2>5. QED BY <2>3, <2>4 DEF RunInv
<1>5. QED BY <1>3, <1>4 DEF CloseCycle

LEMMA VerifyKeeps ==
  ASSUME RunInv, NEW looked \in BOOLEAN, Verify(looked)
  PROVE  RunInv'
<1> DEFINE s == Verdict(looked)
           r == [record EXCEPT !.status = s]
<1>1. /\ runStage = "verify" /\ runStage' = "ended" /\ record' = r
      /\ UNCHANGED <<world, shown, logged, seen, lastExit, trade, entries>>
      /\ Save(r) \/ UNCHANGED onFile
  BY DEF Verify
<1>2. UNCHANGED <<script, steady, local, signal>>
  BY <1>1 DEF world
<1>3. /\ s \in RunStatuses
      /\ trade.open => s = "needs_attention"
      /\ s = "complete" => logged = Recorded(1..record.cycles) /\ ~record.recovered
  BY <1>1 DEF Verdict, Exposed, RunInv, RunShape, RunRecords, RunStatuses, VerdictIsLast, CyclesAreRecorded
<1> HIDE DEF s
<1>4. /\ record' \in RunRecords /\ record'.status = s /\ record'.cycles = record.cycles
      /\ record'.plan = record.plan /\ record'.recovered = record.recovered
  BY <1>1, <1>3, RecordChanges DEF RunInv, RunShape
<1>5. /\ onFile' \in [status : RunStatuses, plan : RunSymbols \cup {"none"}]
      /\ \/ onFile'.status = s /\ onFile'.plan = record.plan
         \/ onFile' = onFile /\ onFile'.status # "complete"
  <2>1. CASE Save(r)
    BY <1>1, <1>4, <2>1, SavedFile
  <2>2. CASE UNCHANGED onFile
    BY <1>1, <2>2 DEF RunInv, RunShape, VerdictIsLast
  <2>3. QED BY <1>1, <2>1, <2>2
<1> HIDE DEF r
<1>6. RunShape' /\ PlanIsNamed' /\ CyclesAreRecorded'
  BY <1>1, <1>2, <1>4, <1>5 DEF RunInv, RunShape, RunStages, PlanIsNamed, CyclesAreRecorded
<1>7. VerdictIsLast'
  BY <1>3, <1>5, <1>1, <1>4 DEF VerdictIsLast, CompleteIsClean
<1>8. EntriesAreFresh' /\ EntriesAreDue'
  BY <1>1, <1>2, <1>4, EntriesStay
<1>9. QED BY <1>6, <1>7, <1>8 DEF RunInv

LEMMA SharedRunKeeps ==
  ASSUME RunInv, SharedRun
  PROVE  RunInv'
<1>1. CASE CallFails
  BY <1>1, RaisedKeeps DEF CallFails
<1>2. CASE Skip
  BY <1>2, SkipKeeps
<1>3. CASE SizeRejected
  BY <1>3, BreakKeeps DEF SizeRejected, RunReasons
<1>4. ASSUME ExecuteBegins \/ CloseCycle \/ \E s, b \in BOOLEAN : ReportCycle(s, b) PROVE RunInv'
  BY <1>4, ExecuteKeeps, ReportKeeps, CloseCycleKeeps
<1>5. ASSUME NEW b \in BOOLEAN, Preflight(b) \/ Guard(b) \/ Verify(b) PROVE RunInv'
  BY <1>5, PreflightKeeps, GuardKeeps, VerifyKeeps
<1>6. ASSUME NEW d \in BOOLEAN, NEW b \in BOOLEAN, NEW l \in BOOLEAN, RoundChecks(d, b, l)
      PROVE  RunInv'
  BY <1>6, RoundKeeps
<1>7. ASSUME NEW res \in {"flat", "flat_accounting_pending", "needs_reconciliation"},
             NEW b \in BOOLEAN, Executed(res, b)
      PROVE  RunInv'
  BY <1>7, ExecutedKeeps
<1>8. ASSUME NEW f \in BOOLEAN, NEW o \in BOOLEAN, Resume(f, o) PROVE RunInv'
  BY <1>8, ResumeKeeps
<1>9. QED BY <1>1, <1>2, <1>3, <1>4, <1>5, <1>6, <1>7, <1>8 DEF SharedRun

LEMMA RunKeeps ==
  ASSUME RunInv, [RunNext]_runVars
  PROVE  RunInv'
<1>1. ASSUME NEW which \in {"breakout", "cyclic"}, NEW held \in BOOLEAN, RunBegins(which, held)
      PROVE  RunInv'
  BY <1>1, BeginsKeep
<1>2. CASE SharedRun
  BY <1>2, SharedRunKeeps
<1>3. ASSUME NEW s \in RunSymbols, BreakoutEntry(s) \/ CyclicEntry(s) PROVE RunInv'
  BY <1>3, PlanKeeps
<1>4. CASE MinutePasses \/ ClockIsSet
  BY <1>4, RunAssumption, WorldKeeps DEF MinutePasses, ClockIsSet, RunInv, RunShape, OwnState
<1>5. CASE StopAsked \/ OtherOrder \/ DiskTurns
  BY <1>5, WorldKeeps DEF StopAsked, OtherOrder, DiskTurns, OwnState, RunInv, RunShape
<1>6. CASE Killed
  BY <1>6, WorldKeeps DEF Killed, Alive, RunInv, RunShape
<1>7. ASSUME NEW s \in RunSymbols, Breakout(s) PROVE RunInv'
  BY <1>7, RunAssumption, WorldKeeps DEF Breakout, RunInv, RunShape, OwnState
<1>8. CASE UNCHANGED runVars
  BY <1>8, WorldKeeps DEF runVars, RunInv, RunShape
<1>9. QED BY <1>1, <1>2, <1>3, <1>4, <1>5, <1>6, <1>7, <1>8 DEF RunNext, CyclicRun, BreakoutRun

LEMMA RunHolds == ServicesSpec => [](Examined("run") => RunInv)
<1>1. ServicesInit => (Examined("run") => RunInv)
  BY RunBegin DEF ServicesInit
<1>2. (Examined("run") => RunInv) /\ [ServicesNext]_servicesVars
        => (Examined("run") => RunInv)'
  BY RunSteps, RunKeeps
<1>3. QED BY <1>1, <1>2, PTL DEF ServicesSpec

LEMMA RunIsHonest == RunInv => RunIsSound
<1> SUFFICES ASSUME RunInv PROVE RunIsSound
  OBVIOUS
<1>1. ExposureIsOnFile
  BY DEF RunInv, PlanIsNamed, VerdictIsLast, ExposureIsOnFile
<1>2. CompleteIsClean
  BY DEF RunInv, VerdictIsLast, CompleteIsClean
<1>3. QED BY <1>1, <1>2 DEF RunInv, RunIsSound

\* Whatever kills, failing disks, clocks, foreign orders and stop requests come
\* between its steps: what a runner may have open is named by its status file
\* and calls for attention at the end, entries are posted cycle by cycle on a
\* fresh signal and a stored judgement, and complete means clean.
THEOREM RunsAreAlwaysHonest == ServicesSpec => []RunsAreHonest
<1>1. (Examined("run") => RunInv) => RunsAreHonest
  BY RunIsHonest DEF RunsAreHonest
<1>2. QED BY <1>1, RunHolds, PTL

-----------------------------------------------------------------------------
(* Quote recovery.  An incident is of one of four kinds; the ones a quote  *)
(* may end, and only they, have a deadline that is still to come.          *)

SoundIncident(incident, time) ==
    /\ incident \in [category : Categories, deadline : Int]
    /\ incident.category = "none" => incident = NoIncident
    /\ incident.category = "data" => incident.deadline <= time + Budget

RecoveryInv ==
    /\ RecoveryTypeOK /\ ThawNeedsReconciliation
    /\ \A k \in Keys : SoundIncident(incidents[k], recoveryNow)

LEMMA RecoverySteps ==
  ASSUME [ServicesNext]_servicesVars
  PROVE  /\ Examined("recovery")' => Examined("recovery") /\ [RecoveryNext]_recoveryVars
         /\ \/ UNCHANGED recoveryVars
            \/ Examined("recovery") /\ RecoveryNext
<1>1. CASE ServicesNext
  <2>1. CASE focus' = "recovery"
    BY <1>1, <2>1 DEF ServicesNext, Steps, Examined, Components, recoveryVars
  <2>2. CASE focus' # "recovery"
    BY <1>1, <2>2 DEF ServicesNext, Steps, Examined, Components, recoveryVars
  <2>3. QED BY <2>1, <2>2
<1>2. CASE UNCHANGED servicesVars
  BY <1>2 DEF servicesVars, Examined, recoveryVars
<1>3. QED BY <1>1, <1>2

LEMMA RecoveryBegins == RecoveryInit => RecoveryInv
<1> SUFFICES ASSUME RecoveryInit PROVE RecoveryInv
  OBVIOUS
<1>1. RecoveryTypeOK
  BY DEF RecoveryInit, RecoveryTypeOK, Categories, NoIncident, Decide
<1>2. ThawNeedsReconciliation
  BY DEF RecoveryInit, ThawNeedsReconciliation, AnyOpen, Decide
<1>3. ASSUME NEW k \in Keys PROVE SoundIncident(incidents[k], recoveryNow)
  BY DEF RecoveryInit, SoundIncident, Categories, NoIncident
<1>4. QED BY <1>1, <1>2, <1>3 DEF RecoveryInv

\* A call puts one incident and decides; what it puts is sound, and who is in
\* doubt afterwards has an incident that only evidence ends.
LEMMA PutKeeps ==
  ASSUME RecoveryInv, recoveryNow' \in Nat, recoveryNow <= recoveryNow',
         NEW k \in Keys, NEW incident, Put(k, incident), SoundIncident(incident, recoveryNow'),
         NEW retry \in BOOLEAN, NEW reconcile \in BOOLEAN, NEW escalate \in BOOLEAN,
         NEW drain \in {"none", "symbol"},
         decision' = Decide(AnyOpen(incidents'), retry, reconcile, escalate, drain),
         brokerVerified' \subseteq Keys, brokerVerified \ {k} \subseteq brokerVerified',
         k \notin brokerVerified' => incident.category \in {"order", "account", "expired"}
  PROVE  RecoveryInv'
<1>1. /\ incidents \in [Keys -> [category : Categories, deadline : Int]]
      /\ incident \in [category : Categories, deadline : Int]
      /\ incidents' \in [Keys -> [category : Categories, deadline : Int]]
      /\ \A x \in Keys : incidents'[x] = IF x = k THEN incident ELSE incidents[x]
  BY DEF RecoveryInv, RecoveryTypeOK, SoundIncident, Put
<1>2. AnyOpen(incidents') \in BOOLEAN
  BY DEF AnyOpen
<1>3. decision' \in [freeze : BOOLEAN, retry : BOOLEAN, reconcile : BOOLEAN, escalate : BOOLEAN,
                     drain : {"none", "symbol"}]
  <2> DEFINE open == AnyOpen(incidents')
  <2> HIDE DEF open
  <2>1. QED BY <1>2 DEF Decide, open
<1>4. RecoveryTypeOK'
  BY <1>1, <1>3 DEF RecoveryTypeOK
<1>5. decision'.freeze = AnyOpen(incidents')
  BY DEF Decide
<1>6. ThawNeedsReconciliation'
  BY <1>1, <1>5 DEF ThawNeedsReconciliation, RecoveryInv
<1>7. ASSUME NEW x \in Keys PROVE SoundIncident(incidents'[x], recoveryNow')
  BY RecoveryAssumption, <1>1 DEF RecoveryInv, RecoveryTypeOK, SoundIncident
<1>8. QED BY <1>4, <1>6, <1>7 DEF RecoveryInv

LEMMA BrokerIncident ==
  ASSUME RecoveryInv, recoveryNow' \in Nat, recoveryNow <= recoveryNow',
         NEW k \in Keys, NEW category \in {"order", "account"},
         Put(k, Incident(category, -1)), NeedsBroker, Doubt(k)
  PROVE  RecoveryInv' /\ incidents'[k].category # "data" /\ ~decision'.retry
<1> DEFINE incident == Incident(category, -1)
<1>1. /\ incident.category = category /\ incident # NoIncident
      /\ incident \in [category : Categories, deadline : Int]
  BY DEF Incident, NoIncident, Categories
<1> HIDE DEF incident
<1>2. SoundIncident(incident, recoveryNow')
  BY <1>1 DEF SoundIncident
<1>3. incidents'[k] = incident
  BY DEF Put, RecoveryInv, RecoveryTypeOK, incident
<1>4. AnyOpen(incidents') = TRUE
  BY <1>1, <1>3 DEF AnyOpen
<1>5. decision' = Decide(AnyOpen(incidents'), FALSE, TRUE, TRUE, "none") /\ ~decision'.retry
  BY <1>4 DEF NeedsBroker, Decide
<1>6. /\ brokerVerified' \subseteq Keys /\ brokerVerified \ {k} \subseteq brokerVerified'
      /\ k \notin brokerVerified' => incident.category \in {"order", "account", "expired"}
  BY <1>1 DEF Doubt, RecoveryInv, RecoveryTypeOK
<1>7. RecoveryInv'
  BY <1>2, <1>5, <1>6, PutKeeps DEF incident
<1>8. QED BY <1>1, <1>3, <1>5, <1>7

RetryIsGranted ==
    /\ \A s \in Watched : incidents[s].category = "data" /\ incidents'[s].category = "data"
          => incidents'[s].deadline = incidents[s].deadline
    /\ decision'.retry => \E s \in Watched : /\ incidents'[s].category = "data"
                                             /\ recoveryNow' < incidents'[s].deadline
                                             /\ incidents'[s].deadline <= recoveryNow' + Budget

\* What a call may do to a symbol's deadline, from what it puts.
LEMMA PutGrants ==
  ASSUME RecoveryInv, NEW k \in Keys, NEW incident, Put(k, incident),
         incident.category # "data" \/ incident = incidents[k] \/ incidents[k].category # "data",
         decision'.retry => /\ k \in Watched /\ incident.category = "data"
                            /\ recoveryNow' < incident.deadline
                            /\ incident.deadline <= recoveryNow' + Budget
  PROVE  RetryIsGranted
BY DEF RecoveryInv, RecoveryTypeOK, Put, Keys, RetryIsGranted

LEMMA BrokerKeeps ==
  ASSUME RecoveryInv, recoveryNow' \in Nat, recoveryNow <= recoveryNow',
         NEW k \in Keys, NEW category \in {"order", "account"},
         Put(k, Incident(category, -1)), NeedsBroker, Doubt(k)
  PROVE  RecoveryInv' /\ RetryIsGranted
BY BrokerIncident, PutGrants DEF Incident

\* Nothing is put: a report about a symbol that only evidence can free.
LEMMA UnreconciledKeeps ==
  ASSUME RecoveryInv, recoveryNow' \in Nat, recoveryNow <= recoveryNow',
         NEW s \in Watched, StillUnreconciled(s)
  PROVE  RecoveryInv' /\ RetryIsGranted
<1> DEFINE incident == incidents[s]
<1>1. /\ s \in Keys /\ incident.category \in {"order", "expired"} /\ UNCHANGED <<incidents, brokerVerified>>
      /\ incidents \in [Keys -> [category : Categories, deadline : Int]] /\ SoundIncident(incident, recoveryNow)
  BY DEF StillUnreconciled, Keys, RecoveryInv, RecoveryTypeOK
<1>2. Put(s, incident)
  BY <1>1 DEF Put
<1>3. SoundIncident(incident, recoveryNow')
  BY <1>1, RecoveryAssumption DEF SoundIncident, RecoveryInv, RecoveryTypeOK
<1>4. AnyOpen(incidents') = TRUE
  BY <1>1 DEF AnyOpen, NoIncident
<1>5. decision' = Decide(AnyOpen(incidents'), FALSE, TRUE, TRUE, "none") /\ ~decision'.retry
  BY <1>4 DEF StillUnreconciled, NeedsBroker, Decide
<1>6. RetryIsGranted
  BY <1>1, <1>5 DEF RetryIsGranted
<1> HIDE DEF incident
<1>7. brokerVerified' \subseteq Keys /\ brokerVerified \ {s} \subseteq brokerVerified'
  BY <1>1 DEF RecoveryInv, RecoveryTypeOK
<1>8. RecoveryInv'
  BY <1>1, <1>2, <1>3, <1>5, <1>7, PutKeeps
<1>9. QED BY <1>6, <1>8

LEMMA ExpiredKeeps ==
  ASSUME RecoveryInv, recoveryNow' \in Nat, recoveryNow <= recoveryNow',
         NEW s \in Watched, Expired(s)
  PROVE  RecoveryInv' /\ RetryIsGranted
<1> DEFINE incident == [incidents[s] EXCEPT !.category = "expired"]
<1>1. s \in Keys /\ incidents \in [Keys -> [category : Categories, deadline : Int]]
  BY DEF Keys, RecoveryInv, RecoveryTypeOK
<1>2. incident \in [category : Categories, deadline : Int] /\ incident.category = "expired"
  BY <1>1 DEF Categories
<1>3. Put(s, incident) /\ Doubt(s)
  BY DEF Expired
<1> HIDE DEF incident
<1>4. SoundIncident(incident, recoveryNow') /\ incident # NoIncident
  BY <1>2 DEF NoIncident, SoundIncident
<1>5. incidents'[s] = incident
  BY <1>1, <1>3 DEF Put
<1>6. AnyOpen(incidents') = TRUE
  BY <1>1, <1>4, <1>5 DEF AnyOpen
<1>7. decision' = Decide(AnyOpen(incidents'), FALSE, FALSE, TRUE, "symbol") /\ ~decision'.retry
  BY <1>6 DEF Expired, Decide
<1>8. /\ brokerVerified' \subseteq Keys /\ brokerVerified \ {s} \subseteq brokerVerified'
      /\ incident.category \in {"order", "account", "expired"}
  BY <1>2, <1>3 DEF Doubt, RecoveryInv, RecoveryTypeOK
<1>9. RecoveryInv'
  BY <1>1, <1>3, <1>4, <1>7, <1>8, PutKeeps
<1>10. RetryIsGranted
  BY <1>1, <1>2, <1>3, <1>7, PutGrants
<1>11. QED BY <1>9, <1>10

\* An incident that ends, by a healthy quote or by evidence.
LEMMA ThawKeeps ==
  ASSUME RecoveryInv, recoveryNow' \in Nat, recoveryNow <= recoveryNow',
         NEW k \in Keys, Put(k, NoIncident),
         decision' = Decide(AnyOpen(incidents'), FALSE, FALSE, FALSE, "none"),
         brokerVerified' \subseteq Keys, brokerVerified \ {k} \subseteq brokerVerified', k \in brokerVerified'
  PROVE  RecoveryInv' /\ RetryIsGranted
<1>1. NoIncident.category = "none" /\ SoundIncident(NoIncident, recoveryNow') /\ ~decision'.retry
  BY DEF NoIncident, SoundIncident, Categories, Decide
<1>2. RecoveryInv'
  BY <1>1, PutKeeps
<1>3. RetryIsGranted
  BY <1>1, PutGrants
<1>4. QED BY <1>2, <1>3

LEMMA UpdateKeeps ==
  ASSUME RecoveryInv, recoveryNow' \in Nat, recoveryNow <= recoveryNow',
         NEW s \in Watched, NEW category, NEW protectionVerified, Update(s, category, protectionVerified)
  PROVE  RecoveryInv' /\ RetryIsGranted
<1>1. /\ s \in Keys /\ "__account__" \in Keys /\ SoundIncident(incidents[s], recoveryNow)
      /\ incidents \in [Keys -> [category : Categories, deadline : Int]]
      /\ recoveryNow \in Nat /\ Budget \in Nat /\ brokerVerified \subseteq Keys
      /\ incidents[s].category \in {"none", "data"} => s \in brokerVerified
  BY RecoveryAssumption DEF Keys, RecoveryInv, RecoveryTypeOK, ThawNeedsReconciliation
<1>2. CASE AccountIncident
  BY <1>1, <1>2, BrokerKeeps DEF AccountIncident
<1>3. CASE OrderIncident(s)
  BY <1>1, <1>3, BrokerKeeps DEF OrderIncident
<1>4. CASE StillUnreconciled(s)
  BY <1>4, UnreconciledKeeps
<1>5. CASE Expired(s)
  BY <1>5, ExpiredKeeps
<1>6. CASE HealthyQuote(s) /\ ~Expired(s)
  BY <1>1, <1>6, ThawKeeps DEF HealthyQuote
<1>7. CASE BadQuote(s) /\ ~Expired(s)
  <2> DEFINE incident == Since(s)
  <2>1. /\ incidents[s].category \in {"none", "data"} /\ recoveryNow' < incident.deadline
        /\ Put(s, incident) /\ UNCHANGED brokerVerified
        /\ decision' = Decide(TRUE, TRUE, FALSE, FALSE, "none")
        /\ incident = IF incidents[s] = NoIncident THEN Incident("data", recoveryNow' + Budget) ELSE incidents[s]
    <3>1. incidents[s].category \in {"none", "data"} /\ ~(recoveryNow' >= incident.deadline)
      BY <1>7 DEF BadQuote
    <3>2. incident.deadline \in Int
      BY <1>1 DEF Since, Incident
    <3>3. recoveryNow' < incident.deadline
      BY <3>1, <3>2
    <3>4. /\ Put(s, incident) /\ UNCHANGED brokerVerified
          /\ decision' = Decide(TRUE, TRUE, FALSE, FALSE, "none")
      BY <1>7, <3>1 DEF BadQuote
    <3>5. incident = IF incidents[s] = NoIncident THEN Incident("data", recoveryNow' + Budget) ELSE incidents[s]
      BY DEF Since
    <3>6. QED BY <3>1, <3>3, <3>4, <3>5
  <2> HIDE DEF incident
  <2>2. /\ incident \in [category : Categories, deadline : Int] /\ incident.category = "data"
        /\ incident.deadline <= recoveryNow' + Budget
        /\ incident = incidents[s] \/ incidents[s].category # "data"
    <3>1. CASE incidents[s] = NoIncident
      <4>1. incidents[s].category = "none" /\ recoveryNow' + Budget \in Int
        BY <1>1, <3>1 DEF NoIncident
      <4>2. incident = [category |-> "data", deadline |-> recoveryNow' + Budget]
        BY <2>1, <3>1 DEF Incident
      <4>3. QED BY <4>1, <4>2 DEF Categories
    <3>2. CASE incidents[s] # NoIncident
      BY <1>1, <2>1, <3>2 DEF SoundIncident
    <3>3. QED BY <3>1, <3>2
  <2>3. SoundIncident(incident, recoveryNow') /\ incident # NoIncident
    BY <2>2 DEF NoIncident, SoundIncident
  <2>4. incidents'[s] = incident
    BY <1>1, <2>1 DEF Put
  <2>5. AnyOpen(incidents') = TRUE
    BY <1>1, <2>3, <2>4 DEF AnyOpen
  <2>6. decision' = Decide(AnyOpen(incidents'), TRUE, FALSE, FALSE, "none")
    BY <2>1, <2>5
  <2>7. s \in brokerVerified' /\ brokerVerified' = brokerVerified
    BY <1>1, <2>1
  <2>8. RecoveryInv'
    BY <1>1, <2>1, <2>3, <2>6, <2>7, PutKeeps
  <2>9. RetryIsGranted
    BY <1>1, <2>1, <2>2, PutGrants
  <2>10. QED BY <2>8, <2>9
<1>8. QED BY <1>2, <1>3, <1>4, <1>5, <1>6, <1>7 DEF Update

LEMMA ReconcileKeeps ==
  ASSUME RecoveryInv, recoveryNow' \in Nat, recoveryNow <= recoveryNow',
         NEW k \in Keys, NEW ownershipVerified, NEW protectionVerified, NEW flat,
         Reconcile(k, ownershipVerified, protectionVerified, flat)
  PROVE  RecoveryInv' /\ RetryIsGranted
<1>1. CASE Put(k, Incident("order", -1)) /\ NeedsBroker /\ Doubt(k)
  BY <1>1, BrokerKeeps
<1>2. CASE /\ Put(k, NoIncident) /\ brokerVerified' = brokerVerified \cup {k}
           /\ decision' = Decide(AnyOpen(incidents'), FALSE, FALSE, FALSE, "none")
  BY <1>2, ThawKeeps DEF RecoveryInv, RecoveryTypeOK
<1>3. QED BY <1>1, <1>2 DEF Reconcile

LEMMA RecoveryMoves ==
  ASSUME RecoveryInv, RecoveryNext
  PROVE  RecoveryInv' /\ RetryIsGranted
<1>1. recoveryNow' \in Nat /\ recoveryNow <= recoveryNow'
  BY RecoveryAssumption DEF RecoveryNext, RecoveryInv, RecoveryTypeOK
<1>2. ASSUME NEW s \in Watched, NEW c, NEW p, Update(s, c, p) PROVE RecoveryInv' /\ RetryIsGranted
  BY <1>1, <1>2, UpdateKeeps
<1>3. ASSUME NEW k \in Keys, NEW o, NEW p, NEW f, Reconcile(k, o, p, f) PROVE RecoveryInv' /\ RetryIsGranted
  BY <1>1, <1>3, ReconcileKeeps
<1>4. QED BY <1>2, <1>3 DEF RecoveryNext

LEMMA RecoveryHolds == ServicesSpec => [](Examined("recovery") => RecoveryInv)
<1>1. ServicesInit => (Examined("recovery") => RecoveryInv)
  BY RecoveryBegins DEF ServicesInit
<1>2. (Examined("recovery") => RecoveryInv) /\ [ServicesNext]_servicesVars
        => (Examined("recovery") => RecoveryInv)'
  BY RecoverySteps, RecoveryMoves DEF recoveryVars, RecoveryInv, RecoveryTypeOK, ThawNeedsReconciliation,
    SoundIncident, AnyOpen
<1>3. QED BY <1>1, <1>2, PTL DEF ServicesSpec

\* No step grants a retry past the deadline that the first bad quote of an
\* incident has set, or moves that deadline.
THEOREM RetriesAreBounded == ServicesSpec => RetryIsBounded
<1> DEFINE step ==
      /\ \A s \in Watched : incidents[s].category = "data" /\ incidents'[s].category = "data"
            => incidents'[s].deadline = incidents[s].deadline
      /\ decision'.retry => \E s \in Watched : /\ incidents'[s].category = "data"
                                               /\ recoveryNow' < incidents'[s].deadline
                                               /\ incidents'[s].deadline <= recoveryNow' + Budget
<1>1. (Examined("recovery") => RecoveryInv) /\ [ServicesNext]_servicesVars => [step]_recoveryVars
  BY RecoverySteps, RecoveryMoves DEF RetryIsGranted
<1> HIDE DEF step
<1>2. ServicesSpec => [][step]_recoveryVars
  BY <1>1, RecoveryHolds, PTL DEF ServicesSpec
<1>3. QED BY <1>2 DEF RetryIsBounded, step

-----------------------------------------------------------------------------
(* Quote validation.  A verdict is the set of reasons at the decision it    *)
(* was made for, and a later decision finds every reason again but those a  *)
(* clock that ran ahead had given.                                          *)

SoundEnvelope(e) ==
    /\ e.received \in Seq(Int)
    /\ {e.raw.t, e.raw.bp, e.raw.ap, e.raw.bs, e.raw.as} \subseteq Seq(Int)

QuotesInv ==
    \/ batch = <<>> /\ verdicts = <<>> /\ earlier = <<>> /\ decidedAt \in Seq(Int)
    \/ /\ decidedAt \in Seq(Int) /\ DOMAIN verdicts = DOMAIN batch
       /\ batch = [s \in DOMAIN batch |-> batch[s]]
       /\ \A s \in DOMAIN batch : SoundEnvelope(batch[s])
       /\ \/ earlier = <<>> /\ verdicts = ValidateBatch(batch, wellFormed, decidedAt)
          \/ /\ earlier # <<>> /\ DOMAIN earlier = DOMAIN batch
             /\ verdicts = [s \in DOMAIN batch |-> Validate(batch[s], decidedAt)]
             /\ OnlyClocksHeal

LEMMA QuotesSteps ==
  ASSUME [ServicesNext]_servicesVars, Examined("quotes")'
  PROVE  Examined("quotes") /\ [QuotesNext]_quoteVars
BY DEF ServicesNext, servicesVars, Steps, Examined, Components, quoteVars

Healing == {"receipt_after_decision", "future_event"}

LEMMA HeadsAreInt ==
  ASSUME NEW value \in Seq(Int), Parsed(value)
  PROVE  value[1] \in Int
BY DEF Parsed

LEMMA LaterFindsAgain ==
  ASSUME NEW e, SoundEnvelope(e), NEW moment \in Seq(Int), NEW later \in Seq(Int),
         Parsed(moment), Parsed(later), later[1] > moment[1]
  PROVE  Validate(e, moment) \ Healing \subseteq Validate(e, later)
<1>1. moment[1] \in Int /\ later[1] \in Int
  BY DEF Parsed
<1>2. Parsed(e.received) => e.received[1] \in Int
  BY DEF Parsed, SoundEnvelope
<1>3. Parsed(e.raw.t) => e.raw.t[1] \in Int
  <2>1. e.raw.t \in Seq(Int)
    BY DEF SoundEnvelope
  <2>2. QED BY <2>1 DEF Parsed
<1>4. CacheAge \in Int /\ SourceAge \in Int /\ FutureSkew \in Int
  BY QuotesAssumption
<1>5. LocalClocks(e, moment) \ Healing \subseteq LocalClocks(e, later)
  <2>1. CASE Parsed(e.received)
    BY <1>1, <1>2, <1>4, <2>1 DEF LocalClocks, Healing, When, Age
  <2>2. CASE ~Parsed(e.received)
    BY <2>2 DEF LocalClocks
  <2>3. QED BY <2>1, <2>2
<1>6. EventClock(e, moment) \ Healing \subseteq EventClock(e, later)
  <2>1. CASE Parsed(e.received) /\ Parsed(e.raw.t)
    BY <1>1, <1>2, <1>3, <1>4, <2>1 DEF EventClock, Healing, When, Age
  <2>2. CASE ~Parsed(e.received) \/ ~Parsed(e.raw.t)
    BY <2>2 DEF EventClock
  <2>3. QED BY <2>1, <2>2
<1>7. QED BY <1>5, <1>6 DEF Validate

LEMMA QuotesKeeps ==
  ASSUME QuotesInv, [QuotesNext]_quoteVars
  PROVE  QuotesInv'
<1>1. ASSUME NEW feed \in FeedNames, NEW received \in ReceiptTimes, NEW moment \in DecisionTimes,
             NEW formed \in BOOLEAN, NEW quotes \in [QuoteNames -> Payloads],
             JudgeBatch(feed, quotes, received, moment, formed)
      PROVE  QuotesInv'
  <2>1. /\ batch' = [s \in QuoteNames |-> Envelope(feed, quotes, received, s)]
        /\ verdicts' = ValidateBatch(batch', wellFormed', decidedAt') /\ earlier' = <<>> /\ decidedAt' = moment
    BY <1>1 DEF JudgeBatch
  <2>2. ASSUME NEW s \in QuoteNames PROVE SoundEnvelope(Envelope(feed, quotes, received, s))
    BY QuotesAssumption DEF SoundEnvelope, Envelope
  <2>3. DOMAIN verdicts' = DOMAIN batch' /\ decidedAt' \in Seq(Int)
    BY <2>1, QuotesAssumption DEF ValidateBatch
  <2>4. \A s \in DOMAIN batch' : SoundEnvelope(batch'[s])
    BY <2>1, <2>2
  <2>5. QED BY <2>1, <2>3, <2>4 DEF QuotesInv
<1>2. ASSUME NEW moment \in DecisionTimes, JudgeAgain(moment) PROVE QuotesInv'
  <2>1. /\ UNCHANGED <<batch, wellFormed>> /\ decidedAt' = moment /\ earlier' = verdicts
        /\ verdicts' = [s \in DOMAIN batch |-> Validate(batch[s], moment)]
        /\ Parsed(decidedAt) /\ Parsed(moment) /\ moment[1] > decidedAt[1] /\ batch # <<>>
        /\ decidedAt \in Seq(Int) /\ moment \in Seq(Int)
        /\ DOMAIN verdicts = DOMAIN batch /\ \A s \in DOMAIN batch : SoundEnvelope(batch[s])
    BY <1>2, QuotesAssumption DEF JudgeAgain, QuotesInv
  <2>2. \/ verdicts = ValidateBatch(batch, wellFormed, decidedAt)
        \/ verdicts = [s \in DOMAIN batch |-> Validate(batch[s], decidedAt)]
    BY <1>2 DEF JudgeAgain, QuotesInv
  <2>3. ASSUME NEW s \in DOMAIN batch
        PROVE  verdicts[s] \subseteq Validate(batch[s], decidedAt) \cup {"invalid_batch_payload"}
    BY <2>2 DEF ValidateBatch, When
  <2>4. ASSUME NEW s \in DOMAIN batch
        PROVE  verdicts[s] \ {"receipt_after_decision", "future_event", "invalid_batch_payload"}
                 \subseteq verdicts'[s]
    BY <2>1, LaterFindsAgain, <2>3 DEF Healing
  <2>5. OnlyClocksHeal'
    BY <2>1, <2>4 DEF OnlyClocksHeal
  <2>6. earlier' # <<>>
    <3>1. batch = [s \in DOMAIN batch |-> batch[s]]
      BY <2>1 DEF QuotesInv
    <3>2. DOMAIN batch # {}
      <4>1. ASSUME DOMAIN batch = {} PROVE batch = <<>>
        BY <3>1, <4>1
      <4>2. QED BY <2>1, <4>1
    <3>3. QED BY <2>1, <3>2
  <2>7. QED BY <2>1, <2>5, <2>6 DEF QuotesInv
<1>3. CASE NextQuotes
  BY <1>3 DEF NextQuotes, QuotesInv
<1>4. CASE UNCHANGED quoteVars
  BY <1>4 DEF quoteVars, QuotesInv, OnlyClocksHeal
<1>5. QED BY <1>1, <1>2, <1>3, <1>4 DEF QuotesNext

LEMMA QuotesHold == ServicesSpec => [](Examined("quotes") => QuotesInv)
<1>1. ServicesInit => (Examined("quotes") => QuotesInv)
  BY DEF ServicesInit, QuotesInit, QuotesInv
<1>2. (Examined("quotes") => QuotesInv) /\ [ServicesNext]_servicesVars
        => (Examined("quotes") => QuotesInv)'
  BY QuotesSteps, QuotesKeeps
<1>3. QED BY <1>1, <1>2, PTL DEF ServicesSpec

\* What has no reason against it.
LEMMA NoReason ==
  ASSUME NEW e, SoundEnvelope(e), NEW moment \in Seq(Int), Validate(e, moment) = {}
  PROVE  /\ e.feed = ExpectedFeed /\ 0 < e.raw.bp[1] /\ e.raw.bp[1] <= e.raw.ap[1]
         /\ e.raw.t[1] <= e.received[1] + FutureSkew /\ e.received[1] <= moment[1] + FutureSkew
         /\ moment[1] - e.raw.t[1] \in -FutureSkew .. SourceAge
         /\ moment[1] - e.received[1] <= CacheAge
         /\ SizesRequired => e.raw.bs[1] > 0 /\ e.raw.as[1] > 0
<1>1. CacheAge \in Int /\ SourceAge \in Int /\ FutureSkew \in Int
  BY QuotesAssumption
<1>2. /\ When(e.feed # ExpectedFeed, "unexpected_feed") = {} /\ LocalClocks(e, moment) = {}
      /\ EventClock(e, moment) = {} /\ PriceReasons(e.raw) = {} /\ SizeReasons(e.raw) = {}
  BY DEF Validate
<1>3. e.feed = ExpectedFeed
  BY <1>2 DEF When
<1>4. /\ Parsed(e.received) /\ Parsed(moment)
      /\ ~(Age(moment, e.received) < -FutureSkew) /\ ~(Age(moment, e.received) > CacheAge)
  BY <1>2 DEF LocalClocks, When
<1>5. /\ Parsed(e.raw.t) /\ ~(Age(moment, e.raw.t) < -FutureSkew)
      /\ ~(Age(moment, e.raw.t) > SourceAge) /\ ~(Age(e.raw.t, e.received) > FutureSkew)
  BY <1>2, <1>4 DEF EventClock, When
<1>6. /\ Parsed(e.raw.bp) /\ Parsed(e.raw.ap) /\ ~(e.raw.bp[1] <= 0)
      /\ ~(e.raw.bp[1] > e.raw.ap[1])
  BY <1>2 DEF PriceReasons, When
<1>7. /\ moment[1] \in Int /\ e.received[1] \in Int /\ e.raw.t[1] \in Int
      /\ e.raw.bp[1] \in Int /\ e.raw.ap[1] \in Int
  BY <1>4, <1>5, <1>6, HeadsAreInt DEF SoundEnvelope
<1> DEFINE decided == moment[1]
           receivedAt == e.received[1]
           stamped == e.raw.t[1]
<1>8. /\ ~(decided - receivedAt < -FutureSkew) /\ ~(decided - receivedAt > CacheAge)
      /\ ~(decided - stamped < -FutureSkew) /\ ~(decided - stamped > SourceAge)
      /\ ~(stamped - receivedAt > FutureSkew)
      /\ decided \in Int /\ receivedAt \in Int /\ stamped \in Int
  BY <1>4, <1>5, <1>7 DEF Age
<1>9. 0 < e.raw.bp[1] /\ e.raw.bp[1] <= e.raw.ap[1]
  BY <1>6, <1>7
<1> HIDE DEF decided, receivedAt, stamped
<1>10. /\ stamped <= receivedAt + FutureSkew /\ receivedAt <= decided + FutureSkew
       /\ decided - stamped \in -FutureSkew .. SourceAge /\ decided - receivedAt <= CacheAge
  BY <1>1, <1>8
<1>12. ASSUME SizesRequired, NEW f \in {"bs", "as"} PROVE e.raw[f][1] > 0
  <2>1. When(~Parsed(e.raw[f]), "invalid_" \o f) = {} /\ When(Parsed(e.raw[f]) /\ e.raw[f][1] <= 0, "nonpositive_" \o f) = {}
    BY <1>2, <1>12 DEF SizeReasons
  <2>2. Parsed(e.raw[f]) /\ ~(e.raw[f][1] <= 0)
    BY <2>1 DEF When
  <2>3. e.raw[f][1] \in Int
    BY <2>2, HeadsAreInt DEF SoundEnvelope
  <2>4. QED BY <2>2, <2>3
<1>11. QED BY <1>3, <1>9, <1>10, <1>12 DEF decided, receivedAt, stamped

LEMMA VerdictsHold == QuotesInv => VerdictsAreSound
<1> SUFFICES ASSUME QuotesInv PROVE VerdictsAreSound
  OBVIOUS
<1>2. PassedQuotesAreUsable
  <2> SUFFICES ASSUME NEW s \in DOMAIN batch, verdicts[s] = {}
               PROVE  LET e == batch[s]
                      IN  /\ e.feed = ExpectedFeed /\ 0 < e.raw.bp[1] /\ e.raw.bp[1] <= e.raw.ap[1]
                          /\ e.raw.t[1] <= e.received[1] + FutureSkew /\ e.received[1] <= decidedAt[1] + FutureSkew
                          /\ decidedAt[1] - e.raw.t[1] \in -FutureSkew .. SourceAge
                          /\ decidedAt[1] - e.received[1] <= CacheAge
                          /\ SizesRequired => e.raw.bs[1] > 0 /\ e.raw.as[1] > 0
    BY DEF PassedQuotesAreUsable
  <2>1. SoundEnvelope(batch[s]) /\ decidedAt \in Seq(Int) /\ Validate(batch[s], decidedAt) = {}
    BY DEF QuotesInv, ValidateBatch
  <2>2. QED BY <2>1, NoReason
<1>3. OnlyClocksHeal
  BY DEF QuotesInv, OnlyClocksHeal
<1>4. QED BY <1>2, <1>3 DEF VerdictsAreSound

-----------------------------------------------------------------------------
(* Backups.  Every file of a destination is missing, torn or a version the *)
(* ledger has had since the backup began; the steps of the maker say which *)
(* is which, and once a backup is reported nothing but decay changes it.   *)

Committed == begunAt..ledger
Holdings == {NoVersion, Torn} \cup Committed
MakerStages == {"idle", "copying", "copied", "flushed", "named", "listed"}

BackupFiles ==
    /\ ledger \in 1..MaxVersion /\ begunAt \in 0..ledger /\ maker \in MakerStages
    /\ folder \in [Files -> Holdings] /\ disk \in [Files -> Holdings] /\ flushed \subseteq Files
    /\ begunAt = 0 => folder = Empty /\ disk = Empty /\ maker = "idle"
MakerProgress ==
    /\ maker \in {"copied", "flushed"} => folder["building"] \in Committed
    /\ maker = "flushed" => "building" \in flushed
    /\ maker \in {"named", "listed"}
         => digest = folder["snapshot"] /\ digest \in Committed /\ "snapshot" \in flushed
    /\ maker = "listed" => folder["manifest"] = digest /\ "manifest" \in flushed
Reported ==
    returned # NoVersion =>
        /\ maker = "idle" /\ begunAt # 0 /\ {"snapshot", "manifest"} \subseteq flushed
        /\ folder["manifest"] \in Committed /\ folder["snapshot"] = folder["manifest"]
        /\ disk["manifest"] = folder["manifest"] /\ disk["snapshot"] = folder["manifest"]
RestoreProgress ==
    /\ exercise # "idle" => verified = NoVersion
    /\ verified # NoVersion => copy = verified

BackupInv == BackupFiles /\ MakerProgress /\ Reported /\ RestoreProgress

LEMMA BackupSteps ==
  ASSUME [ServicesNext]_servicesVars, Examined("backup")'
  PROVE  Examined("backup") /\ [BackupNext]_backupVars
BY DEF ServicesNext, servicesVars, Steps, Examined, Components, backupVars

LEMMA FilesOfBackup ==
  /\ "building" \in Files /\ "snapshot" \in Files /\ "manifest" \in Files
  /\ \A f \in Files : f = "building" \/ f = "snapshot" \/ f = "manifest"
  /\ Empty \in [Files -> {NoVersion}] /\ NoVersion = -1 /\ Torn = 0
BY DEF Files, Empty, NoVersion, Torn

LEMMA BackupBegins == BackupInit => BackupInv
<1> SUFFICES ASSUME BackupInit PROVE BackupInv
  OBVIOUS
<1>1. BackupFiles
  BY BackupAssumption, FilesOfBackup DEF BackupInit, BackupFiles, Holdings, Committed, MakerStages
<1>2. MakerProgress /\ Reported /\ RestoreProgress
  BY DEF BackupInit, MakerProgress, Reported, RestoreProgress
<1>3. QED BY <1>1, <1>2 DEF BackupInv

LEMMA SyncedHoldings ==
  ASSUME BackupInv, NEW f \in Files
  PROVE  SyncedNames[f] \in Holdings /\ (f \in flushed => SyncedNames[f] = folder[f])
BY DEF SyncedNames, BackupInv, BackupFiles, Holdings

LEMMA BackupKeeps ==
  ASSUME BackupInv, [BackupNext]_backupVars
  PROVE  BackupInv'
<1> USE FilesOfBackup
<1>1. CASE ObserverCommits
  BY <1>1, BackupAssumption DEF ObserverCommits, BackupInv, BackupFiles, Committed, Holdings, MakerProgress, Reported,
    RestoreProgress
<1>2. CASE NewDestination
  BY <1>2, BackupAssumption DEF NewDestination, BackupInv, BackupFiles, Reported, Committed, Holdings, MakerStages,
    MakerProgress, RestoreProgress
<1>3. CASE CopyLedger \/ Flush \/ NameSnapshot \/ WriteManifest
  <2>1. /\ UNCHANGED <<ledger, begunAt, disk, returned, exercise, copy, verified>>
        /\ maker # "idle" /\ maker' \in MakerStages /\ maker' # "idle" /\ returned = NoVersion /\ begunAt # 0
    BY <1>3 DEF CopyLedger, Flush, NameSnapshot, WriteManifest, BackupInv, BackupFiles, Reported, MakerStages
  <2>2. Committed' = Committed /\ Holdings' = Holdings /\ ledger \in Committed
    BY <2>1, BackupAssumption DEF Committed, Holdings, BackupInv, BackupFiles
  <2>3. folder' \in [Files -> Holdings] /\ flushed' \subseteq Files /\ MakerProgress'
    <3>1. CASE CopyLedger
      BY <2>1, <2>2, <3>1 DEF CopyLedger, BackupInv, BackupFiles, MakerProgress, Holdings
    <3>2. CASE Flush
      BY <2>1, <2>2, <3>2 DEF Flush, BackupInv, BackupFiles, MakerProgress
    <3>3. CASE NameSnapshot
      BY <2>1, <2>2, <3>3 DEF NameSnapshot, Renamed, BackupInv, BackupFiles, MakerProgress, Holdings
    <3>4. CASE WriteManifest
      BY <2>1, <2>2, <3>4 DEF WriteManifest, BackupInv, BackupFiles, MakerProgress, Holdings
    <3>5. QED BY <1>3, <3>1, <3>2, <3>3, <3>4
  <2>4. BackupFiles' /\ Reported' /\ RestoreProgress'
    BY <2>1, <2>2, <2>3 DEF BackupInv, BackupFiles, Reported, RestoreProgress
  <2>5. QED BY <2>3, <2>4 DEF BackupInv
<1>4. CASE Publish
  BY <1>4, SyncedHoldings DEF Publish, Committed, Holdings, BackupInv, BackupFiles, SyncedNames, MakerStages,
    MakerProgress, Reported, RestoreProgress
<1>5. CASE MakerFails
  BY <1>5 DEF MakerFails, BackupInv, Reported, BackupFiles, MakerStages, Holdings, Committed, MakerProgress,
    RestoreProgress
<1>6. CASE Crash
  BY <1>6 DEF Crash, BackupInv, BackupFiles, MakerStages, Holdings, Committed, MakerProgress, Reported,
    RestoreProgress
<1>7. CASE BeginRestore \/ CopyRestore \/ ConfirmRestore
  BY <1>7 DEF BeginRestore, CopyRestore, ConfirmRestore, BackupInv, RestoreProgress, BackupFiles, Holdings, Committed,
    MakerProgress, Reported
<1>8. ASSUME NEW surviving \in SUBSET Files, BackupPowerLoss(surviving) PROVE BackupInv'
  <2>1. /\ UNCHANGED <<ledger, begunAt, digest, returned, verified>>
        /\ maker' = "idle" /\ exercise' = "idle" /\ disk' = folder'
        /\ folder' = [f \in Files |-> IF f \in surviving THEN SyncedNames[f] ELSE disk[f]]
        /\ flushed' = {f \in Files : folder'[f] # NoVersion}
        /\ copy' = IF verified = NoVersion THEN NoVersion ELSE copy
    BY <1>8 DEF BackupPowerLoss
  <2>2. Committed' = Committed /\ Holdings' = Holdings
    BY <2>1 DEF Committed, Holdings
  <2>3. folder' \in [Files -> Holdings]
    BY <2>1, SyncedHoldings DEF BackupInv, BackupFiles
  <2>4. begunAt = 0 => folder' = Empty
    BY <2>1 DEF BackupInv, BackupFiles, SyncedNames, Empty
  <2>5. BackupFiles'
    BY <2>1, <2>2, <2>3, <2>4 DEF BackupInv, BackupFiles, MakerStages
  <2>6. MakerProgress' /\ RestoreProgress'
    BY <2>1 DEF BackupInv, MakerProgress, RestoreProgress
  <2>7. ASSUME returned # NoVersion PROVE Reported'
    BY <2>7, <2>1, SyncedHoldings, <2>2 DEF BackupInv, Reported, Committed, BackupFiles
  <2>8. Reported'
    BY <2>1, <2>7 DEF Reported
  <2>9. QED BY <2>5, <2>6, <2>8 DEF BackupInv
<1>9. ASSUME NEW f \in Files, Decay(f) PROVE BackupInv'
  BY <1>9 DEF Decay, BackupInv, BackupFiles, Holdings, Committed, MakerProgress, Reported, RestoreProgress
<1>10. CASE UNCHANGED backupVars
  BY <1>10 DEF backupVars, BackupInv, BackupFiles, Holdings, Committed, MakerProgress, Reported, RestoreProgress
<1>11. QED BY <1>1, <1>2, <1>3, <1>4, <1>5, <1>6, <1>7, <1>8, <1>9, <1>10 DEF BackupNext

LEMMA BackupHolds == ServicesSpec => [](Examined("backup") => BackupInv)
<1>1. ServicesInit => (Examined("backup") => BackupInv)
  BY BackupBegins DEF ServicesInit
<1>2. (Examined("backup") => BackupInv) /\ [ServicesNext]_servicesVars
        => (Examined("backup") => BackupInv)'
  BY BackupSteps, BackupKeeps
<1>3. QED BY <1>1, <1>2, PTL DEF ServicesSpec

LEMMA BackupIsSound == BackupInv => BackupsAreSound
<1> SUFFICES ASSUME BackupInv PROVE BackupsAreSound
  OBVIOUS
<1>1. Verifies(folder) => folder["snapshot"] \in begunAt..ledger
  BY FilesOfBackup DEF Verifies, BackupInv, BackupFiles, Holdings, Committed
<1>2. ReportedBackupsSurvive
  <2>1. ASSUME returned # NoVersion PROVE Verifies(disk)
    BY <2>1, FilesOfBackup DEF Verifies, BackupInv, BackupFiles, Reported, Committed
  <2>2. QED BY <2>1 DEF ReportedBackupsSurvive
<1>3. QED BY <1>1, <1>2 DEF BackupsAreSound, VerifiedBackupsAreReal, BackupInv, RestoreProgress

-----------------------------------------------------------------------------
(* Bundles.  A file that was not written with its identity kept, and still  *)
(* has the identity it was captured with, still has the content, and had it *)
(* between the passes; the second pass finds that identity on every file.   *)

FileStates == [content : Contents, id : Nat \ {0}]
Passed(n) == {Selected[i] : i \in 1..(n - 1)}
InPasses == {"capture", "copy", "recheck", "list"}

BundleShape ==
    /\ runtime \in [Paths -> FileStates]
    /\ past \in Seq([Paths -> Contents]) /\ past # <<>> /\ past[Len(past)] = ContentOf(runtime)
    /\ stage \in InPasses \cup {"idle", "refused"} /\ at \in 1..Len(Selected)
    /\ marks \in [begun : 0..Len(past), between : 0..Len(past), done : 0..Len(past)]
    /\ stage \in InPasses => marks.begun # 0
    /\ stage \in InPasses \ {"capture"} => marks.between # 0
    /\ bundle.manifest # <<>> => stage \in {"idle", "refused"} /\ marks.begun # 0 /\ marks.between # 0

\* While a read is under way the file keeps its content, unless it is written.
ReadIsOld ==
    before # NoRead =>
        LET p == Selected[at]
        IN  /\ stage \in {"capture", "recheck"} /\ before \in [id : Nat \ {0}, since : 1..Len(past)]
            /\ marks.begun <= before.since /\ (stage = "recheck" => marks.between <= before.since)
            /\ before.id <= runtime[p].id
            /\ p \notin veiled /\ before.id = runtime[p].id =>
                 \A t \in before.since..Len(past) : past[t][p] = runtime[p].content

Kept(p) ==
    /\ captured[p] \in [id : Nat \ {0}, content : Contents] /\ captured[p].id <= runtime[p].id
    /\ p \notin veiled /\ runtime[p].id = captured[p].id => runtime[p].content = captured[p].content
    /\ \E t \in marks.begun..(IF stage = "capture" THEN Len(past) ELSE marks.between) : past[t][p] = captured[p].content
\* What holds of a file between the passes, and of one that passed the second.
StillThere(p) == p \notin veiled /\ runtime[p].id = captured[p].id => past[marks.between][p] = captured[p].content
ThereTwice(p) ==
    /\ p \notin veiled => past[marks.between][p] = captured[p].content
    /\ \E t \in marks.between..Len(past) : past[t][p] = captured[p].content

CaptureIsKept ==
    /\ stage = "capture" => DOMAIN captured = Passed(at) /\ \A p \in Passed(at) : Kept(p)
    /\ stage \in {"copy", "recheck", "list"} => DOMAIN captured = Paths /\ \A p \in Paths : Kept(p) /\ StillThere(p)
    /\ stage = "recheck" => \A p \in Passed(at) : ThereTwice(p)
    /\ stage = "list" => \A p \in Paths : ThereTwice(p)

BundleInv ==
    /\ BundleShape /\ ReadIsOld /\ CaptureIsKept /\ BundlesAreSound
    /\ restored.confirmed => bundle.manifest # <<>>
    /\ stage = "copy" => at = 1

LEMMA BundleSteps ==
  ASSUME [ServicesNext]_servicesVars, Examined("bundle")'
  PROVE  Examined("bundle") /\ [BundleNext]_bundleVars
BY DEF ServicesNext, servicesVars, Steps, Examined, Components, bundleVars

LEMMA PastFacts == BundleShape => Len(past) \in Nat /\ Len(past) # 0
BY DEF BundleShape

LEMMA SelectedFacts ==
  /\ Len(Selected) \in Nat /\ Len(Selected) > 0 /\ DOMAIN Selected = 1..Len(Selected)
  /\ Paths = {Selected[i] : i \in 1..Len(Selected)} /\ Paths # {}
  /\ \A i \in 1..Len(Selected) : Selected[i] \in Paths /\ Passed(i) \subseteq Paths
  /\ \A i \in 1..Len(Selected) : Passed(i) \cup {Selected[i]} = Passed(i + 1)
  /\ Passed(Len(Selected) + 1) = Paths /\ Passed(1) = {}
<1>1. /\ Len(Selected) \in Nat /\ Len(Selected) > 0 /\ DOMAIN Selected = 1..Len(Selected)
  BY BundleAssumption
<1>2. Paths = {Selected[i] : i \in 1..Len(Selected)}
  BY <1>1 DEF Paths
<1>3. Selected[1] \in Paths
  BY <1>1, <1>2
<1>4. ASSUME NEW i \in 1..Len(Selected)
      PROVE  /\ Selected[i] \in Paths /\ Passed(i) \subseteq Paths
             /\ Passed(i) \cup {Selected[i]} = Passed(i + 1)
  BY <1>1, <1>2 DEF Passed
<1>5. Passed(Len(Selected) + 1) = Paths /\ Passed(1) = {}
  BY <1>1, <1>2 DEF Passed
<1>6. QED BY <1>1, <1>2, <1>3, <1>4, <1>5

LEMMA BundleBegins == BundleInit => BundleInv
<1> SUFFICES ASSUME BundleInit PROVE BundleInv
  OBVIOUS
<1> DEFINE c == CHOOSE c \in Contents : TRUE
<1>1. c \in Contents /\ runtime = [p \in Paths |-> [content |-> c, id |-> 1]]
  BY BundleAssumption DEF BundleInit
<1> HIDE DEF c
<1>2. runtime \in [Paths -> FileStates] /\ ContentOf(runtime) \in [Paths -> Contents]
  BY <1>1 DEF FileStates, ContentOf
<1>3. /\ past \in Seq([Paths -> Contents]) /\ past # <<>> /\ past[Len(past)] = ContentOf(runtime)
  BY <1>2 DEF BundleInit
<1>4. BundleShape
  <2>1. 1 \in 1..Len(Selected) /\ Len(past) \in Nat
    BY SelectedFacts, <1>3
  <2>2. marks \in [begun : 0..Len(past), between : 0..Len(past), done : 0..Len(past)]
    BY <2>1 DEF BundleInit, NotBegun
  <2>3. QED BY <1>2, <1>3, <2>1, <2>2 DEF BundleInit, BundleShape, InPasses, Nothing
<1>5. ReadIsOld /\ CaptureIsKept /\ BundlesAreSound
  BY DEF BundleInit, ReadIsOld, CaptureIsKept, BundlesAreSound, Nothing, NoRestore
<1>6. QED BY <1>4, <1>5 DEF BundleInv, BundleInit, NoRestore

\* A write changes the identity of its file, which no capture or read has, or
\* the file is among those of which nothing is said.
LEMMA WorkerKeeps ==
  ASSUME BundleInv, NEW p \in Paths, NEW c \in Contents, NEW keepsIdentity \in BOOLEAN, WorkerWrites(p, c, keepsIdentity)
  PROVE  BundleInv'
<1> DEFINE n == IF keepsIdentity THEN runtime[p].id ELSE runtime[p].id + 1
<1>1. /\ runtime' = [runtime EXCEPT ![p] = [content |-> c, id |-> n]]
      /\ past' = Append(past, ContentOf(runtime'))
      /\ veiled' = IF keepsIdentity /\ stage \notin {"idle", "refused"} THEN veiled \cup {p} ELSE veiled
      /\ UNCHANGED <<stage, at, before, captured, bundle, marks, restored>>
  BY DEF WorkerWrites, Bundling
<1>2. /\ runtime \in [Paths -> FileStates] /\ past \in Seq([Paths -> Contents]) /\ past # <<>>
      /\ at \in 1..Len(Selected) /\ Selected[at] \in Paths /\ Passed(at) \subseteq Paths
      /\ past[Len(past)] = ContentOf(runtime) /\ stage \in InPasses \cup {"idle", "refused"}
      /\ marks \in [begun : 0..Len(past), between : 0..Len(past), done : 0..Len(past)]
  BY SelectedFacts DEF BundleInv, BundleShape
<1>3. n \in Nat \ {0} /\ n >= runtime[p].id /\ (~keepsIdentity => n > runtime[p].id)
  BY <1>2 DEF FileStates
<1> HIDE DEF n
<1>4. /\ runtime' \in [Paths -> FileStates] /\ ContentOf(runtime') \in [Paths -> Contents]
      /\ \A q \in Paths : q # p => runtime'[q] = runtime[q]
      /\ runtime'[p].id = n /\ \A q \in Paths : runtime[q].id \in Nat /\ runtime[q].id <= runtime'[q].id
  BY <1>1, <1>2, <1>3 DEF FileStates, ContentOf
<1>5. /\ past' \in Seq([Paths -> Contents]) /\ past' # <<>> /\ past'[Len(past')] = ContentOf(runtime')
      /\ Len(past) \in Nat /\ Len(past') = Len(past) + 1 /\ \A t \in 1..Len(past) : past'[t] = past[t]
  <2> DEFINE S == [Paths -> Contents]
             new == ContentOf(runtime')
  <2> HIDE DEF S, new
  <2>1. past \in Seq(S) /\ new \in S /\ past' = Append(past, new)
    BY <1>1, <1>2, <1>4 DEF S, new
  <2>2. /\ past' \in Seq(S) /\ past' # <<>> /\ past'[Len(past')] = new
        /\ Len(past) \in Nat /\ Len(past') = Len(past) + 1 /\ \A t \in 1..Len(past) : past'[t] = past[t]
    BY <2>1
  <2>3. QED BY <2>2 DEF S, new
<1>6. BundleShape'
  <2>1. marks' \in [begun : 0..Len(past'), between : 0..Len(past'), done : 0..Len(past')]
    BY <1>1, <1>2, <1>5
  <2>2. QED BY <1>1, <1>2, <1>4, <1>5, <2>1 DEF BundleInv, BundleShape
\* A file that is not veiled and keeps its identity was not written.
<1>7. ASSUME stage \in InPasses, NEW q \in Paths, q \notin veiled', NEW id \in Nat, id <= runtime[q].id, id = runtime'[q].id
      PROVE  q # p /\ q \notin veiled /\ id = runtime[q].id /\ runtime'[q] = runtime[q]
  <2>1. q \notin veiled /\ (q = p => ~keepsIdentity)
    BY <1>1, <1>7 DEF InPasses
  <2>2. q # p
    BY <1>2, <1>3, <1>4, <1>7, <2>1 DEF FileStates
  <2>3. QED BY <1>4, <1>7, <2>1, <2>2
<1>8. ReadIsOld'
  <2> DEFINE f == Selected[at]
  <2>1. SUFFICES ASSUME before # NoRead
                 PROVE  /\ stage \in {"capture", "recheck"} /\ before \in [id : Nat \ {0}, since : 1..Len(past')]
                        /\ marks.begun <= before.since /\ (stage = "recheck" => marks.between <= before.since)
                        /\ before.id <= runtime'[f].id
                        /\ f \notin veiled' /\ before.id = runtime'[f].id =>
                             \A t \in before.since..Len(past') : past'[t][f] = runtime'[f].content
    BY <1>1 DEF ReadIsOld
  <2>2. /\ stage \in {"capture", "recheck"} /\ before \in [id : Nat \ {0}, since : 1..Len(past)]
        /\ marks.begun <= before.since /\ (stage = "recheck" => marks.between <= before.since)
        /\ before.id <= runtime[f].id
        /\ f \notin veiled /\ before.id = runtime[f].id =>
             \A t \in before.since..Len(past) : past[t][f] = runtime[f].content
    BY <2>1 DEF BundleInv, ReadIsOld
  <2>3. before \in [id : Nat \ {0}, since : 1..Len(past')] /\ before.id \in Nat /\ before.since \in 1..Len(past)
    BY <1>5, <2>2
  <2>4. before.id <= runtime'[f].id
    BY <1>2, <1>4, <2>2, <2>3 DEF FileStates
  <2>5. ASSUME f \notin veiled', before.id = runtime'[f].id, NEW t \in before.since..Len(past')
        PROVE  past'[t][f] = runtime'[f].content
    <3>1. f \notin veiled /\ before.id = runtime[f].id /\ runtime'[f] = runtime[f]
      BY <1>2, <1>7, <2>2, <2>3, <2>5 DEF InPasses
    <3>2. CASE t \in before.since..Len(past)
      BY <1>5, <2>2, <2>3, <3>1, <3>2
    <3>3. CASE t = Len(past')
      BY <1>2, <1>5, <3>3 DEF ContentOf
    <3>4. QED BY <1>5, <2>3, <2>5, <3>2, <3>3
  <2>6. QED BY <2>2, <2>3, <2>4, <2>5
<1>9. ASSUME stage \in InPasses, NEW q \in Paths, Kept(q) PROVE Kept(q)'
  <2>1. /\ captured[q] \in [id : Nat \ {0}, content : Contents] /\ captured[q].id <= runtime[q].id
        /\ q \notin veiled /\ runtime[q].id = captured[q].id => runtime[q].content = captured[q].content
    BY <1>9 DEF Kept
  <2>2. PICK t \in marks.begun..(IF stage = "capture" THEN Len(past) ELSE marks.between) : past[t][q] = captured[q].content
    BY <1>9 DEF Kept
  <2> DEFINE end == IF stage = "capture" THEN Len(past) ELSE marks.between
             end2 == IF stage = "capture" THEN Len(past') ELSE marks.between
  <2>7. /\ marks.begun # 0 /\ marks.begun \in Nat /\ end \in 0..Len(past)
        /\ end2 \in Nat /\ end <= end2
    BY <1>2, <1>5, <1>9 DEF BundleInv, BundleShape
  <2> HIDE DEF end, end2
  <2>8. t \in marks.begun..end
    BY <2>2 DEF end
  <2>9. t \in 1..Len(past) /\ t \in marks.begun..end2
    BY <1>5, <2>7, <2>8
  <2>3. t \in 1..Len(past) /\ t \in marks.begun..(IF stage = "capture" THEN Len(past') ELSE marks.between)
    BY <2>9 DEF end2
  <2>4. captured[q].id <= runtime'[q].id /\ captured[q].id \in Nat
    <3>1. captured[q].id \in Nat /\ captured[q].id <= runtime[q].id
      BY <2>1
    <3>2. runtime[q].id \in Nat /\ runtime[q].id <= runtime'[q].id /\ runtime'[q].id \in Nat
      BY <1>4 DEF FileStates
    <3> DEFINE x == captured[q].id
               y == runtime[q].id
               z == runtime'[q].id
    <3> HIDE DEF x, y, z
    <3>3. x \in Nat /\ y \in Nat /\ z \in Nat /\ x <= y /\ y <= z
      BY <3>1, <3>2 DEF x, y, z
    <3>4. x <= z /\ x \in Nat
      BY <3>3
    <3>5. QED BY <3>4 DEF x, z
  <2>5. q \notin veiled' /\ runtime'[q].id = captured[q].id => runtime'[q].content = captured[q].content
    BY <1>7, <1>9, <2>1, <2>4
  <2>6. QED BY <1>1, <1>5, <2>1, <2>2, <2>3, <2>4, <2>5 DEF Kept
<1>10. ASSUME stage \in InPasses \ {"capture"} PROVE marks.between \in 1..Len(past) /\ past'[marks.between] = past[marks.between]
  <2>1. marks.between \in 1..Len(past)
    BY <1>2, <1>5, <1>10 DEF BundleInv, BundleShape
  <2>2. QED BY <1>5, <2>1
<1>11. ASSUME stage \in InPasses \ {"capture"}, NEW q \in Paths, Kept(q), StillThere(q) PROVE StillThere(q)'
  <2>1. captured[q].id \in Nat /\ captured[q].id <= runtime[q].id
    BY <1>11 DEF Kept
  <2>2. q \notin veiled' /\ runtime'[q].id = captured[q].id => q \notin veiled /\ runtime[q].id = captured[q].id
    BY <1>7, <1>11, <2>1
  <2>3. QED BY <1>1, <1>10, <1>11, <2>2 DEF StillThere
<1>12. ASSUME stage \in InPasses \ {"capture"}, NEW q \in Paths, ThereTwice(q) PROVE ThereTwice(q)'
  <2>1. PICK t \in marks.between..Len(past) : past[t][q] = captured[q].content
    BY <1>12 DEF ThereTwice
  <2>2. t \in 1..Len(past) /\ t \in marks.between..Len(past')
    BY <1>5, <1>10, <1>12, <2>1
  <2>3. q \notin veiled' => q \notin veiled
    BY <1>1
  <2>4. QED BY <1>1, <1>5, <1>10, <1>12, <2>1, <2>2, <2>3 DEF ThereTwice
<1>13. CaptureIsKept'
  <2>1. UNCHANGED <<stage, at, captured>> /\ Passed(at)' = Passed(at)
    BY <1>1 DEF Passed
  <2>2. stage = "capture" => \A q \in Passed(at) : Kept(q)'
    BY <1>2, <1>9 DEF BundleInv, CaptureIsKept, InPasses
  <2>3. stage \in {"copy", "recheck", "list"} => \A q \in Paths : Kept(q)' /\ StillThere(q)'
    BY <1>9, <1>11 DEF BundleInv, CaptureIsKept, InPasses
  <2>4. stage = "recheck" => \A q \in Passed(at) : ThereTwice(q)'
    BY <1>2, <1>12 DEF BundleInv, CaptureIsKept, InPasses
  <2>5. stage = "list" => \A q \in Paths : ThereTwice(q)'
    BY <1>12 DEF BundleInv, CaptureIsKept, InPasses
  <2>6. QED BY <2>1, <2>2, <2>3, <2>4, <2>5 DEF BundleInv, CaptureIsKept
<1>14. BundlesAreSound'
  <2>1. ASSUME NEW held, AsWhileBundling(held), marks.begun # 0, marks.between # 0, veiled' = veiled
        PROVE  AsWhileBundling(held)'
    <3>1. {marks.begun, marks.between} \subseteq 1..Len(past) /\ marks.done \in 0..Len(past)
      BY <1>2, <1>5, <2>1
    <3>2. \A t : t \in marks.begun..marks.between \/ t \in marks.between..marks.done => t \in 1..Len(past)
      BY <1>5, <3>1
    <3>3. ASSUME NEW q \in Paths
          PROVE  /\ \E t \in marks.begun..marks.between : past'[t][q] = held[q]
                 /\ \E t \in marks.between..marks.done : past'[t][q] = held[q]
                 /\ q \notin veiled' => past'[marks.between][q] = held[q]
      <4>1. PICK t \in marks.begun..marks.between : past[t][q] = held[q]
        BY <2>1 DEF AsWhileBundling
      <4>2. PICK u \in marks.between..marks.done : past[u][q] = held[q]
        BY <2>1 DEF AsWhileBundling
      <4>3. past'[t] = past[t] /\ past'[u] = past[u] /\ past'[marks.between] = past[marks.between]
        BY <1>5, <3>1, <3>2
      <4>4. q \notin veiled => past[marks.between][q] = held[q]
        BY <2>1 DEF AsWhileBundling
      <4>5. QED BY <2>1, <4>1, <4>2, <4>3, <4>4
    <3>4. QED BY <1>1, <3>3 DEF AsWhileBundling
  <2>2. CASE bundle.manifest = <<>>
    BY <1>1, <2>2 DEF BundleInv, BundlesAreSound
  <2>3. CASE bundle.manifest # <<>>
    <3>1. stage \in {"idle", "refused"} /\ marks.begun # 0 /\ marks.between # 0 /\ veiled' = veiled
      BY <1>1, <2>3 DEF BundleInv, BundleShape
    <3>2. AsWhileBundling(bundle.manifest) /\ (restored.confirmed => AsWhileBundling(restored.files))
      BY <2>3 DEF BundleInv, BundlesAreSound
    <3>3. UNCHANGED <<bundle, restored>>
      BY <1>1
    <3>4. AsWhileBundling(bundle.manifest)'
      BY <2>1, <3>1, <3>2, <3>3 DEF AsWhileBundling
    <3>5. restored.confirmed => AsWhileBundling(restored.files)'
      BY <2>1, <3>1, <3>2, <3>3 DEF AsWhileBundling
    <3>6. QED BY <3>3, <3>4, <3>5 DEF BundlesAreSound
  <2>4. QED BY <2>2, <2>3
<1>15. QED BY <1>1, <1>6, <1>8, <1>13, <1>14 DEF BundleInv

\* The files stand still while the bundler takes a step.
LEMMA QuietShape ==
  ASSUME BundleInv, UNCHANGED <<runtime, past>>,
         stage' \in InPasses \cup {"idle", "refused"}, at' \in 1..Len(Selected),
         marks' \in [begun : 0..Len(past), between : 0..Len(past), done : 0..Len(past)],
         stage' \in InPasses => marks'.begun # 0,
         stage' \in InPasses \ {"capture"} => marks'.between # 0,
         bundle'.manifest # <<>> => stage' \in {"idle", "refused"} /\ marks'.begun # 0 /\ marks'.between # 0
  PROVE  BundleShape'
BY DEF BundleInv, BundleShape, ContentOf

\* A step that leaves the passes, the manifest and the restore alone.
LEMMA StillSound ==
  ASSUME BundleInv, UNCHANGED <<past, marks, veiled, restored>>, bundle'.manifest = bundle.manifest
  PROVE  BundlesAreSound'
BY DEF BundleInv, BundlesAreSound, AsWhileBundling

LEMMA BeginBundleKeeps ==
  ASSUME BundleInv, BeginBundle
  PROVE  BundleInv'
<1>1. /\ stage' = "capture" /\ at' = 1 /\ before' = NoRead /\ captured' = <<>>
      /\ UNCHANGED <<runtime, past, bundle, restored>> /\ bundle.manifest = <<>>
      /\ marks' = [NotBegun EXCEPT !.begun = Len(past)]
  BY DEF BeginBundle, Nothing
<1>2. BundleShape'
  <2>1. at' \in 1..Len(Selected)
    BY <1>1, SelectedFacts
  <2>2. Len(past) \in Nat /\ Len(past) # 0
    BY DEF BundleInv, BundleShape
  <2>3. marks' \in [begun : 0..Len(past), between : 0..Len(past), done : 0..Len(past)] /\ marks'.begun # 0
    BY <1>1, <2>2 DEF NotBegun
  <2>4. QED BY <1>1, <2>1, <2>3, QuietShape DEF InPasses
<1>3. ReadIsOld' /\ BundlesAreSound' /\ ~restored'.confirmed
  BY <1>1 DEF BundleInv, ReadIsOld, BundlesAreSound
<1>4. CaptureIsKept'
  BY <1>1, SelectedFacts DEF Passed, CaptureIsKept
<1>5. QED BY <1>1, <1>2, <1>3, <1>4 DEF BundleInv

LEMMA OpenKeeps ==
  ASSUME BundleInv, OpenFile
  PROVE  BundleInv'
<1>1. /\ stage \in {"capture", "recheck"} /\ before' = [id |-> runtime[Selected[at]].id, since |-> Len(past)]
      /\ UNCHANGED <<runtime, past, stage, at, captured, bundle, marks, veiled, restored>>
  BY DEF OpenFile
<1>2. /\ runtime \in [Paths -> FileStates] /\ at \in 1..Len(Selected) /\ Selected[at] \in Paths
      /\ past \in Seq([Paths -> Contents]) /\ Len(past) \in Nat \ {0} /\ past[Len(past)] = ContentOf(runtime)
      /\ marks \in [begun : 0..Len(past), between : 0..Len(past), done : 0..Len(past)]
  BY SelectedFacts, PastFacts DEF BundleInv, BundleShape
<1>3. before' \in [id : Nat \ {0}, since : 1..Len(past)] /\ before'.id \in Nat
  BY <1>1, <1>2 DEF FileStates
<1>4. ReadIsOld'
  <2>1. \A t \in Len(past)..Len(past) : past[t][Selected[at]] = runtime[Selected[at]].content
    BY <1>2 DEF ContentOf
  <2>2. before'.id = runtime[Selected[at]].id /\ before'.since = Len(past)
    BY <1>1
  <2>3. QED BY <1>1, <1>2, <1>3, <2>1, <2>2 DEF ReadIsOld
<1>5. BundleShape'
  BY <1>1 DEF BundleInv, BundleShape
<1>6. CaptureIsKept' /\ BundlesAreSound'
  BY <1>1, StillSound DEF BundleInv, CaptureIsKept, Kept, StillThere, ThereTwice, Passed
<1>7. QED BY <1>1, <1>4, <1>5, <1>6 DEF BundleInv

LEMMA RefuseKeeps ==
  ASSUME BundleInv, Refuse
  PROVE  BundleInv'
<1>1. /\ stage' = "refused" /\ before' = NoRead
      /\ UNCHANGED <<runtime, past, at, captured, bundle, marks, veiled, restored>>
  BY DEF Refuse
<1>2. BundleShape'
  BY <1>1, QuietShape DEF BundleInv, BundleShape, InPasses
<1>3. ReadIsOld' /\ CaptureIsKept' /\ BundlesAreSound'
  BY <1>1, StillSound DEF ReadIsOld, CaptureIsKept
<1>4. QED BY <1>1, <1>2, <1>3 DEF BundleInv

\* What was read the file had in the first pass, and has now if it was not written.
LEMMA CaptureKeeps ==
  ASSUME BundleInv, NEW c \in Contents, CaptureFile(c)
  PROVE  BundleInv'
<1> DEFINE p == Selected[at]
           took == [id |-> before.id, content |-> c]
<1>1. CASE Refuse
  BY <1>1, RefuseKeeps
<1>2. CASE ~Refuse
  <2>1. /\ stage = "capture" /\ before # NoRead /\ (\E t \in before.since..Len(past) : c = past[t][p])
        /\ runtime[p].id = before.id /\ before' = NoRead
        /\ captured' = [q \in DOMAIN captured \cup {p} |-> IF q = p THEN took ELSE captured[q]]
        /\ UNCHANGED <<runtime, past, bundle, veiled, restored>>
        /\ IF at < Len(Selected) THEN at' = at + 1 /\ UNCHANGED <<stage, marks>>
           ELSE at' = 1 /\ stage' = "copy" /\ marks' = [marks EXCEPT !.between = Len(past)]
    BY <1>2 DEF CaptureFile, ReadContent, Unchanged
  <2>2. /\ runtime \in [Paths -> FileStates] /\ at \in 1..Len(Selected) /\ p \in Paths
        /\ Passed(at) \subseteq Paths /\ Passed(at) \cup {p} = Passed(at + 1)
        /\ Len(Selected) \in Nat /\ Passed(Len(Selected) + 1) = Paths
        /\ past # <<>> /\ past \in Seq([Paths -> Contents]) /\ Len(past) \in Nat \ {0} /\ past[Len(past)] = ContentOf(runtime)
        /\ marks \in [begun : 0..Len(past), between : 0..Len(past), done : 0..Len(past)] /\ marks.begun # 0
    BY <2>1, SelectedFacts, PastFacts DEF BundleInv, BundleShape, InPasses
  <2>3. /\ before \in [id : Nat \ {0}, since : 1..Len(past)] /\ marks.begun <= before.since
        /\ p \notin veiled => \A t \in before.since..Len(past) : past[t][p] = runtime[p].content
    BY <2>1 DEF BundleInv, ReadIsOld
  <2>4. /\ took \in [id : Nat \ {0}, content : Contents] /\ took.id = runtime[p].id /\ took.content = c
        /\ p \notin veiled => c = runtime[p].content
        /\ \E t \in marks.begun..Len(past) : past[t][p] = c
    <3>1. PICK t \in before.since..Len(past) : c = past[t][p]
      BY <2>1
    <3>2. t \in marks.begun..Len(past)
      BY <2>2, <2>3, <3>1
    <3>3. QED BY <2>1, <2>3, <3>1, <3>2
  <2> HIDE DEF took
  <2>5. DOMAIN captured' = Passed(at + 1) /\ \A q \in Passed(at + 1) : Kept(q)'
    <3>1. DOMAIN captured = Passed(at) /\ \A q \in Passed(at) : Kept(q)
      BY <2>1 DEF BundleInv, CaptureIsKept
    <3>2. DOMAIN captured' = Passed(at + 1)
      BY <2>1, <2>2, <3>1
    <3>5. marks'.begun = marks.begun /\ (IF stage' = "capture" THEN Len(past') ELSE marks'.between) = Len(past)
      BY <2>1, <2>2
    <3>3. ASSUME NEW q \in Passed(at + 1) PROVE Kept(q)'
      <4>1. CASE q = p
        BY <2>1, <2>2, <2>4, <3>2, <3>5, <4>1 DEF Kept
      <4>2. CASE q # p
        <5>1. captured'[q] = captured[q] /\ q \in Passed(at) /\ Kept(q)
          BY <2>1, <2>2, <3>1, <3>2, <4>2
        <5>2. \E t \in marks.begun..Len(past) : past[t][q] = captured[q].content
          BY <2>1, <5>1 DEF Kept
        <5>3. QED BY <2>1, <3>5, <5>1, <5>2 DEF Kept
      <4>3. QED BY <4>1, <4>2
    <3>4. QED BY <3>2, <3>3
  <2>6. bundle.manifest = <<>> /\ ~restored.confirmed
    BY <2>1 DEF BundleInv, BundleShape, InPasses
  <2>7. BundlesAreSound' /\ ReadIsOld'
    BY <2>1, <2>6 DEF BundlesAreSound, ReadIsOld
  <2>8. CASE at < Len(Selected)
    <3>1. at' = at + 1 /\ at' \in 1..Len(Selected) /\ stage' = "capture" /\ marks' = marks /\ Passed(at)' = Passed(at + 1)
      BY <2>1, <2>2, <2>8 DEF Passed
    <3>2. BundleShape'
      BY <2>1, <2>2, <2>6, <3>1, QuietShape DEF InPasses
    <3>3. CaptureIsKept'
      BY <2>5, <3>1 DEF CaptureIsKept
    <3>4. QED BY <2>1, <2>6, <2>7, <3>1, <3>2, <3>3 DEF BundleInv
  <2>9. CASE ~(at < Len(Selected))
    <3>1. /\ at' = 1 /\ stage' = "copy" /\ Passed(at + 1) = Paths
          /\ marks' \in [begun : 0..Len(past), between : 0..Len(past), done : 0..Len(past)]
          /\ marks'.begun = marks.begun /\ marks'.between = Len(past)
      BY <2>1, <2>2, <2>9
    <3>2. at' \in 1..Len(Selected)
      BY <3>1, SelectedFacts
    <3>3. BundleShape'
      BY <2>1, <2>2, <2>6, <3>1, <3>2, QuietShape DEF InPasses
    <3>4. ASSUME NEW q \in Paths PROVE StillThere(q)'
      <4>1. Kept(q)'
        BY <2>5, <3>1
      <4>2. past'[Len(past)][q] = runtime[q].content
        BY <2>1, <2>2 DEF ContentOf
      <4>3. QED BY <2>1, <3>1, <4>1, <4>2 DEF Kept, StillThere
    <3>5. CaptureIsKept'
      BY <2>5, <3>1, <3>4 DEF CaptureIsKept
    <3>6. QED BY <2>1, <2>6, <2>7, <3>1, <3>3, <3>5 DEF BundleInv
  <2>10. QED BY <2>8, <2>9
<1>3. QED BY <1>1, <1>2

LEMMA PayloadsKeep ==
  ASSUME BundleInv, WritePayloads
  PROVE  BundleInv'
<1>1. /\ stage = "copy" /\ stage' = "recheck" /\ bundle'.manifest = bundle.manifest
      /\ UNCHANGED <<runtime, past, at, before, captured, marks, veiled, restored>>
  BY DEF WritePayloads, BundleInv
<1>2. bundle.manifest = <<>> /\ ~restored.confirmed /\ before = NoRead /\ at = 1
  BY <1>1 DEF BundleInv, BundleShape, ReadIsOld, InPasses
<1>3. BundleShape'
  BY <1>1, <1>2, QuietShape DEF BundleInv, BundleShape, InPasses
<1>4. ReadIsOld' /\ BundlesAreSound'
  BY <1>1, <1>2, StillSound DEF ReadIsOld
<1>5. CaptureIsKept'
  <2>1. DOMAIN captured = Paths /\ \A p \in Paths : Kept(p) /\ StillThere(p)
    BY <1>1 DEF BundleInv, CaptureIsKept
  <2>2. \A p \in Paths : Kept(p)' /\ StillThere(p)'
    BY <1>1, <2>1 DEF Kept, StillThere
  <2>3. Passed(at)' = {}
    BY <1>1, <1>2, SelectedFacts DEF Passed
  <2>4. QED BY <1>1, <2>1, <2>2, <2>3 DEF CaptureIsKept
<1>6. QED BY <1>1, <1>2, <1>3, <1>4, <1>5 DEF BundleInv

\* A file the second pass accepts has its captured content again, and its
\* captured identity: it had the content between the passes if it is not veiled.
LEMMA RecheckKeeps ==
  ASSUME BundleInv, NEW c \in Contents, RecheckFile(c)
  PROVE  BundleInv'
<1> DEFINE p == Selected[at]
<1>1. CASE Refuse
  BY <1>1, RefuseKeeps
<1>2. CASE ~Refuse
  <2>1. /\ stage = "recheck" /\ before # NoRead /\ (\E t \in before.since..Len(past) : c = past[t][p])
        /\ runtime[p].id = before.id /\ before.id = captured[p].id /\ c = captured[p].content /\ before' = NoRead
        /\ UNCHANGED <<runtime, past, captured, bundle, marks, veiled, restored>>
        /\ IF at < Len(Selected) THEN at' = at + 1 /\ UNCHANGED stage ELSE at' = 1 /\ stage' = "list"
    BY <1>2 DEF RecheckFile, ReadContent, Unchanged, SameAsCaptured
  <2>2. /\ at \in 1..Len(Selected) /\ p \in Paths /\ Passed(at) \cup {p} = Passed(at + 1)
        /\ Len(Selected) \in Nat /\ Len(Selected) > 0 /\ Passed(Len(Selected) + 1) = Paths
        /\ Len(past) \in Nat /\ marks \in [begun : 0..Len(past), between : 0..Len(past), done : 0..Len(past)]
        /\ marks.begun # 0 /\ marks.between # 0
    BY <2>1, SelectedFacts, PastFacts DEF BundleInv, BundleShape, InPasses
  <2>3. bundle.manifest = <<>> /\ ~restored.confirmed
    BY <2>1 DEF BundleInv, BundleShape, InPasses
  <2>4. BundlesAreSound' /\ ReadIsOld'
    BY <2>1, <2>3, StillSound DEF ReadIsOld
  <2>5. DOMAIN captured = Paths /\ (\A q \in Paths : Kept(q) /\ StillThere(q)) /\ \A q \in Passed(at) : ThereTwice(q)
    BY <2>1 DEF BundleInv, CaptureIsKept
  <2>6. \A q \in Paths : Kept(q)' /\ StillThere(q)'
    <3>1. stage' # "capture" /\ stage # "capture"
      BY <2>1
    <3>2. QED BY <2>1, <2>5, <3>1 DEF Kept, StillThere
  <2>7. ThereTwice(p)
    <3>1. PICK t \in before.since..Len(past) : c = past[t][p]
      BY <2>1
    <3>2. before.since \in 1..Len(past) /\ marks.between <= before.since
      BY <2>1 DEF BundleInv, ReadIsOld
    <3>3. t \in marks.between..Len(past)
      BY <2>2, <3>1, <3>2
    <3>4. QED BY <2>1, <2>2, <2>5, <3>1, <3>3 DEF StillThere, ThereTwice
  <2>8. \A q \in Passed(at + 1) : ThereTwice(q)'
    BY <2>1, <2>2, <2>5, <2>7 DEF ThereTwice
  <2>9. CASE at < Len(Selected)
    <3>1. at' = at + 1 /\ at' \in 1..Len(Selected) /\ stage' = "recheck" /\ Passed(at)' = Passed(at + 1)
      BY <2>1, <2>2, <2>9 DEF Passed
    <3>2. BundleShape'
      BY <2>1, <2>2, <2>3, <3>1, QuietShape DEF InPasses
    <3>3. CaptureIsKept'
      BY <2>1, <2>5, <2>6, <2>8, <3>1 DEF CaptureIsKept
    <3>4. QED BY <2>1, <2>3, <2>4, <3>1, <3>2, <3>3 DEF BundleInv
  <2>10. CASE ~(at < Len(Selected))
    <3>1. at' = 1 /\ at' \in 1..Len(Selected) /\ stage' = "list" /\ Passed(at + 1) = Paths
      BY <2>1, <2>2, <2>10
    <3>2. BundleShape'
      BY <2>1, <2>2, <2>3, <3>1, QuietShape DEF InPasses
    <3>3. CaptureIsKept'
      BY <2>1, <2>5, <2>6, <2>8, <3>1 DEF CaptureIsKept
    <3>4. QED BY <2>1, <2>3, <2>4, <3>1, <3>2, <3>3 DEF BundleInv
  <2>11. QED BY <2>9, <2>10
<1>3. QED BY <1>1, <1>2

\* What the manifest names every file had in both passes.
LEMMA PublishKeeps ==
  ASSUME BundleInv, PublishManifest
  PROVE  BundleInv'
<1> DEFINE named == ContentOf(captured)
<1>1. /\ stage = "list" /\ stage' = "idle" /\ bundle' = [bundle EXCEPT !.manifest = named]
      /\ marks' = [marks EXCEPT !.done = Len(past)]
      /\ UNCHANGED <<runtime, past, at, before, captured, veiled, restored>>
  BY DEF PublishManifest
<1>2. /\ Len(past) \in Nat /\ at \in 1..Len(Selected)
      /\ marks \in [begun : 0..Len(past), between : 0..Len(past), done : 0..Len(past)]
      /\ marks.begun # 0 /\ marks.between # 0
  BY <1>1 DEF BundleInv, BundleShape, InPasses
<1>3. marks' \in [begun : 0..Len(past), between : 0..Len(past), done : 0..Len(past)] /\ marks'.begun = marks.begun
      /\ marks'.between = marks.between /\ marks'.done = Len(past)
  BY <1>1, <1>2
<1>4. ASSUME NEW p \in Paths
      PROVE  /\ \E t \in marks.begun..marks.between : past[t][p] = captured[p].content
             /\ \E t \in marks.between..Len(past) : past[t][p] = captured[p].content
             /\ p \notin veiled => past[marks.between][p] = captured[p].content
  <2>1. Kept(p) /\ ThereTwice(p)
    BY <1>1 DEF BundleInv, CaptureIsKept
  <2>2. \E t \in marks.begun..marks.between : past[t][p] = captured[p].content
    BY <1>1, <2>1 DEF Kept
  <2>3. QED BY <2>1, <2>2 DEF ThereTwice
<1>5. named' = named /\ \A p \in Paths : named[p] = captured[p].content
  BY <1>1 DEF ContentOf
<1> HIDE DEF named
<1>6. AsWhileBundling(named)'
  BY <1>1, <1>3, <1>4, <1>5 DEF AsWhileBundling
<1>7. bundle'.manifest \in {named, bundle.manifest} /\ bundle.manifest = <<>> /\ ~restored.confirmed /\ before = NoRead
  BY <1>1 DEF BundleInv, BundleShape, ReadIsOld, InPasses
<1>8. BundlesAreSound' /\ ReadIsOld' /\ CaptureIsKept'
  <2>1. bundle'.manifest = named => AsWhileBundling(bundle.manifest)'
    BY <1>5, <1>6 DEF AsWhileBundling
  <2>2. QED BY <1>1, <1>7, <2>1 DEF BundlesAreSound, ReadIsOld, CaptureIsKept
<1>9. BundleShape'
  BY <1>1, <1>2, <1>3, QuietShape DEF InPasses
<1>10. QED BY <1>1, <1>7, <1>8, <1>9 DEF BundleInv

LEMMA DecayKeeps ==
  ASSUME BundleInv, NEW p \in Paths, PayloadDecays(p)
  PROVE  BundleInv'
<1>1. /\ bundle'.manifest = bundle.manifest
      /\ UNCHANGED <<runtime, past, stage, at, before, captured, marks, veiled, restored>>
  BY DEF PayloadDecays
<1>2. BundleShape'
  BY <1>1 DEF BundleInv, BundleShape
<1>3. ReadIsOld' /\ CaptureIsKept' /\ BundlesAreSound'
  BY <1>1, StillSound DEF BundleInv, ReadIsOld, CaptureIsKept, Kept, StillThere, ThereTwice, Passed
<1>4. QED BY <1>1, <1>2, <1>3 DEF BundleInv

\* The copies that a confirmed restore compared are the manifest's contents.
LEMMA RestoreKeeps ==
  ASSUME BundleInv, ConfirmBundle \/ \E p \in Paths : RestoreFile(p)
  PROVE  BundleInv'
<1>1. UNCHANGED <<runtime, past, stage, at, before, captured, bundle, marks, veiled>> /\ ~restored.confirmed
  BY DEF ConfirmBundle, RestoreFile
<1>2. BundleShape' /\ ReadIsOld' /\ CaptureIsKept'
  BY <1>1 DEF BundleInv, BundleShape, ReadIsOld, CaptureIsKept, Kept, StillThere, ThereTwice, Passed
<1>3. bundle'.manifest # <<>> => AsWhileBundling(bundle.manifest)'
  BY <1>1 DEF BundleInv, BundlesAreSound, AsWhileBundling
<1>4. CASE ConfirmBundle
  <2>1. /\ restored' = [restored EXCEPT !.confirmed = TRUE]
        /\ \A p \in Paths : restored.files[p] = bundle.manifest[p]
        /\ bundle.manifest # <<>>
    BY <1>4 DEF ConfirmBundle, VerifiesBundle
  <2>2. restored'.files = restored.files
    BY <2>1
  <2>3. AsWhileBundling(restored.files)'
    BY <1>1, <1>3, <2>1, <2>2 DEF AsWhileBundling
  <2>4. QED BY <1>1, <1>2, <1>3, <2>1, <2>3 DEF BundleInv, BundlesAreSound
<1>5. CASE \E p \in Paths : RestoreFile(p)
  <2>1. restored'.confirmed = restored.confirmed
    BY <1>5 DEF RestoreFile
  <2>2. QED BY <1>1, <1>2, <1>3, <2>1 DEF BundleInv, BundlesAreSound
<1>6. QED BY <1>4, <1>5

LEMMA BundleKeeps ==
  ASSUME BundleInv, [BundleNext]_bundleVars
  PROVE  BundleInv'
<1>1. CASE UNCHANGED bundleVars
  BY <1>1 DEF bundleVars, BundleInv, BundleShape, ReadIsOld, CaptureIsKept, Kept, StillThere, ThereTwice, Passed,
    BundlesAreSound, AsWhileBundling, ContentOf
<1>2. CASE \E p \in Paths, c \in Contents, keepsIdentity \in BOOLEAN : WorkerWrites(p, c, keepsIdentity)
  BY <1>2, WorkerKeeps
<1>3. CASE \E c \in Contents : CaptureFile(c) \/ RecheckFile(c)
  BY <1>3, CaptureKeeps, RecheckKeeps
<1>4. CASE \E p \in Paths : PayloadDecays(p)
  BY <1>4, DecayKeeps
<1>5. CASE BundlerStops
  BY <1>5, RefuseKeeps DEF BundlerStops
<1>6. QED BY <1>1, <1>2, <1>3, <1>4, <1>5, BeginBundleKeeps, OpenKeeps, PayloadsKeep, PublishKeeps, RestoreKeeps
     DEF BundleNext

LEMMA BundleHolds == ServicesSpec => [](Examined("bundle") => BundleInv)
<1>1. ServicesInit => (Examined("bundle") => BundleInv)
  BY BundleBegins DEF ServicesInit
<1>2. (Examined("bundle") => BundleInv) /\ [ServicesNext]_servicesVars => (Examined("bundle") => BundleInv)'
  BY BundleSteps, BundleKeeps
<1>3. QED BY <1>1, <1>2, PTL DEF ServicesSpec

LEMMA BundleIsSound == BundleInv => BundlesAreSound
BY DEF BundleInv

-----------------------------------------------------------------------------
(* Ledger of decisions.  An amended decision was recorded before: counting  *)
(* the decisions in the order of their recording, a chain of amendments     *)
(* descends, so it is no longer than the ledger.                            *)

Ranks(rank) ==
    /\ rank \in [DOMAIN decisions -> 1..Cardinality(DOMAIN decisions)]
    /\ \A id \in DOMAIN decisions :
         decisions[id].amends # NoParent =>
             decisions[id].amends \in DOMAIN decisions /\ rank[decisions[id].amends] < rank[id]

InputsLinked ==
    /\ DOMAIN decisionInputs = DOMAIN decisions
    /\ \A id \in DOMAIN decisions :
         /\ decisionInputs[id] = decisions[id].inputs
         /\ decisions[id].inputs \subseteq inputEvidence /\ Causal(decisions[id].inputs, decisions[id].at)

LedgerInv ==
    /\ DOMAIN decisions \subseteq DecisionIds /\ IsFiniteSet(DOMAIN decisions)
    /\ \A id \in DOMAIN decisions : decisions[id].at \in Nat
    /\ InputsLinked /\ ParentsEarlier /\ LinksSound
    /\ \E rank : Ranks(rank)
    /\ verifier # "idle" /\ ~disturbed => seenInputs = inputEvidence
    /\ verdict = "refused" => disturbed

LEMMA LedgerSteps ==
  ASSUME [ServicesNext]_servicesVars, Examined("ledger")'
  PROVE  Examined("ledger") /\ [LedgerNext]_ledgerVars
BY DEF ServicesNext, servicesVars, Steps, Examined, Components, ledgerVars

LEMMA LedgerBegins == LedgerInit => LedgerInv
<1> SUFFICES ASSUME LedgerInit PROVE LedgerInv
  OBVIOUS
<1>1. DOMAIN decisions = {} /\ DOMAIN links = {} /\ DOMAIN decisionInputs = {} /\ IsFiniteSet({})
  BY FS_EmptySet DEF LedgerInit
<1>2. Ranks([x \in {} |-> 1])
  BY <1>1 DEF Ranks
<1>3. QED BY <1>1, <1>2 DEF LedgerInit, LedgerInv, InputsLinked, ParentsEarlier, LinksSound

\* The chain of amendments from one decision descends and so comes to its end.
LEMMA ChainsEnd ==
  ASSUME LedgerInv, NEW id \in DOMAIN decisions
  PROVE  ChainEnds(id)
<1> DEFINE N == Cardinality(DOMAIN decisions)
           After(p) == IF p \in DOMAIN decisions THEN decisions[p].amends ELSE NoParent
           Walks(f, m) == f = [n \in 0..m |-> IF n = 0 THEN id ELSE After(f[n - 1])]
           T == {m \in Nat : \E f : Walks(f, m)}
<1>1. N \in Nat
  BY FS_CardinalityType DEF LedgerInv
<1>2. 0 \in T
  <2>1. Walks([n \in 0..0 |-> id], 0)
    OBVIOUS
  <2>2. QED BY <2>1
<1>3. ASSUME NEW m \in Nat, m \in T PROVE m + 1 \in T
  <2>1. PICK f : Walks(f, m)
    BY <1>3
  <2> DEFINE g == [n \in 0..(m + 1) |-> IF n = m + 1 THEN After(f[m]) ELSE f[n]]
  <2> HIDE DEF After
  <2>2. Walks(g, m + 1)
    <3>1. g = [n \in 0..(m + 1) |-> g[n]]
      OBVIOUS
    <3>2. ASSUME NEW n \in 0..(m + 1) PROVE g[n] = IF n = 0 THEN id ELSE After(g[n - 1])
      <4>1. CASE n = m + 1
        BY <4>1
      <4>2. CASE n = 0
        BY <2>1, <4>2
      <4>3. CASE n \in 1..m
        BY <4>3, <2>1
      <4>4. QED BY <4>1, <4>2, <4>3
    <3> HIDE DEF g
    <3>3. QED BY <3>1, <3>2
  <2> HIDE DEF g, Walks
  <2>3. \E h : Walks(h, m + 1)
    BY <2>2
  <2>4. QED BY <2>3
<1> HIDE DEF T
<1>4. N \in T
  BY <1>1, <1>2, <1>3, SetInduction
<1> DEFINE parent == CHOOSE f : Walks(f, N)
<1>5. Walks(parent, N)
  BY <1>4 DEF T
<1>6. PICK rank : Ranks(rank)
  BY DEF LedgerInv
<1> DEFINE Descends(n) == parent[n] = NoParent \/ (parent[n] \in DOMAIN decisions /\ rank[parent[n]] <= N - n)
           U == {n \in Nat : n <= N => Descends(n)}
<1> HIDE DEF parent
<1>7. NoParent \notin DOMAIN decisions /\ rank \in [DOMAIN decisions -> 1..N]
  BY <1>6, LedgerAssumption DEF LedgerInv, Ranks
<1>8. 0 \in U
  BY <1>1, <1>5, <1>7
<1>9. ASSUME NEW n \in Nat, n \in U PROVE n + 1 \in U
  <2> SUFFICES ASSUME n + 1 <= N PROVE Descends(n + 1)
    OBVIOUS
  <2>1. parent[n + 1] = After(parent[n])
    BY <1>1, <1>5
  <2>2. Descends(n)
    BY <1>1, <1>9
  <2>3. CASE parent[n] = NoParent
    BY <1>7, <2>1, <2>3
  <2>4. CASE parent[n] \in DOMAIN decisions /\ rank[parent[n]] <= N - n
    BY <2>1, <2>4, <1>6, <1>7, <1>1 DEF Ranks
  <2>5. QED BY <2>2, <2>3, <2>4
<1> HIDE DEF U
<1>10. N \in U
  BY <1>1, <1>8, <1>9, SetInduction
<1>11. Descends(N)
  BY <1>1, <1>10 DEF U
<1>12. parent[N] = NoParent
  BY <1>7, <1>1, <1>11
<1>13. QED BY <1>12 DEF ChainEnds, parent

\* A decision that is recorded anew comes last in the order; one that is
\* repeated has the body it had.
LEMMA DecisionKeeps ==
  ASSUME LedgerInv, NEW id \in DecisionIds, NEW when \in Moments, NEW result \in Results,
         NEW inputs \in SUBSET Evidence, NEW amends \in DecisionIds \cup {NoParent},
         RecordDecision(id, when, result, amends, inputs)
  PROVE  LedgerInv'
<1> DEFINE body == [at |-> when, result |-> result, amends |-> amends, inputs |-> inputs]
           N == Cardinality(DOMAIN decisions)
<1>1. /\ Causal(inputs, when) /\ ParentRecorded(id, amends, when)
      /\ (id \in DOMAIN decisions => decisions[id] = body)
      /\ decisions' = [x \in DOMAIN decisions \cup {id} |-> IF x = id THEN body ELSE decisions[x]]
      /\ inputEvidence' = inputEvidence \cup inputs
      /\ decisionInputs' = IF id \in DOMAIN decisionInputs THEN decisionInputs
                           ELSE [x \in DOMAIN decisionInputs \cup {id} |-> IF x = id THEN inputs ELSE decisionInputs[x]]
      /\ disturbed' = (disturbed \/ verifier # "idle")
      /\ UNCHANGED <<links, verifier, seenInputs, verdict>>
  BY DEF RecordDecision, SameBody, Added
<1>2. body.at = when /\ body.amends = amends /\ body.inputs = inputs
  OBVIOUS
<1> HIDE DEF body
<1>3. /\ DOMAIN decisions' = DOMAIN decisions \cup {id} /\ decisions'[id] = body
      /\ \A x \in DOMAIN decisions : decisions'[x] = decisions[x]
  BY <1>1
<1>4. /\ DOMAIN decisions' \subseteq DecisionIds /\ IsFiniteSet(DOMAIN decisions')
      /\ \A x \in DOMAIN decisions' : decisions'[x].at \in Nat
  BY FS_AddElement, <1>2, <1>3, LedgerAssumption DEF LedgerInv
<1>5. InputsLinked'
  <2>1. DOMAIN decisionInputs = DOMAIN decisions /\ DOMAIN decisionInputs' = DOMAIN decisions'
    BY <1>1, <1>3 DEF LedgerInv, InputsLinked
  <2>2. ASSUME NEW x \in DOMAIN decisions'
        PROVE  /\ decisionInputs'[x] = decisions'[x].inputs
               /\ decisions'[x].inputs \subseteq inputEvidence' /\ Causal(decisions'[x].inputs, decisions'[x].at)
    <3>1. CASE x \in DOMAIN decisions
      BY <3>1, <1>1, <1>2, <2>1, <1>3 DEF LedgerInv, InputsLinked
    <3>2. CASE x \notin DOMAIN decisions
      BY <1>1, <1>3, <2>1, <3>2, <1>2
    <3>3. QED BY <3>1, <3>2
  <2>3. QED BY <2>1, <2>2 DEF InputsLinked, Causal
<1>6. ParentsEarlier'
  <2> SUFFICES ASSUME NEW x \in DOMAIN decisions', decisions'[x].amends # NoParent
               PROVE  /\ decisions'[x].amends \in DOMAIN decisions'
                      /\ decisions'[decisions'[x].amends].at <= decisions'[x].at
    BY DEF ParentsEarlier
  <2>1. CASE x \in DOMAIN decisions
    BY <1>3, <2>1 DEF LedgerInv, ParentsEarlier
  <2>2. CASE x \notin DOMAIN decisions
    BY <1>1, <1>2, <1>3, <2>2 DEF ParentRecorded
  <2>3. QED BY <2>1, <2>2
<1>7. LinksSound'
  BY <1>5, <1>1, <1>3 DEF InputsLinked, LedgerInv, LinksSound
<1>8. \E rank : Ranks(rank)'
  <2>1. PICK rank : Ranks(rank)
    BY DEF LedgerInv
  <2>2. CASE id \in DOMAIN decisions
    BY <1>3, <2>2, <2>1 DEF Ranks
  <2>3. CASE id \notin DOMAIN decisions
    <3>0. PICK more : more = [x \in DOMAIN decisions \cup {id} |-> IF x = id THEN N + 1 ELSE rank[x]]
      OBVIOUS
    <3>1. N \in Nat /\ Cardinality(DOMAIN decisions') = N + 1
      BY <1>3, <2>3, FS_AddElement, FS_CardinalityType DEF LedgerInv
    <3>2. more \in [DOMAIN decisions' -> 1..(N + 1)]
      BY <1>3, <2>1, <3>0, <3>1 DEF Ranks
    <3>3. ASSUME NEW x \in DOMAIN decisions', decisions'[x].amends # NoParent
          PROVE  decisions'[x].amends \in DOMAIN decisions' /\ more[decisions'[x].amends] < more[x]
      <4>1. CASE x \in DOMAIN decisions
        BY <1>3, <2>1, <3>3, <4>1, <2>3, <3>0 DEF Ranks
      <4>2. CASE x \notin DOMAIN decisions
        BY <1>2, <1>3, <4>2, <1>1, <2>1, <3>3, <2>3, <3>0, <3>1 DEF ParentRecorded, Ranks
      <4>3. QED BY <4>1, <4>2
    <3>4. Ranks(more)'
      BY <3>1, <3>2, <3>3 DEF Ranks
    <3>5. QED BY <3>4
  <2>4. QED BY <2>2, <2>3
<1>9. /\ verifier' # "idle" /\ ~disturbed' => seenInputs' = inputEvidence'
      /\ verdict' = "refused" => disturbed'
  BY <1>1 DEF LedgerInv
<1>10. QED BY <1>4, <1>5, <1>6, <1>7, <1>8, <1>9 DEF LedgerInv

LEMMA LinkKeeps ==
  ASSUME LedgerInv, NEW id, NEW link, RecordLink(id, link)
  PROVE  LedgerInv'
BY DEF RecordLink, Added, LedgerInv, LinksSound, LinkAllowed, Ranks, InputsLinked, ParentsEarlier, Causal

\* What was recorded is what the verification finds, if nothing came between.
LEMMA LedgerVerifyKeeps ==
  ASSUME LedgerInv, VerifyInputs \/ VerifyDecisions \/ VerifyLinks
  PROVE  LedgerInv'
<1>1. UNCHANGED <<decisions, inputEvidence, decisionInputs, links>>
  BY DEF VerifyInputs, VerifyDecisions, VerifyLinks, Reads
<1>2. LinksSound' /\ InputsLinked' /\ ParentsEarlier'
  BY <1>1 DEF LedgerInv, LinksSound, InputsLinked, ParentsEarlier, Causal
<1>3. \E rank : Ranks(rank)'
  BY <1>1 DEF LedgerInv, Ranks
<1>4. /\ verifier' # "idle" /\ ~disturbed' => seenInputs' = inputEvidence'
      /\ verdict' = "refused" => disturbed'
  <2>1. CASE VerifyInputs
    BY <2>1 DEF VerifyInputs
  <2>2. CASE VerifyDecisions
    <3>1. ~disturbed => DecisionsSound
      <4> SUFFICES ASSUME ~disturbed PROVE DecisionsSound
        OBVIOUS
      <4>1. seenInputs = inputEvidence
        BY <2>2 DEF LedgerInv, VerifyDecisions
      <4>2. \A id \in DOMAIN decisions : LinksInputs(id)
        BY <4>1 DEF LedgerInv, InputsLinked, LinksInputs
      <4>3. \A id \in DOMAIN decisions : ChainEnds(id)
        BY ChainsEnd
      <4>4. QED BY <4>2, <4>3 DEF LedgerInv, DecisionsSound
    <3>2. /\ verdict' = (IF DecisionsSound THEN verdict ELSE "refused") /\ UNCHANGED <<seenInputs, disturbed>>
          /\ verifier = "inputs"
      BY <2>2 DEF VerifyDecisions, Reads
    <3>3. QED BY <1>1, <3>1, <3>2 DEF LedgerInv
  <2>3. CASE VerifyLinks
    BY <2>3 DEF LedgerInv, VerifyLinks, Reads
  <2>4. QED BY <2>1, <2>2, <2>3
<1>5. QED BY <1>1, <1>2, <1>3, <1>4 DEF LedgerInv

LEMMA LedgerKeeps ==
  ASSUME LedgerInv, [LedgerNext]_ledgerVars
  PROVE  LedgerInv'
<1>1. CASE UNCHANGED ledgerVars
  BY <1>1 DEF ledgerVars, LedgerInv, Ranks, LinksSound, InputsLinked, ParentsEarlier, Causal
<1>2. QED BY <1>1, DecisionKeeps, LinkKeeps, LedgerVerifyKeeps DEF LedgerNext

LEMMA LedgerHolds == ServicesSpec => [](Examined("ledger") => LedgerInv)
<1>1. ServicesInit => (Examined("ledger") => LedgerInv)
  BY LedgerBegins DEF ServicesInit
<1>2. (Examined("ledger") => LedgerInv) /\ [ServicesNext]_servicesVars => (Examined("ledger") => LedgerInv)'
  BY LedgerSteps, LedgerKeeps
<1>3. QED BY <1>1, <1>2, PTL DEF ServicesSpec

LEMMA LedgerIsSound == LedgerInv => RefusedOnlyWhenDisturbed
BY DEF LedgerInv, RefusedOnlyWhenDisturbed

\* No recording rewrites an earlier one, whatever its id repeats or amends.
THEOREM LedgerOnlyGrows == ServicesSpec => NothingIsRewritten
<1> DEFINE Stays ==
      /\ \A id \in DOMAIN decisions : id \in DOMAIN decisions' /\ decisions'[id] = decisions[id]
      /\ \A id \in DOMAIN links : id \in DOMAIN links' /\ links'[id] = links[id]
<1>1. ASSUME [LedgerNext]_ledgerVars PROVE [Stays]_ledgerVars
  <2>1. CASE UNCHANGED ledgerVars
    BY <2>1
  <2>2. ASSUME NEW id, NEW when, NEW result, NEW amends, NEW inputs, RecordDecision(id, when, result, amends, inputs)
        PROVE  Stays
    BY <2>2 DEF RecordDecision, SameBody, Added
  <2>3. ASSUME NEW id, NEW link, RecordLink(id, link) PROVE Stays
    BY <2>3 DEF RecordLink, LinkAllowed, Added
  <2>4. CASE VerifyInputs \/ VerifyDecisions \/ VerifyLinks
    BY <2>4 DEF VerifyInputs, VerifyDecisions, VerifyLinks, Reads
  <2> HIDE DEF Stays
  <2>5. QED BY <1>1, <2>1, <2>2, <2>3, <2>4 DEF LedgerNext
<1>2. [ServicesNext]_servicesVars => [LedgerNext]_ledgerVars
  BY DEF ServicesNext, servicesVars, Steps, ledgerVars
<1>3. [ServicesNext]_servicesVars => [Stays]_ledgerVars
  BY <1>1, <1>2
<1>4. QED BY <1>3, PTL DEF ServicesSpec, NothingIsRewritten

-----------------------------------------------------------------------------
(* The operational trial.  A poll that extends a streak found, for every    *)
(* source, a heartbeat no older than its limit and no further from the      *)
(* newest one stored than that: what lies between two polls is covered by   *)
(* one of the two.                                                          *)

TrialShape ==
    /\ wall \in 1..MaxTime /\ observer \in {"stopped", "idle", "reading"}
    /\ begun \in Nat /\ (observer = "reading" => trialMeta.last <= begun)
    /\ trialMeta = [started |-> trialMeta.started, last |-> trialMeta.last, streak |-> trialMeta.streak]
    /\ trialMeta.last \in Nat /\ trialMeta.streak \in Nat /\ trialMeta.streak <= trialMeta.last
    /\ trialMeta.last # 0 => trialMeta.last \in polls
    /\ polls \subseteq Nat
    /\ \A s \in Sources : files[s].beat \in Nat
    /\ DOMAIN read \subseteq Sources /\ \A s \in DOMAIN read : read[s].beat \in Nat
    /\ \A s \in Sources : beats[s] \subseteq 1..trialMeta.last
    /\ \A g \in gaps : "ended" \in DOMAIN g /\ g.ended \in 0..trialMeta.last

TrialInv == TrialShape /\ StreakIsCovered /\ GapsExplainInterruptions

LEMMA TrialSteps ==
  ASSUME [ServicesNext]_servicesVars, Examined("trial")'
  PROVE  Examined("trial") /\ [TrialNext]_trialVars
BY DEF ServicesNext, servicesVars, Steps, Examined, Components, trialVars

LEMMA TrialBegins == TrialInit => TrialInv
<1> SUFFICES ASSUME TrialInit PROVE TrialInv
  OBVIOUS
<1>1. trialMeta.started = 0 /\ trialMeta.last = 0 /\ trialMeta.streak = 0
  BY DEF TrialInit, NoMeta
<1>2. TrialShape
  BY TrialAssumption, <1>1 DEF TrialInit, Absent, NoMeta, TrialShape
<1>3. QED BY <1>1, <1>2 DEF TrialInv, StreakIsCovered, GapsExplainInterruptions

\* What is stored is disturbed by a committed poll alone.
LEMMA StoredStays ==
  ASSUME TrialInv, UNCHANGED <<trialMeta, beats, gaps, polls>>, TrialShape'
  PROVE  TrialInv'
BY DEF TrialInv, StreakIsCovered, GapsExplainInterruptions

LEMMA TrialWorldKeeps ==
  ASSUME TrialInv,
         \/ \E s \in Sources, good \in BOOLEAN : \E beat \in 1..(MaxTime + 1) : SourceWrites(s, beat, good)
         \/ \E d \in {-1, 1, 2} : TimePasses(d)
  PROVE  TrialInv'
<1>1. UNCHANGED <<observer, begun, read, trialMeta, beats, gaps, polls>>
  BY DEF SourceWrites, TimePasses
<1>2. CASE \E s \in Sources, good \in BOOLEAN : \E beat \in 1..(MaxTime + 1) : SourceWrites(s, beat, good)
  <2>1. PICK s \in Sources, good \in BOOLEAN, beat \in 1..(MaxTime + 1) :
          files' = [files EXCEPT ![s] = [beat |-> beat, good |-> good]] /\ wall' = wall
    BY <1>2 DEF SourceWrites
  <2>2. beat \in Nat /\ \A x \in Sources : files[x].beat \in Nat
    BY TrialAssumption DEF TrialInv, TrialShape
  <2> DEFINE file == [beat |-> beat, good |-> good]
  <2>3. file.beat \in Nat
    BY <2>2
  <2> HIDE DEF file
  <2>4. \A x \in Sources : files'[x] \in {file, files[x]}
    BY <2>1 DEF file
  <2>5. \A x \in Sources : files'[x].beat \in Nat
    BY <2>2, <2>3, <2>4
  <2>6. TrialShape'
    BY <1>1, <2>1, <2>5 DEF TrialInv, TrialShape
  <2>7. QED BY <1>1, <2>6, StoredStays
<1>3. CASE \E d \in {-1, 1, 2} : TimePasses(d)
  BY <1>3, <1>1, StoredStays DEF TimePasses, TrialInv, TrialShape
<1>4. QED BY <1>2, <1>3

LEMMA ObserverKeeps ==
  ASSUME TrialInv, ObserverStarts \/ ObserverEnds \/ PollBegins
  PROVE  TrialInv'
<1>1. UNCHANGED <<wall, files, trialMeta, beats, gaps, polls>>
  BY DEF ObserverStarts, ObserverEnds, PollBegins
<1>2. /\ observer' \in {"stopped", "idle", "reading"} /\ begun' \in Nat
      /\ observer' = "reading" => trialMeta.last <= begun'
      /\ DOMAIN read' \subseteq DOMAIN read /\ \A s \in DOMAIN read' : read'[s] = read[s]
  <2>1. CASE ObserverStarts
    BY <2>1 DEF ObserverStarts, TrialInv, TrialShape
  <2>2. CASE ObserverEnds
    BY <2>2 DEF ObserverEnds, TrialInv, TrialShape
  <2>3. CASE PollBegins /\ ~ObserverEnds
    BY <2>3 DEF PollBegins, TrialInv, TrialShape
  <2>4. QED BY <2>1, <2>2, <2>3
<1>3. TrialShape'
  BY <1>1, <1>2 DEF TrialInv, TrialShape
<1>4. QED BY <1>1, <1>3, StoredStays

LEMMA ReadKeeps ==
  ASSUME TrialInv, NEW s \in Sources, NEW torn \in BOOLEAN, ReadSource(s, torn)
  PROVE  TrialInv'
<1> DEFINE found == [files[s] EXCEPT !.good = @ /\ ~torn]
<1>1. /\ read' = [x \in DOMAIN read \cup {s} |-> IF x = s THEN found ELSE read[x]]
      /\ UNCHANGED <<wall, files, observer, begun, trialMeta, beats, gaps, polls>>
  BY DEF ReadSource
<1>2. found.beat = files[s].beat /\ files[s].beat \in Nat
  BY DEF TrialInv, TrialShape
<1> HIDE DEF found
<1>3. DOMAIN read' \subseteq Sources /\ \A x \in DOMAIN read' : read'[x].beat \in Nat
  BY <1>1, <1>2 DEF TrialInv, TrialShape
<1>4. TrialShape'
  BY <1>1, <1>3 DEF TrialInv, TrialShape
<1>5. QED BY <1>1, <1>4, StoredStays

\* A streak that goes on is covered from its last poll to this one.
LEMMA StreakGrows ==
  ASSUME TrialInv, PollCommits, wall \notin polls
  PROVE  StreakIsCovered'
<1>1. /\ observer = "reading" /\ DOMAIN read = Sources /\ wall >= begun
      /\ polls' = polls \cup {wall} /\ trialMeta'.last = wall /\ trialMeta'.streak = StreakAfter
      /\ beats' = [s \in Sources |-> IF Stored(s) THEN beats[s] \cup {read[s].beat} ELSE beats[s]]
  BY DEF PollCommits
<1>2. /\ trialMeta.last \in Nat /\ trialMeta.last <= wall /\ wall \in 1..MaxTime /\ MaxTime \in Nat
      /\ trialMeta.streak \in Nat /\ trialMeta.streak <= trialMeta.last
      /\ \A s \in Sources : AgeLimits[s] \in Nat /\ read[s].beat \in Nat /\ beats[s] \subseteq 1..trialMeta.last
  BY <1>1, TrialAssumption DEF TrialInv, TrialShape, Sources
<1> SUFFICES ASSUME StreakAfter # 0, NEW t \in StreakAfter..wall
             PROVE  /\ \A s \in Sources : \E h \in beats'[s] : h <= t /\ t - h <= AgeLimits[s]
                    /\ \E q \in polls' : q <= t /\ (q = t \/ t - q < PollGap)
  BY <1>1 DEF StreakIsCovered
<1>3. Failures = {} /\ StreakAfter = IF trialMeta.streak = 0 THEN wall ELSE trialMeta.streak
  BY DEF StreakAfter
<1>4. ~CollectorGap /\ \A s \in Sources : Healthy(s)
  BY <1>3 DEF Failures
<1>5. t \in Nat /\ t <= wall /\ StreakAfter <= t
  BY <1>2, <1>3
<1>6. CASE t = wall
  <2>1. ASSUME NEW s \in Sources PROVE \E h \in beats'[s] : h <= t /\ t - h <= AgeLimits[s]
    BY <1>4, <1>1, <1>6 DEF Healthy, Dated, Stored
  <2>2. QED BY <1>1, <1>6, <2>1
<1>7. CASE t # wall
  <2>1. trialMeta.streak # 0 /\ trialMeta.streak <= t /\ t < wall
    BY <1>2, <1>3, <1>5, <1>7
  <2>2. trialMeta.last # 0 /\ trialMeta.last \in polls /\ wall - trialMeta.last <= PollGap
    BY <1>2, <1>4, <2>1, TrialAssumption DEF CollectorGap, TrialInv, TrialShape
  <2>3. CASE t <= trialMeta.last
    BY <1>2, <1>5, <2>1, <2>3, <1>1 DEF TrialInv, StreakIsCovered
  <2>4. CASE t > trialMeta.last
    <3>1. \E q \in polls' : q <= t /\ t - q < PollGap
      BY <1>1, <1>2, <1>5, <2>1, <2>2, <2>4, TrialAssumption
    <3>2. ASSUME NEW s \in Sources PROVE \E h \in beats'[s] : h <= t /\ t - h <= AgeLimits[s]
      <4>1. /\ Stored(s) /\ wall - read[s].beat <= AgeLimits[s] /\ read[s].beat <= wall
            /\ ~BeatGap(s)
        BY <1>4 DEF Healthy, Dated, Stored
      <4>2. read[s].beat \in beats'[s] /\ beats[s] \subseteq beats'[s]
        BY <1>1, <4>1
      <4>3. CASE read[s].beat <= t
        BY <1>2, <1>5, <4>1, <4>2, <4>3
      <4>4. CASE read[s].beat > t
        BY <1>2, <2>1, LargestNat, <4>1, <1>5, <2>4, <4>4, <4>2 DEF TrialInv, StreakIsCovered, BeatGap
      <4>5. QED BY <1>2, <1>5, <4>3, <4>4
    <3>3. QED BY <3>1, <3>2
  <2>5. QED BY <1>2, <1>5, <2>3, <2>4
<1>8. QED BY <1>6, <1>7

\* A failing source leaves an open gap, and a clean poll closes all of them.
LEMMA GapsFollow ==
  ASSUME TrialInv, PollCommits, wall \notin polls
  PROVE  GapsExplainInterruptions' /\ \A g \in gaps' : "ended" \in DOMAIN g /\ g.ended \in 0..wall
<1> DEFINE isOpen(x) == \E g \in gaps : g.source = x /\ g.ended = 0
           closed == {IF g.ended = 0 /\ g.source \notin Failures THEN [g EXCEPT !.ended = wall] ELSE g : g \in gaps}
           begins(x) == [source |-> x, ended |-> 0,
                         since |-> IF x = "collector" /\ trialMeta.last # 0 THEN trialMeta.last ELSE wall]
<1>1. /\ trialMeta'.last = wall /\ trialMeta'.streak = StreakAfter /\ wall >= begun /\ observer = "reading"
      /\ gaps' = closed \cup {begins(x) : x \in {x \in Failures : ~isOpen(x)}}
  BY DEF PollCommits, Gaps
<1>2. /\ trialMeta.last \in Nat /\ trialMeta.last <= wall /\ wall \in Nat /\ wall # 0
      /\ trialMeta.streak \in Nat /\ trialMeta.streak <= trialMeta.last
      /\ \A g \in gaps : "ended" \in DOMAIN g /\ g.ended \in 0..trialMeta.last
  BY <1>1, TrialAssumption DEF TrialInv, TrialShape
<1>3. ASSUME NEW g \in gaps
      PROVE  "ended" \in DOMAIN [g EXCEPT !.ended = wall] /\ [g EXCEPT !.ended = wall].ended = wall
  BY <1>2
<1>4. \A x : begins(x).ended = 0 /\ begins(x).source = x /\ "ended" \in DOMAIN begins(x)
  OBVIOUS
<1> HIDE DEF begins
<1>5. ASSUME NEW h \in gaps'
      PROVE  /\ "ended" \in DOMAIN h /\ h.ended \in 0..wall
             /\ Failures = {} => \E g \in gaps : h = IF g.ended = 0 THEN [g EXCEPT !.ended = wall] ELSE g
  <2>1. CASE h \in closed
    <3>1. PICK g \in gaps : h = IF g.ended = 0 /\ g.source \notin Failures THEN [g EXCEPT !.ended = wall] ELSE g
      BY <2>1
    <3>2. /\ "ended" \in DOMAIN g /\ g.ended \in 0..wall
          /\ "ended" \in DOMAIN [g EXCEPT !.ended = wall] /\ [g EXCEPT !.ended = wall].ended = wall
      BY <1>2, <1>3
    <3>3. QED BY <1>2, <3>1, <3>2
  <2>2. CASE h \notin closed
    BY <1>1, <1>2, <1>4, <1>5, <2>2
  <2>3. QED BY <2>1, <2>2
<1>6. CASE Failures = {}
  <2>1. StreakAfter = (IF trialMeta.streak = 0 THEN wall ELSE trialMeta.streak) /\ StreakAfter # 0
    BY <1>2, <1>6 DEF StreakAfter
  <2>2. ASSUME NEW h \in gaps' PROVE h.ended # 0 /\ h.ended <= StreakAfter
    <3>1. PICK g \in gaps : h = IF g.ended = 0 THEN [g EXCEPT !.ended = wall] ELSE g
      BY <1>5, <1>6
    <3>2. CASE trialMeta.streak = 0
      BY <1>3, <3>1, <1>2, <1>5, <2>1, <3>2
    <3>3. CASE trialMeta.streak # 0
      BY <3>3, <2>1, <3>1 DEF TrialInv, GapsExplainInterruptions
    <3>4. QED BY <3>2, <3>3
  <2>3. QED BY <1>1, <1>5, <2>1, <2>2 DEF GapsExplainInterruptions
<1>7. CASE Failures # {}
  <2>1. StreakAfter = 0
    BY <1>7 DEF StreakAfter
  <2>2. PICK x \in Failures : TRUE
    BY <1>7
  <2>3. \E g \in gaps' : g.ended = 0
    <3>1. CASE isOpen(x)
      BY <1>1, <2>2, <3>1
    <3>2. CASE ~isOpen(x)
      BY <1>1, <1>4, <2>2, <3>2
    <3>3. QED BY <3>1, <3>2
  <2>4. QED BY <1>1, <1>5, <2>1, <2>3 DEF GapsExplainInterruptions
<1>8. QED BY <1>6, <1>7

LEMMA PollKeeps ==
  ASSUME TrialInv, PollCommits
  PROVE  TrialInv'
<1>1. /\ observer' = "idle" /\ read' = <<>> /\ begun' = 0 /\ UNCHANGED <<wall, files>>
      /\ wall >= begun /\ observer = "reading" /\ DOMAIN read = Sources
  BY DEF PollCommits
<1>2. CASE wall \in polls
  BY <1>2, <1>1, StoredStays DEF PollCommits, TrialInv, TrialShape
<1>3. CASE wall \notin polls
  <2>1. /\ polls' = polls \cup {wall}
        /\ trialMeta' = [started |-> IF trialMeta.started = 0 THEN wall ELSE trialMeta.started,
                         last |-> wall, streak |-> StreakAfter]
        /\ beats' = [s \in Sources |-> IF Stored(s) THEN beats[s] \cup {read[s].beat} ELSE beats[s]]
    BY <1>3 DEF PollCommits
  <2>2. /\ trialMeta'.last = wall /\ trialMeta'.streak = StreakAfter
        /\ trialMeta' = [started |-> trialMeta'.started, last |-> trialMeta'.last, streak |-> trialMeta'.streak]
    BY <2>1
  <2>3. /\ wall \in Nat /\ wall <= MaxTime /\ wall # 0 /\ trialMeta.last \in Nat /\ trialMeta.last <= wall
        /\ trialMeta.streak \in Nat /\ trialMeta.streak <= trialMeta.last
    BY <1>1, TrialAssumption DEF TrialInv, TrialShape
  <2>4. StreakAfter \in Nat /\ StreakAfter <= wall
    BY <2>3 DEF StreakAfter
  <2>5. \A s \in Sources : beats'[s] \subseteq 1..wall
    <3> SUFFICES ASSUME NEW s \in Sources PROVE beats'[s] \subseteq 1..wall
      OBVIOUS
    <3>1. beats[s] \subseteq 1..wall /\ read[s].beat \in Nat
      BY <1>1, <2>3 DEF TrialInv, TrialShape
    <3>2. Stored(s) => read[s].beat \in 1..wall
      BY <2>3, <3>1 DEF Stored
    <3>3. QED BY <2>1, <3>1, <3>2
  <2>6. StreakIsCovered' /\ GapsExplainInterruptions' /\ \A g \in gaps' : "ended" \in DOMAIN g /\ g.ended \in 0..wall
    BY <1>3, StreakGrows, GapsFollow
  <2>7. polls' \subseteq Nat /\ wall \in polls'
    BY <2>1, <2>3 DEF TrialInv, TrialShape
  <2>8. TrialShape'
    BY <1>1, <2>2, <2>3, <2>4, <2>5, <2>6, <2>7 DEF TrialInv, TrialShape
  <2>9. QED BY <2>6, <2>8 DEF TrialInv
<1>4. QED BY <1>2, <1>3

LEMMA TrialKeeps ==
  ASSUME TrialInv, [TrialNext]_trialVars
  PROVE  TrialInv'
<1>1. CASE UNCHANGED trialVars
  BY <1>1, StoredStays DEF trialVars, TrialInv, TrialShape
<1>2. CASE \E s \in Sources, torn \in BOOLEAN : ReadSource(s, torn)
  BY <1>2, ReadKeeps
<1>3. CASE PollFails
  BY <1>3, ObserverKeeps DEF PollFails
<1>4. QED BY <1>1, <1>2, <1>3, TrialWorldKeeps, ObserverKeeps, PollKeeps DEF TrialNext

LEMMA TrialHolds == ServicesSpec => [](Examined("trial") => TrialInv)
<1>1. ServicesInit => (Examined("trial") => TrialInv)
  BY TrialBegins DEF ServicesInit
<1>2. (Examined("trial") => TrialInv) /\ [ServicesNext]_servicesVars => (Examined("trial") => TrialInv)'
  BY TrialSteps, TrialKeeps
<1>3. QED BY <1>1, <1>2, PTL DEF ServicesSpec

LEMMA TrialIsSound == TrialInv => TrialIsHonest
BY DEF TrialInv, TrialIsHonest

-----------------------------------------------------------------------------
(* Exact accounting.  A report that was reconciled added up the rows of the *)
(* sources it lists; the sum of what came from outside and of what did not  *)
(* is the sum of all cash.                                                  *)

InternalOf(r) == CashOf(r) - ExternalOf(r)

LEMMA CashSums ==
  ASSUME NEW rows, IsFiniteSet(rows)
  PROVE  MapThenSumSet(CashOf, rows) = SetSum([r \in rows |-> CashOf(r)], rows)
<1> DEFINE f == [r \in rows |-> CashOf(r)]
<1>1. ASSUME NEW F
      PROVE  (F = [s \in SUBSET rows |-> IF s = {} THEN 0 ELSE CashOf(CHOOSE x \in s : TRUE) + F[s \ {CHOOSE x \in s : TRUE}]])
         <=> (F = [s \in SUBSET rows |-> IF s = {} THEN 0 ELSE f[Pick(s)] + F[s \ {Pick(s)}]])
  <2>1. \A s \in SUBSET rows : s # {} => f[Pick(s)] = CashOf(CHOOSE x \in s : TRUE)
    BY DEF Pick
  <2> HIDE DEF f
  <2>2. QED BY <2>1 DEF Pick
<1> HIDE DEF f
<1>2. (CHOOSE F : F = [s \in SUBSET rows |-> IF s = {} THEN 0 ELSE CashOf(CHOOSE x \in s : TRUE) + F[s \ {CHOOSE x \in s : TRUE}]])
   = SetSums(f, rows)
  BY <1>1 DEF SetSums
<1>3. QED BY <1>2 DEF MapThenSumSet, MapThenFoldSet, SetSum, f

LEMMA ExternalSums ==
  ASSUME NEW rows, IsFiniteSet(rows)
  PROVE  MapThenSumSet(ExternalOf, rows) = SetSum([r \in rows |-> ExternalOf(r)], rows)
<1> DEFINE f == [r \in rows |-> ExternalOf(r)]
<1>1. ASSUME NEW F
      PROVE  (F = [s \in SUBSET rows |-> IF s = {} THEN 0 ELSE ExternalOf(CHOOSE x \in s : TRUE) + F[s \ {CHOOSE x \in s : TRUE}]])
         <=> (F = [s \in SUBSET rows |-> IF s = {} THEN 0 ELSE f[Pick(s)] + F[s \ {Pick(s)}]])
  <2>1. \A s \in SUBSET rows : s # {} => f[Pick(s)] = ExternalOf(CHOOSE x \in s : TRUE)
    BY DEF Pick
  <2> HIDE DEF f
  <2>2. QED BY <2>1 DEF Pick
<1> HIDE DEF f
<1>2. (CHOOSE F : F = [s \in SUBSET rows |-> IF s = {} THEN 0 ELSE ExternalOf(CHOOSE x \in s : TRUE) + F[s \ {CHOOSE x \in s : TRUE}]])
   = SetSums(f, rows)
  BY <1>1 DEF SetSums
<1>3. QED BY <1>2 DEF MapThenSumSet, MapThenFoldSet, SetSum, f

LEMMA InternalSums ==
  ASSUME NEW rows, IsFiniteSet(rows)
  PROVE  MapThenSumSet(LAMBDA r : CashOf(r) - ExternalOf(r), rows) = SetSum([r \in rows |-> InternalOf(r)], rows)
<1> DEFINE f == [r \in rows |-> InternalOf(r)]
           g(r) == CashOf(r) - ExternalOf(r)
<1>1. ASSUME NEW F
      PROVE  (F = [s \in SUBSET rows |-> IF s = {} THEN 0 ELSE g(CHOOSE x \in s : TRUE) + F[s \ {CHOOSE x \in s : TRUE}]])
         <=> (F = [s \in SUBSET rows |-> IF s = {} THEN 0 ELSE f[Pick(s)] + F[s \ {Pick(s)}]])
  <2>1. \A s \in SUBSET rows : s # {} => f[Pick(s)] = g(CHOOSE x \in s : TRUE)
    BY DEF Pick, InternalOf
  <2> HIDE DEF f, g
  <2>2. QED BY <2>1 DEF Pick
<1> HIDE DEF f, g
<1>2. (CHOOSE F : F = [s \in SUBSET rows |-> IF s = {} THEN 0 ELSE g(CHOOSE x \in s : TRUE) + F[s \ {CHOOSE x \in s : TRUE}]])
   = SetSums(f, rows)
  BY <1>1 DEF SetSums
<1>3. QED BY <1>2 DEF MapThenSumSet, MapThenFoldSet, SetSum, f, g

Amounts(r) == {r.qty, r.price, r.fee, r.cash} \subseteq Int

LEMMA AmountsAreInt ==
  ASSUME NEW r, Amounts(r)
  PROVE  CashOf(r) \in Int /\ ExternalOf(r) \in Int /\ InternalOf(r) \in Int
<1>1. r.qty \in Int /\ r.price \in Int /\ r.fee \in Int /\ r.cash \in Int
  BY DEF Amounts
<1>2. Quantity(r) \in Int
  BY <1>1 DEF Quantity
<1>3. CashOf(r) \in Int
  BY <1>1, <1>2 DEF CashOf
<1>4. ExternalOf(r) \in Int
  BY <1>1 DEF ExternalOf
<1>5. QED BY <1>3, <1>4 DEF InternalOf

\* Cash is what came from outside and what did not.
LEMMA CashSplits ==
  ASSUME NEW rows, IsFiniteSet(rows), \A r \in rows : Amounts(r)
  PROVE  /\ MapThenSumSet(CashOf, rows) \in Int
         /\ MapThenSumSet(CashOf, rows)
              = MapThenSumSet(ExternalOf, rows) + MapThenSumSet(LAMBDA r : CashOf(r) - ExternalOf(r), rows)
<1> DEFINE c == [r \in rows |-> CashOf(r)]
           e == [r \in rows |-> ExternalOf(r)]
           i == [r \in rows |-> InternalOf(r)]
<1>1. \A r \in rows : CashOf(r) \in Int /\ ExternalOf(r) \in Int /\ InternalOf(r) \in Int
  BY AmountsAreInt
<1>2. \A r \in rows : CashOf(r) = ExternalOf(r) + InternalOf(r)
  BY <1>1 DEF InternalOf
<1>3. \A r \in rows : c[r] \in Int /\ e[r] \in Int /\ i[r] \in Int /\ c[r] = e[r] + i[r]
  BY <1>1, <1>2
<1> HIDE DEF c, e, i
<1>4. SetSum(c, rows) = SetSum(e, rows) + SetSum(i, rows)
  BY <1>3, SetSumAdds
<1>5. SetSum(c, rows) \in Int
  BY <1>3, SetSumOrder
<1>6. QED BY <1>4, <1>5, CashSums, ExternalSums, InternalSums DEF c, e, i

RowsOf(sources) == UNION {SourceRows[s] : s \in sources}

ReportHolds(p) ==
    reader[p] = "idle" /\ report[p].status = "reconciled" /\ importedAll[p] =>
        LET rows == RowsOf(report[p].sources)
        IN  /\ context # {} /\ report[p].sources \subseteq imports
            /\ ExpectedCash(rows) = TheContext.ending.cash /\ ExpectedQuantity(rows) = TheContext.ending.qty
            /\ TheContext.complete

AccountingInv ==
    /\ \A c \in context : c \in Contexts /\ context = {c}
    /\ imports \subseteq DOMAIN SourceRows
    /\ IsFiniteSet(booked) /\ \A r \in booked : Amounts(r)
    /\ BookedOnce
    /\ DOMAIN report = Readers /\ DOMAIN reader = Readers
    /\ \A p \in Readers :
         /\ reader[p] # "idle" => context # {}
         /\ reader[p] = "events" /\ importedAll[p] => report[p].events = booked
         /\ report[p] = [status |-> report[p].status, sources |-> report[p].sources, events |-> report[p].events]
         /\ ReportHolds(p)

LEMMA AccountingSteps ==
  ASSUME [ServicesNext]_servicesVars, Examined("accounting")'
  PROVE  Examined("accounting") /\ [AccountingNext]_accountingVars
BY DEF ServicesNext, servicesVars, Steps, Examined, Components, accountingVars

LEMMA AccountingBegins == AccountingInit => AccountingInv
<1> SUFFICES ASSUME AccountingInit PROVE AccountingInv
  OBVIOUS
<1>1. IsFiniteSet(booked) /\ context = {} /\ booked = {} /\ imports = {}
  BY FS_EmptySet DEF AccountingInit
<1>2. ASSUME NEW p \in Readers
      PROVE  /\ reader[p] = "idle" /\ report[p] = [status |-> "none", sources |-> {}, events |-> {}]
  BY DEF AccountingInit, NoReport
<1>3. BookedOnce
  BY <1>1 DEF BookedOnce
<1>4. DOMAIN report = Readers /\ DOMAIN reader = Readers
  BY DEF AccountingInit
<1>5. QED BY <1>1, <1>2, <1>3, <1>4 DEF AccountingInv, ReportHolds

\* The file of an import brings rows that are new or known already.
LEMMA ImportKeeps ==
  ASSUME AccountingInv, NEW p \in Readers, NEW source \in DOMAIN SourceRows, NEW c \in Contexts, Import(p, source, c)
  PROVE  AccountingInv'
<1> DEFINE rows == SourceRows[source]
<1>1. /\ reader[p] = "idle" /\ context \subseteq {c} /\ ~Conflicts(rows)
      /\ context' = {c} /\ booked' = booked \cup rows /\ imports' = imports \cup {source}
      /\ reader' = [reader EXCEPT ![p] = "context"]
      /\ importedAll' = [q \in Readers |-> q = p \/ (importedAll[q] /\ reader[q] # "events")]
      /\ UNCHANGED report
  BY DEF Import
<1>2. /\ IsFiniteSet(booked') /\ \A r \in booked' : Amounts(r)
  BY AccountingAssumption, FS_Union, <1>1 DEF Amounts, AccountingInv
<1>3. BookedOnce'
  <2>1. ASSUME NEW a \in booked', NEW b \in booked', a.id = b.id PROVE a = b
    BY <1>1, <2>1 DEF Conflicts, AccountingInv, BookedOnce
  <2>2. booked' = UNION {SourceRows[s] : s \in imports'}
    BY <1>1 DEF AccountingInv, BookedOnce
  <2>3. QED BY <2>1, <2>2 DEF BookedOnce
<1>4. /\ \A d \in context' : d \in Contexts /\ context' = {d}
      /\ imports' \subseteq DOMAIN SourceRows
      /\ context # {} => context' = context
  BY <1>1 DEF AccountingInv
<1>5. ASSUME NEW q \in Readers
      PROVE  /\ reader'[q] # "idle" => context' # {}
             /\ reader'[q] = "events" /\ importedAll'[q] => report'[q].events = booked'
             /\ report'[q] = [status |-> report'[q].status, sources |-> report'[q].sources, events |-> report'[q].events]
             /\ ReportHolds(q)'
  <2>1. /\ reader'[q] = (IF q = p THEN "context" ELSE reader[q])
        /\ importedAll'[q] = (q = p \/ (importedAll[q] /\ reader[q] # "events"))
    BY <1>1 DEF AccountingInv
  <2>2. ReportHolds(q)'
    <3> SUFFICES ASSUME reader'[q] = "idle", report'[q].status = "reconciled", importedAll'[q]
                 PROVE  ReportHolds(q)'
      BY DEF ReportHolds
    <3>1. q # p /\ reader[q] = "idle" /\ report[q].status = "reconciled" /\ importedAll[q] /\ ReportHolds(q)
      BY <1>1, <2>1 DEF AccountingInv
    <3>2. context # {} /\ context' = context
      BY <1>4, <3>1 DEF ReportHolds
    <3>3. QED BY <1>1, <3>1, <3>2 DEF ReportHolds, RowsOf, TheContext, ExpectedCash, ExpectedQuantity
  <2>3. QED BY <1>1, <2>1, <2>2 DEF AccountingInv
<1>6. DOMAIN report' = Readers /\ DOMAIN reader' = Readers
  BY <1>1 DEF AccountingInv
<1>7. QED BY <1>2, <1>3, <1>4, <1>5, <1>6 DEF AccountingInv

\* Reading changes what the reader knows, and nothing that is recorded.
LEMMA ReaderKeeps ==
  ASSUME AccountingInv, NEW p \in Readers, UNCHANGED <<context, booked, imports>>,
         DOMAIN report' = Readers, DOMAIN reader' = Readers,
         \A q \in Readers : q # p => /\ reader'[q] = reader[q] /\ report'[q] = report[q]
                                     /\ importedAll'[q] = importedAll[q],
         reader'[p] # "idle" => context # {},
         reader'[p] = "events" /\ importedAll'[p] => report'[p].events = booked,
         report'[p] = [status |-> report'[p].status, sources |-> report'[p].sources, events |-> report'[p].events],
         ReportHolds(p)'
  PROVE  AccountingInv'
<1>1. BookedOnce'
  BY DEF AccountingInv, BookedOnce
<1>2. ASSUME NEW q \in Readers, q # p PROVE ReportHolds(q)'
  BY <1>2 DEF AccountingInv, ReportHolds, RowsOf, TheContext, ExpectedCash, ExpectedQuantity
<1>3. QED BY <1>1, <1>2 DEF AccountingInv

LEMMA BeginKeeps ==
  ASSUME AccountingInv, NEW p \in Readers, BeginReconcile(p)
  PROVE  AccountingInv'
<1>1. /\ context # {} /\ reader' = [reader EXCEPT ![p] = "context"]
      /\ importedAll' = [importedAll EXCEPT ![p] = TRUE] /\ UNCHANGED <<context, booked, imports, report>>
  BY DEF BeginReconcile
<1>2. /\ reader'[p] = "context" /\ DOMAIN reader' = Readers
      /\ \A q \in Readers : q # p => reader'[q] = reader[q] /\ importedAll'[q] = importedAll[q]
  BY <1>1 DEF AccountingInv
<1>3. ReportHolds(p)'
  BY <1>2 DEF ReportHolds
<1>4. DOMAIN report' = Readers /\ report'[p] = [status |-> report'[p].status, sources |-> report'[p].sources, events |-> report'[p].events]
  BY <1>1 DEF AccountingInv
<1>5. QED BY <1>1, <1>2, <1>3, <1>4, ReaderKeeps

LEMMA EventsKeep ==
  ASSUME AccountingInv, NEW p \in Readers, ReadEvents(p)
  PROVE  AccountingInv'
<1> DEFINE found == [NoReport EXCEPT !.events = booked]
<1>1. /\ reader[p] = "context" /\ reader' = [reader EXCEPT ![p] = "events"] /\ report' = [report EXCEPT ![p] = found]
      /\ importedAll' = [importedAll EXCEPT ![p] = TRUE] /\ UNCHANGED <<context, booked, imports>>
  BY DEF ReadEvents
<1>2. found = [status |-> found.status, sources |-> found.sources, events |-> found.events] /\ found.events = booked
  BY DEF NoReport
<1> HIDE DEF found
<1>3. /\ reader'[p] = "events" /\ report'[p] = found /\ DOMAIN reader' = Readers /\ DOMAIN report' = Readers
      /\ \A q \in Readers : q # p => reader'[q] = reader[q] /\ report'[q] = report[q] /\ importedAll'[q] = importedAll[q]
  BY <1>1 DEF AccountingInv
<1>4. ReportHolds(p)' /\ context # {}
  BY <1>1, <1>3 DEF ReportHolds, AccountingInv
<1>5. QED BY <1>1, <1>2, <1>3, <1>4, ReaderKeeps

\* The rows it added up are those of the imports it lists.
LEMMA ImportsKeep ==
  ASSUME AccountingInv, NEW p \in Readers, ReadImports(p)
  PROVE  AccountingInv'
<1> DEFINE settled == Status(report[p].events, imports)
<1>1. /\ reader[p] = "events" /\ reader' = [reader EXCEPT ![p] = "idle"]
      /\ report' = [report EXCEPT ![p].status = settled, ![p].sources = imports]
      /\ UNCHANGED <<context, booked, imports, importedAll>>
  BY DEF ReadImports
<1>2. /\ DOMAIN report = Readers /\ DOMAIN reader = Readers /\ context # {}
      /\ report[p] = [status |-> report[p].status, sources |-> report[p].sources, events |-> report[p].events]
      /\ importedAll[p] => report[p].events = booked
  BY <1>1 DEF AccountingInv
<1>3. /\ reader'[p] = "idle" /\ DOMAIN reader' = Readers /\ DOMAIN report' = Readers
      /\ \A q \in Readers : q # p => reader'[q] = reader[q] /\ report'[q] = report[q] /\ importedAll'[q] = importedAll[q]
  BY <1>1, <1>2
<1>4. report'[p] = [status |-> settled, sources |-> imports, events |-> report[p].events]
  <2> HIDE DEF settled
  <2>1. report'[p] = [[report[p] EXCEPT !.status = settled] EXCEPT !.sources = imports]
    BY <1>1, <1>2
  <2>2. QED BY <1>2, <2>1
<1>5. ReportHolds(p)'
  <2> HIDE DEF settled
  <2>1. ASSUME settled = "reconciled", importedAll[p]
        PROVE  /\ ExpectedCash(RowsOf(imports)) = TheContext.ending.cash
               /\ ExpectedQuantity(RowsOf(imports)) = TheContext.ending.qty
               /\ TheContext.complete
    BY <1>2, <2>1 DEF AccountingInv, BookedOnce, RowsOf, Status, Missing, settled
  <2>2. report'[p].status = settled /\ report'[p].sources = imports
    BY <1>4
  <2>3. UNCHANGED <<context, imports, importedAll>> /\ context # {}
    BY <1>1, <1>2
  <2>4. QED BY <2>1, <2>2, <2>3 DEF ReportHolds, RowsOf, TheContext, ExpectedCash, ExpectedQuantity
<1> HIDE DEF settled
<1>6. QED BY <1>1, <1>2, <1>3, <1>4, <1>5, ReaderKeeps

LEMMA AccountingKeeps ==
  ASSUME AccountingInv, [AccountingNext]_accountingVars
  PROVE  AccountingInv'
<1>1. CASE UNCHANGED accountingVars
  <2>1. UNCHANGED <<context, booked, imports, reader, report, importedAll>>
    BY <1>1 DEF accountingVars
  <2>2. \A p \in Readers : ReportHolds(p)'
    BY <2>1 DEF AccountingInv, ReportHolds, RowsOf, TheContext, ExpectedCash, ExpectedQuantity
  <2>3. BookedOnce'
    BY <2>1 DEF AccountingInv, BookedOnce
  <2>4. QED BY <2>1, <2>2, <2>3 DEF AccountingInv
<1>2. QED BY <1>1, ImportKeeps, BeginKeeps, EventsKeep, ImportsKeep DEF AccountingNext

LEMMA AccountingHolds == ServicesSpec => [](Examined("accounting") => AccountingInv)
<1>1. ServicesInit => (Examined("accounting") => AccountingInv)
  BY AccountingBegins DEF ServicesInit
<1>2. (Examined("accounting") => AccountingInv) /\ [ServicesNext]_servicesVars => (Examined("accounting") => AccountingInv)'
  BY AccountingSteps, AccountingKeeps
<1>3. QED BY <1>1, <1>2, PTL DEF ServicesSpec

LEMMA AccountingIsExact == AccountingInv => AccountingIsSound
<1> SUFFICES ASSUME AccountingInv, NEW p \in Readers,
                    reader[p] = "idle", report[p].status = "reconciled", importedAll[p]
             PROVE  /\ TheContext.ending.cash - TheContext.opening.cash
                         = MapThenSumSet(ExternalOf, RowsOf(report[p].sources))
                           + MapThenSumSet(LAMBDA r : CashOf(r) - ExternalOf(r), RowsOf(report[p].sources))
                    /\ TheContext.ending.qty = ExpectedQuantity(RowsOf(report[p].sources)) /\ TheContext.complete
                    /\ ~\E a, b \in RowsOf(report[p].sources) : a # b /\ a.id = b.id
  BY DEF AccountingIsSound, ReconciledBalances, AccountingInv, RowsOf
<1> DEFINE rows == RowsOf(report[p].sources)
           out == MapThenSumSet(ExternalOf, rows) + MapThenSumSet(LAMBDA r : CashOf(r) - ExternalOf(r), rows)
<1>1. /\ context # {} /\ report[p].sources \subseteq imports
      /\ ExpectedCash(rows) = TheContext.ending.cash /\ ExpectedQuantity(rows) = TheContext.ending.qty
      /\ TheContext.complete
  BY DEF AccountingInv, ReportHolds
<1>2. rows \subseteq booked
  BY <1>1 DEF AccountingInv, BookedOnce, RowsOf
<1>3. IsFiniteSet(rows) /\ \A r \in rows : Amounts(r)
  BY <1>2, FS_Subset DEF AccountingInv
<1> HIDE DEF rows
<1>4. MapThenSumSet(CashOf, rows) \in Int /\ MapThenSumSet(CashOf, rows) = out
  BY <1>3, CashSplits
<1> HIDE DEF out
<1>5. TheContext.opening.cash \in Int
  BY <1>1, AccountingAssumption DEF TheContext, AccountingInv
<1>6. TheContext.ending.cash - TheContext.opening.cash = out
  BY <1>1, <1>4, <1>5 DEF ExpectedCash
<1>7. ~\E a, b \in rows : a # b /\ a.id = b.id
  BY <1>2 DEF AccountingInv, BookedOnce
<1>8. QED BY <1>1, <1>6, <1>7 DEF rows, out

-----------------------------------------------------------------------------
(* Attribution.  A fold over a sequence of lots is the running sum of what  *)
(* each contributes, so it splits at either end of the sequence.  What is   *)
(* realized when a lot is matched is what is unrealized no longer.          *)

\* The fold that takes the largest index first adds up the same.
FoldsOver(it, f, S) == it = [s \in SUBSET S |-> IF s = {} THEN 0 ELSE it[s \ {Max(s)}] + f[Max(s)]]
FoldsTo(it, f, N) ==
    it = [s \in SUBSET (1..N) |-> IF s = {} THEN 0 ELSE it[s \ {Max(s)}] + f[Max(s)]]
FoldOf(f, N) == (CHOOSE it : FoldsTo(it, f, N))[1..N]

LEMMA AnyOrder ==
  ASSUME NEW S, IsFiniteSet(S), NEW f, \A y \in S : f[y] \in Int,
         \A s \in SUBSET S : s # {} => Max(s) \in s
  PROVE  FoldsOver(SetSums(f, S), f, S)
<1> DEFINE F == SetSums(f, S)
<1>1. IsSetSums(F, f, S)
  BY SetSumsAre
<1> HIDE DEF F
<1>2. \A s \in SUBSET S : \A x \in s : F[s] = f[x] + F[s \ {x}]
  <2>1. IsFiniteSet(S)
    OBVIOUS
  <2>2. \A y \in S : f[y] \in Int
    OBVIOUS
  <2> SUFFICES ASSUME NEW s \in SUBSET S, NEW x \in s PROVE F[s] = f[x] + F[s \ {x}]
    OBVIOUS
  <2>3. QED BY <1>1, <2>1, <2>2, SetSumsTake
<1>3. F \in [SUBSET S -> Int] /\ F[{}] = 0
  BY <1>1 DEF IsSetSums
<1>4. ASSUME NEW s \in SUBSET S, s # {} PROVE F[s] = F[s \ {Max(s)}] + f[Max(s)]
  BY <1>4, <1>2, <1>3
<1>5. F = [s \in SUBSET S |-> F[s]]
  BY <1>3
<1>6. ASSUME NEW s \in SUBSET S PROVE F[s] = IF s = {} THEN 0 ELSE F[s \ {Max(s)}] + f[Max(s)]
  <2>1. CASE s = {}
    BY <1>3, <2>1
  <2>2. CASE s # {}
    BY <1>4, <2>2
  <2>3. QED BY <2>1, <2>2
<1>7. F = [s \in SUBSET S |-> IF s = {} THEN 0 ELSE F[s \ {Max(s)}] + f[Max(s)]]
  BY <1>5, <1>6
<1>8. FoldsOver(F, f, S)
  BY <1>7 DEF FoldsOver
<1>9. QED BY <1>8 DEF F

LEMMA FoldIsSum ==
  ASSUME NEW N \in Nat, NEW f \in [1..N -> Int]
  PROVE  FoldOf(f, N) = Sums(f, N)[N]
<1> DEFINE S == 1..N
           F == SetSums(f, S)
           it == CHOOSE it : FoldsTo(it, f, N)
           P == Sums(f, N)
           T == {n \in Nat : n <= N => it[1..n] = P[n]}
<1>1. IsFiniteSet(S) /\ \A y \in S : f[y] \in Int
  BY FS_Interval
<1>2. ASSUME NEW s \in SUBSET (1..N), s # {} PROVE Max(s) \in s
  <2>1. s \subseteq 0..N
    OBVIOUS
  <2>2. QED BY <1>2, <2>1, LargestNat
<1>4. FoldsTo(F, f, N)
  <2>1. PICK R : R = 1..N
    OBVIOUS
  <2>2. IsFiniteSet(R)
    BY <1>1, <2>1
  <2>3. \A y \in R : f[y] \in Int
    BY <1>1, <2>1
  <2>4. \A s \in SUBSET R : s # {} => Max(s) \in s
    BY <1>2, <2>1
  <2>5. FoldsOver(SetSums(f, R), f, R)
    BY <2>2, <2>3, <2>4, AnyOrder
  <2>6. QED BY <2>1, <2>5 DEF FoldsTo, FoldsOver
<1> HIDE DEF F
<1>5. FoldsTo(it, f, N)
  BY <1>4
<1> HIDE DEF it
<1>6. IsSum(P, f, N)
  BY SumsAre
<1> HIDE DEF P
<1>7. 0 \in T
  BY <1>5, <1>6 DEF FoldsTo, IsSum
<1>8. ASSUME NEW n \in Nat, n \in T PROVE n + 1 \in T
  <2> SUFFICES ASSUME n + 1 <= N PROVE it[1..(n + 1)] = P[n + 1]
    OBVIOUS
  <2> DEFINE s == 1..(n + 1)
  <2>1. s \in SUBSET (1..N) /\ s # {} /\ s \subseteq 0..N /\ n + 1 \in s
    <3>1. \A x \in s : x \in 1..N /\ x \in 0..N
      OBVIOUS
    <3>2. n + 1 \in s
      OBVIOUS
    <3>3. QED BY <3>1, <3>2
  <2>2. Max(s) \in s /\ \A x \in s : x <= Max(s)
    BY <2>1, LargestNat
  <2>3. Max(s) = n + 1
    BY <2>1, <2>2
  <2>4. s \ {n + 1} = 1..n
    OBVIOUS
  <2>5. it[s] = it[s \ {Max(s)}] + f[Max(s)]
    <3> HIDE DEF s
    <3> QED BY <1>5, <2>1 DEF FoldsTo
  <2>6. it[s] = it[1..n] + f[n + 1]
    BY <2>3, <2>4, <2>5
  <2>7. n + 1 \in 1..N /\ (n + 1) - 1 = n
    OBVIOUS
  <2>8. P[n + 1] = P[n] + f[n + 1]
    BY <1>6, <2>7 DEF IsSum
  <2>9. QED BY <1>8, <2>6, <2>8
<1> HIDE DEF T
<1>9. N \in T
  BY <1>7, <1>8, SetInduction
<1>10. it[1..N] = P[N]
  BY <1>9 DEF T
<1>11. QED BY <1>10 DEF FoldOf, it, P

LotQty(ls) == [i \in 1..Len(ls) |-> ls[i].qty]
LotGain(ls, mark) == [i \in 1..Len(ls) |-> ls[i].qty * (mark - ls[i].price) - ls[i].fee]

LEMMA QuantityIsSum ==
  ASSUME NEW ls \in Seq(Amount)
  PROVE  LotQty(ls) \in [1..Len(ls) -> Int] /\ QuantityOf(ls) = Sums(LotQty(ls), Len(ls))[Len(ls)]
<1> DEFINE N == Len(ls)
           f == LotQty(ls)
<1>1. N \in Nat /\ DOMAIN ls = 1..N /\ \A i \in 1..N : ls[i] \in Amount
  OBVIOUS
<1>2. f \in [1..N -> Int] /\ \A i \in 1..N : f[i] = ls[i].qty
  BY <1>1 DEF LotQty, Amount
<1> HIDE DEF f
<1>3. ASSUME NEW it
      PROVE  FoldsTo(it, f, N)
         <=> (it = [s \in SUBSET (1..N) |-> IF s = {} THEN 0 ELSE it[s \ {Max(s)}] + ls[Max(s)].qty])
  <2>1. ASSUME NEW s \in SUBSET (1..N), s # {} PROVE f[Max(s)] = ls[Max(s)].qty
    <3>1. s \subseteq 0..N
      OBVIOUS
    <3>2. Max(s) \in s
      BY <1>1, <2>1, <3>1, LargestNat
    <3>3. QED BY <1>2, <3>2
  <2>2. QED BY <2>1 DEF FoldsTo
<1>4. FoldOf(f, N) = QuantityOf(ls)
  <2>1. (CHOOSE it : FoldsTo(it, f, N))
      = (CHOOSE it : it = [s \in SUBSET (1..N) |-> IF s = {} THEN 0 ELSE it[s \ {Max(s)}] + ls[Max(s)].qty])
    BY <1>3
  <2> HIDE DEF N
  <2>2. QED BY <1>1, <2>1 DEF FoldOf, QuantityOf, FoldLeft, MapThenFoldSet
<1>5. QED BY <1>1, <1>2, <1>4, FoldIsSum DEF f

LEMMA UnrealizedIsSum ==
  ASSUME NEW ls \in Seq(Amount), NEW mark \in Int
  PROVE  LotGain(ls, mark) \in [1..Len(ls) -> Int] /\ Unrealized(ls, mark) = Sums(LotGain(ls, mark), Len(ls))[Len(ls)]
<1> DEFINE N == Len(ls)
           f == LotGain(ls, mark)
           g(l) == l.qty * (mark - l.price) - l.fee
<1>1. N \in Nat /\ DOMAIN ls = 1..N /\ \A i \in 1..N : ls[i] \in Amount
  OBVIOUS
<1>2. f \in [1..N -> Int] /\ \A i \in 1..N : f[i] = g(ls[i])
  BY <1>1 DEF Amount, LotGain
<1> HIDE DEF f, g
<1>3. ASSUME NEW it
      PROVE  FoldsTo(it, f, N)
         <=> (it = [s \in SUBSET (1..N) |-> IF s = {} THEN 0 ELSE it[s \ {Max(s)}] + g(ls[Max(s)])])
  <2>1. ASSUME NEW s \in SUBSET (1..N), s # {} PROVE f[Max(s)] = g(ls[Max(s)])
    <3>1. s \subseteq 0..N
      OBVIOUS
    <3>2. Max(s) \in s
      BY <1>1, <2>1, <3>1, LargestNat
    <3>3. QED BY <1>2, <3>2
  <2>2. QED BY <2>1 DEF FoldsTo
<1>4. FoldOf(f, N) = Unrealized(ls, mark)
  <2>1. (CHOOSE it : FoldsTo(it, f, N))
      = (CHOOSE it : it = [s \in SUBSET (1..N) |-> IF s = {} THEN 0 ELSE it[s \ {Max(s)}] + g(ls[Max(s)])])
    BY <1>3
  <2> HIDE DEF N
  <2>2. QED BY <1>1, <2>1 DEF FoldOf, Unrealized, FoldLeft, MapThenFoldSet, g
<1>5. QED BY <1>1, <1>2, <1>4, FoldIsSum DEF f

\* A sequence of lots splits at its front and at its end.
LEMMA LotsSplit ==
  ASSUME NEW ls \in Seq(Amount), NEW x \in Amount, NEW mark \in Int
  PROVE  /\ QuantityOf(ls) \in Int /\ Unrealized(ls, mark) \in Int
         /\ QuantityOf(<<>>) = 0 /\ Unrealized(<<>>, mark) = 0
         /\ QuantityOf(Append(ls, x)) = QuantityOf(ls) + x.qty
         /\ Unrealized(Append(ls, x), mark) = Unrealized(ls, mark) + (x.qty * (mark - x.price) - x.fee)
         /\ QuantityOf(<<x>> \o ls) = x.qty + QuantityOf(ls)
         /\ Unrealized(<<x>> \o ls, mark) = (x.qty * (mark - x.price) - x.fee) + Unrealized(ls, mark)
<1> DEFINE N == Len(ls)
           q == LotQty(ls)
           g == LotGain(ls, mark)
           mine == x.qty * (mark - x.price) - x.fee
           longer == Append(ls, x)
           behind == <<x>> \o ls
<1>1. N \in Nat /\ \A i \in 1..N : ls[i] \in Amount
  OBVIOUS
<1>2. /\ longer \in Seq(Amount) /\ Len(longer) = N + 1 /\ longer[N + 1] = x
      /\ \A i \in 1..N : longer[i] = ls[i]
  OBVIOUS
<1>3. /\ behind \in Seq(Amount) /\ Len(behind) = N + 1 /\ behind[1] = x
      /\ \A i \in 1..N : behind[i + 1] = ls[i]
  OBVIOUS
<1> HIDE DEF longer, behind
<1>4. /\ q \in [1..N -> Int] /\ QuantityOf(ls) = Sums(q, N)[N]
      /\ g \in [1..N -> Int] /\ Unrealized(ls, mark) = Sums(g, N)[N]
  BY QuantityIsSum, UnrealizedIsSum
<1>5. /\ \A i \in 1..N : q[i] = ls[i].qty /\ g[i] = ls[i].qty * (mark - ls[i].price) - ls[i].fee
  BY DEF LotQty, LotGain
<1>6. Sums(q, N)[N] \in Int /\ Sums(g, N)[N] \in Int
  <2>1. IsSum(Sums(q, N), q, N) /\ IsSum(Sums(g, N), g, N)
    BY <1>1, <1>4, SumsAre
  <2>2. N \in 0..N
    BY <1>1
  <2>3. QED BY <2>1, <2>2 DEF IsSum
<1> HIDE DEF q, g, N
<1>7. /\ LotQty(longer) \in [1..(N + 1) -> Int] /\ QuantityOf(longer) = Sums(LotQty(longer), N + 1)[N + 1]
      /\ LotGain(longer, mark) \in [1..(N + 1) -> Int]
      /\ Unrealized(longer, mark) = Sums(LotGain(longer, mark), N + 1)[N + 1]
  BY <1>2, QuantityIsSum, UnrealizedIsSum
<1>8. /\ LotQty(behind) \in [1..(N + 1) -> Int] /\ QuantityOf(behind) = Sums(LotQty(behind), N + 1)[N + 1]
      /\ LotGain(behind, mark) \in [1..(N + 1) -> Int]
      /\ Unrealized(behind, mark) = Sums(LotGain(behind, mark), N + 1)[N + 1]
  BY <1>3, QuantityIsSum, UnrealizedIsSum
<1>9. /\ \A i \in 1..N : LotQty(longer)[i] = q[i] /\ LotGain(longer, mark)[i] = g[i]
      /\ LotQty(longer)[N + 1] = x.qty /\ LotGain(longer, mark)[N + 1] = mine
  BY <1>1, <1>2, <1>5 DEF LotQty, LotGain
<1>10. /\ \A i \in 1..N : LotQty(behind)[i + 1] = q[i] /\ LotGain(behind, mark)[i + 1] = g[i]
       /\ LotQty(behind)[1] = x.qty /\ LotGain(behind, mark)[1] = mine
  BY <1>1, <1>3, <1>5 DEF LotQty, LotGain
<1> HIDE DEF mine
<1>11. /\ QuantityOf(longer) = QuantityOf(ls) + x.qty
       /\ Unrealized(longer, mark) = Unrealized(ls, mark) + mine
  <2> DEFINE f1 == LotQty(longer)
             f2 == LotGain(longer, mark)
  <2> HIDE DEF f1, f2
  <2>1. /\ f1 \in [1..(N + 1) -> Int] /\ \A i \in 1..N : f1[i] = q[i]
        /\ f2 \in [1..(N + 1) -> Int] /\ \A i \in 1..N : f2[i] = g[i]
    BY <1>7, <1>9 DEF f1, f2
  <2>2. Sums(f1, N + 1)[N + 1] = Sums(q, N)[N] + f1[N + 1]
    BY <1>1, <1>4, <2>1, SumsExtend
  <2>3. Sums(f2, N + 1)[N + 1] = Sums(g, N)[N] + f2[N + 1]
    BY <1>1, <1>4, <2>1, SumsExtend
  <2>4. QED BY <1>4, <1>7, <1>9, <2>2, <2>3 DEF f1, f2
<1>12. /\ QuantityOf(behind) = x.qty + QuantityOf(ls)
       /\ Unrealized(behind, mark) = mine + Unrealized(ls, mark)
  <2> DEFINE f1 == LotQty(behind)
             f2 == LotGain(behind, mark)
  <2> HIDE DEF f1, f2
  <2>1. /\ f1 \in [1..(N + 1) -> Int] /\ \A i \in 1..N : f1[i + 1] = q[i]
        /\ f2 \in [1..(N + 1) -> Int] /\ \A i \in 1..N : f2[i + 1] = g[i]
    BY <1>8, <1>10 DEF f1, f2
  <2>2. Sums(f1, N + 1)[N + 1] = f1[1] + Sums(q, N)[N]
    BY <1>1, <1>4, <2>1, SumsShift
  <2>3. Sums(f2, N + 1)[N + 1] = f2[1] + Sums(g, N)[N]
    BY <1>1, <1>4, <2>1, SumsShift
  <2>4. QED BY <1>4, <1>8, <1>10, <2>2, <2>3 DEF f1, f2
<1>13. QuantityOf(<<>>) = 0 /\ Unrealized(<<>>, mark) = 0
  <2>1. <<>> \in Seq(Amount) /\ Len(<<>>) = 0
    OBVIOUS
  <2>2. /\ LotQty(<<>>) \in [1..0 -> Int] /\ QuantityOf(<<>>) = Sums(LotQty(<<>>), 0)[0]
        /\ LotGain(<<>>, mark) \in [1..0 -> Int] /\ Unrealized(<<>>, mark) = Sums(LotGain(<<>>, mark), 0)[0]
    BY <2>1, QuantityIsSum, UnrealizedIsSum
  <2>3. IsSum(Sums(LotQty(<<>>), 0), LotQty(<<>>), 0) /\ IsSum(Sums(LotGain(<<>>, mark), 0), LotGain(<<>>, mark), 0)
    BY <2>2, SumsAre
  <2>4. QED BY <2>2, <2>3 DEF IsSum
<1>14. QED BY <1>4, <1>6, <1>11, <1>12, <1>13 DEF longer, behind, mine

\* Marking the same lots at another price gains the difference on each share.
LEMMA MarksDiffer ==
  ASSUME NEW ls \in Seq(Amount), NEW mark \in Int, NEW other \in Int
  PROVE  Unrealized(ls, mark) = Unrealized(ls, other) + (mark - other) * QuantityOf(ls)
<1> DEFINE N == Len(ls)
           q == LotQty(ls)
           f == LotGain(ls, mark)
           g == LotGain(ls, other)
           d == mark - other
<1>1. N \in Nat /\ d \in Int /\ \A i \in 1..N : ls[i] \in Amount
  OBVIOUS
<1>2. /\ q \in [1..N -> Int] /\ QuantityOf(ls) = Sums(q, N)[N]
      /\ f \in [1..N -> Int] /\ Unrealized(ls, mark) = Sums(f, N)[N]
      /\ g \in [1..N -> Int] /\ Unrealized(ls, other) = Sums(g, N)[N]
  BY QuantityIsSum, UnrealizedIsSum
<1>3. ASSUME NEW i \in 1..N PROVE f[i] = g[i] + d * q[i]
  <2> DEFINE l == ls[i]
  <2>1. l.qty \in Int /\ l.price \in Int /\ l.fee \in Int
    BY <1>1 DEF Amount
  <2>2. f[i] = l.qty * (mark - l.price) - l.fee /\ g[i] = l.qty * (other - l.price) - l.fee /\ q[i] = l.qty
    BY DEF LotQty, LotGain
  <2> HIDE DEF l, f, g, q
  <2>3. l.qty * (mark - l.price) = l.qty * (other - l.price) + (mark - other) * l.qty
    BY <2>1
  <2> DEFINE u == l.qty * (mark - l.price)
             v == l.qty * (other - l.price)
             w == (mark - other) * l.qty
  <2>4. u \in Int /\ v \in Int /\ w \in Int
    BY <2>1
  <2>5. f[i] = u - l.fee /\ g[i] = v - l.fee /\ d * q[i] = w /\ u = v + w
    BY <2>2, <2>3
  <2> HIDE DEF u, v, w
  <2>6. QED BY <2>1, <2>4, <2>5
<1> HIDE DEF f, g, q, d, N
<1>4. Sums(f, N)[N] = Sums(g, N)[N] + d * Sums(q, N)[N]
  BY <1>1, <1>2, <1>3, SumsScale
<1>5. QED BY <1>2, <1>4 DEF d

\* What a match takes from the lot and from the fill is what it realizes.
LEMMA MatchIsNeutral ==
  ASSUME NEW q \in Int, NEW lp \in Int, NEW fq \in Int, NEW fp \in Int, NEW m \in Int, NEW s \in Int
  PROVE  s * (fp - lp) + (q - s) * (m - lp) + (fq + s) * (m - fp) = q * (m - lp) + fq * (m - fp)
<1>1. (q - s) * (m - lp) = q * (m - lp) - s * (m - lp)
  OBVIOUS
<1>2. (fq + s) * (m - fp) = fq * (m - fp) + s * (m - fp)
  OBVIOUS
<1>3. s * (fp - lp) = s * (m - lp) - s * (m - fp)
  OBVIOUS
<1> DEFINE a == q * (m - lp)
           b == s * (m - lp)
           c == fq * (m - fp)
           d == s * (m - fp)
<1>4. a \in Int /\ b \in Int /\ c \in Int /\ d \in Int
  OBVIOUS
<1>5. /\ s * (fp - lp) = b - d /\ (q - s) * (m - lp) = a - b /\ (fq + s) * (m - fp) = c + d
  BY <1>1, <1>2, <1>3
<1> HIDE DEF a, b, c, d
<1>6. (b - d) + (a - b) + (c + d) = a + c
  BY <1>4
<1>7. QED BY <1>5, <1>6 DEF a, c

\* The parts of a lot and of a fill that meet: they have opposite signs, and at
\* least one of them is used up, with all of its fee.
LEMMA PartsMeet ==
  ASSUME NEW q \in Int, NEW fq \in Int, fq * q < 0, NEW oldFee \in Int, NEW newFee \in Int
  PROVE  LET sign == Sign(q)
             closed == IF Size(fq) < Size(q) THEN Size(fq) ELSE Size(q)
             oldPart == Allocated(oldFee, closed, Size(q))
             newPart == Allocated(newFee, closed, Size(fq))
         IN  /\ sign * closed \in Int /\ oldPart \in Int /\ newPart \in Int
             /\ q - sign * closed = 0 => oldPart = oldFee
             /\ fq + sign * closed = 0 => newPart = newFee
             /\ q > 0 => q - sign * closed >= 0
             /\ q < 0 => q - sign * closed <= 0
             /\ q # 0
<1> DEFINE closed == IF Size(fq) < Size(q) THEN Size(fq) ELSE Size(q)
           oldPart == Allocated(oldFee, closed, Size(q))
           newPart == Allocated(newFee, closed, Size(fq))
<1>1. (q > 0 /\ fq < 0) \/ (q < 0 /\ fq > 0)
  OBVIOUS
<1>2. /\ Size(q) \in Nat \ {0} /\ Size(fq) \in Nat \ {0} /\ closed \in Nat \ {0}
      /\ closed <= Size(q) /\ closed <= Size(fq)
  BY <1>1 DEF Size
<1>3. Sign(q) * closed = IF q > 0 THEN closed ELSE -closed
  <2> HIDE DEF closed
  <2>1. CASE q > 0
    BY <2>1, <1>2 DEF Sign
  <2>2. CASE q < 0
    BY <2>2, <1>2 DEF Sign
  <2>3. QED BY <1>1, <2>1, <2>2
<1>4. /\ Size(q) = (IF q > 0 THEN q ELSE -q) /\ Size(fq) = (IF q > 0 THEN -fq ELSE fq)
  BY <1>1 DEF Size
<1> HIDE DEF closed
<1>5. /\ oldPart \in Int /\ newPart \in Int
      /\ closed = Size(q) => oldPart = oldFee
      /\ closed = Size(fq) => newPart = newFee
  <2>1. ASSUME NEW total \in Int, NEW available \in Nat \ {0}
        PROVE  Allocated(total, closed, available) \in Int
    BY <1>2 DEF Allocated
  <2>2. QED BY <1>2, <2>1 DEF Allocated
<1> HIDE DEF oldPart, newPart
<1>6. /\ q - Sign(q) * closed = 0 => closed = Size(q)
      /\ fq + Sign(q) * closed = 0 => closed = Size(fq)
      /\ q > 0 => q - Sign(q) * closed >= 0
      /\ q < 0 => q - Sign(q) * closed <= 0
      /\ Sign(q) * closed \in Int /\ q # 0
  BY <1>1, <1>2, <1>3, <1>4
<1>7. QED BY <1>5, <1>6 DEF closed, oldPart, newPart

FifoShape ==
    /\ opened \in Seq(Amount) /\ lots \in Seq(Amount) /\ fill \in Amount
    /\ fill.qty = 0 => fill = NoFill
    /\ {position, cashChange, external, income, accountFees, realized, realizedFees} \subseteq Int
    /\ events \in Nat
    /\ events = 0 => lots = <<>> /\ opened = <<>> /\ fill = NoFill /\ position = 0

OneDirection(ls) == (\A i \in 1..Len(ls) : ls[i].qty > 0) \/ (\A i \in 1..Len(ls) : ls[i].qty < 0)

\* Profit so far, with the fill that is being matched counted at the mark.
Balanced ==
    /\ position = QuantityOf(lots) + fill.qty
    /\ realized - realizedFees + Unrealized(lots, TerminalMark) - Unrealized(opened, OpeningMark)
         + income - accountFees + (fill.qty * (TerminalMark - fill.price) - fill.fee)
       = cashChange + position * TerminalMark - QuantityOf(opened) * OpeningMark - external

FifoInv == FifoShape /\ OneDirection(lots) /\ Balanced

LEMMA FifoSteps ==
  ASSUME [ServicesNext]_servicesVars, Examined("fifo")'
  PROVE  Examined("fifo") /\ [FifoNext]_fifoVars
BY DEF ServicesNext, servicesVars, Steps, Examined, Components, fifoVars

\* Quantities and gains of the present lots are integers.
LEMMA SumsAreInt ==
  ASSUME FifoShape
  PROVE  /\ QuantityOf(lots) \in Int /\ Unrealized(lots, TerminalMark) \in Int
         /\ QuantityOf(opened) \in Int /\ Unrealized(opened, OpeningMark) \in Int
         /\ Unrealized(opened, TerminalMark) \in Int
         /\ fill.qty \in Int /\ fill.price \in Int /\ fill.fee \in Int
<1>1. TerminalMark \in Int /\ OpeningMark \in Int /\ [qty |-> 0, price |-> 0, fee |-> 0] \in Amount
  BY FifoAssumption DEF Amount
<1>2. QED BY <1>1, LotsSplit DEF FifoShape, Amount

LEMMA FifoBegins == FifoInit => FifoInv
<1> SUFFICES ASSUME FifoInit PROVE FifoInv
  OBVIOUS
<1>1. TerminalMark \in Int /\ OpeningMark \in Int /\ NoFill \in Amount /\ <<>> \in Seq(Amount)
  BY FifoAssumption DEF Amount, NoFill
<1>2. QuantityOf(<<>>) = 0 /\ Unrealized(<<>>, TerminalMark) = 0 /\ Unrealized(<<>>, OpeningMark) = 0
  BY <1>1, LotsSplit
<1>3. NoFill.qty = 0 /\ NoFill.price = 0 /\ NoFill.fee = 0
  BY DEF NoFill
<1>4. FifoShape
  BY <1>1 DEF FifoInit, FifoShape
<1>5. OneDirection(lots)
  BY DEF FifoInit, OneDirection
<1>6. Balanced
  BY <1>1, <1>2, <1>3 DEF FifoInit, Balanced
<1>7. QED BY <1>4, <1>5, <1>6 DEF FifoInv

LEMMA OpenWindowKeeps ==
  ASSUME FifoInv, NEW ls \in OpeningLots, OpenWindow(ls)
  PROVE  FifoInv'
<1>1. /\ events = 0 /\ events' = 1 /\ opened' = ls /\ lots' = ls /\ position' = QuantityOf(ls)
      /\ UNCHANGED <<fill, cashChange, external, income, accountFees, realized, realizedFees>>
  BY DEF OpenWindow
<1>2. /\ ls \in Seq(Amount) /\ TerminalMark \in Int /\ OpeningMark \in Int /\ NoFill \in Amount
  BY FifoAssumption DEF NoFill, Amount
<1>3. /\ lots = <<>> /\ opened = <<>> /\ fill = NoFill /\ position = 0
      /\ NoFill.qty = 0 /\ NoFill.price = 0 /\ NoFill.fee = 0
  BY <1>1 DEF FifoInv, FifoShape, NoFill
<1>4. /\ QuantityOf(<<>>) = 0 /\ Unrealized(<<>>, TerminalMark) = 0 /\ Unrealized(<<>>, OpeningMark) = 0
      /\ QuantityOf(ls) \in Int /\ Unrealized(ls, TerminalMark) \in Int /\ Unrealized(ls, OpeningMark) \in Int
  BY <1>2, LotsSplit
<1>5. Unrealized(ls, TerminalMark) = Unrealized(ls, OpeningMark) + (TerminalMark - OpeningMark) * QuantityOf(ls)
  BY <1>2, MarksDiffer
<1>6. FifoShape'
  BY <1>1, <1>2, <1>4 DEF FifoInv, FifoShape
<1>7. OneDirection(lots)'
  <2>1. DOMAIN ls = 1..Len(ls) /\ \A i \in 1..Len(ls) : ls[i].qty \in Int
    <3>1. DOMAIN ls = 1..Len(ls) /\ \A i \in 1..Len(ls) : ls[i] \in Amount
      BY <1>2
    <3>2. QED BY <3>1 DEF Amount
  <2>2. \A i, j \in 1..Len(ls) : ls[i].qty * ls[j].qty > 0
    BY <2>1, FifoAssumption
  <2>3. ASSUME NEW i \in 1..Len(ls), NEW j \in 1..Len(ls)
        PROVE  ls[i].qty # 0 /\ (ls[i].qty > 0 => ls[j].qty > 0) /\ (ls[i].qty < 0 => ls[j].qty < 0)
    <3> DEFINE a == ls[i].qty
               b == ls[j].qty
    <3>1. a \in Int /\ b \in Int /\ a * b > 0
      BY <2>1, <2>2
    <3> HIDE DEF a, b
    <3>2. a # 0 /\ b # 0
      BY <3>1
    <3>3. (a > 0 /\ b < 0 => a * b < 0) /\ (a < 0 /\ b > 0 => a * b < 0)
      BY <3>1
    <3>4. QED BY <3>1, <3>2, <3>3 DEF a, b
  <2>4. CASE Len(ls) = 0
    BY <1>1, <2>4 DEF OneDirection
  <2>5. CASE Len(ls) # 0
    BY <1>2, <2>1, <2>5, <1>1, <2>3 DEF OneDirection
  <2>6. QED BY <2>4, <2>5
<1>8. Balanced'
  <2> DEFINE Q == QuantityOf(ls)
             UT == Unrealized(ls, TerminalMark)
             UO == Unrealized(ls, OpeningMark)
             qt == Q * TerminalMark
             qo == Q * OpeningMark
  <2>1. Q \in Int /\ UT \in Int /\ UO \in Int /\ qt \in Int /\ qo \in Int
    BY <1>2, <1>4
  <2>2. UT = UO + (qt - qo)
    BY <1>2, <2>1, <1>5
  <2>3. {cashChange, external, income, accountFees, realized, realizedFees} \subseteq Int
    BY DEF FifoInv, FifoShape
  <2>4. realized - realizedFees + income - accountFees = cashChange - external
    BY <1>2, <1>3, <1>4, <2>3 DEF FifoInv, Balanced
  <2> HIDE DEF Q, UT, UO, qt, qo
  <2>5. realized - realizedFees + UT - UO + income - accountFees + 0 = cashChange + qt - qo - external
    BY <2>1, <2>2, <2>3, <2>4
  <2>6. fill.qty * (TerminalMark - fill.price) - fill.fee = 0
    BY <1>2, <1>3
  <2>7. /\ position' = QuantityOf(lots') + fill'.qty
        /\ realized' - realizedFees' + Unrealized(lots', TerminalMark) - Unrealized(opened', OpeningMark)
             + income' - accountFees' + (fill'.qty * (TerminalMark - fill'.price) - fill'.fee)
           = cashChange' + position' * TerminalMark - QuantityOf(opened') * OpeningMark - external'
    BY <1>1, <1>3, <1>4, <2>5, <2>6 DEF Q, UT, UO, qt, qo
  <2>8. QED BY <2>7 DEF Balanced
<1>9. QED BY <1>6, <1>7, <1>8 DEF FifoInv

\* The running figures, one by one.
Figures ==
    /\ position \in Int /\ cashChange \in Int /\ external \in Int /\ income \in Int /\ accountFees \in Int
    /\ realized \in Int /\ realizedFees \in Int
LEMMA FiguresAre == FifoShape => Figures
BY DEF FifoShape, Figures

LEMMA ActivityKeeps ==
  ASSUME FifoInv, NEW a \in Activities, Activity(a)
  PROVE  FifoInv'
<1>1. /\ fill = NoFill /\ events \in Nat /\ events' = events + 1 /\ events \in 1..MaxEvents
      /\ cashChange' = cashChange + a.cash
      /\ external' = IF a.kind \in {"CSD", "CSW"} THEN external + a.cash ELSE external
      /\ income' = IF a.kind \in {"DIV", "INT"} THEN income + a.cash ELSE income
      /\ accountFees' = IF a.kind = "FEE" THEN accountFees - a.cash ELSE accountFees
      /\ UNCHANGED <<opened, lots, fill, position, realized, realizedFees>>
  BY DEF Activity, FifoInv, FifoShape
<1>2. a.kind \in {"CSD", "CSW", "DIV", "INT", "FEE"} /\ a.cash \in Int
  BY FifoAssumption
<1>3. {position, cashChange, external, income, accountFees, realized, realizedFees} \subseteq Int
  BY DEF FifoInv, FifoShape
<1>4. FifoShape'
  <2>1. events' \in Nat /\ events' # 0
    BY <1>1
  <2>2. {position, cashChange, external, income, accountFees, realized, realizedFees}' \subseteq Int
    BY <1>1, <1>2, <1>3
  <2>3. QED BY <1>1, <2>1, <2>2 DEF FifoInv, FifoShape
<1>5. OneDirection(lots)'
  BY <1>1 DEF FifoInv, OneDirection
<1>6. /\ cashChange' \in Int /\ external' \in Int /\ income' \in Int /\ accountFees' \in Int /\ Figures
      /\ income' - accountFees' = income - accountFees + (cashChange' - external') - (cashChange - external)
  <2>1. Figures
    BY FiguresAre DEF FifoInv
  <2> DEFINE c == a.cash
  <2>2. /\ c \in Int /\ cashChange' = cashChange + c
        /\ external' = IF a.kind \in {"CSD", "CSW"} THEN external + c ELSE external
        /\ income' = IF a.kind \in {"DIV", "INT"} THEN income + c ELSE income
        /\ accountFees' = IF a.kind = "FEE" THEN accountFees - c ELSE accountFees
    BY <1>1, <1>2
  <2> HIDE DEF c
  <2>3. CASE a.kind \in {"CSD", "CSW"}
    BY <2>1, <2>2, <2>3 DEF Figures
  <2>4. CASE a.kind \in {"DIV", "INT"}
    BY <2>1, <2>2, <2>4 DEF Figures
  <2>5. CASE a.kind = "FEE"
    BY <2>1, <2>2, <2>5 DEF Figures
  <2>6. QED BY <1>2, <2>3, <2>4, <2>5
<1>7. Balanced'
  <2> DEFINE u == Unrealized(lots, TerminalMark)
             o == Unrealized(opened, OpeningMark)
             r == fill.qty * (TerminalMark - fill.price) - fill.fee
             p == position * TerminalMark
             h == QuantityOf(opened) * OpeningMark
  <2>1. u \in Int /\ o \in Int /\ r \in Int /\ p \in Int /\ h \in Int
    <3>1. /\ TerminalMark \in Int /\ OpeningMark \in Int /\ position \in Int
          /\ fill.qty \in Int /\ fill.price \in Int /\ fill.fee \in Int /\ u \in Int /\ o \in Int /\ QuantityOf(opened) \in Int
      BY <1>6, SumsAreInt, FifoAssumption DEF FifoInv, Figures
    <3> HIDE DEF u, o
    <3>2. r \in Int
      BY <3>1
    <3>3. p \in Int
      BY <3>1
    <3>4. h \in Int
      BY <3>1
    <3>5. QED BY <3>1, <3>2, <3>3, <3>4
  <2>2. realized - realizedFees + u - o + income - accountFees + r = cashChange + p - h - external
    BY DEF FifoInv, Balanced
  <2> HIDE DEF u, o, r, p, h
  <2>4. realized - realizedFees + u - o + income' - accountFees' + r = cashChange' + p - h - external'
    BY <1>6, <2>1, <2>2 DEF Figures
  <2>5. /\ position' = QuantityOf(lots') + fill'.qty
        /\ realized' - realizedFees' + Unrealized(lots', TerminalMark) - Unrealized(opened', OpeningMark)
             + income' - accountFees' + (fill'.qty * (TerminalMark - fill'.price) - fill'.fee)
           = cashChange' + position' * TerminalMark - QuantityOf(opened') * OpeningMark - external'
    BY <1>1, <2>4 DEF FifoInv, Balanced, u, o, r, p, h
  <2>6. QED BY <2>5 DEF Balanced
<1>8. QED BY <1>4, <1>5, <1>7 DEF FifoInv

LEMMA BeginFillKeeps ==
  ASSUME FifoInv, NEW f \in Fills, BeginFill(f)
  PROVE  FifoInv'
<1>1. /\ fill = NoFill /\ events' = events + 1 /\ events \in 1..MaxEvents
      /\ fill' = f /\ position' = position + f.qty /\ cashChange' = cashChange - f.qty * f.price - f.fee
      /\ UNCHANGED <<opened, lots, external, income, accountFees, realized, realizedFees>>
  BY DEF BeginFill
<1>2. /\ f \in Amount /\ f.qty \in Int /\ f.price \in Int /\ f.fee \in Int /\ f.qty # 0
      /\ TerminalMark \in Int /\ OpeningMark \in Int
  BY FifoAssumption DEF Amount
<1>3. {position, cashChange, external, income, accountFees, realized, realizedFees} \subseteq Int
  BY DEF FifoInv, FifoShape
<1> DEFINE cost == f.qty * f.price
           worth == f.qty * TerminalMark
           gain == f.qty * (TerminalMark - f.price)
<1>4. cost \in Int /\ worth \in Int /\ gain = worth - cost
  BY <1>2
<1>5. (position + f.qty) * TerminalMark = position * TerminalMark + worth /\ position * TerminalMark \in Int
  BY <1>2, <1>3
<1>6. FifoShape'
  <2>1. events' \in Nat /\ events' # 0
    BY <1>1
  <2> HIDE DEF cost
  <2>2. {position, cashChange, external, income, accountFees, realized, realizedFees}' \subseteq Int
    BY <1>1, <1>2, <1>3, <1>4 DEF cost
  <2>3. QED BY <1>1, <1>2, <2>1, <2>2 DEF FifoInv, FifoShape
<1>7. OneDirection(lots)'
  BY <1>1 DEF FifoInv, OneDirection
<1>8. Balanced'
  <2> DEFINE u == Unrealized(lots, TerminalMark)
             o == Unrealized(opened, OpeningMark)
             p == position * TerminalMark
             h == QuantityOf(opened) * OpeningMark
             q == QuantityOf(lots)
  <2>1. u \in Int /\ o \in Int /\ p \in Int /\ h \in Int /\ q \in Int
    BY <1>2, <1>3, SumsAreInt DEF FifoInv
  <2>2. fill.qty = 0 /\ fill.price = 0 /\ fill.fee = 0
    BY <1>1 DEF NoFill
  <2>3. fill.qty * (TerminalMark - fill.price) - fill.fee = 0
    BY <1>2, <2>2
  <2>4. realized - realizedFees + u - o + income - accountFees = cashChange + p - h - external /\ position = q
    <3> DEFINE r == fill.qty * (TerminalMark - fill.price) - fill.fee
    <3>1. realized - realizedFees + u - o + income - accountFees + r = cashChange + p - h - external /\ position = q + fill.qty
      BY DEF FifoInv, Balanced
    <3>2. r = 0
      BY <2>3
    <3> HIDE DEF r, u, o, p, h, q
    <3>3. QED BY <1>3, <2>1, <2>2, <3>1, <3>2
  <2>5. cashChange' = cashChange - cost - f.fee /\ position' * TerminalMark = p + worth
    BY <1>1, <1>5
  <2> HIDE DEF u, o, p, h, q, cost, worth, gain
  <2>6. realized - realizedFees + u - o + income - accountFees + (gain - f.fee) = cashChange' + (p + worth) - h - external
    BY <1>2, <1>3, <1>4, <2>1, <2>4, <2>5
  <2>7. /\ position' = QuantityOf(lots') + fill'.qty
        /\ realized' - realizedFees' + Unrealized(lots', TerminalMark) - Unrealized(opened', OpeningMark)
             + income' - accountFees' + (fill'.qty * (TerminalMark - fill'.price) - fill'.fee)
           = cashChange' + position' * TerminalMark - QuantityOf(opened') * OpeningMark - external'
    BY <1>1, <2>4, <2>5, <2>6 DEF q, u, o, h, gain
  <2>8. QED BY <2>7 DEF Balanced
<1>9. QED BY <1>6, <1>7, <1>8 DEF FifoInv

\* A fill that no lot opposes has the direction of the lots it joins.
LEMMA OpenLotKeeps ==
  ASSUME FifoInv, OpenLot
  PROVE  FifoInv'
<1>1. /\ fill.qty # 0 /\ ~Opposite /\ lots' = Append(lots, fill) /\ fill' = NoFill
      /\ UNCHANGED <<opened, events, position, cashChange, external, income, accountFees, realized, realizedFees>>
  BY DEF OpenLot
<1>2. /\ lots \in Seq(Amount) /\ fill \in Amount /\ NoFill \in Amount /\ TerminalMark \in Int
      /\ NoFill.qty = 0 /\ NoFill.price = 0 /\ NoFill.fee = 0 /\ fill.qty \in Int
  BY FifoAssumption DEF FifoInv, FifoShape, NoFill, Amount
<1>3. /\ lots' \in Seq(Amount) /\ Len(lots') = Len(lots) + 1 /\ Len(lots) \in Nat /\ lots'[Len(lots) + 1] = fill
      /\ \A i \in 1..Len(lots) : lots'[i] = lots[i]
  BY <1>1, <1>2
<1>4. events # 0
  BY <1>1, <1>2 DEF FifoInv, FifoShape
<1>5. FifoShape'
  BY <1>1, <1>2, <1>3, <1>4 DEF FifoInv, FifoShape
<1>6. OneDirection(lots)'
  <2>1. CASE Len(lots) = 0
    BY <1>1, <1>2, <1>3, <2>1 DEF OneDirection
  <2>2. CASE Len(lots) # 0
    <3> DEFINE h == lots[1].qty
               x == fill.qty
    <3>1. 1 \in 1..Len(lots) /\ Head(lots) = lots[1] /\ lots # <<>> /\ lots[1] \in Amount
      BY <1>2, <1>3, <2>2
    <3>2. h \in Int /\ x \in Int /\ x # 0 /\ ~(x * h < 0)
      BY <1>1, <1>2, <3>1 DEF Opposite, Amount
    <3> HIDE DEF h, x
    <3>3. (h > 0 => x > 0) /\ (h < 0 => x < 0)
      BY <3>2
    <3>4. QED BY <1>3, <3>1, <3>2, <3>3 DEF FifoInv, OneDirection, h, x
  <2>3. QED BY <2>1, <2>2
<1>7. Balanced'
  <2> DEFINE gain == fill.qty * (TerminalMark - fill.price) - fill.fee
  <2>1. gain \in Int /\ NoFill.qty * (TerminalMark - NoFill.price) - NoFill.fee = 0
    BY <1>2 DEF Amount
  <2>2. /\ QuantityOf(lots') = QuantityOf(lots) + fill.qty
        /\ Unrealized(lots', TerminalMark) = Unrealized(lots, TerminalMark) + gain
    BY <1>1, <1>2, LotsSplit
  <2> DEFINE u == Unrealized(lots, TerminalMark)
             o == Unrealized(opened, OpeningMark)
             rhs == cashChange + position * TerminalMark - QuantityOf(opened) * OpeningMark - external
  <2>3. u \in Int /\ o \in Int /\ QuantityOf(lots) \in Int
    BY SumsAreInt DEF FifoInv
  <2>4. {position, cashChange, external, income, accountFees, realized, realizedFees} \subseteq Int
    BY DEF FifoInv, FifoShape
  <2>5. realized - realizedFees + u - o + income - accountFees + gain = rhs /\ position = QuantityOf(lots) + fill.qty
    BY DEF FifoInv, Balanced
  <2> HIDE DEF u, o, rhs, gain
  <2>6. realized - realizedFees + (u + gain) - o + income - accountFees + 0 = rhs
    BY <2>1, <2>3, <2>4, <2>5
  <2>7. /\ position' = QuantityOf(lots') + fill'.qty
        /\ realized' - realizedFees' + Unrealized(lots', TerminalMark) - Unrealized(opened', OpeningMark)
             + income' - accountFees' + (fill'.qty * (TerminalMark - fill'.price) - fill'.fee)
           = cashChange' + position' * TerminalMark - QuantityOf(opened') * OpeningMark - external'
    BY <1>1, <1>2, <2>2, <2>3, <2>5, <2>1, <2>6 DEF u, o, rhs
  <2>8. QED BY <2>7 DEF Balanced
<1>8. QED BY <1>5, <1>6, <1>7 DEF FifoInv

LEMMA MatchLotKeeps ==
  ASSUME FifoInv, MatchLot
  PROVE  FifoInv'
<1> DEFINE lot == Head(lots)
           closed == IF Size(fill.qty) < Size(lot.qty) THEN Size(fill.qty) ELSE Size(lot.qty)
           part == Sign(lot.qty) * closed
           oldFee == Allocated(lot.fee, closed, Size(lot.qty))
           exitFee == Allocated(fill.fee, closed, Size(fill.qty))
           rest == [lot EXCEPT !.qty = @ - part, !.fee = @ - oldFee]
           left == [fill EXCEPT !.qty = @ + part, !.fee = @ - exitFee]
<1>1. /\ Opposite
      /\ realized' = realized + part * (fill.price - lot.price)
      /\ realizedFees' = realizedFees + oldFee + exitFee
      /\ lots' = IF rest.qty = 0 THEN Tail(lots) ELSE <<rest>> \o Tail(lots)
      /\ fill' = IF left.qty = 0 THEN [NoFill EXCEPT !.fee = left.fee] ELSE left
      /\ UNCHANGED <<opened, events, position, cashChange, external, income, accountFees>>
  BY DEF MatchLot
<1>2. /\ lots \in Seq(Amount) /\ lots # <<>> /\ lot \in Amount /\ Tail(lots) \in Seq(Amount)
      /\ lots = <<lot>> \o Tail(lots) /\ fill \in Amount /\ fill.qty * lot.qty < 0 /\ fill.qty # 0
      /\ lot = lots[1] /\ Len(Tail(lots)) = Len(lots) - 1 /\ Len(lots) \in Nat /\ Len(lots) # 0
      /\ \A i \in 1..(Len(lots) - 1) : Tail(lots)[i] = lots[i + 1]
  BY <1>1 DEF Opposite, FifoInv, FifoShape
<1>3. /\ lot.qty \in Int /\ lot.price \in Int /\ lot.fee \in Int
      /\ fill.qty \in Int /\ fill.price \in Int /\ fill.fee \in Int /\ TerminalMark \in Int
  BY <1>2, FifoAssumption DEF Amount
<1> HIDE DEF lot
<1>4. /\ part \in Int /\ oldFee \in Int /\ exitFee \in Int
      /\ lot.qty - part = 0 => oldFee = lot.fee
      /\ fill.qty + part = 0 => exitFee = fill.fee
      /\ lot.qty > 0 => lot.qty - part >= 0
      /\ lot.qty < 0 => lot.qty - part <= 0
      /\ lot.qty # 0
  BY <1>2, <1>3, PartsMeet
<1> HIDE DEF part, oldFee, exitFee
<1>5. /\ rest = [qty |-> lot.qty - part, price |-> lot.price, fee |-> lot.fee - oldFee]
      /\ left = [qty |-> fill.qty + part, price |-> fill.price, fee |-> fill.fee - exitFee]
  <2> DEFINE lq == lot.qty - part
             lf == lot.fee - oldFee
             fq == fill.qty + part
             ff == fill.fee - exitFee
  <2>1. rest = [[lot EXCEPT !.qty = lq] EXCEPT !.fee = lf] /\ left = [[fill EXCEPT !.qty = fq] EXCEPT !.fee = ff]
    BY <1>2 DEF Amount
  <2> HIDE DEF lq, lf, fq, ff, rest, left
  <2>2. rest = [qty |-> lq, price |-> lot.price, fee |-> lf] /\ left = [qty |-> fq, price |-> fill.price, fee |-> ff]
    BY <1>2, <2>1 DEF Amount
  <2>3. QED BY <2>2 DEF lq, lf, fq, ff
<1>6. /\ rest \in Amount /\ rest.qty = lot.qty - part /\ rest.price = lot.price /\ rest.fee = lot.fee - oldFee
      /\ left \in Amount /\ left.qty = fill.qty + part /\ left.price = fill.price /\ left.fee = fill.fee - exitFee
  <2> HIDE DEF rest, left
  <2> QED BY <1>3, <1>4, <1>5 DEF Amount
<1> HIDE DEF rest, left
<1>7. /\ fill' \in Amount /\ fill'.qty = left.qty
      /\ fill'.qty = 0 => fill' = NoFill
      /\ fill'.qty * (TerminalMark - fill'.price) - fill'.fee = left.qty * (TerminalMark - left.price) - left.fee
  <2>1. CASE left.qty = 0
    <3>1. left.fee = 0
      BY <1>3, <1>4, <1>6, <2>1
    <3>2. fill' = NoFill
      BY <1>1, <2>1, <3>1 DEF NoFill
    <3>3. NoFill.qty = 0 /\ NoFill.price = 0 /\ NoFill.fee = 0 /\ NoFill \in Amount /\ left.price \in Int
      BY <1>6 DEF NoFill, Amount
    <3>4. 0 * (TerminalMark - 0) - 0 = 0 /\ 0 * (TerminalMark - left.price) - 0 = 0
      BY <1>3, <3>3
    <3>5. QED BY <2>1, <3>1, <3>2, <3>3, <3>4
  <2>2. CASE left.qty # 0
    BY <1>1, <2>2, <1>6
  <2>3. QED BY <2>1, <2>2
<1>8. /\ lots' \in Seq(Amount)
      /\ QuantityOf(lots') = rest.qty + QuantityOf(Tail(lots))
      /\ Unrealized(lots', TerminalMark)
           = (rest.qty * (TerminalMark - rest.price) - rest.fee) + Unrealized(Tail(lots), TerminalMark)
      /\ QuantityOf(Tail(lots)) \in Int /\ Unrealized(Tail(lots), TerminalMark) \in Int
  <2>1. /\ QuantityOf(Tail(lots)) \in Int /\ Unrealized(Tail(lots), TerminalMark) \in Int
    BY <1>2, <1>3, LotsSplit
  <2>2. CASE rest.qty = 0
    <3>1. rest.fee = 0 /\ rest.price \in Int
      BY <1>3, <1>4, <1>6, <2>2
    <3>2. rest.qty * (TerminalMark - rest.price) - rest.fee = 0
      BY <1>3, <2>2, <3>1
    <3>3. lots' = Tail(lots)
      BY <1>1, <2>2
    <3>4. QED BY <1>2, <2>1, <2>2, <3>2, <3>3
  <2>3. CASE rest.qty # 0
    <3>1. lots' = <<rest>> \o Tail(lots)
      BY <1>1, <2>3
    <3>2. lots' \in Seq(Amount)
      BY <1>2, <1>6, <3>1
    <3> DEFINE t == Tail(lots)
    <3>3. t \in Seq(Amount) /\ rest \in Amount /\ TerminalMark \in Int
      BY <1>2, <1>3, <1>6
    <3> HIDE DEF t
    <3>4. /\ QuantityOf(<<rest>> \o t) = rest.qty + QuantityOf(t)
          /\ Unrealized(<<rest>> \o t, TerminalMark) = (rest.qty * (TerminalMark - rest.price) - rest.fee) + Unrealized(t, TerminalMark)
      BY <3>3, LotsSplit
    <3>5. QED BY <2>1, <3>1, <3>2, <3>4 DEF t
  <2>4. QED BY <2>2, <2>3
<1>9. /\ QuantityOf(lots) = lot.qty + QuantityOf(Tail(lots))
      /\ Unrealized(lots, TerminalMark)
           = (lot.qty * (TerminalMark - lot.price) - lot.fee) + Unrealized(Tail(lots), TerminalMark)
  <2> DEFINE t == Tail(lots)
  <2>1. t \in Seq(Amount) /\ lot \in Amount /\ TerminalMark \in Int /\ lots = <<lot>> \o t
    BY <1>2, <1>3
  <2> HIDE DEF t
  <2>2. /\ QuantityOf(<<lot>> \o t) = lot.qty + QuantityOf(t)
        /\ Unrealized(<<lot>> \o t, TerminalMark) = (lot.qty * (TerminalMark - lot.price) - lot.fee) + Unrealized(t, TerminalMark)
    BY <2>1, LotsSplit
  <2>3. QED BY <2>1, <2>2 DEF t
<1>10. OneDirection(lots)'
  <2>1. OneDirection(lots) /\ 1 \in 1..Len(lots)
    BY <1>2 DEF FifoInv
  <2>2. CASE rest.qty = 0
    BY <1>1, <2>2, <1>2, <2>1 DEF OneDirection
  <2>3. CASE rest.qty # 0
    <3>1. lots' = <<rest>> \o Tail(lots)
      BY <1>1, <2>3
    <3>2. /\ Len(lots') = Len(lots) /\ lots'[1] = rest
          /\ \A i \in 2..Len(lots) : lots'[i] = lots[i]
      <4>1. Len(lots') = Len(lots) /\ lots'[1] = rest
        BY <1>2, <1>6, <3>1
      <4>2. ASSUME NEW i \in 2..Len(lots) PROVE lots'[i] = lots[i]
        BY <1>2, <1>6, <3>1
      <4>3. QED BY <4>1, <4>2
    <3>3. /\ lot.qty > 0 => rest.qty > 0
          /\ lot.qty < 0 => rest.qty < 0
      BY <1>3, <1>4, <1>6, <2>3
    <3>4. \A i \in 1..Len(lots) : i = 1 \/ i \in 2..Len(lots)
      BY <1>2
    <3>5. QED BY <1>2, <2>1, <3>2, <3>3, <3>4 DEF OneDirection
  <2>4. QED BY <2>2, <2>3
<1>11. Figures
  BY FiguresAre DEF FifoInv
<1> DEFINE won == part * (fill.price - lot.price)
           was == lot.qty * (TerminalMark - lot.price)
           is == (lot.qty - part) * (TerminalMark - lot.price)
           due == fill.qty * (TerminalMark - fill.price)
           rem == (fill.qty + part) * (TerminalMark - fill.price)
<1>12. /\ won \in Int /\ was \in Int /\ is \in Int /\ due \in Int /\ rem \in Int
       /\ won + is + rem = was + due
  BY <1>3, <1>4, MatchIsNeutral
<1>13. realized' = realized + won
  BY <1>1
<1>14. FifoShape'
  <2> HIDE DEF won
  <2>1. {position, cashChange, external, income, accountFees, realized, realizedFees}' \subseteq Int
    <3>1. realized' \in Int
      BY <1>11, <1>12, <1>13 DEF Figures
    <3>2. realizedFees' \in Int
      BY <1>1, <1>4, <1>11 DEF Figures
    <3>3. QED BY <1>1, <1>11, <3>1, <3>2 DEF Figures
  <2>2. events # 0
    BY <1>2 DEF FifoInv, FifoShape
  <2>3. QED BY <1>1, <1>7, <1>8, <2>1, <2>2 DEF FifoInv, FifoShape
<1>15. Balanced'
  <2> DEFINE o == Unrealized(opened, OpeningMark)
             ut == Unrealized(Tail(lots), TerminalMark)
             qt == QuantityOf(Tail(lots))
             rhs == cashChange + position * TerminalMark - QuantityOf(opened) * OpeningMark - external
  <2>1. o \in Int /\ ut \in Int /\ qt \in Int
    BY <1>8, SumsAreInt DEF FifoInv
  <2>2. position = (lot.qty + qt) + fill.qty
    BY <1>9 DEF FifoInv, Balanced
  <2>3. realized - realizedFees + ((was - lot.fee) + ut) - o + income - accountFees + (due - fill.fee) = rhs
    BY <1>9 DEF FifoInv, Balanced
  <2>4. fill'.qty * (TerminalMark - fill'.price) - fill'.fee = rem - (fill.fee - exitFee)
    BY <1>6, <1>7
  <2>5. Unrealized(lots', TerminalMark) = (is - (lot.fee - oldFee)) + ut /\ QuantityOf(lots') = (lot.qty - part) + qt
    BY <1>6, <1>8
  <2>6. fill'.qty = fill.qty + part
    BY <1>6, <1>7
  <2> HIDE DEF o, ut, qt, rhs, won, was, is, due, rem
  <2>7. (realized + won) - (realizedFees + oldFee + exitFee) + ((is - (lot.fee - oldFee)) + ut) - o + income - accountFees
          + (rem - (fill.fee - exitFee)) = rhs
    <3> DEFINE lf == lot.fee
               ff == fill.fee
    <3>1. lf \in Int /\ ff \in Int /\ oldFee \in Int /\ exitFee \in Int
      BY <1>3, <1>4
    <3>2. realized - realizedFees + ((was - lf) + ut) - o + income - accountFees + (due - ff) = rhs
      BY <2>3
    <3> HIDE DEF lf, ff
    <3>3. (realized + won) - (realizedFees + oldFee + exitFee) + ((is - (lf - oldFee)) + ut) - o + income - accountFees
            + (rem - (ff - exitFee))
          = realized - realizedFees + ((was - lf) + ut) - o + income - accountFees + (due - ff)
      BY <1>11, <1>12, <2>1, <3>1 DEF Figures
    <3>4. QED BY <3>2, <3>3 DEF lf, ff
  <2>8. position = ((lot.qty - part) + qt) + (fill.qty + part)
    BY <1>3, <1>4, <2>1, <2>2
  <2>9. /\ position' = QuantityOf(lots') + fill'.qty
        /\ realized' - realizedFees' + Unrealized(lots', TerminalMark) - Unrealized(opened', OpeningMark)
             + income' - accountFees' + (fill'.qty * (TerminalMark - fill'.price) - fill'.fee)
           = cashChange' + position' * TerminalMark - QuantityOf(opened') * OpeningMark - external'
    BY <1>1, <2>5, <2>6, <2>8, <1>13, <2>4, <2>7 DEF o, rhs
  <2>10. QED BY <2>9 DEF Balanced
<1>16. QED BY <1>10, <1>14, <1>15 DEF FifoInv

LEMMA FifoKeeps ==
  ASSUME FifoInv, [FifoNext]_fifoVars
  PROVE  FifoInv'
<1>1. CASE UNCHANGED fifoVars
  BY <1>1 DEF fifoVars, FifoInv, FifoShape, OneDirection, Balanced
<1>2. QED BY <1>1, OpenWindowKeeps, ActivityKeeps, BeginFillKeeps, OpenLotKeeps, MatchLotKeeps DEF FifoNext

LEMMA FifoHolds == ServicesSpec => [](Examined("fifo") => FifoInv)
<1>1. ServicesInit => (Examined("fifo") => FifoInv)
  BY FifoBegins DEF ServicesInit
<1>2. (Examined("fifo") => FifoInv) /\ [ServicesNext]_servicesVars => (Examined("fifo") => FifoInv)'
  BY FifoSteps, FifoKeeps
<1>3. QED BY <1>1, <1>2, PTL DEF ServicesSpec

LEMMA AttributionAddsUp == FifoInv => FifoIsSound
<1> SUFFICES ASSUME FifoInv PROVE FifoIsSound
  OBVIOUS
<1>1. AttributionIsExact
  <2> SUFFICES ASSUME fill = NoFill
               PROVE  /\ realized - realizedFees + Unrealized(lots, TerminalMark) - Unrealized(opened, OpeningMark)
                           + income - accountFees
                         = (OpeningCash + cashChange + position * TerminalMark)
                             - (OpeningCash + QuantityOf(opened) * OpeningMark) - external
                      /\ position = QuantityOf(lots)
    BY DEF AttributionIsExact
  <2> DEFINE u == Unrealized(lots, TerminalMark)
             o == Unrealized(opened, OpeningMark)
             p == position * TerminalMark
             h == QuantityOf(opened) * OpeningMark
             r == fill.qty * (TerminalMark - fill.price) - fill.fee
             q == QuantityOf(lots)
  <2>1. {position, cashChange, external, income, accountFees, realized, realizedFees} \subseteq Int /\ OpeningCash \in Int
        /\ TerminalMark \in Int /\ OpeningMark \in Int
    BY FifoAssumption DEF FifoInv, FifoShape
  <2>2. u \in Int /\ o \in Int /\ p \in Int /\ h \in Int /\ q \in Int
    BY <2>1, SumsAreInt DEF FifoInv
  <2>3. fill.qty = 0 /\ fill.price = 0 /\ fill.fee = 0
    BY DEF NoFill
  <2>4. r = 0
    BY <2>1, <2>3
  <2>5. realized - realizedFees + u - o + income - accountFees + r = cashChange + p - h - external /\ position = q + fill.qty
    BY DEF FifoInv, Balanced
  <2> HIDE DEF u, o, p, h, r, q
  <2>6. realized - realizedFees + u - o + income - accountFees = (OpeningCash + cashChange + p) - (OpeningCash + h) - external
        /\ position = q
    BY <2>1, <2>2, <2>3, <2>4, <2>5
  <2>7. QED BY <2>6 DEF u, o, p, h, q
<1>2. LotsAgree
  <2> SUFFICES ASSUME NEW i \in DOMAIN lots, NEW j \in DOMAIN lots PROVE lots[i].qty * lots[j].qty > 0
    BY DEF LotsAgree
  <2> DEFINE a == lots[i].qty
             b == lots[j].qty
  <2>1. lots[i] \in Amount /\ lots[j] \in Amount /\ i \in 1..Len(lots) /\ j \in 1..Len(lots)
    BY DEF FifoInv, FifoShape
  <2>2. a \in Int /\ b \in Int /\ ((a > 0 /\ b > 0) \/ (a < 0 /\ b < 0))
    BY <2>1 DEF FifoInv, OneDirection, Amount
  <2> HIDE DEF a, b
  <2>3. a * b > 0
    BY <2>2
  <2>4. QED BY <2>3 DEF a, b
<1>3. fill.qty = 0 => fill.fee = 0
  BY DEF FifoInv, FifoShape, NoFill
<1>4. QED BY <1>1, <1>2, <1>3 DEF FifoIsSound

\* The books of evidence (operations/) are right for every file, lot, price and
\* schedule: the streak that qualifies a trial is covered by its polls, a backup
\* or bundle that was reported holds a state the files had together, an
\* undisturbed ledger verifies, every event is booked once and reconciles, and
\* the attributed profit is the change of equity to the unit.
THEOREM RecordsAlwaysSound == ServicesSpec => []RecordsAreSound
<1>1. /\ (Examined("trial") => TrialInv) => (Examined("trial") => TrialIsHonest)
      /\ (Examined("backup") => BackupInv) => (Examined("backup") => BackupsAreSound)
      /\ (Examined("bundle") => BundleInv) => (Examined("bundle") => BundlesAreSound)
      /\ (Examined("ledger") => LedgerInv) => (Examined("ledger") => RefusedOnlyWhenDisturbed)
      /\ (Examined("accounting") => AccountingInv) => (Examined("accounting") => AccountingIsSound)
      /\ (Examined("fifo") => FifoInv) => (Examined("fifo") => FifoIsSound)
  BY TrialIsSound, BackupIsSound, BundleIsSound, LedgerIsSound, AccountingIsExact, AttributionAddsUp
<1>2. /\ (Examined("trial") => TrialIsHonest) /\ (Examined("backup") => BackupsAreSound)
      /\ (Examined("bundle") => BundlesAreSound) /\ (Examined("ledger") => RefusedOnlyWhenDisturbed)
      /\ (Examined("accounting") => AccountingIsSound) /\ (Examined("fifo") => FifoIsSound)
      => RecordsAreSound
  BY DEF RecordsAreSound
<1>3. QED BY <1>1, <1>2, TrialHolds, BackupHolds, BundleHolds, LedgerHolds, AccountingHolds, FifoHolds, PTL

-----------------------------------------------------------------------------
(* The limiter's order.  Ordinary requests stay below a smaller cap than    *)
(* emergencies, so an emergency always finds room.                          *)

Ordinary == {t \in Pending : calls[t].class # "emergency"}
QueueInv == ClientInv /\ Cardinality(Ordinary) <= NormalQueueCap

LEMMA QueueCaps ==
  /\ NormalQueueCap \in Nat \ {0} /\ MaxQueue \in Nat \ {0}
  /\ MaxQueue >= 4 => NormalQueueCap < MaxQueue
<1>1. MaxQueue \in Nat \ {0} /\ MaxQueue \div 4 \in Nat /\ (MaxQueue >= 4 => MaxQueue \div 4 >= 1)
  BY LimiterAssumption
<1> DEFINE spare == Min({8, MaxQueue \div 4})
<1>2. spare = IF 8 <= MaxQueue \div 4 THEN 8 ELSE MaxQueue \div 4
  BY <1>1, MinOfTwo
<1> HIDE DEF spare
<1>3. NormalQueueCap = IF 1 >= MaxQueue - spare THEN 1 ELSE MaxQueue - spare
  BY <1>1, <1>2, MaxOfTwo DEF NormalQueueCap, spare
<1>4. QED BY <1>1, <1>2, <1>3

LEMMA OrdinaryFinite ==
  ASSUME ClientTypeOK
  PROVE  IsFiniteSet(Ordinary) /\ Cardinality(Ordinary) \in Nat /\ IsFiniteSet(Pending) /\ Cardinality(Pending) \in Nat
<1>1. calls \in Seq([class : Classes, stage : Stages])
  BY DEF ClientTypeOK
<1>2. Ordinary \subseteq 1..Len(calls) /\ Pending \subseteq 1..Len(calls) /\ Len(calls) \in Nat
  BY <1>1 DEF Ordinary, Pending
<1>3. IsFiniteSet(1..Len(calls))
  BY <1>2, FS_Interval
<1>4. IsFiniteSet(Ordinary) /\ IsFiniteSet(Pending)
  BY <1>2, <1>3, FS_Subset
<1>5. QED BY <1>4, FS_CardinalityType

LEMMA OrdinaryStaysFinite ==
  ASSUME ClientTypeOK'
  PROVE  IsFiniteSet(Ordinary') /\ Cardinality(Ordinary') \in Nat
<1>1. calls' \in Seq([class : Classes, stage : Stages])
  BY DEF ClientTypeOK, Stages
<1>2. Ordinary' \subseteq 1..Len(calls') /\ Len(calls') \in Nat
  BY <1>1 DEF Ordinary, Pending
<1>3. IsFiniteSet(1..Len(calls'))
  BY <1>2, FS_Interval
<1>4. IsFiniteSet(Ordinary')
  BY <1>2, <1>3, FS_Subset
<1>5. QED BY <1>4, FS_CardinalityType

LEMMA QueueKeeps ==
  ASSUME QueueInv, [ClientNext]_clientVars
  PROVE  QueueInv'
<1>1. ClientInv' /\ ClientTypeOK /\ ClientTypeOK' /\ Cardinality(Ordinary) <= NormalQueueCap
  BY ClientKeeps DEF QueueInv, ClientInv
<1>2. calls \in Seq([class : Classes, stage : Stages]) /\ DOMAIN calls = 1..Len(calls) /\ Len(calls) \in Nat
  BY <1>1 DEF ClientTypeOK
<1>3. Cardinality(Ordinary) \in Nat /\ Cardinality(Ordinary') \in Nat /\ IsFiniteSet(Ordinary) /\ IsFiniteSet(Ordinary')
  BY <1>1, OrdinaryStaysFinite, OrdinaryFinite
<1>4. CASE Ordinary' \subseteq Ordinary
  BY <1>3, <1>4, FS_Subset, <1>1, QueueCaps DEF QueueInv
<1>5. CASE \E class \in Classes : Enqueue(class)
  <2>1. PICK class \in Classes : Enqueue(class)
    BY <1>5
  <2>2. /\ calls' = Append(calls, [class |-> class, stage |-> "queued"])
        /\ ~QueueFull(class)
    BY <2>1 DEF Enqueue
  <2>3. /\ DOMAIN calls' = 1..(Len(calls) + 1)
        /\ calls'[Len(calls) + 1] = [class |-> class, stage |-> "queued"]
        /\ \A t \in 1..Len(calls) : calls'[t] = calls[t]
    BY <1>2, <2>2, AppendProperties DEF Stages
  <2>4. Ordinary' \subseteq Ordinary \cup {Len(calls) + 1}
    BY <1>2, <2>3 DEF Ordinary, Pending
  <2>5. CASE class = "emergency"
    BY <2>3, <2>4, <2>5, <1>4 DEF Ordinary
  <2>6. CASE class # "emergency"
    <3>1. ~(Cardinality(Pending) >= NormalQueueCap)
      BY <2>2, <2>6 DEF QueueFull
    <3>2. Cardinality(Ordinary) <= Cardinality(Pending) /\ Cardinality(Pending) \in Nat
      BY <1>1, OrdinaryFinite, FS_Subset DEF Ordinary
    <3>3. /\ IsFiniteSet(Ordinary \cup {Len(calls) + 1})
          /\ Cardinality(Ordinary \cup {Len(calls) + 1}) \in Nat
          /\ Cardinality(Ordinary \cup {Len(calls) + 1}) <= Cardinality(Ordinary) + 1
      <4>1. /\ IsFiniteSet(Ordinary \cup {Len(calls) + 1})
            /\ Cardinality(Ordinary \cup {Len(calls) + 1}) = IF Len(calls) + 1 \in Ordinary THEN Cardinality(Ordinary) ELSE Cardinality(Ordinary) + 1
        BY <1>3, FS_AddElement
      <4>2. QED BY <1>3, <4>1
    <3>4. Cardinality(Ordinary') <= Cardinality(Ordinary \cup {Len(calls) + 1})
      BY <2>4, <3>3, FS_Subset
    <3>5. Cardinality(Ordinary') <= NormalQueueCap
      BY <1>3, <3>1, <3>2, <3>3, <3>4, QueueCaps
    <3>6. QED BY <1>1, <3>5 DEF QueueInv, NormalQueueCap
  <2>7. QED BY <2>5, <2>6
<1>6. ASSUME NEW t \in DOMAIN calls, NEW s \in {"admitted", "done"}, To(t, s)
      PROVE  Ordinary' \subseteq Ordinary
  <2>1. DOMAIN calls' = DOMAIN calls /\ calls' = [calls EXCEPT ![t].stage = s] /\ s # "queued"
    BY <1>6 DEF To
  <2>2. \A u \in DOMAIN calls : calls'[u].class = calls[u].class /\ (calls'[u].stage = "queued" => calls[u].stage = "queued")
    <3>1. \A u \in DOMAIN calls : calls[u] \in [class : Classes, stage : Stages]
      BY <1>2, ElementOfSeq
    <3> SUFFICES ASSUME NEW u \in DOMAIN calls
                 PROVE  calls'[u].class = calls[u].class /\ (calls'[u].stage = "queued" => calls[u].stage = "queued")
      OBVIOUS
    <3>2. calls'[u] = IF u = t THEN [calls[t] EXCEPT !.stage = s] ELSE calls[u]
      BY <2>1
    <3>3. calls[t] \in [class : Classes, stage : Stages]
      BY <3>1
    <3>4. [calls[t] EXCEPT !.stage = s].class = calls[t].class /\ [calls[t] EXCEPT !.stage = s].stage = s
      BY <3>3
    <3>5. QED BY <2>1, <3>2, <3>4
  <2>3. QED BY <2>1, <2>2 DEF Ordinary, Pending
<1>7. CASE \E t \in Pending : TryAdmit(t) \/ Interrupt(t)
  BY <1>6, <1>7, <1>4 DEF TryAdmit, Interrupt, Pending
<1>8. CASE \E t \in DOMAIN calls : Exchange(t) \/ \E delay \in Delays : Throttle(t, delay)
  BY <1>6, <1>8, <1>4 DEF Exchange, Throttle
<1>9. CASE Tick \/ UNCHANGED clientVars
  BY <1>9, <1>4 DEF Tick, clientVars, Ordinary, Pending
<1>10. QED BY <1>5, <1>7, <1>8, <1>9 DEF ClientNext

LEMMA QueueHolds == ServicesSpec => [](Examined("client") => QueueInv)
<1>1. ServicesInit => (Examined("client") => QueueInv)
  BY FS_EmptySet, ClientBegins, QueueCaps DEF ClientInit, Ordinary, Pending, QueueInv, ServicesInit
<1>2. (Examined("client") => QueueInv) /\ [ServicesNext]_servicesVars => (Examined("client") => QueueInv)'
  BY ClientSteps, QueueKeeps
<1>3. QED BY <1>1, <1>2, PTL DEF ServicesSpec

\* Only an admission lengthens the list of admissions.
LEMMA OnlyAdmissions ==
  ASSUME ClientInv, ClientNext, Len(admitted') > Len(admitted)
  PROVE  \E t \in Pending : TryAdmit(t)
<1>1. Len(admitted) \in Nat
  BY DEF ClientInv, ClientTypeOK
<1>2. \/ \E t \in Pending : TryAdmit(t)
      \/ admitted' = admitted
  BY DEF ClientNext, Enqueue, Interrupt, Exchange, Throttle, Tick
<1>3. QED BY <1>1, <1>2

LEMMA EmergencySteps ==
  ASSUME QueueInv, QueueInv', ClientNext
  PROVE  /\ Len(admitted') > Len(admitted) =>
              /\ now >= silentUntil
              /\ (\E t \in Pending : calls[t].class = "emergency") => admitted'[Len(admitted')].class = "emergency"
         /\ (\A t \in Pending' : calls'[t].class # "emergency") /\ MaxQueue >= 4 => Cardinality(Pending') < MaxQueue
<1>1. ASSUME Len(admitted') > Len(admitted)
      PROVE  /\ now >= silentUntil
             /\ (\E t \in Pending : calls[t].class = "emergency") => admitted'[Len(admitted')].class = "emergency"
  <2>1. PICK t \in Pending : TryAdmit(t)
    BY <1>1, OnlyAdmissions DEF QueueInv
  <2>2. now \in Nat /\ blockedUntil \in Nat /\ blockedUntil = silentUntil
    BY LimiterAssumption DEF QueueInv, ClientInv, ClientTypeOK
  <2>3. now >= silentUntil
    BY <2>1, <2>2 DEF TryAdmit, MustWait
  <2>4. admitted'[Len(admitted')].class = calls[t].class
    <3>1. ClientTypeOK /\ t \in DOMAIN calls
      BY DEF QueueInv, ClientInv, Pending
    <3>2. calls[t].class \in Classes /\ now \in 0..MaxNow /\ admitted \in Seq([class : Classes, at : 0..MaxNow])
      BY <3>1, ClientFacts DEF ClientTypeOK
    <3> DEFINE e == [class |-> calls[t].class, at |-> now]
    <3>3. e \in [class : Classes, at : 0..MaxNow] /\ admitted' = Append(admitted, e) /\ e.class = calls[t].class
      BY <2>1, <3>2 DEF TryAdmit
    <3> HIDE DEF e
    <3>4. Len(admitted') = Len(admitted) + 1 /\ admitted'[Len(admitted) + 1] = e
      BY <3>2, <3>3, AppendProperties
    <3>5. QED BY <3>3, <3>4
  <2>5. ASSUME NEW u \in Pending, calls[u].class = "emergency" PROVE calls[t].class = "emergency"
    <3>1. Rank[calls[t].class] <= 0
      BY <2>1, ClientFacts, LimiterAssumption, <2>5 DEF TryAdmit, IsHead, QueueInv, ClientInv, Pending, Rank, Before
    <3>2. calls[t].class \in {"emergency", "monitor", "entry", "discovery"}
      BY ClientFacts, LimiterAssumption DEF QueueInv, ClientInv, Pending, Rank
    <3>3. QED BY <3>1, <3>2 DEF Rank
  <2>6. QED BY <2>3, <2>4, <2>5
<1>2. ASSUME \A t \in Pending' : calls'[t].class # "emergency", MaxQueue >= 4
      PROVE  Cardinality(Pending') < MaxQueue
  <2>1. Pending' = Ordinary'
    BY <1>2 DEF Ordinary
  <2>2. Cardinality(Ordinary') <= NormalQueueCap
    BY DEF QueueInv, NormalQueueCap
  <2>3. Cardinality(Ordinary') \in Nat
    BY OrdinaryStaysFinite DEF QueueInv, ClientInv
  <2>4. QED BY <1>2, <2>1, <2>2, <2>3, QueueCaps
<1>3. QED BY <1>1, <1>2

\* While a 429's silence lasts nothing is sent, an emergency that waits is the
\* next to be sent, and ordinary requests alone never fill the queue.
THEOREM EmergenciesGoFirst == ServicesSpec => EmergencyFirst
<1> DEFINE step ==
      /\ Len(admitted') > Len(admitted) =>
           /\ now >= silentUntil
           /\ (\E t \in Pending : calls[t].class = "emergency") => admitted'[Len(admitted')].class = "emergency"
      /\ (\A t \in Pending' : calls'[t].class # "emergency") /\ MaxQueue >= 4 => Cardinality(Pending') < MaxQueue
<1>1. [ServicesNext]_servicesVars => UNCHANGED clientVars \/ (Examined("client") /\ Examined("client")' /\ ClientNext)
  <2>1. CASE ServicesNext
    <3>1. CASE focus' = "client"
      BY <2>1, <3>1 DEF ServicesNext, Steps, Examined, Components, clientVars
    <3>2. CASE focus' # "client"
      BY <2>1, <3>2 DEF ServicesNext, Steps, Examined, Components, clientVars
    <3>3. QED BY <3>1, <3>2
  <2>2. CASE UNCHANGED servicesVars
    BY <2>2 DEF servicesVars, clientVars
  <2>3. QED BY <2>1, <2>2
<1>2. (Examined("client") => QueueInv) /\ (Examined("client") => QueueInv)' /\ [ServicesNext]_servicesVars => [step]_clientVars
  BY <1>1, EmergencySteps
<1> HIDE DEF step
<1>3. ServicesSpec => [][step]_clientVars
  BY <1>2, QueueHolds, PTL DEF ServicesSpec
<1>4. QED BY <1>3 DEF EmergencyFirst, step
=============================================================================
