--------------------- MODULE PortfolioAndJournalProofs ---------------------
(***************************************************************************)
(* The safety of PortfolioRun, for any number of symbols, any cash, any    *)
(* number of entries and any interleaving of coordinator, workers, broker, *)
(* clock and stop request; and what ReservedJournal promises, for any      *)
(* number of processes, slots and records.  The two share no state.        *)
(***************************************************************************)
EXTENDS PortfolioRun, ReservedJournal, RunningSums, TLAPS

-----------------------------------------------------------------------------
(* The portfolio run.                                                      *)
(*                                                                         *)
(* The invariant follows one job: what its broker orders can be at each    *)
(* step of its worker (JobOK), that a job which ended without failing has  *)
(* nothing out and nothing reserved (Clear jobs), that the coordinator     *)
(* only holds clear symbols as candidates (RoundOK), and that a failure is *)
(* never forgotten (FailureOK).                                            *)
(*                                                                         *)
(* That everything fits the cash is a matter of sums over the symbols      *)
(* (RunningSums): what an order may spend and its job has lost fits the    *)
(* reservation (MoneyOK), the reservations the ledger, and the ledger the  *)
(* account (LedgerOK), between the snapshot of the free cash and its use   *)
(* as well (FreeOK).                                                       *)

\* No worker is at it and its last job, if any, did not fail.
Clear(s) == worker[s] \in {"none", "done"} /\ ~failed[s]

BrokerOK(s) ==
  /\ order[s] = "none" => rem[s] = 0 /\ held[s] = 0
  /\ order[s] = "sent" => held[s] = 0
  /\ order[s] = "done" => rem[s] = 0
  /\ held[s] + rem[s] <= active[s]

JobOK(s) ==
  /\ worker[s] \in {"none", "open", "guard", "post"} =>
       order[s] = "none" /\ ~failed[s]
  /\ worker[s] = "retry" => failed[s]
  /\ worker[s] \in {"record", "release"} /\ ~failed[s] => Releasable(s)
  /\ worker[s] \in {"check", "retry", "record", "release"} =>
       /\ result[s] = "flat" => order[s] = "done" /\ held[s] = 0
       /\ result[s] = "not_submitted" => order[s] = "none"
  /\ worker[s] = "ending" /\ ~failed[s] => order[s] = "none" /\ active[s] = 0
  /\ worker[s] = "done" /\ ~failed[s] => order[s] = "none"

ChargeOK(s) ==
  Clear(s) /\ active[s] # 0 => s = at /\ main \notin {"loop", "next", "quote"}

RoundOK ==
  /\ main \in {"next", "quote", "start"} => \A s \in candidates : Clear(s)
  /\ main \in {"quote", "start"} => Clear(at) /\ at \notin candidates

FailureOK ==
  /\ anyFailed => stop /\ \E s \in Symbols : failed[s]
  /\ \A s \in Symbols : failed[s] => anyFailed

EndOK ==
  /\ main \in {"final", "ended"} =>
       \A s \in Symbols : worker[s] \in {"none", "done"}
  /\ main = "ended" /\ status = "finished" => ~anyFailed

IInv ==
  /\ Types
  /\ \A s \in Symbols : BrokerOK(s) /\ JobOK(s) /\ ChargeOK(s)
  /\ RoundOK /\ FailureOK /\ EndOK

-----------------------------------------------------------------------------

LEMMA Initial == Init => IInv
<1> SUFFICES ASSUME Init PROVE IInv
  OBVIOUS
<1>1. Types
  <2>1. Cash \in Int /\ 0 \in 0..Retries
    BY AmountsAssumption, BoundsAssumption
  <2>2. tries \in [Symbols -> 0..Retries]
    BY <2>1 DEF Init
  <2>3. /\ active \in [Symbols -> Nat] /\ pnl \in [Symbols -> Int]
        /\ rem \in [Symbols -> Nat] /\ held \in [Symbols -> Nat]
        /\ order \in [Symbols -> {"none", "sent", "working", "done"}]
    BY DEF Init
  <2>4. /\ worker \in [Symbols -> WorkerSteps]
        /\ result \in [Symbols -> Results] /\ failed \in [Symbols -> BOOLEAN]
    BY DEF Init, WorkerSteps, Results
  <2> QED BY <2>1, <2>2, <2>3, <2>4 DEF Init, Types, MainSteps
<1>2. \A s \in Symbols : BrokerOK(s) /\ JobOK(s) /\ ChargeOK(s)
  BY DEF Init, BrokerOK, JobOK, ChargeOK
<1>3. RoundOK /\ FailureOK /\ EndOK
  BY DEF Init, RoundOK, FailureOK, EndOK
<1> QED BY <1>1, <1>2, <1>3 DEF IInv

LEMMA LoopStopsKeeps == ASSUME IInv, LoopStops PROVE IInv'
BY DEF LoopStops, IInv, Types, BrokerOK, JobOK, ChargeOK, Clear, RoundOK,
  FailureOK, EndOK, MainSteps, WorkerSteps, Results, coordinatorVars,
  ledgerVars, jobVars, brokerVars, Releasable, Goes, Fails

LEMMA ScanKeeps == ASSUME IInv, Scan PROVE IInv'
BY DEF Scan, Tradable, IInv, Types, BrokerOK, JobOK, ChargeOK, Clear, RoundOK,
  FailureOK, EndOK, MainSteps, WorkerSteps, Results, coordinatorVars,
  ledgerVars, jobVars, brokerVars, Releasable, Goes, Fails

LEMMA RoundEndsKeeps == ASSUME IInv, RoundEnds PROVE IInv'
BY DEF RoundEnds, IInv, Types, BrokerOK, JobOK, ChargeOK, Clear, RoundOK,
  FailureOK, EndOK, MainSteps, WorkerSteps, Results, coordinatorVars,
  ledgerVars, jobVars, brokerVars, Releasable, Goes, Fails

LEMMA SkipKeeps == ASSUME IInv, Skip PROVE IInv'
BY DEF Skip, IInv, Types, BrokerOK, JobOK, ChargeOK, Clear, RoundOK,
  FailureOK, EndOK, MainSteps, WorkerSteps, Results, coordinatorVars,
  ledgerVars, jobVars, brokerVars, Releasable, Goes, Fails

LEMMA StartKeeps == ASSUME IInv, Start PROVE IInv'
<1> USE BoundsAssumption DEF Start, Goes
<1>1. Types'
  BY DEF IInv, Types, WorkerSteps, Results, MainSteps, coordinatorVars,
    ledgerVars, jobVars, brokerVars
<1>2. ASSUME NEW t \in Symbols PROVE BrokerOK(t)' /\ JobOK(t)' /\ ChargeOK(t)'
  <2>1. BrokerOK(t)'
    BY DEF IInv, Types, BrokerOK, RoundOK, ledgerVars, brokerVars
  <2>2. JobOK(t)'
    BY DEF IInv, Types, JobOK, Releasable, RoundOK, ChargeOK, Clear, BrokerOK,
      coordinatorVars, ledgerVars, jobVars, brokerVars
  <2>3. ChargeOK(t)'
    BY DEF IInv, Types, JobOK, RoundOK, ChargeOK, Clear, coordinatorVars,
      ledgerVars, jobVars
  <2> QED BY <2>1, <2>2, <2>3
<1>3. RoundOK'
  BY DEF IInv, Types, RoundOK, Clear, coordinatorVars, jobVars
<1>4. FailureOK'
  BY DEF IInv, Types, FailureOK, RoundOK, Clear, jobVars
<1>5. EndOK'
  BY DEF IInv, Types, EndOK, coordinatorVars, jobVars
<1> QED BY <1>1, <1>2, <1>3, <1>4, <1>5 DEF IInv

LEMMA CoordinatorRaisesKeeps == ASSUME IInv, CoordinatorRaises PROVE IInv'
BY DEF CoordinatorRaises, IInv, Types, BrokerOK, JobOK, ChargeOK, Clear, RoundOK,
  FailureOK, EndOK, MainSteps, WorkerSteps, Results, coordinatorVars,
  ledgerVars, jobVars, brokerVars, Releasable, Goes, Fails

LEMMA DrainedKeeps == ASSUME IInv, Drained PROVE IInv'
BY DEF Drained, IInv, Types, BrokerOK, JobOK, ChargeOK, Clear, RoundOK,
  FailureOK, EndOK, MainSteps, WorkerSteps, Results, coordinatorVars,
  ledgerVars, jobVars, brokerVars, Releasable, Goes, Fails

LEMMA FinalKeeps == ASSUME IInv, Final PROVE IInv'
BY DEF Final, Clean, IInv, Types, BrokerOK, JobOK, ChargeOK, Clear, RoundOK,
  FailureOK, EndOK, MainSteps, WorkerSteps, Results, coordinatorVars,
  ledgerVars, jobVars, brokerVars, Releasable, Goes, Fails

LEMMA NextCandidateKeeps == ASSUME IInv, NEW s \in candidates, NextCandidate(s) PROVE IInv'
BY DEF NextCandidate, IInv, Types, BrokerOK, JobOK, ChargeOK, Clear, RoundOK,
  FailureOK, EndOK, MainSteps, WorkerSteps, Results, coordinatorVars,
  ledgerVars, jobVars, brokerVars, Releasable, Goes, Fails

LEMMA ReserveKeeps == ASSUME IInv, NEW n \in Sizes, Reserve(n) PROVE IInv'
<1> USE DEF Reserve, Sizes, Reservable, Goes
<1>0. n \in Nat
  BY SMT DEF Least
<1>1. Types'
  <2>1. active' \in [Symbols -> Nat] /\ cycles' \in Nat
    BY <1>0 DEF IInv, Types
  <2> QED BY <2>1 DEF IInv, Types, MainSteps, jobVars, brokerVars
<1>2. ASSUME NEW t \in Symbols PROVE BrokerOK(t)' /\ JobOK(t)' /\ ChargeOK(t)'
  <2>1. BrokerOK(t)'
    BY <1>0 DEF IInv, Types, BrokerOK, RoundOK, ledgerVars, brokerVars
  <2>2. JobOK(t)'
    BY DEF IInv, Types, JobOK, Releasable, RoundOK, ChargeOK, Clear, BrokerOK,
      coordinatorVars, ledgerVars, jobVars, brokerVars
  <2>3. ChargeOK(t)'
    BY DEF IInv, Types, JobOK, RoundOK, ChargeOK, Clear, coordinatorVars,
      ledgerVars, jobVars
  <2> QED BY <2>1, <2>2, <2>3
<1>3. RoundOK'
  BY DEF IInv, Types, RoundOK, Clear, coordinatorVars, jobVars
<1>4. FailureOK'
  BY DEF IInv, Types, FailureOK, RoundOK, Clear, jobVars
<1>5. EndOK'
  BY DEF IInv, Types, EndOK, coordinatorVars, jobVars
<1> QED BY <1>1, <1>2, <1>3, <1>4, <1>5 DEF IInv

LEMMA OpenKeeps == ASSUME IInv, NEW s \in Symbols, Open(s) PROVE IInv'
BY DEF Open, IInv, Types, BrokerOK, JobOK, ChargeOK, Clear, RoundOK,
  FailureOK, EndOK, MainSteps, WorkerSteps, Results, coordinatorVars,
  ledgerVars, jobVars, brokerVars, Releasable, Goes, Fails

LEMMA GuardPassesKeeps == ASSUME IInv, NEW s \in Symbols, GuardPasses(s) PROVE IInv'
BY DEF GuardPasses, IInv, Types, BrokerOK, JobOK, ChargeOK, Clear, RoundOK,
  FailureOK, EndOK, MainSteps, WorkerSteps, Results, coordinatorVars,
  ledgerVars, jobVars, brokerVars, Releasable, Goes, Fails

LEMMA PostKeeps == ASSUME IInv, NEW s \in Symbols, Post(s) PROVE IInv'
BY DEF Post, IInv, Types, BrokerOK, JobOK, ChargeOK, Clear, RoundOK,
  FailureOK, EndOK, MainSteps, WorkerSteps, Results, coordinatorVars,
  ledgerVars, jobVars, brokerVars, Releasable, Goes, Fails

LEMMA CheckUnresolvedKeeps == ASSUME IInv, NEW s \in Symbols, CheckUnresolved(s) PROVE IInv'
BY DEF CheckUnresolved, IInv, Types, BrokerOK, JobOK, ChargeOK, Clear, RoundOK,
  FailureOK, EndOK, MainSteps, WorkerSteps, Results, coordinatorVars,
  ledgerVars, jobVars, brokerVars, Releasable, Goes, Fails

LEMMA CheckGoodKeeps == ASSUME IInv, NEW s \in Symbols, CheckGood(s) PROVE IInv'
<1> USE DEF CheckGood, Goes
<1>1. Types'
  BY DEF IInv, Types, WorkerSteps, Results, MainSteps, coordinatorVars,
    ledgerVars, jobVars, brokerVars
<1>2. ASSUME NEW t \in Symbols PROVE BrokerOK(t)' /\ JobOK(t)' /\ ChargeOK(t)'
  <2>1. BrokerOK(t)'
    BY DEF IInv, Types, BrokerOK, RoundOK, ledgerVars, brokerVars
  <2>2. JobOK(t)'
    BY DEF IInv, Types, JobOK, Releasable, RoundOK, ChargeOK, Clear, BrokerOK,
      coordinatorVars, ledgerVars, jobVars, brokerVars
  <2>3. ChargeOK(t)'
    BY DEF IInv, Types, JobOK, RoundOK, ChargeOK, Clear, coordinatorVars,
      ledgerVars, jobVars
  <2> QED BY <2>1, <2>2, <2>3
<1>3. RoundOK'
  BY DEF IInv, Types, RoundOK, Clear, coordinatorVars, jobVars
<1>4. FailureOK'
  BY DEF IInv, Types, FailureOK, RoundOK, Clear, jobVars
<1>5. EndOK'
  BY DEF IInv, Types, EndOK, coordinatorVars, jobVars
<1> QED BY <1>1, <1>2, <1>3, <1>4, <1>5 DEF IInv

LEMMA CheckDoubtfulKeeps == ASSUME IInv, NEW s \in Symbols, CheckDoubtful(s) PROVE IInv'
<1> USE DEF CheckDoubtful, Goes, Fails
<1>1. Types'
  BY DEF IInv, Types, WorkerSteps, Results, MainSteps, coordinatorVars,
    ledgerVars, jobVars, brokerVars
<1>2. ASSUME NEW t \in Symbols PROVE BrokerOK(t)' /\ JobOK(t)' /\ ChargeOK(t)'
  <2>1. BrokerOK(t)'
    BY DEF IInv, Types, BrokerOK, RoundOK, ledgerVars, brokerVars
  <2>2. JobOK(t)'
    BY DEF IInv, Types, JobOK, Releasable, ledgerVars, brokerVars
  <2>3. ChargeOK(t)'
    BY DEF IInv, Types, JobOK, RoundOK, ChargeOK, Clear, coordinatorVars,
      ledgerVars, jobVars
  <2> QED BY <2>1, <2>2, <2>3
<1>3. RoundOK'
  BY DEF IInv, Types, RoundOK, Clear, coordinatorVars, jobVars
<1>4. FailureOK'
  BY DEF IInv, Types, FailureOK, RoundOK, Clear, jobVars
<1>5. EndOK'
  BY DEF IInv, Types, EndOK, coordinatorVars, jobVars
<1> QED BY <1>1, <1>2, <1>3, <1>4, <1>5 DEF IInv

LEMMA RetriesEndKeeps == ASSUME IInv, NEW s \in Symbols, RetriesEnd(s) PROVE IInv'
<1> USE DEF RetriesEnd, Goes
<1>1. Types'
  BY DEF IInv, Types, WorkerSteps, Results, MainSteps, coordinatorVars,
    ledgerVars, jobVars, brokerVars
<1>2. ASSUME NEW t \in Symbols PROVE BrokerOK(t)' /\ JobOK(t)' /\ ChargeOK(t)'
  <2>1. BrokerOK(t)'
    BY DEF IInv, Types, BrokerOK, RoundOK, ledgerVars, brokerVars
  <2>2. JobOK(t)'
    BY DEF IInv, Types, JobOK, Releasable, RoundOK, ChargeOK, Clear, BrokerOK,
      coordinatorVars, ledgerVars, jobVars, brokerVars
  <2>3. ChargeOK(t)'
    BY DEF IInv, Types, JobOK, RoundOK, ChargeOK, Clear, coordinatorVars,
      ledgerVars, jobVars
  <2> QED BY <2>1, <2>2, <2>3
<1>3. RoundOK'
  BY DEF IInv, Types, RoundOK, Clear, coordinatorVars, jobVars
<1>4. FailureOK'
  BY DEF IInv, Types, FailureOK, RoundOK, Clear, jobVars
<1>5. EndOK'
  BY DEF IInv, Types, EndOK, coordinatorVars, jobVars
<1> QED BY <1>1, <1>2, <1>3, <1>4, <1>5 DEF IInv

LEMMA RecordKeeps == ASSUME IInv, NEW s \in Symbols, Record(s) PROVE IInv'
BY DEF Record, IInv, Types, BrokerOK, JobOK, ChargeOK, Clear, RoundOK,
  FailureOK, EndOK, MainSteps, WorkerSteps, Results, coordinatorVars,
  ledgerVars, jobVars, brokerVars, Releasable, Goes, Fails

LEMMA ReleaseKeeps == ASSUME IInv, NEW s \in Symbols, Release(s) PROVE IInv'
BY DEF Release, IInv, Types, BrokerOK, JobOK, ChargeOK, Clear, RoundOK,
  FailureOK, EndOK, MainSteps, WorkerSteps, Results, coordinatorVars,
  ledgerVars, jobVars, brokerVars, Releasable, Goes, Fails

LEMMA KeepReservedKeeps == ASSUME IInv, NEW s \in Symbols, KeepReserved(s) PROVE IInv'
BY DEF KeepReserved, IInv, Types, BrokerOK, JobOK, ChargeOK, Clear, RoundOK,
  FailureOK, EndOK, MainSteps, WorkerSteps, Results, coordinatorVars,
  ledgerVars, jobVars, brokerVars, Releasable, Goes, Fails

LEMMA WorkerRaisesKeeps == ASSUME IInv, NEW s \in Symbols, WorkerRaises(s) PROVE IInv'
<1> USE DEF WorkerRaises, Goes, Fails
<1>1. Types'
  BY DEF IInv, Types, WorkerSteps, Results, MainSteps, coordinatorVars,
    ledgerVars, jobVars, brokerVars
<1>2. ASSUME NEW t \in Symbols PROVE BrokerOK(t)' /\ JobOK(t)' /\ ChargeOK(t)'
  <2>1. BrokerOK(t)'
    BY DEF IInv, BrokerOK, ledgerVars, brokerVars
  <2>2. JobOK(t)'
    BY DEF IInv, Types, JobOK, Releasable, ledgerVars, brokerVars
  <2>3. ChargeOK(t)'
    BY DEF IInv, Types, ChargeOK, Clear, coordinatorVars, ledgerVars
  <2> QED BY <2>1, <2>2, <2>3
<1>3. RoundOK'
  BY DEF IInv, Types, RoundOK, Clear, coordinatorVars
<1>4. FailureOK'
  BY DEF IInv, Types, FailureOK
<1>5. EndOK'
  BY DEF IInv, Types, EndOK, coordinatorVars
<1> QED BY <1>1, <1>2, <1>3, <1>4, <1>5 DEF IInv

LEMMA EndKeeps == ASSUME IInv, NEW s \in Symbols, End(s) PROVE IInv'
<1> USE BoundsAssumption DEF End, Goes
<1>1. Types'
  BY DEF IInv, Types, WorkerSteps, Results, MainSteps, coordinatorVars,
    ledgerVars, jobVars, brokerVars
<1>2. ASSUME NEW t \in Symbols PROVE BrokerOK(t)' /\ JobOK(t)' /\ ChargeOK(t)'
  <2>1. BrokerOK(t)'
    BY DEF IInv, Types, BrokerOK, RoundOK, ledgerVars, brokerVars
  <2>2. JobOK(t)'
    <3>1. CASE t = s
      BY <3>1 DEF IInv, Types, JobOK, ledgerVars, brokerVars
    <3>2. CASE t # s
      <4>1. /\ worker'[t] = worker[t] /\ result'[t] = result[t]
            /\ failed'[t] = failed[t] /\ order'[t] = order[t]
            /\ held'[t] = held[t] /\ active'[t] = active[t]
        BY <3>2 DEF IInv, Types, ledgerVars, brokerVars
      <4> QED BY <4>1 DEF IInv, JobOK, Releasable
    <3> QED BY <3>1, <3>2
  <2>3. ChargeOK(t)'
    BY DEF IInv, Types, JobOK, RoundOK, ChargeOK, Clear, coordinatorVars,
      ledgerVars, jobVars
  <2> QED BY <2>1, <2>2, <2>3
<1>3. RoundOK'
  BY DEF IInv, Types, RoundOK, Clear, coordinatorVars, jobVars
<1>4. FailureOK'
  BY DEF IInv, Types, FailureOK, RoundOK, Clear, jobVars
<1>5. EndOK'
  BY DEF IInv, Types, EndOK, coordinatorVars, jobVars
<1> QED BY <1>1, <1>2, <1>3, <1>4, <1>5 DEF IInv

LEMMA GuardRefusesKeeps == ASSUME IInv, NEW s \in Symbols, NEW r \in Results, GuardRefuses(s, r) PROVE IInv'
BY DEF GuardRefuses, Reportable, IInv, Types, BrokerOK, JobOK, ChargeOK, Clear, RoundOK,
  FailureOK, EndOK, MainSteps, WorkerSteps, Results, coordinatorVars,
  ledgerVars, jobVars, brokerVars, Releasable, Goes, Fails

LEMMA ReturnKeeps == ASSUME IInv, NEW s \in Symbols, NEW r \in Results, Return(s, r) PROVE IInv'
BY DEF Return, Reportable, IInv, Types, BrokerOK, JobOK, ChargeOK, Clear, RoundOK,
  FailureOK, EndOK, MainSteps, WorkerSteps, Results, coordinatorVars,
  ledgerVars, jobVars, brokerVars, Releasable, Goes, Fails

LEMMA RetryKeeps == ASSUME IInv, NEW s \in Symbols, NEW r \in Results, Retry(s, r) PROVE IInv'
<1> USE BoundsAssumption DEF Retry, Reportable, TriesLeft, Goes
<1>1. Types'
  BY DEF IInv, Types, WorkerSteps, Results, MainSteps, coordinatorVars,
    ledgerVars, jobVars, brokerVars
<1>2. ASSUME NEW t \in Symbols PROVE BrokerOK(t)' /\ JobOK(t)' /\ ChargeOK(t)'
  <2>1. BrokerOK(t)'
    BY DEF IInv, Types, BrokerOK, RoundOK, ledgerVars, brokerVars
  <2>2. JobOK(t)'
    <3>1. CASE t = s
      BY <3>1 DEF IInv, Types, JobOK, ledgerVars, brokerVars
    <3>2. CASE t # s
      <4>1. /\ worker'[t] = worker[t] /\ result'[t] = result[t]
            /\ failed'[t] = failed[t] /\ order'[t] = order[t]
            /\ held'[t] = held[t] /\ active'[t] = active[t]
        BY <3>2 DEF IInv, Types, ledgerVars, brokerVars
      <4> QED BY <4>1 DEF IInv, JobOK, Releasable
    <3> QED BY <3>1, <3>2
  <2>3. ChargeOK(t)'
    BY DEF IInv, Types, JobOK, RoundOK, ChargeOK, Clear, coordinatorVars,
      ledgerVars, jobVars
  <2> QED BY <2>1, <2>2, <2>3
<1>3. RoundOK'
  BY DEF IInv, Types, RoundOK, Clear, coordinatorVars, jobVars
<1>4. FailureOK'
  BY DEF IInv, Types, FailureOK, RoundOK, Clear, jobVars
<1>5. EndOK'
  BY DEF IInv, Types, EndOK, coordinatorVars, jobVars
<1> QED BY <1>1, <1>2, <1>3, <1>4, <1>5 DEF IInv

LEMMA AcceptKeeps == ASSUME IInv, NEW s \in Symbols, Accept(s) PROVE IInv'
BY DEF Accept, IInv, Types, BrokerOK, JobOK, ChargeOK, Clear, RoundOK,
  FailureOK, EndOK, MainSteps, WorkerSteps, Results, coordinatorVars,
  ledgerVars, jobVars, brokerVars, Releasable, Goes, Fails

LEMMA LoseKeeps == ASSUME IInv, NEW s \in Symbols, Lose(s) PROVE IInv'
BY DEF Lose, IInv, Types, BrokerOK, JobOK, ChargeOK, Clear, RoundOK,
  FailureOK, EndOK, MainSteps, WorkerSteps, Results, coordinatorVars,
  ledgerVars, jobVars, brokerVars, Releasable, Goes, Fails

LEMMA CloseKeeps == ASSUME IInv, NEW s \in Symbols, Close(s) PROVE IInv'
BY DEF Close, IInv, Types, BrokerOK, JobOK, ChargeOK, Clear, RoundOK,
  FailureOK, EndOK, MainSteps, WorkerSteps, Results, coordinatorVars,
  ledgerVars, jobVars, brokerVars, Releasable, Goes, Fails

LEMMA FillKeeps == ASSUME IInv, NEW s \in Symbols, NEW n \in 1..rem[s], Fill(s, n) PROVE IInv'
BY DEF Fill, IInv, Types, BrokerOK, JobOK, ChargeOK, Clear, RoundOK,
  FailureOK, EndOK, MainSteps, WorkerSteps, Results, coordinatorVars,
  ledgerVars, jobVars, brokerVars, Releasable, Goes, Fails

LEMMA SellKeeps == ASSUME IInv, NEW s \in Symbols, NEW n \in 1..held[s],
  NEW p \in {0, 2 * n}, Sell(s, n, p) PROVE IInv'
BY DEF Sell, IInv, Types, BrokerOK, JobOK, ChargeOK, Clear, RoundOK,
  FailureOK, EndOK, MainSteps, WorkerSteps, Results, coordinatorVars,
  ledgerVars, jobVars, brokerVars, Releasable, Goes, Fails

LEMMA CutoffKeeps == ASSUME IInv, Cutoff PROVE IInv'
BY DEF Cutoff, IInv, Types, BrokerOK, JobOK, ChargeOK, Clear, RoundOK,
  FailureOK, EndOK, MainSteps, WorkerSteps, Results, coordinatorVars,
  ledgerVars, jobVars, brokerVars, Releasable, Goes, Fails

LEMMA RequestStopKeeps == ASSUME IInv, RequestStop PROVE IInv'
BY DEF RequestStop, IInv, Types, BrokerOK, JobOK, ChargeOK, Clear, RoundOK,
  FailureOK, EndOK, MainSteps, WorkerSteps, Results, coordinatorVars,
  ledgerVars, jobVars, brokerVars, Releasable, Goes, Fails

-----------------------------------------------------------------------------

LEMMA Inductive == IInv /\ [Next]_vars => IInv'
<1> SUFFICES ASSUME IInv, [Next]_vars PROVE IInv'
  OBVIOUS
<1>1. CASE Coordinator
  BY <1>1, LoopStopsKeeps, ScanKeeps, RoundEndsKeeps, SkipKeeps,
    StartKeeps, CoordinatorRaisesKeeps, DrainedKeeps, FinalKeeps,
    NextCandidateKeeps, ReserveKeeps DEF Coordinator
<1>2. ASSUME NEW s \in Symbols, Worker(s) PROVE IInv'
  BY <1>2, OpenKeeps, GuardPassesKeeps, PostKeeps, CheckUnresolvedKeeps,
    CheckGoodKeeps, CheckDoubtfulKeeps, RetriesEndKeeps, RecordKeeps,
    ReleaseKeeps, KeepReservedKeeps, WorkerRaisesKeeps, EndKeeps,
    GuardRefusesKeeps, ReturnKeeps, RetryKeeps DEF Worker
<1>3. ASSUME NEW s \in Symbols, Broker(s) PROVE IInv'
  BY <1>3, AcceptKeeps, LoseKeeps, CloseKeeps, FillKeeps, SellKeeps DEF Broker
<1>4. CASE UNCHANGED vars
  BY <1>4 DEF vars, IInv, Types, BrokerOK, JobOK, ChargeOK, Clear, RoundOK,
    FailureOK, EndOK, Releasable
<1> QED BY <1>1, <1>2, <1>3, <1>4, CutoffKeeps, RequestStopKeeps DEF Next, Ended

\* The parts of IInv hold in every reachable state.
THEOREM InductiveInvariant == Spec => []IInv
<1> QED BY Initial, Inductive, PTL DEF Spec

\* What the broker holds or may still buy of a symbol is charged to its
\* reservation, whatever failed, was retried, or came after it.
THEOREM ExposureIsCharged == Spec => []ExposedIsReserved
<1>1. IInv => ExposedIsReserved
  BY DEF IInv, BrokerOK, ExposedIsReserved
<1> QED BY <1>1, InductiveInvariant, PTL

\* No entry passes its guard after any job of the run has failed.
THEOREM FailureStopsEntries == Spec => NoEntryAfterFailure
<1>1. IInv /\ [Next]_vars =>
        [\A s \in Symbols :
           worker[s] = "guard" /\ worker'[s] = "post" => ~anyFailed]_vars
  <2> SUFFICES ASSUME IInv, Next, NEW s \in Symbols,
                      worker[s] = "guard", worker'[s] = "post", anyFailed
               PROVE FALSE
    BY DEF vars
  <2>1. stop /\ worker \in [Symbols -> WorkerSteps]
    BY DEF IInv, FailureOK, Types
  <2>2. CASE Coordinator
    BY <2>1, <2>2 DEF Coordinator, LoopStops, Scan, RoundEnds, Skip, Start,
      CoordinatorRaises, Drained, Final, NextCandidate, Reserve, jobVars
  <2>3. ASSUME NEW t \in Symbols, Worker(t) PROVE FALSE
    BY <2>1, <2>3 DEF Worker, Open, GuardPasses, GuardAllows, Post,
      CheckUnresolved, CheckGood, CheckDoubtful, RetriesEnd, Record, Release,
      KeepReserved, WorkerRaises, End, GuardRefuses, Return, Retry, Goes
  <2>4. ASSUME NEW t \in Symbols, Broker(t) PROVE FALSE
    BY <2>1, <2>4 DEF Broker, Accept, Lose, Close, Fill, Sell, jobVars
  <2> QED BY <2>2, <2>3, <2>4 DEF Next, Cutoff, RequestStop, Ended, vars, jobVars
<1> QED BY <1>1, InductiveInvariant, PTL DEF Spec, NoEntryAfterFailure

\* A run that ends without asking for attention left the account flat and had
\* no failed job.
THEOREM FinalReportIsHonest == Spec => []FinalIsHonest
<1>1. IInv => FinalIsHonest
  BY DEF IInv, EndOK, FailureOK, JobOK, BrokerOK, FinalIsHonest
<1> QED BY <1>1, InductiveInvariant, PTL

-----------------------------------------------------------------------------
(* The money.  What an order may still spend, and what its job has lost so *)
(* far, fit the reservation; the reservations fit the ledger; and with the *)
(* profits and losses of the jobs at work, the ledger fits the account.    *)

MoneyOK(s) ==
  /\ order[s] \in {"none", "sent"} => pnl[s] = 0
  /\ rem[s] - pnl[s] <= active[s]

LedgerOK ==
  /\ Total(active) <= ledger
  /\ ledger + Total(pnl) <= cash

FreeOK ==
  /\ free \in Nat
  /\ main = "quote" => free <= ledger - Total(active)

MoneyInv == IInv /\ (\A s \in Symbols : MoneyOK(s)) /\ LedgerOK /\ FreeOK

LEMMA TotalIsSum == ASSUME NEW f PROVE Total(f) = SetSum(f, Symbols)
BY DEF Total, FoldFunctionOnSet, MapThenFoldSet, SetSum, SetSums, Pick

LEMMA TotalInt == ASSUME NEW f \in [Symbols -> Int] PROVE Total(f) \in Int
<1>1. \A s \in Symbols : f[s] <= f[s]
  OBVIOUS
<1> QED BY <1>1, SymbolsAssumption, TotalIsSum, SetSumOrder

LEMMA TotalOrder ==
  ASSUME NEW f \in [Symbols -> Int], NEW g \in [Symbols -> Int],
         \A s \in Symbols : f[s] <= g[s]
  PROVE  Total(f) <= Total(g)
BY SymbolsAssumption, TotalIsSum, SetSumOrder

LEMMA TotalAdds ==
  ASSUME NEW f \in [Symbols -> Int], NEW g \in [Symbols -> Int],
         NEW h \in [Symbols -> Int], \A s \in Symbols : h[s] = f[s] + g[s]
  PROVE  Total(h) = Total(f) + Total(g)
BY SymbolsAssumption, TotalIsSum, SetSumAdds

LEMMA TotalOfZero ==
  ASSUME NEW f \in [Symbols -> Int], \A s \in Symbols : f[s] = 0
  PROVE  Total(f) = 0
BY SymbolsAssumption, TotalIsSum, SetSumOfZero

\* Setting one value changes the sum by the difference.
LEMMA TotalSet ==
  ASSUME NEW f \in [Symbols -> Int], NEW s \in Symbols, NEW v \in Int
  PROVE  Total([f EXCEPT ![s] = v]) = Total(f) + (v - f[s])
<1> DEFINE g == [f EXCEPT ![s] = v]
           d == v - f[s]
<1>1. g \in [Symbols -> Int] /\ d \in Int
  OBVIOUS
<1>2. \A y \in Symbols : g[y] = IF y = s THEN f[y] + d ELSE f[y]
  OBVIOUS
<1> HIDE DEF g, d
<1>3. SetSum(g, Symbols) = SetSum(f, Symbols) + d
  BY <1>1, <1>2, SymbolsAssumption, SetSumDiffers
<1>4. Total(g) = Total(f) + d
  BY <1>3, TotalIsSum
<1> QED BY <1>4 DEF g, d

LEMMA Numbers ==
  ASSUME Types
  PROVE  /\ Total(active) \in Int /\ Total(pnl) \in Int /\ Total(rem) \in Int
         /\ ledger \in Int /\ cash \in Int
         /\ active \in [Symbols -> Nat] /\ rem \in [Symbols -> Nat]
         /\ held \in [Symbols -> Nat] /\ pnl \in [Symbols -> Int]
         /\ active \in [Symbols -> Int] /\ rem \in [Symbols -> Int]
<1>1. active \in [Symbols -> Int] /\ rem \in [Symbols -> Int]
  BY DEF Types
<1>2. pnl \in [Symbols -> Int]
  BY DEF Types
<1> QED BY <1>1, <1>2, TotalInt DEF Types

LEMMA MoneyInitial == Init => MoneyInv
<1> SUFFICES ASSUME Init PROVE MoneyInv
  OBVIOUS
<1>1. IInv
  BY Initial
<1>2. active \in [Symbols -> Int] /\ pnl \in [Symbols -> Int]
  BY DEF Init
<1>3. Total(active) = 0 /\ Total(pnl) = 0
  <2>1. \A s \in Symbols : active[s] = 0 /\ pnl[s] = 0
    BY DEF Init
  <2> QED BY <1>2, <2>1, TotalOfZero
<1>4. LedgerOK
  BY <1>3, AmountsAssumption DEF Init, LedgerOK
<1> QED BY <1>1, <1>4 DEF MoneyInv, Init, MoneyOK, FreeOK

\* Steps that leave the ledger and the broker alone.
LEMMA OtherMoney ==
  ASSUME MoneyInv, IInv', UNCHANGED <<ledgerVars, brokerVars>>, FreeOK'
  PROVE  MoneyInv'
<1>1. \A s \in Symbols : MoneyOK(s)'
  BY DEF MoneyInv, MoneyOK, ledgerVars, brokerVars
<1>2. LedgerOK'
  BY DEF MoneyInv, LedgerOK, ledgerVars, brokerVars
<1> QED BY <1>1, <1>2 DEF MoneyInv

LEMMA CoordinatorMoney ==
  ASSUME MoneyInv, IInv', Coordinator, \A n \in Sizes : ~Reserve(n)
  PROVE  MoneyInv'
<1>1. UNCHANGED <<ledgerVars, brokerVars>>
  BY DEF Coordinator, LoopStops, Scan, RoundEnds, Skip, Start,
    CoordinatorRaises, Drained, Final, NextCandidate
<1>2. Total(active)' = Total(active) /\ ledger' = ledger
  BY <1>1 DEF ledgerVars
<1>3. FreeOK'
  <2>1. ASSUME NEW s \in candidates, NextCandidate(s) PROVE FreeOK'
    <3>1. Free \in Nat /\ Free <= ledger - Total(active)
      BY Numbers DEF MoneyInv, IInv, LedgerOK, Free
    <3> QED BY <1>2, <2>1, <3>1 DEF NextCandidate, FreeOK, MoneyInv
  <2>2. CASE Skip \/ Start
    BY <1>2, <2>2 DEF Skip, Start, FreeOK
  <2>3. CASE LoopStops \/ Scan \/ RoundEnds \/ CoordinatorRaises \/ Drained
             \/ Final
    BY <1>2, <2>3 DEF LoopStops, Scan, RoundEnds, CoordinatorRaises, Drained,
      Final, FreeOK, MoneyInv
  <2> QED BY <2>1, <2>2, <2>3 DEF Coordinator
<1> QED BY <1>1, <1>3, OtherMoney

LEMMA ReserveMoney ==
  ASSUME MoneyInv, IInv', NEW n \in Sizes, Reserve(n)
  PROVE  MoneyInv'
<1>1. Types /\ Types' /\ RoundOK
  BY DEF MoneyInv, IInv
<1>2. CASE Reservable(at, n)
  <2>1. n \in Nat /\ at \in Symbols /\ n \in Int
    <3>1. n \in Nat
      BY SMT DEF Sizes, Least
    <3> QED BY <1>1, <3>1 DEF Types
  <2>2. /\ active' = [active EXCEPT ![at] = n] /\ main' = "start"
        /\ ledger' = ledger /\ free' = free
        /\ UNCHANGED <<order, rem, held, pnl, cash>>
    BY <1>2 DEF Reserve, brokerVars
  <2>3. active[at] = 0 /\ Total(active) + n <= ledger
    BY <1>2 DEF Reservable
  <2>4. Total(active') = Total(active) + n
    <3>1. active \in [Symbols -> Int] /\ Total(active) \in Int
      BY <1>1, Numbers
    <3>2. Total([active EXCEPT ![at] = n]) = Total(active) + (n - active[at])
      BY <2>1, <3>1, TotalSet
    <3> QED BY <2>1, <2>2, <2>3, <3>1, <3>2
  <2>5. LedgerOK'
    BY <2>2, <2>3, <2>4 DEF MoneyInv, LedgerOK
  <2>6. ASSUME NEW s \in Symbols PROVE MoneyOK(s)'
    BY <1>1, <2>1, <2>2, <2>3, Numbers DEF MoneyInv, MoneyOK
  <2> QED BY <2>2, <2>5, <2>6 DEF MoneyInv, FreeOK
<1>3. CASE ~Reservable(at, n)
  <2>1. UNCHANGED <<ledgerVars, brokerVars>> /\ FreeOK'
    BY <1>3 DEF Reserve, ledgerVars, MoneyInv, FreeOK
  <2> QED BY <2>1, OtherMoney
<1> QED BY <1>2, <1>3

LEMMA QuietWorkerMoney ==
  ASSUME MoneyInv, IInv', NEW s \in Symbols, Worker(s), ~Post(s), ~Release(s)
  PROVE  MoneyInv'
<1>1. UNCHANGED <<ledgerVars, brokerVars, coordinatorVars>>
  BY DEF Worker, Open, GuardPasses, CheckUnresolved, CheckGood, CheckDoubtful,
    RetriesEnd, Record, KeepReserved, WorkerRaises, End, GuardRefuses, Return,
    Retry
<1>2. FreeOK'
  BY <1>1 DEF MoneyInv, FreeOK, ledgerVars, coordinatorVars
<1> QED BY <1>1, <1>2, OtherMoney

LEMMA PostMoney ==
  ASSUME MoneyInv, IInv', NEW s \in Symbols, Post(s)
  PROVE  MoneyInv'
<1>1. /\ order' = [order EXCEPT ![s] = "sent"]
      /\ rem' = [rem EXCEPT ![s] = active[s]]
      /\ UNCHANGED <<active, ledger, pnl, cash, main, free>>
  BY DEF Post, coordinatorVars, ledgerVars
<1>2. Types /\ order[s] = "none"
  BY DEF Post, MoneyInv, IInv, JobOK
<1>3. pnl[s] = 0
  BY <1>2 DEF MoneyInv, MoneyOK
<1>4. ASSUME NEW t \in Symbols PROVE MoneyOK(t)'
  <2>1. CASE t = s
    <3>1. rem'[s] = active[s] /\ pnl'[s] = 0 /\ active'[s] = active[s]
      BY <1>1, <1>2, <1>3, Numbers
    <3>2. active[s] \in Nat
      BY <1>2, Numbers
    <3> QED BY <2>1, <3>1, <3>2 DEF MoneyOK
  <2>2. CASE t # s
    <3>1. order'[t] = order[t] /\ rem'[t] = rem[t]
      BY <1>1, <1>2, <2>2 DEF Types
    <3> QED BY <1>1, <3>1 DEF MoneyInv, MoneyOK
  <2> QED BY <2>1, <2>2
<1>5. LedgerOK' /\ FreeOK'
  BY <1>1 DEF MoneyInv, LedgerOK, FreeOK
<1> QED BY <1>4, <1>5 DEF MoneyInv

\* A loss is charged, and it is no more than what was reserved.
LEMMA ReleaseMoney ==
  ASSUME MoneyInv, IInv', NEW s \in Symbols, Release(s)
  PROVE  MoneyInv'
<1>1. /\ ledger' = ledger + Loss(s) /\ active' = [active EXCEPT ![s] = 0]
      /\ order' = [order EXCEPT ![s] = "none"]
      /\ pnl' = [pnl EXCEPT ![s] = 0]
      /\ UNCHANGED <<rem, cash, main, free>>
  BY DEF Release, coordinatorVars
<1>2. Types /\ Types' /\ rem[s] = 0
  BY DEF Release, MoneyInv, IInv, JobOK, BrokerOK, Releasable
<1>3. /\ active[s] \in Nat /\ pnl[s] \in Int /\ ledger \in Int /\ cash \in Int
      /\ Total(active) \in Int /\ Total(pnl) \in Int
  BY <1>2, Numbers
<1>4. 0 - pnl[s] <= active[s]
  BY <1>2, <1>3 DEF MoneyInv, MoneyOK
<1>5. Total(active') = Total(active) - active[s]
  <2>1. Total([active EXCEPT ![s] = 0]) = Total(active) + (0 - active[s])
    BY <1>2, Numbers, TotalSet
  <2> QED BY <1>1, <1>3, <2>1
<1>6. Total(pnl') = Total(pnl) - pnl[s]
  <2>1. Total([pnl EXCEPT ![s] = 0]) = Total(pnl) + (0 - pnl[s])
    BY <1>2, Numbers, TotalSet
  <2> QED BY <1>1, <1>3, <2>1
<1>7. /\ Loss(s) \in Int /\ Loss(s) <= 0 /\ Loss(s) <= pnl[s]
      /\ Loss(s) + active[s] >= 0
  BY <1>3, <1>4 DEF Loss, Least
<1>8. LedgerOK'
  <2>1. Total(active) <= ledger /\ ledger + Total(pnl) <= cash
    BY DEF MoneyInv, LedgerOK
  <2>2. Total(active') <= ledger'
    BY <1>1, <1>3, <1>5, <1>7, <2>1
  <2>3. ledger' + Total(pnl') <= cash'
    BY <1>1, <1>3, <1>6, <1>7, <2>1
  <2> QED BY <2>2, <2>3 DEF LedgerOK
<1>9. FreeOK'
  <2>1. ledger - Total(active) <= ledger' - Total(active')
    BY <1>1, <1>3, <1>5, <1>7
  <2>2. free' = free /\ main' = main /\ ledger' \in Int /\ Total(active') \in Int
    BY <1>1, <1>3, <1>5, <1>7
  <2> QED BY <1>3, <2>1, <2>2 DEF MoneyInv, FreeOK
<1>10. ASSUME NEW t \in Symbols PROVE MoneyOK(t)'
  <2>1. CASE t = s
    <3>1. rem'[s] = 0 /\ pnl'[s] = 0 /\ active'[s] = 0
      BY <1>1, <1>2, Numbers
    <3> QED BY <2>1, <3>1 DEF MoneyOK
  <2>2. CASE t # s
    <3>1. /\ order'[t] = order[t] /\ pnl'[t] = pnl[t]
          /\ active'[t] = active[t] /\ rem'[t] = rem[t]
      BY <1>1, <1>2, <2>2 DEF Types
    <3> QED BY <3>1 DEF MoneyInv, MoneyOK
  <2> QED BY <2>1, <2>2
<1> QED BY <1>8, <1>9, <1>10 DEF MoneyInv

LEMMA BrokerMoney ==
  ASSUME MoneyInv, IInv', NEW s \in Symbols, Broker(s)
  PROVE  MoneyInv'
<1>1. UNCHANGED <<ledger, active, main, free>> /\ Types
  BY DEF Broker, Accept, Lose, Close, Fill, Sell, ledgerVars, coordinatorVars,
    MoneyInv, IInv
<1>2. FreeOK'
  BY <1>1 DEF MoneyInv, FreeOK
<1>3. \A t \in Symbols \ {s} :
        /\ order'[t] = order[t] /\ rem'[t] = rem[t] /\ pnl'[t] = pnl[t]
  BY <1>1 DEF Types, Broker, Accept, Lose, Close, Fill, Sell
<1>4. \A t \in Symbols \ {s} : MoneyOK(t)'
  BY <1>1, <1>3 DEF MoneyInv, MoneyOK
<1>5. /\ rem[s] \in Nat /\ held[s] \in Nat /\ pnl[s] \in Int
      /\ active[s] \in Nat /\ cash \in Int /\ ledger \in Int
      /\ Total(pnl) \in Int
  BY <1>1, Numbers
<1>6. /\ order[s] \in {"none", "sent"} => pnl[s] = 0
      /\ rem[s] - pnl[s] <= active[s]
      /\ Total(active) <= ledger /\ ledger + Total(pnl) <= cash
  BY DEF MoneyInv, MoneyOK, LedgerOK
<1>7. CASE Accept(s) \/ Lose(s) \/ Close(s)
  <2>1. UNCHANGED <<pnl, cash>> /\ rem'[s] \in {rem[s], 0}
    BY <1>1, <1>7, Numbers DEF Accept, Lose, Close
  <2>2. order'[s] \in {"none", "sent"} => order[s] = "sent"
    BY <1>1, <1>7 DEF Accept, Lose, Close, Types
  <2>3. MoneyOK(s)'
    BY <1>1, <1>5, <1>6, <2>1, <2>2 DEF MoneyOK
  <2>4. LedgerOK'
    BY <1>1, <1>6, <2>1 DEF LedgerOK
  <2> QED BY <1>2, <1>4, <2>3, <2>4 DEF MoneyInv
<1>8. ASSUME NEW n \in 1..rem[s], Fill(s, n) PROVE MoneyInv'
  <2>1. /\ rem' = [rem EXCEPT ![s] = rem[s] - n]
        /\ pnl' = [pnl EXCEPT ![s] = pnl[s] - n] /\ cash' = cash - n
    BY <1>8 DEF Fill
  <2>2. rem'[s] = rem[s] - n /\ pnl'[s] = pnl[s] - n
    BY <1>1, <2>1, Numbers
  <2>3. order'[s] \notin {"none", "sent"}
    BY <1>1, <1>8 DEF Fill, Types
  <2>4. MoneyOK(s)'
    BY <1>1, <1>5, <1>6, <2>2, <2>3 DEF MoneyOK
  <2>5. Total(pnl') = Total(pnl) - n
    <3>0. pnl \in [Symbols -> Int] /\ pnl[s] - n \in Int /\ n \in Int
      BY <1>1, <1>5, Numbers
    <3>1. Total([pnl EXCEPT ![s] = pnl[s] - n]) =
            Total(pnl) + ((pnl[s] - n) - pnl[s])
      BY <3>0, TotalSet
    <3> QED BY <1>5, <2>1, <3>0, <3>1
  <2>6. LedgerOK'
    BY <1>1, <1>5, <1>6, <2>1, <2>5 DEF LedgerOK
  <2> QED BY <1>2, <1>4, <2>4, <2>6 DEF MoneyInv
<1>9. ASSUME NEW n \in 1..held[s], NEW p \in {0, 2 * n}, Sell(s, n, p)
      PROVE  MoneyInv'
  <2>1. /\ pnl' = [pnl EXCEPT ![s] = pnl[s] + p] /\ cash' = cash + p
        /\ rem' = rem /\ order' = order
    BY <1>9 DEF Sell
  <2>2. p \in Nat
    BY <1>5
  <2>3. pnl'[s] = pnl[s] + p
    BY <1>1, <2>1, Numbers
  <2>4. order'[s] \notin {"none", "sent"}
    BY <1>9, <2>1 DEF Sell
  <2>5. MoneyOK(s)'
    BY <1>1, <1>5, <1>6, <2>1, <2>2, <2>3, <2>4 DEF MoneyOK
  <2>6. Total(pnl') = Total(pnl) + p
    <3>0. pnl \in [Symbols -> Int] /\ pnl[s] + p \in Int /\ p \in Int
      BY <1>1, <1>5, <2>2, Numbers
    <3>1. Total([pnl EXCEPT ![s] = pnl[s] + p]) =
            Total(pnl) + ((pnl[s] + p) - pnl[s])
      BY <3>0, TotalSet
    <3> QED BY <1>5, <2>1, <3>0, <3>1
  <2>7. LedgerOK'
    BY <1>1, <1>5, <1>6, <2>1, <2>2, <2>6 DEF LedgerOK
  <2> QED BY <1>2, <1>4, <2>5, <2>7 DEF MoneyInv
<1> QED BY <1>7, <1>8, <1>9 DEF Broker

LEMMA MoneyInductive == MoneyInv /\ [Next]_vars => MoneyInv'
<1> SUFFICES ASSUME MoneyInv, [Next]_vars PROVE MoneyInv'
  OBVIOUS
<1>1. IInv'
  BY Inductive DEF MoneyInv
<1>2. CASE Coordinator
  BY <1>1, <1>2, CoordinatorMoney, ReserveMoney DEF Coordinator
<1>3. ASSUME NEW s \in Symbols, Worker(s) PROVE MoneyInv'
  BY <1>1, <1>3, QuietWorkerMoney, PostMoney, ReleaseMoney
<1>4. ASSUME NEW s \in Symbols, Broker(s) PROVE MoneyInv'
  BY <1>1, <1>4, BrokerMoney
<1>5. CASE Cutoff \/ RequestStop \/ UNCHANGED vars
  <2>1. UNCHANGED <<ledgerVars, brokerVars, coordinatorVars>>
    BY <1>5 DEF Cutoff, RequestStop, vars, ledgerVars, brokerVars,
      coordinatorVars
  <2>2. FreeOK'
    BY <2>1 DEF MoneyInv, FreeOK, ledgerVars, coordinatorVars
  <2> QED BY <1>1, <2>1, <2>2, OtherMoney
<1> QED BY <1>2, <1>3, <1>4, <1>5 DEF Next, Ended

\* The reservations fit the ledger, and the ledger the account, in every
\* reachable state.
THEOREM MoneyInvariance == Spec => []MoneyInv
<1> QED BY MoneyInitial, MoneyInductive, PTL DEF Spec

\* Every variable keeps its type; the free cash of a snapshot is never
\* negative.
THEOREM TypeCorrect == Spec => []TypeOK
<1>1. MoneyInv => TypeOK
  BY DEF MoneyInv, IInv, FreeOK, TypeOK
<1> QED BY <1>1, MoneyInvariance, PTL

\* If every order that is out fills at its limit the account still does not
\* owe, and a reservation the sizing allows is never refused.
THEOREM ReservationsAlwaysFit == Spec => []ReservationsFit
<1>1. ASSUME MoneyInv PROVE CashOnly
  <2>1. Types
    BY <1>1 DEF MoneyInv, IInv
  <2> DEFINE budget == [s \in Symbols |-> active[s] + pnl[s]]
  <2>2. budget \in [Symbols -> Int] /\ \A s \in Symbols : rem[s] <= budget[s]
    BY <1>1, <2>1, Numbers DEF MoneyInv, MoneyOK
  <2>3. \A s \in Symbols : budget[s] = active[s] + pnl[s]
    OBVIOUS
  <2> HIDE DEF budget
  <2>4. Total(rem) <= Total(budget)
    BY <2>1, <2>2, Numbers, TotalOrder
  <2>5. Total(budget) = Total(active) + Total(pnl)
    BY <2>1, <2>2, <2>3, Numbers, TotalAdds
  <2> QED BY <1>1, <2>1, <2>4, <2>5, Numbers DEF MoneyInv, LedgerOK, CashOnly
<1>2. ASSUME MoneyInv PROVE ReserveNeverRefused
  <2> SUFFICES ASSUME main = "quote", NEW n \in Sizes PROVE Reservable(at, n)
    BY DEF ReserveNeverRefused
  <2>1. Types /\ RoundOK /\ \A s \in Symbols : ChargeOK(s)
    BY <1>2 DEF MoneyInv, IInv
  <2>2. active[at] = 0
    BY <2>1 DEF Types, RoundOK, ChargeOK
  <2>3. n \in Nat /\ n <= free
    BY <1>2, AmountsAssumption DEF Sizes, Least, MoneyInv, FreeOK
  <2>4. free \in Nat /\ free <= ledger - Total(active)
    BY <1>2 DEF MoneyInv, FreeOK
  <2> QED BY <2>1, <2>2, <2>3, <2>4, Numbers DEF Reservable
<1>3. MoneyInv => ReservationsFit
  BY <1>1, <1>2 DEF ReservationsFit
<1> QED BY <1>3, MoneyInvariance, PTL
-----------------------------------------------------------------------------
(* The reserved journal.                                                   *)
(*                                                                         *)
(* The inductive invariant is built in layers, each assuming the ones      *)
(* before it: who holds the lock (Control), what the slots may hold        *)
(* (Contents), where acknowledged records are (Acks), what a journal in    *)
(* memory knows of them (Known) and what a failed append leaves (Unsure).  *)

Working(p) == pc[p] \notin {"closed", "lockNew", "lockOld"}

Appending(p) == pc[p] \in {"write", "finish", "sync"}

\* Whoever is past the lock holds it alone, and only on a file that exists.
Control ==
  \A p \in Processes :
    /\ Working(p) => holder = {p}
    /\ pc[p] # "closed" => file.exists
    /\ Appending(p) =>
         record[p] = offered /\ record[p] # 0 /\ Len(items[p]) < Capacity

\* An append finds its slot and the rest of the journal empty.
Room(p) ==
  Appending(p) =>
    /\ \A i \in Slots : i < NextSlot(p) => file.slots[i] < record[p]
    /\ \A i \in Slots : i > NextSlot(p) => file.slots[i] = Empty
    /\ pc[p] = "write" => file.slots[NextSlot(p)] = Empty
    /\ pc[p] = "finish" => file.slots[NextSlot(p)] \in {Empty, Torn}
    /\ pc[p] = "sync" => file.slots[NextSlot(p)] \in {Empty, Torn, record[p]}

\* No record is synced that is not read, and records stand in the order of
\* their appends.
Contents ==
  /\ \A i \in Slots : durable.slots[i] \in {Empty, Torn, file.slots[i]}
  /\ \A i \in Slots : file.slots[i] <= offered
  /\ \A i, j \in Slots :
       i < j /\ file.slots[i] \in Records /\ file.slots[j] \in Records
         => file.slots[i] < file.slots[j]
  /\ \A p \in Processes : Room(p)

\* Acknowledged records are where they were written.
Acks ==
  NamesSurvive => \A a \in acked :
    /\ file.exists /\ durable.exists
    /\ file.slots[a[1]] = a[2] /\ durable.slots[a[1]] = a[2]

\* A journal knows each of them by its slot.
Knows(p) ==
  Ready(p) =>
    /\ NamesSurvive =>
         \A a \in acked : a[1] <= Len(items[p]) /\ items[p][a[1]] = a[2]
    /\ \A i \in 1..Len(items[p]) :
         items[p][i] <= offered /\ (Appending(p) => items[p][i] < offered)
    /\ \A i, j \in 1..Len(items[p]) : i < j => items[p][i] < items[p][j]

Known == \A p \in Processes : Knows(p)

\* A usable journal is unsure of nothing but the append it is busy with.
Doubts(p) ==
  /\ ~Ready(p) => unsure[p] = {}
  /\ pc[p] = "ready" /\ usable[p] => unsure[p] = {}
  /\ Appending(p) => unsure[p] = {record[p]}
  /\ \A r \in unsure[p] : r <= offered /\ \A a \in acked : a[2] < r

Unsure ==
  /\ \A a \in acked : a[2] <= offered
  /\ \A p \in Processes : Doubts(p)

JournalInv == JournalTypeOK /\ Control /\ Contents /\ Acks /\ Known /\ Unsure

-----------------------------------------------------------------------------
LEMMA LoadedFacts ==
  ASSUME JournalTypeOK, NEW n \in 0..Capacity, Loads(file, n)
  PROVE  /\ Loaded(file, n) \in Seq(Records) /\ Len(Loaded(file, n)) = n
         /\ \A i \in 1..n : /\ Loaded(file, n)[i] = file.slots[i]
                            /\ file.slots[i] \in Records
         /\ \A i \in Slots : i > n => file.slots[i] = Empty
<1>1. \A i \in 1..n : file.slots[i] \in Records
  BY DEF Loads, Holds
<1>2. \A i \in Slots : i > n => file.slots[i] = Empty
  BY CapacityAssumption DEF Loads, Holds, Slots
<1>3. QED BY <1>1, <1>2 DEF Loaded

LEMMA AppendedFacts ==
  ASSUME JournalTypeOK, NEW p \in Processes, record[p] \in Records
  PROVE  LET new == Append(items[p], record[p])
         IN /\ new \in Seq(Records) /\ Len(new) = Len(items[p]) + 1
            /\ new[Len(items[p]) + 1] = record[p]
            /\ \A i \in 1..Len(items[p]) : new[i] = items[p][i]
  BY DEF JournalTypeOK

\* A step of a process changes nothing of the others.
Others(p) ==
  \A q \in Processes : q # p =>
    /\ pc'[q] = pc[q] /\ usable'[q] = usable[q] /\ items'[q] = items[q]
    /\ record'[q] = record[q] /\ unsure'[q] = unsure[q]


LEMMA OthersUntouched ==
  ASSUME JournalTypeOK, NEW p \in Processes,
         OpenStep(p) \/ UseStep(p) \/ Kill(p)
  PROVE  Others(p)
<1> USE DEF JournalTypeOK, Others
<1>1. CASE Create(p)
  BY <1>1 DEF Create, Goto, historyVars
<1>2. CASE OpenExisting(p)
  BY <1>2 DEF OpenExisting, Goto, historyVars
<1>3. CASE Lock(p)
  BY <1>3 DEF Lock, Goto, historyVars
<1>4. CASE LockRefused(p)
  BY <1>4 DEF LockRefused, Goto, historyVars, LetGo
<1>5. CASE ReserveSlots(p)
  BY <1>5 DEF ReserveSlots, Goto, historyVars
<1>6. CASE WriteHeader(p)
  BY <1>6 DEF WriteHeader, Goto, historyVars
<1>7. CASE SyncFile(p)
  BY <1>7 DEF SyncFile, Goto, historyVars
<1>8. CASE SyncName(p)
  BY <1>8 DEF SyncName, Goto, historyVars
<1>9. CASE Load(p)
  BY <1>9 DEF Load, Goto, historyVars
<1>10. CASE LoadRefused(p)
  BY <1>10 DEF LoadRefused, Goto, historyVars, LetGo
<1>11. CASE OpenFails(p)
  BY <1>11 DEF OpenFails, Goto, historyVars, LetGo
<1>12. CASE BeginAppend(p)
  BY <1>12 DEF BeginAppend, Goto, historyVars
<1>13. CASE AppendRefused(p)
  BY <1>13 DEF AppendRefused, Goto, historyVars, Disable
<1>14. CASE Write(p)
  BY <1>14 DEF Write, Goto, historyVars
<1>15. CASE FinishWrite(p)
  BY <1>15 DEF FinishWrite, Goto, historyVars
<1>16. CASE Sync(p)
  BY <1>16 DEF Sync, Goto, historyVars
<1>17. CASE AppendFails(p)
  BY <1>17 DEF AppendFails, Goto, historyVars, Disable
<1>18. CASE ReadRecords(p)
  BY <1>18 DEF ReadRecords, Goto, historyVars, Disable
<1>19. CASE CloseJournal(p)
  BY <1>19 DEF CloseJournal, Goto, historyVars, LetGo
<1>20. CASE Kill(p)
  BY <1>20 DEF Kill, Goto, historyVars, LetGo
<1>21. QED BY <1>1, <1>2, <1>3, <1>4, <1>5, <1>6, <1>7, <1>8, <1>9, <1>10,
     <1>11, <1>12, <1>13, <1>14, <1>15, <1>16, <1>17, <1>18, <1>19, <1>20 DEF OpenStep, UseStep

-----------------------------------------------------------------------------
(* Types.                                                                  *)

LEMMA TypeStep ==
  ASSUME JournalTypeOK, Control, NEW p \in Processes,
         OpenStep(p) \/ UseStep(p) \/ Kill(p)
  PROVE  JournalTypeOK'
<1> USE DEF JournalTypeOK
<1>1. CASE Create(p)
  BY <1>1 DEF Create, Goto, historyVars, Steps, File, Blank, Empty, Slots
<1>2. CASE OpenExisting(p)
  BY <1>2 DEF OpenExisting, Goto, historyVars, Steps
<1>3. CASE Lock(p)
  BY <1>3 DEF Lock, Goto, historyVars, Steps
<1>4. CASE LockRefused(p)
  BY <1>4 DEF LockRefused, Goto, historyVars, LetGo, Steps
<1>5. CASE ReserveSlots(p)
  BY <1>5 DEF ReserveSlots, Goto, historyVars, Steps, File
<1>6. CASE WriteHeader(p)
  BY <1>6 DEF WriteHeader, Goto, historyVars, Steps, File
<1>7. CASE SyncFile(p)
  BY <1>7 DEF SyncFile, Goto, historyVars, Steps, Synced, File
<1>8. CASE SyncName(p)
  BY <1>8 DEF SyncName, Goto, historyVars, Steps, File
<1>9. CASE Load(p)
  BY <1>9, LoadedFacts DEF Load, Goto, historyVars, Steps
<1>10. CASE LoadRefused(p)
  BY <1>10 DEF LoadRefused, Goto, historyVars, LetGo, Steps
<1>11. CASE OpenFails(p)
  <2>1. file' = file \/ file' = [file EXCEPT !.header = "torn"]
    BY <1>11 DEF OpenFails
  <2>2. file' \in File
    BY <2>1 DEF File
  <2>3. QED BY <1>11, <2>2 DEF OpenFails, LetGo, Goto, Steps
<1>12. CASE BeginAppend(p)
  <2>1. PICK n \in 0..Capacity : /\ Loads(file, n) /\ n < Capacity
                                /\ items' = [items EXCEPT ![p] = Loaded(file, n)]
    BY <1>12 DEF BeginAppend
  <2>2. Loaded(file, n) \in Seq(Records)
    BY <2>1, LoadedFacts DEF JournalTypeOK
  <2>3. offered + 1 \in Records /\ offered + 1 \in 0..MaxRecords
    BY <1>12, CapacityAssumption DEF BeginAppend, Records
  <2>4. QED BY <1>12, <2>1, <2>2, <2>3 DEF BeginAppend, Goto, Steps
<1>13. CASE AppendRefused(p)
  BY <1>13, LoadedFacts DEF AppendRefused, Goto, historyVars, Disable, Steps
<1>14. CASE Write(p)
  BY <1>14 DEF Write, Goto, historyVars, Steps, PutSlot, File, Torn, Slots
<1>15. CASE FinishWrite(p)
  <2>1. record[p] \in Records
    BY <1>15 DEF FinishWrite, Control, Appending
  <2>2. file' \in File
    BY <1>15, <2>1 DEF FinishWrite, PutSlot, File
  <2>3. QED BY <1>15, <2>2 DEF FinishWrite, Goto, historyVars, Steps
<1>16. CASE Sync(p)
  <2>1. record[p] \in Records /\ NextSlot(p) \in Slots
    BY <1>16, CapacityAssumption DEF Sync, Control, Appending, NextSlot, Slots
  <2>2. durable' \in File
    BY <1>16 DEF Sync, Synced, File
  <2>3. acked' \subseteq Slots \X Records
    BY <1>16, <2>1 DEF Sync, Acknowledge
  <2>4. items' \in [Processes -> Seq(Records)]
    BY <1>16, <2>1, AppendedFacts DEF Sync
  <2>5. QED BY <1>16, <2>2, <2>3, <2>4 DEF Sync, Goto, Steps
<1>17. CASE AppendFails(p)
  BY <1>17 DEF AppendFails, Goto, historyVars, Disable, Steps
<1>18. CASE ReadRecords(p)
  <2>1. items' \in [Processes -> Seq(Records)]
    BY <1>18, LoadedFacts DEF ReadRecords
  <2>2. usable' \in [Processes -> BOOLEAN]
    BY <1>18 DEF ReadRecords, Disable
  <2>3. QED BY <1>18, <2>1, <2>2 DEF ReadRecords, historyVars
<1>19. CASE CloseJournal(p)
  BY <1>19 DEF CloseJournal, Goto, historyVars, LetGo, Steps
<1>20. CASE Kill(p)
  BY <1>20 DEF Kill, Goto, historyVars, LetGo, Steps
<1>21. QED BY <1>1, <1>2, <1>3, <1>4, <1>5, <1>6, <1>7, <1>8, <1>9, <1>10,
     <1>11, <1>12, <1>13, <1>14, <1>15, <1>16, <1>17, <1>18, <1>19, <1>20 DEF OpenStep, UseStep

-----------------------------------------------------------------------------
(* Control.                                                                *)

LEMMA ControlStep ==
  ASSUME JournalTypeOK, Control, NEW p \in Processes,
         OpenStep(p) \/ UseStep(p) \/ Kill(p)
  PROVE  Control'
<1> USE DEF JournalTypeOK, Control, Working, Appending
<1>1. CASE Create(p)
  BY <1>1 DEF Create, Goto, historyVars, File
<1>2. CASE OpenExisting(p)
  BY <1>2 DEF OpenExisting, Goto, historyVars
<1>3. CASE Lock(p)
  BY <1>3 DEF Lock, Goto, historyVars
<1>4. CASE LockRefused(p)
  BY <1>4 DEF LockRefused, Goto, historyVars, LetGo
<1>5. CASE ReserveSlots(p)
  BY <1>5 DEF ReserveSlots, Goto, historyVars, File
<1>6. CASE WriteHeader(p)
  BY <1>6 DEF WriteHeader, Goto, historyVars, File
<1>7. CASE SyncFile(p)
  BY <1>7 DEF SyncFile, Goto, historyVars, Synced, File
<1>8. CASE SyncName(p)
  BY <1>8 DEF SyncName, Goto, historyVars, File
<1>9. CASE Load(p)
  BY <1>9, LoadedFacts DEF Load, Goto, historyVars
<1>10. CASE LoadRefused(p)
  BY <1>10 DEF LoadRefused, Goto, historyVars, LetGo
<1>11. CASE OpenFails(p)
  <2>1. file' = file \/ file' = [file EXCEPT !.header = "torn"]
    BY <1>11 DEF OpenFails
  <2>2. file'.exists = file.exists
    BY <2>1 DEF File
  <2>3. QED BY <1>11, <2>2 DEF OpenFails, Goto, LetGo
<1>12. CASE BeginAppend(p)
  <2>1. PICK n \in 0..Capacity : /\ Loads(file, n) /\ n < Capacity
                                /\ items' = [items EXCEPT ![p] = Loaded(file, n)]
    BY <1>12 DEF BeginAppend
  <2>2. items'[p] = Loaded(file, n) /\ Len(Loaded(file, n)) = n
    BY <2>1, LoadedFacts DEF JournalTypeOK
  <2>3. pc[p] = "ready" /\ holder = {p} /\ holder' = holder /\ file' = file
    BY <1>12 DEF BeginAppend
  <2>4. \A q \in Processes : q # p => ~Working(q)
    BY <2>3
  <2>5. offered' = offered + 1 /\ record'[p] = offered'
        /\ pc' = [pc EXCEPT ![p] = "write"]
    BY <1>12 DEF BeginAppend, Goto
  <2>6. QED BY <2>1, <2>2, <2>3, <2>4, <2>5
<1>13. CASE AppendRefused(p)
  BY <1>13, LoadedFacts DEF AppendRefused, Goto, historyVars, Disable
<1>14. CASE Write(p)
  BY <1>14 DEF Write, Goto, historyVars, PutSlot, File
<1>15. CASE FinishWrite(p)
  BY <1>15 DEF FinishWrite, Goto, historyVars, PutSlot, File
<1>16. CASE Sync(p)
  BY <1>16 DEF Sync, Goto, historyVars, Synced, File
<1>17. CASE AppendFails(p)
  BY <1>17 DEF AppendFails, Goto, historyVars, Disable
<1>18. CASE ReadRecords(p)
  BY <1>18, LoadedFacts DEF ReadRecords, Goto, historyVars, Disable
<1>19. CASE CloseJournal(p)
  BY <1>19 DEF CloseJournal, Goto, historyVars, LetGo
<1>20. CASE Kill(p)
  BY <1>20 DEF Kill, Goto, historyVars, LetGo
<1>21. QED BY <1>1, <1>2, <1>3, <1>4, <1>5, <1>6, <1>7, <1>8, <1>9, <1>10,
     <1>11, <1>12, <1>13, <1>14, <1>15, <1>16, <1>17, <1>18, <1>19, <1>20 DEF OpenStep, UseStep

-----------------------------------------------------------------------------
(* Contents.                                                               *)

\* A step that writes no slot and begins no append.
Stable ==
  /\ file'.slots = file.slots /\ durable'.slots \in {durable.slots, file.slots}
  /\ file.exists => file'.exists
  /\ durable.exists => durable'.exists
  /\ offered' = offered
  /\ \A q \in Processes : Appending(q)' =>
       pc'[q] = pc[q] /\ items'[q] = items[q] /\ record'[q] = record[q]


Quiet(p) ==
  \/ OpenExisting(p) \/ Lock(p) \/ LockRefused(p) \/ ReserveSlots(p)
  \/ WriteHeader(p) \/ SyncFile(p) \/ SyncName(p) \/ Load(p)
  \/ LoadRefused(p) \/ OpenFails(p) \/ AppendRefused(p) \/ Sync(p)
  \/ AppendFails(p) \/ ReadRecords(p) \/ CloseJournal(p) \/ Kill(p)

LEMMA QuietIsStable ==
  ASSUME JournalTypeOK, NEW p \in Processes, Quiet(p)
  PROVE  Stable
<1> USE DEF JournalTypeOK, Stable, Appending
<1>1. CASE OpenExisting(p)
  BY <1>1 DEF OpenExisting, Goto, historyVars
<1>2. CASE Lock(p)
  BY <1>2 DEF Lock, Goto, historyVars
<1>3. CASE LockRefused(p)
  BY <1>3 DEF LockRefused, Goto, historyVars, LetGo
<1>4. CASE ReserveSlots(p)
  BY <1>4 DEF ReserveSlots, Goto, historyVars, File
<1>5. CASE WriteHeader(p)
  BY <1>5 DEF WriteHeader, Goto, historyVars, File
<1>6. CASE SyncFile(p)
  BY <1>6 DEF SyncFile, Goto, historyVars, Synced, File
<1>7. CASE SyncName(p)
  BY <1>7 DEF SyncName, Goto, historyVars, File
<1>8. CASE Load(p)
  BY <1>8 DEF Load, Goto, historyVars
<1>9. CASE LoadRefused(p)
  BY <1>9 DEF LoadRefused, Goto, historyVars, LetGo
<1>10. CASE OpenFails(p)
  BY <1>10 DEF OpenFails, Goto, historyVars, LetGo, File
<1>11. CASE AppendRefused(p)
  BY <1>11 DEF AppendRefused, Goto, historyVars, Disable
<1>12. CASE Sync(p)
  BY <1>12 DEF Sync, Goto, historyVars, Synced, File
<1>13. CASE AppendFails(p)
  BY <1>13 DEF AppendFails, Goto, historyVars, Disable
<1>14. CASE ReadRecords(p)
  BY <1>14 DEF ReadRecords, Goto, historyVars, Disable
<1>15. CASE CloseJournal(p)
  BY <1>15 DEF CloseJournal, Goto, historyVars, LetGo
<1>16. CASE Kill(p)
  BY <1>16 DEF Kill, Goto, historyVars, LetGo
<1>17. QED BY <1>1, <1>2, <1>3, <1>4, <1>5, <1>6, <1>7, <1>8, <1>9, <1>10,
     <1>11, <1>12, <1>13, <1>14, <1>15, <1>16 DEF Quiet


LEMMA StableContents ==
  ASSUME JournalTypeOK, Contents, Stable
  PROVE  Contents'
<1>1. \A q \in Processes : Appending(q)' => Appending(q) /\ NextSlot(q)' = NextSlot(q)
  BY DEF Stable, Appending, NextSlot
<1>2. \A i \in Slots : durable'.slots[i] \in {Empty, Torn, file'.slots[i]}
  BY DEF Stable, Contents
<1>3. /\ \A i \in Slots : file'.slots[i] <= offered'
      /\ \A i, j \in Slots :
           i < j /\ file'.slots[i] \in Records /\ file'.slots[j] \in Records
             => file'.slots[i] < file'.slots[j]
  BY DEF Stable, Contents
<1>4. ASSUME NEW q \in Processes
      PROVE  Room(q)'
  <2>1. Room(q)
    BY DEF Contents
  <2>2. CASE Appending(q)'
    BY <1>1, <2>1, <2>2 DEF Stable, Room
  <2>3. CASE ~Appending(q)'
    BY <2>3 DEF Room
  <2>4. QED BY <2>2, <2>3
<1>5. QED BY <1>2, <1>3, <1>4 DEF Contents

LEMMA ContentsStep ==
  ASSUME JournalTypeOK, Control, Contents, NEW p \in Processes, OpenStep(p) \/ UseStep(p) \/ Kill(p)
  PROVE  Contents'
<1>1. CASE Quiet(p)
  BY <1>1, QuietIsStable, StableContents
<1>2. CASE Create(p)
  <2>1. \A q \in Processes : pc[q] = "closed"
    BY <1>2 DEF Create, Control
  <2>2. \A q \in Processes : ~Appending(q)'
    BY <1>2, <2>1 DEF Create, Goto, Appending, JournalTypeOK
  <2>3. file'.slots = Blank /\ durable'.slots = Blank /\ offered' = offered
    BY <1>2 DEF Create, historyVars, JournalTypeOK, File
  <2>4. QED BY <2>2, <2>3 DEF Contents, Room, Blank, Empty, Records, JournalTypeOK
<1>3. CASE BeginAppend(p)
  <2>1. PICK n \in 0..Capacity : /\ Loads(file, n) /\ n < Capacity
                                /\ items' = [items EXCEPT ![p] = Loaded(file, n)]
    BY <1>3 DEF BeginAppend
  <2>2. NextSlot(p)' = n + 1
    BY <2>1, LoadedFacts DEF JournalTypeOK, NextSlot
  <2>3. /\ file' = file /\ durable' = durable
        /\ offered' = offered + 1 /\ record'[p] = offered + 1
        /\ pc'[p] = "write" /\ pc[p] = "ready"
    BY <1>3 DEF BeginAppend, Goto, JournalTypeOK
  <2>4. \A q \in Processes : q # p => ~Appending(q)'
    BY <1>3, OthersUntouched, <2>3 DEF Others, Control, Working, Appending
  <2>5. \A i \in Slots : i > n => file.slots[i] = Empty
    BY <2>1, LoadedFacts
  <2>6. \A i \in Slots : file.slots[i] \in Int /\ file.slots[i] <= offered
    BY DEF Contents, JournalTypeOK, File, Records, Empty, Torn
  <2>7. \A i \in Slots : i < n + 1 => file'.slots[i] < record'[p]
    BY <2>3, <2>6 DEF JournalTypeOK
  <2>8. n + 1 \in Slots
    BY <2>1, CapacityAssumption DEF Slots
  <2>9. Room(p)'
    BY <2>2, <2>3, <2>5, <2>7, <2>8 DEF Room, Slots
  <2>10. \A q \in Processes : q # p => Room(q)'
    BY <2>4 DEF Room
  <2>11. \A i \in Slots : file'.slots[i] <= offered'
    BY <2>3, <2>6 DEF JournalTypeOK
  <2>12. QED BY <2>3, <2>9, <2>10, <2>11 DEF Contents
<1>4. CASE Write(p) \/ FinishWrite(p)
  <2>0. PICK n \in Nat : n = NextSlot(p)
    BY DEF NextSlot, JournalTypeOK
  <2>1. /\ n \in Slots /\ NextSlot(p)' = n /\ record'[p] = record[p]
        /\ record[p] \in Records /\ record[p] = offered /\ offered' = offered
        /\ Appending(p) /\ durable' = durable
    BY <1>4, <2>0, CapacityAssumption
       DEF Write, FinishWrite, PutSlot, Goto, historyVars, NextSlot, Slots,
           Control, Appending, JournalTypeOK, Records
  <2>2. \A q \in Processes : q # p => ~Appending(q)'
    BY <1>4, <2>1, OthersUntouched DEF Others, Control, Working, Appending
  <2>3. PICK v \in {Torn, record[p]} :
          /\ file'.slots = [file.slots EXCEPT ![n] = v]
          /\ v = Torn => pc'[p] = "finish"
          /\ v = record[p] => pc'[p] = "sync"
    <3>1. CASE Write(p)
      BY <3>1, <2>0, <2>1 DEF Write, PutSlot, Goto, JournalTypeOK, File, Torn, Records
    <3>2. CASE FinishWrite(p)
      BY <3>2, <2>0, <2>1 DEF FinishWrite, PutSlot, Goto, JournalTypeOK, File, Torn, Records
    <3>3. QED BY <1>4, <3>1, <3>2
  <2>4. file.slots \in [Slots -> {Empty, Torn} \cup Records]
    BY DEF JournalTypeOK, File
  <2>5. \A i \in Slots : i # n => file'.slots[i] = file.slots[i]
    BY <2>1, <2>3, <2>4
  <2>6. file'.slots[n] = v
    BY <2>1, <2>3, <2>4
  <2>7. durable.slots[n] \in {Empty, Torn}
    BY <1>4, <2>0, <2>1 DEF Contents, Room, Write, FinishWrite
  <2>8. \A i \in Slots : durable'.slots[i] \in {Empty, Torn, file'.slots[i]}
    BY <2>1, <2>5, <2>7 DEF Contents
  <2>9. \A i \in Slots : file'.slots[i] <= offered'
    BY <2>1, <2>3, <2>5, <2>6, SMTT(30) DEF Contents, Torn, Records
  <2>10. /\ \A i \in Slots : i < n => file.slots[i] < record[p]
         /\ \A i \in Slots : i > n => file.slots[i] = Empty
    BY <2>0, <2>1 DEF Contents, Room
  <2>11. \A i, j \in Slots :
           i < j /\ file'.slots[i] \in Records /\ file'.slots[j] \in Records
             => file'.slots[i] < file'.slots[j]
    BY <2>1, <2>3, <2>5, <2>6, <2>10 DEF Contents, Torn, Empty, Records, Slots
  <2>12. \A i \in Slots : /\ i < n => file'.slots[i] < record'[p]
                          /\ i > n => file'.slots[i] = Empty
    BY <2>1, <2>5, <2>10 DEF Slots
  <2>13. /\ pc'[p] # "write"
         /\ pc'[p] = "finish" => file'.slots[n] \in {Empty, Torn}
         /\ pc'[p] = "sync" => file'.slots[n] \in {Empty, Torn, record'[p]}
    BY <2>1, <2>3, <2>6 DEF Torn, Records
  <2>14. Room(p)'
    <3>1. NextSlot(p)' = n
      BY <2>1
    <3>2. \A i \in Slots : i < NextSlot(p)' => file'.slots[i] < record'[p]
      BY <3>1, <2>12
    <3>3. \A i \in Slots : i > NextSlot(p)' => file'.slots[i] = Empty
      BY <3>1, <2>12
    <3>4. /\ pc'[p] # "write"
          /\ pc'[p] = "finish" => file'.slots[NextSlot(p)'] \in {Empty, Torn}
          /\ pc'[p] = "sync" =>
               file'.slots[NextSlot(p)'] \in {Empty, Torn, record'[p]}
      BY <3>1, <2>13
    <3>5. QED BY <3>2, <3>3, <3>4 DEF Room
  <2>15. \A q \in Processes : q # p => Room(q)'
    BY <2>2 DEF Room
  <2>16. QED BY <2>8, <2>9, <2>11, <2>14, <2>15 DEF Contents
<1>5. QED BY <1>1, <1>2, <1>3, <1>4 DEF OpenStep, UseStep, Quiet

-----------------------------------------------------------------------------
(* Acks.                                                                   *)

LEMMA AcksStep ==
  ASSUME JournalTypeOK, Control, Contents, Acks, NEW p \in Processes,
         OpenStep(p) \/ UseStep(p) \/ Kill(p)
  PROVE  Acks'
<1> SUFFICES ASSUME NamesSurvive
             PROVE  \A a \in acked' :
                      /\ file'.exists /\ durable'.exists
                      /\ file'.slots[a[1]] = a[2] /\ durable'.slots[a[1]] = a[2]
  BY DEF Acks
<1>1. \A a \in acked : a[1] \in Slots /\ a[2] \in Records
  BY DEF JournalTypeOK
<1>2. CASE Quiet(p) /\ ~Sync(p)
  <2>1. acked' = acked
    BY <1>2
       DEF Quiet, OpenExisting, Lock, LockRefused, ReserveSlots, WriteHeader, SyncFile,
           SyncName, Load, LoadRefused, OpenFails, AppendRefused, AppendFails,
           ReadRecords, CloseJournal, Kill, historyVars
  <2>2. QED BY <1>2, <2>1, QuietIsStable DEF Stable, Acks
<1>3. CASE Sync(p)
  <2>1. /\ file' = file /\ file.exists
        /\ durable'.exists /\ durable'.slots = file.slots
    BY <1>3 DEF Sync, Synced, Control, JournalTypeOK, File
  <2>2. \A a \in acked' : a \in acked \/ file.slots[a[1]] = a[2]
    BY <1>3 DEF Sync, Acknowledge
  <2>3. QED BY <2>1, <2>2 DEF Acks
<1>4. CASE Create(p)
  BY <1>4 DEF Create, historyVars, Acks
<1>5. CASE BeginAppend(p)
  BY <1>5 DEF BeginAppend, Acks
<1>6. CASE Write(p) \/ FinishWrite(p)
  <2>1. /\ acked' = acked /\ durable' = durable /\ NextSlot(p) \in Slots
        /\ file'.exists = file.exists
        /\ \A i \in Slots : i # NextSlot(p) => file'.slots[i] = file.slots[i]
    BY <1>6, CapacityAssumption
       DEF Write, FinishWrite, PutSlot, historyVars, NextSlot, Slots, Control,
           Appending, JournalTypeOK, File
  <2>2. file.slots[NextSlot(p)] \in {Empty, Torn}
    BY <1>6 DEF Write, FinishWrite, Contents, Room, Appending
  <2>3. \A a \in acked : a[1] # NextSlot(p)
    BY <1>1, <2>2 DEF Acks, Empty, Torn, Records
  <2>4. QED BY <1>1, <2>1, <2>3 DEF Acks
<1>7. QED BY <1>2, <1>3, <1>4, <1>5, <1>6 DEF OpenStep, UseStep, Quiet

-----------------------------------------------------------------------------
(* Known.                                                                  *)

\* Nobody but the process at work changes what is acknowledged or offered.
LEMMA WorkerAlone ==
  ASSUME JournalTypeOK, Control, NEW p \in Processes, OpenStep(p) \/ UseStep(p) \/ Kill(p),
         NEW q \in Processes, q # p, Ready(q)
  PROVE  acked' = acked /\ offered' = offered /\ Ready(q)' /\ pc'[q] = pc[q]
         /\ items'[q] = items[q] /\ unsure'[q] = unsure[q]
<1>1. holder = {q} /\ ~Working(p) /\ file.exists
  BY DEF Control, Working, Ready
<1>2. /\ pc'[q] = pc[q] /\ items'[q] = items[q] /\ unsure'[q] = unsure[q]
      /\ Ready(q)'
  BY OthersUntouched DEF Others, Ready
<1>3. OpenExisting(p) \/ LockRefused(p) \/ Kill(p)
  BY <1>1 DEF OpenStep, UseStep, Working, Create, Lock, ReserveSlots, WriteHeader,
              SyncFile, SyncName, Load, LoadRefused, OpenFails, BeginAppend,
              AppendRefused, Write, FinishWrite, Sync, AppendFails, ReadRecords,
              CloseJournal
<1>4. acked' = acked /\ offered' = offered
  BY <1>3 DEF OpenExisting, LockRefused, Kill, historyVars
<1>5. QED BY <1>2, <1>4

\* What _load returns satisfies Knows.
LEMMA LoadKnows ==
  ASSUME JournalTypeOK, Contents, Acks, NEW n \in 0..Capacity, Loads(file, n)
  PROVE  LET new == Loaded(file, n)
         IN /\ NamesSurvive =>
                 \A a \in acked : a[1] <= Len(new) /\ new[a[1]] = a[2]
            /\ \A i \in 1..Len(new) : new[i] \in Int /\ new[i] <= offered
            /\ \A i, j \in 1..Len(new) : i < j => new[i] < new[j]
<1> DEFINE new == Loaded(file, n)
<1>1. /\ Len(new) = n
      /\ \A i \in 1..n : new[i] = file.slots[i] /\ file.slots[i] \in Records
      /\ \A i \in Slots : i > n => file.slots[i] = Empty
  BY LoadedFacts
<1>2. 1..n \subseteq Slots /\ Slots \subseteq Int /\ Records \subseteq Int
  BY CapacityAssumption DEF Slots, Records
<1>3. ASSUME NamesSurvive, NEW a \in acked
      PROVE  a[1] <= n /\ new[a[1]] = a[2]
  <2>1. a[1] \in Slots /\ a[2] \in Records /\ file.slots[a[1]] = a[2]
    BY <1>3 DEF JournalTypeOK, Acks
  <2>2. a[1] <= n
    BY <1>1, <2>1 DEF Empty, Records, Slots
  <2>3. a[1] \in 1..n
    BY <2>1, <2>2 DEF Slots
  <2>4. QED BY <1>1, <2>1, <2>2, <2>3
<1>4. \A i \in 1..n : new[i] \in Int /\ new[i] <= offered
  BY <1>1, <1>2 DEF Contents
<1>5. \A i, j \in 1..n : i < j => new[i] < new[j]
  BY <1>1, <1>2 DEF Contents
<1>6. QED BY <1>1, <1>3, <1>4, <1>5

LEMMA KnownStep ==
  ASSUME JournalTypeOK, Control, Contents, Acks, Known, NEW p \in Processes,
         OpenStep(p) \/ UseStep(p) \/ Kill(p)
  PROVE  Known'
<1>1. ASSUME NEW q \in Processes, q # p
      PROVE  Knows(q)'
  <2>1. CASE Ready(q)
    BY <1>1, <2>1, WorkerAlone DEF Known, Knows, Ready, Appending
  <2>2. CASE ~Ready(q)
    BY <1>1, <2>2, OthersUntouched DEF Others, Knows, Ready
  <2>3. QED BY <2>1, <2>2
<1>2. CASE ~Ready(p)'
  BY <1>1, <1>2 DEF Known, Knows
<1>3. CASE Load(p) \/ BeginAppend(p) \/ AppendRefused(p) \/ ReadRecords(p)
  <2>1. acked' = acked /\ offered' \in {offered, offered + 1} /\ offered \in Nat
        /\ (BeginAppend(p) => offered' = offered + 1)
        /\ (~BeginAppend(p) => pc'[p] = "ready")
    BY <1>3 DEF Load, BeginAppend, AppendRefused, ReadRecords, historyVars, JournalTypeOK,
                Goto
  <2>2. CASE /\ AppendRefused(p) \/ ReadRecords(p)
             /\ UNCHANGED items
    <3>1. pc[p] = "ready" /\ pc'[p] = "ready" /\ offered' = offered
      BY <2>2 DEF AppendRefused, ReadRecords, historyVars
    <3>2. Knows(p)'
      BY <2>1, <2>2, <3>1 DEF Known, Knows, Ready, Appending
    <3>3. QED BY <1>1, <3>2 DEF Known
  <2>3. CASE \E n \in 0..Capacity :
               Loads(file, n) /\ items' = [items EXCEPT ![p] = Loaded(file, n)]
    <3>1. PICK n \in 0..Capacity :
                 Loads(file, n) /\ items' = [items EXCEPT ![p] = Loaded(file, n)]
      BY <2>3
    <3>2. items'[p] = Loaded(file, n)
      BY <3>1 DEF JournalTypeOK
    <3>3. /\ NamesSurvive =>
               \A a \in acked : a[1] <= Len(items'[p]) /\ items'[p][a[1]] = a[2]
          /\ \A i \in 1..Len(items'[p]) :
               items'[p][i] \in Int /\ items'[p][i] <= offered
          /\ \A i, j \in 1..Len(items'[p]) : i < j => items'[p][i] < items'[p][j]
      BY <3>1, <3>2, LoadKnows
    <3>4. ASSUME NEW i \in 1..Len(items'[p])
          PROVE  items'[p][i] <= offered' /\ (Appending(p)' => items'[p][i] < offered')
      <4>1. CASE BeginAppend(p)
        BY <2>1, <3>3, <4>1
      <4>2. CASE ~BeginAppend(p)
        <5>1. ~Appending(p)'
          BY <2>1, <4>2 DEF Appending
        <5>2. QED BY <2>1, <3>3, <5>1
      <4>3. QED BY <4>1, <4>2
    <3>5. Knows(p)'
      BY <2>1, <3>3, <3>4 DEF Knows
    <3>6. QED BY <1>1, <3>5 DEF Known
  <2>4. QED BY <1>3, <2>2, <2>3 DEF Load, BeginAppend, AppendRefused, ReadRecords
<1>4. CASE Write(p) \/ FinishWrite(p) \/ AppendFails(p)
  <2>1. /\ acked' = acked /\ offered' = offered /\ items' = items
        /\ Appending(p) /\ Ready(p)
    BY <1>4 DEF Write, FinishWrite, AppendFails, historyVars, Appending, Ready
  <2>2. QED BY <1>1, <2>1 DEF Known, Knows
<1>5. CASE Sync(p)
  <2> DEFINE new == Append(items[p], record[p])
  <2>1. /\ items'[p] = new /\ offered' = offered /\ pc'[p] = "ready"
        /\ record[p] \in Records /\ record[p] = offered
        /\ Appending(p) /\ Ready(p) /\ offered \in Nat
    BY <1>5 DEF Sync, Goto, JournalTypeOK, Control, Appending, Ready
  <2>2. /\ Len(new) = Len(items[p]) + 1 /\ Len(items[p]) \in Nat
        /\ new[Len(items[p]) + 1] = record[p]
        /\ \A i \in 1..Len(items[p]) : new[i] = items[p][i]
    BY <2>1, AppendedFacts DEF JournalTypeOK
  <2>3. \A i \in 1..Len(items[p]) : items[p][i] \in Int /\ items[p][i] < offered
    <3>1. \A i \in 1..Len(items[p]) : items[p][i] < offered
      BY <2>1 DEF Known, Knows
    <3>2. \A i \in 1..Len(items[p]) : items[p][i] \in Records
      BY DEF JournalTypeOK
    <3>3. QED BY <3>1, <3>2 DEF Records
  <2>4. ASSUME NamesSurvive, NEW a \in acked'
        PROVE  a[1] <= Len(new) /\ new[a[1]] = a[2]
    <3>1. CASE a \in acked
      <4>1. a[1] \in Slots /\ a[1] <= Len(items[p]) /\ items[p][a[1]] = a[2]
        BY <2>1, <2>4, <3>1 DEF Known, Knows, JournalTypeOK
      <4>2. a[1] \in 1..Len(items[p])
        BY <2>2, <4>1 DEF Slots
      <4>3. QED BY <2>2, <4>1, <4>2
    <3>2. CASE a = <<NextSlot(p), record[p]>>
      BY <2>2, <3>2 DEF NextSlot
    <3>3. QED BY <1>5, <2>4, <3>1, <3>2 DEF Sync, Acknowledge
  <2>5. \A i \in 1..Len(new) : new[i] <= offered
    BY <2>1, <2>2, <2>3
  <2>6. \A i, j \in 1..Len(new) : i < j => new[i] < new[j]
    <3>1. \A i, j \in 1..Len(items[p]) : i < j => items[p][i] < items[p][j]
      BY <2>1 DEF Known, Knows
    <3>2. QED BY <2>1, <2>2, <2>3, <3>1
  <2>7. Knows(p)'
    BY <2>1, <2>4, <2>5, <2>6 DEF Knows, Appending
  <2>8. QED BY <1>1, <2>7 DEF Known
<1>6. CASE ~(Load(p) \/ BeginAppend(p) \/ AppendRefused(p) \/ ReadRecords(p)
             \/ Write(p) \/ FinishWrite(p) \/ AppendFails(p) \/ Sync(p))
  <2>1. ~Ready(p)'
    BY <1>6 DEF OpenStep, UseStep, Ready, Create, OpenExisting, Lock, LockRefused,
                ReserveSlots, WriteHeader, SyncFile, SyncName, LoadRefused, OpenFails,
                CloseJournal, Kill, LetGo, Goto, JournalTypeOK
  <2>2. QED BY <1>2, <2>1
<1>7. QED BY <1>3, <1>4, <1>5, <1>6

-----------------------------------------------------------------------------
(* Unsure.                                                                 *)

LEMMA UnsureStep ==
  ASSUME JournalTypeOK, Control, Unsure, NEW p \in Processes,
         OpenStep(p) \/ UseStep(p) \/ Kill(p)
  PROVE  Unsure'
<1>1. ASSUME NEW q \in Processes, q # p
      PROVE  Doubts(q)'
  <2>1. CASE Ready(q)
    BY <1>1, <2>1, WorkerAlone, OthersUntouched
       DEF Others, Unsure, Doubts, Ready, Appending
  <2>2. CASE ~Ready(q)
    BY <1>1, <2>2, OthersUntouched DEF Others, Unsure, Doubts, Ready, Appending
  <2>3. QED BY <2>1, <2>2
<1>2. CASE BeginAppend(p)
  <2>1. /\ acked' = acked /\ offered' = offered + 1 /\ offered \in Nat
        /\ pc'[p] = "write" /\ pc[p] = "ready" /\ usable[p]
        /\ record'[p] = offered + 1
        /\ unsure'[p] = unsure[p] \cup {offered + 1}
    BY <1>2 DEF BeginAppend, Goto, JournalTypeOK
  <2>2. unsure'[p] = {record'[p]}
    BY <2>1 DEF Unsure, Doubts
  <2>3. \A a \in acked : a[2] \in Int /\ a[2] <= offered
    BY DEF Unsure, JournalTypeOK, Records
  <2>4. Doubts(p)'
    BY <2>1, <2>2, <2>3 DEF Doubts, Ready, Appending
  <2>5. QED BY <1>1, <2>1, <2>3, <2>4 DEF Unsure
<1>3. CASE Sync(p)
  <2>1. /\ offered' = offered /\ record[p] = offered /\ pc'[p] = "ready"
        /\ unsure'[p] = {} /\ offered \in Nat
    BY <1>3 DEF Sync, Goto, JournalTypeOK, Control, Appending, Unsure, Doubts
  <2>2. \A a \in acked' : a[2] <= offered'
    BY <1>3, <2>1 DEF Sync, Acknowledge, Unsure
  <2>3. Doubts(p)'
    BY <2>1 DEF Doubts, Ready, Appending
  <2>4. QED BY <1>1, <2>2, <2>3 DEF Unsure
<1>4. CASE ~BeginAppend(p) /\ ~Sync(p)
  <2>1. acked' = acked /\ offered' = offered
    BY <1>4
       DEF OpenStep, UseStep, Create, OpenExisting, Lock, LockRefused, ReserveSlots,
           WriteHeader, SyncFile, SyncName, Load, LoadRefused, OpenFails,
           AppendRefused, Write, FinishWrite, AppendFails, ReadRecords, CloseJournal,
           Kill, historyVars
  <2>2. CASE unsure'[p] = {} /\ ~Appending(p)'
    <3>1. Doubts(p)'
      BY <2>2 DEF Doubts
    <3>2. QED BY <1>1, <2>1, <3>1 DEF Unsure
  <2>3. CASE Write(p) \/ FinishWrite(p) \/ AppendFails(p) \/ AppendRefused(p)
             \/ ReadRecords(p)
    <3>1. /\ unsure' = unsure /\ Ready(p)
          /\ Appending(p)' => Appending(p) /\ record'[p] = record[p]
          /\ pc'[p] = "ready" /\ usable'[p] => pc[p] = "ready" /\ usable[p]
      BY <2>3 DEF Write, FinishWrite, AppendFails, AppendRefused, ReadRecords, Goto,
                  Disable, historyVars, Ready, Appending, JournalTypeOK
    <3>2. Doubts(p)'
      BY <2>1, <3>1, <2>3 DEF Unsure, Doubts, Ready, Appending,
        Write, FinishWrite, AppendFails, AppendRefused, ReadRecords, Goto, JournalTypeOK
    <3>3. QED BY <1>1, <2>1, <3>2 DEF Unsure
  <2>4. CASE ~(Write(p) \/ FinishWrite(p) \/ AppendFails(p) \/ AppendRefused(p)
               \/ ReadRecords(p))
    <3>1. unsure'[p] = unsure[p] \/ unsure'[p] = {}
      BY <1>4, <2>4
         DEF OpenStep, UseStep, Create, OpenExisting, Lock, LockRefused, ReserveSlots,
             WriteHeader, SyncFile, SyncName, Load, LoadRefused, OpenFails, CloseJournal,
             Kill, LetGo, historyVars, JournalTypeOK
    <3>2. ~Appending(p)' /\ (Ready(p) => unsure'[p] = {})
      BY <1>4, <2>4
         DEF OpenStep, UseStep, Create, OpenExisting, Lock, LockRefused, ReserveSlots,
             WriteHeader, SyncFile, SyncName, Load, LoadRefused, OpenFails, CloseJournal,
             Kill, LetGo, Goto, historyVars, JournalTypeOK, Appending, Ready
    <3>3. unsure'[p] = {}
      BY <3>1, <3>2 DEF Unsure, Doubts
    <3>4. QED BY <2>2, <3>2, <3>3
  <2>5. QED BY <2>3, <2>4
<1>5. QED BY <1>2, <1>3, <1>4

-----------------------------------------------------------------------------
(* The world outside.                                                      *)

\* A power loss leaves less than there was.
LEMMA LossLeaves ==
  ASSUME JournalTypeOK, Contents, PowerLoss
  PROVE  /\ file' \in File /\ durable' = file'
         /\ file'.exists \in {file.exists, durable.exists}
         /\ \A i \in Slots :
              /\ file'.slots[i] \in {Empty, Torn, file.slots[i]}
              /\ file.slots[i] = durable.slots[i] => file'.slots[i] = file.slots[i]
<1>1. PICK exists \in {file.exists, durable.exists},
           sized \in {file.sized, durable.sized},
           header \in {file.header, durable.header},
           left \in [Slots -> {"read", "synced", "neither"}] :
           file' = [exists |-> exists, sized |-> sized, header |-> header,
                    slots |-> [i \in Slots |->
                      CASE left[i] = "read" \/ file.slots[i] = durable.slots[i]
                             -> file.slots[i]
                        [] left[i] = "synced" -> durable.slots[i]
                        [] OTHER -> Torn]]
  BY DEF PowerLoss
<1>2. durable' = file' /\ file'.exists = exists
  BY <1>1 DEF PowerLoss
<1>3. \A i \in Slots : durable.slots[i] \in {Empty, Torn, file.slots[i]}
  BY DEF Contents
<1>4. ASSUME NEW i \in Slots
      PROVE  /\ file'.slots[i] \in {Empty, Torn, file.slots[i]}
             /\ file.slots[i] = durable.slots[i] => file'.slots[i] = file.slots[i]
  <2>1. file'.slots[i] = CASE left[i] = "read" \/ file.slots[i] = durable.slots[i]
                                -> file.slots[i]
                           [] left[i] = "synced" -> durable.slots[i]
                           [] OTHER -> Torn
    BY <1>1
  <2>2. CASE left[i] = "read" \/ file.slots[i] = durable.slots[i]
    BY <2>1, <2>2
  <2>3. CASE left[i] = "synced" /\ file.slots[i] # durable.slots[i]
    BY <1>3, <2>1, <2>3
  <2>4. CASE left[i] = "neither" /\ file.slots[i] # durable.slots[i]
    BY <2>1, <2>4
  <2>5. QED BY <2>2, <2>3, <2>4
<1>5. \A i \in Slots : file'.slots[i] \in {Empty, Torn} \cup Records
  BY <1>4 DEF JournalTypeOK, File
<1>6. file' \in File
  BY <1>1, <1>5 DEF JournalTypeOK, File
<1>7. QED BY <1>2, <1>4, <1>6

LEMMA PowerLossStep ==
  ASSUME JournalInv, PowerLoss
  PROVE  JournalInv'
<1> USE DEF JournalInv
<1>1. /\ file' \in File /\ durable' = file'
      /\ file'.exists \in {file.exists, durable.exists}
      /\ \A i \in Slots :
           /\ file'.slots[i] \in {Empty, Torn, file.slots[i]}
           /\ file.slots[i] = durable.slots[i] => file'.slots[i] = file.slots[i]
  BY LossLeaves
<1>2. /\ offered' = offered /\ acked' = acked
      /\ \A p \in Processes : pc'[p] = "closed" /\ unsure'[p] = {}
  BY DEF PowerLoss
<1>3. \A p \in Processes : ~Ready(p)' /\ ~Appending(p)' /\ ~Working(p)'
  BY <1>2 DEF Ready, Appending, Working
<1>4. JournalTypeOK'
  BY <1>1 DEF PowerLoss, JournalTypeOK, Steps
<1>5. Control'
  BY <1>2, <1>3 DEF Control
<1>6. Contents'
  <2>1. \A i \in Slots : file.slots[i] \in Int /\ file.slots[i] <= offered
    BY DEF JournalTypeOK, File, Records, Empty, Torn, Contents
  <2>2. ASSUME NEW i \in Slots
        PROVE  file'.slots[i] <= offered'
    <3>1. offered \in Nat /\ offered' = offered
      BY <1>2, CapacityAssumption DEF JournalTypeOK
    <3>2. file'.slots[i] \in {Empty, Torn, file.slots[i]}
      BY <1>1
    <3>3. QED BY <2>1, <3>1, <3>2 DEF Empty, Torn
  <2>3. \A i \in Slots : file'.slots[i] \in Records => file'.slots[i] = file.slots[i]
    BY <1>1 DEF Empty, Torn, Records
  <2>4. QED BY <1>1, <1>3, <2>2, <2>3 DEF Contents, Room
<1>7. Acks'
  BY <1>1, <1>2 DEF Acks, JournalTypeOK
<1>8. Known'
  BY <1>3 DEF Known, Knows
<1>9. Unsure'
  BY <1>2, <1>3 DEF Unsure, Doubts
<1>10. QED BY <1>4, <1>5, <1>6, <1>7, <1>8, <1>9

LEMMA DamageStep ==
  ASSUME JournalInv, NEW i \in Slots, DamageSlot(i)
  PROVE  JournalInv'
<1> USE DEF JournalInv
<1>1. PICK value \in {Empty, Torn} :
        /\ file' = [file EXCEPT !.slots[i] = value]
        /\ durable' = [durable EXCEPT !.slots[i] = value]
  BY DEF DamageSlot
<1>2. /\ UNCHANGED <<holder, pc, usable, items, record, offered, unsure>>
      /\ acked' = {a \in acked : a[1] # i} /\ file.slots[i] # Empty
  BY DEF DamageSlot, processVars
<1>3. /\ file' \in File /\ durable' \in File
      /\ file'.exists = file.exists /\ durable'.exists = durable.exists
      /\ file'.slots[i] = value /\ durable'.slots[i] = value
      /\ \A j \in Slots : j # i => /\ file'.slots[j] = file.slots[j]
                                  /\ durable'.slots[j] = durable.slots[j]
  BY <1>1 DEF JournalTypeOK, File
<1>4. JournalTypeOK'
  BY <1>2, <1>3 DEF JournalTypeOK
<1>5. Control'
  BY <1>2, <1>3 DEF Control, Working, Appending
<1>6. Contents'
  <2>1. \A j \in Slots : file'.slots[j] <= offered'
    BY <1>2, <1>3 DEF Contents, JournalTypeOK, Empty, Torn
  <2>2. \A j \in Slots : file'.slots[j] \in Records => file'.slots[j] = file.slots[j]
    BY <1>3 DEF Empty, Torn, Records
  <2>3. ASSUME NEW p \in Processes, Appending(p)
        PROVE  Room(p)'
    <3>1. /\ record[p] \in Records /\ Room(p) /\ NextSlot(p)' = NextSlot(p)
          /\ NextSlot(p) \in Int /\ record'[p] = record[p] /\ pc' = pc
      BY <1>2, <2>3 DEF Contents, Control, JournalTypeOK, NextSlot
    <3>2. \A j \in Slots : j < NextSlot(p) => file'.slots[j] < record[p]
      BY <1>3, <2>3, <3>1 DEF Room, Empty, Torn, Records
    <3>3. \A j \in Slots : j > NextSlot(p) => file'.slots[j] = Empty
      BY <1>2, <1>3, <2>3, <3>1 DEF Room
    <3>4. NextSlot(p) \in Slots
      BY <2>3, CapacityAssumption DEF Control, JournalTypeOK, NextSlot, Slots
    <3>5. /\ pc[p] = "write" => file'.slots[NextSlot(p)] = Empty
          /\ pc[p] = "finish" => file'.slots[NextSlot(p)] \in {Empty, Torn}
          /\ pc[p] = "sync" => file'.slots[NextSlot(p)] \in {Empty, Torn, record[p]}
      BY <1>2, <1>3, <2>3, <3>1, <3>4 DEF Room
    <3>6. QED BY <3>1, <3>2, <3>3, <3>5 DEF Room
  <2>4. \A p \in Processes : Room(p)'
    BY <1>2, <2>3 DEF Room, Appending
  <2>5. \A j \in Slots : durable'.slots[j] \in {Empty, Torn, file'.slots[j]}
    BY <1>3 DEF Contents
  <2>6. QED BY <2>1, <2>2, <2>4, <2>5 DEF Contents
<1>7. Acks'
  BY <1>2, <1>3 DEF Acks, JournalTypeOK
<1>8. Known'
  BY <1>2 DEF Known, Knows, Ready, Appending
<1>9. Unsure'
  BY <1>2 DEF Unsure, Doubts, Ready, Appending
<1>10. QED BY <1>4, <1>5, <1>6, <1>7, <1>8, <1>9

-----------------------------------------------------------------------------
(* The theorems.                                                           *)

\* The layers hold of every state the journal and its processes can reach.
THEOREM JournalInductive == JournalSpec => []JournalInv
<1>1. JournalInit => JournalInv
  <2> SUFFICES ASSUME JournalInit PROVE JournalInv
    OBVIOUS
  <2>1. JournalTypeOK
    BY CapacityAssumption DEF JournalInit, JournalTypeOK, File, Blank, Empty, Steps
  <2>2. \A p \in Processes : ~Ready(p) /\ ~Appending(p) /\ ~Working(p)
    BY DEF JournalInit, Ready, Appending, Working
  <2>3. Control /\ Known /\ Acks /\ Unsure
    BY <2>2 DEF JournalInit, Control, Known, Knows, Acks, Unsure, Doubts
  <2>4. Contents
    BY <2>2 DEF JournalInit, Contents, Room, Blank, Empty, Torn, Records
  <2>5. QED BY <2>1, <2>3, <2>4 DEF JournalInv
<1>2. JournalInv /\ [JournalNext]_journalVars => JournalInv'
  <2> SUFFICES ASSUME JournalInv, [JournalNext]_journalVars
               PROVE  JournalInv'
    OBVIOUS
  <2>1. ASSUME NEW p \in Processes, OpenStep(p) \/ UseStep(p) \/ Kill(p)
        PROVE  JournalInv'
    BY <2>1, TypeStep, ControlStep, ContentsStep, AcksStep, KnownStep, UnsureStep
       DEF JournalInv
  <2>2. CASE UNCHANGED journalVars
    BY <2>2 DEF journalVars, fileVars, processVars, historyVars, JournalInv, JournalTypeOK, Control,
                Working, Appending, Contents, Room, NextSlot, Acks, Known, Knows,
                Ready, Unsure, Doubts
  <2>3. QED BY <2>1, <2>2, PowerLossStep, DamageStep DEF JournalNext
<1>3. QED BY <1>1, <1>2, PTL DEF JournalSpec

\* The variables keep their types.
THEOREM JournalTypeCorrect == JournalSpec => []JournalTypeOK
<1>1. JournalInv => JournalTypeOK
  BY DEF JournalInv
<1>2. QED BY <1>1, JournalInductive, PTL

\* Where a file's name survives with the file, no kill, failure or power loss
\* loses a record whose append has returned.
THEOREM AcknowledgedNeverLost ==
  ASSUME NamesSurvive
  PROVE  JournalSpec => []AcknowledgedKept
<1>1. JournalInv => AcknowledgedKept
  BY DEF JournalInv, Acks, AcknowledgedKept
<1>2. QED BY <1>1, JournalInductive, PTL

\* There, a journal that opens knows every acknowledged record, in order.
THEOREM LoadedIsComplete ==
  ASSUME NamesSurvive
  PROVE  JournalSpec => []LoadedComplete
<1>1. JournalInv => LoadedComplete
  <2> SUFFICES ASSUME JournalInv, NEW p \in Processes, Ready(p)
               PROVE  /\ \A a \in acked :
                           \E i \in 1..Len(items[p]) : items[p][i] = a[2]
                      /\ \A i, j \in 1..Len(items[p]) :
                           i < j => items[p][i] < items[p][j]
    BY DEF LoadedComplete
  <2>1. Knows(p)
    BY DEF JournalInv, Known
  <2>2. ASSUME NEW a \in acked
        PROVE  \E i \in 1..Len(items[p]) : items[p][i] = a[2]
    <3>1. a[1] \in Slots /\ a[1] <= Len(items[p]) /\ items[p][a[1]] = a[2]
      BY <2>1, <2>2 DEF Knows, JournalInv, JournalTypeOK
    <3>2. Len(items[p]) \in Nat
      BY DEF JournalInv, JournalTypeOK
    <3>3. a[1] \in 1..Len(items[p])
      BY <3>1, <3>2 DEF Slots
    <3>4. QED BY <3>1, <3>3
  <2>3. QED BY <2>1, <2>2 DEF Knows
<1>2. QED BY <1>1, JournalInductive, PTL

\* Nothing is acknowledged after a record whose append failed in the same
\* journal: whatever else happens, self.usable closes it.
THEOREM FailureIsLast == JournalSpec => []NothingAfterFailure
<1>1. JournalInv => NothingAfterFailure
  BY DEF JournalInv, Unsure, Doubts, NothingAfterFailure
<1>2. QED BY <1>1, JournalInductive, PTL

LEMMA EvidenceStays ==
  ASSUME JournalInv, NEW p \in Processes, file.exists, OpenStep(p) \/ UseStep(p),
         NEW i \in Slots, file.slots[i] # Empty
  PROVE  \/ file'.slots[i] = file.slots[i]
         \/ pc[p] = "finish" /\ i = NextSlot(p) /\ file.slots[i] = Torn
<1>1. CASE Quiet(p)
  BY <1>1, QuietIsStable DEF Stable, JournalInv
<1>2. CASE BeginAppend(p)
  BY <1>2 DEF BeginAppend
<1>3. CASE Write(p)
  BY <1>3 DEF Write, PutSlot, JournalInv, Contents, Room, Appending, JournalTypeOK, File
<1>4. CASE FinishWrite(p)
  BY <1>4 DEF FinishWrite, PutSlot, JournalInv, Contents, Room, Appending, JournalTypeOK, File
<1>5. ~Create(p)
  BY DEF Create
<1>6. QED BY <1>1, <1>2, <1>3, <1>4, <1>5 DEF OpenStep, UseStep, Quiet

\* No process ever overwrites a record, or damage it finds.
THEOREM EvidenceNeverOverwritten == JournalSpec => NothingOverwritten
<1>1. JournalInv =>
        \A p \in Processes : file.exists /\ (OpenStep(p) \/ UseStep(p)) =>
          \A i \in Slots : file.slots[i] # Empty =>
            \/ file'.slots[i] = file.slots[i]
            \/ pc[p] = "finish" /\ i = NextSlot(p) /\ file.slots[i] = Torn
  BY EvidenceStays
<1>2. QED BY <1>1, JournalInductive, PTL DEF NothingOverwritten

=============================================================================
