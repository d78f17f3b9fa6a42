---------------------------- MODULE PortfolioRun ----------------------------
(***************************************************************************)
(* The concurrent paper run of scripts/paper_portfolio_until_close.py: one *)
(* coordinator that looks for candidates, reserves cash and starts one     *)
(* worker thread per entry, and the Reservations they share                *)
(* (src/trader_engine/execution/portfolio.py).                             *)
(*                                                                         *)
(* A worker runs PaperExecutor on its own symbol.  Of that this module     *)
(* keeps what PaperExecutor promises: "flat" is only reported of a         *)
(* terminal entry with nothing left to sell, an entry that did not pass    *)
(* its guard was not sent, and anything else is unresolved.  Amounts are   *)
(* whole units of cash; an order for n units costs at most n, its limit    *)
(* price, and a unit held sells for 0 or 2.                                *)
(*                                                                         *)
(* A step ends where the code gives other threads, the broker or a signal  *)
(* a chance to matter: at a lock, a request, a check of "stop" or a write. *)
(* stop.set() and the STOP file are one flag, which is how stopped() reads *)
(* them.  Neither is ever withdrawn.                                       *)
(***************************************************************************)
EXTENDS Integers, FiniteSets, Functions

CONSTANTS
  Symbols,    \* the shortlist
  Cash,       \* min(account cash, equity) at the start of the run
  Target,     \* the largest order the sizing allows
  Retries,    \* calls of resume_drain, 3 in the code
  MaxCycles   \* bound: entries tried in one run

ASSUME SymbolsAssumption == IsFiniteSet(Symbols)
ASSUME AmountsAssumption == Cash \in Nat /\ Target \in Nat \ {0}
ASSUME BoundsAssumption == Retries \in Nat /\ MaxCycles \in Nat

VARIABLES
  \* the coordinator
  main,       \* what it does next
  candidates, \* the candidates of this round it has not come to
  at, free,   \* the candidate at hand; the free cash of its snapshot
  status,     \* state['status']; "finished" is "complete" or "stopped"
  cycles,     \* state['cycles']
  \* shared by all threads
  stop,       \* stopped()
  ledger,     \* Reservations.cash
  active,     \* Reservations.active: cash reserved per symbol, 0 for none
  \* the job of each symbol and the worker that runs it
  worker,     \* what the worker does next; "none" before the first job
  result,     \* status of its last ExecutionResult
  failed,     \* its failed flag
  tries,      \* calls of resume_drain
  \* the broker and the clock
  order,      \* the entry order of the job; "none" also if it got lost
  rem, held,  \* units of it still open, units held
  pnl,        \* proceeds less cost of the job
  cash,       \* cash in the account
  late,       \* utc() >= cutoff
  \* history
  anyFailed   \* some job of the run has failed

coordinatorVars == <<main, candidates, at, free, status, cycles>>
ledgerVars      == <<ledger, active>>
jobVars         == <<worker, result, failed, tries>>
brokerVars      == <<order, rem, held, pnl, cash>>
vars == <<main, candidates, at, free, status, cycles, stop, ledger, active,
          worker, result, failed, tries, order, rem, held, pnl, cash, late,
          anyFailed>>

MainSteps == {"loop", "next", "quote", "start", "drain", "final", "ended"}
WorkerSteps == {"none", "open", "guard", "post", "live", "check", "retry",
                "record", "release", "ending", "done"}
Results == {"none", "flat", "accounting_pending", "not_submitted",
            "unresolved"}

Types ==
  /\ main \in MainSteps /\ candidates \subseteq Symbols /\ at \in Symbols
  /\ cycles \in Nat
  /\ status \in {"running", "needs_attention", "finished"}
  /\ stop \in BOOLEAN /\ late \in BOOLEAN /\ anyFailed \in BOOLEAN
  /\ ledger \in Int /\ active \in [Symbols -> Nat]
  /\ worker \in [Symbols -> WorkerSteps] /\ result \in [Symbols -> Results]
  /\ failed \in [Symbols -> BOOLEAN]
  /\ tries \in [Symbols -> 0..Retries]
  /\ order \in [Symbols -> {"none", "sent", "working", "done"}]
  /\ rem \in [Symbols -> Nat] /\ held \in [Symbols -> Nat]
  /\ pnl \in [Symbols -> Int] /\ cash \in Int

TypeOK == Types /\ free \in Nat

Total(f) == FoldFunctionOnSet(LAMBDA x, y : x + y, 0, f, Symbols)

Least(m, n) == IF m < n THEN m ELSE n

Init ==
  /\ main = "loop" /\ candidates = {} /\ at \in Symbols /\ free = 0
  /\ status = "running" /\ cycles = 0
  /\ stop = FALSE /\ late = FALSE /\ anyFailed = FALSE
  /\ ledger = Cash /\ active = [s \in Symbols |-> 0]
  /\ worker = [s \in Symbols |-> "none"]
  /\ result = [s \in Symbols |-> "none"]
  /\ failed = [s \in Symbols |-> FALSE]
  /\ tries = [s \in Symbols |-> 0]
  /\ order = [s \in Symbols |-> "none"]
  /\ rem = [s \in Symbols |-> 0] /\ held = [s \in Symbols |-> 0]
  /\ pnl = [s \in Symbols |-> 0] /\ cash = Cash

-----------------------------------------------------------------------------
(* Reservations.                                                           *)

Free == IF Total(active) > ledger THEN 0 ELSE ledger - Total(active)

Reservable(s, n) == active[s] = 0 /\ Total(active) + n <= ledger

\* Mutant: a loss is not charged.
LossForgotten(s) == 0

Loss(s) == Least(0, pnl[s])

\* Mutant: whatever came of it, the cash is free again.
ReleasableAlways(s) == result[s] # "none"

Releasable(s) == result[s] \in {"flat", "not_submitted"}

-----------------------------------------------------------------------------
(* The coordinator.                                                        *)

\* The loop's first checks; the audit of the account, the universe and the
\* bars only matter where they raise.
LoopStops ==
  /\ main = "loop" /\ (stop \/ late)
  /\ main' = "drain"
  /\ UNCHANGED <<candidates, at, free, status, cycles, stop, ledgerVars,
                 jobVars, brokerVars, late, anyFailed>>

\* Mutant: a job counts as done before its reservation is released.
TradableEarly(s) == worker[s] \in {"none", "release", "ending", "done"}

\* Not in jobs, or its job is done.
Tradable(s) == worker[s] \in {"none", "done"}

Scan ==
  /\ main = "loop" /\ ~stop /\ ~late
  /\ \E found \in SUBSET {s \in Symbols : Tradable(s)} :
       candidates' = IF cycles < MaxCycles THEN found ELSE {}
  /\ main' = "next"
  /\ UNCHANGED <<at, free, status, cycles, stop, ledgerVars, jobVars,
                 brokerVars, late, anyFailed>>

RoundEnds ==
  /\ main = "next"
  /\ candidates = {} \/ stop \/ late
  /\ main' = "loop" /\ candidates' = {}
  /\ UNCHANGED <<at, free, status, cycles, stop, ledgerVars, jobVars,
                 brokerVars, late, anyFailed>>

\* The next candidate and ledger.snapshot(); with too little free cash the
\* round is over.
NextCandidate(s) ==
  /\ main = "next" /\ s \in candidates /\ ~stop /\ ~late
  /\ IF Free = 0
       THEN main' = "loop" /\ candidates' = {} /\ UNCHANGED <<at, free>>
       ELSE /\ main' = "quote" /\ candidates' = candidates \ {s}
            /\ at' = s /\ free' = Free
  /\ UNCHANGED <<status, cycles, stop, ledgerVars, jobVars, brokerVars, late,
                 anyFailed>>

\* No qualified quote, or no size.
Skip ==
  /\ main = "quote"
  /\ main' = "next" /\ free' = 0
  /\ UNCHANGED <<candidates, at, status, cycles, stop, ledgerVars,
                 jobVars, brokerVars, late, anyFailed>>

\* The size, at most "free" and the cash the account shows, is reserved;
\* reserve() raises where it cannot be.
Reserve(n) ==
  /\ main = "quote" /\ cycles < MaxCycles
  /\ IF Reservable(at, n)
       THEN /\ active' = [active EXCEPT ![at] = n]
            /\ main' = "start" /\ cycles' = cycles + 1
            /\ UNCHANGED <<stop, status>>
       ELSE /\ main' = "drain" /\ stop' = TRUE /\ status' = "needs_attention"
            /\ UNCHANGED <<active, cycles>>
  /\ UNCHANGED <<candidates, at, free, ledger, jobVars, brokerVars, late,
                 anyFailed>>

Sizes == 1..Least(Target, free)

\* jobs[symbol] = job, persist(), and the thread starts.
Start ==
  /\ main = "start"
  /\ worker' = [worker EXCEPT ![at] = "open"]
  /\ result' = [result EXCEPT ![at] = "none"]
  /\ failed' = [failed EXCEPT ![at] = FALSE]
  /\ tries' = [tries EXCEPT ![at] = 0]
  /\ main' = "next" /\ free' = 0
  /\ UNCHANGED <<candidates, at, status, cycles, stop, ledgerVars, brokerVars,
                 late, anyFailed>>

\* A request, a check or a write of the coordinator raises.
CoordinatorRaises ==
  /\ main \in {"loop", "quote", "start"}
  /\ main' = "drain" /\ stop' = TRUE /\ status' = "needs_attention"
  /\ UNCHANGED <<candidates, at, free, cycles, ledgerVars, jobVars, brokerVars,
                 late, anyFailed>>

\* All workers have ended.
Drained ==
  /\ main = "drain"
  /\ \A s \in Symbols : worker[s] \in {"none", "done"}
  /\ main' = "final"
  /\ UNCHANGED <<candidates, at, free, status, cycles, stop, ledgerVars,
                 jobVars, brokerVars, late, anyFailed>>

\* Mutant: the verification looks at the account alone.
CleanAccount == \A s \in Symbols : order[s] # "working" /\ held[s] = 0

\* No position, no open order (one the broker has not accepted yet is not in
\* its list), no failed job.
Clean == \A s \in Symbols : order[s] # "working" /\ held[s] = 0 /\ ~failed[s]

Final ==
  /\ main = "final"
  /\ status' \in IF ~Clean THEN {"needs_attention"}
                 ELSE {"needs_attention",
                       IF status = "running" THEN "finished" ELSE status}
  /\ main' = "ended"
  /\ UNCHANGED <<candidates, at, free, cycles, stop, ledgerVars, jobVars,
                 brokerVars, late, anyFailed>>

-----------------------------------------------------------------------------
(* The workers.                                                            *)

Goes(s, step) == worker' = [worker EXCEPT ![s] = step]

\* failed = True; stop.set()
Fails(s) ==
  failed' = [failed EXCEPT ![s] = TRUE] /\ anyFailed' = TRUE /\ stop' = TRUE

\* Client and journal are open, the sizing is recorded, execute() found its
\* symbol clear and recorded plan and intent.
Open(s) ==
  /\ worker[s] = "open" /\ Goes(s, "guard")
  /\ UNCHANGED <<coordinatorVars, stop, ledgerVars, result, failed, tries,
                 brokerVars, late, anyFailed>>

\* Mutant: the guard only looks at the clock.
GuardAllowsStopped == ~late

\* entry_guard, evaluated after the wait for the rate limiter.
GuardAllows == ~stop /\ ~late

GuardPasses(s) ==
  /\ worker[s] = "guard" /\ GuardAllows
  /\ Goes(s, "post")
  /\ UNCHANGED <<coordinatorVars, stop, ledgerVars, result, failed,
                 tries, brokerVars, late, anyFailed>>

\* The guard says no (also of a stale quote or a full disk) or raises, which
\* the executor cannot tell from a lost answer.
GuardRefuses(s, r) ==
  /\ worker[s] = "guard" /\ r \in {"not_submitted", "unresolved"}
  /\ Goes(s, "check") /\ result' = [result EXCEPT ![s] = r]
  /\ UNCHANGED <<coordinatorVars, stop, ledgerVars, failed, tries,
                 brokerVars, late, anyFailed>>

Post(s) ==
  /\ worker[s] = "post" /\ Goes(s, "live")
  /\ order' = [order EXCEPT ![s] = "sent"]
  /\ rem' = [rem EXCEPT ![s] = active[s]]
  /\ UNCHANGED <<coordinatorVars, stop, ledgerVars, result, failed,
                 tries, held, pnl, cash, late, anyFailed>>

\* What PaperExecutor may report, after it drained.
Reportable(s, r) ==
  \/ r = "unresolved"
  \/ r \in {"flat", "accounting_pending"} /\ order[s] = "done" /\ held[s] = 0

Return(s, r) ==
  /\ worker[s] = "live" /\ Reportable(s, r)
  /\ Goes(s, "check") /\ result' = [result EXCEPT ![s] = r]
  /\ UNCHANGED <<coordinatorVars, stop, ledgerVars, failed, tries, brokerVars,
                 late, anyFailed>>

CheckUnresolved(s) ==
  /\ worker[s] = "check" /\ result[s] = "unresolved"
  /\ Goes(s, "retry") /\ Fails(s)
  /\ UNCHANGED <<coordinatorVars, ledgerVars, result, tries,
                 brokerVars, late>>

CheckGood(s) ==
  /\ worker[s] = "check" /\ Releasable(s)
  /\ Goes(s, "record")
  /\ UNCHANGED <<coordinatorVars, stop, ledgerVars, result, failed, tries,
                 brokerVars, late, anyFailed>>

\* The prices are missing, or storage_failed is set.
CheckDoubtful(s) ==
  /\ worker[s] = "check" /\ result[s] # "unresolved"
  /\ Goes(s, "record") /\ Fails(s)
  /\ UNCHANGED <<coordinatorVars, ledgerVars, result, tries, brokerVars, late>>

TriesLeft(s) == tries[s] < Retries

\* resume_drain()
Retry(s, r) ==
  /\ worker[s] = "retry" /\ TriesLeft(s) /\ Reportable(s, r)
  /\ tries' = [tries EXCEPT ![s] = @ + 1]
  /\ result' = [result EXCEPT ![s] = r]
  /\ Goes(s, IF r = "unresolved" THEN "retry" ELSE "record")
  /\ UNCHANGED <<coordinatorVars, stop, ledgerVars, failed,
                 brokerVars, late, anyFailed>>

\* The tries are used up, or the market has closed.
RetriesEnd(s) ==
  /\ worker[s] = "retry" /\ (~TriesLeft(s) \/ late)
  /\ Goes(s, "record")
  /\ UNCHANGED <<coordinatorVars, stop, ledgerVars, result, failed,
                 tries, brokerVars, late, anyFailed>>

\* The line of cycles.jsonl.
Record(s) ==
  /\ worker[s] = "record" /\ Goes(s, "release")
  /\ UNCHANGED <<coordinatorVars, stop, ledgerVars, result, failed,
                 tries, brokerVars, late, anyFailed>>

\* release_flat(symbol, pnl); nobody asks for these orders again.
Release(s) ==
  /\ worker[s] = "release" /\ Releasable(s)
  /\ ledger' = ledger + Loss(s) /\ active' = [active EXCEPT ![s] = 0]
  /\ order' = [order EXCEPT ![s] = "none"] /\ pnl' = [pnl EXCEPT ![s] = 0]
  /\ Goes(s, "ending")
  /\ UNCHANGED <<coordinatorVars, stop, result, failed, tries, rem, held, cash,
                 late, anyFailed>>

KeepReserved(s) ==
  /\ worker[s] = "release" /\ ~Releasable(s)
  /\ Goes(s, "ending") /\ Fails(s)
  /\ UNCHANGED <<coordinatorVars, ledgerVars, result, tries,
                 brokerVars, late>>

\* An open, a check of execute, a clock read or a write raises.
WorkerRaises(s) ==
  /\ worker[s] \in {"open", "retry", "record"}
  /\ Goes(s, "ending") /\ Fails(s)
  /\ UNCHANGED <<coordinatorVars, ledgerVars, result, tries,
                 brokerVars, late>>

\* job.update(done=True, failed=failed, ...)
End(s) ==
  /\ worker[s] = "ending" /\ Goes(s, "done")
  /\ result' = [result EXCEPT ![s] = "none"]
  /\ tries' = [tries EXCEPT ![s] = 0]
  /\ UNCHANGED <<coordinatorVars, stop, ledgerVars, failed, brokerVars, late,
                 anyFailed>>

-----------------------------------------------------------------------------
(* The broker, the clock and the operator.                                 *)

Accept(s) ==
  /\ order[s] = "sent"
  /\ order' = [order EXCEPT ![s] = "working"]
  /\ UNCHANGED <<coordinatorVars, stop, ledgerVars, jobVars, rem, held, pnl,
                 cash, late, anyFailed>>

Lose(s) ==
  /\ order[s] = "sent"
  /\ order' = [order EXCEPT ![s] = "none"] /\ rem' = [rem EXCEPT ![s] = 0]
  /\ UNCHANGED <<coordinatorVars, stop, ledgerVars, jobVars, held, pnl, cash,
                 late, anyFailed>>

Fill(s, n) ==
  /\ order[s] = "working" /\ n \in 1..rem[s]
  /\ rem' = [rem EXCEPT ![s] = @ - n] /\ held' = [held EXCEPT ![s] = @ + n]
  /\ pnl' = [pnl EXCEPT ![s] = @ - n] /\ cash' = cash - n
  /\ order' = IF n = rem[s] THEN [order EXCEPT ![s] = "done"] ELSE order
  /\ UNCHANGED <<coordinatorVars, stop, ledgerVars, jobVars, late, anyFailed>>

\* Canceled, expired or rejected.
Close(s) ==
  /\ order[s] = "working"
  /\ order' = [order EXCEPT ![s] = "done"] /\ rem' = [rem EXCEPT ![s] = 0]
  /\ UNCHANGED <<coordinatorVars, stop, ledgerVars, jobVars, held, pnl, cash,
                 late, anyFailed>>

\* An exit or the protective stop fills.
Sell(s, n, proceeds) ==
  /\ order[s] = "done" /\ n \in 1..held[s] /\ proceeds \in {0, 2 * n}
  /\ held' = [held EXCEPT ![s] = @ - n]
  /\ pnl' = [pnl EXCEPT ![s] = @ + proceeds] /\ cash' = cash + proceeds
  /\ UNCHANGED <<coordinatorVars, stop, ledgerVars, jobVars, order, rem, late,
                 anyFailed>>

Broker(s) ==
  \/ Accept(s) \/ Lose(s) \/ Close(s)
  \/ \E n \in 1..rem[s] : Fill(s, n)
  \/ \E n \in 1..held[s] : \E p \in {0, 2 * n} : Sell(s, n, p)

Cutoff ==
  /\ ~late /\ late' = TRUE
  /\ UNCHANGED <<coordinatorVars, stop, ledgerVars, jobVars, brokerVars,
                 anyFailed>>

\* SIGINT, SIGTERM or the STOP file.
RequestStop ==
  /\ ~stop /\ stop' = TRUE
  /\ UNCHANGED <<coordinatorVars, ledgerVars, jobVars, brokerVars, late,
                 anyFailed>>

-----------------------------------------------------------------------------

Coordinator ==
  \/ LoopStops \/ Scan \/ RoundEnds \/ Skip \/ Start \/ CoordinatorRaises
  \/ Drained \/ Final
  \/ \E s \in candidates : NextCandidate(s)
  \/ \E n \in Sizes : Reserve(n)

Worker(s) ==
  \/ Open(s) \/ GuardPasses(s) \/ Post(s) \/ CheckUnresolved(s)
  \/ CheckGood(s) \/ CheckDoubtful(s) \/ RetriesEnd(s) \/ Record(s)
  \/ Release(s) \/ KeepReserved(s) \/ WorkerRaises(s) \/ End(s)
  \/ \E r \in Results : GuardRefuses(s, r) \/ Return(s, r) \/ Retry(s, r)

Ended == main = "ended" /\ UNCHANGED vars

Next ==
  \/ Coordinator \/ Cutoff \/ RequestStop \/ Ended
  \/ \E s \in Symbols : Worker(s) \/ Broker(s)

Spec == Init /\ [][Next]_vars

-----------------------------------------------------------------------------
(* Properties.                                                             *)

\* Whatever the broker holds or may still buy for a symbol is charged to its
\* reservation: "Reservations stay charged until an exit is confirmed flat;
\* never recycle uncertainty" (portfolio.py), across failures, retries and the
\* jobs that follow on the symbol.
ExposedIsReserved == \A s \in Symbols : held[s] + rem[s] <= active[s]

\* The run buys for cash only: if every order that is out fills at its limit,
\* after every loss so far, the account still does not owe.
CashOnly == Total(rem) <= cash

\* Between the snapshot and reserve() the workers may release and fail as
\* they like, and a job may end just before its symbol is looked at: the
\* reservation is never refused, which would end the whole run.
ReserveNeverRefused ==
  main = "quote" => \A n \in Sizes : Reservable(at, n)

\* Both at once: what is reserved fits the cash, and what fits is reserved.
ReservationsFit == CashOnly /\ ReserveNeverRefused

\* After a job has failed no entry passes its guard any more, on any symbol,
\* whatever was under way.
NoEntryAfterFailure ==
  [][\A s \in Symbols :
       worker[s] = "guard" /\ worker'[s] = "post" => ~anyFailed]_vars

\* A run that ends without asking for attention left the account flat, and no
\* job failed in it, not even one whose entry in "jobs" a later job replaced.
FinalIsHonest ==
  main = "ended" /\ status = "finished" =>
    /\ ~anyFailed
    /\ \A s \in Symbols : held[s] = 0 /\ rem[s] = 0

=============================================================================
