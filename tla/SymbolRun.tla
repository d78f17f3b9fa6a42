----------------------------- MODULE SymbolRun -----------------------------
(***************************************************************************)
(* The two runners that trade one symbol after another until the close     *)
(* (scripts/paper_breakout_until_close.py and scripts/paper_until_close.py)*)
(* with the executor of PaperExecutor reduced to its results.  "stage" is  *)
(* the next call of run(); the broker, a signal or STOP file, other orders *)
(* of the account, both clocks, the disk and a kill act between calls.     *)
(* The broker's clock is the steady one; the local one may be set.  A      *)
(* quote is good or not, a signal is the minute that confirmed it, and     *)
(* sizes and prices are those of EntrySizing.                              *)
(***************************************************************************)
EXTENDS Integers, FiniteSets

CONSTANTS RunSymbols,   \* SYMBOLS
          EntryCutoff,  \* minutes of the session with entries
          ExitPause,    \* 5 minutes between an exit and the next entry
          LastMinute,   \* bound: the last minute
          MaxCycles     \* bound: cycles of a run

ASSUME RunAssumption ==
    EntryCutoff \in 1..LastMinute /\ ExitPause \in Nat /\ LastMinute \in Nat /\ MaxCycles \in Nat

VARIABLES script,     \* which of the two runners
          runStage, steady, local, asked, foreign, writable,
          record,     \* state: status, reason, cycles, plan, recovered
          onFile,     \* status.json: the status and the plan it names
          shown,      \* the cycle whose quote is accepted in quote_decisions.jsonl
          logged,     \* cycles.jsonl: the cycles, and whether their storage failed
          signal,     \* the breakout the bars show: symbol -> minute, 0 for none
          seen, lastExit,    \* seen_signals, last_exit (a minute, -ExitPause before)
          trade,      \* the executor: what it owns and the answer it gave
          entries     \* history: the entries posted

runVars == <<script, runStage, steady, local, asked, foreign, writable, record, onFile, shown, logged,
             signal, seen, lastExit, trade, entries>>

NoOpenTrade == [sym |-> "none", sig |-> 0, open |-> FALSE, active |-> FALSE, result |-> "none", bought |-> FALSE, tries |-> 0]
Exposed == foreign \/ trade.open

RunInit ==
    /\ script = "none" /\ runStage = "idle" /\ steady = 0 /\ local = 0
    /\ asked = FALSE /\ foreign = FALSE /\ writable = TRUE
    /\ record = [status |-> "none", reason |-> "none", cycles |-> 0, plan |-> "none", recovered |-> FALSE]
    /\ onFile = [status |-> "none", plan |-> "none"] /\ shown = 0 /\ logged = {}
    /\ signal = [s \in RunSymbols |-> 0] /\ seen = {} /\ lastExit = [s \in RunSymbols |-> -ExitPause]
    /\ trade = NoOpenTrade /\ entries = {}

-----------------------------------------------------------------------------
(* The world of a runner. *)

Alive == runStage \notin {"idle", "ended", "killed"}
OwnState == <<script, runStage, record, onFile, shown, logged, seen, lastExit, trade, entries>>

MinutePasses ==
    /\ Alive /\ steady < LastMinute /\ steady' = steady + 1 /\ local' = IF local < LastMinute THEN local + 1 ELSE local
    /\ UNCHANGED <<asked, foreign, writable, signal, OwnState>>
ClockIsSet == /\ Alive /\ local # steady - 1 /\ steady > 0 /\ local' = steady - 1
              /\ UNCHANGED <<steady, asked, foreign, writable, signal, OwnState>>
StopAsked == /\ Alive /\ ~asked /\ asked' = TRUE
             /\ UNCHANGED <<steady, local, foreign, writable, signal, OwnState>>
OtherOrder == /\ Alive /\ ~foreign /\ foreign' = TRUE
              /\ UNCHANGED <<steady, local, asked, writable, signal, OwnState>>
DiskTurns == /\ Alive /\ writable' = ~writable
             /\ UNCHANGED <<steady, local, asked, foreign, signal, OwnState>>
Breakout(s) == /\ Alive /\ script = "breakout" /\ signal[s] # steady /\ signal' = [signal EXCEPT ![s] = steady]
               /\ UNCHANGED <<steady, local, asked, foreign, writable, OwnState>>
Killed == /\ Alive /\ runStage' = "killed"
          /\ UNCHANGED <<steady, local, asked, foreign, writable, signal, script, record, onFile, shown,
                         logged, seen, lastExit, trade, entries>>

-----------------------------------------------------------------------------
(* run() *)

\* A new output directory, the signal handlers, the first status.json; the
\* account may hold anything.
RunBegins(which, held) ==
    /\ runStage = "idle" /\ runStage' = "preflight" /\ script' = which /\ foreign' = held
    /\ record' = [record EXCEPT !.status = "preflight"] /\ onFile' = [onFile EXCEPT !.status = "preflight"]
    /\ UNCHANGED <<steady, local, asked, writable, signal, shown, logged, seen, lastExit, trade, entries>>

world == <<script, steady, local, asked, foreign, writable, signal>>

\* entry_window_open; the cyclic runner's closes 2 minutes before the close,
\* the other one's 5: both are EntryCutoff.
EntryWindowOpen == steady < EntryCutoff /\ local < EntryCutoff

\* save: a temporary file replaces status.json, or it raises.
Save(r) == writable /\ onFile' = [status |-> r.status, plan |-> r.plan]

\* The handler of an exception: stop everything, give an executor that still
\* owns a plan one drain while the market is open; a drain may not be flat.
RaiseWith(r, t) ==
    /\ record' = [r EXCEPT !.status = "needs_attention"] /\ runStage' = "verify"
    /\ trade' \in {[t EXCEPT !.active = FALSE]}
                  \cup (IF t.active THEN {[t EXCEPT !.active = FALSE, !.open = FALSE]} ELSE {})
Raise == RaiseWith(record, trade) /\ UNCHANGED <<onFile, shown, logged, seen, lastExit, entries>>
Break(r) == /\ record' = [r EXCEPT !.status = IF @ = "running" THEN "stopped" ELSE @] /\ runStage' = "verify"
            /\ UNCHANGED <<trade, onFile, shown, logged, seen, lastExit, entries>>

\* Any of the broker's answers, or any write, may fail.
CallFails ==
    /\ runStage \in {"preflight", "top", "choose", "journal", "resume", "report"} /\ Raise /\ UNCHANGED world

Preflight(blocked) ==
    LET r == [record EXCEPT !.status = "running"]
    IN  /\ runStage = "preflight" /\ UNCHANGED world
        /\ IF EntryWindowOpen /\ ~Exposed /\ ~blocked /\ writable
           THEN /\ Save(r) /\ record' = r /\ runStage' = "top"
                /\ UNCHANGED <<shown, logged, seen, lastExit, trade, entries>>
           ELSE Raise

\* The checks of a round, in the order of the code.
RoundChecks(lowDisk, blocked, lost) ==
    /\ runStage = "top" /\ UNCHANGED world
    /\ CASE asked -> Break([record EXCEPT !.reason = "stop_requested"])
         [] ~asked /\ ~EntryWindowOpen -> Break([record EXCEPT !.reason = "close_cutoff"])
         [] ~asked /\ EntryWindowOpen /\ lowDisk -> Break([record EXCEPT !.reason = "low_disk_space"])
         [] ~asked /\ EntryWindowOpen /\ ~lowDisk /\ (Exposed \/ blocked) -> Raise
         [] ~asked /\ EntryWindowOpen /\ ~lowDisk /\ ~Exposed /\ ~blocked /\ lost ->
              Break([record EXCEPT !.reason = "session_loss_cutoff"])
         [] OTHER -> /\ runStage' = "choose"
                     /\ UNCHANGED <<record, onFile, shown, logged, seen, lastExit, trade, entries>>

\* No candidate, or a quote that does not qualify: save the status and go on.
Skip == /\ runStage = "choose" /\ UNCHANGED world
        /\ IF writable
           THEN Save(record) /\ runStage' = "top" /\ UNCHANGED <<record, shown, logged, seen, lastExit, trade, entries>>
           ELSE Raise

\* A breakout not acted on yet, of a symbol that has paused since its exit.
\* The candidate with the largest relative volume is any of them here.
Candidate(s) == signal[s] # 0 /\ <<s, signal[s]>> \notin seen /\ local >= lastExit[s] + ExitPause

\* The quote of the candidate is retrieved, judged twice and each judgement is
\* stored before it is used (record_quote_decision raises when it cannot be).
\* The signal counts as seen, the status file names the plan, and only then
\* is there a journal and an executor.
PlanFor(s) ==
    LET r == [record EXCEPT !.cycles = @ + 1, !.plan = s]
    IN  /\ record.cycles < MaxCycles /\ record' = r /\ Save(r)
        /\ trade' = [NoOpenTrade EXCEPT !.sym = s, !.sig = signal[s]] /\ runStage' = "journal"
        /\ UNCHANGED <<logged, lastExit, entries>>
BreakoutEntry(s) ==
    /\ script = "breakout" /\ runStage = "choose" /\ Candidate(s) /\ UNCHANGED world
    /\ PlanFor(s) /\ seen' = seen \cup {<<s, signal[s]>>} /\ shown' = record.cycles + 1
CyclicEntry(s) ==
    /\ script = "cyclic" /\ runStage = "choose" /\ UNCHANGED world
    /\ PlanFor(s) /\ UNCHANGED <<seen, shown>>
SizeRejected == /\ runStage = "choose" /\ UNCHANGED world /\ Break([record EXCEPT !.reason = "rejected_size"])

\* The reserved journal is created and the sizing quote appended; then
\* execute() finds the account exposed, or owns the plan (it is in the journal).
ExecuteBegins ==
    /\ runStage = "journal" /\ UNCHANGED world
    /\ IF writable /\ ~Exposed
       THEN /\ trade' = [trade EXCEPT !.active = TRUE] /\ runStage' = "guard"
            /\ UNCHANGED <<record, onFile, shown, logged, seen, lastExit, entries>>
       ELSE Raise

\* entry_guard, called by the client right before the POST: the stop flags, both
\* clocks, the quote once more, the disk.  The breakout runner stores that
\* judgement; failing to leaves the submission unproven.
GuardUntimed(good) == ~asked /\ good
GuardHolds(good) == ~asked /\ local < EntryCutoff /\ steady < EntryCutoff /\ good
Answer(t) == trade' = t /\ runStage' = "resume"
Guard(good) ==
    /\ runStage = "guard" /\ UNCHANGED <<world, record, onFile, shown, logged, seen, lastExit>>
    /\ CASE script = "breakout" /\ ~writable /\ ~asked /\ EntryWindowOpen ->
              Answer([trade EXCEPT !.result = "needs_reconciliation"]) /\ UNCHANGED entries
         [] GuardHolds(good) /\ (script = "cyclic" \/ writable) ->
              /\ trade' = [trade EXCEPT !.open = TRUE] /\ runStage' = "work"
              /\ entries' = entries \cup {[sym |-> trade.sym, sig |-> trade.sig, cycle |-> record.cycles,
                                          local |-> local, onFile |-> onFile.plan, shown |-> shown]}
         [] OTHER -> Answer([trade EXCEPT !.active = FALSE, !.result = "not_submitted"]) /\ UNCHANGED entries

\* The rest of execute(), hold callback included: flat, with or without
\* anything bought or a price for it, or an exposure it could not prove flat.
Executed(result, bought) ==
    /\ runStage = "work" /\ UNCHANGED <<world, record, onFile, shown, logged, seen, lastExit, entries>>
    /\ result = "flat_accounting_pending" => bought
    /\ Answer([trade EXCEPT !.result = result, !.bought = bought, !.active = result = "needs_reconciliation",
                            !.open = result = "needs_reconciliation"])

\* Up to three more drains while the market is open.
DrainsAgain(isOpen) == isOpen /\ trade.tries <= 3
DrainsLeft(isOpen) == isOpen /\ trade.tries < 3
Resume(flat, isOpen) ==
    /\ runStage = "resume" /\ UNCHANGED <<world, onFile, shown, logged, seen, lastExit, entries>>
    /\ IF trade.result = "needs_reconciliation"
       THEN /\ record' = [record EXCEPT !.recovered = TRUE]
            /\ IF DrainsLeft(isOpen)
               THEN IF flat
                    THEN /\ trade' = [trade EXCEPT !.result = "flat", !.open = FALSE, !.active = FALSE, !.bought = TRUE]
                         /\ runStage' = "report"
                    ELSE trade' = [trade EXCEPT !.tries = @ + 1] /\ runStage' = "resume"
               ELSE runStage' = "report" /\ UNCHANGED trade
       ELSE runStage' = "report" /\ UNCHANGED <<record, trade>>

\* What ends the run after a cycle: the cyclic runner stops for an entry that
\* was not submitted, too, and reports it as needing attention.  Both stop
\* when the executor's storage failed, in its result, or its entries are
\* blocked: a failure blocks them, and so does a stop request.
Unfinished ==
    \/ trade.result \notin {"flat"} \cup (IF script = "breakout" THEN {"not_submitted"} ELSE {})
    \/ record.recovered
\* Mutant: the executor's own latches are not asked.
HaltsOnResult(storage, blocked) == Unfinished
Halts(storage, blocked) == Unfinished \/ storage \/ blocked
CycleRow(cycle, storage) == [cycle |-> cycle, storage |-> storage]
ReportCycle(storage, blocked) ==
    /\ runStage = "report" /\ UNCHANGED <<world, shown, seen, entries>>
    /\ storage => blocked
    /\ IF ~writable
       THEN Raise
       ELSE /\ logged' = logged \cup {CycleRow(record.cycles, storage)}
            /\ IF Halts(storage, blocked)
               THEN /\ record' = [record EXCEPT !.reason = "executor_halted",
                          !.status = IF trade.result \in {"flat", "flat_accounting_pending"}
                                     THEN "stopped" ELSE "needs_attention"]
                    /\ runStage' = "verify" /\ UNCHANGED <<trade, onFile, lastExit>>
               ELSE /\ runStage' = "close" /\ UNCHANGED <<record, onFile, trade>>
                    /\ lastExit' = IF trade.bought THEN [lastExit EXCEPT ![trade.sym] = local] ELSE lastExit

\* The status file stops naming the plan only now.
CloseCycle ==
    LET r == [record EXCEPT !.plan = "none"]
    IN  /\ runStage = "close" /\ UNCHANGED world
        /\ IF writable
           THEN /\ Save(r) /\ record' = r /\ runStage' = "top" /\ trade' = NoOpenTrade
                /\ UNCHANGED <<shown, logged, seen, lastExit, entries>>
           ELSE RaiseWith(r, NoOpenTrade) /\ UNCHANGED <<onFile, shown, logged, seen, lastExit, entries>>

\* The finally clause: look at the account, and only call the run complete when
\* it reached the cutoff without trouble and nothing is left.
Verdict(read) ==
    IF ~read \/ Exposed THEN "needs_attention"
    ELSE IF record.reason = "close_cutoff" /\ record.status # "needs_attention" THEN "complete"
    ELSE record.status
Verify(read) ==
    LET r == [record EXCEPT !.status = Verdict(read)]
    IN  /\ runStage = "verify" /\ UNCHANGED <<world, shown, logged, seen, lastExit, trade, entries>>
        /\ record' = r /\ runStage' = "ended"
        /\ IF writable THEN Save(r) ELSE UNCHANGED onFile

\* The loop is the same in both scripts but for the candidate.
SharedRun ==
    \/ CallFails \/ Skip \/ SizeRejected \/ ExecuteBegins \/ CloseCycle
    \/ \E b \in BOOLEAN : Preflight(b) \/ Guard(b) \/ Verify(b)
    \/ \E d, b, l \in BOOLEAN : RoundChecks(d, b, l)
    \/ \E res \in {"flat", "flat_accounting_pending", "needs_reconciliation"}, b \in BOOLEAN : Executed(res, b)
    \/ \E f, o \in BOOLEAN : Resume(f, o)
    \/ \E s, b \in BOOLEAN : ReportCycle(s, b)
CyclicRun == script = "cyclic" /\ (SharedRun \/ \E s \in RunSymbols : CyclicEntry(s))
BreakoutRun == script = "breakout" /\ (SharedRun \/ \E s \in RunSymbols : BreakoutEntry(s))

RunNext ==
    \/ \E which \in {"breakout", "cyclic"}, held \in BOOLEAN : RunBegins(which, held)
    \/ CyclicRun \/ BreakoutRun
    \/ MinutePasses \/ ClockIsSet \/ StopAsked \/ OtherOrder \/ DiskTurns \/ Killed
    \/ \E s \in RunSymbols : Breakout(s)

RunSpec == RunInit /\ [][RunNext]_runVars

-----------------------------------------------------------------------------
RunTypeOK ==
    /\ steady \in 0..LastMinute /\ local \in 0..LastMinute /\ record.cycles \in 0..MaxCycles
    /\ onFile.plan \in RunSymbols \cup {"none"} /\ logged \subseteq [cycle : 1..MaxCycles, storage : BOOLEAN] /\ trade.tries \in 0..3

\* Whatever the runner has open is named by the status file, also after a kill
\* or while the disk refuses writes, and by the end it has asked for attention.
ExposureIsOnFile ==
    /\ trade.open => onFile.plan = trade.sym
    /\ runStage = "ended" /\ trade.open => record.status = "needs_attention" /\ onFile.status # "complete"

\* The cycles in the record whose storage held.
Recorded(cycles) == {CycleRow(c, FALSE) : c \in cycles}

\* Entries are posted one cycle after another, the earlier ones in the record
\* with their storage sound; a signal is not entered twice, and the breakout
\* runner holds the stored judgement of the quote it entered on.
EntriesAreDue ==
    \A e \in entries :
        /\ e.local < EntryCutoff /\ e.onFile = e.sym
        /\ script = "breakout" => e.shown = e.cycle
        /\ \A f \in entries :
              /\ f.cycle = e.cycle => f = e
              /\ f.cycle < e.cycle => Recorded({f.cycle}) \subseteq logged
              /\ script = "breakout" /\ f # e /\ f.sym = e.sym => f.sig # e.sig

\* A run is complete only if every cycle it began is in the record, no storage
\* failed in any, none had to be recovered and nothing is open.
CompleteIsClean ==
    onFile.status = "complete" => ~trade.open /\ logged = Recorded(1..record.cycles) /\ ~record.recovered

RunIsSound == ExposureIsOnFile /\ EntriesAreDue /\ CompleteIsClean
=============================================================================
