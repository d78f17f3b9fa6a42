--------------------------- MODULE PaperExecutor ---------------------------
(***************************************************************************)
(* PaperExecutor of src/trader_engine/execution/lifecycle.py, running one  *)
(* TradePlan against the paper broker, with the durable journal it writes  *)
(* and the processes it lives in.                                          *)
(*                                                                         *)
(* The executor is sequential code that talks to the broker and the        *)
(* journal.  Each call it makes is one action here; what it computes       *)
(* between two calls belongs to the action before them.  The broker, the   *)
(* signal handler and a crash act between any two calls.  "pc" names the   *)
(* call the executor makes next:                                           *)
(*                                                                         *)
(*   plan, intent, recheck, post, ack, ambiguous     execute and _send     *)
(*   term, poll                                      _terminal             *)
(*   drain, decide, reconcile, residual, position, flatcheck      _drain   *)
(*   hold                                            hold_breakout         *)
(*   adopt, verify, snapshot, adopted                adopt_protected       *)
(*   report                      the result record at the end of a call    *)
(*                                                                         *)
(* A read is retried read_retries times in the code; here it succeeds, or  *)
(* all its attempts fail (ReadFails).  The identity checks of _validate    *)
(* reject an answer the same way: they raise, and ReadFails stands for     *)
(* them too.  self.requested and self.uncertain hold no decision of their  *)
(* own: an ID is in them only while it is in self.attempted, which every   *)
(* reader tests as well.  stop_requested is only tested together with      *)
(* entries_blocked, which stop() sets with it, so "blocked" is both.       *)
(***************************************************************************)
EXTENDS PaperBroker

CONSTANTS
  HoldEnabled,  \* a hold_callback is installed (hold_breakout)
  Polls,        \* polls per phase of _terminal
  MaxLives      \* bound: processes this plan is handled by, one after another

ASSUME FlagsAssumption == HoldEnabled \in BOOLEAN
ASSUME BoundsAssumption == Polls \in Nat \ {0} /\ MaxLives \in Nat \ {0}

VARIABLES
  \* control
  pc,           \* the next call of the executor, "idle" between API calls
  mode,         \* the API call in progress
  cur,          \* the client ID at hand
  call,         \* what the order at hand is for: the caller of _send/_terminal
  phase, polls, \* _terminal: 1 before its cancel, 2 after; 3 cancelled at once
  sold,         \* _drain, protected_snapshot: shares sold by the exits seen
  \* what the process remembers
  cache,        \* self.cache, NoOrder for an ID not in it
  attempted,    \* self.attempted
  storageFailed, blocked,      \* self.storage_failed, self.entries_blocked
  active, liveOwned, completed,
  result,       \* status of the last ExecutionResult
  \* the journal file
  jPlan, jAttempts, jDrain,    \* plan, attempt and drain_requested records
  disk,         \* "ok", "failed" (appends raise), "corrupt" (reads raise too)
  swing,        \* plan.horizon = "swing" (otherwise "intraday"); it stays
  \* history
  posts,        \* POSTs made per client ID, over all processes
  life          \* number of the current process

localVars   == <<cur, call, phase, polls, sold>>
controlVars == <<pc, mode, localVars>>
memoryVars  == <<cache, attempted>>
flagVars    == <<active, liveOwned, completed>>
journalVars == <<jPlan, jAttempts, jDrain>>
historyVars == <<posts, life, swing>>
vars == <<order, position, account, foreign, pc, mode, cur, call, phase, polls,
          sold, cache, attempted, storageFailed, blocked, active, liveOwned,
          completed, result, jPlan, jAttempts, jDrain, disk, posts, life, swing>>

Modes == {"none", "execute", "resume", "recover", "adopt"}
Calls == {"entry", "ack", "drain", "protect", "hold", "sell", "reconcile"}
Steps == {"idle", "plan", "intent", "recheck", "post", "ack", "ambiguous",
          "term", "poll", "drain", "decide", "hold", "reconcile", "residual",
          "position", "flatcheck", "adopt", "verify", "snapshot", "adopted",
          "report"}
Results == {"none", "holding_protected", "flat", "not_submitted",
            "needs_reconciliation"}

TypeOK ==
  /\ BrokerTypeOK
  /\ pc \in Steps /\ mode \in Modes /\ call \in Calls
  /\ cur \in Ids /\ phase \in {1, 2, 3} /\ polls \in 0..Polls
  /\ sold \in Nat
  /\ cache \in [Ids -> OrderRecord]
  /\ attempted \subseteq Ids
  /\ storageFailed \in BOOLEAN /\ blocked \in BOOLEAN
  /\ active \in BOOLEAN /\ liveOwned \in BOOLEAN /\ completed \in BOOLEAN
  /\ result \in Results
  /\ jPlan \in BOOLEAN /\ jAttempts \subseteq Ids /\ jDrain \in BOOLEAN
  /\ disk \in {"ok", "failed", "corrupt"}
  /\ posts \in [Ids -> Nat]
  /\ life \in 1..MaxLives /\ swing \in BOOLEAN

-----------------------------------------------------------------------------
(* The executor's own view of its orders.                                  *)

Cached(c) == cache[c].status # "absent"

\* Mutant: a pending cancel counts as done.
TerminalOnPendingCancel(c) ==
  cache[c].status \in TerminalStatus \cup {"canceling"}

Terminal(c) == cache[c].status \in TerminalStatus

Acquired == cache[Entry].filled

Residual == Acquired - sold

\* "absent" of _drain once every reserved exit has been looked up: a found
\* exit is added to self.attempted, an attempted one that is absent raises.
UnusedExits == Exits \ attempted

FirstUnused(c) == \A d \in UnusedExits : c <= d

-----------------------------------------------------------------------------
(* The journal.  A failed append makes the journal unusable; its record    *)
(* may be in the file all the same, or half of it, which a later read      *)
(* rejects.                                                                *)

AfterDiskFailure == IF disk = "ok" THEN {"failed", "corrupt"} ELSE {disk}

\* _event: a failure is remembered, never raised.  A telemetry failure of the
\* broker client counts as one, with the record written.
EventOutcome ==
  \/ disk = "ok" /\ UNCHANGED <<disk, storageFailed>>
  \/ disk' \in AfterDiskFailure \cup {disk} /\ storageFailed' = TRUE

RecordEvent == EventOutcome /\ blocked' = (blocked \/ storageFailed')

\* _validate: keep the broker's answer in memory first, then journal it.
Validate(c) ==
  /\ cache' = [cache EXCEPT ![c] = order[c]]
  /\ RecordEvent

Recorded == disk = "ok" /\ UNCHANGED disk

NotRecorded == disk' \in AfterDiskFailure

\* What the file may hold after an append that raised.
Landed(before, after) == IF disk = "ok" THEN {before, after} ELSE {before}

StorageFailure == storageFailed' = TRUE /\ blocked' = TRUE

-----------------------------------------------------------------------------
(* How a call ends.                                                        *)

\* The locals of a call are gone with it.
NoLocals ==
  cur' = Entry /\ call' = "entry" /\ phase' = 1 /\ polls' = 0 /\ sold' = 0

Idle == pc' = "idle" /\ mode' = "none" /\ NoLocals

\* An exception leaves _drain (or execute, adopt_protected, recover): the
\* plan stays active and the result is needs_reconciliation.
Raise ==
  /\ result' = "needs_reconciliation"
  /\ blocked' = TRUE
  /\ IF mode = "adopt" THEN Idle
                       ELSE pc' = "report" /\ NoLocals /\ UNCHANGED mode
  /\ UNCHANGED <<active, liveOwned, completed>>

Fail == Raise /\ UNCHANGED <<brokerVars, memoryVars, storageFailed,
                            journalVars, disk, historyVars>>

\* EntryBlocked leaves execute: nothing was submitted, no plan is active.
EntryBlocked ==
  /\ active' = FALSE
  /\ Idle
  /\ UNCHANGED <<brokerVars, memoryVars, liveOwned, completed, result, jPlan,
                 jDrain, historyVars>>

\* The last statement of execute, resume_drain and recover.
Report ==
  /\ pc = "report"
  /\ RecordEvent
  /\ Idle
  /\ UNCHANGED <<brokerVars, memoryVars, flagVars, result, journalVars,
                 historyVars>>

\* The calls that read the broker; a read whose attempts all fail raises.
ReadSteps == {"ambiguous", "poll", "drain", "reconcile", "residual",
              "position", "flatcheck", "adopt", "verify", "snapshot"}

ReadFails == pc \in ReadSteps /\ Fail

-----------------------------------------------------------------------------
(* execute, up to the entry's _send.                                       *)

AccountIsClear == account.open = {} /\ ~foreign /\ account.position = 0

\* TradePlan.create makes a new plan, so only its first process executes it.
\* A call the preflight refuses changes nothing and is not an action.
Execute ==
  /\ pc = "idle" /\ life = 1
  /\ ~active /\ ~completed /\ ~blocked
  /\ AccountIsClear
  /\ pc' = "plan" /\ mode' = "execute" /\ result' = "none"
  /\ UNCHANGED <<brokerVars, memoryVars, localVars, storageFailed, blocked,
                 flagVars, journalVars, disk, historyVars>>

\* The preflight reads broke the broker client's telemetry, or the ownership
\* plan could not be written: no entry, in this process, ever.
PlanRefused ==
  /\ pc = "plan"
  /\ \/ UNCHANGED <<disk, jPlan>>
     \/ NotRecorded /\ jPlan' \in Landed(jPlan, TRUE)
  /\ StorageFailure
  /\ Idle
  /\ UNCHANGED <<brokerVars, memoryVars, flagVars, result, jAttempts, jDrain,
                 historyVars>>

PlanRecorded ==
  /\ pc = "plan"
  /\ Recorded
  /\ jPlan' = TRUE
  /\ active' = TRUE /\ liveOwned' = TRUE
  /\ pc' = "intent" /\ cur' = Entry /\ call' = "entry"
  /\ UNCHANGED <<brokerVars, memoryVars, mode, phase, polls, sold,
                 storageFailed, blocked, completed, result, jAttempts, jDrain,
                 historyVars>>

-----------------------------------------------------------------------------
(* _send.  The branch for an ID already attempted (look it up instead) is  *)
(* never taken from here: SendsAreFresh.                                   *)

\* Mutant: exits never need a durable intent.
EntryMustBeDurable == cur = Entry

MustBeDurable == cur = Entry \/ swing

IntentBlocked ==
  /\ pc = "intent" /\ cur = Entry /\ blocked
  /\ EntryBlocked
  /\ UNCHANGED <<storageFailed, blocked, jAttempts, disk>>

IntentRecorded ==
  /\ pc = "intent" /\ MustBeDurable
  /\ ~(cur = Entry /\ blocked)
  /\ Recorded
  /\ jAttempts' = jAttempts \cup {cur}
  /\ pc' = "recheck"
  /\ UNCHANGED <<brokerVars, memoryVars, mode, localVars, storageFailed,
                 blocked, flagVars, result, jPlan, jDrain, historyVars>>

EntryIntentLost ==
  /\ pc = "intent" /\ cur = Entry /\ ~blocked
  /\ NotRecorded /\ jAttempts' \in Landed(jAttempts, jAttempts \cup {cur})
  /\ StorageFailure
  /\ EntryBlocked

SwingExitIntentLost ==
  /\ pc = "intent" /\ cur # Entry /\ MustBeDurable
  /\ NotRecorded /\ jAttempts' \in Landed(jAttempts, jAttempts \cup {cur})
  /\ storageFailed' = TRUE
  /\ Raise
  /\ UNCHANGED <<brokerVars, memoryVars, jPlan, jDrain, historyVars>>

\* An intraday exit is sent whether or not its intent could be written.
IntentBestEffort ==
  /\ pc = "intent" /\ ~MustBeDurable
  /\ RecordEvent
  /\ jAttempts' \in IF disk' = "ok" THEN {jAttempts \cup {cur}}
                    ELSE Landed(jAttempts, jAttempts \cup {cur})
  /\ pc' = "recheck"
  /\ UNCHANGED <<brokerVars, memoryVars, mode, localVars, flagVars, result,
                 jPlan, jDrain, historyVars>>

\* A stop that arrived while the intent was written.
RecheckBlocked ==
  /\ pc = "recheck" /\ cur = Entry /\ blocked
  /\ EntryBlocked
  /\ UNCHANGED <<storageFailed, blocked, jAttempts, disk>>

\* Mutants: the attempt is not remembered; the stop flag is not rechecked.
RecheckPassedForgets ==
  /\ pc = "recheck"
  /\ ~(cur = Entry /\ blocked)
  /\ pc' = "post"
  /\ UNCHANGED <<brokerVars, mode, localVars, memoryVars, storageFailed,
                 blocked, flagVars, result, journalVars, disk, historyVars>>

RecheckPassedUnchecked ==
  /\ pc = "recheck"
  /\ attempted' = attempted \cup {cur}
  /\ pc' = "post"
  /\ UNCHANGED <<brokerVars, mode, localVars, cache, storageFailed, blocked,
                 flagVars, result, journalVars, disk, historyVars>>

RecheckPassed ==
  /\ pc = "recheck"
  /\ ~(cur = Entry /\ blocked)
  /\ attempted' = attempted \cup {cur}
  /\ pc' = "post"
  /\ UNCHANGED <<brokerVars, mode, localVars, cache, storageFailed, blocked,
                 flagVars, result, journalVars, disk, historyVars>>

\* Mutant: a market exit sells everything bought.
SendQuantityAcquired == IF call = "entry" THEN Quantity ELSE Acquired

SendQuantity == CASE call = "entry" -> Quantity
                  [] call \in {"protect", "hold"} -> Acquired
                  [] OTHER -> Residual

\* broker.submit leaves: exactly one HTTP POST.
Post ==
  /\ pc = "post"
  /\ SubmitOrder(cur, SendQuantity, call \in {"protect", "hold"})
  /\ posts' = [posts EXCEPT ![cur] = @ + 1]
  /\ pc' = "ack"
  /\ UNCHANGED <<position, account, foreign, mode, localVars, memoryVars,
                 storageFailed, blocked, flagVars, result, journalVars, disk,
                 life, swing>>

\* EntryNotSubmitted: the client's entry guard refused before the HTTP call.
\* execute completes the plan with nothing bought.
NotSubmitted ==
  /\ pc = "post" /\ cur = Entry
  /\ attempted' = attempted \ {cur}
  /\ RecordEvent
  /\ active' = FALSE /\ completed' = TRUE
  /\ result' = "not_submitted"
  /\ pc' = "report" /\ NoLocals
  /\ UNCHANGED <<brokerVars, mode, cache, liveOwned, journalVars, historyVars>>

\* The POST times out or fails: whether the broker has the order is unknown.
AckLost ==
  /\ pc = "ack"
  /\ blocked' = TRUE
  /\ pc' = "ambiguous"
  /\ UNCHANGED <<brokerVars, memoryVars, mode, localVars, storageFailed,
                 flagVars, result, journalVars, disk, historyVars>>

\* The order is known, from the acknowledgment or from a lookup after a lost
\* one.  The caller of _send goes on: execute cancels a partly filled entry
\* before anything else; hold_breakout refuses a stop that was not accepted.
SendReturns ==
  /\ pc \in {"ack", "ambiguous"}
  /\ Visible(cur)
  /\ Validate(cur)
  /\ \/ /\ call = "entry"
        /\ IF cache'[cur].status \notin TerminalStatus /\ cache'[cur].filled > 0
           THEN pc' = "term" /\ call' = "ack"
           ELSE pc' = "drain" /\ UNCHANGED call
        /\ UNCHANGED cur
     \/ /\ call = "protect"
        /\ pc' = "verify" /\ cur' = Entry
        /\ UNCHANGED call
     \/ /\ call = "hold" /\ cache'[cur].status # "canceled"
        /\ pc' = "hold"
        /\ UNCHANGED <<cur, call>>
     \/ /\ call = "sell"
        /\ pc' = "term"
        /\ UNCHANGED <<cur, call>>
  /\ UNCHANGED <<brokerVars, mode, phase, polls, sold, attempted, flagVars,
                 result, journalVars, historyVars>>

\* "Protective stop was not accepted": hold_breakout raises.
StopNotAccepted ==
  /\ pc \in {"ack", "ambiguous"} /\ call = "hold"
  /\ order[cur].status = "canceled"
  /\ cache' = [cache EXCEPT ![cur] = order[cur]]
  /\ EventOutcome
  /\ Raise
  /\ UNCHANGED <<brokerVars, attempted, journalVars, historyVars>>

\* "Ambiguous submission; lookup pending, no POST retry".
StillAmbiguous == pc = "ambiguous" /\ ~Visible(cur) /\ Fail

-----------------------------------------------------------------------------
(* _terminal: bring the order at hand to a terminal state.                 *)

\* Where the caller of _terminal goes on.
AfterTerminal ==
  /\ pc' = CASE call = "ack"       -> "drain"
             [] call = "drain"     -> "decide"
             [] call = "reconcile" -> IF cur = NExits THEN "residual"
                                                      ELSE "reconcile"
             [] call = "sell"      -> "residual"
  /\ cur' = IF call = "reconcile" /\ cur < NExits THEN cur + 1 ELSE cur
  /\ sold' = IF call \in {"reconcile", "sell"} THEN sold + cache[cur].filled
                                              ELSE sold
  /\ phase' = 1 /\ polls' = 0

\* A stop, and an entry that has begun to fill, are cancelled at once.
CancelAtOnce == cache[cur].stop \/ (cur = Entry /\ cache[cur].filled > 0)

TerminalAlready ==
  /\ pc = "term" /\ Terminal(cur)
  /\ AfterTerminal
  /\ UNCHANGED <<brokerVars, mode, call, memoryVars, storageFailed, blocked,
                 flagVars, result, journalVars, disk, historyVars>>

StartPolling ==
  /\ pc = "term" /\ ~Terminal(cur)
  /\ IF CancelAtOnce THEN CancelOrder(cur) /\ phase' = 3
                     ELSE UNCHANGED order /\ phase' = 1
  /\ pc' = "poll" /\ polls' = Polls
  /\ UNCHANGED <<position, account, foreign, mode, cur, call, sold, memoryVars,
                 storageFailed, blocked, flagVars, result, journalVars, disk,
                 historyVars>>

\* Mutant: an entry that has begun to fill starts the wait over at every poll.
PollStartsOver ==
  /\ pc = "poll" /\ polls > 0 /\ ~Terminal(cur)
  /\ Validate(cur)
  /\ polls' = polls - 1
  /\ pc' = IF /\ cur = Entry
             /\ cache'[cur].status \notin TerminalStatus
             /\ cache'[cur].filled > 0
          THEN "term" ELSE "poll"
  /\ UNCHANGED <<brokerVars, mode, cur, call, phase, sold, attempted, flagVars,
                 result, journalVars, historyVars>>

\* An entry found to have begun to fill, before or after the cancel of this
\* wait, starts the wait over (the recursion), but once only: it is then
\* cancelled at once.
Poll ==
  /\ pc = "poll" /\ polls > 0 /\ ~Terminal(cur)
  /\ Validate(cur)
  /\ polls' = polls - 1
  /\ pc' = IF /\ phase # 3 /\ cur = Entry
             /\ cache'[cur].status \notin TerminalStatus
             /\ cache'[cur].filled > 0
          THEN "term" ELSE "poll"
  /\ UNCHANGED <<brokerVars, mode, cur, call, phase, sold, attempted, flagVars,
                 result, journalVars, historyVars>>

PolledTerminal ==
  /\ pc = "poll" /\ Terminal(cur) /\ (polls > 0 \/ phase # 1)
  /\ AfterTerminal
  /\ UNCHANGED <<brokerVars, mode, call, memoryVars, storageFailed, blocked,
                 flagVars, result, journalVars, disk, historyVars>>

CancelAfterPolls ==
  /\ pc = "poll" /\ polls = 0 /\ phase = 1
  /\ CancelOrder(cur)
  /\ phase' = 2 /\ polls' = Polls
  /\ UNCHANGED <<position, account, foreign, pc, mode, cur, call, sold,
                 memoryVars, storageFailed, blocked, flagVars, result,
                 journalVars, disk, historyVars>>

\* "Order still working after cancel; no overlapping exit".
StillWorking == pc = "poll" /\ polls = 0 /\ phase # 1 /\ ~Terminal(cur) /\ Fail

-----------------------------------------------------------------------------
(* _drain                                                                  *)

AllowHold == mode = "execute"
Recovering == mode = "recover"
Healthy == ~storageFailed /\ ~blocked

EntryAbsent == pc = "drain" /\ ~Visible(Entry) /\ Fail

EntryFound ==
  /\ pc = "drain" /\ Visible(Entry)
  /\ Validate(Entry)
  /\ pc' = "term" /\ cur' = Entry /\ call' = "drain"
  /\ UNCHANGED <<brokerVars, mode, phase, polls, sold, attempted, flagVars,
                 result, journalVars, historyVars>>

\* Keep the position under a protective stop: a swing plan, over night; an
\* intraday plan, for as long as hold_breakout holds it.
Holds == AllowHold /\ Acquired > 0 /\ Healthy /\ (swing \/ HoldEnabled)

HoldPosition ==
  /\ pc = "decide" /\ Holds
  /\ pc' = "intent" /\ cur' = 1
  /\ call' = IF swing THEN "protect" ELSE "hold"
  /\ UNCHANGED <<brokerVars, mode, phase, polls, sold, memoryVars,
                 storageFailed, blocked, flagVars, result, journalVars, disk,
                 historyVars>>

\* Mutant: the drain request of a swing plan is not written first.
DrainUnrecorded ==
  /\ pc = "decide" /\ ~Holds
  /\ pc' = "reconcile" /\ cur' = 1
  /\ UNCHANGED <<brokerVars, mode, call, phase, polls, sold, memoryVars,
                 storageFailed, blocked, flagVars, result, journalVars, disk,
                 historyVars>>

\* A swing plan's protection is only touched after drain_requested is durable.
DrainRecorded ==
  /\ pc = "decide" /\ ~Holds
  /\ IF swing THEN Recorded /\ jDrain' = TRUE ELSE UNCHANGED <<disk, jDrain>>
  /\ pc' = "reconcile" /\ cur' = 1
  /\ UNCHANGED <<brokerVars, mode, call, phase, polls, sold, memoryVars,
                 storageFailed, blocked, flagVars, result, jPlan, jAttempts,
                 historyVars>>

DrainNotRecorded ==
  /\ pc = "decide" /\ ~Holds /\ swing
  /\ NotRecorded /\ jDrain' \in Landed(jDrain, TRUE)
  /\ Raise
  /\ UNCHANGED <<brokerVars, memoryVars, storageFailed, jPlan, jAttempts,
                 historyVars>>

ExitFound ==
  /\ pc = "reconcile" /\ Visible(cur)
  /\ Validate(cur)
  /\ attempted' = attempted \cup {cur}
  /\ pc' = "term" /\ call' = "reconcile"
  /\ UNCHANGED <<brokerVars, mode, cur, phase, polls, sold, flagVars, result,
                 journalVars, historyVars>>

\* Mutant: this process forgets that it attempted an exit.
MayExistDurably(c) == Recovering /\ c \in jAttempts

MayExist(c) == c \in attempted \/ (Recovering /\ c \in jAttempts)

\* "An earlier exit may exist; no replacement sell".
ExitMayExist == pc = "reconcile" /\ ~Visible(cur) /\ MayExist(cur) /\ Fail

ExitUnused ==
  /\ pc = "reconcile" /\ ~Visible(cur) /\ ~MayExist(cur)
  /\ IF cur = NExits THEN pc' = "residual" /\ UNCHANGED cur
                     ELSE cur' = cur + 1 /\ UNCHANGED pc
  /\ UNCHANGED <<brokerVars, mode, call, phase, polls, sold, memoryVars,
                 storageFailed, blocked, flagVars, result, journalVars, disk,
                 historyVars>>

NothingLeft ==
  /\ pc = "residual" /\ Residual = 0
  /\ pc' = "flatcheck"
  /\ UNCHANGED <<brokerVars, mode, localVars, memoryVars, storageFailed,
                 blocked, flagVars, result, journalVars, disk, historyVars>>

\* Mutant: recover() sells what is left.
MayNotSellForeign == UnusedExits = {} \/ Residual < 0 \/ foreign

\* No exit ID left, sells beyond what was bought, a restarted process that
\* cannot tell whether an absent exit was sent, a foreign order.
MayNotSell == UnusedExits = {} \/ Residual < 0 \/ Recovering \/ foreign

SellRefused == pc = "residual" /\ Residual # 0 /\ MayNotSell /\ Fail

OrdersChecked ==
  /\ pc = "residual" /\ Residual # 0 /\ ~MayNotSell
  /\ pc' = "position"
  /\ UNCHANGED <<brokerVars, mode, localVars, memoryVars, storageFailed,
                 blocked, flagVars, result, journalVars, disk, historyVars>>

PositionDiffers == pc = "position" /\ account.position # Residual /\ Fail

SellResidual ==
  /\ pc = "position" /\ account.position = Residual
  /\ \E c \in UnusedExits : FirstUnused(c) /\ cur' = c
  /\ pc' = "intent" /\ call' = "sell"
  /\ UNCHANGED <<brokerVars, mode, phase, polls, sold, memoryVars,
                 storageFailed, blocked, flagVars, result, journalVars, disk,
                 historyVars>>

\* The last of read_retries readings of position and open orders.
AccountFlat == account.position = 0 /\ account.open = {} /\ ~foreign

Flat ==
  /\ pc = "flatcheck" /\ AccountFlat
  /\ completed' = TRUE /\ active' = FALSE
  /\ result' = "flat"
  /\ pc' = "report" /\ NoLocals
  /\ UNCHANGED <<brokerVars, mode, memoryVars, storageFailed, blocked,
                 liveOwned, journalVars, disk, historyVars>>

NotFlat == pc = "flatcheck" /\ ~AccountFlat /\ Fail

-----------------------------------------------------------------------------
(* hold_breakout: watch the protective stop (exit 1) until a reason to exit. *)

\* Stop requested, closing time, deadline, target or stop level reached by a
\* quote, quote recovery expired, or (stop() is then called) a failed report.
HoldEnds ==
  /\ pc = "hold"
  /\ EventOutcome
  /\ blocked' \in {blocked \/ storageFailed', TRUE}
  /\ pc' = "reconcile" /\ cur' = 1
  /\ UNCHANGED <<brokerVars, mode, call, phase, polls, sold, memoryVars,
                 flagVars, result, journalVars, historyVars>>

\* One look at the stop, and at a quote; a fill of the stop ends the hold.
HoldChecks ==
  /\ pc = "hold"
  /\ Validate(cur)
  /\ \/ cache'[cur].filled > 0 /\ pc' = "reconcile"
     \/ /\ cache'[cur].filled = 0 /\ cache'[cur].status # "canceled"
        /\ pc' = "hold"
  /\ UNCHANGED <<brokerVars, mode, localVars, attempted, flagVars, result,
                 journalVars, historyVars>>

\* The stop or the quote cannot be read or is refused, or evidence is lost.
HoldRaises ==
  /\ pc = "hold"
  /\ cache' \in {cache, [cache EXCEPT ![cur] = order[cur]]}
  /\ EventOutcome
  /\ Raise
  /\ UNCHANGED <<brokerVars, attempted, journalVars, historyVars>>

-----------------------------------------------------------------------------
(* verify_protection: a fresh look at every order, then at the account.    *)

VerifyOrder ==
  /\ pc = "verify"
  /\ IF Visible(cur) THEN Validate(cur)
                     ELSE UNCHANGED <<cache, disk, storageFailed, blocked>>
  /\ sold' = IF cur \in Exits THEN sold + cache'[cur].filled ELSE sold
  /\ IF cur = NExits THEN pc' = "snapshot" /\ UNCHANGED cur
                     ELSE cur' = cur + 1 /\ UNCHANGED pc
  /\ UNCHANGED <<brokerVars, mode, call, phase, polls, attempted, flagVars,
                 result, journalVars, historyVars>>

Remaining(c) == cache[c].qty - cache[c].filled

\* Mutant: any working exit order passes for the protective stop.
ProtectionAnyOrder ==
  /\ Terminal(Entry)
  /\ Residual > 0 /\ account.position = Residual
  /\ ~foreign
  /\ \E c \in Exits :
       /\ {d \in Exits : Cached(d) /\ ~Terminal(d)} = {c}
       /\ cache[c].status = "working"
       /\ account.open = {c}

\* protected_snapshot: exactly one order works, a stop for the whole position.
ProtectionExact ==
  /\ Terminal(Entry)
  /\ Residual > 0 /\ account.position = Residual
  /\ ~foreign
  /\ \E c \in Exits :
       /\ {d \in Exits : Cached(d) /\ ~Terminal(d)} = {c}
       /\ cache[c].status = "working" /\ cache[c].stop
       /\ Remaining(c) = Residual
       /\ account.open = {c}

\* adopt_protected takes over only orders whose intent is durable.
AdoptionSound == \A c \in Ids : Cached(c) => c \in jAttempts

Protected ==
  /\ pc = "snapshot" /\ ProtectionExact /\ ~storageFailed
  /\ mode = "adopt" => AdoptionSound
  /\ IF mode = "adopt" THEN pc' = "adopted" /\ UNCHANGED result
                       ELSE pc' = "report" /\ result' = "holding_protected"
  /\ NoLocals
  /\ UNCHANGED <<brokerVars, mode, memoryVars, storageFailed, blocked, flagVars,
                 journalVars, disk, historyVars>>

NotProtected ==
  /\ pc = "snapshot"
  /\ ~ProtectionExact \/ storageFailed \/ (mode = "adopt" /\ ~AdoptionSound)
  /\ Fail

-----------------------------------------------------------------------------
(* resume_drain, recover and adopt_protected.                              *)

Resumable == active /\ liveOwned /\ Entry \in attempted

ResumeDrain ==
  /\ pc = "idle"
  /\ blocked' = TRUE
  /\ mode' = "resume"
  /\ IF Resumable THEN pc' = "drain" /\ result' = "none"
                  ELSE pc' = "report" /\ result' = "needs_reconciliation"
  /\ UNCHANGED <<brokerVars, localVars, memoryVars, storageFailed, flagVars,
                 journalVars, disk, historyVars>>

Recover ==
  /\ pc = "idle"
  /\ blocked' = TRUE /\ active' = TRUE
  /\ mode' = "recover"
  /\ IF disk # "corrupt" /\ jPlan
       THEN pc' = "drain" /\ result' = "none"
       ELSE pc' = "report" /\ result' = "needs_reconciliation"
  /\ UNCHANGED <<brokerVars, localVars, memoryVars, storageFailed, liveOwned,
                 completed, journalVars, disk, historyVars>>

\* restore_intents
Restorable == swing /\ disk # "corrupt" /\ jPlan /\ Entry \in jAttempts

AdoptProtected ==
  /\ pc = "idle" /\ ~active /\ Restorable
  /\ blocked' = TRUE
  /\ attempted' = attempted \cup jAttempts
  /\ mode' = "adopt" /\ pc' = "adopt" /\ cur' = Entry /\ result' = "none"
  /\ UNCHANGED <<brokerVars, call, phase, polls, sold, cache, storageFailed,
                 flagVars, journalVars, disk, historyVars>>

AdoptRefused ==
  /\ pc = "idle" /\ (active \/ ~Restorable)
  /\ blocked' = TRUE
  /\ result' = "needs_reconciliation"
  /\ UNCHANGED <<brokerVars, controlVars, memoryVars, storageFailed, flagVars,
                 journalVars, disk, historyVars>>

\* Every durable attempt must resolve to an order of the broker.
AdoptIntent ==
  /\ pc = "adopt"
  /\ IF cur \in jAttempts THEN Visible(cur) /\ Validate(cur)
                          ELSE UNCHANGED <<cache, disk, storageFailed, blocked>>
  /\ IF cur = NExits THEN pc' = "verify" /\ cur' = Entry
                     ELSE cur' = cur + 1 /\ UNCHANGED pc
  /\ UNCHANGED <<brokerVars, mode, call, phase, polls, sold, attempted,
                 flagVars, result, journalVars, historyVars>>

AdoptAbsent == pc = "adopt" /\ cur \in jAttempts /\ ~Visible(cur) /\ Fail

AdoptionRecorded ==
  /\ pc = "adopted"
  /\ Recorded
  /\ active' = TRUE /\ liveOwned' = TRUE
  /\ result' = "holding_protected"
  /\ Idle
  /\ UNCHANGED <<brokerVars, memoryVars, storageFailed, blocked, completed,
                 journalVars, historyVars>>

AdoptionNotRecorded ==
  /\ pc = "adopted"
  /\ NotRecorded
  /\ Raise
  /\ UNCHANGED <<brokerVars, memoryVars, storageFailed, journalVars,
                 historyVars>>

-----------------------------------------------------------------------------
(* Signals, crashes, and the whole.                                        *)

\* stop(), from a signal handler: between any two calls.
Stop ==
  /\ ~blocked
  /\ blocked' = TRUE
  /\ UNCHANGED <<brokerVars, controlVars, memoryVars, storageFailed, flagVars,
                 result, journalVars, disk, historyVars>>

\* The process dies and a fresh one opens the journal: everything in memory is
\* gone, a record being written may be torn.
Crash ==
  /\ life < MaxLives
  /\ life' = life + 1
  /\ Idle
  /\ cache' = [c \in Ids |-> NoOrder] /\ attempted' = {}
  /\ storageFailed' = FALSE /\ blocked' = FALSE
  /\ active' = FALSE /\ liveOwned' = FALSE /\ completed' = FALSE
  /\ result' = "none"
  /\ disk' \in IF disk = "corrupt" THEN {"corrupt"} ELSE {"ok", "corrupt"}
  /\ UNCHANGED <<brokerVars, journalVars, posts, swing>>

Init ==
  /\ BrokerInit
  /\ pc = "idle" /\ mode = "none" /\ cur = Entry /\ call = "entry"
  /\ phase = 1 /\ polls = 0 /\ sold = 0
  /\ cache = [c \in Ids |-> NoOrder] /\ attempted = {}
  /\ storageFailed = FALSE /\ blocked = FALSE
  /\ active = FALSE /\ liveOwned = FALSE /\ completed = FALSE
  /\ result = "none"
  /\ jPlan = FALSE /\ jAttempts = {} /\ jDrain = FALSE /\ disk = "ok"
  /\ posts = [c \in Ids |-> 0]
  /\ life = 1 /\ swing \in BOOLEAN

ExecuteStep == PlanRefused \/ PlanRecorded

SendStep ==
  \/ IntentBlocked \/ IntentRecorded \/ EntryIntentLost
  \/ SwingExitIntentLost \/ IntentBestEffort
  \/ RecheckBlocked \/ RecheckPassed
  \/ Post \/ NotSubmitted \/ AckLost \/ SendReturns
  \/ StopNotAccepted \/ StillAmbiguous

TerminalStep ==
  \/ TerminalAlready \/ StartPolling \/ Poll \/ PolledTerminal
  \/ CancelAfterPolls \/ StillWorking

DrainStep ==
  \/ EntryAbsent \/ EntryFound \/ HoldPosition
  \/ DrainRecorded \/ DrainNotRecorded
  \/ ExitFound \/ ExitMayExist \/ ExitUnused
  \/ NothingLeft \/ SellRefused \/ OrdersChecked
  \/ PositionDiffers \/ SellResidual \/ Flat \/ NotFlat

HoldStep == HoldEnds \/ HoldChecks \/ HoldRaises

ProtectionStep ==
  \/ VerifyOrder \/ Protected \/ NotProtected
  \/ AdoptIntent \/ AdoptAbsent \/ AdoptionRecorded \/ AdoptionNotRecorded

\* A call in progress makes its next step.
ExecutorStep ==
  \/ ExecuteStep \/ SendStep \/ TerminalStep \/ DrainStep \/ HoldStep
  \/ ProtectionStep \/ ReadFails \/ Report

\* A caller starts a call.
ApiCall == Execute \/ ResumeDrain \/ Recover \/ AdoptProtected \/ AdoptRefused

executorVars == <<controlVars, memoryVars, storageFailed, blocked, flagVars,
                  result, journalVars, disk, historyVars>>

EnvironmentStep == BrokerStep /\ UNCHANGED executorVars

Next == ExecutorStep \/ ApiCall \/ Stop \/ Crash \/ EnvironmentStep

Spec == Init /\ [][Next]_vars

\* Every read and poll of the executor is bounded and the clock reaches the
\* end of the hold; nothing is assumed of the broker, the disk or the caller.
FairSpec == Spec /\ WF_vars(ExecutorStep) /\ WF_vars(HoldEnds)

-----------------------------------------------------------------------------
(* Safety.                                                                 *)

\* No client ID is ever POSTed twice: not after a lost acknowledgment, not by
\* a retried drain, not by the process that takes over after a crash.
NeverReposted == \A c \in Ids : posts[c] <= 1

\* At the start of _send the ID has never been attempted, so looking up an
\* attempted ID instead of sending it is never needed.
SendsAreFresh == pc \in {"intent", "recheck"} => cur \notin attempted

\* Whatever the process remembers, the journal can tell the next one: an entry
\* left only after the plan and its intent were durable, and of a swing plan
\* no order at all left before its intent was.
IntentsAreDurable ==
  \A c \in Ids : posts[c] > 0 =>
    /\ jPlan /\ Entry \in jAttempts
    /\ swing => c \in jAttempts

\* At most one order of the plan can trade at a time: no exit overlaps the
\* entry, a stop or another exit, acknowledged or not.
OneLiveOrder == \A c, d \in Ids : Live(c) /\ Live(d) => c = d

\* The account never goes short, and no order in the market could make it so:
\* a working or unacknowledged exit never offers more than is held.
NeverOversold ==
  /\ position >= 0
  /\ \A c \in Exits : Live(c) => order[c].qty - order[c].filled <= position

\* A drain that answers "flat" is right at the broker, not only in the views
\* it read: the plan owns nothing and none of its orders can trade any more.
FlatIsFlat == result = "flat" => position = 0 /\ \A c \in Ids : ~Live(c)

\* While "holding_protected" is the last answer, every owned share is under
\* the one working stop, unless the broker itself ended that stop.
ProtectedIsCovered ==
  result = "holding_protected" =>
    \A c \in Ids : Live(c) =>
      order[c].stop /\ order[c].qty - order[c].filled = position

\* The stop of a swing plan is only ever cancelled by a drain whose request is
\* in the journal.
ProtectionEndsOnRecord ==
  swing => \A c \in Exits :
             order[c].status = "canceling" /\ order[c].stop => jDrain

\* recover() of a restarted process never submits anything.
RecoverNeverSubmits == [][mode = "recover" => posts' = posts]_vars

\* stop() is final: unless the executor was already past its last check of the
\* flag, no entry leaves after it, not even one whose intent is being written.
StopIsFinal ==
  \A n \in {0, 1} :
    [](blocked /\ pc # "post" /\ posts[Entry] = n => [](posts[Entry] = n))

\* A step at which a call would have to give up on an exit: the drain is
\* decided, or the intent of an exit is being written.
GivesUpExit ==
  /\ pc = "decide" \/ (pc = "intent" /\ cur # Entry)
  /\ life' = life /\ pc' = "report"

\* "Storage faults block entries, never reconciled exits" (lifecycle.py:1): a
\* journal that fails does not end a drain whose entry is settled.  A swing
\* plan breaks it.
ExitsIgnoreStorage == [][~GivesUpExit]_vars

\* Every call of the executor returns, whatever the broker and the disk do.
CallsReturn == pc # "idle" ~> pc = "idle"

=============================================================================
