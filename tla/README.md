# Formal models of trader-v0.2

TLA+ models of this repository: the paper order lifecycle, its journal and the
portfolio run, the crypto worker; the services around them, from the request limiter
to the ledgers; and the research side, from replays and persistent research books to
what a study may learn from which bars.  Every definition is translated from the
source; `PROJECT.json` ("map") names the lines each one stands for.  TLC checks small
instances; TLAPS proves the safety results of the core, of the services, of the simulators
and books of the research side, and that the executor implements its abstract specification,
for every value of the constants.

    tlc -workers 2 -config PaperExecutor.cfg PaperExecutorRefines
    tlc -workers 2 -config MCServices.cfg MCServices
    tlapm PaperExecutorProofs.tla

## 1. The system

| Component | State it keeps | Operations | Hard part |
|---|---|---|---|
| `execution/lifecycle.py` PaperExecutor (with `ownership.py`, `broker_priority.py`, the holding loop of `breakout.py`) | order cache, attempted / uncertain IDs, active plan, blocked and storage flags; plan, attempt and drain records in the journal | execute, resume_drain, recover, adopt_protected, stop | one POST per ID although acknowledgments get lost; cancel races with fills; stale account views; journal failures; a second process taking over |
| `execution/journal.py` ReservedJournal | a preallocated file of fixed slots, an exclusive flock | open (create, lock, reserve, header, load), append, records, close | kills, failing calls and power losses between any two system calls; two processes opening at once |
| `scripts/paper_portfolio_until_close.py`, `execution/portfolio.py` | jobs, Reservations, stop flag; one worker thread per entry | the coordinator's loop, worker, reserve, release_flat, final drain | decisions on snapshots other threads have overtaken; failing calls between result and release |
| `scripts/paper_crypto_service.py`, `execution/crypto_manager.py` | one state file: ownership, pending order, halts, daily count | tick: read, reconcile, plan, announce, post | a crash between announcing and posting; reads taken at different times; other users of the account |
| `execution/alpaca_paper.py` | request history, ticket queue, silence asked for by a 429 | enqueue, try_admit, cancel, throttle, HTTP | threads share two ceilings; an emergency must pass waiting entries |
| `execution/recovery.py`, `account_risk.py`, `sizing.py` | incidents; risk latches in a file; none | observe, reconcile; observe, review, approve_entry; size | which event may lift which latch; a save of which only half happened |
| `scripts/paper_breakout_until_close.py`, `paper_until_close.py` | status file, cycle | run: round checks, entry, drain, report | steps between which the clock, the disk or a signal changes everything |
| `data/plus_stream.py`, `plus_stream_service.py`, `quote_validation.py` | connection generation, retained rows, two published files | connect, ingest, publish, restart; judge a quote | stale data called fresh |
| `operations/` trial, backups, bundles, ledgers, attribution | SQLite files, staged directories | poll, back up, publish, verify, record, import, reconcile, attribute | files that change while they are read, partial publication, two processes |
| `backtest/`, `intraday/`, `risk/` | open positions, orders, cash, halts | one bar or minute in phases | no look-ahead, halts in the middle of a bar, corporate actions |
| `research/phase3_*` | append-only runs and batches, modeled books | prepare, apply, actions, audit; signals; controls | operations repeated, late or refused; two processes; revised evidence |
| `features/`, `states/`, `signals/`, `markov/`, `analytics/`, `research/` studies | tables fitted on a part of the data | fit, classify, gate, select, summarise, walk forward | learning from the bars one is tested on |
| `scripts/market_scanner_service.py`, `research/market_scanner.py` | directory, rows of the last cycle, three files | a cycle: directory, clock, batches, publish | a cycle that fails or dies between its writes; one refused symbol in a batch |
| `ui/`, downloads, reports, deployment | files | batch | formats, numbers |

How they interact: a runner script takes the account's `ExecutionLock`, opens one
`ReservedJournal` per plan and gives both to a `PaperExecutor`, which calls the
broker client; every client request passes the shared rate limiter, and an
entry then passes the runner's `entry_guard`.  The holding loop runs inside
`execute` and reads the runner's stop flag.  The portfolio run does this in many
threads, tied together by `Reservations` and one stop flag.  The crypto worker is
a process of its own with its own state file and does not use the executor.

The services meet through files and verdicts: an executor asks the limiter before a
request, a runner asks quote validation, incidents, account risk and sizing before an
entry, the trial observer reads everybody's status file, backups and bundles copy what
others go on writing, ledgers import what the broker reported.  The research books are
advanced by operations that `ResearchStore` commits one at a time.

What would make each correct is listed with the runs below; the places where the
code is exposed are the "hazards" of `PROJECT.json`, each at its line.

## 2. Modules

| Module | Models |
|---|---|
| `PaperBroker` | what the code can observe of the external paper broker: orders that arrive late or never, fill in parts, are canceled or expire; an account view that lags behind the orders; orders of others |
| `PaperExecutor` (extends PaperBroker) | one TradePlan handled by up to MaxLives processes |
| `LongOnlyPosition` | the abstract promise: bought at most once, never more sold than held, one order at a time |
| `PaperExecutorRefines` | the refinement mapping and `Implements` |
| `PaperExecutorProofs` | theorems: types, orders and intents; positions, answers and the refinement |
| `ReservedJournal` | the journal, one system call a step |
| `PortfolioRun` | coordinator, workers and reservations |
| `PortfolioAndJournalProofs` | theorems about these two, which share no state |
| `CryptoService`, `CryptoServiceProofs` | the crypto worker and its planner; its theorems |
| `BrokerClient` | the HTTP client's limiter: tickets, classes, two ceilings, spacing, throttle |
| `QuoteRecovery`, `AccountRisk`, `EntrySizing` | incidents; durable risk latches; the sizes of a session |
| `SymbolRun` | the two runners that trade one symbol after another |
| `QuoteStream`, `QuoteValidation` | the stream with its service; the verdict on a quote |
| `MarketScanner` | the scanner's cycle with its files, and the isolation of refused symbols |
| `OperationalTrial`, `TrialBackup`, `RecoveryBundle` | the trial's observer; staged copies of what others write |
| `DecisionLedger`, `AccountingLedger`, `FifoAttribution` | append-only records; imports and reconciliation; profit by lot |
| `BarBacktest`, `EtfMinuteReplay`, `EtfDailyReplay`, `IntradaySimulator` | the four simulators |
| `ResearchStore` | the store behind the research books: chained batches, source gate |
| `ResearchPortfolio`, `OptionsPortfolio`, `BenchmarkBook`, `ResearchSignals` | the equity, option and control books; the signals and exit searches |
| `StateModels`, `SignalGates`, `TradeAnalytics`, `WalkForward` | labels; gates and caps; what is concluded from trades; folds |
| `MCServices`, `MCResearch` | the instances of these for TLC |
| `ServicesProofs`, `QuoteServicesProofs` | theorems about the service modules: limiter, risk, sizing, runners, recovery, verdicts, records; then stream, scanner and what holds of all services |
| `ResearchProofs` | theorems about the research modules: the store, the signals, the four simulators |
| `BookProofs` | theorems about the control, option and equity books, and the types of all research modules |
| `RunningSums` | lemmas on sums over numbers and finite sets, least and largest numbers, and the induction they rest on |

**PaperExecutor.**  The executor is sequential, so an action is one call to broker
or journal with the computation up to the next call; `pc` names that next call.
Broker, signal handler and crash act between any two.  `cache`, `attempted`,
`storageFailed`, `blocked`, `active`, `liveOwned`, `completed` are the object's
attributes; `requested` and `uncertain` carry no decision beyond `attempted`.
`jPlan`, `jAttempts`, `jDrain` are the journal records later code reads.  A failed
append may or may not have landed, as in ReservedJournal; `disk` may turn "failed"
or "corrupt".  `_read`'s retries are one action that succeeds or fails as a whole;
the identity checks of `_validate` raise like a failed read and are covered by
it.  The tries of `_terminal` are `Polls` per phase.  Prices and P&L are left out.

**ReservedJournal.**  `file` is what a read returns, `durable` what a power loss must
leave; after one, each slot holds the durable content, the newer one, or garbage.
The record is its number, its checksum is that a torn slot is told from a whole
one.  `NamesSurvive` says whether the file system keeps the name of a file whose
own fsync returned even though its directory was never synced (ext4, XFS and APFS
do in practice; POSIX does not promise it).

**PortfolioRun.**  `main` is the coordinator's next step, `worker[s]` the next step of
the thread that runs symbol s's job.  A step ends at a lock, a request, a write or
a check of the stop flag.  `ledger` and `active` are `Reservations`.  The executor is
replaced by what `PaperExecutor` guarantees: "flat" is only reported when the entry
is terminal and nothing is held (`FlatIsFlat`), "not_submitted" when nothing was sent,
"unresolved" at any time.  Everything that can raise may raise.  The market scan
decides the candidates and is a free choice among the symbols the code allows.
Sizes are whole units of cash; the account's own cash figure only makes sizes
smaller and is covered by the choice of a smaller one.

**CryptoService.**  One action per read, save or POST of a tick.  `st` is the state in
memory, `disk` the file; a failing save leaves memory ahead of the file and sets
the `storage_failed` latch.  Positions are read before the pending order, as in the
code, so they may be older.  Quantities are in units of which a buy fee takes at
most one per lot.  Prices enter as the verdicts the planner draws.  A crash, or a
failing journal event, between the announcement and the POST leaves the order
pending for good: the code then refuses to trade, and the model shows it does.

**The services and the research side.**  Each module has its own variables, `Init`,
`Next` and specification, one action per operation, and a header that says what time
and amounts are counted in and what is left out.  Some choices hold for all of them:

- What a component is given (a quote, a verdict, a bar, a row of a file) is drawn from
  a small set, so that it may come in any order and contradict itself.
- An operation the code makes atomic is one step: a method that holds its lock for the
  whole call, an `IMMEDIATE` transaction.  One that it does not make atomic is several:
  reads outside a transaction, a copy file by file, publication by write, sync, rename
  and sync of the directory.
- A file's content stands for its digest, a source version for its hash, a chain of
  inputs for the state computed from it.
- Money is in integers, costs are amounts per share, shares of equity are per mille and
  compared by multiplication.  Divisions round as the code's do where a property could
  tell (sizes, fees of a lot, weights).  A logarithm or square root whose only use is to
  order things is replaced by its argument.
- Clocks are integers with a bound.  Where the code reads two clocks there are two.

`EtfMinuteReplay`, `EtfDailyReplay` and `IntradaySimulator` choose the bars as they go;
`BarBacktest` too, over symbols that miss some bars.  `StateModels` keeps both what the
models said of a bar when it was the last one and what they say of it later.  k-means is
any partition in which every point is nearest to its centre.

## 3. What TLC checks

| Run | Shows |
|---|---|
| `executor` | For an intraday plan and one held over night by two processes: no client ID is POSTed twice, at most one live order, never more sold than held, "flat" means flat, intents are durable before their POSTs, a reported protection covers the whole position and is only cancelled after the drain is on record, recover() never submits; and executor and broker together implement LongOnlyPosition |
| `executor_storage` (violation) | For swing plans a failed append does end the drain, against the first sentence of lifecycle.py |
| `executor_live` | Every API call returns; no entry is submitted after stop() |
| `journal` | What an append acknowledged is in the file, in order, in every state and after every power loss; a journal that opens knows all of it; nothing is acknowledged after a failed append; nothing is ever overwritten |
| `journal_names` (violation) | Without NamesSurvive an acknowledged record can be lost, because only the creating process syncs the directory |
| `portfolio` | Exposure is always charged to a reservation; cash is never overspent and the coordinator's reservation never refused (`ReservationsFit`); no entry after a failure; the final report is honest |
| `crypto_faults` | Over restarts, failing writes and midnight: no second POST, one entry a day and symbol, one order in flight and sells covered (`OrdersAreBacked`), books equal to the account, halts survive |
| `crypto_foreign` | With foreign trades in the account the books are off by at most the fees |
| `crypto_live` | Every announced order is reconciled in the end |
| `crypto_adoption` (violation) | A foreign purchase within the fee allowance of a pending entry is adopted, against the operating document |
| `services` | The fourteen service modules, each explored alone (below) |
| `research` | The thirteen research modules, likewise |

**The two suites.**  `MCServices` and `MCResearch` hold the instances of the modules that
interact only through values chosen freely.  The variable `focus` is the component under
examination: the first step picks it, and from then on the others stand still, so the
run explores the sum of the components' state spaces rather than their product.
`Examined(c)` makes a property speak of component c where it is the one that moves.  A
component stops at its bound, so these two runs do not look for deadlocks.  Their properties are
conjunctions of the parts the modules state:

| Property | Parts, and what would break them |
|---|---|
| `RequestsAreBounded` | `CeilingsHold`: a window that ends with an ordinary request holds at most the ordinary ceiling, none more than the urgent one, for any order of arrivals, waits, cancellations and 429s |
| `RiskIsContained` | `HaltsStand`, `HighwaterIsNetOfFlows`: no observation, data halt, half save, restart or power loss approves an entry under a halt; flows are not performance.  `SessionLossBounded`, `SizeIsLargest`: what a session has lost and can lose stays in its budget, though each size is the largest that fits |
| `RunsAreHonest` | `ExposureIsOnFile`, `EntriesAreDue`, `CompleteIsClean`: what is open is named by the status file even after a kill; "complete" leaves nothing open, after no result, storage fault or blocked executor that halts |
| `QuotesAreSound` | `ThawNeedsReconciliation`; `FreshIsLive`, `StoresAreBounded`, `StatusFollowsLatest`; `PassedQuotesAreUsable`, `OnlyClocksHeal`; the scanner's `LatestIsComplete`, `HealthyIsTrue`, `IsolationIsExact` |
| `RecordsAreSound` | the trial's `StreakIsCovered` and `GapsExplainInterruptions`; `VerifiedBackupsAreReal`, `ReportedBackupsSurvive`; `BundlesAreSound`; `RefusedOnlyWhenDisturbed`; `BookedOnce`, `ReconciledBalances`; `AttributionIsExact`, `LotsAgree` |
| `ServicesStepSoundly` | steps: `EmergencyFirst`, `RetryIsBounded`, `NothingIsRewritten`, `QuotesNeverGoBack`, `BackoffIsEarned`, `NothingIsForgotten` |
| `ReplaysAreHonest` | `NoLookAhead`, `HaltStopsQueuedEntries`, `CashReconciles`, `OrdersMeetOneFate`; `EquityIsContributions`, `HaltsFlatten`, `OvernightIsFlagged`; `DailyIdentities`, `ForcedExitsAreKept`; `SimulatorAssertions`, `EntriesAreCausal` |
| `BooksReconcile` | `BookReconciles`, `HaltLastsTheDay`, `OneEntryPerSession`; `OptionsReconcile`, `PendingIsKept`, `ProceedsWait`; `ControlReconciles`, `DividendsArePaidOnce`, `FirstAttemptBuys`, `SellsAreFrozen`, `WeightsAreFractions` |
| `ResultsAreRepeatable` | `OneChain`, `OneImplementation`, `OneResultPerId` for processes that race, die and repeat while the source is edited; `SignalsAreCausal`, `ExitsAreCausal` for bars revised and quotes received later |
| `StudiesAreHonest` | `SignalsAreEarned`, `CapsTakeTheBest`, `ReportsAddUp`; `MergedStatesAreSupported`, `ClustersAreSized`, `DiagnosticsAddUp`; `QualityRespectsDominance`, `RanksAreDense`, `SummariesAccountForTrades`, `PerformanceIsConsistent`; `DecisionsUseThePast`, `TestsAreDisjoint`, `AnalysesAddUp`, `SessionFoldsAreSeparated` |
| `StatesAreFinal` | steps: a bar's features and label never change once later bars are known |

`AttributionIsExact`, `BookReconciles`, `EquityIsContributions`, `SizeIsLargest` and the audit
in `ResearchPortfolio` compare an algorithm with an independent definition of its result:
an identity over the whole history, an inequality over all other sizes, or the stored
rows added up.

**Bounds.**  Executor: two exit IDs and two shares are the fewest with which an exit
can be replaced by another while part of the position is sold; one poll per phase
keeps both phases; two processes are one takeover.  The live run has one exit and two
shares: an entry that fills in part while it is being canceled starts the wait again.  Journal: two processes, three
slots, four records reach a full journal, a takeover, and a failed append followed by
another process's success.  Portfolio: two symbols, two units of cash and three
entries let a symbol be entered again while the other is exposed, with one call of
resume_drain instead of three.  Crypto: two symbols, three orders, two days and two
processes reach an entry and an exit of the same symbol across a restart and a
midnight; with foreign trades one symbol is enough, for the books are per symbol.

Services: the limiter has four tickets, four instants and ceilings of one and two, the least
with which an emergency passes a waiting entry and both ceilings bind; account risk has
two sessions, three equities, of which one crosses both limits, and three outcomes of a save; sizing has
two names with budgets that bind in different orders; the runners have one symbol, two
cycles and two minutes, in which journal and executor may fail at any report; the stream has two connections, two starts and two feeds; the
trial has three instants and a limit of one; backups three versions; bundles two files
and three writes; the ledgers two decisions, one link, four source files and two
processes; attribution four events over lots of both signs; the scanner three stocks, of which one may
be forbidden, so that four extra requests settle or exhaust the isolation, three cycles (list, delist,
drop) over three days, of which one may pass in the middle of a cycle, one fault or kill among
them, and room for four records.  Research: two symbols or
funds, one of which misses a bar; two sessions; a split and a dividend; five operations
per book, for the controls two of them corporate actions, with one asset that pays its fee in
units (a fifth, enough that forgetting it oversells) and one that pays in money; two processes, two operations with two inputs and two source versions for the
store; five training bars and two later ones for each state model; three trades for the
tables; nine bars for the folds.  The suites together reach over a million distinct
states, and every disjunct of every module's next-state relation is taken in them.

**Fairness.**  Assumed only where the program itself goes on.  PaperExecutor: WF of the
executor's own steps and of the end of the holding loop, which polls the clock;
nothing of the broker, whose silence the code bounds by its retry counts.
CryptoService: WF of the tick's steps, since the service loop calls tick for ever; SF
of the reads, which fail now and then but not always; WF that the broker accepts and
finishes an order it was sent.  That last assumption excludes a POST lost on the
way, which the code leaves pending on purpose.

## 4. What is proved

All theorems hold for every value of the constants that meets the named assumptions: any
number of symbols, orders, processes, slots, sessions, files, lots and steps.  The inductive
invariants were put to TLC on the instances of the runs before they were proved.  All properties of the passing runs
are theorems but liveness and, of the run `research`, those named under "Only model-checked".

**PaperExecutorProofs: orders.**  `TypeCorrect`; `NoRepost`, `FreshSends`, `DurableIntents`,
`NoOverlap`, `RecoverIsReadOnly`, `StopsAreFinal`.  The types are not
inductive alone: that a submitted quantity is in 0..Quantity rests on what was compared on the
way (`Bounds`).  The invariant of the orders has four layers, each preserved given the
earlier ones: *Control* (which call can be where, and on whose behalf), *Memory* (what
`attempted` holds at each step), *Ledger* (how POST counts, `attempted` and journal relate) and
*Settled* (which orders are known terminal when a send starts).  NeverReposted alone is not
inductive: that an ID outside `attempted` was never posted depends, across a crash, on what
the journal lets the next process do.

**PaperExecutorProofs: positions.**  `NoOversell`, `HonestFlat`, `ProtectionCovers`,
`ProtectionEndsDurably`, `ImplementsPosition`.  On top of the four layers: *Market* (an exit in
the market always offers exactly the position, whatever fills in between), *Tally* (the
`sold` a call has added up is what the exits it has passed have sold; recover() may lag behind
the broker, for it reads orders another process left alive, but never counts too much),
*Announced* and *Seen* (which exits can exist at all, and which of them a
protection check has looked at), *Answers* (what "flat" and "holding_protected" said is still
true).  With these every step of executor and broker maps to a step of `LongOnlyPosition` or to
a stutter.

**PortfolioAndJournalProofs: the journal.**  Layers *Control* (who holds the lock at which step),
*Contents* (the shape of the file), *Acks* (acknowledged records are in file and
durable copy), *Known* (what the holder has in memory is what the file holds) and
*Unsure* (where records of failed appends may be).  From them `JournalTypeCorrect`,
`FailureIsLast`, `EvidenceNeverOverwritten`, and, assuming NamesSurvive,
`AcknowledgedNeverLost` and `LoadedIsComplete`.  Without that assumption the second
journal run is a counterexample.

**PortfolioAndJournalProofs: the portfolio run.**  The invariant follows one job: what its orders can be at each
step of its worker, that a job which ended without failing has neither orders nor
reservation, that the coordinator only holds such symbols as candidates although the
workers run on, and that failed jobs are never replaced.  From it `ExposureIsCharged`,
`FailureStopsEntries`, `FinalReportIsHonest`.  For the cash, spent and reserved amounts are
sums over the symbols (`RunningSums`), and a step that changes one symbol changes a sum by its
difference: `TypeCorrect` (a snapshot's free cash is never negative) and
`ReservationsAlwaysFit` (no debt when every order fills, no reservation refused).

**CryptoServiceProofs.**  Parts *Storage* (memory and file differ only after a failed save, after which
the process does nothing more, or while the attempts before a seed are being verified), *Numbering* and *InFlight* (an intent is POSTed under a number
no order has, and the file never misses one that was), *Matching*, *Entering*, *Halting*:
from them `PostedOnce`, `EnteredOnce`, `InFlightIsPending`, `HaltsLast`.  What the worker owns is
carried over an order by the balance the pending intent started from (*Books*): alone in the
account the books are exact (*Exact*; `OwnedExactly`, `BackedOrders`); with others they are off
by at most the fees (*Drift*; `OwnedWithinFees`), because positions read before the last fill lag
by a whole lot, which is more than any fee.

**ServicesProofs.**  One invariant per component; a step of the suite is a step of one and
leaves the others alone.
- *Limiter*: admissions come in the order of time, so those of a window are the last ones
  (`CeilingsAlwaysHold`); ordinary requests stay below a smaller cap (`EmergenciesGoFirst`).
- *Account risk*: a halt that was answered is in memory, unless a save failed, and in every copy
  of the file.  *Sizing*: each trade contributes to three sums; a mark moves the open loss and
  the risk to the stop by opposite amounts, and a size fits exactly up to its floor.
  Together `RiskIsAlwaysContained`.
- *Runners*: what each stage of a cycle knows (named in the file, judged, posted, recorded), with
  kills and failing disks at every one (`RunsAreAlwaysHonest`).
- *Recovery*: only incidents a quote may end have a deadline, set once (`RetriesAreBounded`).
  *Verdicts*: the reasons at one decision are found again at later ones, but for those a clock
  that ran ahead had given.
- *Records* (`RecordsAlwaysSound`, `LedgerOnlyGrows`): a destination holds nothing, torn data or a
  version the ledger had since the backup began; a file with its captured identity still has its
  captured content unless a write kept that identity, so the files without such a write are of
one moment between the passes; recordings counted in their order rank
  the decisions, so chains of amendments end; what lies between two polls is covered by one of the
  two heartbeats; a report adds up the rows of the sources it lists; the FIFO balance holds at
  every step when what is left of the fill is counted at the mark.

**QuoteServicesProofs.**  *Stream*: rows are labelled by generation, and within a process a
generation is one connection; restored rows have generation 0, which is none
(`QuotesOnlyGetNewer`).  *Scanner*: a part that always holds (rows cover the directory, files are of
one scan, memory is the file unless it lags) and parts that hold from one stage of a cycle to
another: a pending row waits for a class still to be asked, the requests still to be made cover
the stocks without an answer, only a barred symbol asked for alone is settled by a refusal
(`NothingIsLost`).  Then the suite's own properties: `QuotesAlwaysSound`,
`ServicesAlwaysStepSoundly`, `ServicesAlwaysTyped`.

**ResearchProofs.**  Again one invariant per component.
- *Store and signals* (`ResultsAlwaysRepeatable`): a process inside its transaction holds the lock,
  and what it read under the lock is still what is stored, so a second result for an operation
  or a second implementation cannot be recorded (`StoreInv`); a signal or exit names the bars
  it used, and those were closed and known at its clock however bars are revised and quotes arrive
  later (`SignalInv`).
- *Bar replay* (`BarInv`): within a bar the phases leave some symbols settled and others to do, so
  cash, what positions cost and what the closed trades brought are related *per phase*; a halt
  found in the middle of a bar leaves nothing queued.
- *Minute replay* (`MinuteInv`): equity is capital, contributions, income and costs, where the open
  holdings carry their unpaid dividends and basis; splits change quantities and prices
  together, claims are paid once.
- *Daily replay* (`DailyInv`, in five parts: shapes, claims, rows, forced exits, books): raw and
  adjusted basis move together through splits, partial sales take basis in proportion, and a
  forced exit stays planned until it is sold.  That the exposure cap trims each holding to a
  natural amount is proved of its recursive function: that it exists, and that each step of the walk
  keeps the amounts.
- *Intraday simulator* (`IntradayInv`): an entry decided on one bar is filled by a later one; its
  own assertions hold.
Together `ReplaysAreAlwaysHonest`: equity identities, causality and halts for any symbols, bars,
splits, dividends and calendars.

**BookProofs.**  A journal is a sequence of rows of known kinds; a sum over one field of the rows
of one kind grows by what is appended, so that a booking keeps book and journal in step.
- *Controls* (`ControlInv`): cash and units are those of the fills; fills name no later target, and
  the buys of one are in its first attempt, after that attempt's sells; what remains to be sold of an
  open target, with what was sold for it, is the amount frozen before the first attempt; what is owed
is the dividends without a payment (`DividendsOwed`).  Rounding
  down to steps and taking fees in units never sells or spends more than there is.
- *Options* (`OptionInv`): a contract is held exactly when it was bought and not sold since
  (`Contracts`); warnings and losses are of their days (`DaysOf`); what a batch spends stays in the
  budget it was given when it was prepared (`Budgeted`), whatever was sold meanwhile, so that
  proceeds wait for the next batch.
- *Equities* (`ResearchInv`): the independent audit is followed row by row (`Tallied`): it has one lot
  for a fund that is held and none for one that is not, its claims are the book's, and
  cash, receivables and cost of what is held add up to the initial cash, realized gains and
  income.  `BookDays` says which day the halt and the last entries are of.
The walks over funds (exits, entries, latches) are folds, taken apart one fund at a time.  Together
`BooksAlwaysReconcile` and `ResearchIsTyped`.

**RunningSums.**  The library's induction theorems take the property as an operator, which the
provers cannot instantiate.  Here induction is stated over the *set* of numbers that have the
property, from the fact that < is well-founded on the naturals.  That gives running sums, the
sum over a finite set as the community modules' fold defines it (whatever order its elements
are picked in), a fold over a sequence split at either end, and, for recursive functions, that
a walk with given moves exists.  So what a fold or recursive function computes can be proved
where the definition is a fold over numbers or sets.

**Assumptions.**  Each module's named ASSUMEs: bounds are naturals, sets of inputs have the
types the code checks, limits are ordered as the configuration's validation orders them.
`QuotesAssumption` and `StreamAssumption` say that fields and stamps are numbers where they can be read at
all, that selections are finite and caps positive.  `ScannerAssumption` says that data carries its
time and "no data" none, and that only the stocks' provider refuses symbols, as in the code
only `stock_batch` isolates them.
`BenchmarkAssumption`, `OptionAssumption` and `ResearchAssumption` say that a book is over finitely many
funds, a control's over at least one, and that a cost rate is below the whole.
`FifoAssumption` keeps opening lots on one side, as the attribution refuses others (`pnl_attribution.py:93`).

**Only model-checked.**  Liveness (`CallsReturn`, `PendingResolves`), which TLAPS does not handle.
Of the research suite `StudiesAreHonest` and `StatesAreFinal`.
The studies sort with `SortSeq` and filter with `SelectSeq`, which is built into the prover and cannot be
unfolded there (so `QuoteStream` and `MarketScanner` filter with recursive functions).

A proof attempt corrected the model once: `AccountingLedger` let an import with rows that conflict with
each other pass when none was recorded before; the code refuses it (`accounting_ledger.py:161-165`), and so does
the model now.

## 5. Findings

1. *Storage faults and swing exits.*  `lifecycle.py:1` says "Storage faults block
   entries, never reconciled exits."  For a swing plan a failed drain request or exit
   intent ends the drain (`lifecycle.py:201-209`, `:291`).  The code's own comment there
   explains why a takeover needs it; the module's sentence is too strong.
2. *The journal's name.*  `journal.py:76` syncs the directory only in the process that
   creates the file; one that opens it later (`journal.py:57`) trusts a name that may
   never have been synced.
3. *Adoption by fee allowance.*  `paper_crypto_service.py:156` takes any balance change
   within the fee allowance of a pending entry as that entry's result, so a small
   foreign purchase becomes owned; `docs/CONTINUOUS_PAPER_CRYPTO.md:13` says unknown holdings
   are never silently adopted.

### Observations

What the models had to follow, and a reader of the code may want to know.  None of these
contradicts a sentence of the repository that a run could refute.

- *Limiter.*  The docstring speaks of 30 requests per minute kept for emergencies; with a
  spacing of .36 s the whole client sends at most about 167 a minute, so fewer are usable.
- *Account risk.*  An observation of a new session whose equity is invalid saves
  `daily_halt=False` under the old session; a later observation of that old session finds no
  halt.  `HaltsStand` therefore speaks of the current session.  A halt that a restarted process read from a
  file whose directory sync had failed can still be lost with the power.
- *Runners.*  The cyclic runner asks for attention after an entry that was not submitted,
  although nothing was sent.
- *Stream.*  Saved observations are restored before the lock is taken, so those another
  process publishes in between are replaced by older ones (never labelled fresh).  A bar
  symbol evicted from the bounded store may come back with an older stamp.
- *Scanner.*  A cycle over midnight publishes "healthy" on a directory verified the day before.
  A cycle whose status write fails after the rows were published leaves the
  memory behind the file: the next cycle counts on from the older rows and may publish
  less than the file had (`market_scanner_service.py:223`); `NothingIsForgotten` leaves that case out.
- *Bundles.*  A write that keeps size and times (within their granularity, or by restoring
  them) passes both comparisons.  Of such a file a manifest only says that it had the
  content in each pass; that all files are of one moment holds of the others.  The manifest's
  `cross_file_atomicity_verified: False` and `docs/RECOVERY_BUNDLES.md` say as much.
- *Ledgers.*  `DecisionLedger`'s verification and the accounting reconciliation read their
  tables statement by statement: a concurrent recording can make the first refuse a sound
  ledger, a concurrent import can make the second report of two moments.
- *Signal gates.*  The model cap also bounds a whole rebalance date (`selection.py:167`); the
  waterfall lists checks whose gate is not active and knows of the family gates only the top count
  and the exclusion of the bottom; a policy of an unknown name is ignored.  A setup that the
  tables do not know is refused by floors and ranks, but passes ceilings on variance (0.0 by
  default) and the exclusion of the bottom.
- *State models.*  Warm-up bars without a feature fall into the middle label and count as
  observations; a merged label may be carried by fewer rows than asked for when no
  component is left to merge.
- *Trade analytics.*  A trade without a gain is a loss in the diagnostics and neither in the
  metrics; trades with an unknown key are dropped from quality tables but not from
  summaries.
- *Walk forward.*  With a step below the validation length the same trades enter the
  quality tables once per fold.
- *Research books.*  A corporate action that became effective between prepare and execution,
  or while a control has pending sells, can never be booked (`phase3_actions.py:72`, `:83`);
  an option exit whose first valid quote precedes the moment of prepare makes prepare raise
  (`phase3_options_portfolio.py:150`); an entry that was planned may still be blocked
  when it is applied, for earlier buys have taken costs from equity.

## 6. Not modelled, and the plan

*Not modelled components.*  REST downloads, data providers and caches, the
shadow broker, release and host records, the dashboard, configuration and deployment, and the
studies that call the engines with lists of parameters: read-only loops, downloads, formats
and reports without a protocol of their own.  The C++ core is a port of one scan for
parameter sweeps.

*Left out of modelled components.*  Prices and P&L of the executor; `--observe-only` and the
status file of the crypto worker; the five-minute pause and the audit for foreign positions
of the portfolio run (the audit can only raise, which the model allows at any time); payloads,
hash formats, schemas and credentials of the services; reports, charts, annualised figures
and the correlation filter of the research side (a correlation may refuse any entry).

*Composition.*  The services are composed by the values they exchange, not by shared
steps: the code shares no memory between them.  Where it does (reservations and stop flag of
the portfolio run, executor and journal, limiter and threads) the module holds both sides.

Next, in this order:

1. `StudiesAreHonest` and `StatesAreFinal` as theorems, for which `StateModels`, `SignalGates`,
   `TradeAnalytics` and `WalkForward` must select and sort with folds in place of `SelectSeq` and
   `SortSeq`.
2. Termination of the portfolio run and of the runners as liveness runs; the
   shadow broker's loop.
