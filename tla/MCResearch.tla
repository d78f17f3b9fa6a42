----------------------------- MODULE MCResearch ------------------------------
(***************************************************************************)
(* The research side on small instances: replays, the persistent research  *)
(* portfolios, their store and signals, and what the studies learn.  As in *)
(* MCServices one component is picked and the others stand still.          *)
(***************************************************************************)
EXTENDS BarBacktest, EtfMinuteReplay, EtfDailyReplay, IntradaySimulator,
        ResearchPortfolio, ResearchStore, ResearchSignals, OptionsPortfolio, BenchmarkBook,
        SignalGates, StateModels, TradeAnalytics, WalkForward

VARIABLE focus      \* the component that is examined

suiteVars ==
    <<focus, btVars, etfVars, dailyVars, intradayVars, researchVars, storeVars, signalVars, optionVars,
      controlVars, gateVars, stateVars, analyticsVars, wfVars>>

-----------------------------------------------------------------------------
(* Instances: bars. *)

PriceBar(o, l, h, c) == [open |-> o, low |-> l, high |-> h, close |-> c]
DayBar(o, c) == [open |-> o, close |-> c]
StateBar(c, r, v) == [close |-> c, high |-> c + r, low |-> c - r, volume |-> v]

BacktestBars == [A |-> 1 .. 4, B |-> {1, 3, 4}]
BacktestDays == <<1, 1, 2, 2>>
BacktestShapes == {PriceBar(10, 10, 10, 10), PriceBar(7, 6, 8, 8), PriceBar(10, 8, 12, 11)}
FundShapes == [SPY |-> {PriceBar(20, 12, 20, 16), PriceBar(24, 24, 32, 30)}, GLD |-> {PriceBar(20, 18, 22, 20)}]
FundEvents ==
    {[at |-> 2, symbol |-> "SPY", ratio |-> 2, dividend |-> 1, pay |-> 4], [at |-> 4, symbol |-> "GLD", ratio |-> 1, dividend |-> 2, pay |-> 0]}
FundsInOrder == <<"GLD", "SPY">>
FundDays == [SPY |-> {DayBar(20, 16), DayBar(16, 24)}, GLD |-> {DayBar(20, 20)}]
FundActions ==
    {[day |-> 2, symbol |-> "SPY", ratio |-> 2, dividend |-> 1, pay |-> 5], [day |-> 3, symbol |-> "GLD", ratio |-> 1, dividend |-> 2, pay |-> 0]}
TickerBars == {PriceBar(10, 9, 11, 10), PriceBar(8, 6, 9, 9), PriceBar(13, 12, 16, 14)}
Splits == {<<2, 1>>}

-----------------------------------------------------------------------------
(* Instances: signals and studies. *)

Graded(grade, samples, rank) ==
    [score |-> grade, samples |-> samples, rank |-> rank, group |-> 2, crank |-> rank, cscore |-> grade, sscore |-> grade, variance |-> rank]
\* What a family, and what a setup is asked for: a score and trades, a rank, or
\* only a small variance.
Rules(mode, rules) == [mode |-> mode, rules |-> rules]
WellTraded == [floor |-> [score |-> 20, samples |-> 1], ceiling |-> [rank |-> 1], consistency |-> 20, last |-> 1]
OnlyRanked == [floor |-> [score |-> 0, samples |-> 0], ceiling |-> [rank |-> 1], consistency |-> 0, last |-> 1]
OnlySteady == [floor |-> [score |-> 0, samples |-> 0], ceiling |-> [variance |-> 1], consistency |-> 0, last |-> Far]
Gating(mode, gateMode, gates, hard, caps, setup, kind) ==
    [mode |-> mode, gateMode |-> gateMode, gates |-> gates, hard |-> hard,
     topOverall |-> caps[1], topClass |-> caps[2], topModel |-> caps[3],
     minConsistency |-> setup.consistency, maxConsistencyRank |-> setup.last, minSampleScore |-> 10, minObs |-> 2, minConf |-> 1,
     minEV |-> 1, stateFloors |-> setup.floor, transitionFloors |-> setup.floor, ceilings |-> setup.ceiling,
     allowed |-> {"up", "down", "odd", "new"}, excluded |-> {"odd"}, familyMode |-> kind.mode, familyRules |-> kind.rules,
     cost |-> 1, volPenalty |-> 1, liquid |-> 4, thinPenalty |-> 1, shorts |-> {"crypto"},
     weights |-> [base |-> 1, state |-> 1, transition |-> 0, consistency |-> 0, sample |-> 1]]
GateRow(state, kind, next, ret, obs, volume) ==
    [state |-> state, family |-> kind, next |-> next, ret |-> ret, conf |-> 1, obs |-> obs, vol |-> 1, volume |-> volume]
Gated == <<"A", "B", "C">>
GatedClasses == [A |-> "crypto", B |-> "equity", C |-> "crypto"]
Gatings ==
    {Gating("hard_gate_only", "both", {}, <<>>, <<2, 1, 0>>, WellTraded, Rules("top_count", [top_count |-> 1, consistency |-> 0])),
     Gating("soft_scoring_only", "off", {}, <<>>, <<1, 0, 0>>, WellTraded, Rules("top_count", [top_count |-> 1])),
     Gating("hybrid", "off", {}, <<"sample_size", "state", "family">>, <<0, 1, 2>>, WellTraded, Rules("bottom_count", [bottom_count |-> 1])),
     Gating("hybrid", "state", {"consistency"}, <<"transition", "consistency">>, <<2, 2, 0>>, WellTraded, Rules("none", [consistency |-> 0])),
     Gating("hard_gate_only", "off", {"state", "transition", "consistency"}, <<>>, <<1, 2, 0>>, WellTraded,
            Rules("bottom_percentile", [top_count |-> 1, bottom_percentile |-> 20])),
     Gating("hard_gate_only", "both", {"state", "transition", "consistency"}, <<>>, <<2, 2, 2>>, OnlySteady,
            Rules("bottom_count", [bottom_count |-> 1, consistency |-> 0])),
     Gating("hybrid", "off", {}, <<"family", "consistency", "sample_size">>, <<2, 0, 0>>, OnlySteady,
            Rules("top_percentile", [top_percentile |-> 40, bottom_count |-> 1])),
     Gating("hard_gate_only", "transition", {}, <<>>, <<0, 0, 1>>, OnlySteady, Rules("consistency", [consistency |-> 40])),
     Gating("hybrid", "both", {}, <<>>, <<2, 0, 0>>, OnlyRanked, Rules("none", [consistency |-> 0]))}
NoTable == [x \in {} |-> 0]
GateBooks ==
    {[states |-> NoTable, transitions |-> NoTable, families |-> NoTable],
     [states |-> [u |-> Graded(60, 2, 1), d |-> Graded(10, 0, 2)], transitions |-> [ud |-> Graded(60, 2, 1), uu |-> Graded(30, 2, 1)],
      families |-> [up |-> Graded(60, 2, 1), down |-> Graded(30, 1, 2)]]}
GateInputs ==
    {GateRow("u", "up", "uu", 5, 3, 4), GateRow("u", "up", "ud", -6, 2, 8), GateRow("d", "down", "ud", 7, 2, 4), GateRow("x", "up", "uu", 8, 3, 4),
     GateRow("u", "odd", "uu", 6, 0, 2), GateRow("u", "odd", "uu", 9, 3, 4), GateRow("x", "new", "xx", 6, 3, 4)}

TrainingChoices ==
    {<<StateBar(10, 1, 2), StateBar(12, 1, 2), StateBar(9, 1, 4), StateBar(11, 2, 2), StateBar(11, 0, 2)>>,
     <<StateBar(10, 1, 2), StateBar(10, 1, 2), StateBar(10, 1, 2), StateBar(12, 1, 3), StateBar(14, 1, 3)>>}
LaterBars == {StateBar(12, 1, 2), StateBar(8, 1, 6)}
Windows == <<2, 3>>
ReturnHorizons == <<1, 2, 3>>
RuleStates ==
    [model |-> "rule", trend |-> 20, volZ |-> 300, momentum |-> 50, extension |-> 500, overbought |-> 70, score |-> 2, collapse |-> FALSE,
     volRegime |-> 150, accel |-> 20, stretch |-> 500, volume |-> 250, ages |-> <<1, 3>>,
     components |-> <<"trend", "volatility", "extension", "volume">>, mergeOrder |-> <<>>,
     features |-> <<"zscore", "rsi", "position", "volumeRatio">>, group |-> {}, bins |-> 2, quantiles |-> TRUE, minObservations |-> 2,
     clusterOn |-> "volumeRatio", clusters |-> 3, minSize |-> 2, merge |-> TRUE, anchor |-> "trend", minRegime |-> 2,
     context |-> {}, full |-> TRUE, path |-> 2, buckets |-> {1, 3}, sparseBelow |-> 2]
StateChoices ==
    {[RuleStates EXCEPT !.context = {"previous", "age", "path", "entry"}],
     [RuleStates EXCEPT !.model = "rich", !.collapse = TRUE],
     [RuleStates EXCEPT !.model = "rich", !.components = <<>>, !.mergeOrder = <<"volume", "extension">>, !.context = {"entry"}, !.minObservations = 3],
     [RuleStates EXCEPT !.model = "bins", !.group = {"position", "rsi"}, !.context = {"previous"}, !.full = FALSE],
     [RuleStates EXCEPT !.model = "bins", !.quantiles = FALSE, !.mergeOrder = <<"rsi">>, !.minObservations = 0],
     [RuleStates EXCEPT !.model = "kmeans"],
     [RuleStates EXCEPT !.model = "kmeans", !.clusterOn = "rsi", !.minSize = 0, !.merge = FALSE],
     [RuleStates EXCEPT !.model = "hybrid"],
     [RuleStates EXCEPT !.model = "hybrid", !.anchor = "volatility", !.clusterOn = "accel"]}

ClosedTrade(class, state, reason, ret, profit, ev, adverse) ==
    [class |-> class, state |-> state, reason |-> reason, ret |-> ret, pnl |-> profit, ev |-> ev, adverse |-> adverse, hold |-> 2]
ClosedTrades ==
    {ClosedTrade("crypto", "u", "stop", -20, -10, 5, 25), ClosedTrade("crypto", "u", "flip", 30, 15, 5, 0),
     ClosedTrade("crypto", "d", "flip", 10, 4, -2, 5), ClosedTrade("crypto", "d", "stop", -40, -20, -5, 60),
     ClosedTrade("equity", "u", "time", 0, 0, 3, 12), ClosedTrade("equity", "", "time", 20, 6, 0, -3)}
Excursions == <<0, 5, 10, 20, 30>>

LabelledRows(times, labels, prices) == [i \in DOMAIN times |-> [at |-> times[i], state |-> labels[i], close |-> prices[i]]]
Datasets ==
    {[A |-> LabelledRows(<<1, 2, 3, 4, 5, 6, 7, 8, 9>>, <<1, 2, 1, 2, 1, 1, 2, 1, 2>>, <<10, 12, 9, 11, 12, 10, 9, 11, 12>>),
      B |-> LabelledRows(<<1, 3, 4, 6, 7, 8, 9>>, <<1, 1, 2, 2, 1, 2, 2>>, <<5, 6, 7, 5, 6, 4, 5>>)]}
Walk(train, validation, test, stride, refit, lookback, gated) ==
    [train |-> train, validation |-> validation, test |-> test, step |-> stride, least |-> 2, refit |-> refit, lookback |-> lookback,
     next |-> 1, forward |-> 1, gated |-> gated]
Walks == {Walk(3, 2, 3, 3, TRUE, 0, TRUE), Walk(3, 2, 2, 1, FALSE, 2, TRUE), Walk(3, 0, 2, 2, TRUE, 2, FALSE)}
SessionLengths == {17, 22}
Plans ==
    {[train |-> 3, validation |-> 2, test |-> 2, step |-> stride, separation |-> gap, sessions |-> 0] : stride \in {1, 2, 3}, gap \in {4, 5}}

-----------------------------------------------------------------------------
Studies ==
    {"backtest", "minutes", "daily", "intraday", "portfolio", "store", "signals", "options", "control",
     "gates", "states", "analytics", "walk"}

ResearchSuiteInit ==
    /\ focus = "none"
    /\ BacktestInit /\ EtfInit /\ DailyInit /\ IntradayInit /\ ResearchInit /\ StoreInit /\ SignalInit /\ OptionInit
    /\ BenchmarkInit /\ GateInit /\ StateInit /\ AnalyticsInit /\ WfInit

Steps(c) ==
    /\ IF c = "backtest" THEN BacktestNext ELSE UNCHANGED btVars
    /\ IF c = "minutes" THEN EtfNext ELSE UNCHANGED etfVars
    /\ IF c = "daily" THEN DailyNext ELSE UNCHANGED dailyVars
    /\ IF c = "intraday" THEN IntradayNext ELSE UNCHANGED intradayVars
    /\ IF c = "portfolio" THEN ResearchNext ELSE UNCHANGED researchVars
    /\ IF c = "store" THEN StoreNext ELSE UNCHANGED storeVars
    /\ IF c = "signals" THEN SignalNext ELSE UNCHANGED signalVars
    /\ IF c = "options" THEN OptionNext ELSE UNCHANGED optionVars
    /\ IF c = "control" THEN BenchmarkNext ELSE UNCHANGED controlVars
    /\ IF c = "gates" THEN GateNext ELSE UNCHANGED gateVars
    /\ IF c = "states" THEN StateNext ELSE UNCHANGED stateVars
    /\ IF c = "analytics" THEN AnalyticsNext ELSE UNCHANGED analyticsVars
    /\ IF c = "walk" THEN WfNext ELSE UNCHANGED wfVars

ResearchSuiteNext == focus' \in (IF focus = "none" THEN Studies ELSE {focus}) /\ Steps(focus')

ResearchSuiteSpec == ResearchSuiteInit /\ [][ResearchSuiteNext]_suiteVars

-----------------------------------------------------------------------------
Examined(c) == focus \in {"none", c}

\* Every component's state is of its type.
ResearchTypesOK ==
    /\ Examined("backtest") => BacktestTypeOK
    /\ Examined("minutes") => EtfTypeOK
    /\ Examined("daily") => DailyTypeOK
    /\ Examined("intraday") => IntradayTypeOK
    /\ Examined("portfolio") => ResearchTypeOK
    /\ Examined("store") => StoreTypeOK
    /\ Examined("signals") => SignalTypeOK
    /\ Examined("options") => OptionTypeOK
    /\ Examined("control") => BenchmarkTypeOK

\* Replays (backtest/engine.py, daily_etf.py, intraday/engine.py): no decision
\* uses a later bar, a halt flattens and stops queued entries, and equity is the
\* capital, the contributions of the trades, income and costs, and nothing else.
ReplaysAreHonest ==
    /\ Examined("backtest") => ReplayIsHonest
    /\ Examined("minutes") => MinuteReplayIsSound
    /\ Examined("daily") => DailyReplayIsSound
    /\ Examined("intraday") => IntradayIsSound

\* Research portfolios (phase3_portfolio.py, phase3_options_portfolio.py,
\* phase3_benchmarks.py): each book reconciles with its journal whatever batches,
\* corporate actions and refusals it went through, within its limits.
BooksReconcile ==
    /\ Examined("portfolio") => ResearchBookIsSound
    /\ Examined("options") => OptionBookIsSound
    /\ Examined("control") => ControlBookIsSound

\* Research evidence (phase3_store.py, phase3_daily.py, phase3_options.py): one
\* chain of batches, one implementation and one result per operation although
\* runs are repeated, die or race; signals are formed from closed bars alone.
ResultsAreRepeatable ==
    /\ Examined("store") => StoreIsSound
    /\ Examined("signals") => SignalsAreSound

\* Studies (signals/engine.py, selection.py, states, analytics, walk_forward.py):
\* a signal passed every gate in force, its reports add up, and nothing that
\* decided a trade of a test lies in it or after it.
StudiesAreHonest ==
    /\ Examined("gates") => GatesAreSound
    /\ Examined("states") => StatesAreSound
    /\ Examined("analytics") => AnalyticsAreSound
    /\ Examined("walk") => WalkForwardIsHonest
=============================================================================
