----------------------------- MODULE WalkForward -----------------------------
(***************************************************************************)
(* Walk-forward research: folds of training, validation and test bars      *)
(* (research/walk_forward.py, research/context.py), what a fold learns     *)
(* from its training bars (markov/engine.py), and the session folds of the *)
(* ETF studies with their embargo.  Times are positions of the timeline,   *)
(* the label of a bar is given (StateModels), and a replay is any trades   *)
(* its signals allow.  Entropies are left out.                             *)
(***************************************************************************)
EXTENDS Integers, FiniteSets, SequencesExt, FiniteSetsExt

CONSTANTS WfFrames,        \* datasets: symbol -> rows (at, state, close)
          WfConfigs,       \* train, validation, test, step, least, refit, lookback, next, forward, gated
          HistoryLeast,    \* bars a symbol needs to be used at all
          SessionCounts,   \* lengths of the exchange calendar
          SessionPlans     \* train, validation, test, step, separation of session folds

VARIABLES wfConfig, dataset, foldId, wfPhase,
          learned,         \* validation trades of the folds so far
          results,         \* trades of all the folds
          sessionFolds, sessionPlan

wfVars == <<wfConfig, dataset, foldId, wfPhase, learned, results, sessionFolds, sessionPlan>>

-----------------------------------------------------------------------------
(* MarkovAnalyzer.analyze: rows in the order of time. *)

WorkingRows(rows) ==
    IF wfConfig.lookback > 0 /\ Len(rows) > wfConfig.lookback
    THEN SubSeq(rows, Len(rows) - wfConfig.lookback + 1, Len(rows)) ELSE rows
\* Rows whose next state, or whose forward return, is among the rows.
Followed(rows, horizon) == {i \in DOMAIN rows : i + horizon \in DOMAIN rows}
ForwardReturn(rows, i) == (1000 * (rows[i + wfConfig.forward].close - rows[i].close)) \div rows[i].close
TransitionCounts(rows) ==
    LET known == Followed(rows, wfConfig.next)
        names == {rows[i].state : i \in known} \cup {rows[i + wfConfig.next].state : i \in known}
    IN  [p \in names \X names |->
            Cardinality({i \in known : rows[i].state = p[1] /\ rows[i + wfConfig.next].state = p[2]})]
StateReturns(rows) ==
    LET known == Followed(rows, wfConfig.forward)
    IN  [s \in {rows[i].state : i \in known} |->
            LET mine == {i \in known : rows[i].state = s}
            IN  [observations |-> Cardinality(mine),
                 mean |-> MapThenSumSet(LAMBDA i : ForwardReturn(rows, i), mine) \div Cardinality(mine),
                 positive |-> Cardinality({i \in mine : ForwardReturn(rows, i) > 0})]]
\* The likeliest next state, of equals the first by name (laplace smoothing
\* adds the same to every count).
PredictedNext(counts, s) ==
    LET names == {p[2] : p \in DOMAIN counts}
    IN  CHOOSE n \in names : \A o \in names :
            \/ counts[<<s, n>>] > counts[<<s, o>>]
            \/ (counts[<<s, n>>] = counts[<<s, o>>] /\ n <= o)
Accuracy(counts) ==
    [hits |-> MapThenSumSet(LAMBDA s : counts[<<s, PredictedNext(counts, s)>>], {p[1] : p \in DOMAIN counts}),
     of |-> MapThenSumSet(LAMBDA p : counts[p], DOMAIN counts)]
Analyze(rows) ==
    LET working == WorkingRows(rows)
    IN  [counts |-> TransitionCounts(working), stats |-> StateReturns(working), until |-> Last(rows).at]

-----------------------------------------------------------------------------
(* Folds of bars. *)

WfTimeline ==
    LET times == UNION {{r.at : r \in Range(dataset[s])} : s \in DOMAIN dataset}
    IN  [k \in 1 .. Cardinality(times) |-> CHOOSE t \in times : Cardinality({u \in times : u <= t}) = k]
FoldWidth == wfConfig.train + wfConfig.validation + wfConfig.test
FoldCount == IF Len(WfTimeline) < FoldWidth THEN 0 ELSE (Len(WfTimeline) - FoldWidth) \div wfConfig.step + 1
\* Positions of a part of a fold; without validation bars that part is empty.
TrainPart(k) == LET c == (k - 1) * wfConfig.step IN c + 1 .. c + wfConfig.train
ValidationPart(k) == LET c == (k - 1) * wfConfig.step + wfConfig.train IN c + 1 .. c + wfConfig.validation
TestPartEarly(k) == LET c == (k - 1) * wfConfig.step + wfConfig.train + wfConfig.validation IN c .. c + wfConfig.test
TestPart(k) == LET c == (k - 1) * wfConfig.step + wfConfig.train + wfConfig.validation IN c + 1 .. c + wfConfig.test
TimesOf(part) == {WfTimeline[p] : p \in part}
Slice(s, part) ==
    IF part = {} THEN <<>>
    ELSE SelectSeq(dataset[s], LAMBDA r : r.at >= Min(TimesOf(part)) /\ r.at <= Max(TimesOf(part)))

\* prepare: symbols with enough training bars, and what decides their signals.
FoldSymbols(k) == {s \in DOMAIN dataset : Len(Slice(s, TrainPart(k))) >= wfConfig.least}
TrainAnalysis(s, k) == Analyze(Slice(s, TrainPart(k)))
TestAnalysis(s, k) ==
    IF wfConfig.refit /\ Slice(s, ValidationPart(k)) # <<>>
    THEN Analyze(Slice(s, TrainPart(k)) \o Slice(s, ValidationPart(k))) ELSE TrainAnalysis(s, k)

\* Expectancies by state of the trades learned from; no trade, no table.
QualityTable(ts) ==
    [st \in {t.state : t \in ts} |->
        LET mine == {t \in ts : t.state = st} IN MapThenSumSet(LAMBDA t : t.ret, mine) \div Cardinality(mine)]
GatePasses(st, tableOf) ==
    ~wfConfig.gated \/ DOMAIN tableOf = {} \/ (st \in DOMAIN tableOf /\ tableOf[st] >= 0)
\* A trade of a window: signalled on one bar, entered on the next, closed in it.
WindowTrades(s, rows, analysis, tableOf, split) ==
    {[symbol |-> s, state |-> rows[p[1]].state, entry |-> rows[p[1] + 1].at, exit |-> rows[p[2]].at,
      ret |-> rows[p[2]].close - rows[p[1] + 1].close, fold |-> foldId, split |-> split,
      knows |-> Max({analysis.until} \cup IF split = "test" THEN {t.exit : t \in learned} ELSE {})] :
        p \in {q \in (DOMAIN rows) \X (DOMAIN rows) :
                  /\ q[1] < q[2] /\ rows[q[1]].state \in DOMAIN analysis.stats
                  /\ GatePasses(rows[q[1]].state, tableOf)}}
\* The replays of a window: at most one trade of a symbol.
Replays(options) ==
    {UNION Range(pick) : pick \in {f \in [DOMAIN options -> {{}} \cup {{t} : t \in UNION Range(options)}] :
                                    \A s \in DOMAIN options : f[s] \subseteq options[s]}}

-----------------------------------------------------------------------------
(* Folds of exchange sessions. *)

SessionFold(plan, start) ==
    LET v == start + plan.train + plan.separation
        t == v + plan.validation + plan.separation
    IN  [train |-> start .. start + plan.train - 1, validation |-> v .. v + plan.validation - 1,
         test |-> t .. t + plan.test - 1]
BuildSessionFolds(n, plan) ==
    LET width == plan.train + plan.validation + plan.test + 2 * plan.separation
    IN  IF n < width THEN <<>>
        ELSE [k \in 1 .. (n - width) \div plan.step + 1 |-> SessionFold(plan, 1 + (k - 1) * plan.step)]
PlanIsValid(plan) == Min({plan.train, plan.validation, plan.test, plan.step}) > 0 /\ plan.separation >= 5 /\ plan.step >= plan.test
\* purge_overlapping_labels: a label is a signal's session and the one it ends in.
PurgeOverlapping(labels, part, boundary) == {l \in labels : l.signal \in part /\ l.end < boundary}
\* run_etf_continuous: one account from the first to the last test session.
EtfContinuous(folds) ==
    LET tests == UNION {folds[k].test : k \in DOMAIN folds}
    IN  [active |-> Min(tests) .. Max(tests), entries |-> tests]

-----------------------------------------------------------------------------
WfInit ==
    /\ wfConfig = <<>> /\ dataset = <<>> /\ foldId = 0 /\ wfPhase = "idle"
    /\ learned = {} /\ results = {} /\ sessionFolds = <<>> /\ sessionPlan = <<>>

\* load_raw_market_data, prepare_dataset: what cannot be loaded, is too short or
\* gets no state is left out.
LoadDataset(config, frames, failing) ==
    /\ wfPhase = "idle" /\ wfConfig' = config
    /\ dataset' = [s \in {t \in DOMAIN frames \ failing : Len(frames[t]) >= HistoryLeast} |-> frames[s]]
    /\ wfPhase' = "validation" /\ foldId' = 1 /\ UNCHANGED <<learned, results, sessionFolds, sessionPlan>>
\* The validation replay of a fold: no table, trades are learned from.
RunValidation ==
    /\ wfPhase = "validation" /\ foldId <= FoldCount
    /\ \E ts \in Replays([s \in FoldSymbols(foldId) |->
              WindowTrades(s, Slice(s, ValidationPart(foldId)), TrainAnalysis(s, foldId), <<>>, "validation")]) :
          learned' = learned \cup ts /\ results' = results \cup ts
    /\ wfPhase' = "test" /\ UNCHANGED <<wfConfig, dataset, foldId, sessionFolds, sessionPlan>>
RunTest ==
    /\ wfPhase = "test"
    /\ \E tableOf \in {QualityTable(learned)} :
       \E ts \in Replays([s \in FoldSymbols(foldId) |->
              WindowTrades(s, Slice(s, TestPart(foldId)), TestAnalysis(s, foldId), tableOf, "test")]) :
          results' = results \cup ts
    /\ wfPhase' = "validation" /\ foldId' = foldId + 1 /\ UNCHANGED <<wfConfig, dataset, learned, sessionFolds, sessionPlan>>
BuildSessions(n, plan) ==
    /\ wfPhase = "idle" /\ PlanIsValid(plan)
    /\ sessionFolds' = BuildSessionFolds(n, plan) /\ sessionPlan' = [plan EXCEPT !.sessions = n] /\ wfPhase' = "sessions"
    /\ UNCHANGED <<wfConfig, dataset, foldId, learned, results>>

WfNext ==
    \/ \E config \in WfConfigs, frames \in WfFrames : \E failing \in SUBSET DOMAIN frames : LoadDataset(config, frames, failing)
    \/ RunValidation \/ RunTest
    \/ \E n \in SessionCounts, plan \in SessionPlans : BuildSessions(n, plan)

WfSpec == WfInit /\ [][WfNext]_wfVars

-----------------------------------------------------------------------------
\* Nothing that decided a trade - training bars, labels with their forward
\* returns, trades learned from - lies in its window or after it.
DecisionsUseThePast ==
    \A t \in results :
        LET part == IF t.split = "test" THEN TestPart(t.fold) ELSE ValidationPart(t.fold)
        IN  t.knows < Min(TimesOf(part)) /\ t.entry \in TimesOf(part) /\ t.exit \in TimesOf(part)

\* With steps of at least a test window no bar is traded in two tests, and no
\* symbol holds two positions in them at a time.
TestsAreDisjoint ==
    wfPhase \in {"validation", "test"} /\ wfConfig.step >= wfConfig.test =>
        \A t, u \in {r \in results : r.split = "test"} :
            t # u /\ t.symbol = u.symbol => t.exit < u.entry \/ u.exit < t.entry

\* Every row that has a successor is counted once, states of the statistics are
\* those of the rows, and nothing is predicted better than the best constant.
AnalysesAddUp ==
    wfPhase = "test" =>
        \A s \in FoldSymbols(foldId) :
            \E a \in {TestAnalysis(s, foldId)} :
                LET rows == WorkingRows(Slice(s, TrainPart(foldId)) \o
                                        IF wfConfig.refit THEN Slice(s, ValidationPart(foldId)) ELSE <<>>)
                IN  /\ Accuracy(a.counts).of = Max({Len(rows) - wfConfig.next, 0})
                    /\ Accuracy(a.counts).hits <= Accuracy(a.counts).of
                    /\ MapThenSumSet(LAMBDA st : a.stats[st].observations, DOMAIN a.stats)
                          = Max({Len(rows) - wfConfig.forward, 0})

\* Session folds are whole, chronological and separated by the embargo; a label
\* that is kept for training has ended before validation begins; the one account
\* of a continuous replay enters in test sessions only, and they do not overlap.
SessionFoldsAreSeparated ==
    wfPhase = "sessions" /\ sessionFolds # <<>> =>
        /\ \A k \in DOMAIN sessionFolds :
              LET f == sessionFolds[k]
                  labels == {[signal |-> a, end |-> b] : a, b \in 1 .. Min({sessionPlan.sessions, 12})}
              IN  /\ Max(f.train) + 5 < Min(f.validation) /\ Max(f.validation) + 5 < Min(f.test)
                  /\ Max(f.test) <= sessionPlan.sessions
                  /\ \A l \in PurgeOverlapping(labels, f.train, Min(f.validation)) : l.end < Min(f.validation)
                  /\ k > 1 => Max(sessionFolds[k - 1].test) < Min(f.test)
        /\ LET e == EtfContinuous(sessionFolds)
           IN  /\ e.entries \subseteq e.active
               /\ Cardinality(e.entries) = Len(sessionFolds) * sessionPlan.test

WalkForwardIsHonest ==
    DecisionsUseThePast /\ TestsAreDisjoint /\ AnalysesAddUp /\ SessionFoldsAreSeparated
=============================================================================
