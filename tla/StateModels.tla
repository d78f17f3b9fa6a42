----------------------------- MODULE StateModels -----------------------------
(***************************************************************************)
(* From bars to states: the features of a bar (features/engine.py) and the *)
(* models that name the state it is in (states/): two rule models, feature *)
(* bins, k-means clusters and clusters inside a regime, sparse states      *)
(* merged into broader ones, and the context a label may carry.  A model   *)
(* is fitted on a training frame and then classifies that frame and every  *)
(* bar that follows.  Ratios are per mille; a volatility is a sum of       *)
(* absolute returns and a z-score its signed square.  k-means itself is a  *)
(* choice of any partition in which every point is nearest to its centre.  *)
(***************************************************************************)
EXTENDS Integers, FiniteSets, SequencesExt, FiniteSetsExt

CONSTANTS TrainingFrames,  \* frames a model may be fitted on
          StateBarShapes,       \* bars that may follow: close, high, low, volume
          StateConfigs,    \* the state configurations that are compared
          LastBar,         \* frames end here
          MaWindows,       \* moving averages, from the fastest to the slowest
          RollWindow,      \* window of volatility, z-scores, volume, RSI and ATR
          Horizons         \* short, medium and long return horizon

VARIABLES stateConfig, training, fitted,
          stateBars, stateRows, states   \* the frame, its features and its states

stateVars == <<stateConfig, training, fitted, stateBars, stateRows, states>>

NA == -1000000

-----------------------------------------------------------------------------
(* Features: a bar's own past, and nothing while a window is not full. *)

Above(x, limit) == x # NA /\ x > limit
Below(x, limit) == x # NA /\ x < limit
Select(high, low, names) == IF high THEN names[1] ELSE IF low THEN names[2] ELSE names[3]
Magnitude(x) == IF x < 0 THEN -x ELSE x
Ratio(a, b) == IF a = NA \/ b = NA \/ b = 0 THEN NA ELSE (1000 * a) \div b
Difference(x, t, h) == IF t <= h \/ x[t] = NA \/ x[t - h] = NA THEN NA ELSE x[t] - x[t - h]
RollingSum(x, t, w) ==
    IF t < w \/ \E i \in t - w + 1 .. t : x[i] = NA THEN NA ELSE MapThenSumSet(LAMBDA i : x[i], t - w + 1 .. t)
OverMean(x, t, w) ==   \* x / rolling mean - 1
    IF RollingSum(x, t, w) = NA THEN NA ELSE Ratio(w * x[t] - RollingSum(x, t, w), RollingSum(x, t, w))
RollingZscore(x, t, w) ==
    LET total == RollingSum(x, t, w)
        spread == w * RollingSum([i \in DOMAIN x |-> IF x[i] = NA THEN NA ELSE x[i] * x[i]], t, w) - total * total
        far == w * x[t] - total
    IN  IF total = NA \/ spread = 0 THEN NA
        ELSE (IF far < 0 THEN -1 ELSE 1) * ((far * far * (w - 1)) \div (w * spread))
RunLength(x, t) == Max({k \in 1..t : \A i \in t - k + 1 .. t : x[i] = x[t]})

BarCloses(frame) == [i \in DOMAIN frame |-> frame[i].close]
PeriodReturn(frame, t, h) == IF t <= h THEN NA ELSE Ratio(Difference(BarCloses(frame), t, h), frame[t - h].close)
TrueRange(frame) ==
    [i \in DOMAIN frame |->
        LET b == frame[i]
            before == IF i = 1 THEN {} ELSE {frame[i - 1].close}
        IN  Max({b.high - b.low} \cup {Magnitude(b.high - c) : c \in before} \cup {Magnitude(b.low - c) : c \in before})]
RealizedVol(frame) ==
    LET moves == [i \in DOMAIN frame |-> IF i = 1 THEN NA ELSE Magnitude(PeriodReturn(frame, i, 1))]
    IN  [i \in DOMAIN frame |-> RollingSum(moves, i, RollWindow)]
\* Wilder's averages, over a common power of the window.
RelativeStrength(frame, t) ==
    LET Weigh(gain) ==
            FoldLeft(LAMBDA acc, i :
                        LET move == frame[i].close - frame[i - 1].close
                            x == Max({0, IF gain THEN move ELSE -move})
                        IN  IF i = 2 THEN RollWindow * x ELSE (RollWindow - 1) * acc + x * RollWindow ^ (i - 2),
                     0, [i \in 1 .. t - 1 |-> i + 1])
    IN  IF t <= RollWindow THEN NA
        ELSE IF Weigh(FALSE) = 0 THEN IF Weigh(TRUE) > 0 THEN 100 ELSE 50
        ELSE 100 - (100 * Weigh(FALSE)) \div (Weigh(TRUE) + Weigh(FALSE))
TrendSpread(frame, t) ==
    LET fast == Head(MaWindows)
        slow == Last(MaWindows)
        total == RollingSum(BarCloses(frame), t, slow)
    IN  IF total = NA THEN NA ELSE Ratio(slow * RollingSum(BarCloses(frame), t, fast) - fast * total, fast * total)
Features(frame, t) ==
    LET close == BarCloses(frame)
        volumes == [i \in DOMAIN frame |-> frame[i].volume]
        directions == [i \in DOMAIN frame |-> Select(Above(TrendSpread(frame, i), 0), Below(TrendSpread(frame, i), 0),
                                                     <<"up", "down", "neutral">>)]
        rate(i) == IF PeriodReturn(frame, t, Horizons[i]) = NA THEN NA ELSE PeriodReturn(frame, t, Horizons[i]) \div Horizons[i]
        atr == RollingSum(TrueRange(frame), t, RollWindow)
        slow == RollingSum(close, t, Last(MaWindows))
        span == t - RollWindow + 1 .. t
        low == Min({frame[i].low : i \in span \cap DOMAIN frame})
        high == Max({frame[i].high : i \in span \cap DOMAIN frame})
    IN  [returns |-> [i \in 1..3 |-> PeriodReturn(frame, t, Horizons[i])],
         gaps |-> [i \in DOMAIN MaWindows |-> OverMean(close, t, MaWindows[i])],
         spread |-> TrendSpread(frame, t),
         volZscore |-> IF RealizedVol(frame)[t] = NA THEN NA ELSE RollingZscore(RealizedVol(frame), t, RollWindow),
         volExpansion |-> OverMean(RealizedVol(frame), t, RollWindow),
         zscore |-> RollingZscore(close, t, RollWindow),
         rsi |-> RelativeStrength(frame, t),
         accel |-> IF rate(1) = NA \/ rate(2) = NA THEN NA ELSE rate(1) - rate(2),
         stretch |-> IF atr = NA \/ slow = NA THEN NA
                     ELSE Ratio(RollWindow * (Last(MaWindows) * close[t] - slow), Last(MaWindows) * atr),
         volumeRatio |-> OverMean(volumes, t, RollWindow),
         persistence |-> RunLength(directions, t),
         position |-> IF t < RollWindow THEN NA ELSE Ratio(close[t] - low, high - low)]

-----------------------------------------------------------------------------
(* Rules. *)

\* CompositeRuleStateModel.classify; what is not known yet is in the middle.
RuleComponents(f) ==
    LET c == stateConfig
    IN  [trend |-> Select(Above(f.spread, c.trend), Below(f.spread, -c.trend), <<"up", "down", "neutral">>),
         volatility |-> Select(Above(f.volZscore, c.volZ), Below(f.volZscore, -c.volZ), <<"high", "low", "normal">>),
         momentum |-> Select(Above(f.returns[1], c.momentum), Below(f.returns[1], -c.momentum),
                             <<"strong", "weak", "neutral">>),
         extension |-> Select(Above(f.zscore, c.extension) \/ Above(f.rsi, c.overbought),
                              Below(f.zscore, -c.extension) \/ Below(f.rsi, 100 - c.overbought),
                              <<"overbought", "oversold", "normal">>)]

\* RichCompositeRuleStateModel._component_frame, of the components in use.
TrendScore(f) ==
    LET signs == f.returns \o f.gaps
    IN  Cardinality({i \in DOMAIN signs : Above(signs[i], 0)}) - Cardinality({i \in DOMAIN signs : Below(signs[i], 0)})
RichComponents(f) ==
    LET c == stateConfig
        Collapse(x, middle, name) == IF c.collapse /\ x # middle THEN name ELSE x
        all == [trend |-> Select(TrendScore(f) >= c.score, TrendScore(f) <= -c.score, <<"up", "down", "mixed">>),
                volatility |-> Collapse(Select(Above(f.volExpansion, c.volRegime) \/ Above(f.volZscore, c.volZ),
                                               Below(f.volExpansion, -c.volRegime) \/ Below(f.volZscore, -c.volZ),
                                               <<"expanding", "compressing", "stable">>), "stable", "unstable"),
                acceleration |-> Collapse(Select(Above(f.accel, c.accel), Below(f.accel, -c.accel),
                                                 <<"accelerating", "decelerating", "steady">>), "steady", "active"),
                extension |-> Collapse(Select(Above(f.rsi, c.overbought - 1) \/ Above(f.stretch, c.stretch - 1),
                                              Below(f.rsi, 101 - c.overbought) \/ Below(f.stretch, 1 - c.stretch),
                                              <<"stretched_up", "stretched_down", "normal">>), "normal", "stretched"),
                volume |-> Select(Above(f.volumeRatio, c.volume - 1), Below(f.volumeRatio, 1 - c.volume),
                                  <<"expanding", "contracting", "normal">>),
                persistence |-> Select(f.persistence <= Head(c.ages), f.persistence <= Last(c.ages),
                                       <<"fresh", "established", "extended">>)]
        used == IF c.components = <<>> THEN {"trend", "volatility", "extension"} ELSE Range(c.components)
    IN  [n \in used |-> all[n]]

-----------------------------------------------------------------------------
(* Feature bins. *)

\* The mean of a group, and the features that are left to use.
GroupValue(f, members) ==
    LET known == {m \in members : f[m] # NA}
    IN  IF known = {} THEN NA ELSE MapThenSumSet(LAMBDA m : f[m], known) \div Cardinality(known)
BinValue(f, n) == IF n = "group" THEN GroupValue(f, stateConfig.group) ELSE f[n]
SelectFeatures(fs) ==
    SelectSeq(SelectSeq(stateConfig.features, LAMBDA n : n \notin stateConfig.group)
              \o IF stateConfig.group = {} THEN <<>> ELSE <<"group">>,
              LAMBDA n : \E t \in DOMAIN fs : BinValue(fs[t], n) # NA)

\* Inner edges, times the number of bins: quantiles of the training values or
\* equal steps; equal edges are one, the outermost are without limit.
InnerEdges(values) ==
    LET n == stateConfig.bins
        s == SortSeq(values, LAMBDA x, y : x < y)
        Quantile(j) == LET h == j * (Len(s) - 1)
                           at == h \div n + 1
                       IN  IF at = Len(s) THEN n * s[at] ELSE n * s[at] + (h % n) * (s[at + 1] - s[at])
        edges == IF stateConfig.quantiles THEN {Quantile(j) : j \in 0..n}
                 ELSE {n * Head(s) + j * (Last(s) - Head(s)) : j \in 0..n}
    IN  edges \ {Min(edges), Max(edges)}
FitBins(fs) ==
    [n \in Range(SelectFeatures(fs)) |->
        InnerEdges(SelectSeq([t \in DOMAIN fs |-> BinValue(fs[t], n)], LAMBDA x : x # NA))]
BinComponents(f, edges) ==
    [n \in DOMAIN edges |->
        IF BinValue(f, n) = NA THEN "missing"
        ELSE ToString(Cardinality({e \in edges[n] : stateConfig.bins * BinValue(f, n) > e}))]

-----------------------------------------------------------------------------
(* SparseStateReducer. *)

\* _merge_priority: bins always end with all the components, rules need not.
MergePriority(columns) ==
    LET configured == SelectSeq(stateConfig.mergeOrder, LAMBDA n : n \in Range(columns))
        rest == SelectSeq(Reverse(columns), LAMBDA n : n \notin Range(configured))
    IN  IF stateConfig.model = "bins" THEN configured \o rest
        ELSE IF stateConfig.mergeOrder # <<>> THEN configured ELSE Reverse(columns)
Generalized(label, priority, level) ==
    [n \in DOMAIN label |-> IF \E i \in 1..level : priority[i] = n THEN "any" ELSE label[n]]
\* Training rows that look the same at a level, and the first level with enough.
CountAt(model, label, level) ==
    Cardinality({t \in DOMAIN model.labels : Generalized(model.labels[t], model.priority, level)
                                             = Generalized(label, model.priority, level)})
EnoughAt(model, label) ==
    {l \in 0 .. Len(model.priority) : CountAt(model, label, l) >= stateConfig.minObservations}
Reduce(model, label) ==
    IF stateConfig.minObservations = 0 THEN label
    ELSE IF EnoughAt(model, label) = {} THEN [rare_state |-> TRUE]
    ELSE Generalized(label, model.priority, Min(EnoughAt(model, label)))

-----------------------------------------------------------------------------
(* Clusters. *)

ClusterPoint(f, median) == IF f[stateConfig.clusterOn] = NA THEN median ELSE f[stateConfig.clusterOn]
MedianOf(values) ==
    LET s == SortSeq(SelectSeq(values, LAMBDA x : x # NA), LAMBDA x, y : x < y)
    IN  IF s = <<>> THEN 0 ELSE (s[(Len(s) + 1) \div 2] + s[Len(s) \div 2 + 1]) \div 2
EffectiveClusterCount(n) ==
    IF n <= 1 THEN 1
    ELSE LET wanted == Max({stateConfig.clusters, 1})
         IN  Min({n, IF stateConfig.minSize > 0 THEN Min({wanted, Max({n \div stateConfig.minSize, 1})})
                        ELSE wanted})
\* A cluster as the sum of its points and their number; nearer of two centres.
Centre(points, of, c) ==
    LET members == {t \in DOMAIN points : of[t] = c}
    IN  [total |-> MapThenSumSet(LAMBDA t : points[t], members), size |-> Cardinality(members)]
Gap(x, size, centre) == Magnitude(x * centre.size - centre.total * size)   \* times both sizes
Nearest(x, size, centres, among) ==
    CHOOSE c \in among :
        \A d \in among : LET a == Gap(x, size, centres[c]) * centres[d].size
                             b == Gap(x, size, centres[d]) * centres[c].size
                         IN  a < b \/ (a = b /\ c <= d)
KMeans(points, k) ==
    {of \in [DOMAIN points -> 0 .. k - 1] :
        /\ \A c \in 0 .. k - 1 : \E t \in DOMAIN points : of[t] = c
        /\ LET centres == [c \in 0 .. k - 1 |-> Centre(points, of, c)]
           IN  \A t \in DOMAIN points : of[t] = Nearest(points[t], 1, centres, 0 .. k - 1)}
\* _merge_small_clusters: a small cluster joins the nearest that is not small,
\* and what is left is numbered from 0.
MergeSmallClusters(centres) ==
    LET large == {c \in DOMAIN centres : centres[c].size >= stateConfig.minSize}
        dominant == CHOOSE c \in DOMAIN centres :
                        \A d \in DOMAIN centres : \/ centres[c].size > centres[d].size
                                                  \/ (centres[c].size = centres[d].size /\ c <= d)
        valid == IF large = {} THEN {dominant} ELSE large
        target == [c \in DOMAIN centres |->
                      IF c \in valid THEN c ELSE Nearest(centres[c].total, centres[c].size, centres, valid)]
    IN  [c \in DOMAIN centres |-> Cardinality({d \in valid : d < target[c]})]
FitClusters(fs) ==
    LET raw == [t \in DOMAIN fs |-> fs[t][stateConfig.clusterOn]]
        points == [t \in DOMAIN fs |-> ClusterPoint(fs[t], MedianOf(raw))]
        Bundle(of) ==
            LET centres == [c \in Range(of) |-> Centre(points, of, c)]
            IN  [median |-> MedianOf(raw), centres |-> centres,
                 to |-> IF stateConfig.merge /\ Cardinality(Range(of)) > 1
                        THEN MergeSmallClusters(centres) ELSE [c \in Range(of) |-> c]]
    IN  {Bundle(of) : of \in KMeans(points, EffectiveClusterCount(Len(fs)))}
PredictCluster(f, bundle) ==
    bundle.to[Nearest(ClusterPoint(f, bundle.median), 1, bundle.centres, DOMAIN bundle.centres)]

\* HybridRegimeKMeansStateModel: the coarse regime of a bar.
CoarseRegime(f) ==
    IF stateConfig.anchor = "volatility"
    THEN Select(Above(f.volExpansion, stateConfig.volRegime) \/ Above(f.volZscore, stateConfig.volZ),
                Below(f.volExpansion, -stateConfig.volRegime) \/ Below(f.volZscore, -stateConfig.volZ),
                <<"volatile", "calm", "stable">>)
    ELSE Select(Above(f.returns[2], stateConfig.trend) /\ Above(Head(f.gaps), 0) /\ Above(Last(f.gaps), 0),
                Below(f.returns[2], -stateConfig.trend) /\ Below(Head(f.gaps), 0) /\ Below(Last(f.gaps), 0),
                <<"uptrend", "downtrend", "neutral">>)
RegimeRows(fs, regime) == SelectSeq(fs, LAMBDA f : CoarseRegime(f) = regime)

-----------------------------------------------------------------------------
(* fit and classify *)

FeatureRows(frame) == [t \in DOMAIN frame |-> Features(frame, t)]
\* The models a training frame may give; none if no feature has a value.
FitModels(fs) ==
    LET kind == stateConfig.model
        regimes == {CoarseRegime(fs[t]) : t \in DOMAIN fs}
        rich == IF stateConfig.components = <<>> THEN <<"trend", "volatility", "extension">> ELSE stateConfig.components
        Fittable(some) == \E t \in DOMAIN some : some[t][stateConfig.clusterOn] # NA
        local == {r \in regimes : Len(RegimeRows(fs, r)) >= stateConfig.minRegime}
    IN  CASE kind = "rule" -> {[model |-> "rule"]}
          [] kind = "rich" -> {[labels |-> [t \in DOMAIN fs |-> RichComponents(fs[t])],
                                priority |-> MergePriority(rich)]}
          [] kind = "bins" -> {[edges |-> FitBins(fs),
                                labels |-> [t \in DOMAIN fs |-> BinComponents(fs[t], FitBins(fs))],
                                priority |-> MergePriority(SelectFeatures(fs))] : x \in
                               IF SelectFeatures(fs) = <<>> THEN {} ELSE {1}}
          [] kind = "kmeans" -> IF Fittable(fs) THEN FitClusters(fs) ELSE {}
          [] kind = "hybrid" ->
               IF \A r \in local : Fittable(RegimeRows(fs, r))
               THEN {m \in [local -> UNION {FitClusters(RegimeRows(fs, r)) : r \in local}] :
                        \A r \in local : m[r] \in FitClusters(RegimeRows(fs, r))}
               ELSE {}
BaseState(f, model) ==
    LET kind == stateConfig.model
    IN  CASE kind = "rule" -> RuleComponents(f)
          [] kind = "rich" -> Reduce(model, RichComponents(f))
          [] kind = "bins" -> Reduce(model, BinComponents(f, model.edges))
          [] kind = "kmeans" -> PredictCluster(f, model)
          [] kind = "hybrid" ->
               <<CoarseRegime(f), IF CoarseRegime(f) \in DOMAIN model THEN PredictCluster(f, model[CoarseRegime(f)]) ELSE 0>>

\* infer_bias_from_frame, and ContextualStateModel.classify around a base model.
Bias(f) ==
    LET trend == CASE stateConfig.model = "rule" -> RuleComponents(f).trend
                   [] stateConfig.model = "rich" /\ "trend" \in DOMAIN RichComponents(f) -> RichComponents(f).trend
                   [] OTHER -> Select(Above(f.returns[2], 0) /\ Above(Last(f.gaps), 0),
                                      Below(f.returns[2], 0) /\ Below(Last(f.gaps), 0), <<"up", "down", "neutral">>)
    IN  IF trend = "up" THEN "bullish" ELSE IF trend = "down" THEN "bearish" ELSE "neutral"
DurationBucket(age) == Cardinality({limit \in stateConfig.buckets : age > limit})
BeforeShifted(series, t, lag) == IF t + lag > Len(series) THEN <<>> ELSE <<series[t + lag]>>
Before(series, t, lag) == IF t <= lag THEN <<>> ELSE <<series[t - lag]>>   \* "start", or what it was
RecentPath(source, t) == [lag \in 1 .. stateConfig.path |-> Before(source, t, lag)]
EntryBias(base, bias, t) == Before(bias, t - RunLength(base, t) + 1, 1)
Contextual(base, bias, t) ==
    LET source == IF stateConfig.full THEN base ELSE bias
        asked == stateConfig.context
    IN  [base |-> base[t],
         previous |-> IF "previous" \in asked THEN Before(source, t, 1) ELSE <<>>,
         age |-> IF "age" \in asked THEN DurationBucket(RunLength(base, t)) ELSE 0,
         path |-> IF "path" \in asked THEN RecentPath(source, t) ELSE <<>>,
         entry |-> IF "entry" \in asked THEN EntryBias(base, bias, t) ELSE <<>>]
Classified(fs, model) ==
    LET base == [t \in DOMAIN fs |-> BaseState(fs[t], model)]
        bias == [t \in DOMAIN fs |-> Bias(fs[t])]
    IN  [t \in DOMAIN fs |-> Contextual(base, bias, t)]

\* compute_state_diagnostics: how often a state is met and for how long.
StateFrequency == [x \in Range(states) |-> Cardinality({t \in DOMAIN states : states[t] = x})]
SparseStates == {x \in Range(states) : StateFrequency[x] < stateConfig.sparseBelow}
RunsOf(x) == {t \in DOMAIN states : states[t] = x /\ (t = Len(states) \/ states[t + 1] # x)}
Persistence == [x \in Range(states) |-> [runs |-> Cardinality(RunsOf(x)),
                    longest |-> Max({RunLength(states, t) : t \in RunsOf(x)}),
                    total |-> MapThenSumSet(LAMBDA t : RunLength(states, t), RunsOf(x))]]

-----------------------------------------------------------------------------
StateInit == stateConfig = <<>> /\ training = <<>> /\ fitted = <<>> /\ stateBars = <<>> /\ stateRows = <<>> /\ states = <<>>

ChooseModel(config, frame) ==
    /\ stateConfig = <<>> /\ stateConfig' = config /\ training' = FeatureRows(frame) /\ stateBars' = frame
    /\ UNCHANGED <<fitted, stateRows, states>>
\* fit_transform; a model without a feature it can use is refused.
FitModel ==
    /\ stateConfig # <<>> /\ stateRows = <<>> /\ stateRows' = training
    /\ \E model \in FitModels(training) : fitted' = model /\ states' = Classified(training, model)
    /\ UNCHANGED <<stateConfig, training, stateBars>>
\* The whole frame is classified again when a bar is added.
ClassifyBar(b) ==
    /\ stateRows # <<>> /\ Len(stateBars) < LastBar
    /\ stateBars' = Append(stateBars, b) /\ stateRows' = FeatureRows(Append(stateBars, b)) /\ states' = Classified(FeatureRows(Append(stateBars, b)), fitted)
    /\ UNCHANGED <<stateConfig, training, fitted>>

StateNext ==
    \/ \E config \in StateConfigs, frame \in TrainingFrames : ChooseModel(config, frame)
    \/ FitModel
    \/ \E b \in StateBarShapes : ClassifyBar(b)

StateSpec == StateInit /\ [][StateNext]_stateVars

-----------------------------------------------------------------------------
\* No look-ahead: the features and the state of a bar stay as they were when
\* it was the last one, whatever follows (windows, runs, entries, bins).
StatesAreFinal ==
    [][stateRows # <<>> => IsPrefix(stateRows, stateRows') /\ IsPrefix(states, states')]_stateVars

\* A merged label is shared by enough training bars, and a bar goes without
\* one only if some component may not be merged or training is too short.
MergedStatesAreSupported ==
    stateRows # <<>> /\ stateConfig.model \in {"rich", "bins"} /\ stateConfig.minObservations > 0 =>
        \A t \in DOMAIN stateRows :
            LET own == IF stateConfig.model = "rich" THEN RichComponents(stateRows[t]) ELSE BinComponents(stateRows[t], fitted.edges)
                label == states[t].base
            IN  IF "rare_state" \in DOMAIN label
                THEN \/ Len(training) < stateConfig.minObservations
                     \/ DOMAIN own \ Range(fitted.priority) # {}
                ELSE /\ \A n \in DOMAIN own : label[n] \in {own[n], "any"}
                     /\ Cardinality({u \in DOMAIN training :
                            \A n \in DOMAIN own : label[n] = "any" \/ fitted.labels[u][n] = own[n]})
                            >= stateConfig.minObservations

\* Clusters are numbered from 0, none smaller than the minimum stays beside
\* another, and training bars are predicted into the clusters they trained.
ClustersAreSized ==
    stateRows # <<>> /\ stateConfig.model \in {"kmeans", "hybrid"} =>
        LET bundles == IF stateConfig.model = "kmeans" THEN {fitted} ELSE Range(fitted)
            Size(bundle, c) == MapThenSumSet(LAMBDA r : bundle.centres[r].size,
                                             {r \in DOMAIN bundle.to : bundle.to[r] = c})
        IN  /\ \A b \in bundles :
                  /\ Range(b.to) = 0 .. Cardinality(Range(b.to)) - 1
                  /\ stateConfig.merge /\ Cardinality(Range(b.to)) > 1 =>
                        \A c \in Range(b.to) : Size(b, c) >= stateConfig.minSize
            /\ stateConfig.model = "kmeans" =>
                  \A c \in Range(fitted.to) :
                      Size(fitted, c) = Cardinality({t \in DOMAIN training : states[t].base = c})

\* Frequencies and runs account for every bar, so a sparse state has no run
\* as long as the threshold.
DiagnosticsAddUp ==
    stateRows # <<>> =>
        /\ MapThenSumSet(LAMBDA x : StateFrequency[x], Range(states)) = Len(stateBars)
        /\ \A x \in Range(states) :
              /\ Persistence[x].total = StateFrequency[x]
              /\ x \in SparseStates => Persistence[x].longest < stateConfig.sparseBelow

StatesAreSound == MergedStatesAreSupported /\ ClustersAreSized /\ DiagnosticsAddUp
=============================================================================
