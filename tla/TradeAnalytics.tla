---------------------------- MODULE TradeAnalytics ----------------------------
(***************************************************************************)
(* What is concluded from finished trades: the quality tables that gate    *)
(* later signals (analytics/quality.py, research/quality.py), the trade    *)
(* summaries (analytics/diagnostics.py) and the performance of an account  *)
(* (analytics/metrics.py).  Returns and shares are per mille, means are    *)
(* rounded down, a Sharpe ratio is its signed square and a logarithm its   *)
(* argument; none of that changes an order.  Annualised figures are left   *)
(* out.                                                                    *)
(***************************************************************************)
EXTENDS Integers, FiniteSets, SequencesExt, FiniteSetsExt

CONSTANTS TradeShapes,     \* class, state, reason, ret, pnl, ev, adverse, hold; "" is an unknown state
          MaxTrades,       \* trades of a history
          MinGroup,        \* min_group_observations
          TopTrades,       \* top_n
          ExcursionEdges   \* lower ends of the excursion buckets, the first 0

VARIABLES trades,          \* as recorded, with their fold
          equity,          \* equity after each of them
          fold,
          table            \* the last quality table: rows, key and its trades

analyticsVars == <<trades, equity, fold, table>>

-----------------------------------------------------------------------------
SumOf(s) == FoldLeft(LAMBDA x, y : x + y, 0, s)
MeanOf(s) == IF s = <<>> THEN 0 ELSE SumOf(s) \div Len(s)
Column(ts, c) == [i \in DOMAIN ts |-> ts[i][c]]
WinShare(ts, c) == (1000 * Len(SelectSeq(ts, LAMBDA t : t[c] > 0))) \div Max({Len(ts), 1})
\* n(n - 1) times the variance of a sample.
SpreadOf(s) == Len(s) * SumOf([i \in DOMAIN s |-> s[i] * s[i]]) - SumOf(s) * SumOf(s)
VarianceOf(s) == IF Len(s) <= 1 THEN 0 ELSE SpreadOf(s) \div (Len(s) * (Len(s) - 1))
SharpeOf(s) ==
    IF SpreadOf(s) = 0 THEN 0
    ELSE (IF SumOf(s) < 0 THEN -1 ELSE 1) * ((10 * SumOf(s) * SumOf(s) * (Len(s) - 1)) \div (Len(s) * SpreadOf(s)))

\* _max_drawdown: of the compounded returns, from a peak of at least the start.
DrawdownOf(returns) ==
    LET Step(acc, r) ==
            LET value == (acc.value * (1000 + r)) \div 1000
                peak == Max({acc.peak, value})
            IN  [value |-> value, peak |-> peak, worst |-> Max({acc.worst, 1000 - (1000 * value) \div peak})]
    IN  FoldLeft(Step, [value |-> 100000, peak |-> 100000, worst |-> 0], returns).worst

-----------------------------------------------------------------------------
(* Quality of a group: edge_quality. *)

\* Groups of trades; a key that is not known counts in summaries only.
KeyOf(t, key) == IF key = "all" THEN <<>> ELSE IF key = "mode" THEN <<t.class, t.reason, t.state>> ELSE <<t.class, t[key]>>
GroupOf(ts, key, g) == SelectSeq(ts, LAMBDA t : KeyOf(t, key) = g)
GroupKeys(ts, key) == {KeyOf(ts[i], key) : i \in DOMAIN ts}
OrderedTrades(ts) == SortSeq(ts, LAMBDA a, b : a.exit < b.exit)

\* By fold: expectancies and Sharpe ratios, in any order.
FoldsOf(ts) == {ts[i].fold : i \in DOMAIN ts}
ReturnsByFold(ts) ==
    LET folds == SetToSortSeq(FoldsOf(ts), LAMBDA a, b : a < b)
    IN  [i \in DOMAIN folds |-> Column(SelectSeq(ts, LAMBDA t : t.fold = folds[i]), "ret")]
GroupMeasures(ts, overall) ==
    LET returns == Column(ts, "ret")
        byFold == ReturnsByFold(ts)
        expectancies == [i \in DOMAIN byFold |-> MeanOf(byFold[i])]
    IN  [samples |-> Len(ts), expectancy |-> MeanOf(returns), sharpe |-> SharpeOf(returns),
         wins |-> WinShare(ts, "ret"),
         drawdown |-> IF overall > 0 THEN (1000 * DrawdownOf(returns)) \div overall ELSE 0,
         folds |-> Len(expectancies),
         positive |-> (1000 * Len(SelectSeq(expectancies, LAMBDA x : x > 0))) \div Len(expectancies),
         variance |-> VarianceOf(expectancies), sharpeVariance |-> VarianceOf([i \in DOMAIN byFold |-> SharpeOf(byFold[i])])]
\* _normalize and _blend_scores, over the groups that are left.
NormalizedOver(m, g, c) ==
    LET values == {m[h][c] : h \in DOMAIN m}
    IN  IF Cardinality(values) = 1 THEN 500 ELSE (1000 * (m[g][c] - Min(values))) \div (Max(values) - Min(values))
BlendScores(m, g, up, down) ==   \* component -> weight, better when higher or when lower
    LET parts == [c \in DOMAIN up |-> up[c] * NormalizedOver(m, g, c)]
        less == [c \in DOMAIN down |-> down[c] * (1000 - NormalizedOver(m, g, c))]
        add(a, b) == a + b
    IN  (FoldFunction(add, 0, parts) + FoldFunction(add, 0, less))
        \div (FoldFunction(add, 0, up) + FoldFunction(add, 0, down))
ConsistencyScore(m, g) ==
    BlendScores(m, g, [folds |-> 1, positive |-> 1], [variance |-> 1, sharpeVariance |-> 1])
QualityScore(m, g) ==
    BlendScores(m, g, [expectancy |-> 25, sharpe |-> 25, wins |-> 10, samples |-> 15, consistency |-> 20],
                [drawdown |-> 5])
\* _add_rank_metrics: dense ranks inside an asset class.
DenseRank(m, g, c) == 1 + Cardinality({m[h][c] : h \in {k \in DOMAIN m : k[1] = g[1] /\ m[k][c] > m[g][c]}})
GroupSize(m, g) == Cardinality({h \in DOMAIN m : h[1] = g[1]})
Percentile(m, g, c) == 1000 - (1000 * (DenseRank(m, g, c) - 1)) \div GroupSize(m, g)
\* The groups with enough trades, measured, scored and ranked in this order.
Measured(ts, key) ==
    LET overall == DrawdownOf(Column(OrderedTrades(ts), "ret"))
    IN  [g \in {k \in GroupKeys(ts, key) : Last(k) # "" /\ Len(GroupOf(ts, key, k)) >= MinGroup} |->
            GroupMeasures(OrderedTrades(GroupOf(ts, key, g)), overall)]
WithConsistency(m) == [g \in DOMAIN m |-> m[g] @@ [consistency |-> ConsistencyScore(m, g)]]
WithQuality(m) ==
    [g \in DOMAIN m |-> m[g] @@ [quality |-> QualityScore(m, g), sampleScore |-> NormalizedOver(m, g, "samples")]]
WithRanks(m) ==
    [g \in DOMAIN m |-> m[g] @@ [rank |-> DenseRank(m, g, "quality"), percentile |-> Percentile(m, g, "quality"),
                                 crank |-> DenseRank(m, g, "consistency"), group |-> GroupSize(m, g)]]
\* The best and the worst of a table.
TopRows(m) ==
    LET Better(a, b) == \/ m[a].quality > m[b].quality
                        \/ m[a].quality = m[b].quality /\ m[a].expectancy > m[b].expectancy
        ranked == SetToSortSeq(DOMAIN m, Better)
    IN  SubSeq(ranked, 1, Min({TopTrades, Len(ranked)}))
BottomRows(m) ==
    LET Worse(a, b) == \/ m[a].quality < m[b].quality
                       \/ m[a].quality = m[b].quality /\ m[a].expectancy < m[b].expectancy
        ranked == SetToSortSeq(DOMAIN m, Worse)
    IN  SubSeq(ranked, 1, Min({TopTrades, Len(ranked)}))

-----------------------------------------------------------------------------
(* Summaries of groups of trades. *)

\* _trade_summary_record: a trade without a gain is a loss here.
TradeSummary(ts) ==
    LET wins == SelectSeq(ts, LAMBDA t : t.ret > 0)
        losses == SelectSeq(ts, LAMBDA t : t.ret <= 0)
    IN  [count |-> Len(ts), wins |-> WinShare(ts, "ret"), expectancy |-> MeanOf(Column(ts, "ret")),
         pnl |-> MeanOf(Column(ts, "pnl")), averageWin |-> MeanOf(Column(wins, "ret")),
         averageLoss |-> MeanOf(Column(losses, "ret")), expected |-> MeanOf(Column(ts, "ev")),
         gap |-> MeanOf(Column(ts, "ret")) - MeanOf(Column(ts, "ev")), hold |-> MeanOf(Column(ts, "hold")),
         adverse |-> MeanOf([i \in DOMAIN ts |-> Max({0, ts[i].adverse})])]
ClassifyEdge(record) ==
    IF record.expectancy > 0 /\ record.expected > 0 THEN "positive"
    ELSE IF record.expectancy < 0 /\ record.expected <= 0 THEN "weak" ELSE "mixed"
SummarizeGroups(ts, key, least) ==
    [g \in {k \in GroupKeys(ts, key) : Len(GroupOf(ts, key, k)) >= least} |->
        LET record == TradeSummary(GroupOf(ts, key, g)) IN record @@ [edge |-> ClassifyEdge(record)]]
FailureModes(ts) ==
    LET least == Max({3, Min({TopTrades, 10})})
    IN  [g \in {k \in GroupKeys(ts, "mode") : Len(GroupOf(ts, "mode", k)) >= least} |-> TradeSummary(GroupOf(ts, "mode", g))]
\* excursion_distribution: buckets open above, the last without an end.
BucketOf(x) == Cardinality({i \in DOMAIN ExcursionEdges : ExcursionEdges[i] <= x})
ExcursionDistribution(ts) ==
    [b \in DOMAIN ExcursionEdges |-> Len(SelectSeq(ts, LAMBDA t : BucketOf(Max({0, t.adverse})) = b))]
BestTrades(ts) == LET s == SortSeq(ts, LAMBDA a, b : a.ret > b.ret) IN SubSeq(s, 1, Min({TopTrades, Len(s)}))
WorstTrades(ts) == LET s == SortSeq(ts, LAMBDA a, b : a.ret < b.ret) IN SubSeq(s, 1, Min({TopTrades, Len(s)}))

\* compute_performance_metrics: a win has a profit, a loss a negative one.
AccountDrawdown ==
    Min({(1000 * equity[i]) \div Max({equity[j] : j \in 1..i}) - 1000 : i \in DOMAIN equity})
Performance ==
    LET wins == SelectSeq(trades, LAMBDA t : t.pnl > 0)
        losses == SelectSeq(trades, LAMBDA t : t.pnl < 0)
    IN  [totalReturn |-> (1000 * Last(equity)) \div Head(equity) - 1000, drawdown |-> AccountDrawdown,
         wins |-> WinShare(trades, "pnl"), expectancy |-> MeanOf(Column(trades, "ret")),
         averageWin |-> MeanOf(Column(wins, "ret")), averageLoss |-> MeanOf(Column(losses, "ret")),
         count |-> Len(trades), hold |-> MeanOf(Column(trades, "hold"))]

-----------------------------------------------------------------------------
AnalyticsInit ==
    trades = <<>> /\ equity = <<1000>> /\ fold = 1 /\ table = [key |-> "state", from |-> <<>>, rows |-> [x \in {} |-> 0]]

RecordTrade(t) ==
    /\ Len(trades) < MaxTrades /\ fold <= 2
    /\ trades' = Append(trades, t @@ [fold |-> fold, exit |-> Len(trades) + 1])
    /\ equity' = Append(equity, Last(equity) + t.pnl) /\ UNCHANGED <<fold, table>>
\* build_quality_gate_tables: from the history as far as a fold has come.
EndFold(key) ==
    /\ fold <= 2 /\ fold' = fold + 1 /\ UNCHANGED <<trades, equity>>
    /\ \E m \in {Measured(trades, key)} : \E c \in {WithConsistency(m)} : \E q \in {WithQuality(c)} :
          table' = [key |-> key, from |-> trades, rows |-> WithRanks(q)]

AnalyticsNext ==
    \/ \E t \in TradeShapes : RecordTrade(t)
    \/ \E key \in {"state", "reason"} : EndFold(key)

AnalyticsSpec == AnalyticsInit /\ [][AnalyticsNext]_analyticsVars

-----------------------------------------------------------------------------
\* A group that is at least as good as another in every measure has at least
\* its scores and ranks no lower, so no gate can prefer the worse of the two.
QualityRespectsDominance ==
    LET m == table.rows
        better == {"expectancy", "sharpe", "wins", "samples", "folds", "positive"}
        worse == {"drawdown", "variance", "sharpeVariance"}
    IN  \A g, h \in DOMAIN m :
            (\A c \in better : m[g][c] >= m[h][c]) /\ (\A c \in worse : m[g][c] <= m[h][c]) =>
                /\ m[g].consistency >= m[h].consistency /\ m[g].quality >= m[h].quality
                /\ g[1] = h[1] => m[g].rank <= m[h].rank /\ m[g].percentile >= m[h].percentile

\* Ranks of a class leave no gap, a class always has a first, a score that
\* gates compare is a share, and what is reported as best and worst is.
RanksAreDense ==
    LET m == table.rows
    IN  \A g \in DOMAIN m :
            /\ {m[h].rank : h \in {k \in DOMAIN m : k[1] = g[1]}} = 1 .. Max({m[h].rank : h \in {k \in DOMAIN m : k[1] = g[1]}})
            /\ m[g].quality \in 0..1000 /\ m[g].consistency \in 0..1000 /\ m[g].percentile \in 1..1000
            /\ m[g].folds <= m[g].samples
            /\ g \in Range(TopRows(m)) \/ \A h \in Range(TopRows(m)) : m[h].quality >= m[g].quality
            /\ g \in Range(BottomRows(m)) \/ \A h \in Range(BottomRows(m)) : m[h].quality <= m[g].quality

\* Every trade is in one group of a summary and in one bucket; a table holds
\* every trade whose state is known, whatever the fold.
SummariesAccountForTrades ==
    LET s == SummarizeGroups(trades, "state", 1)
        m == table.rows
        add(a, b) == a + b
    IN  /\ FoldFunction(add, 0, [g \in DOMAIN s |-> s[g].count]) = Len(trades)
        /\ SumOf(ExcursionDistribution(trades)) = Len(trades)
        /\ MinGroup = 1 => FoldFunction(add, 0, [g \in DOMAIN m |-> m[g].samples])
                              = Len(SelectSeq(table.from, LAMBDA t : t[table.key] # ""))
        /\ Len(trades) >= 2 * TopTrades =>
              \A b \in Range(BestTrades(trades)), w \in Range(WorstTrades(trades)) : b.ret >= w.ret
        /\ \A g \in DOMAIN FailureModes(trades) : FailureModes(trades)[g].count <= s[<<g[1], g[3]>>].count

\* The account never ends worse than its deepest fall, and has one exactly if
\* some equity is below an earlier one.
PerformanceIsConsistent ==
    /\ Performance.totalReturn >= Performance.drawdown /\ Performance.drawdown <= 0
    /\ (Performance.drawdown = 0) <=> \A i, j \in DOMAIN equity : i < j => equity[i] <= equity[j]

AnalyticsAreSound ==
    QualityRespectsDominance /\ RanksAreDense /\ SummariesAccountForTrades /\ PerformanceIsConsistent
=============================================================================
