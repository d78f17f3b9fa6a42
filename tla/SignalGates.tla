---------------------------- MODULE SignalGates ----------------------------
(***************************************************************************)
(* How the bar strategy turns a classified bar into a position: the signal *)
(* engine (signals/engine.py) with the quality tables earned by earlier    *)
(* trades, and the caps on what one rebalance date may select              *)
(* (research/selection.py).  Numbers are integers of a small range, scores *)
(* percentages; the logarithm and the hyperbolic tangent of the code are   *)
(* increasing functions with the same ends.  What is only reported (checks *)
(* by name, contributions, entropy) is left out.                           *)
(***************************************************************************)
EXTENDS Integers, FiniteSets, SequencesExt

CONSTANTS GateOrder,      \* the symbols in the order of the frames
          ClassOf,        \* symbol -> asset class; a class has one model
          GateConfigs,    \* the signal configurations that are compared
          QualityBooks,   \* states, transitions and families with their quality
          GateRows        \* bars: state, family, next, ret, conf, obs, vol, volume

VARIABLES gateConfig, book,
          snapshots,      \* symbol -> SignalSnapshot, as far as evaluated
          capped          \* symbol -> the signal after the caps

gateVars == <<gateConfig, book, snapshots, capped>>

GateSymbols == {GateOrder[i] : i \in DOMAIN GateOrder}
Position(s) == CHOOSE i \in DOMAIN GateOrder : GateOrder[i] = s
Far == 1000000
\* GATE_CHECK_ORDER, a check for all the measures of one table; of the rules
\* about families only two are among them, whichever the mode selects by.
FamilyChecks == {"top_count", "bottom_count"}
CheckOrder == <<"listed", "top_count", "bottom_count", "state", "transition", "consistency">>

-----------------------------------------------------------------------------
(* Quality records. *)

\* _lookup_quality: the record of a key, if the table has one.
RecordIn(table, key) == IF key \in DOMAIN table THEN {table[key]} ELSE {}
\* What an absent record counts as: nothing earned, the last rank, no variance.
MeasuredRecord(found, m) ==
    IF found # {} THEN (CHOOSE r \in found : TRUE)[m]
    ELSE IF m \in {"rank", "crank"} THEN Far ELSE 0

\* _evaluate_quality_gate: floors and ceilings of a record; no table, no gate.
QualityGate(table, found, floors, ceilings) ==
    \/ DOMAIN table = {}
    \/ /\ \A m \in DOMAIN floors : MeasuredRecord(found, m) >= floors[m]
       /\ \A m \in DOMAIN ceilings : MeasuredRecord(found, m) <= ceilings[m]

\* _setup_consistency_score and its like: the worse of the records there are.
Worst(records, m) == IF records = {} THEN 0 ELSE Min({r[m] : r \in records})
WorstRank(records) == IF records = {} THEN Far ELSE Max({r["crank"] : r \in records})
\* _setup_sample_size_score: without a record, from the observations.
SampleScore(records, obs) == IF records = {} THEN Min({100, 25 * obs}) ELSE Worst(records, "sscore")

-----------------------------------------------------------------------------
(* evaluate_snapshot *)

TablesUp == DOMAIN book.states # {} \/ DOMAIN book.transitions # {}
Setup(row) == RecordIn(book.states, row.state) \cup RecordIn(book.transitions, row.next)

ConsistencyGate(row) ==
    \/ ~TablesUp
    \/ /\ Worst(Setup(row), "cscore") >= gateConfig.minConsistency
       /\ WorstRank(Setup(row)) <= gateConfig.maxConsistencyRank
SampleGate(row) ==
    /\ SampleScore(Setup(row), row.obs) >= gateConfig.minSampleScore
    /\ row.obs >= gateConfig.minObs
    /\ TablesUp =>
          /\ MeasuredRecord(RecordIn(book.states, row.state), "samples") >= gateConfig.stateFloors["samples"]
          /\ MeasuredRecord(RecordIn(book.transitions, row.next), "samples") >= gateConfig.transitionFloors["samples"]
FamilyListed(row) == row.family \in gateConfig.allowed /\ row.family \notin gateConfig.excluded
\* _evaluate_family_gate: every rule with a number, and the mode that selects;
\* no table, no gate.
FamilyRule(row, rule) ==
    LET found == RecordIn(book.families, row.family)
        n == gateConfig.familyRules[rule]
    IN  \/ DOMAIN book.families = {} \/ rule \notin DOMAIN gateConfig.familyRules
        \/ CASE rule = "top_count" -> MeasuredRecord(found, "rank") <= n
             [] rule = "top_percentile" -> MeasuredRecord(found, "score") >= n
             [] rule = "bottom_count" ->
                  MeasuredRecord(found, "group") > 0 =>
                      MeasuredRecord(found, "rank") < Max({MeasuredRecord(found, "group") - n + 1, 1})
             [] rule = "bottom_percentile" -> MeasuredRecord(found, "score") > n
             [] rule = "consistency" -> MeasuredRecord(found, "cscore") >= n
FamilyMode(row) == gateConfig.familyMode = "none" \/ FamilyRule(row, gateConfig.familyMode)

\* Expected value after costs, and after a penalty for a thin market.
Expected(row, sign) ==
    sign * row.ret - gateConfig.cost - gateConfig.volPenalty * row.vol
    - (IF row.volume < gateConfig.liquid
       THEN gateConfig.thinPenalty * (gateConfig.liquid \div Max({row.volume, 1}) - 1) ELSE 0)

\* _candidate_decision
ShortAllowed(s) == ClassOf[s] \in gateConfig.shorts
SignalReady(row) == row.conf >= gateConfig.minConf /\ row.obs >= gateConfig.minObs
Direction(s, row) ==
    LET long == IF SignalReady(row) /\ Expected(row, 1) >= gateConfig.minEV THEN Expected(row, 1) ELSE 0
        isLong == SignalReady(row) /\ Expected(row, 1) >= gateConfig.minEV
    IN  IF ShortAllowed(s) /\ SignalReady(row) /\ Expected(row, -1) >= gateConfig.minEV /\ Expected(row, -1) > long
        THEN "short" ELSE IF isLong THEN "long" ELSE "flat"
ValueOf(row, d) == IF d = "long" THEN Expected(row, 1) ELSE IF d = "short" THEN Expected(row, -1) ELSE 0
BaseScore(row, d) ==
    LET liquidity == Min({100, (row.volume * 100) \div gateConfig.liquid})
    IN  (ValueOf(row, d) * row.conf * Max({liquidity, 5})) \div Max({row.vol, 1})

\* _selection_score: the weighted mean of the components that have a weight;
\* only the hard-gate mode ranks by the base score alone.
Bounded(x) == IF x <= 0 THEN 0 ELSE Min({x, 100})
Components(row, d) ==
    [base |-> Bounded(BaseScore(row, d)),
     state |-> MeasuredRecord(RecordIn(book.states, row.state), "score"),
     transition |-> MeasuredRecord(RecordIn(book.transitions, row.next), "score"),
     consistency |-> Worst(Setup(row), "cscore"),
     sample |-> SampleScore(Setup(row), row.obs)]
Score(row, d) ==
    LET w == gateConfig.weights
        total == FoldFunction(LAMBDA x, y : x + y, 0, w)
        parts == [c \in DOMAIN w |-> Max({Components(row, d)[c], 0}) * w[c]]
    IN  IF gateConfig.mode = "hard_gate_only" THEN BaseScore(row, d)
        ELSE IF total = 0 THEN 0 ELSE FoldFunction(LAMBDA x, y : x + y, 0, parts) \div total

\* _gate_components, _hard_filter_components
GateComponents ==
    CASE gateConfig.gates # {} -> gateConfig.gates
      [] gateConfig.gates = {} /\ gateConfig.gateMode = "both" -> {"state", "transition"}
      [] gateConfig.gates = {} /\ gateConfig.gateMode = "off" -> {}
      [] OTHER -> {gateConfig.gateMode}
Passes(row, c) ==
    CASE c = "state" -> QualityGate(book.states, RecordIn(book.states, row.state),
                                    gateConfig.stateFloors, gateConfig.ceilings)
      [] c = "transition" -> QualityGate(book.transitions, RecordIn(book.transitions, row.next),
                                         gateConfig.transitionFloors, gateConfig.ceilings)
      [] c = "consistency" -> ConsistencyGate(row)
      [] c = "family" -> FamilyMode(row)
      [] c = "sample_size" -> SampleGate(row)

\* _evaluate_hard_filters: the family lists always count; the named filters
\* replace the legacy gates, which soft scoring alone does without.
ActiveGates ==
    IF gateConfig.hard # <<>> THEN Range(gateConfig.hard)
    ELSE IF gateConfig.mode = "soft_scoring_only" THEN {} ELSE GateComponents \cup {"family"}
HardFilter(row, d) == d # "flat" /\ FamilyListed(row) /\ \A c \in ActiveGates : Passes(row, c)

\* What the rest of a run uses of a SignalSnapshot.
FlatSnapshot(row) == [row |-> row, candidate |-> "flat", passed |-> FALSE, signal |-> "flat", score |-> 0]
SignalSnapshot(s, row) ==
    LET d == Direction(s, row)
        passed == HardFilter(row, d)
    IN  IF row.obs = 0   \* no statistics of this state
        THEN FlatSnapshot(row)
        ELSE [row |-> row, candidate |-> d, passed |-> passed,
              signal |-> IF passed THEN d ELSE "flat", score |-> Score(row, d)]

-----------------------------------------------------------------------------
(* apply_opportunity_caps: one rebalance date. *)

Chosen == {s \in DOMAIN capped : capped[s] # "flat"}
Active == {s \in GateSymbols : snapshots[s].passed}
Rank(s, group) ==
    1 + Cardinality({t \in group : \/ snapshots[t].score > snapshots[s].score
                                   \/ snapshots[t].score = snapshots[s].score /\ Position(t) < Position(s)})
Peers(s) == {t \in Active : ClassOf[t] = ClassOf[s]}
\* A limit of 0 is no limit.  The model's limit also bounds the whole date.
Within(n, limit) == limit = 0 \/ n <= limit
CapPassed(s) ==
    /\ Within(Rank(s, Active), gateConfig.topOverall) /\ Within(Rank(s, Active), gateConfig.topModel)
    /\ Within(Rank(s, Peers(s)), gateConfig.topClass)
    /\ Within(Rank(s, Peers(s)), gateConfig.topModel)

\* What the reports of a date say (selection_report_frames): candidates, why a
\* candidate was blocked, and the waterfall over the checks, active or not.
Candidates == {s \in DOMAIN snapshots : snapshots[s].candidate # "flat"}
BlockReason(row) ==
    LET inOrder == IF gateConfig.hard # <<>> THEN gateConfig.hard
                   ELSE <<"family", "state", "transition", "consistency">>
        failing == SelectSeq(inOrder, LAMBDA c : ~Passes(row, c))
    IN  IF ~FamilyListed(row) THEN "excluded_state_family"
        ELSE IF failing = <<>> THEN "legacy_gate_failed" ELSE Head(failing)
CheckHolds(row, c) ==
    CASE c = "listed" -> FamilyListed(row) [] c \in FamilyChecks -> FamilyRule(row, c) [] OTHER -> Passes(row, c)
Breakdown ==
    LET Step(acc, c) ==
            LET rejected == {s \in acc.remaining : ~CheckHolds(snapshots[s].row, c)}
            IN  [remaining |-> acc.remaining \ rejected,
                 rows |-> Append(acc.rows, [check |-> c, rejected |-> Cardinality(rejected),
                                            remaining |-> Cardinality(acc.remaining \ rejected)])]
    IN  FoldLeft(Step, [remaining |-> Candidates, rows |-> <<>>], CheckOrder)
Starvation ==
    LET rows == Breakdown.rows
    IN  CHOOSE r \in Range(rows) : \A o \in Range(rows) : r.rejected >= o.rejected
HardFilterSummary ==
    LET blocked == {s \in Candidates : ~snapshots[s].passed}
    IN  [r \in {BlockReason(snapshots[s].row) : s \in blocked} |->
            Cardinality({s \in blocked : BlockReason(snapshots[s].row) = r})]
TopNSummary ==
    [before |-> Cardinality(Active), after |-> Cardinality(Chosen),
     out |-> Cardinality({s \in Active : ~CapPassed(s)})]

-----------------------------------------------------------------------------
Nobody == [x \in {} |-> 0]
GateInit == gateConfig = <<>> /\ book = <<>> /\ snapshots = Nobody /\ capped = Nobody

ConfigureGates(config, tables) ==
    /\ gateConfig = <<>> /\ gateConfig' = config /\ book' = tables /\ UNCHANGED <<snapshots, capped>>
WriteSnapshot(s, made) ==
    snapshots' = [t \in DOMAIN snapshots \cup {s} |-> IF t = s THEN made ELSE snapshots[t]]
\* generate_signals_from_analysis: one symbol after another.
EvaluateSnapshot(row) ==
    /\ gateConfig # <<>> /\ Cardinality(DOMAIN snapshots) < Len(GateOrder)
    /\ LET s == GateOrder[Cardinality(DOMAIN snapshots) + 1]
       IN  WriteSnapshot(s, SignalSnapshot(s, row))
    /\ UNCHANGED <<gateConfig, book, capped>>
ApplyCaps ==
    /\ gateConfig # <<>> /\ DOMAIN snapshots = GateSymbols /\ capped = Nobody
    /\ capped' = [s \in GateSymbols |-> IF s \in Active /\ CapPassed(s) THEN snapshots[s].signal ELSE "flat"]
    /\ UNCHANGED <<gateConfig, book, snapshots>>

GateNext ==
    \/ \E config \in GateConfigs, tables \in QualityBooks : ConfigureGates(config, tables)
    \/ \E row \in GateRows : EvaluateSnapshot(row)
    \/ ApplyCaps

GateSpec == GateInit /\ [][GateNext]_gateVars

-----------------------------------------------------------------------------
\* What is asked of a setup that no table knows cannot be met if it is a floor
\* above nothing or a rank; it is met if it is a ceiling on a variance.
AsksForRecord(floors, ceilings) == (\E m \in DOMAIN floors : floors[m] > 0) \/ "rank" \in DOMAIN ceilings
RulesForKnown == {r \in DOMAIN gateConfig.familyRules :
                      r = "top_count" \/ (r # "bottom_count" /\ gateConfig.familyRules[r] > 0)}
KnownToGate(row, c) ==
    CASE c = "state" -> DOMAIN book.states = {} \/ row.state \in DOMAIN book.states
                        \/ ~AsksForRecord(gateConfig.stateFloors, gateConfig.ceilings)
      [] c = "transition" -> DOMAIN book.transitions = {} \/ row.next \in DOMAIN book.transitions
                             \/ ~AsksForRecord(gateConfig.transitionFloors, gateConfig.ceilings)
      [] c = "consistency" -> ~TablesUp \/ Setup(row) # {}
                              \/ (gateConfig.minConsistency = 0 /\ gateConfig.maxConsistencyRank = Far)
      [] c = "family" -> DOMAIN book.families = {} \/ row.family \in DOMAIN book.families
                         \/ gateConfig.familyMode \notin RulesForKnown
      [] c = "sample_size" ->
           TablesUp => /\ gateConfig.stateFloors["samples"] > 0 => row.state \in DOMAIN book.states
                       /\ gateConfig.transitionFloors["samples"] > 0 => row.next \in DOMAIN book.transitions

\* Whatever the mode, a signal has paid its costs with observations and
\* confidence, comes from a listed family and an allowed side, and no gate that
\* is active and asks for a record lets a setup through that has none.
SignalsAreEarned ==
    \A s \in Chosen :
        LET row == snapshots[s].row
        IN  /\ SignalReady(row) /\ row.obs > 0 /\ row.family \notin gateConfig.excluded
            /\ ValueOf(row, capped[s]) >= gateConfig.minEV
            /\ capped[s] = "short" =>
                  ShortAllowed(s) /\ (Expected(row, 1) < gateConfig.minEV \/ row.ret < 0)
            /\ \A c \in ActiveGates : KnownToGate(row, c)

\* A date selects no more than its limits, and never leaves out a candidate
\* for a lower-scored one unless the class of the former was already full.
CapsTakeTheBest ==
    capped # Nobody =>
        /\ Within(Cardinality(Chosen), gateConfig.topOverall)
        /\ \A s \in GateSymbols :
              Within(Cardinality({t \in Chosen : ClassOf[t] = ClassOf[s]}), gateConfig.topClass)
        /\ \A s \in Active \ Chosen, t \in Chosen :
              snapshots[t].score < snapshots[s].score =>
                  /\ gateConfig.topClass # 0
                  /\ Cardinality({u \in Peers(s) : snapshots[u].score >= snapshots[s].score}) > gateConfig.topClass

\* The reports account for every candidate exactly once.  What the waterfall
\* leaves was selected, unless the selection asked for what is not among its
\* checks; what was selected it leaves, if all its checks are gates.
ReportsAddUp ==
    capped # Nobody /\ Candidates # {} =>
        LET b == Breakdown
            h == HardFilterSummary
            rules == FamilyChecks \cap DOMAIN gateConfig.familyRules
        IN  /\ FoldLeft(LAMBDA n, r : n + r.rejected, Cardinality(b.remaining), b.rows)
                   = Cardinality(Candidates)
            /\ FoldFunction(LAMBDA x, y : x + y, Cardinality(Active), h) = Cardinality(Candidates)
            /\ Starvation.rejected = 0 <=> b.remaining = Candidates
            /\ TopNSummary.before = TopNSummary.after + TopNSummary.out
            /\ "sample_size" \notin ActiveGates /\ gateConfig.familyMode \in FamilyChecks \cup {"none"}
                  => b.remaining \subseteq Active
            /\ {"state", "transition", "consistency"} \subseteq ActiveGates
               /\ (rules = {} \/ ("family" \in ActiveGates /\ rules \subseteq {gateConfig.familyMode}))
                  => Active \subseteq b.remaining

GatesAreSound == SignalsAreEarned /\ CapsTakeTheBest /\ ReportsAddUp
=============================================================================
