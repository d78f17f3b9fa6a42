---------------------------- MODULE AccountRisk ----------------------------
(***************************************************************************)
(* The durable account-level risk state and its decisions                  *)
(* (execution/account_risk.py): two latched halts, data halts, session     *)
(* rollover, cumulative cash flows, and the file they are kept in, which   *)
(* is replaced by rename.  A save may fail before the rename or between    *)
(* the rename and the sync of the directory; a process may restart and     *)
(* power may be lost at any time.  Amounts are integers; a fraction .995   *)
(* is x * 1000 <= y * 995.  Sessions are numbered and the calendar         *)
(* (today) does not go back, but a caller may still report an older one.   *)
(***************************************************************************)
EXTENDS Integers

CONSTANTS Equities,     \* marked equities the caller may report; some are <= 0
          PriorCloses,  \* prior close equities; 0 stands for none supplied
          Cashflows,    \* cumulative external cash flows
          LastSession,  \* bound on today
          Held,         \* totals of the caller's positions, and the cash it states
          Proposals     \* contribution of the proposed entry to each total, and its cost

ASSUME RiskAssumption == (Equities \cup PriorCloses \cup Cashflows) \subseteq Int /\ LastSession \in Nat \ {0}

VARIABLES riskMemory,   \* AccountRisk.state
          riskFile,     \* the file as a process would read it
          riskDurable,  \* the file as it is after a power loss
          today,
          answer,       \* reason of the decision last returned; "raised" if a save failed
          mustReview,   \* history: observe answered with a drawdown halt nobody reviewed since
          haltedOn      \* history: the last session observe answered with a daily halt

riskVars == <<riskMemory, riskFile, riskDurable, today, answer, mustReview, haltedOn>>

NoRisk == [session |-> 0]
Unstated == -1
Limits == {"gross", "name", "risk", "overnight", "indexes"}
PerMille == [gross |-> 500, name |-> 100, risk |-> 5, overnight |-> 250, indexes |-> 200]
Larger(a, b) == IF a > b THEN a ELSE b

Reason(s) ==
    IF s = NoRisk THEN "unknown_risk_state"
    ELSE IF s.drawdownHalt THEN "drawdown_halt"
    ELSE IF s.dataHalt THEN "data_halt"
    ELSE IF s.dailyHalt THEN "daily_halt" ELSE "allowed"

RiskInit ==
    /\ riskMemory = NoRisk /\ riskFile = NoRisk /\ riskDurable = NoRisk /\ today = 1
    /\ answer = "unknown_risk_state" /\ mustReview = FALSE /\ haltedOn = 0

Announce(reason) ==
    /\ answer' = reason
    /\ mustReview' = (mustReview \/ reason = "drawdown_halt")
    /\ haltedOn' = IF reason = "daily_halt" THEN riskMemory'.session ELSE haltedOn

\* Temporary file, fsync, rename, fsync of the directory; an exception makes
\* memory forget the state.  seen and kept are the files before the call.
SaveRisk(s, seen, kept) ==
    \E outcome \in {"saved", "notReplaced", "notSynced"} :
        /\ riskMemory' = IF outcome = "saved" THEN s ELSE NoRisk
        /\ riskFile' = IF outcome = "notReplaced" THEN seen ELSE s
        /\ riskDurable' = IF outcome = "saved" THEN s ELSE kept
        /\ Announce(IF outcome = "saved" THEN Reason(s) ELSE "raised")

\* observe: flows move highwater and baseline, a new session needs a prior
\* close (0: not supplied), halts are only ever added here.
DrawdownNotLatched(s, equity, high) == equity * 1000 <= high * 970
Drawdown(s, equity, high) == s.drawdownHalt \/ equity * 1000 <= high * 970
Observed(s, equity, session, flow, priorClose) ==
    LET delta == flow - s.cashflow
        rolls == session # s.session
        baseline == IF rolls THEN priorClose ELSE s.baseline + delta
        daily == s.dailyHalt /\ ~rolls
        high == Larger(s.highwater + delta, equity)
    IN  IF rolls /\ (session <= s.session \/ priorClose = 0)
        THEN [s EXCEPT !.dataHalt = TRUE]
        ELSE IF equity <= 0 \/ baseline <= 0 \/ s.highwater + delta <= 0
        THEN [s EXCEPT !.dataHalt = TRUE, !.dailyHalt = daily]
        ELSE [equity |-> equity, highwater |-> high, baseline |-> baseline, cashflow |-> flow,
              session |-> session, dataHalt |-> FALSE,
              dailyHalt |-> daily \/ equity * 1000 <= baseline * 995,
              drawdownHalt |-> Drawdown(s, equity, high),
              peak |-> Larger(s.peak, equity - flow)]

Observe(equity, session, flow, priorClose) ==
    /\ riskMemory # NoRisk /\ session <= today
    /\ SaveRisk(Observed(riskMemory, equity, session, flow, priorClose), riskFile, riskDurable)
    /\ UNCHANGED today

\* peak is a history of the best equity net of flows since then.
FirstState(equity, priorClose, session, flow) ==
    [equity |-> equity, highwater |-> Larger(equity, priorClose), baseline |-> priorClose,
     cashflow |-> flow, session |-> session, dataHalt |-> FALSE, dailyHalt |-> FALSE,
     drawdownHalt |-> FALSE, peak |-> Larger(equity, priorClose) - flow]

\* Refused when a file exists; saves the first state and then observes it.
Initialize(equity, priorClose, flow) ==
    /\ riskFile = NoRisk /\ equity > 0 /\ priorClose > 0
    /\ LET s == FirstState(equity, priorClose, today, flow) IN
       \/ /\ riskMemory' = NoRisk /\ riskFile' \in {riskFile, s} /\ UNCHANGED riskDurable
          /\ Announce("raised")
       \/ SaveRisk(Observed(s, equity, today, flow, 0), s, s)
    /\ UNCHANGED today

Reviewed(s) == [s EXCEPT !.drawdownHalt = FALSE, !.highwater = s.equity, !.peak = s.equity - s.cashflow]

ReviewDrawdownReset ==
    /\ riskMemory # NoRisk
    /\ \E outcome \in {"saved", "notReplaced", "notSynced"} :
        /\ riskMemory' = IF outcome = "saved" THEN Reviewed(riskMemory) ELSE NoRisk
        /\ riskFile' = IF outcome = "notReplaced" THEN riskFile ELSE Reviewed(riskMemory)
        /\ riskDurable' = IF outcome = "saved" THEN Reviewed(riskMemory) ELSE riskDurable
        /\ answer' = IF outcome = "saved" THEN Reason(Reviewed(riskMemory)) ELSE "raised"
    /\ mustReview' = FALSE
    /\ haltedOn' = IF answer' = "daily_halt" THEN riskMemory'.session ELSE haltedOn
    /\ UNCHANGED today

\* The unreserved cash, when the caller states it, the stop risk of the trade
\* itself and the totals with it.
WithinCash(held, proposal) == held.cash = Unstated \/ proposal.cost <= held.cash
WithinTradeRisk(proposal, equity) == proposal.risk * 1000 <= equity
WithinTotals(held, proposal, equity) ==
    \A l \in Limits : (held[l] + proposal[l]) * 1000 <= equity * PerMille[l]

\* A proposal outside the universe, badly priced or beyond a limit is refused.
ApproveEntry(held, proposal) ==
    /\ answer' = IF Reason(riskMemory) # "allowed" THEN Reason(riskMemory)
                 ELSE IF /\ WithinCash(held, proposal)
                         /\ WithinTradeRisk(proposal, riskMemory.equity) /\ WithinTotals(held, proposal, riskMemory.equity)
                 THEN "approved" ELSE "limit"
    /\ UNCHANGED <<riskMemory, riskFile, riskDurable, today, mustReview, haltedOn>>

Restart ==
    /\ riskMemory' = riskFile
    /\ answer' = Reason(riskFile)
    /\ UNCHANGED <<riskFile, riskDurable, today, mustReview, haltedOn>>

PowerLoss ==
    /\ riskFile' \in {riskFile, riskDurable} /\ riskDurable' = riskFile' /\ riskMemory' = riskFile'
    /\ answer' = Reason(riskFile')
    /\ UNCHANGED <<today, mustReview, haltedOn>>

NextSession ==
    /\ today < LastSession /\ today' = today + 1
    /\ answer' = "none"
    /\ UNCHANGED <<riskMemory, riskFile, riskDurable, mustReview, haltedOn>>

RiskNext ==
    \/ \E e \in Equities, p \in PriorCloses, c \in Cashflows : Initialize(e, p, c)
    \/ \E e \in Equities, n \in 1..LastSession, c \in Cashflows, p \in PriorCloses : Observe(e, n, c, p)
    \/ ReviewDrawdownReset
    \/ \E h \in Held, p \in Proposals : ApproveEntry(h, p)
    \/ Restart \/ PowerLoss \/ NextSession

RiskSpec == RiskInit /\ [][RiskNext]_riskVars

-----------------------------------------------------------------------------
RiskStates == {NoRisk} \cup
    [equity : Int, highwater : Int, baseline : Int, cashflow : Int, session : Nat, dataHalt : BOOLEAN,
     dailyHalt : BOOLEAN, drawdownHalt : BOOLEAN, peak : Int]
RiskTypeOK ==
    /\ {riskMemory, riskFile, riskDurable} \subseteq RiskStates
    /\ today \in 1..LastSession /\ mustReview \in BOOLEAN /\ haltedOn \in 0..LastSession

\* A drawdown halt observe has answered with stands until somebody reviews it,
\* and a daily halt of the current session for that session: through
\* observations of any session, data halts, failing saves, restarts and power
\* losses no entry is approved.  (AccountRisk.observe, decision, _save)
HaltsStand ==
    answer \in {"allowed", "approved", "limit"} =>
        /\ ~mustReview
        /\ riskMemory.session = today => haltedOn # today

\* Deposits and withdrawals are not performance: net of cumulative flows the
\* highwater is the best equity observed since initialization or review, in
\* memory and in every copy of the file.  (AccountRisk.observe)
HighwaterIsNetOfFlows ==
    \A s \in {riskMemory, riskFile, riskDurable} : s # NoRisk => s.highwater - s.cashflow = s.peak
=============================================================================
