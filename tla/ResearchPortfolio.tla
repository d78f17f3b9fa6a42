------------------------- MODULE ResearchPortfolio -------------------------
(***************************************************************************)
(* The modeled equity book of the frozen research tracks: prepared and     *)
(* applied batches (research/phase3_portfolio.py), their plans and         *)
(* estimates (phase3_daily.py), corporate actions (phase3_actions.py) and  *)
(* the independent audit of the stored fills (phase3_accounting.py).  Each *)
(* operation is pure and committed as a whole by ResearchStore; a repeated *)
(* operation returns what is stored.  Evidence carries the caller's times, *)
(* SlotsPerDay to a day; the decisions of a batch share one signal price   *)
(* and one execution time.  Money is in integers, the costs of a share are *)
(* added to or taken off its price, fractions of equity are per mille.     *)
(***************************************************************************)
EXTENDS Integers, Sequences, SequencesExt, FiniteSets, FiniteSetsExt

CONSTANTS EquityFunds, MarkPrices,        \* instruments; prices that may be observed
          SlotsPerDay, OpenSlot, LastTime,
          ResearchCash, ShareFee, FixedFee,
          TargetShare, GrossCap, EntryLossLimit,
          DividendAmounts, SplitRatios,   \* amounts per share; <<new, old>> shares
          MaxOperations

ASSUME ResearchAssumption ==
    /\ IsFiniteSet(EquityFunds) /\ {SlotsPerDay, ResearchCash, MaxOperations} \subseteq Nat \ {0} /\ OpenSlot \in 0..(SlotsPerDay - 1)
    /\ {LastTime, ShareFee, FixedFee, TargetShare, GrossCap, EntryLossLimit} \subseteq Nat
    /\ DividendAmounts \subseteq Nat \ {0} /\ \A p \in MarkPrices : p \in Nat /\ p > ShareFee
    /\ SplitRatios \subseteq (Nat \ {0}) \X (Nat \ {0})

VARIABLES research,     \* the state document
          fillJournal,  \* modeled fills and action events as committed, and each loss seen
          operations    \* how many operations the store has

researchVars == <<research, fillJournal, operations>>

Times == 0..LastTime
SessionOf(t) == t \div SlotsPerDay
OpenOf(day) == day * SlotsPerDay + OpenSlot
NoBatch == [at |-> -1]
NoTime == -1
ResearchOrder == SetToSeq(EquityFunds)

\* initial_state
ResearchInit ==
    /\ research = [cash |-> ResearchCash, positions |-> [f \in EquityFunds |-> 0], pendingExits |-> {},
                   day |-> 0, baseline |-> 0, halted |-> FALSE, batch |-> NoBatch,
                   attempted |-> [f \in EquityFunds |-> NoTime], closed |-> [f \in EquityFunds |-> NoTime],
                   appliedAt |-> NoTime, portfolioAt |-> NoTime, eventAt |-> NoTime, receivables |-> <<>>]
    /\ fillJournal = <<>> /\ operations = 0

Owned(b) == {f \in EquityFunds : b.positions[f] > 0}
ReceivableValue(b) ==
    SumFunction([i \in DOMAIN b.receivables |-> IF b.receivables[i].paid THEN 0 ELSE b.receivables[i].amount])

\* set_day_baseline: a new day ends the halt, the same day keeps its baseline.
BaselineAllowed(day) ==
    /\ day >= research.day /\ (research.appliedAt # NoTime => day >= SessionOf(research.appliedAt))
    /\ day = research.day => research.baseline = 0
SetDayBaseline(day, equity) ==
    /\ BaselineAllowed(day)
    /\ research' = [research EXCEPT !.day = day, !.baseline = equity, !.halted = (day = research.day) /\ @]
    /\ UNCHANGED fillJournal

\* _snapshot: every owned fund needs a mark of this very moment; a valuation at
\* the loss limit latches the halt.
Valued(b, marks, t) == SessionOf(t) = b.day /\ Owned(b) \subseteq DOMAIN marks
BookGross(b, marks) == SumFunction([f \in Owned(b) |-> b.positions[f] * marks[f]])
BookEquity(b, marks) == b.cash + BookGross(b, marks) + ReceivableValue(b)
AtLoss(b, marks) == b.baseline > 0 /\ BookEquity(b, marks) * 1000 <= b.baseline * (1000 - EntryLossLimit)
LossSeen(b, marks, t) == Valued(b, marks, t) /\ AtLoss(b, marks)
Snapshot(b, marks, t) == [b EXCEPT !.halted = @ \/ LossSeen(b, marks, t)]
LossRow(b, marks, t) == IF LossSeen(b, marks, t) THEN <<[kind |-> "loss", at |-> t]>> ELSE <<>>
EntriesBlocked(b, marks) == b.halted \/ b.baseline = 0 \/ AtLoss(b, marks)

\* _owned_matches
OwnedMatches(b, actions) ==
    \A f \in EquityFunds :
        /\ f \in b.pendingExits => actions[f] = "exit"
        /\ actions[f] = "exit" => b.positions[f] > 0
        /\ actions[f] = "enter" => b.positions[f] = 0

\* plan_entry against what earlier plans of the batch have reserved.
NoPlan == [quantity |-> 0, budget |-> 0]
Reserved(plans) == SumFunction([f \in EquityFunds |-> IF plans[f].quantity > 0 THEN plans[f].budget ELSE 0])
PlanBudget(b, marks, reserved) ==
    LET equity == BookEquity(b, marks)
    IN  Max({0, Min({TargetShare * equity, GrossCap * equity - 1000 * (BookGross(b, marks) + reserved),
                     1000 * (b.cash - reserved)})}) \div 1000
PlanEntry(b, marks, price, reserved) ==
    LET budget == PlanBudget(b, marks, reserved)
    IN  IF EntriesBlocked(b, marks) THEN NoPlan ELSE [quantity |-> budget \div price, budget |-> budget]
PlanFund(plans, f, b, actions, marks, price, t, executesAt) ==
    IF actions[f] # "enter" \/ t > executesAt \/ ~Valued(b, marks, t) \/ f \notin DOMAIN marks THEN plans
    ELSE [plans EXCEPT ![f] = PlanEntry(b, marks, price, Reserved(plans))]
PlansOf(b, actions, marks, price, t, executesAt) ==
    FoldLeft(LAMBDA plans, f : PlanFund(plans, f, b, actions, marks, price, t, executesAt),
             [f \in EquityFunds |-> NoPlan], ResearchOrder)

\* prepare_batch: one unresolved batch at a time; exits become pending at once.
MayPrepare(t) == research.batch = NoBatch /\ t >= research.appliedAt
PrepareBatch(t, actions, marks, price, executesAt) ==
    LET b == Snapshot(research, marks, t) IN
    /\ MayPrepare(t) /\ OwnedMatches(research, actions)
    /\ research' = [b EXCEPT !.pendingExits = @ \cup {f \in EquityFunds : actions[f] = "exit"},
                             !.batch = [at |-> t, executesAt |-> executesAt, actions |-> actions,
                                        plans |-> PlansOf(b, actions, marks, price, t, executesAt)]]
    /\ fillJournal' = fillJournal \o LossRow(research, marks, t)

\* estimate_exit and its booking; a missing open, one not reached yet or a batch
\* prepared too late leaves the exit pending.
Executable(b, f, opens, t) == f \in DOMAIN opens /\ t >= b.batch.executesAt
BookExit(acc, f, opens, marks, t) ==
    LET b == acc.book
        held == b.positions[f]
        cost == held * (opens[f] - ShareFee)
        sold == [b EXCEPT !.cash = @ + cost - FixedFee, !.positions[f] = 0, !.pendingExits = @ \ {f},
                          !.closed[f] = SessionOf(t)]
    IN  IF \/ b.batch.actions[f] # "exit" \/ b.batch.at > b.batch.executesAt
           \/ ~Executable(b, f, opens, t) \/ cost < FixedFee
        THEN acc
        ELSE [book |-> Snapshot(sold, marks, t),
              rows |-> acc.rows \o <<[kind |-> "sell", fund |-> f, units |-> held, cost |-> cost, at |-> t]>>
                                \o LossRow(sold, marks, t)]

\* estimate_entry and its booking: one attempt a session, never after a close,
\* never more than planned.
EntryQuantityPlanned(b, plan, price, marks) == plan.quantity
EntryQuantity(b, plan, price, marks) ==
    LET budget == Min({plan.budget, b.cash, (GrossCap * BookEquity(b, marks)) \div 1000 - BookGross(b, marks)})
    IN  Min({plan.quantity, Max({0, budget - FixedFee}) \div (price + ShareFee)})
SessionUsed(b, f, t) == SessionOf(t) \in {b.closed[f], b.attempted[f]}
BookEntry(acc, f, opens, marks, t) ==
    LET tried == [acc.book EXCEPT !.attempted[f] = SessionOf(t)]
        b == Snapshot(tried, marks, t)
        plan == b.batch.plans[f]
        units == EntryQuantity(b, plan, opens[f], marks)
        cost == units * (opens[f] + ShareFee)
    IN  IF acc.book.batch.actions[f] # "enter" \/ SessionUsed(acc.book, f, t) THEN acc
        ELSE IF f \notin DOMAIN marks \/ ~Valued(tried, marks, t) THEN [acc EXCEPT !.book = tried]
        ELSE IF plan.quantity = 0 \/ ~Executable(b, f, opens, t) \/ EntriesBlocked(b, marks) \/ units <= 0
             THEN [book |-> b, rows |-> acc.rows \o LossRow(tried, marks, t)]
             ELSE [book |-> [b EXCEPT !.cash = @ - cost - FixedFee, !.positions[f] = units],
                   rows |-> acc.rows \o <<[kind |-> "buy", fund |-> f, units |-> units, cost |-> cost, at |-> t]>>]

\* Each goes over the funds in their order.
BookExits(start, opens, marks, t) == FoldLeft(LAMBDA acc, f : BookExit(acc, f, opens, marks, t), start, ResearchOrder)
BookEntries(exited, opens, marks, t) == FoldLeft(LAMBDA acc, f : BookEntry(acc, f, opens, marks, t), exited, ResearchOrder)

\* apply_batch, on the session day of its decisions: all exits, then the entries.
MayApply(t) ==
    /\ research.batch # NoBatch /\ t >= research.batch.at /\ t >= research.appliedAt
    /\ SessionOf(research.batch.executesAt) = SessionOf(t)
ApplyBatch(t, opens, marks) ==
    /\ MayApply(t) /\ OwnedMatches(research, research.batch.actions)
    /\ LET start == [book |-> Snapshot(research, marks, t), rows |-> LossRow(research, marks, t)]
           done == BookEntries(BookExits(start, opens, marks, t), opens, marks, t)
       IN  /\ research' = [Snapshot(done.book, marks, t) EXCEPT !.batch = NoBatch, !.appliedAt = t, !.portfolioAt = t]
           /\ fillJournal' = fillJournal \o done.rows \o LossRow(done.book, marks, t)

\* apply_corporate_action at its effective moment, never behind another
\* operation or under a prepared plan; entitlements before the batch of the
\* same moment.
ActionAllowed(t) ==
    research.batch = NoBatch /\ t >= research.eventAt /\ t >= research.appliedAt
EntitlementAllowed(t) == ActionAllowed(t) /\ t > research.portfolioAt
ActionApplied(b, t) == [b EXCEPT !.eventAt = t, !.appliedAt = t]
CashDividend(t, f, amount) ==
    LET row == [fund |-> f, amount |-> research.positions[f] * amount, paid |-> FALSE, payAt |-> NoTime, since |-> t] IN
    /\ EntitlementAllowed(t) /\ research.positions[f] > 0
    /\ research' = ActionApplied([research EXCEPT !.receivables = Append(@, row)], t)
    /\ fillJournal' = Append(fillJournal, [kind |-> "dividend", fund |-> f, perShare |-> amount, at |-> t])
SplitAction(t, f, ratio) ==
    /\ EntitlementAllowed(t) /\ research.positions[f] > 0 /\ (research.positions[f] * ratio[1]) % ratio[2] = 0
    /\ research' = ActionApplied([research EXCEPT !.positions[f] = (@ * ratio[1]) \div ratio[2]], t)
    /\ fillJournal' = Append(fillJournal, [kind |-> "split", fund |-> f, ratio |-> ratio, at |-> t])
DividendSchedule(t, i, payAt) ==
    /\ ActionAllowed(t) /\ ~research.receivables[i].paid /\ payAt >= research.receivables[i].since
    /\ research.receivables[i].payAt \in {NoTime, payAt}
    /\ research' = ActionApplied([research EXCEPT !.receivables[i].payAt = payAt], t)
    /\ UNCHANGED fillJournal
DividendPayment(t, i) ==
    /\ ActionAllowed(t) /\ ~research.receivables[i].paid /\ t >= research.receivables[i].payAt
    /\ research' = ActionApplied([research EXCEPT !.cash = @ + research.receivables[i].amount,
                                                  !.receivables[i].paid = TRUE], t)
    /\ fillJournal' = Append(fillJournal, [kind |-> "payment", dividend |-> i, at |-> t])

Partial(S) == UNION {[D -> MarkPrices] : D \in SUBSET S}
Operation ==
    \/ \E t \in Times : SetDayBaseline(SessionOf(t), ResearchCash)
    \/ \E t \in Times : /\ MayPrepare(t)
                        /\ \E actions \in [EquityFunds -> {"enter", "exit", "none"}] :
                              /\ OwnedMatches(research, actions)
                              /\ \E day \in SessionOf(t)..SessionOf(LastTime), marks \in Partial(EquityFunds), p \in MarkPrices :
                                    PrepareBatch(t, actions, marks, p, OpenOf(day))
    \/ \E t \in Times : MayApply(t) /\ \E opens, marks \in Partial(EquityFunds) : ApplyBatch(t, opens, marks)
    \/ \E t \in Times, f \in EquityFunds :
           \/ \E amount \in DividendAmounts : CashDividend(t, f, amount)
           \/ \E ratio \in SplitRatios : SplitAction(t, f, ratio)
    \/ \E t \in Times, i \in DOMAIN research.receivables :
           \/ \E payAt \in Times : DividendSchedule(t, i, payAt)
           \/ DividendPayment(t, i)
ResearchNext == operations < MaxOperations /\ operations' = operations + 1 /\ Operation
ResearchSpec == ResearchInit /\ [][ResearchNext]_researchVars

-----------------------------------------------------------------------------
(* _audit: cash, lots and receivables again, from the committed rows alone. *)
PartOf(total, closed, units) == IF closed = units THEN total ELSE (total * closed) \div units
NoAudit ==
    [cash |-> ResearchCash, lots |-> [f \in EquityFunds |-> <<>>], receivables |-> <<>>, realized |-> 0, income |-> 0]
SellLot(acc, lot) ==
    LET closed == Min({acc.left, lot.units})
        part == PartOf(lot.cost, closed, lot.units)
        rest == [units |-> lot.units - closed, cost |-> lot.cost - part]
    IN  [left |-> acc.left - closed, cost |-> acc.cost + part,
         kept |-> IF rest.units = 0 THEN acc.kept ELSE Append(acc.kept, rest)]
SellLots(lots, sold) == FoldLeft(SellLot, [left |-> sold, cost |-> 0, kept |-> <<>>], lots)
SplitLots(lots, ratio) == [i \in DOMAIN lots |-> [lots[i] EXCEPT !.units = (@ * ratio[1]) \div ratio[2]]]
LotUnits(lots) == SumFunction([i \in DOMAIN lots |-> lots[i].units])
LotCosts(lots) == SumFunction([i \in DOMAIN lots |-> lots[i].cost])
Audited(a, row) ==
    CASE row.kind = "buy" ->
             [a EXCEPT !.cash = @ - row.cost - FixedFee,
                       !.lots[row.fund] = Append(@, [units |-> row.units, cost |-> row.cost + FixedFee])]
      [] row.kind = "sell" ->
             LET s == SellLots(a.lots[row.fund], row.units)
             IN  [a EXCEPT !.cash = @ + row.cost - FixedFee, !.lots[row.fund] = s.kept,
                           !.realized = @ + row.cost - FixedFee - s.cost]
      [] row.kind = "dividend" ->
             LET amount == LotUnits(a.lots[row.fund]) * row.perShare
             IN  [a EXCEPT !.receivables = Append(@, [amount |-> amount, paid |-> FALSE]), !.income = @ + amount]
      [] row.kind = "payment" ->
             [a EXCEPT !.cash = @ + a.receivables[row.dividend].amount, !.receivables[row.dividend].paid = TRUE]
      [] row.kind = "split" ->
             [a EXCEPT !.lots[row.fund] = SplitLots(@, row.ratio)]
      [] OTHER -> a
AuditOf(rows) == FoldLeft(Audited, NoAudit, rows)
Audit == AuditOf(fillJournal)

-----------------------------------------------------------------------------
\* The document keeps its shape, and only owned funds have a pending exit.
ResearchTypeOK ==
    /\ research.cash \in Nat /\ research.positions \in [EquityFunds -> Nat] /\ research.pendingExits \subseteq Owned(research)
    /\ research.halted \in BOOLEAN /\ {research.appliedAt, research.portfolioAt, research.eventAt} \subseteq Times \cup {NoTime}
    /\ operations \in 0..MaxOperations

\* The audit of the committed rows finds the cash, the shares and the dividends
\* of the document, and realized gain, open lots at any price, income and
\* receivables explain the whole change of equity (_audit 189-205).
BookReconciles ==
    LET a == Audit
        Value(p) == SumFunction([f \in EquityFunds |-> LotUnits(a.lots[f]) * p[f]])
        OpenCost == SumFunction([f \in EquityFunds |-> LotCosts(a.lots[f])])
    IN  /\ a.cash = research.cash
        /\ \A f \in EquityFunds : LotUnits(a.lots[f]) = research.positions[f]
        /\ Len(a.receivables) = Len(research.receivables)
        /\ \A i \in DOMAIN a.receivables : /\ a.receivables[i].amount = research.receivables[i].amount
                                           /\ a.receivables[i].paid = research.receivables[i].paid
        /\ \A p \in [EquityFunds -> MarkPrices] :
              a.cash + Value(p) + ReceivableValue(research) - ResearchCash = a.realized + (Value(p) - OpenCost) + a.income

Rows(kind) == {i \in DOMAIN fillJournal : fillJournal[i].kind = kind}
SameSession(i, j) == SessionOf(fillJournal[i].at) = SessionOf(fillJournal[j].at)

\* Whatever the order of valuations, batches, actions and baselines, nothing is
\* bought on a day once its loss limit has been seen (entry_halted).
HaltLastsTheDay == \A i \in Rows("buy"), j \in Rows("loss") : SameSession(i, j) => i < j

\* A fund is bought at most once a session and never after it was sold in it.
OneEntryPerSession ==
    \A i \in Rows("buy"), j \in Rows("buy") \cup Rows("sell") :
        i # j /\ SameSession(i, j) /\ fillJournal[i].fund = fillJournal[j].fund => i < j /\ fillJournal[j].kind = "sell"

ResearchBookIsSound == BookReconciles /\ HaltLastsTheDay /\ OneEntryPerSession
=============================================================================
