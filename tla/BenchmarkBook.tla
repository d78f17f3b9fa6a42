--------------------------- MODULE BenchmarkBook ---------------------------
(***************************************************************************)
(* The control books of the frozen research tracks: targets derived from   *)
(* the candidate's lagged exposure (research/phase3_benchmarks.py) and the *)
(* modeled cash and units of a control (phase3_benchmark_ledger.py).  A    *)
(* target is prepared from the control's own equity, executed once at its  *)
(* schedule, sells before buys, and then only its unfilled sells are tried *)
(* again.  Between targets the corporate actions of phase3_actions.py      *)
(* change it.  Time counts execution boundaries; a missing price is        *)
(* evidence that is late, stale or of the wrong source.  Weights are per   *)
(* mille, the price impact is in money.  An asset's fee is either a base   *)
(* fee, BaseRate per mille of the quantity out of what is bought or owned, *)
(* or one in the quote currency, QuoteFee in money per unit.  Only crypto  *)
(* has base fees and only equities have corporate actions: one book may    *)
(* hold both here, as no track does.                                       *)
(***************************************************************************)
EXTENDS Integers, Sequences, SequencesExt, FiniteSets, FiniteSetsExt

CONSTANTS Assets, AssetPrices, PriceImpact, FixedCost, QuantityStep,
          PaidInBase, BaseRate, QuoteFee,
          BenchmarkCash, ExposureCap, Exposures, \* per mille of the candidate's equity
          DividendsPerUnit, LastBoundary, MaxTargets, MaxActions

ASSUME BenchmarkAssumption ==
    /\ IsFiniteSet(Assets) /\ Assets # {} /\ {QuantityStep, BenchmarkCash, MaxTargets} \cup DividendsPerUnit \subseteq Nat \ {0}
    /\ {PriceImpact, FixedCost, QuoteFee, LastBoundary, MaxActions} \subseteq Nat /\ BaseRate \in 0..999 /\ (QuantityStep * BaseRate) % 1000 = 0
    /\ ExposureCap \in 0..1000 /\ Exposures \subseteq Nat /\ \A p \in AssetPrices : p \in Nat /\ p > PriceImpact + QuoteFee

VARIABLES control,        \* the state document
          controlFills,   \* modeled_fills and events, each with its target and the attempt's number
          targets         \* how many targets were prepared

controlVars == <<control, controlFills, targets>>

Boundaries == 0..LastBoundary
NoTarget == [status |-> "complete"]
AssetOrder == SetToSeq(Assets)
BaseOf(a) == IF a \in PaidInBase THEN BaseRate ELSE 0
QuoteOf(a) == IF a \in PaidInBase THEN 0 ELSE QuoteFee
Stepped(q) == (q \div QuantityStep) * QuantityStep

\* No control is recorded; initial_state makes one of its kind.
NewControl(kind) ==
    [kind |-> kind, cash |-> BenchmarkCash, units |-> [a \in Assets |-> 0], initialized |-> FALSE, appliedAt |-> -1,
     portfolioAt |-> -1, receivables |-> {}, target |-> NoTarget]
BenchmarkInit == control = NewControl("none") /\ controlFills = <<>> /\ targets = 0
InitialState(kind) == control.kind = "none" /\ control' = NewControl(kind) /\ UNCHANGED <<controlFills, targets>>

\* exposure_target: the candidate's gross fraction under the cap, in equal weights
\* with the remainder on the last asset.
EqualWeights(gross) ==
    LET part == gross \div Cardinality(Assets)
    IN  [a \in Assets |-> IF a = Last(AssetOrder) THEN gross - part * (Cardinality(Assets) - 1) ELSE part]
ExposureTarget(reference) == EqualWeights(Min({ExposureCap, reference}))
\* delta_target: each underlying's positive delta exposure, scaled down to the
\* whole equity, the remainder on the last asset that has any.
DeltaTarget(exposure) ==
    LET positive == [a \in Assets |-> Max({0, exposure[a]})]
        reference == SumFunction(positive)
        scaled == [a \in Assets |-> (positive[a] * 1000) \div reference]
        last == AssetOrder[Max({i \in DOMAIN AssetOrder : exposure[AssetOrder[i]] > 0})]
    IN  IF reference <= 1000 THEN positive
        ELSE [scaled EXCEPT ![last] = 1000 - SumFunction([a \in Assets \ {last} |-> scaled[a]])]

\* prepare_target: deltas and cash ceilings from the control's own equity; the
\* signal value of the sells is an upper bound of what buys may get.
Equity(prices) ==
    control.cash + SumFunction([a \in Assets |-> control.units[a] * prices[a]])
        + SumFunction([k \in control.receivables |-> k.amount])
SellableWithoutFee(a, units) == Stepped(units)
Sellable(a, units) == Stepped((units * 1000) \div (1000 + BaseOf(a)))
Share(acc, a, costs) ==
    LET budget == Min({acc.left, costs[a]})
    IN  [left |-> acc.left - budget, of |-> [acc.of EXCEPT ![a] = budget]]
Budgets(available, costs) ==
    FoldLeft(LAMBDA acc, a : Share(acc, a, costs), [left |-> available, of |-> [a \in Assets |-> 0]], AssetOrder).of
PrepareTarget(weights, prices, scheduled) ==
    LET desired == [a \in Assets |-> Stepped((weights[a] * Equity(prices)) \div (1000 * prices[a]))]
        sells == [a \in Assets |-> Max({0, control.units[a] - desired[a]})]
        buys == [a \in Assets |-> Stepped(Max({0, desired[a] - control.units[a]}))]
        proceeds == [a \in Assets |->
                        IF Sellable(a, sells[a]) = 0 THEN 0
                        ELSE Max({0, Sellable(a, sells[a]) * (prices[a] - QuoteOf(a)) - FixedCost})]
        budgets == Budgets(control.cash + SumFunction(proceeds), [a \in Assets |-> buys[a] * prices[a]])
    IN  /\ control.kind # "none" /\ control.target.status = "complete" /\ scheduled > control.appliedAt
        /\ (control.kind = "passive" => ~control.initialized)
        /\ targets' = targets + 1
        /\ control' = [control EXCEPT !.initialized = @ \/ control.kind = "passive",
                             !.target = [id |-> targets', status |-> "prepared", scheduled |-> scheduled, attempts |-> 0,
                                         buys |-> buys, original |-> sells, remaining |-> sells, budgets |-> budgets]]
        /\ UNCHANGED controlFills

\* execute_target, one symbol of one side: what the frozen plan, the units, the
\* cash and the step leave.
Row(side, a, q, units, cash) ==
    [side |-> side, asset |-> a, quantity |-> q, units |-> units, cash |-> cash,
     target |-> control.target.id, attempt |-> control.target.attempts + 1]
SellOne(acc, a, prices) ==
    LET q == Sellable(a, Min({acc.book.target.remaining[a], acc.book.units[a]}))
        units == q + (q * BaseOf(a)) \div 1000
        proceeds == q * (prices[a] - PriceImpact - QuoteOf(a))
    IN  IF a \notin DOMAIN prices \/ q <= 0 \/ proceeds < FixedCost THEN acc
        ELSE [book |-> [acc.book EXCEPT !.units[a] = @ - units, !.cash = @ + proceeds - FixedCost,
                                        !.target.remaining[a] = Max({0, @ - units})],
              fills |-> Append(acc.fills, Row("sell", a, q, -units, proceeds - FixedCost))]
BuyOne(acc, a, prices) ==
    LET budget == Max({0, Min({acc.book.target.budgets[a], acc.book.cash}) - FixedCost})
        price == prices[a] + PriceImpact + QuoteOf(a)
        q == Min({acc.book.target.buys[a], Stepped(budget \div price)})
        units == q - (q * BaseOf(a)) \div 1000
        cost == q * price + FixedCost
    IN  IF a \notin DOMAIN prices \/ q <= 0 THEN acc
        ELSE [book |-> [acc.book EXCEPT !.units[a] = @ + units, !.cash = @ - cost],
              fills |-> Append(acc.fills, Row("buy", a, q, units, -cost))]
SellAll(prices) == FoldLeft(LAMBDA acc, a : SellOne(acc, a, prices), [book |-> control, fills |-> <<>>], AssetOrder)
BuyAll(sold, prices) == FoldLeft(LAMBDA acc, a : BuyOne(acc, a, prices), sold, AssetOrder)
\* What is left of a sell and cannot make a step is dust: it stays owned.
Settled(b) == [a \in Assets |-> IF Sellable(a, b.target.remaining[a]) = 0 THEN 0 ELSE b.target.remaining[a]]
MayExecute(now, retryAt) ==
    /\ control.target.status # "complete" /\ now >= control.appliedAt
    /\ IF control.target.attempts = 0 THEN retryAt = -1 /\ now >= control.target.scheduled
       ELSE retryAt > control.appliedAt /\ now >= retryAt
ExecuteTarget(now, retryAt, prices) ==
    LET sold == SellAll(prices)
        done == IF control.target.attempts > 0 THEN sold ELSE BuyAll(sold, prices)
        remaining == Settled(done.book)
        pending == \E a \in Assets : remaining[a] > 0
    IN  /\ MayExecute(now, retryAt)
        /\ control' = [done.book EXCEPT !.appliedAt = now, !.portfolioAt = now,
                           !.target = IF pending THEN [done.book.target EXCEPT !.remaining = remaining, !.status = "pending_sells",
                                                                              !.attempts = @ + 1]
                                      ELSE NoTarget]
        /\ controlFills' = controlFills \o done.fills
        /\ UNCHANGED targets

\* Corporate actions change a control only between targets; those that need its
\* units come before the portfolio is executed at their boundary.
MayAct(now) == control.kind # "none" /\ control.target.status = "complete" /\ now >= control.appliedAt
Event(side, a, q, units, cash) ==
    [side |-> side, asset |-> a, quantity |-> q, units |-> units, cash |-> cash, target |-> 0, attempt |-> 0]
ControlSplit(now, a) ==
    /\ MayAct(now) /\ now > control.portfolioAt /\ a \notin PaidInBase
    /\ control' = [control EXCEPT !.units[a] = @ * 2, !.appliedAt = now]
    /\ controlFills' = Append(controlFills, Event("split", a, 0, control.units[a], 0))
    /\ UNCHANGED targets

\* A dividend is owed to who holds the units now; its payment may be scheduled
\* at once, later or never, and is not cash before it is evidenced.
ControlDividend(now, a, perUnit, due) ==
    /\ MayAct(now) /\ now > control.portfolioAt /\ a \notin PaidInBase /\ (due = -1 \/ due >= now)
    /\ LET amount == control.units[a] * perUnit IN
       /\ control' = [control EXCEPT !.appliedAt = now,
                             !.receivables = @ \cup {[event |-> Len(controlFills) + 1, asset |-> a, amount |-> amount,
                                                       since |-> now, due |-> due]}]
       /\ controlFills' = Append(controlFills, Event("dividend", a, amount, 0, 0))
    /\ UNCHANGED targets
ScheduleDividend(now, k, due) ==
    /\ MayAct(now) /\ k.due \in {-1, due} /\ due >= k.since
    /\ control' = [control EXCEPT !.appliedAt = now, !.receivables = (@ \ {k}) \cup {[k EXCEPT !.due = due]}]
    /\ UNCHANGED <<controlFills, targets>>
PayDividend(now, k) ==
    /\ MayAct(now) /\ now >= k.due
    /\ control' = [control EXCEPT !.appliedAt = now, !.receivables = @ \ {k}, !.cash = @ + k.amount]
    /\ controlFills' = Append(controlFills, Event("payment", k.asset, k.event, 0, k.amount))
    /\ UNCHANGED targets

SomePrices == UNION {[D -> AssetPrices] : D \in SUBSET Assets}
BenchmarkNext ==
    \/ \E kind \in {"matched", "passive"} : InitialState(kind)
    \/ /\ targets < MaxTargets
       /\ \E prices \in [Assets -> AssetPrices], scheduled \in Boundaries :
             \/ \E reference \in Exposures : PrepareTarget(ExposureTarget(reference), prices, scheduled)
             \/ \E exposure \in [Assets -> Exposures] : PrepareTarget(DeltaTarget(exposure), prices, scheduled)
    \/ \E now \in Boundaries, retryAt \in Boundaries \cup {-1} :
          MayExecute(now, retryAt) /\ \E prices \in SomePrices : ExecuteTarget(now, retryAt, prices)
    \/ /\ Cardinality({i \in DOMAIN controlFills : controlFills[i].attempt = 0}) < MaxActions
       /\ \E now \in Boundaries :
             \/ \E a \in Assets : ControlSplit(now, a)
             \/ \E a \in Assets, perUnit \in DividendsPerUnit, due \in Boundaries \cup {-1} : ControlDividend(now, a, perUnit, due)
             \/ \E k \in control.receivables, due \in Boundaries : ScheduleDividend(now, k, due)
             \/ \E k \in control.receivables : PayDividend(now, k)
BenchmarkSpec == BenchmarkInit /\ [][BenchmarkNext]_controlVars

-----------------------------------------------------------------------------
BenchmarkTypeOK ==
    /\ control.cash \in Int /\ control.appliedAt \in Boundaries \cup {-1} /\ targets \in 0..MaxTargets
    /\ control.units \in [Assets -> Int] /\ control.target.status \in {"prepared", "pending_sells", "complete"}

Filled(side, id) == {i \in DOMAIN controlFills : controlFills[i].side = side /\ controlFills[i].target = id}

\* Cash and units are those of the fills and never negative: a control cannot
\* borrow or sell short whatever the prices did between plan and execution.
ControlReconciles ==
    /\ control.cash = BenchmarkCash + SumFunction([i \in DOMAIN controlFills |-> controlFills[i].cash])
    /\ control.cash >= 0
    /\ \A a \in Assets :
          /\ control.units[a] = SumFunction([i \in {j \in DOMAIN controlFills : controlFills[j].asset = a} |-> controlFills[i].units])
          /\ control.units[a] >= 0

\* A target buys in its first attempt only, an asset at most once, and after all
\* its sells of that attempt; a passive control has one target in its life.
FirstAttemptBuys ==
    \A id \in 1..targets :
        /\ \A i \in Filled("buy", id) : /\ controlFills[i].attempt = 1
                                        /\ \A j \in Filled("sell", id) : controlFills[j].attempt = 1 => j < i
        /\ \A i, j \in Filled("buy", id) : i # j => controlFills[i].asset # controlFills[j].asset
        /\ control.kind = "passive" => targets = 1

\* The open target's sells: filled and remaining units make the frozen amount.
SellsAreFrozen ==
    control.target.status # "complete" =>
        \A a \in Assets :
            LET sold == {i \in Filled("sell", control.target.id) : controlFills[i].asset = a}
                remaining == control.target.remaining[a]
            IN  remaining > 0 \/ control.target.attempts = 0 =>
                    remaining - SumFunction([i \in sold |-> controlFills[i].units]) = control.target.original[a]

\* The weights of every target are within the equity.
WeightsAreFractions ==
    /\ \A r \in Exposures : SumFunction(ExposureTarget(r)) = Min({ExposureCap, r})
    /\ \A e \in [Assets -> Exposures] : LET w == DeltaTarget(e) IN
          /\ SumFunction(w) = Min({1000, SumFunction(e)})
          /\ \A a \in Assets : w[a] >= 0 /\ (e[a] = 0 => w[a] = 0)

\* A dividend is paid after its entitlement, once and in full, and until then owed.
DividendsArePaidOnce ==
    /\ \A i \in DOMAIN controlFills : controlFills[i].side = "payment" =>
          LET event == controlFills[i].quantity IN
          /\ event < i /\ controlFills[event].side = "dividend" /\ controlFills[i].cash = controlFills[event].quantity
          /\ \A j \in DOMAIN controlFills : controlFills[j].side = "payment" /\ controlFills[j].quantity = event => j = i
    /\ \A i \in DOMAIN controlFills : controlFills[i].side = "dividend" =>
          \/ \E k \in control.receivables : k.event = i /\ k.amount = controlFills[i].quantity
          \/ \E j \in DOMAIN controlFills : controlFills[j].side = "payment" /\ controlFills[j].quantity = i

ControlBookIsSound == ControlReconciles /\ DividendsArePaidOnce /\ FirstAttemptBuys /\ SellsAreFrozen /\ WeightsAreFractions
=============================================================================
