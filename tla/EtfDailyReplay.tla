-------------------------- MODULE EtfDailyReplay ---------------------------
(***************************************************************************)
(* run_daily_etf_replay (backtest/daily_etf.py): a day's close decides what*)
(* is executed at the open of a later session.  A day is its open with the *)
(* due reductions, the due additions one at a time, and its close.  The    *)
(* candidate's features are any intents; the passive benchmark basket, the *)
(* log and the metrics are left out.  Prices are small integers, the       *)
(* one-way drag an amount per share, limits are per mille of equity.       *)
(***************************************************************************)
EXTENDS Integers, Sequences, FiniteSets, FiniteSetsExt, Functions

CONSTANTS FundOrder,     \* the universe, sorted
          Clustered,
          Days,
          DayShapes,     \* fund -> possible bars: [open, close]
          Actions,       \* corporate actions: [day, symbol, ratio, dividend, pay]
          DailyCapital, Drag,
          DelaySessions, \* delay_sessions
          StopAtr,       \* three times the ATR
          Cooldown,      \* 10 sessions
          Weights,       \* target weights, per mille
          NameLimit, BookLimit, ClusterLimit, NameRisk, PortfolioRisk,
          PeakHalt, DayHalt

ASSUME DailyAssumption ==
    /\ {Days, DailyCapital} \subseteq Nat \ {0} /\ DelaySessions \in {0, 1}
    /\ {Drag, StopAtr, Cooldown} \subseteq Nat /\ Weights \subseteq 0..1000
    /\ {NameLimit, BookLimit, ClusterLimit} \subseteq Nat /\ {NameRisk, PortfolioRisk, PeakHalt, DayHalt} \subseteq Int
    /\ FundOrder \in Seq(Range(FundOrder)) /\ Range(FundOrder) \subseteq DOMAIN DayShapes /\ IsFiniteSet(Actions)
    /\ \A s \in DOMAIN DayShapes : \A b \in DayShapes[s] : b \in [open : Nat \ {0}, close : Nat \ {0}] /\ b.open >= Drag
    /\ \A a \in Actions : {a.day, a.ratio, a.dividend, a.pay} \subseteq Nat
    /\ \A a \in Actions : a.ratio > 0 /\ a.dividend >= 0 /\ (a.pay = 0 \/ a.pay >= a.day)
    /\ \A a, b \in Actions : a.symbol = b.symbol /\ a.day = b.day => a = b

VARIABLES day, part,
          quotes,       \* the bars of this day
          toAdd,        \* due additions the open has yet to handle
          plans,        \* pending: symbol -> target quantity, stop, due day
          shares,       \* positions
          dayMarks, dayCash, owing,
          dayRealized, grossRealized, drag,
          dayPeak, priorEquity, halt, blockUntil, cooldown,
          staleDay,     \* a held fund has no bar today
          forcedDue     \* history: per held fund, the day its forced exit is first due

dailyVars == <<day, part, quotes, toAdd, plans, shares, dayMarks, dayCash, owing, dayRealized, grossRealized, drag,
               dayPeak, priorEquity, halt, blockUntil, cooldown, staleDay, forcedDue>>

Funds == {FundOrder[i] : i \in DOMAIN FundOrder}
DailyEquity(c, book, prices, owed) ==
    c + SumFunction([s \in DOMAIN book |-> book[s].qty * prices[s]]) + SumFunction([k \in owed |-> k.amount])
MarkToStop(qty, mark, stop) == qty * Max({mark - Min({mark, stop}) + Drag, 0})
HeldQty(s) == IF s \in DOMAIN shares THEN shares[s].qty ELSE 0
Drop(f, S) == [s \in DOMAIN f \ S |-> f[s]]
Put(f, s, value) == [x \in DOMAIN f \cup {s} |-> IF x = s THEN value ELSE f[x]]

DailyInit ==
    /\ day = 1 /\ part = "open" /\ quotes = <<>> /\ toAdd = {} /\ plans = <<>> /\ shares = <<>>
    /\ dayMarks = [s \in Funds |-> 0] /\ dayCash = DailyCapital /\ owing = {}
    /\ dayRealized = 0 /\ grossRealized = 0 /\ drag = 0 /\ dayPeak = DailyCapital /\ priorEquity = DailyCapital
    /\ halt = FALSE /\ blockUntil = 0 /\ cooldown = [s \in Funds |-> 0] /\ staleDay = FALSE /\ forcedDue = <<>>

\* Actions are effective before the open: they scale positions and pending
\* orders, and owe the distribution to who owned the shares before the open.
Effective == {a \in Actions : a.day = day}
SplitOf(s) == IF \E a \in Effective : a.symbol = s THEN (CHOOSE a \in Effective : a.symbol = s).ratio ELSE 1
Dividend(s) ==
    IF \E a \in Effective : a.symbol = s /\ s \in DOMAIN shares
    THEN LET a == CHOOSE x \in Effective : x.symbol = s IN shares[s].qty * a.ratio * a.dividend
    ELSE 0
Split(book) ==
    [s \in DOMAIN book |-> [book[s] EXCEPT !.qty = @ * SplitOf(s), !.stop = @ \div SplitOf(s)]]
Owed == owing \cup {[event |-> a, amount |-> Dividend(a.symbol)] : a \in {x \in Effective : Dividend(x.symbol) > 0}}
PaidBy(time, owed) == {k \in owed : k.event.pay # 0 /\ k.event.pay <= time}

\* sell(): a fraction of the basis leaves with the fraction of the shares.
Sold(p, qty) == [p EXCEPT !.qty = @ - qty, !.basis = @ - (@ * qty) \div p.qty, !.rawBasis = @ - (@ * qty) \div p.qty]

\* The half-days of Actions' payments: the open of day d is 2d, its close 2d+1.
OpenDay(present) ==
    /\ part = "open"
    /\ quotes' \in {r \in [present -> UNION {DayShapes[s] : s \in Funds}] : \A s \in present : r[s] \in DayShapes[s]}
    /\ LET book == Split(shares)
           asked == Split(plans)
           have == [s \in Funds |-> IF s \in DOMAIN book THEN book[s].qty ELSE 0]
           paid == PaidBy(2 * day, Owed)
           due == {s \in DOMAIN asked : asked[s].due <= day}
           reduced == {s \in due \cap present : asked[s].qty < have[s]}
           soldQty == [s \in reduced |-> have[s] - asked[s].qty]
           closed == {s \in reduced : asked[s].qty = 0}
           basis == SumFunction([s \in reduced |-> (book[s].basis * soldQty[s]) \div book[s].qty])
           rawBasis == SumFunction([s \in reduced |-> (book[s].rawBasis * soldQty[s]) \div book[s].qty])
           raw == SumFunction([s \in reduced |-> soldQty[s] * quotes'[s].open])
           cost == SumFunction([s \in reduced |-> soldQty[s] * Drag])
           credit == SumFunction([s \in DOMAIN shares |-> Dividend(s)])
       IN  /\ shares' = [s \in DOMAIN book \ closed |-> IF s \in reduced THEN Sold(book[s], soldQty[s]) ELSE book[s]]
           /\ dayCash' = dayCash + SumFunction([k \in paid |-> k.amount]) + raw - cost
           /\ owing' = Owed \ paid /\ drag' = drag + cost
           /\ dayRealized' = dayRealized + credit + raw - cost - basis
           /\ grossRealized' = grossRealized + credit + raw - rawBasis
           /\ dayMarks' = [s \in Funds |-> IF s \in present THEN quotes'[s].open
                                           ELSE IF s \in DOMAIN book THEN dayMarks[s] \div SplitOf(s) ELSE dayMarks[s]]
           /\ cooldown' = [s \in Funds |-> IF s \in closed /\ asked[s].reason = "protective_exit"
                                           THEN day + Cooldown ELSE cooldown[s]]
           /\ staleDay' = ~(DOMAIN book \subseteq present)
           /\ toAdd' = due \cap present
           \* A missing open keeps a reduction pending and ends an addition.
           /\ plans' = Drop(asked, {s \in due \ present : asked[s].qty >= have[s]})
           /\ forcedDue' = Drop(forcedDue, closed)
    /\ part' = "adds"
    /\ UNCHANGED <<day, dayPeak, priorEquity, halt, blockUntil>>

\* allowed_add: the largest addition within every limit.
AllowedAdd(s, requested, raw, stop, equity, cap) ==
    LET value == SumFunction([k \in DOMAIN shares |-> shares[k].qty * dayMarks[k]])
        clustered == SumFunction([k \in DOMAIN shares \cap Clustered |-> shares[k].qty * dayMarks[k]])
        risk == SumFunction([k \in DOMAIN shares |-> MarkToStop(shares[k].qty, dayMarks[k], shares[k].stop)])
        own == MarkToStop(HeldQty(s), raw, stop)
        Fits(q) ==
            LET loss == q * (raw - stop + 2 * Drag)
                left == equity - q * Drag
            IN  /\ q * (raw + Drag) <= dayCash
                /\ (own + loss) * 1000 <= NameRisk * left
                /\ (risk + loss) * 1000 <= PortfolioRisk * left
                /\ (value + q * raw) * 1000 <= BookLimit * left
                /\ (HeldQty(s) + q) * raw * 1000 <= cap * left
                /\ s \in Clustered => (clustered + q * raw) * 1000 <= ClusterLimit * left
    IN  IF raw <= stop THEN 0 ELSE Max({0} \cup {q \in 1..requested : Fits(q)})

Add(s) ==
    /\ part = "adds" /\ s \in toAdd
    /\ toAdd' = toAdd \ {s} /\ plans' = Drop(plans, {s})
    /\ LET raw == quotes[s].open
           request == plans[s].qty - HeldQty(s)
           refused == request <= 0 \/ halt \/ day <= blockUntil \/ staleDay \/ raw <= plans[s].stop
           qty == IF refused THEN 0
                  ELSE AllowedAdd(s, request, raw, plans[s].stop, DailyEquity(dayCash, shares, dayMarks, owing), NameLimit)
           old == IF s \in DOMAIN shares THEN shares[s] ELSE [qty |-> 0, basis |-> 0, rawBasis |-> 0, stop |-> plans[s].stop]
       IN  IF qty = 0
           THEN UNCHANGED <<shares, dayCash, drag>>
           ELSE /\ dayCash' = dayCash - qty * (raw + Drag) /\ drag' = drag + qty * Drag
                /\ shares' = Put(shares, s, [old EXCEPT !.qty = @ + qty, !.basis = @ + qty * (raw + Drag),
                                                        !.rawBasis = @ + qty * raw])
    /\ UNCHANGED <<day, part, quotes, dayMarks, owing, dayRealized, grossRealized, dayPeak, priorEquity, halt,
                   blockUntil, cooldown, staleDay, forcedDue>>

Plan(s, qty, stop, due, reason) == [qty |-> qty, stop |-> stop, due |-> due, reason |-> reason]
NextDue == day + 1 + DelaySessions

\* What a halt, a daily loss or a stop forces out; a reduction already pending
\* keeps its earlier day.
Forced(halted, dailyHit) ==
    {s \in DOMAIN shares : halted \/ dailyHit \/ (s \in DOMAIN quotes /\ quotes[s].close <= shares[s].stop)}
Earlier(s) ==
    IF s \in DOMAIN plans /\ plans[s].qty < HeldQty(s) THEN Min({NextDue, plans[s].due}) ELSE NextDue
WithForced(halted, dailyHit) ==
    [s \in DOMAIN plans \cup Forced(halted, dailyHit) |->
        IF s \notin Forced(halted, dailyHit) THEN plans[s]
        ELSE Plan(s, 0, shares[s].stop, Earlier(s),
                  IF halted THEN "drawdown_halt" ELSE IF dailyHit THEN "daily_loss_halt" ELSE "protective_exit")]

\* The caps are applied in the order of the symbols: a fund above them is cut
\* to what the funds before it leave.
CapFor(s, equity, prices, used, clustered) ==
    LET value == shares[s].qty * prices[s]
        allowed == Min({value, (NameLimit * equity) \div 1000, Max({0, (BookLimit * equity) \div 1000 - used})}
                       \cup (IF s \in Clustered THEN {Max({0, (ClusterLimit * equity) \div 1000 - clustered})} ELSE {}))
    IN  IF allowed < value THEN allowed \div prices[s] ELSE shares[s].qty
Capped(equity, prices) ==
    LET walk[i \in 0..Len(FundOrder)] ==
            IF i = 0 THEN [used |-> 0, clustered |-> 0, kept |-> [s \in DOMAIN shares |-> 0]]
            ELSE LET s == FundOrder[i]
                     before == walk[i - 1]
                     qty == CapFor(s, equity, prices, before.used, before.clustered)
                 IN  IF s \notin DOMAIN shares THEN before
                     ELSE [used |-> before.used + qty * prices[s],
                           clustered |-> before.clustered + (IF s \in Clustered THEN qty * prices[s] ELSE 0),
                           kept |-> [before.kept EXCEPT ![s] = qty]]
    IN  walk[Len(FundOrder)].kept
WithCuts(orders, cuts, halted, dailyHit) ==
    LET cut == {s \in DOMAIN shares : cuts[s] < shares[s].qty} \ Forced(halted, dailyHit)
        reducing(s) == s \in DOMAIN orders /\ orders[s].qty < shares[s].qty
    IN  [s \in DOMAIN orders \cup cut |->
            IF s \notin cut THEN orders[s]
            ELSE Plan(s, IF reducing(s) THEN Min({cuts[s], orders[s].qty}) ELSE cuts[s], shares[s].stop,
                      IF reducing(s) THEN Min({NextDue, orders[s].due}) ELSE NextDue,
                      IF reducing(s) /\ orders[s].qty <= cuts[s] THEN orders[s].reason ELSE "exposure_cap_reduction")]

\* A decision of the close: intents only for funds that are not pending or
\* cooling down, each sized against the marked book.
Target(s, weight, price, stop, equity) ==
    LET wanted == (equity * weight) \div (1000 * (price + Drag))
    IN  IF weight = 0 THEN 0
        ELSE IF wanted <= HeldQty(s) THEN wanted
        ELSE HeldQty(s) + AllowedAdd(s, wanted - HeldQty(s), price, stop, equity, Min({NameLimit, weight}))

Decided(orders, intents, equity) ==
    LET StopOf(s) == IF s \in DOMAIN shares THEN shares[s].stop ELSE quotes[s].close - StopAtr
        Goal(s) == Target(s, intents[s], quotes[s].close, StopOf(s), equity)
        new == {s \in DOMAIN intents : (intents[s] = 0 \/ StopOf(s) > 0) /\ Goal(s) # HeldQty(s)}
    IN  [s \in DOMAIN orders \cup new |->
            IF s \in new THEN Plan(s, Goal(s), StopOf(s), NextDue, "intent") ELSE orders[s]]

CloseDayMarks == [s \in Funds |-> IF s \in DOMAIN quotes THEN quotes[s].close ELSE dayMarks[s]]

\* First the marks, the payments of the session and the halts, then the orders.
MarkClose ==
    /\ part = "adds" /\ toAdd = {}
    /\ dayMarks' = CloseDayMarks
    /\ dayCash' = dayCash + SumFunction([k \in PaidBy(2 * day + 1, owing) |-> k.amount])
    /\ owing' = owing \ PaidBy(2 * day + 1, owing)
    /\ LET equity == DailyEquity(dayCash', shares, dayMarks', owing')
           top == Max({dayPeak, equity})
       IN  /\ dayPeak' = top
           /\ halt' = (halt \/ equity * 1000 <= top * (1000 - PeakHalt))
           /\ blockUntil' = IF equity * 1000 <= priorEquity * (1000 - DayHalt) THEN day + 1 ELSE blockUntil
    /\ part' = "close"
    /\ UNCHANGED <<day, quotes, toAdd, plans, shares, dayRealized, grossRealized, drag, priorEquity, cooldown,
                   staleDay, forcedDue>>

\* blockUntil is the next day exactly when today's loss was hit.
CloseDay(intents) ==
    /\ part = "close" /\ day < Days
    /\ LET equity == DailyEquity(dayCash, shares, dayMarks, owing)
           hit == blockUntil = day + 1
           orders == WithCuts(WithForced(halt, hit), Capped(equity, dayMarks), halt, hit)
           decides == ~halt /\ day >= blockUntil
       IN  /\ DOMAIN intents \cap {s \in Funds : day < cooldown[s]} = {}
           /\ DOMAIN intents \cap DOMAIN orders = {} /\ (~decides => intents = <<>>)
           /\ \A s \in DOMAIN intents : IF intents[s] = 0 THEN s \in DOMAIN shares ELSE s \in DOMAIN quotes
           /\ plans' = Decided(orders, intents, equity)
           /\ forcedDue' = [s \in DOMAIN forcedDue \cup Forced(halt, hit) |->
                               IF s \in DOMAIN forcedDue THEN forcedDue[s] ELSE NextDue]
           /\ priorEquity' = equity
    /\ day' = day + 1 /\ part' = "open" /\ quotes' = <<>>
    /\ UNCHANGED <<toAdd, shares, dayMarks, dayCash, owing, dayRealized, grossRealized, drag, dayPeak, halt,
                   blockUntil, cooldown, staleDay>>

DailyNext ==
    \/ \E present \in SUBSET Funds : OpenDay(present)
    \/ \E s \in Funds : Add(s)
    \/ MarkClose
    \/ \E S \in SUBSET Funds : \E intents \in [S -> Weights] : CloseDay(intents)

DailySpec == DailyInit /\ [][DailyNext]_dailyVars

-----------------------------------------------------------------------------
DailyTypeOK ==
    /\ day \in 1..Days /\ part \in {"open", "adds", "close"} /\ DOMAIN plans \subseteq Funds /\ toAdd \subseteq DOMAIN plans
    /\ \A s \in DOMAIN shares : shares[s].qty > 0 /\ {halt, staleDay} \subseteq BOOLEAN

\* The two identities the replay asserts when it ends hold after every step:
\* partial sales, splits, dividends paid in a session or between two, and
\* forced exits neither create nor lose value, net or gross.
DailyIdentities ==
    LET net == DailyEquity(dayCash, shares, dayMarks, owing) - DailyCapital
    IN  /\ net = dayRealized + SumFunction([s \in DOMAIN shares |-> shares[s].qty * dayMarks[s] - shares[s].basis])
        /\ net + drag = grossRealized + SumFunction([s \in DOMAIN shares |-> shares[s].qty * dayMarks[s] - shares[s].rawBasis])

\* What a close forced out is gone after the first open that is due and has a
\* bar, whatever splits, caps, missing bars and new halts came in between.
ForcedExitsAreKept ==
    part \in {"adds", "close"} =>
        \A s \in DOMAIN forcedDue \cap DOMAIN quotes : forcedDue[s] <= day => s \notin DOMAIN shares

DailyReplayIsSound == DailyIdentities /\ ForcedExitsAreKept
=============================================================================
