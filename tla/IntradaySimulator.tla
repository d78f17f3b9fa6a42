------------------------- MODULE IntradaySimulator -------------------------
(***************************************************************************)
(* run_intraday (intraday/engine.py): the minute-bar simulator, flat at    *)
(* every close.  A minute is its open with the exits, the due orders one at*)
(* a time, its barriers and close.  A signal may appear at any close; the  *)
(* score orders the due orders, so any order is allowed, and a correlation *)
(* may refuse any of them.  Costs are an amount per share; validation of   *)
(* bars and calendar, decisions and metrics are left out.                  *)
(***************************************************************************)
EXTENDS Integers, FiniteSets, FiniteSetsExt, Functions

CONSTANTS Tickers, SessionLength, SessionCount,
          FlatAt,          \* the minute the flatten window begins
          BarShapes,       \* possible bars: [open, low, high, close]
          Capital0, ShareCost, Distance, Reward,  \* reward_risk
          TradeDelay, MaxHold, CooldownMinutes,
          EntriesPerDay, EntriesPerSymbol, PositionLimit,
          RiskLimit, StopRiskLimit, PositionShare, GrossShare, LossLimit, \* per mille
          VolumeShare      \* shares participation allows

ASSUME IntradayAssumption ==
    /\ {SessionLength, SessionCount, Capital0, TradeDelay, MaxHold, Distance} \subseteq Nat \ {0}
    /\ FlatAt \in 2..SessionLength /\ {Reward, CooldownMinutes, VolumeShare} \subseteq Nat /\ IsFiniteSet(Tickers)
    /\ ShareCost \in {0, 1}   \* a fraction of the price, and no price is below 1
    /\ \A b \in BarShapes : b \in [open : Nat, low : Nat, high : Nat, close : Nat]
    /\ \A b \in BarShapes : b.low <= Min({b.open, b.close}) /\ b.high >= Max({b.open, b.close}) /\ b.low > 0

VARIABLES sessionNo, clock, step,
          minuteBars,    \* the bar of every ticker
          dueOrders,     \* orders of this minute the loop has yet to handle
          orders,        \* pending, by due minute
          open,          \* positions
          wallet, startEquity, lossHalt,
          counts, coolUntil,
          tradePnl       \* sum of the closed trades

intradayVars == <<sessionNo, clock, step, minuteBars, dueOrders, orders, open, wallet, startEquity, lossHalt,
                  counts, coolUntil, tradePnl>>

Worth(w, book, field) == w + SumFunction([s \in DOMAIN book |-> book[s].qty * minuteBars'[s][field]])
BreachedAt(value) == value * 1000 <= startEquity * (1000 - LossLimit)
Kept(book, S) == [s \in DOMAIN book \ S |-> book[s]]

IntradayInit ==
    /\ sessionNo = 1 /\ clock = 1 /\ step = "open" /\ minuteBars = <<>> /\ dueOrders = {} /\ orders = {}
    /\ open = <<>> /\ wallet = Capital0 /\ startEquity = Capital0 /\ lossHalt = FALSE
    /\ counts = [s \in Tickers |-> 0] /\ coolUntil = [s \in Tickers |-> 0] /\ tradePnl = 0

\* close_position, for several positions at once.
Closing(S, price, cool) ==
    /\ open' = Kept(open, S)
    /\ wallet' = wallet + SumFunction([s \in S |-> open[s].qty * (price[s] - ShareCost)])
    /\ tradePnl' = tradePnl + SumFunction([s \in S |-> open[s].qty * (price[s] - open[s].entry - 2 * ShareCost)])
    /\ coolUntil' = [s \in Tickers |-> IF s \in S THEN cool + CooldownMinutes ELSE coolUntil[s]]

\* The opening mark is observed before anything is done: a breach lasts all day.
MinuteOpens ==
    /\ step = "open" /\ clock <= SessionLength
    /\ minuteBars' \in [Tickers -> BarShapes]
    /\ LET halt == lossHalt \/ BreachedAt(Worth(wallet, open, "open"))
           Opening(s) == minuteBars'[s].open
           Leaves(s) == \/ halt \/ clock >= FlatAt
                        \/ Opening(s) <= open[s].stop \/ Opening(s) >= open[s].target
                        \/ clock - open[s].since >= MaxHold
           AtTarget(s) == /\ ~halt /\ clock < FlatAt
                          /\ Opening(s) > open[s].stop /\ Opening(s) >= open[s].target
       IN  /\ Closing({s \in DOMAIN open : Leaves(s)},
                      [s \in DOMAIN open |-> IF AtTarget(s) THEN open[s].target ELSE Opening(s)], clock)
           /\ lossHalt' = (halt \/ BreachedAt(Worth(wallet', open', "open")))
    /\ dueOrders' = {o \in orders : o.due = clock} /\ orders' = orders \ dueOrders'
    /\ step' = "orders"
    /\ UNCHANGED <<sessionNo, clock, startEquity, counts>>

\* Every limit of the size at once.
WithinLimits(s, qty) ==
    LET price == minuteBars[s].open
        gross == SumFunction([k \in DOMAIN open |-> open[k].qty * minuteBars[k].open])
        equity == wallet + gross
        left == equity - qty * ShareCost
        committed == SumFunction([k \in DOMAIN open |-> open[k].qty * Max({minuteBars[k].open - open[k].stop, 0})])
    IN  /\ qty * Distance * 1000 <= RiskLimit * equity
        /\ qty * price * 1000 <= PositionShare * left
        /\ (gross + qty * price) * 1000 <= GrossShare * left
        /\ (committed + qty * Distance) * 1000 <= StopRiskLimit * left
        /\ qty * (price + ShareCost) <= wallet
        /\ qty <= VolumeShare

Refused(o) ==
    \/ lossHalt \/ clock >= FlatAt \/ o.ticker \in DOMAIN open
    \/ SumFunction([s \in Tickers |-> counts[s]]) >= EntriesPerDay \/ counts[o.ticker] >= EntriesPerSymbol
    \/ clock < coolUntil[o.ticker] \/ Cardinality(DOMAIN open) >= PositionLimit
    \/ minuteBars[o.ticker].open - Distance <= 0

DueOrder(o, correlated) ==
    /\ step = "orders" /\ o \in dueOrders
    /\ dueOrders' = dueOrders \ {o}
    /\ LET s == o.ticker
           price == minuteBars[s].open
           sizes == {q \in 1..VolumeShare : WithinLimits(s, q)}
       IN  IF Refused(o) \/ (correlated /\ open # <<>>) \/ sizes = {}
           THEN UNCHANGED <<open, wallet, counts, lossHalt>>
           ELSE /\ wallet' = wallet - Max(sizes) * (price + ShareCost)
                /\ open' = [k \in DOMAIN open \cup {s} |->
                               IF k = s THEN [qty |-> Max(sizes), entry |-> price, stop |-> price - Distance,
                                              target |-> price + Distance * Reward, since |-> clock, signal |-> o.at]
                               ELSE open[k]]
                /\ counts' = [counts EXCEPT ![s] = @ + 1]
                /\ lossHalt' = BreachedAt(wallet' + SumFunction([k \in DOMAIN open' |-> open'[k].qty * minuteBars[k].open]))
    /\ UNCHANGED <<sessionNo, clock, step, minuteBars, orders, startEquity, coolUntil, tradePnl>>

\* The stop has priority within a bar.  Signals of the close are queued unless
\* the day is halted or execution would fall into the flatten window.
MinuteCloses(signalled) ==
    /\ step = "orders" /\ dueOrders = {}
    /\ LET Stopped(s) == minuteBars[s].low <= open[s].stop
       IN  Closing({s \in DOMAIN open : Stopped(s) \/ minuteBars[s].high >= open[s].target},
                   [s \in DOMAIN open |-> IF Stopped(s) THEN open[s].stop ELSE open[s].target], clock + 1)
    /\ UNCHANGED minuteBars
    /\ lossHalt' = (lossHalt \/ BreachedAt(Worth(wallet', open', "close")))
    /\ orders' = IF lossHalt' \/ clock + TradeDelay >= FlatAt THEN orders
                 ELSE orders \cup {[ticker |-> s, at |-> clock + 1, due |-> clock + TradeDelay] : s \in signalled}
    /\ (lossHalt' \/ clock + TradeDelay >= FlatAt) => signalled = {}
    /\ clock' = clock + 1 /\ step' = "open"
    /\ UNCHANGED <<sessionNo, dueOrders, startEquity, counts>>

NextSession ==
    /\ step = "open" /\ clock > SessionLength /\ sessionNo < SessionCount
    /\ sessionNo' = sessionNo + 1 /\ clock' = 1 /\ startEquity' = wallet /\ lossHalt' = FALSE
    /\ orders' = {} /\ counts' = [s \in Tickers |-> 0] /\ coolUntil' = [s \in Tickers |-> 0]
    /\ UNCHANGED <<step, minuteBars, dueOrders, open, wallet, tradePnl>>

IntradayNext ==
    \/ MinuteOpens
    \/ \E o \in dueOrders, correlated \in BOOLEAN : DueOrder(o, correlated)
    \/ \E signalled \in SUBSET Tickers : MinuteCloses(signalled)
    \/ NextSession

IntradaySpec == IntradayInit /\ [][IntradayNext]_intradayVars

-----------------------------------------------------------------------------
IntradayTypeOK ==
    /\ sessionNo \in 1..SessionCount /\ clock \in 1..(SessionLength + 1) /\ step \in {"open", "orders"}
    /\ DOMAIN open \subseteq Tickers /\ \A s \in DOMAIN open : open[s].qty > 0 /\ lossHalt \in BOOLEAN

\* The three assertions of the simulator, at every step: cash is never spent
\* twice, a session ends without a position, and cash is the capital and the
\* trades' results once every position is closed.
SimulatorAssertions ==
    /\ wallet >= 0
    /\ clock >= FlatAt /\ step = "orders" => open = <<>>
    /\ wallet = Capital0 + tradePnl - SumFunction([s \in DOMAIN open |-> open[s].qty * (open[s].entry + ShareCost)])

\* An entry is never earlier than the whole delay after the bar that signalled
\* it, so the bar it fills at was unknown then.
EntriesAreCausal ==
    \A s \in DOMAIN open : open[s].since = open[s].signal - 1 + TradeDelay /\ open[s].since >= coolUntil[s]

IntradayIsSound == SimulatorAssertions /\ EntriesAreCausal
=============================================================================
