---------------------------- MODULE BarBacktest ----------------------------
(***************************************************************************)
(* BacktestEngine.run (backtest/engine.py) with the limits of RiskManager  *)
(* (risk/engine.py): one bar is a sequence of phases, and within a phase   *)
(* positions and orders are handled one at a time.  Prices are small       *)
(* integers drawn from Shapes, slippage and commission are amounts per     *)
(* unit.  The size of an entry is any of Sizes the exposure, cash and stop *)
(* budgets leave room for; an entry may also be refused for correlation or *)
(* for its stop budget.  Statistics carried along by an order are left out.*)
(***************************************************************************)
EXTENDS Integers, FiniteSets, FiniteSetsExt, Functions

CONSTANTS BarsOf,        \* symbol -> the timestamps (numbers) of its frame
          DayOf,         \* timestamp -> day
          Shapes,        \* possible bars: [open, low, high, close]
          Sizes, InitialCash, Slip, Commission, StopDistance, HoldBars,
          MaxOpen, MaxLossPercent, Leverage,
          Trailing, ExitOnFlip

ASSUME BacktestAssumption ==
    /\ InitialCash \in Nat \ {0} /\ {Slip, Commission, StopDistance, HoldBars} \subseteq Nat
    /\ Sizes \subseteq Nat \ {0} /\ MaxOpen \in Nat /\ MaxLossPercent \in 0..100 /\ Leverage \in Nat
    /\ IsFiniteSet(DOMAIN BarsOf) /\ \E s \in DOMAIN BarsOf : BarsOf[s] # {}
    /\ \A s \in DOMAIN BarsOf : BarsOf[s] \subseteq Nat \ {0} /\ IsFiniteSet(BarsOf[s])
    /\ \A h \in Shapes : h \in [open : Nat, low : Nat, high : Nat, close : Nat]
    /\ \A h \in Shapes : h.low <= Min({h.open, h.close}) /\ h.high >= Max({h.open, h.close}) /\ h.low > 0

VARIABLES bar, phase,
          shape,      \* row_map: the current bar of every symbol that has one
          todo,       \* symbols or orders the phase has not handled yet
          marks,      \* last_prices
          positions,  \* per symbol: Flat or the open position
          queue,      \* pending_orders
          cash, dayStart, halted,
          fates,      \* order_log: what became of every order
          pnl,        \* sum over trade_log
          haltedAt    \* history: the last bar the daily loss halt was reached in

btVars == <<bar, phase, shape, todo, marks, positions, queue, cash, dayStart, halted, fates, pnl, haltedAt>>

Symbols == DOMAIN BarsOf
Timeline == UNION {BarsOf[s] : s \in Symbols}
Later(s, t) == {u \in BarsOf[s] : u > t}
NextBar(t) == Min({u \in Timeline : u > t})
Here == {s \in Symbols : bar \in BarsOf[s]}
Flat == [side |-> 0]
Held == {s \in Symbols : positions[s] # Flat}

EquityOf(c, book, m) ==
    c + SumFunction([s \in {k \in Symbols : book[k] # Flat} |-> book[s].side * book[s].qty * m[s]])
GrossOf(book, m) == SumFunction([s \in {k \in Symbols : book[k] # Flat} |-> book[s].qty * m[s]])
Breached(c, book, m) ==
    LET e == EquityOf(c, book, m)
    IN  e <= 0 \/ (dayStart > 0 /\ (e - dayStart) * 100 <= -MaxLossPercent * dayStart)
EntryFill(side, price) == price + side * Slip
ExitFill(side, price) == price - side * Slip
StopFor(side, price) == price - side * StopDistance

\* What a halt cancels.
CancelledNow(q) == {o \in q : o.kind = "entry" /\ o.due = bar}
Cancelled(q) == {o \in q : o.kind = "entry"}

\* Records what a step makes of cash, positions and orders, then
\* refresh_session_halt: the first breach cancels every queued entry, of this
\* bar and of later ones.
Post(c, book, q, log) ==
    /\ cash' = c /\ positions' = book
    /\ IF halted \/ ~Breached(c, book, marks')
       THEN queue' = q /\ fates' = log /\ UNCHANGED <<halted, haltedAt>>
       ELSE /\ halted' = TRUE /\ haltedAt' = bar
            /\ queue' = q \ Cancelled(q) /\ fates' = log \cup {<<o, "cancelled">> : o \in Cancelled(q)}

BacktestInit ==
    /\ bar = Min(Timeline) /\ phase = "open" /\ shape = <<>> /\ todo = {} /\ marks = [s \in Symbols |-> 0]
    /\ positions = [s \in Symbols |-> Flat] /\ queue = {} /\ cash = InitialCash /\ dayStart = InitialCash
    /\ halted = FALSE /\ fates = {} /\ pnl = 0 /\ haltedAt = 0

\* A new day resets the halt; opening prices are marked before any new risk.
NewDay == bar = Min(Timeline) \/ DayOf[bar] # DayOf[Max({u \in Timeline : u < bar})]

OpenBar ==
    /\ phase = "open"
    /\ shape' \in [Here -> Shapes]
    /\ marks' = [s \in Symbols |-> IF s \in Here THEN shape'[s].open ELSE marks[s]]
    /\ dayStart' = IF NewDay THEN EquityOf(cash, positions, marks) ELSE dayStart
    /\ LET e == EquityOf(cash, positions, marks')
           fresh == ~NewDay /\ halted
           breach == e <= 0 \/ (dayStart' > 0 /\ (e - dayStart') * 100 <= -MaxLossPercent * dayStart')
       IN  /\ halted' = (fresh \/ breach)
           /\ haltedAt' = IF breach /\ ~fresh THEN bar ELSE haltedAt
           /\ queue' = IF breach /\ ~fresh THEN queue \ Cancelled(queue) ELSE queue
           /\ fates' = IF breach /\ ~fresh THEN fates \cup {<<o, "cancelled">> : o \in Cancelled(queue)} ELSE fates
    /\ phase' = "openStops" /\ todo' = Held \cap Here
    /\ UNCHANGED <<bar, positions, cash, pnl>>

\* _close_position, at the exit side's fill price and with both commissions.
ClosedCash(s, price) ==
    cash + positions[s].side * positions[s].qty * ExitFill(positions[s].side, price) - positions[s].qty * Commission
TradePnl(s, price) ==
    positions[s].qty * (positions[s].side * (ExitFill(positions[s].side, price) - positions[s].entry) - 2 * Commission)
ClosePosition(s, price, q, log) ==
    /\ Post(ClosedCash(s, price), [positions EXCEPT ![s] = Flat], q, log)
    /\ pnl' = pnl + TradePnl(s, price)

Crossed(s, low, high) ==
    IF positions[s].side = 1 THEN low <= positions[s].stop ELSE high >= positions[s].stop
StopExecution(s) ==
    IF Crossed(s, shape[s].open, shape[s].open) THEN shape[s].open ELSE positions[s].stop

\* Stops already crossed at the open execute before the queued orders.
OpenStop(s) ==
    /\ phase = "openStops" /\ s \in todo
    /\ todo' = todo \ {s} /\ UNCHANGED <<bar, phase, shape, marks, dayStart>>
    /\ IF Crossed(s, shape[s].open, shape[s].open)
       THEN ClosePosition(s, shape[s].open, queue, fates)
       ELSE UNCHANGED <<positions, queue, cash, halted, fates, pnl, haltedAt>>

Due(kind) == {o \in queue : o.due = bar /\ o.kind = kind}

\* pending_orders.pop: what is due now is out of the reach of later halts.
TakeOrders ==
    /\ phase = "openStops" /\ todo = {}
    /\ phase' = "exits" /\ todo' = Due("exit") \cup Due("entry")
    /\ queue' = queue \ todo'
    /\ UNCHANGED <<bar, shape, marks, positions, cash, dayStart, halted, fates, pnl, haltedAt>>

ExitOrder(o) ==
    /\ phase = "exits" /\ o \in todo /\ o.kind = "exit"
    /\ todo' = todo \ {o} /\ UNCHANGED <<bar, phase, shape, marks, dayStart>>
    /\ IF positions[o.symbol] = Flat
       THEN /\ fates' = fates \cup {<<o, "skipped">>}
            /\ UNCHANGED <<positions, queue, cash, halted, pnl, haltedAt>>
       ELSE ClosePosition(o.symbol, shape[o.symbol].open, queue, fates \cup {<<o, "filled">>})

\* can_open_position on the equity the entry's own costs leave.
RoomFor(o, qty) ==
    LET price == shape[o.symbol].open
        fill == EntryFill(o.side, price)
        equity == EquityOf(cash, positions, marks)
        projected == equity - qty * (Slip + Commission)
    IN  /\ ~halted /\ projected > 0 /\ Cardinality(Held) < MaxOpen
        /\ ~(dayStart > 0 /\ (projected - dayStart) * 100 <= -MaxLossPercent * dayStart)
        /\ GrossOf(positions, marks) + qty * price <= Leverage * projected
        /\ o.side = 1 /\ Leverage <= 1 => qty * (fill + Commission) <= cash

EntryReady(o) ==
    phase = "exits" /\ o \in todo /\ o.kind = "entry" /\ \A p \in todo : p.kind = "entry"

FillEntry(o) ==
    /\ EntryReady(o) /\ positions[o.symbol] = Flat
    /\ todo' = todo \ {o} /\ UNCHANGED <<bar, phase, shape, marks, dayStart, pnl>>
    /\ \E qty \in Sizes :
         LET fill == EntryFill(o.side, shape[o.symbol].open) IN
         /\ RoomFor(o, qty)
         /\ Post(cash - o.side * qty * fill - qty * Commission,
                 [positions EXCEPT ![o.symbol] = [side |-> o.side, qty |-> qty, entry |-> fill, stop |-> StopFor(o.side, fill),
                                                  bars |-> 0, signal |-> o.at, since |-> bar,
                                                  lastHalt |-> haltedAt]],
                 queue, fates \cup {<<o, "filled">>})

\* Refused: a position is open, correlation or a stop budget forbids it, or
\* nothing fits.
RejectEntry(o) ==
    /\ EntryReady(o)
    /\ todo' = todo \ {o} /\ fates' = fates \cup {<<o, "rejected">>}
    /\ UNCHANGED <<bar, phase, shape, marks, positions, queue, cash, dayStart, halted, pnl, haltedAt>>

StartStops ==
    /\ phase = "exits" /\ todo = {}
    /\ phase' = "stops" /\ todo' = Held \cap Here
    /\ UNCHANGED <<bar, shape, marks, positions, queue, cash, dayStart, halted, fates, pnl, haltedAt>>

IntrabarStop(s) ==
    /\ phase = "stops" /\ s \in todo
    /\ todo' = todo \ {s} /\ UNCHANGED <<bar, phase, shape, marks, dayStart>>
    /\ IF Crossed(s, shape[s].low, shape[s].high)
       THEN ClosePosition(s, StopExecution(s), queue, fates)
       ELSE UNCHANGED <<positions, queue, cash, halted, fates, pnl, haltedAt>>

\* A trailing stop only moves with the trade.
Trailed(p, close) ==
    LET candidate == StopFor(p.side, close)
    IN  IF ~Trailing THEN p.stop
        ELSE IF p.side = 1 THEN Max({p.stop, candidate}) ELSE Min({p.stop, candidate})

CloseBar ==
    /\ phase = "stops" /\ todo = {}
    /\ marks' = [s \in Symbols |-> IF s \in Here THEN shape[s].close ELSE marks[s]]
    /\ Post(cash,
            [s \in Symbols |-> IF s \in Held \cap Here
                THEN [positions[s] EXCEPT !.bars = @ + 1, !.stop = Trailed(positions[s], shape[s].close)]
                ELSE positions[s]],
            queue, fates)
    /\ phase' = "signals" /\ todo' = {s \in Here : Later(s, bar) # {}}
    /\ UNCHANGED <<bar, shape, dayStart, pnl>>

\* What the bar's state and signal ask of the symbol's next bar.
Order(kind, s, side) == [kind |-> kind, symbol |-> s, side |-> side, at |-> bar, due |-> Min(Later(s, bar))]
Queued(kind, s) == \E o \in queue : o.kind = kind /\ o.symbol = s /\ o.due = Min(Later(s, bar))
Signal(s, side, stateChanged) ==
    LET p == positions[s]
        leaves == p # Flat /\ (stateChanged \/ p.bars >= HoldBars \/ (ExitOnFlip /\ side # p.side))
        enters == side # 0 /\ ~halted /\ (p = Flat \/ (leaves /\ side # p.side))
    IN  /\ phase = "signals" /\ s \in todo
        /\ todo' = todo \ {s}
        /\ queue' = queue \cup {o \in {Order("exit", s, 0)} : leaves /\ ~Queued("exit", s)}
                          \cup {o \in {Order("entry", s, side)} : enters /\ ~Queued("entry", s)}
        /\ UNCHANGED <<bar, phase, shape, marks, positions, cash, dayStart, halted, fates, pnl, haltedAt>>

NextBarOpens ==
    /\ phase = "signals" /\ todo = {} /\ bar # Max(Timeline)
    /\ bar' = NextBar(bar) /\ phase' = "open" /\ shape' = <<>>
    /\ UNCHANGED <<todo, marks, positions, queue, cash, dayStart, halted, fates, pnl, haltedAt>>

\* end_of_test: the last bar's positions are closed at their marks, one by one.
EndOfTest(s) ==
    /\ phase = "signals" /\ todo = {} /\ bar = Max(Timeline) /\ s \in Held
    /\ cash' = ClosedCash(s, marks[s]) /\ positions' = [positions EXCEPT ![s] = Flat]
    /\ pnl' = pnl + TradePnl(s, marks[s])
    /\ UNCHANGED <<bar, phase, shape, todo, marks, queue, dayStart, halted, fates, haltedAt>>

BacktestNext ==
    \/ OpenBar \/ TakeOrders \/ StartStops \/ CloseBar \/ NextBarOpens
    \/ \E s \in Symbols : OpenStop(s) \/ IntrabarStop(s) \/ EndOfTest(s)
    \/ \E s \in Symbols, side \in {-1, 0, 1}, changed \in BOOLEAN : Signal(s, side, changed)
    \/ \E o \in {p \in todo : phase = "exits"} : ExitOrder(o) \/ FillEntry(o) \/ RejectEntry(o)

BacktestSpec == BacktestInit /\ [][BacktestNext]_btVars

-----------------------------------------------------------------------------
BacktestTypeOK ==
    /\ bar \in Timeline /\ phase \in {"open", "openStops", "exits", "stops", "signals"}
    /\ \A s \in Symbols : marks[s] \in Nat /\ positions[s].side \in {-1, 0, 1}
    /\ \A o \in queue : o.kind \in {"entry", "exit"} /\ o.due \in BarsOf[o.symbol]
    /\ cash \in Int /\ halted \in BOOLEAN /\ haltedAt \in {0} \cup Timeline

\* A daily loss halt, wherever in a bar it strikes and whatever causes it,
\* stops every entry that was decided before it, on this bar, on later ones
\* and in later sessions; lastHalt is haltedAt as it was when the entry
\* filled.  (refresh_session_halt, cancelled pending entries)
HaltStopsQueuedEntries ==
    \A s \in Held : positions[s].signal > positions[s].lastHalt

\* Decisions only use completed bars: an entry fills at the symbol's first bar
\* after the one that signalled it.
NoLookAhead ==
    \A s \in Held : positions[s].since = Min(Later(s, positions[s].signal))

\* Cash is the initial capital plus the trades' P&L, less what the open
\* positions have taken out: costs are neither lost nor charged twice.
CashReconciles ==
    cash = InitialCash + pnl
           - SumFunction([s \in Held |-> positions[s].side * positions[s].qty * positions[s].entry
                                      + positions[s].qty * Commission])

\* Every order meets exactly one fate, and none is left when the test ends.
OrdersMeetOneFate ==
    /\ \A x, y \in fates : x[1] = y[1] => x = y
    /\ \A x \in fates : x[1] \notin queue
    /\ phase = "signals" /\ todo = {} /\ bar = Max(Timeline) => queue = {}

ReplayIsHonest == HaltStopsQueuedEntries /\ NoLookAhead /\ CashReconciles /\ OrdersMeetOneFate
=============================================================================
