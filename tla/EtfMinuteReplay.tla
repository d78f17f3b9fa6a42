-------------------------- MODULE EtfMinuteReplay --------------------------
(***************************************************************************)
(* _run_etf_replay (backtest/engine.py): the continuous replay of the ETF  *)
(* universe over minute bars, for a mean-reversion ("MR") or a momentum    *)
(* ("MOM") specification.  A minute is three steps: its open with the      *)
(* exits, the entries one at a time, its barriers and close.  Signals are  *)
(* any signal; a candidate's score only orders the entries, so any order   *)
(* is allowed.  Prices are small integers, impact and commission amounts   *)
(* per share.  Validation of the inputs is an assumption; the decision     *)
(* log and the metrics are left out.                                       *)
(***************************************************************************)
EXTENDS Integers, FiniteSets, FiniteSetsExt, Functions

CONSTANTS Etfs, EquityCluster,
          ExcludedEtfs,            \* excluded_symbols: observed, never entered
          EntrySessions,           \* entry_dates
          MinutesPerSession, Sessions,
          ExecutionStart, Cutoff,  \* minutes of a session
          ExecutionDelay,          \* execution_delay_minutes
          Horizon,                 \* minutes a mean-reversion trade lasts
          HoldSessions,            \* sessions a momentum trade lasts: 5
          EtfShapes,               \* symbol -> possible bars: [open, low, high, close]
          EtfCapital, Impact, Fee, Overhead,
          StopGap, TargetGap,      \* distances of stop and target at the entry
          Gross, Name, ClusterCap, TradeRisk, BookRisk,  \* limits, per mille of equity
          DrawdownHalt, DailyHalt, \* per mille
          Events                   \* corporate actions: [at, symbol, ratio, dividend, pay]

ASSUME EtfAssumption ==
    /\ {MinutesPerSession, Sessions, HoldSessions, EtfCapital} \subseteq Nat \ {0}
    /\ {ExecutionDelay, Horizon, Impact, Fee, Overhead, StopGap, TargetGap} \subseteq Nat
    /\ Cutoff \in 1..MinutesPerSession /\ IsFiniteSet(Etfs) /\ IsFiniteSet(Events) /\ DOMAIN EtfShapes = Etfs
    /\ \A s \in Etfs : \A b \in EtfShapes[s] : b \in [open : Nat, low : Nat, high : Nat, close : Nat] /\ b.low > 0
    /\ \A s \in Etfs : \A b \in EtfShapes[s] : b.low <= Min({b.open, b.close}) /\ b.high >= Max({b.open, b.close})
    /\ \A e \in Events : {e.at, e.ratio, e.dividend, e.pay} \subseteq Nat
    /\ \A e \in Events : e.ratio > 0 /\ e.dividend >= 0 /\ (e.pay = 0 \/ e.pay >= e.at)
    /\ \A e, f \in Events : e.symbol = f.symbol /\ e.at = f.at => e = f

VARIABLES family,
          session, minute, stage,
          rows,        \* the bars of this minute, by symbol
          candidates,  \* symbols the entry loop has yet to handle
          signals,     \* momentum: per symbol, what its daily history says
          pending,     \* mean reversion: symbol -> minute the entry is due
          entered,     \* symbols held at some time of this session
          holdings,    \* symbol -> the open position
          etfMarks, etfCash,
          claims,      \* dividend_receivables
          etfRealized, etfOverhead, peak, previousClose,
          dailyHalt, drawdownHalt,
          valuationValid,
          haltSince    \* history: the minute the present halts began, 0 if none

etfVars == <<family, session, minute, stage, rows, candidates, signals, pending, entered, holdings, etfMarks,
             etfCash, claims, etfRealized, etfOverhead, peak, previousClose, dailyHalt, drawdownHalt,
             valuationValid, haltSince>>

Now == (session - 1) * MinutesPerSession + minute
EtfEquity(c, book, prices, owed) ==
    c + SumFunction([s \in DOMAIN book |-> book[s].qty * prices[s]]) + SumFunction([k \in owed |-> k.amount])
StopRisk(qty, mark, stop) == qty * Max({mark - Min({mark, stop}) + Impact + Fee, 0})
Without(book, S) == [s \in DOMAIN book \ S |-> book[s]]
With(f, s, value) == [x \in DOMAIN f \cup {s} |-> IF x = s THEN value ELSE f[x]]

\* close() for several positions, each at its own raw price.
Proceeds(book, S, raw) == SumFunction([s \in S |-> book[s].qty * (raw[s] - Impact - Fee)])
Gains(book, S, raw) ==
    SumFunction([s \in S |-> book[s].qty * (raw[s] - Impact - Fee) - book[s].basis + book[s].dividends])

\* halt_check: overhead is added back, so it never causes a halt.
HighOf(high, equity) == Max({high, equity + etfOverhead})
DrawdownReached(high, equity) ==
    (equity + etfOverhead) * 1000 <= HighOf(high, equity) * (1000 - DrawdownHalt)
DailyReached(equity) == (equity + etfOverhead) * 1000 <= previousClose * (1000 - DailyHalt)

EtfInit ==
    /\ family = "none" /\ session = 0 /\ minute = 0 /\ stage = "configure"
    /\ rows = <<>> /\ candidates = {} /\ signals = <<>> /\ pending = <<>> /\ entered = {}
    /\ holdings = <<>> /\ etfMarks = [s \in Etfs |-> 0] /\ etfCash = EtfCapital /\ claims = {}
    /\ etfRealized = 0 /\ etfOverhead = 0 /\ peak = EtfCapital /\ previousClose = EtfCapital
    /\ dailyHalt = FALSE /\ drawdownHalt = FALSE /\ valuationValid = TRUE /\ haltSince = 0

Configure(f) ==
    /\ stage = "configure" /\ family' = f /\ stage' = "session"
    /\ UNCHANGED <<session, minute, rows, candidates, signals, pending, entered, holdings, etfMarks, etfCash, claims,
                   etfRealized, etfOverhead, peak, previousClose, dailyHalt, drawdownHalt, valuationValid, haltSince>>

\* The daily halt, the pending entries and the entered symbols of a session
\* end with it; the day's overhead is charged.  Only a history that ends at the
\* previous session gives a momentum signal.
StartSession ==
    /\ stage = "session" /\ session < Sessions
    /\ session' = session + 1 /\ minute' = 1 /\ stage' = "open"
    /\ dailyHalt' = FALSE /\ entered' = {} /\ pending' = <<>>
    /\ haltSince' = IF drawdownHalt THEN haltSince ELSE 0
    /\ etfCash' = etfCash - Overhead /\ etfOverhead' = etfOverhead + Overhead
    /\ signals' \in IF family = "MOM" THEN [Etfs -> {"eligible", "nonpositive_momentum", "other"}] ELSE {<<>>}
    /\ UNCHANGED <<family, rows, candidates, holdings, etfMarks, claims, etfRealized, peak, previousClose,
                   drawdownHalt, valuationValid>>

\* A split keeps a position's value; a distribution is owed to who holds the
\* shares now, per share after the split, and stays owed when they are sold.
Today == {e \in Events : e.at = Now /\ e.symbol \in DOMAIN holdings}
RatioOf(s) == IF \E e \in Today : e.symbol = s THEN (CHOOSE e \in Today : e.symbol = s).ratio ELSE 1
CreditOf(s) ==
    IF \E e \in Today : e.symbol = s
    THEN LET e == CHOOSE x \in Today : x.symbol = s IN holdings[s].qty * e.ratio * e.dividend
    ELSE 0
Adjusted ==
    [s \in DOMAIN holdings |->
        [holdings[s] EXCEPT !.qty = @ * RatioOf(s), !.stop = @ \div RatioOf(s),
                            !.target = @ \div RatioOf(s), !.dividends = @ + CreditOf(s)]]
Entitled == claims \cup {[event |-> e, amount |-> CreditOf(e.symbol)] : e \in {x \in Today : CreditOf(x.symbol) > 0}}
Payable == {k \in Entitled : k.event.pay # 0 /\ k.event.pay <= Now}

\* A night is longer than the horizon, which is one of the clock.
MustLeave(s, book, open, stopped, drawdown) ==
    LET p == book[s]
    IN  \/ open <= p.stop \/ stopped
        \/ family = "MR" /\ (minute >= Cutoff \/ session # p.session \/ Now - p.since >= Horizon)
        \/ family = "MOM" /\ \/ session - p.session >= HoldSessions
                             \/ minute >= Cutoff /\ session - p.session >= HoldSessions - 1
                             \/ minute >= ExecutionStart /\ signals[s] = "nonpositive_momentum"

\* A mean-reversion entry is only executed in its very minute, on a present
\* bar and, when execution is delayed, if the signal still stands.
Ready(revalidated) ==
    IF family = "MOM"
    THEN IF minute \in ExecutionStart..(Cutoff - 1) THEN {s \in Etfs \ ExcludedEtfs : signals[s] = "eligible"} ELSE {}
    ELSE {s \in DOMAIN pending : pending[s] = Now /\ (ExecutionDelay = 0 \/ s \in revalidated)}

OpenMinute(present, revalidated) ==
    /\ stage = "open"
    /\ rows' \in {r \in [present -> UNION {EtfShapes[s] : s \in Etfs}] : \A s \in present : r[s] \in EtfShapes[s]}
    /\ family = "MOM" \/ ExecutionDelay = 0 => revalidated = {}
    /\ valuationValid' = (valuationValid /\ DOMAIN holdings \subseteq present)
    /\ LET book == Adjusted
           owed == Entitled \ Payable
           cash == etfCash + SumFunction([k \in Payable |-> k.amount])
           prices == [s \in Etfs |-> IF s \in present THEN rows'[s].open
                                     ELSE IF s \in DOMAIN book THEN etfMarks[s] \div RatioOf(s) ELSE etfMarks[s]]
           before == EtfEquity(cash, book, prices, owed)
           raised == HighOf(peak, before)
           drawdown == drawdownHalt \/ DrawdownReached(peak, before)
           daily == dailyHalt \/ DailyReached(before)
           leaving == {s \in DOMAIN book \cap present : MustLeave(s, book, rows'[s].open, drawdown \/ daily, drawdown)}
           paidOut == cash + Proceeds(book, leaving, [s \in leaving |-> rows'[s].open])
           after == EtfEquity(paidOut, Without(book, leaving), prices, owed)
       IN  /\ holdings' = Without(book, leaving) /\ etfCash' = paidOut /\ claims' = owed /\ etfMarks' = prices
           /\ etfRealized' = etfRealized + Gains(book, leaving, [s \in leaving |-> rows'[s].open])
           /\ entered' = entered \cup leaving
           /\ peak' = HighOf(raised, after)
           /\ drawdownHalt' = (drawdown \/ DrawdownReached(raised, after))
           /\ dailyHalt' = (daily \/ DailyReached(after))
           /\ haltSince' = IF haltSince = 0 /\ (drawdownHalt' \/ dailyHalt') THEN Now ELSE haltSince
           /\ candidates' = (Ready(revalidated) \cap present) \ (DOMAIN holdings' \cup entered')
           /\ pending' = [s \in {x \in DOMAIN pending : pending[x] > Now} |-> pending[s]]
    /\ stage' = "entries"
    /\ UNCHANGED <<family, session, minute, signals, etfOverhead, previousClose>>

\* Every limit at once, on the equity the entry's own costs leave.
Affordable(s, qty) ==
    LET raw == rows[s].open
        equity == EtfEquity(etfCash, holdings, etfMarks, claims)
        left == equity - qty * (Impact + Fee)
        stop == Min({raw + Impact - StopGap, raw})
        loss == StopRisk(qty, raw, stop) + qty * (Impact + Fee)
        value == SumFunction([k \in DOMAIN holdings |-> holdings[k].qty * etfMarks[k]])
        cluster == SumFunction([k \in DOMAIN holdings \cap EquityCluster |-> holdings[k].qty * etfMarks[k]])
        risk == SumFunction([k \in DOMAIN holdings |-> StopRisk(holdings[k].qty, etfMarks[k], holdings[k].stop)])
    IN  /\ qty * (raw + Impact + Fee) <= etfCash
        /\ loss * 1000 <= TradeRisk * equity
        /\ (risk + loss) * 1000 <= BookRisk * left
        /\ (value + qty * raw) * 1000 <= Gross * left
        /\ qty * raw * 1000 <= Name * left
        /\ s \in EquityCluster => (cluster + qty * raw) * 1000 <= ClusterCap * left

\* No entry in a halt, after the cutoff, or while a held position has no bar.
Enter(s) ==
    /\ stage = "entries" /\ s \in candidates
    /\ candidates' = candidates \ {s}
    /\ LET raw == rows[s].open
           price == raw + Impact
           sizes == {q \in 1..(etfCash \div raw) : Affordable(s, q)}
       IN  IF \/ drawdownHalt \/ dailyHalt \/ minute >= Cutoff \/ session \notin EntrySessions
              \/ ~(DOMAIN holdings \subseteq DOMAIN rows)
              \/ StopGap <= 0 \/ StopGap >= price \/ (family = "MR" /\ TargetGap <= Impact)
              \/ sizes = {} \/ Cardinality(DOMAIN holdings) >= 5
           THEN UNCHANGED <<entered, holdings, etfCash>>
           ELSE /\ etfCash' = etfCash - Max(sizes) * (price + Fee)
                /\ holdings' = With(holdings, s,
                       [qty |-> Max(sizes), basis |-> Max(sizes) * (price + Fee), dividends |-> 0,
                        stop |-> price - StopGap, target |-> IF family = "MR" THEN raw + TargetGap ELSE 0,
                        since |-> Now, session |-> session])
                /\ entered' = entered \cup {s}
    /\ UNCHANGED <<family, session, minute, stage, rows, signals, pending, etfMarks, claims, etfRealized, etfOverhead,
                   peak, previousClose, dailyHalt, drawdownHalt, valuationValid, haltSince>>

\* A bar that touches both barriers hits the stop.
StopHit(s) == rows[s].low <= holdings[s].stop
TargetHit(s) == ~StopHit(s) /\ holdings[s].target # 0 /\ rows[s].high >= holdings[s].target
BarrierPrice(s) == IF StopHit(s) THEN Min({rows[s].open, holdings[s].stop}) ELSE holdings[s].target

CloseMinute(eligible) ==
    /\ family = "MOM" => eligible = {}
    /\ stage = "entries" /\ candidates = {}
    /\ LET leaving == {s \in DOMAIN holdings \cap DOMAIN rows : StopHit(s) \/ TargetHit(s)}
           cash == etfCash + Proceeds(holdings, leaving, [s \in leaving |-> BarrierPrice(s)])
           prices == [s \in Etfs |-> IF s \in DOMAIN rows THEN rows[s].close ELSE etfMarks[s]]
           equity == EtfEquity(cash, Without(holdings, leaving), prices, claims)
           fresh == IF family = "MR" /\ minute + 1 < Cutoff
                    THEN (eligible \cap DOMAIN rows)
                             \ (ExcludedEtfs \cup entered \cup DOMAIN holdings \cup leaving \cup DOMAIN pending)
                    ELSE {}
       IN  /\ holdings' = Without(holdings, leaving) /\ etfCash' = cash /\ etfMarks' = prices
           /\ etfRealized' = etfRealized + Gains(holdings, leaving, [s \in leaving |-> BarrierPrice(s)])
           /\ entered' = entered \cup leaving
           /\ peak' = HighOf(peak, equity)
           /\ drawdownHalt' = (drawdownHalt \/ DrawdownReached(peak, equity))
           /\ dailyHalt' = (dailyHalt \/ DailyReached(equity))
           /\ haltSince' = IF haltSince = 0 /\ (drawdownHalt' \/ dailyHalt') THEN Now ELSE haltSince
           /\ pending' = [s \in DOMAIN pending \cup fresh |->
                             IF s \in fresh THEN Now + 1 + ExecutionDelay ELSE pending[s]]
           /\ IF minute < MinutesPerSession
              THEN minute' = minute + 1 /\ stage' = "open" /\ UNCHANGED previousClose
              ELSE stage' = "session" /\ previousClose' = equity + etfOverhead /\ UNCHANGED minute
    /\ rows' = <<>>
    /\ UNCHANGED <<family, session, candidates, signals, claims, etfOverhead, valuationValid>>

EtfNext ==
    \/ \E f \in {"MR", "MOM"} : Configure(f)
    \/ StartSession
    \/ \E present, revalidated \in SUBSET Etfs : OpenMinute(present, revalidated)
    \/ \E s \in Etfs : Enter(s)
    \/ \E eligible \in SUBSET Etfs : CloseMinute(eligible)

EtfSpec == EtfInit /\ [][EtfNext]_etfVars

-----------------------------------------------------------------------------
EtfTypeOK ==
    /\ stage \in {"configure", "session", "open", "entries"} /\ session \in 0..Sessions /\ minute \in 0..MinutesPerSession
    /\ DOMAIN holdings \subseteq Etfs /\ \A s \in DOMAIN holdings : holdings[s].qty > 0
    /\ {dailyHalt, drawdownHalt, valuationValid} \subseteq BOOLEAN /\ \A k \in claims : k.amount > 0

\* The identity the replay asserts when it ends holds after every step: a
\* dividend counts once, whether it is owed or paid, whether
\* its shares are held or sold, and every cost is charged once.
EquityIsContributions ==
    EtfEquity(etfCash, holdings, etfMarks, claims) - EtfCapital
        = etfRealized - etfOverhead
          + SumFunction([s \in DOMAIN holdings |-> holdings[s].qty * etfMarks[s] - holdings[s].basis + holdings[s].dividends])

\* A halt of an earlier minute has left no position that has a bar: none is
\* kept, and none is opened beside the exits.
HaltsFlatten ==
    stage = "entries" /\ haltSince \notin {0, Now} => DOMAIN holdings \cap DOMAIN rows = {}

\* A mean-reversion position survives its session only if a missing bar has
\* already marked the valuation as unusable.
OvernightIsFlagged ==
    family = "MR" /\ stage = "session" /\ valuationValid => holdings = <<>>

MinuteReplayIsSound == EquityIsContributions /\ HaltsFlatten /\ OvernightIsFlagged
=============================================================================
