-------------------------- MODULE ResearchSignals --------------------------
(***************************************************************************)
(* The decisions of the frozen research tracks: the daily signals          *)
(* (research/phase3_daily.py decide_signal, recorded by                    *)
(* phase3_recording.py), the weekly option trend and the search for an     *)
(* option exit (phase3_options.py).  Evidence arrives at its receipt time: *)
(* completed bars and their revisions, option and underlying quotes whose  *)
(* event may be older than one received before.  A day has three moments:  *)
(* 0 the data cutoff and option decision, 1 the session, 2 the close;      *)
(* crypto decides at the cutoff alone.  A quote is valid while it is at    *)
(* most QuoteAge moments old; its sizes and spread are one flag.           *)
(***************************************************************************)
EXTENDS Integers, FiniteSets, FiniteSetsExt

CONSTANTS Tracks,      \* subset of {"equities", "crypto"}
          Closes,      \* closing prices
          LastDay, Lookback, ExitLookback, WeekLength,
          QuoteAge,
          QuoteDays, MaxBars, MaxQuotes   \* bounds: quotes come on these days, and when no bar did

ASSUME SignalAssumption ==
    /\ Tracks \subseteq {"equities", "crypto"} /\ Closes \subseteq Nat \ {0}
    /\ {LastDay, Lookback, ExitLookback, WeekLength} \subseteq Nat \ {0} /\ {QuoteAge, MaxBars, MaxQuotes} \subseteq Nat
    /\ ExitLookback < Lookback

VARIABLES moment,     \* now
          bars,       \* received bars: [day, close, at]
          optionQuotes,     \* received quotes: [feed, event, at, sound]
          decided     \* every decision taken: what was asked, when and the outcome

signalVars == <<moment, bars, optionQuotes, decided>>

SignalDays == 1..LastDay
CutoffOf(day) == 3 * day
CloseOf(day) == 3 * day + 2
WeekOf(day) == day \div WeekLength
SignalInit == moment = CutoffOf(1) /\ bars = {} /\ optionQuotes = {} /\ decided = {}

-----------------------------------------------------------------------------
\* The bars of the expected days received by a moment; two of one day are
\* ambiguous, one received before its close was never complete.
Eligible(received, days, at) == {b \in received : b.day \in days /\ b.at <= at}
Ambiguous(eligible) == \E b, c \in eligible : b # c /\ b.day = c.day
Incomplete(eligible) == \E b \in eligible : b.at < CloseOf(b.day)
CloseIn(eligible, day) == (CHOOSE b \in eligible : b.day = day).close
Average(eligible, days) == MapThenSumSet(LAMBDA d : CloseIn(eligible, d), days)

\* decide_signal for a day, over its completed and available prefix.
Window(track, day, now) ==
    now >= CloseOf(day) /\ now <= CutoffOf(day + 1) /\ (track = "crypto" => now = CutoffOf(day + 1))
EntersOn(track, eligible, days, day) ==
    IF track = "equities" THEN \A d \in days \ {day} : CloseIn(eligible, day) > CloseIn(eligible, d)
    ELSE CloseIn(eligible, day) * Cardinality(days) > Average(eligible, days)
ExitsOn(track, eligible, days, day) ==
    IF track = "equities" THEN \A d \in (day - ExitLookback)..(day - 1) : CloseIn(eligible, day) < CloseIn(eligible, d)
    ELSE ~EntersOn(track, eligible, days, day)
DecideSignal(received, track, day, now, held, pending) ==
    LET days == (day - Lookback + 1)..day
        eligible == Eligible(received, days, now)
    IN  IF pending THEN "exit"
        ELSE IF ~Window(track, day, now) \/ day < Lookback THEN "skip"
        ELSE IF Ambiguous(eligible) \/ Incomplete(eligible) THEN "refused"
        ELSE IF \E d \in days : \A b \in eligible : b.day # d THEN "skip"
        ELSE IF held THEN IF ExitsOn(track, eligible, days, day) THEN "exit" ELSE "hold"
        ELSE IF EntersOn(track, eligible, days, day) THEN "enter" ELSE "flat"

\* weekly_trend: only the first session of a week, against the average of the
\* whole warm-up.
WeeklyTrend(received, day) ==
    LET days == (day - Lookback)..(day - 1)
        eligible == Eligible(received, days, CutoffOf(day))
    IN  IF day > 1 /\ WeekOf(day - 1) = WeekOf(day) THEN "none"
        ELSE IF \/ day <= Lookback \/ Ambiguous(eligible) \/ Incomplete(eligible)
                \/ \E d \in days : \A b \in eligible : b.day # d
             THEN "unknown"
             ELSE IF CloseIn(eligible, day - 1) * Lookback > Average(eligible, days) THEN "up" ELSE "failed"

-----------------------------------------------------------------------------
\* _latest: the newest event received by then, not the newest receipt.
Latest(received, feed, at) ==
    LET known == {q \in received : q.feed = feed /\ q.at <= at}
    IN  {q \in known : \A p \in known : <<p.event, p.at>> = <<q.event, q.at>> \/ p.event < q.event
                                        \/ (p.event = q.event /\ p.at < q.at)}
ValidQuote(received, feed, at) == \E q \in Latest(received, feed, at) : q.sound /\ at - q.event <= QuoteAge

\* plan_exit for a position with a reason to leave: the first moment of the
\* session at which both quotes are valid.
ExitReason(received, day, pending, dueDay) ==
    IF pending THEN "pending" ELSE IF day >= dueDay THEN "holding_session_limit"
    ELSE CASE WeeklyTrend(received, day) = "unknown" -> "evidence_missing"
           [] WeeklyTrend(received, day) = "failed" -> "weekly_trend_failed"
           [] OTHER -> "no_exit_signal"
Observations(received, day) == {CutoffOf(day)} \cup {q.at : q \in {p \in received : p.at \in CutoffOf(day)..CloseOf(day)}}
PlanExit(receivedBars, received, day, pending, dueDay) ==
    LET reason == ExitReason(receivedBars, day, pending, dueDay)
        usable == {at \in Observations(received, day) :
                      ValidQuote(received, "option", at) /\ ValidQuote(received, "underlying", at)}
    IN  IF reason \in {"evidence_missing", "no_exit_signal"} THEN [action |-> "hold", reason |-> reason, at |-> -1]
        ELSE IF usable = {} THEN [action |-> "pending_exit", reason |-> reason, at |-> -1]
        ELSE [action |-> "exit_candidate", reason |-> reason, at |-> Min(usable)]

-----------------------------------------------------------------------------
\* Evidence has its own receipt time: what a decision may use was received before
\* it is taken, and one feed gives one quote a moment.
SignalDay == moment \div 3
MayReceive == \A d \in decided : d.at < moment
ReceiveBar(day, close) ==
    /\ MayReceive /\ day <= SignalDay /\ bars' = bars \cup {[day |-> day, close |-> close, at |-> moment]}
    /\ UNCHANGED <<moment, optionQuotes, decided>>
ReceiveQuote(feed, event, sound) ==
    /\ MayReceive /\ event <= moment /\ \A q \in optionQuotes : q.feed = feed => q.at < moment
    /\ optionQuotes' = optionQuotes \cup {[feed |-> feed, event |-> event, at |-> moment, sound |-> sound]}
    /\ UNCHANGED <<moment, bars, decided>>

\* record_daily_snapshot stores the decision with the evidence it had; the
\* bundle may hold no bar received after it, and needs at least one.
RecordSignal(track, day, held, pending) ==
    LET outcome == DecideSignal(bars, track, day, moment, held, pending) IN
    /\ bars # {} /\ outcome # "refused" /\ (pending => held) /\ (pending \/ Window(track, day, moment))
    /\ decided' = decided \cup {[of |-> "signal", track |-> track, day |-> day, at |-> moment, held |-> held,
                                 pending |-> pending, outcome |-> outcome]}
    /\ UNCHANGED <<moment, bars, optionQuotes>>
RecordExit(pending, dueDay) ==
    /\ decided' = decided \cup {[of |-> "exit", day |-> SignalDay, at |-> moment, pending |-> pending, due |-> dueDay,
                                 outcome |-> PlanExit(bars, optionQuotes, SignalDay, pending, dueDay)]}
    /\ UNCHANGED <<moment, bars, optionQuotes>>
Wait == moment < CloseOf(LastDay) /\ moment' = moment + 1 /\ UNCHANGED <<bars, optionQuotes, decided>>

SignalNext ==
    \/ Wait
    \/ /\ Cardinality(bars) < MaxBars /\ optionQuotes = {}
       /\ \E day \in SignalDays, close \in Closes : ReceiveBar(day, close)
    \/ /\ Cardinality(optionQuotes) < MaxQuotes /\ bars = {} /\ SignalDay \in QuoteDays
       /\ \E feed \in {"option", "underlying"}, event \in (moment - QuoteAge - 1)..moment, sound \in BOOLEAN :
              ReceiveQuote(feed, event, sound)
    \/ /\ decided = {}
       /\ \/ \E track \in Tracks, day \in SignalDays, held, pending \in BOOLEAN : RecordSignal(track, day, held, pending)
          \/ \E pending \in BOOLEAN, due \in {SignalDay, LastDay + 1} : RecordExit(pending, due)
SignalSpec == SignalInit /\ [][SignalNext]_signalVars

-----------------------------------------------------------------------------
SignalTypeOK ==
    /\ moment \in CutoffOf(1)..CloseOf(LastDay) /\ \A b \in bars : b.day \in SignalDays /\ b.close \in Closes
    /\ Cardinality(bars) <= MaxBars /\ Cardinality(optionQuotes) <= MaxQuotes

Asked(kind) == {d \in decided : d.of = kind}

\* Deciding again later, with every bar and revision received meanwhile, gives
\* what was decided then ("Later bars/revisions do not affect this decision",
\* phase3_daily.py:110); only a held position exits and only a flat one enters.
SignalsAreCausal ==
    \A d \in Asked("signal") :
        /\ DecideSignal(bars, d.track, d.day, d.at, d.held, d.pending) = d.outcome
        /\ d.outcome \in {"exit", "hold"} => d.held
        /\ d.outcome = "enter" => ~d.held /\ d.at <= CutoffOf(d.day + 1) /\ d.at >= CloseOf(d.day)

\* An exit once found stays where it was found, whatever is received later, in
\* whatever order of events; one not found can only be found later.
ExitsAreCausal ==
    \A d \in Asked("exit") :
        LET again == PlanExit(bars, optionQuotes, d.day, d.pending, d.due)
        IN  /\ d.outcome.action = "exit_candidate" => again = d.outcome
            /\ d.outcome.action = "pending_exit" =>
                  again = d.outcome \/ (again.action = "exit_candidate" /\ again.at >= d.at)
            /\ d.outcome.action = "hold" => again = d.outcome
            /\ d.pending => again.action # "hold"

SignalsAreSound == SignalsAreCausal /\ ExitsAreCausal
=============================================================================
