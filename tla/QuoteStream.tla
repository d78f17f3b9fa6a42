----------------------------- MODULE QuoteStream -----------------------------
(***************************************************************************)
(* The market data stream (data/plus_stream.py) and the service that owns  *)
(* its connection (scripts/plus_stream_service.py): handshake, latest bars *)
(* and quotes, the two published files, retries, and restarts that read    *)
(* the saved observations before they hold the lock.  Time is in minutes;  *)
(* prices and the numeric checks on them are one flag of a row.            *)
(***************************************************************************)
EXTENDS Integers, FiniteSets, SequencesExt, FiniteSetsExt

CONSTANTS Feeds,           \* of {"sip", "opra"}
          Selections,      \* quote selections; "sip" always uses FixedSelection
          FixedSelection,
          StreamRows,      \* what the provider may send: channel, symbol, stamp, sound
          MaxBars,         \* max_bar_symbols
          BackoffCap,      \* longest wait
          MaxMinute, MaxConnections, MaxStarts      \* bounds of the model

ASSUME StreamAssumption ==
    /\ Feeds \subseteq {"sip", "opra"}
    /\ \A selection \in Selections \cup {FixedSelection} : IsFiniteSet(selection)
    /\ \A r \in StreamRows : r.channel \in {"bars", "quotes"} /\ r.stamp \in Int
    /\ MaxBars \in Nat \ {0} /\ BackoffCap \in Nat \ {0} /\ MaxMinute \in Nat

\* connection counts every connection ever made: what a record was really
\* received on, where the code only knows its generation.
VARIABLES memory,          \* the StreamState of the running process
          service,         \* down, trying, session, waiting
          sentRequests,    \* subscriptions sent on this connection
          backoff, began,
          newcomer,        \* memory of a process that has not taken the lock yet
          latest, status,  \* the published files
          minute, connection, starts

streamVars == <<memory, service, sentRequests, backoff, began, newcomer, latest, status, minute, connection, starts>>

Fresh0 == [feed |-> "sip", selection |-> FixedSelection, bars |-> <<>>, quotes |-> <<>>, generation |-> 0,
           connected |-> FALSE, authenticated |-> FALSE, subscribed |-> FALSE, error |-> "none"]
Cap(channel) == IF channel = "bars" THEN MaxBars ELSE 1000
FreshFor(channel) == IF channel = "bars" THEN 3 ELSE 1

-----------------------------------------------------------------------------
(* StreamState. *)

\* A symbol has one row in a store; a new one goes to the end, the oldest goes
\* when there are too many.
Without(store, s) == RemoveFirstMatch(store, LAMBDA r : r.symbol = s)
PutRow(store, record, cap) ==
    LET moved == Append(Without(store, record.symbol), record)
    IN  IF Len(moved) > cap THEN Tail(moved) ELSE moved
\* The rows of the given symbols, in their order.
OnlyOf(store, symbols) ==
    LET kept[i \in 0 .. Len(store)] ==
            IF i = 0 THEN <<>>
            ELSE IF store[i].symbol \in symbols THEN Append(kept[i - 1], store[i]) ELSE kept[i - 1]
    IN  kept[Len(store)]
\* What a row must be to be kept at the given time.
Admissible(m, row, at) ==
    /\ m.authenticated /\ m.subscribed /\ row.sound /\ row.stamp <= at
    /\ row.channel = "bars" => m.feed = "sip" /\ row.stamp + 1 <= at
    /\ row.channel = "quotes" => row.symbol \in m.selection
InOrder(store, row) == \A r \in Range(store) : r.symbol = row.symbol => r.stamp <= row.stamp
Admit(m, row, at, on) ==
    IF Admissible(m, row, at) /\ InOrder(m[row.channel], row)
    THEN [m EXCEPT ![row.channel] =
             PutRow(m[row.channel], [symbol |-> row.symbol, stamp |-> row.stamp, generation |-> m.generation, on |-> on],
                 Cap(row.channel))]
    ELSE m
\* restore: every saved row as if received then, on no connection; the last ones
\* when there are more than fit.
RestoreRows(m, channel, rows) ==
    LET limit == IF channel = "bars" THEN MaxBars ELSE Cardinality(m.selection)
        kept == SubSeq(rows, Max({1, Len(rows) - limit + 1}), Len(rows))
        restored[i \in 0 .. Len(kept)] ==
            IF i = 0 THEN [m EXCEPT !.authenticated = TRUE, !.subscribed = TRUE]
            ELSE Admit(restored[i - 1], [channel |-> channel, symbol |-> kept[i].symbol, stamp |-> kept[i].stamp, sound |-> TRUE],
                       MaxMinute + 1, kept[i].on)
    IN  [restored[Len(kept)] EXCEPT !.authenticated = FALSE, !.subscribed = FALSE]
Restore(m, file) ==
    IF file = <<>> \/ file[1].feed # m.feed THEN m
    ELSE RestoreRows(RestoreRows(m, "bars", file[1].bars), "quotes", file[1].quotes)

CurrentAnyGeneration(m, r) == m.connected /\ m.authenticated /\ m.subscribed
Current(m, r) == r.generation = m.generation /\ m.connected /\ m.authenticated /\ m.subscribed
Label(m, channel, r) ==
    IF ~Current(m, r) THEN "retained_previous_session"
    ELSE IF minute - r.stamp \in 0 .. FreshFor(channel) THEN "fresh" ELSE "stale"
Labelled(m, channel) ==
    [i \in DOMAIN m[channel] |-> [symbol |-> m[channel][i].symbol, stamp |-> m[channel][i].stamp,
                                  on |-> m[channel][i].on, state |-> Label(m, channel, m[channel][i])]]
AnyFresh(m) == \E c \in {"bars", "quotes"} : \E r \in Range(Labelled(m, c)) : r.state = "fresh"
StatusOf(m) ==
    IF m.error # "none" THEN "degraded"
    ELSE IF m.subscribed THEN IF AnyFresh(m) THEN "streaming" ELSE "subscribed_idle"
    ELSE IF m.connected THEN "authenticating" ELSE "disconnected"

-----------------------------------------------------------------------------
(* publish: the observations, then the status; a full disk leaves the       *)
(* observations as they were.                                               *)

LatestOf(m) == <<[feed |-> m.feed, bars |-> Labelled(m, "bars"), quotes |-> Labelled(m, "quotes"),
                  at |-> minute, during |-> connection, live |-> m.subscribed]>>
StatusFile(s) == <<[status |-> s, at |-> minute]>>
PublishStream(m, s) == latest' = LatestOf(m) /\ status' = StatusFile(s)
DiskFull == UNCHANGED latest /\ status' = StatusFile("degraded")
NothingPublished == UNCHANGED <<latest, status>>

BeginConnection(m) ==
    [m EXCEPT !.generation = @ + 1, !.connected = TRUE, !.authenticated = FALSE, !.subscribed = FALSE, !.error = "none"]
Disconnected(m, reason) ==
    [m EXCEPT !.connected = FALSE, !.authenticated = FALSE, !.subscribed = FALSE, !.error = reason]

\* The handler of a failed attempt, and how long the next one will be waited for.
Fail(m, reason) ==
    /\ memory' = Disconnected(m, reason) /\ service' = "waiting"
    /\ \E sustained \in {FALSE, minute > began} : backoff' = Min({BackoffCap, 2 * IF sustained THEN 1 ELSE backoff})
Exit == memory' = Fresh0 /\ service' = "down" /\ backoff' = 1

StreamInit ==
    /\ memory = Fresh0 /\ service = "down" /\ sentRequests = 0 /\ backoff = 1 /\ began = 0
    /\ newcomer = <<>> /\ latest = <<>> /\ status = <<>> /\ minute = 0 /\ connection = 0 /\ starts = 0

\* main: selection and saved observations are read, then the lock is tried.
StartService(feed, selection) ==
    /\ newcomer = <<>> /\ starts < MaxStarts /\ starts' = starts + 1
    /\ feed = "sip" => selection = FixedSelection
    /\ newcomer' = <<Restore([Fresh0 EXCEPT !.feed = feed, !.selection = selection], latest)>>
    /\ UNCHANGED <<memory, service, sentRequests, backoff, began, latest, status, minute, connection>>
TakeLock ==
    /\ newcomer # <<>> /\ newcomer' = <<>>
    /\ IF service = "down" THEN memory' = newcomer[1] /\ service' = "trying" ELSE UNCHANGED <<memory, service>>
    /\ UNCHANGED <<sentRequests, backoff, began, latest, status, minute, connection, starts>>

\* One attempt up to the first flush of its session; options are selected anew.
Connect(selection) ==
    LET chosen == [memory EXCEPT !.selection = selection,
                                 !.quotes = OnlyOf(memory.quotes, selection)]
    IN  /\ service = "trying" /\ connection < MaxConnections
        /\ memory.feed = "sip" => selection = memory.selection
        /\ connection' = connection + 1 /\ sentRequests' = 0 /\ began' = minute
        /\ memory' = BeginConnection(chosen) /\ service' = "session"
        /\ latest' = <<[LatestOf(BeginConnection(chosen))[1] EXCEPT !.during = connection + 1]>>
        /\ status' = StatusFile("authenticating")
        /\ UNCHANGED <<backoff, newcomer, minute, starts>>
\* An attempt that hangs for a minute before it fails resets the backoff as well.
ConnectFails(reason, hangs) ==
    /\ service = "trying" /\ reason \in {"connection_failed", "option_selection_unavailable_or_stale"}
    /\ reason # "connection_failed" => memory.feed = "opra"
    /\ hangs => minute < MaxMinute
    /\ began' = minute /\ minute' = (IF hangs THEN minute + 1 ELSE minute)
    /\ PublishStream(memory, "connecting")
    /\ memory' = Disconnected(memory, reason) /\ service' = "waiting"
    /\ backoff' = Min({BackoffCap, 2 * IF hangs THEN 1 ELSE backoff})
    /\ UNCHANGED <<sentRequests, newcomer, connection, starts>>

\* run_session: messages of the provider.
Authenticated ==
    /\ service = "session" /\ memory' = [memory EXCEPT !.authenticated = TRUE]
    /\ sentRequests' = IF sentRequests = 0 THEN 1 ELSE sentRequests
    /\ NothingPublished /\ UNCHANGED <<service, backoff, began, newcomer, minute, connection, starts>>
Subscribed(exact) ==
    /\ service = "session"
    /\ IF memory.authenticated /\ exact
       THEN memory' = [memory EXCEPT !.subscribed = TRUE] /\ UNCHANGED <<service, backoff>>
       ELSE Fail(memory, "subscription_not_confirmed")
    /\ NothingPublished /\ UNCHANGED <<sentRequests, began, newcomer, minute, connection, starts>>
Receive(row) ==
    /\ service = "session" /\ memory' = Admit(memory, row, minute, connection)
    /\ NothingPublished /\ UNCHANGED <<service, sentRequests, backoff, began, newcomer, minute, connection, starts>>
\* A provider error, a bad frame, a lost connection, a changed selection or no
\* confirmation within its deadline.
SessionFails(reason) ==
    /\ service = "session"
    /\ reason = "authentication_or_subscription_timeout" => ~memory.subscribed
    /\ reason = "option_selection_changed" => memory.feed = "opra"
    /\ Fail(memory, reason)
    /\ NothingPublished /\ UNCHANGED <<sentRequests, began, newcomer, minute, connection, starts>>
FlushStream ==
    /\ service \in {"session", "waiting"} /\ PublishStream(memory, StatusOf(memory))
    /\ UNCHANGED <<memory, service, sentRequests, backoff, began, newcomer, minute, connection, starts>>
Retry ==
    /\ service = "waiting" /\ service' = "trying"
    /\ NothingPublished /\ UNCHANGED <<memory, sentRequests, backoff, began, newcomer, minute, connection, starts>>

Shutdown ==
    /\ service # "down" /\ Exit
    /\ PublishStream([memory EXCEPT !.connected = FALSE, !.authenticated = FALSE, !.subscribed = FALSE], "shutdown")
    /\ UNCHANGED <<sentRequests, began, newcomer, minute, connection, starts>>
\* No headroom left on the disk: the service ends.
Headroom ==
    /\ service # "down" /\ Exit /\ DiskFull
    /\ UNCHANGED <<sentRequests, began, newcomer, minute, connection, starts>>
\* The process dies, in a publication or between two.
Kill(published) ==
    /\ service # "down" /\ Exit
    /\ latest' = IF published THEN LatestOf(memory) ELSE latest
    /\ UNCHANGED <<status, sentRequests, began, newcomer, minute, connection, starts>>
\* No confirmation takes a minute.
StreamTick ==
    /\ minute < MaxMinute /\ minute' = minute + 1
    /\ service = "session" => memory.subscribed
    /\ UNCHANGED <<memory, service, sentRequests, backoff, began, newcomer, latest, status, connection, starts>>

StreamNext ==
    \/ \E feed \in Feeds, selection \in Selections \cup {FixedSelection} : StartService(feed, selection)
    \/ TakeLock
    \/ \E selection \in Selections \cup {FixedSelection} : Connect(selection)
    \/ \E reason \in {"connection_failed", "option_selection_unavailable_or_stale"}, hangs \in BOOLEAN : ConnectFails(reason, hangs)
    \/ Authenticated \/ \E exact \in BOOLEAN : Subscribed(exact)
    \/ \E row \in StreamRows : Receive(row)
    \/ \E reason \in {"provider_error", "authentication_or_subscription_timeout", "option_selection_changed"} : SessionFails(reason)
    \/ FlushStream \/ Retry \/ Shutdown \/ Headroom \/ StreamTick
    \/ \E published \in BOOLEAN : Kill(published)

StreamSpec == StreamInit /\ [][StreamNext]_streamVars

-----------------------------------------------------------------------------
StreamTypeOK ==
    /\ service \in {"down", "trying", "session", "waiting"} /\ sentRequests \in 0 .. 1
    /\ backoff \in 1 .. BackoffCap /\ memory.feed \in {"sip", "opra"}
    /\ Len(newcomer) <= 1 /\ Len(latest) <= 1 /\ Len(status) <= 1

\* A record published as fresh was received on the very connection that was up
\* and confirmed when it was published, whatever was restored or retained, and
\* is as young as its channel asks.
FreshIsLive ==
    \A f \in Range(latest), c \in {"bars", "quotes"} : \A r \in Range(f[c]) :
        r.state = "fresh" => f.live /\ r.on = f.during /\ f.at - r.stamp \in 0 .. FreshFor(c)

\* The stores are bounded, hold a symbol once, and quotes of the selection only;
\* the options feed holds no bars.
StoresAreBounded ==
    /\ Len(memory.bars) <= MaxBars /\ {r.symbol : r \in Range(memory.quotes)} \subseteq memory.selection
    /\ \A c \in {"bars", "quotes"} : IsInjective([i \in DOMAIN memory[c] |-> memory[c][i].symbol])
    /\ memory.feed = "opra" => memory.bars = <<>>

\* Who reads that the stream is live finds observations at least as recent; a
\* confirmed subscription was asked for on this connection.
StatusFollowsLatest ==
    /\ \A s \in Range(status) : s.status = "streaming" => latest # <<>> /\ latest[1].at >= s.at
    /\ memory.subscribed => memory.authenticated /\ sentRequests = 1 /\ service = "session"

\* While a process runs, a quote it holds is never replaced by an older one.
QuotesNeverGoBack ==
    [][service # "down" /\ service' # "down" =>
          \A r \in Range(memory.quotes), q \in Range(memory'.quotes) : r.symbol = q.symbol => r.stamp <= q.stamp]_streamVars

\* A session that ends lets the retries start over only when it was confirmed:
\* the deadlines of the handshake are shorter than what resets them.  An attempt
\* that hung before its session does too ("Reset only after a sustained
\* subscribed session" says the comment in main).
BackoffIsEarned ==
    [][service \notin {"down", "trying"} /\ service' # "down" /\ backoff' < backoff => memory.subscribed]_streamVars

StreamIsSound == FreshIsLive /\ StoresAreBounded /\ StatusFollowsLatest
=============================================================================
