---------------------------- MODULE MarketScanner ----------------------------
(***************************************************************************)
(* The market scanner: its cycle over the instrument directory             *)
(* (scripts/market_scanner_service.py) and what it says of one symbol      *)
(* (research/market_scanner.py).  Requests and writes fail, the process is *)
(* killed and restarted, instruments come and go.  Every file is replaced  *)
(* by rename, so a failing write leaves the old file or the new one.  Time *)
(* passes at any step: a cycle notes when it began and when it looked at   *)
(* its directory, and reads the clock anew for each batch and to publish.  *)
(* Prices are left out: a payload is the time of its data, or malformed.   *)
(* A batch with a barred symbol is forbidden.                              *)
(***************************************************************************)
EXTENDS Integers, FiniteSets, SequencesExt, FiniteSetsExt

CONSTANTS Stocks,            \* the equities a directory may list, in order
          Coins, Proxies,    \* sequences of one: a crypto pair and a future
          Listings,          \* the sets of instruments a directory may answer with
          FreshAge, ClosedAge, Retention, DayLength, IsolationBudget, MaxRecords,
          Snapshots,         \* what the providers may hold: the clock's answer and every symbol's
          MaxScans, MaxFaults, MaxHour      \* bounds of the model

NoData == -10     \* the time of data there are none of
\* Sequences of symbols; every symbol has an answer, data are dated, and only
\* stocks can be barred.
ASSUME ScannerAssumption ==
    /\ Stocks \in Seq(Range(Stocks)) /\ Coins \in Seq(Range(Coins)) /\ Proxies \in Seq(Range(Proxies))
    /\ {FreshAge, ClosedAge, Retention, IsolationBudget, MaxRecords, MaxHour} \subseteq Nat /\ DayLength \in Nat \ {0}
    /\ \A shot \in Snapshots :
          /\ \A s \in Range(Stocks) \cup Range(Coins) \cup Range(Proxies) :
                /\ shot[s] \in [kind : {"data", "none", "malformed", "barred"}, asof : Int]
                /\ IF shot[s].kind = "data" THEN shot[s].asof >= 0 ELSE shot[s].asof = NoData
          /\ \A s \in Range(Coins) \cup Range(Proxies) : shot[s].kind # "barred"

VARIABLES scanStage,         \* the next step of the cycle
          directory,         \* instruments in memory: symbols and day of success by class
          previous,          \* the rows of the last cycle, in memory
          scanRows,          \* the rows of this cycle
          asks, answers,     \* stock requests to make; what came back by symbol
          snapshot,          \* what the providers hold during this cycle
          budget, troubled,  \* extra requests left; an error was noted
          exchange, batches, \* the clock's answer; the classes still to ask for
          savedDirectory, savedLatest, savedStatus,    \* the files
          scans, faults, hour,
          noted,             \* the hours noted by this cycle: its start, its look at the directory
          lagging            \* history: memory is behind the file of rows

scannerVars == <<scanStage, directory, previous, scanRows, asks, answers, snapshot, budget, troubled, exchange, batches,
                 savedDirectory, savedLatest, savedStatus, scans, faults, hour, noted, lagging>>
cycleVars == <<scanRows, asks, answers, snapshot, budget, troubled, exchange, batches, noted>>

Listed == <<"stocks", "coins">>
Symbols(class) == IF class = "stocks" THEN Stocks ELSE IF class = "coins" THEN Coins ELSE Proxies
ClassOfSymbol(s) == CHOOSE c \in {"stocks", "coins", "futures"} : s \in Range(Symbols(c))
Universe(d) == d["stocks"].symbols \cup d["coins"].symbols \cup Range(Proxies)
NoRows == [s \in {} |-> 0]
\* The locals of a cycle end with it.
CycleEnds ==
    /\ scanRows' = NoRows /\ asks' = <<>> /\ answers' = NoRows /\ batches' = <<>> /\ snapshot' = NoRows
    /\ budget' = IsolationBudget /\ troubled' = FALSE /\ exchange' = "unknown" /\ noted' = [start |-> 0, look |-> 0]
EmptyDirectory == [c \in Range(Listed) |-> [symbols |-> {}, day |-> -1]]

-----------------------------------------------------------------------------
(* One symbol: observe. *)

Limit(class) == IF class = "futures" THEN 2 * FreshAge ELSE FreshAge
AgeState(class, age) ==
    CASE class = "futures" -> IF age <= Limit(class) THEN "indicative" ELSE "stale"
      [] class = "stocks" /\ exchange = "closed" -> IF age <= ClosedAge THEN "closed" ELSE "stale"
      [] class = "stocks" /\ exchange = "unknown" -> "unavailable"
      [] OTHER -> IF age <= Limit(class) THEN "fresh" ELSE "stale"
\* An answer is a failure, no payload, a malformed payload or the time of data;
\* what is already known is kept unless a sound payload replaces it.
Known(s) == IF s \in DOMAIN previous THEN previous[s] ELSE [asof |-> NoData, count |-> 0]
ObserveSymbol(s, answer) ==
    LET age == hour - answer.asof
        row == [asof |-> Known(s).asof, count |-> Known(s).count + 1, active |-> TRUE, since |-> NoData, retained |-> Known(s).asof # NoData,
                state |-> "missing"]
    IN  CASE answer.kind = "failure" -> [row EXCEPT !.state = "unavailable"]
          [] answer.kind = "none" -> row
          [] answer.kind = "malformed" \/ age < 0 -> [row EXCEPT !.state = "invalid"]
          [] OTHER -> [row EXCEPT !.state = AgeState(ClassOfSymbol(s), age), !.asof = answer.asof, !.retained = FALSE]
PendingRow(s) == [ObserveSymbol(s, [kind |-> "failure", asof |-> NoData]) EXCEPT !.state = "pending"]
\* A symbol the directory no longer lists is kept for a while, as long as there
\* is room for its record.
RetiredRow(s) == [Known(s) EXCEPT !.active = FALSE, !.state = "inactive", !.retained = TRUE,
                                  !.since = IF @ = NoData THEN noted.start ELSE @]
Retired == {s \in DOMAIN previous \ Universe(directory) : RetiredRow(s).since >= noted.start - Retention}
FirstRows(kept) == [s \in Universe(directory) \cup kept |-> IF s \in kept THEN RetiredRow(s) ELSE PendingRow(s)]
\* Records are left out only when the file is full.
HasRoomFor(kept) ==
    LET records == Cardinality(Universe(directory) \cup kept)
    IN  (kept # Retired => records >= MaxRecords) /\ (kept # {} => records <= MaxRecords)
Weak(r) == r.state \in {"missing", "invalid", "unavailable", "stale"}

Failure == [kind |-> "failure", asof |-> NoData]
Failed(symbols) == [s \in Range(symbols) |-> Failure]
Served(symbols) == [s \in Range(symbols) |-> snapshot[s]]

-----------------------------------------------------------------------------
(* Writes and aborted cycles. *)

Outcomes == {"done", "refused", "raised"}
\* Failures of every kind are bounded together.
Faulty(failed) == faults' = faults + (IF failed THEN 1 ELSE 0) /\ faults' <= MaxFaults
\* atomic: a failing call leaves the old file, or the new one before it raises.
Write(file, new, outcome) ==
    /\ Faulty(outcome # "done")
    /\ IF outcome = "refused" THEN UNCHANGED file ELSE file' = new
StatusOfScan(s) == [status |-> s, scan |-> scans]
\* After a write of the cycle: the next step, or the handler of exceptions.
Then(outcome, next) == scanStage' = IF outcome = "done" THEN next ELSE "aborted"

\* The loop's handler reports the failed cycle; if that fails too, the process ends.
Abort(outcome) ==
    /\ scanStage = "aborted" /\ Write(savedStatus, StatusOfScan("degraded"), outcome)
    /\ scanStage' = IF outcome = "done" THEN "idle" ELSE "down"
    /\ CycleEnds
    /\ UNCHANGED <<directory, previous, savedDirectory, savedLatest, scans, hour, lagging>>

-----------------------------------------------------------------------------
(* The cycle. *)

BeginScan(plenty, outcome) ==
    /\ scanStage = "idle" /\ scans < MaxScans /\ scans' = scans + 1
    /\ Write(savedStatus, [status |-> IF plenty THEN "scanning" ELSE "degraded", scan |-> scans'], outcome)
    /\ Then(outcome, IF plenty THEN "stocks" ELSE "idle")
    /\ snapshot' \in Snapshots /\ noted' = [noted EXCEPT !.start = hour]
    /\ UNCHANGED <<directory, previous, scanRows, asks, answers, budget, troubled, exchange, batches,
                   savedDirectory, savedLatest, hour, lagging>>

\* refresh_directory notes the time once and asks once a day and class; a failed
\* or empty answer keeps what is known.
RefreshDirectory(class, listed) ==
    /\ scanStage = class
    /\ noted' = IF class = "stocks" THEN [noted EXCEPT !.look = hour] ELSE noted
    /\ scanStage' = IF class = "stocks" THEN "coins" ELSE "directory"
    /\ LET today == noted'.look \div DayLength
           asked == directory[class].day # today
       IN  /\ ~asked => listed = {}
           /\ Faulty(asked /\ listed = {}) /\ troubled' = (troubled \/ (asked /\ listed = {}))
           /\ directory' = IF listed = {} THEN directory
                           ELSE [directory EXCEPT ![class] = [symbols |-> listed, day |-> today]]
    /\ UNCHANGED <<previous, scanRows, asks, answers, snapshot, budget, exchange, batches, savedDirectory, savedLatest, savedStatus,
                   scans, hour, lagging>>
SaveDirectory(outcome) ==
    /\ scanStage = "directory" /\ Write(savedDirectory, directory, outcome) /\ Then(outcome, "announce")
    /\ UNCHANGED <<directory, previous, cycleVars, savedLatest, savedStatus, scans, hour, lagging>>
\* The symbols of a class that are listed, in order.
ScanOrder(class) ==
    LET all == Symbols(class)
        listed[i \in 0 .. Len(all)] ==
            IF i = 0 THEN <<>>
            ELSE IF all[i] \in Universe(directory) THEN Append(listed[i - 1], all[i]) ELSE listed[i - 1]
    IN  listed[Len(all)]
ToAsk(class) == IF ScanOrder(class) = <<>> THEN <<>> ELSE <<class>>
AnnounceRows(outcome) ==
    /\ scanStage = "announce"
    /\ \E kept \in SUBSET Retired : HasRoomFor(kept) /\ scanRows' = FirstRows(kept)
    /\ Write(savedStatus, StatusOfScan("scanning"), outcome) /\ Then(outcome, "clock")
    /\ UNCHANGED <<directory, previous, asks, answers, snapshot, budget, troubled, exchange, batches, savedDirectory, savedLatest,
                   scans, hour, noted, lagging>>
\* The exchange's clock, then the classes; one without instruments is skipped.
AskClock(failed) ==
    /\ scanStage = "clock" /\ scanStage' = "batch" /\ Faulty(failed)
    /\ exchange' = IF failed THEN "unknown" ELSE snapshot["clock"].kind
    /\ batches' = ToAsk("stocks") \o ToAsk("coins") \o ToAsk("futures")
    /\ troubled' = (troubled \/ failed \/ Len(batches') < 3)
    /\ UNCHANGED <<directory, previous, scanRows, asks, answers, snapshot, budget, savedDirectory, savedLatest, savedStatus,
                   scans, hour, noted, lagging>>

\* A heartbeat in the status file goes before every request.
BeginBatch(outcome) ==
    /\ scanStage = "batch" /\ batches # <<>> /\ Write(savedStatus, StatusOfScan("scanning"), outcome)
    /\ Then(outcome, IF Head(batches) = "stocks" THEN "ask" ELSE "single")
    /\ asks' = IF Head(batches) = "stocks" THEN <<[symbols |-> ScanOrder("stocks"), extra |-> FALSE]>> ELSE <<>>
    /\ UNCHANGED <<directory, previous, scanRows, answers, snapshot, budget, troubled, exchange, batches, savedDirectory, savedLatest,
                   scans, hour, noted, lagging>>

\* stock_batch: a forbidden batch is asked for once more, then in halves, while
\* the budget of the cycle lasts; other failures fail all its symbols.
Answered(symbols, given) == [s \in DOMAIN answers \cup Range(symbols) |-> IF s \in Range(symbols) THEN given[s] ELSE answers[s]]
HalvesLeftOnly(symbols) ==
    <<[symbols |-> SubSeq(symbols, 1, Len(symbols) \div 2), extra |-> TRUE]>>
Halves(symbols) ==
    LET mid == Len(symbols) \div 2
    IN  <<[symbols |-> SubSeq(symbols, 1, mid), extra |-> TRUE],
          [symbols |-> SubSeq(symbols, mid + 1, Len(symbols)), extra |-> TRUE]>>
Exhausted(ask) == ask.extra /\ budget <= 0
Barred(symbols) == {s \in Range(symbols) : snapshot[s].kind = "barred"}
\* The requests that remain after a refusal, and whether it settles the symbols.
AfterRefusal(ask, left) ==
    IF ~ask.extra /\ left > 0 THEN <<[ask EXCEPT !.extra = TRUE]>>
    ELSE IF Len(ask.symbols) <= 1 THEN <<>> ELSE Halves(ask.symbols)
HeartbeatFails ==
    /\ scanStage = "ask" /\ ~Exhausted(Head(asks)) /\ scanStage' = "aborted" /\ Faulty(TRUE)
    /\ UNCHANGED <<directory, previous, cycleVars, savedDirectory, savedLatest, savedStatus, scans, hour, lagging>>
AskStocks(reply) ==
    /\ scanStage = "ask"
    /\ LET ask == Head(asks)
           left == IF ask.extra /\ ~Exhausted(ask) THEN budget - 1 ELSE budget
           again == IF reply = "forbidden" THEN AfterRefusal(ask, left) ELSE <<>>
       IN  /\ Exhausted(ask) => reply = "error"
           /\ reply = "payload" => Barred(ask.symbols) = {}
           /\ budget' = left /\ asks' = again \o Tail(asks)
           /\ IF again # <<>> THEN UNCHANGED answers
              ELSE answers' = Answered(ask.symbols, IF reply = "payload" THEN Served(ask.symbols) ELSE Failed(ask.symbols))
           /\ Faulty(~Exhausted(ask) /\ reply # IF Barred(ask.symbols) = {} THEN "payload" ELSE "forbidden")
    /\ scanStage' = IF asks' = <<>> THEN "record" ELSE "ask"
    /\ troubled' = (troubled \/ \E s \in DOMAIN answers' : answers'[s] = Failure)
    /\ UNCHANGED <<directory, previous, scanRows, snapshot, exchange, batches, savedDirectory, savedLatest, savedStatus, scans, hour, noted, lagging>>
\* Crypto in one request; a future by its chart, twice when its first window is empty.
AskSingle(failed) ==
    /\ scanStage = "single" /\ scanStage' = "record" /\ Faulty(failed)
    /\ LET symbols == ScanOrder(Head(batches))
       IN  answers' = IF failed THEN Failed(symbols) ELSE Served(symbols)
    /\ troubled' = (troubled \/ \E s \in DOMAIN answers' : answers'[s] = Failure)
    /\ UNCHANGED <<directory, previous, scanRows, asks, snapshot, budget, exchange, batches, savedDirectory, savedLatest, savedStatus,
                   scans, hour, noted, lagging>>
RecordBatch(outcome) ==
    /\ scanStage = "record"
    /\ scanRows' = [s \in DOMAIN scanRows |-> IF s \in DOMAIN answers THEN ObserveSymbol(s, answers[s]) ELSE scanRows[s]]
    /\ batches' = Tail(batches) /\ answers' = NoRows
    /\ Write(savedStatus, StatusOfScan("scanning"), outcome)
    /\ Then(outcome, IF batches' = <<>> THEN "publish" ELSE "batch")
    /\ UNCHANGED <<directory, previous, asks, snapshot, budget, troubled, exchange, savedDirectory, savedLatest, scans, hour, noted, lagging>>

\* publish, complete: the rows first, then the status that speaks of them.
ScanVerdict == IF troubled \/ \E s \in DOMAIN scanRows : Weak(scanRows[s]) THEN "degraded" ELSE "healthy"
PublishRows(plenty, outcome) ==
    /\ scanStage = "publish"
    /\ IF plenty
       THEN /\ Write(savedLatest, [rows |-> scanRows, listed |-> Universe(directory), scan |-> scans, start |-> noted.start, at |-> hour], outcome)
            /\ Then(outcome, "status")
            /\ lagging' = (lagging \/ outcome # "refused")
       ELSE scanStage' = "aborted" /\ outcome = "done" /\ Faulty(TRUE) /\ UNCHANGED <<savedLatest, lagging>>
    /\ UNCHANGED <<directory, previous, cycleVars, savedDirectory, savedStatus, scans, hour>>
PublishStatus(outcome) ==
    /\ scanStage = "status" /\ Write(savedStatus, StatusOfScan(ScanVerdict), outcome)
    /\ Then(outcome, "history")
    /\ UNCHANGED <<directory, previous, cycleVars, savedDirectory, savedLatest, scans, hour, lagging>>
\* Memory follows, then the day's history is written.
FinishScan(outcome) ==
    /\ scanStage = "history" /\ previous' = scanRows /\ lagging' = FALSE
    /\ Faulty(outcome # "done")
    /\ Then(outcome, "idle") /\ CycleEnds
    /\ UNCHANGED <<directory, savedDirectory, savedLatest, savedStatus, scans, hour>>

-----------------------------------------------------------------------------
(* The process and time. *)

StopScanner ==
    /\ scanStage = "idle" /\ scanStage' = "down" /\ savedStatus' = StatusOfScan("shutdown")
    /\ UNCHANGED <<directory, previous, cycleVars, savedDirectory, savedLatest, scans, faults, hour, lagging>>
KillScanner ==
    /\ scanStage # "down" /\ faults < MaxFaults /\ faults' = faults + 1 /\ scanStage' = "down" /\ CycleEnds
    /\ UNCHANGED <<directory, previous, savedDirectory, savedLatest, savedStatus, scans, hour, lagging>>
StartScanner ==
    /\ scanStage = "down" /\ scans < MaxScans /\ scanStage' = "idle"
    /\ directory' = savedDirectory /\ previous' = savedLatest.rows /\ lagging' = FALSE
    /\ UNCHANGED <<cycleVars, savedDirectory, savedLatest, savedStatus, scans, faults, hour>>
ScannerTick ==
    /\ hour < MaxHour /\ hour' = hour + 1
    /\ UNCHANGED <<scanStage, directory, previous, cycleVars, savedDirectory, savedLatest, savedStatus, scans, faults, lagging>>

ScannerInit ==
    /\ scanStage = "down" /\ directory = EmptyDirectory /\ previous = NoRows /\ scanRows = NoRows
    /\ asks = <<>> /\ answers = NoRows /\ snapshot = NoRows /\ budget = IsolationBudget /\ troubled = FALSE /\ exchange = "unknown" /\ batches = <<>>
    /\ savedDirectory = EmptyDirectory /\ savedLatest = [rows |-> NoRows, listed |-> {}, scan |-> 0, start |-> 0, at |-> 0]
    /\ savedStatus = [status |-> "none", scan |-> 0]
    /\ scans = 0 /\ faults = 0 /\ hour = 0 /\ noted = [start |-> 0, look |-> 0] /\ lagging = FALSE
ScannerNext ==
    \/ \E o \in Outcomes : \/ Abort(o) \/ SaveDirectory(o) \/ AnnounceRows(o) \/ BeginBatch(o) \/ RecordBatch(o)
                           \/ PublishStatus(o) \/ FinishScan(o)
                           \/ \E plenty \in BOOLEAN : BeginScan(plenty, o) \/ PublishRows(plenty, o)
    \/ \E class \in Range(Listed) : \E listed \in {l \in Listings : l \subseteq Range(Symbols(class))} : RefreshDirectory(class, listed)
    \/ HeartbeatFails \/ \E failed \in BOOLEAN : AskClock(failed) \/ AskSingle(failed)
    \/ \E reply \in {"payload", "forbidden", "error"} : AskStocks(reply)
    \/ StopScanner \/ KillScanner \/ StartScanner \/ ScannerTick
ScannerSpec == ScannerInit /\ [][ScannerNext]_scannerVars

-----------------------------------------------------------------------------
ScannerTypeOK == budget \in 0 .. IsolationBudget /\ hour \in 0 .. MaxHour /\ \A s \in DOMAIN scanRows : scanRows[s].asof <= hour

\* The published scan accounts for every instrument of the directory it was
\* made from, none still pending, and what it keeps of a removed one is no older
\* than a week, whatever cycles failed or died in between.  (cycle, publish)
LatestIsComplete ==
    /\ savedLatest.listed = {s \in DOMAIN savedLatest.rows : savedLatest.rows[s].active}
    /\ \A s \in DOMAIN savedLatest.rows :
          LET r == savedLatest.rows[s]
          IN  r.state # "pending" /\ (r.active \/ r.since \in savedLatest.start - Retention .. savedLatest.start)

\* Who reads that the scanner is healthy finds the rows of that very scan, each
\* active one sound and no older than its limit when the scan began, and on file
\* the directory they were made from, each class verified on a day of the scan
\* (which may have passed since, if the scan went over midnight).
LimitOf(s, r) == IF r.state = "closed" THEN ClosedAge ELSE Limit(ClassOfSymbol(s))
SoundAt(s, r, when) == ~Weak(r) /\ ~r.retained /\ r.asof >= when - LimitOf(s, r)
HealthyIsTrue ==
    savedStatus.status = "healthy" =>
        /\ savedLatest.scan = savedStatus.scan /\ Universe(savedDirectory) = savedLatest.listed
        /\ \E look \in savedLatest.start .. savedLatest.at :
              \A c \in Range(Listed) : savedDirectory[c].day = look \div DayLength
        /\ \A s \in savedLatest.listed : SoundAt(s, savedLatest.rows[s], savedLatest.start)

\* Between two published scans no instrument's counter falls and none is dropped
\* before its week, nor its last observation, over aborted cycles and restarts;
\* only a cycle that failed after publishing leaves memory behind (lagging), and
\* only a scan without room for another record drops one early.
NothingIsForgotten ==
    [][LET old == savedLatest.rows
           new == savedLatest'.rows
       IN  old # new /\ ~lagging =>
             \A s \in DOMAIN old :
                IF s \in DOMAIN new
                THEN new[s].count >= old[s].count /\ (old[s].asof # NoData => new[s].asof # NoData)
                ELSE \/ ~old[s].active /\ old[s].since < savedLatest'.start - Retention
                     \/ Cardinality(DOMAIN new) >= MaxRecords]_scannerVars

\* Once a batch of stocks is answered no symbol is without an answer, none got
\* one from a refused request, and while requests do not fail and the budget
\* lasts only the barred ones have failed.  (stock_batch)
IsolationIsExact ==
    scanStage = "record" /\ Head(batches) = "stocks" =>
        /\ DOMAIN answers = Range(ScanOrder("stocks"))
        /\ Barred(ScanOrder("stocks")) \subseteq {s \in DOMAIN answers : answers[s] = Failure}
        /\ faults = 0 /\ budget > 0 => {s \in DOMAIN answers : answers[s] = Failure} = Barred(ScanOrder("stocks"))

\* What the files say of a scan is complete and true, and a refused batch costs
\* only the symbols that are barred.
ScannerIsSound == LatestIsComplete /\ HealthyIsTrue /\ IsolationIsExact
=============================================================================
