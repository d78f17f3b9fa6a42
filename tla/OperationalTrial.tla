-------------------------- MODULE OperationalTrial -------------------------
(***************************************************************************)
(* The observer of the paper trial (operations/paper_trial.py and          *)
(* scripts/paper_trial_service.py).  It reads the status file of every     *)
(* source, one after the other while time goes on and sources write, and   *)
(* commits one poll to its database; a streak of polls without a failure   *)
(* qualifies the trial.  A file is its heartbeat and whether its content   *)
(* is operational; allowlisted payloads and the rest of a summary are left *)
(* out.  Time is counted in units of a limit's grain, up to MaxTime.       *)
(***************************************************************************)
EXTENDS Integers, FiniteSets, FiniteSetsExt

CONSTANTS AgeLimits,       \* SOURCES: source -> seconds a heartbeat may be old
          PollGap,      \* 180 s between polls, and within one
          MaxTime

ASSUME TrialAssumption == PollGap \in Nat /\ MaxTime \in Nat \ {0} /\ \A s \in DOMAIN AgeLimits : AgeLimits[s] \in Nat

VARIABLES wall,          \* the wall clock
          files,         \* source -> its status file: heartbeat and content
          observer,      \* "stopped", "idle", or "reading"
          begun,         \* acquisition_start
          read,          \* source -> the file as it was read
          trialMeta,     \* meta: started_at, last_poll, streak_started_at (0: none)
          beats,         \* observations: source -> heartbeats stored
          gaps,          \* gaps: source, start and end (0: open)
          polls          \* polls: the times that have one

trialVars == <<wall, files, observer, begun, read, trialMeta, beats, gaps, polls>>

Sources == DOMAIN AgeLimits
Absent == [beat |-> 0, good |-> FALSE]
NoMeta == [started |-> 0, last |-> 0, streak |-> 0]

TrialInit ==
    /\ wall = 1 /\ files = [s \in Sources |-> Absent] /\ observer = "stopped" /\ begun = 0 /\ read = <<>>
    /\ trialMeta = NoMeta /\ beats = [s \in Sources |-> {}] /\ gaps = {} /\ polls = {}

\* A source writes its status; a restarted or late one may carry an older
\* heartbeat, a clock that is ahead a later one.
SourceWrites(s, beat, good) ==
    /\ beat \in {wall - 2, wall, wall + 1} /\ beat > 0
    /\ files' = [files EXCEPT ![s] = [beat |-> beat, good |-> good]]
    /\ UNCHANGED <<wall, observer, begun, read, trialMeta, beats, gaps, polls>>

TimePasses(d) ==
    /\ wall + d \in 1..MaxTime /\ wall' = wall + d
    /\ UNCHANGED <<files, observer, begun, read, trialMeta, beats, gaps, polls>>

\* The lock allows one observer; the database survives it.
ObserverStarts ==
    /\ observer = "stopped" /\ observer' = "idle"
    /\ UNCHANGED <<wall, files, begun, read, trialMeta, beats, gaps, polls>>
\* A crash, a shutdown, low disk, or an error of a poll.
ObserverEnds ==
    /\ observer # "stopped" /\ observer' = "stopped" /\ read' = <<>> /\ begun' = 0
    /\ UNCHANGED <<wall, files, trialMeta, beats, gaps, polls>>

PollBegins ==
    /\ observer = "idle"
    /\ IF wall < trialMeta.last
       THEN ObserverEnds   \* observation clock moved backwards
       ELSE /\ observer' = "reading" /\ begun' = wall
            /\ UNCHANGED <<wall, files, read, trialMeta, beats, gaps, polls>>

\* The content of the crypto status also depends on the state file it is
\* compared with: torn counts as not operational.
ReadSource(s, torn) ==
    /\ observer = "reading" /\ s \in Sources \ DOMAIN read
    /\ read' = [x \in DOMAIN read \cup {s} |->
                   IF x = s THEN [files[s] EXCEPT !.good = @ /\ ~torn] ELSE read[x]]
    /\ UNCHANGED <<wall, files, observer, begun, trialMeta, beats, gaps, polls>>

\* health(), with the comparison to the newest stored heartbeat.
Dated(s) == read[s].beat # 0 /\ read[s].beat <= wall /\ wall - read[s].beat <= AgeLimits[s]
Stored(s) == read[s].beat # 0 /\ read[s].beat <= wall
Regressed(s) == beats[s] # {} /\ read[s].beat < Max(beats[s])
BeatGap(s) == beats[s] # {} /\ read[s].beat - Max(beats[s]) > AgeLimits[s]
Healthy(s) == Dated(s) /\ read[s].good /\ ~Regressed(s) /\ ~BeatGap(s)
CollectorGapWithin == wall - begun > PollGap
CollectorGap ==
    \/ trialMeta.last # 0 /\ wall - trialMeta.last > PollGap
    \/ wall - begun > PollGap
Failures == {s \in Sources : ~Healthy(s)} \cup (IF CollectorGap THEN {"collector"} ELSE {})
StreakAfter ==
    IF Failures # {} THEN 0 ELSE IF trialMeta.streak = 0 THEN wall ELSE trialMeta.streak
\* A failing source opens one gap, a healthy one closes its gap.
Gaps ==
    LET isOpen(x) == \E g \in gaps : g.source = x /\ g.ended = 0
        new == {x \in Failures : ~isOpen(x)}
    IN  {IF g.ended = 0 /\ g.source \notin Failures THEN [g EXCEPT !.ended = wall] ELSE g : g \in gaps}
        \cup {[source |-> x, ended |-> 0,
               since |-> IF x = "collector" /\ trialMeta.last # 0 THEN trialMeta.last ELSE wall] : x \in new}

\* One transaction; a quick poll of a moment that has one changes nothing.
PollCommits ==
    /\ observer = "reading" /\ DOMAIN read = Sources /\ wall >= begun
    /\ wall \in polls => wall - begun <= PollGap
    /\ IF wall \in polls
       THEN UNCHANGED <<trialMeta, beats, gaps, polls>>
       ELSE /\ polls' = polls \cup {wall}
            /\ trialMeta' = [started |-> IF trialMeta.started = 0 THEN wall ELSE trialMeta.started,
                             last |-> wall, streak |-> StreakAfter]
            /\ beats' = [s \in Sources |-> IF Stored(s) THEN beats[s] \cup {read[s].beat} ELSE beats[s]]
            /\ gaps' = Gaps
    /\ observer' = "idle" /\ read' = <<>> /\ begun' = 0
    /\ UNCHANGED <<wall, files>>

\* A clock that moved back during the acquisition, or a slow one that ends at
\* a stamp already stored, ends the service.
PollFails ==
    /\ observer = "reading"
    /\ wall < begun \/ (DOMAIN read = Sources /\ wall \in polls /\ wall - begun > PollGap)
    /\ ObserverEnds

TrialNext ==
    \/ \E s \in Sources, good \in BOOLEAN : \E beat \in 1..(MaxTime + 1) : SourceWrites(s, beat, good)
    \/ \E d \in {-1, 1, 2} : TimePasses(d)
    \/ ObserverStarts \/ ObserverEnds \/ PollBegins
    \/ \E s \in Sources, torn \in BOOLEAN : ReadSource(s, torn)
    \/ PollCommits \/ PollFails

TrialSpec == TrialInit /\ [][TrialNext]_trialVars

-----------------------------------------------------------------------------
TrialTypeOK ==
    /\ wall \in 1..MaxTime /\ observer \in {"stopped", "idle", "reading"} /\ DOMAIN read \subseteq Sources
    /\ trialMeta.streak <= trialMeta.last /\ trialMeta.started <= trialMeta.last

\* At every moment of a streak each source had, by what is stored, a heartbeat
\* within its limit, and the observer had polled within its own: polls that
\* were missed, slow or repeated, heartbeats that paused, went back or came
\* from the future, restarts and clock steps cannot be part of a streak.
StreakIsCovered ==
    trialMeta.streak # 0 =>
        \A t \in trialMeta.streak..trialMeta.last :
            /\ \A s \in Sources : \E h \in beats[s] : h <= t /\ t - h <= AgeLimits[s]
            /\ \E q \in polls : q <= t /\ (q = t \/ t - q < PollGap)

\* What is open among the gaps is what the last poll saw failing, and a gap
\* overlapping a streak has ended before it.
GapsExplainInterruptions ==
    /\ trialMeta.streak # 0 => \A g \in gaps : g.ended # 0 /\ g.ended <= trialMeta.streak
    /\ trialMeta.last # 0 /\ trialMeta.streak = 0 => \E g \in gaps : g.ended = 0

TrialIsHonest == StreakIsCovered /\ GapsExplainInterruptions
=============================================================================
