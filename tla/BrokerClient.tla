---------------------------- MODULE BrokerClient ----------------------------
(***************************************************************************)
(* The HTTP client of the paper account and the request limiter that all   *)
(* workers, monitors and cleanup threads share (execution/alpaca_paper.py).*)
(* A call is known by its queue ticket; which thread waits with it does    *)
(* not matter, and a wait only means that the caller asks again later.     *)
(* What a caller makes of an answer is in PaperExecutor.  Time is counted  *)
(* in units of the spacing's grain and is bounded by MaxNow, the calls by  *)
(* MaxCalls.  Payloads, URLs, credentials and telemetry are left out.      *)
(***************************************************************************)
EXTENDS Integers, Sequences, FiniteSets, FiniteSetsExt

CONSTANTS Classes,     \* the queue classes in use
          MaxQueue,    \* max_queue
          NormalCap,   \* 150 requests per window
          UrgentCap,   \* 180 requests per window, emergencies only
          Window,      \* 60 s
          Spacing,     \* .36 s
          Delays,      \* usable Retry-After delays; 0 stands for none
          MaxNow, MaxCalls

\* A sell or cancellation, a lookup, a buy, a scanner's read.
Rank == [emergency |-> 0, monitor |-> 1, entry |-> 2, discovery |-> 3]

ASSUME LimiterAssumption ==
    /\ {MaxQueue, NormalCap, UrgentCap, Window, Spacing} \subseteq Nat \ {0}
    /\ NormalCap <= UrgentCap /\ Delays \subseteq Nat /\ MaxNow \in Nat /\ MaxCalls \in Nat
    /\ Classes \subseteq DOMAIN Rank

VARIABLES now,           \* time.monotonic()
          calls,         \* per ticket of _sequence: class and stage
          admitted,      \* class and time of every admission
          blockedUntil,  \* _blocked_until
          silentUntil    \* history: the latest moment a 429 has asked to wait for

clientVars == <<now, calls, admitted, blockedUntil, silentUntil>>

Stages == {"queued", "admitted", "done"}
Pending == {t \in DOMAIN calls : calls[t].stage = "queued"}
CapacityOf(class) == IF class = "emergency" THEN UrgentCap ELSE NormalCap
NormalQueueCap == Max({1, MaxQueue - Min({8, MaxQueue \div 4})})
QueueFull(class) ==
    Cardinality(Pending) >= IF class = "emergency" THEN MaxQueue ELSE NormalQueueCap
Before(t, u) ==
    \/ Rank[calls[t].class] < Rank[calls[u].class]
    \/ Rank[calls[t].class] = Rank[calls[u].class] /\ t <= u
IsHead(t) == \A u \in Pending : Before(t, u)
To(t, stage) == calls' = [calls EXCEPT ![t].stage = stage]

ClientInit ==
    now = 0 /\ calls = <<>> /\ admitted = <<>> /\ blockedUntil = 0 /\ silentUntil = 0

\* A full queue refuses the request.
Enqueue(class) ==
    /\ ~QueueFull(class) /\ Len(calls) < MaxCalls
    /\ calls' = Append(calls, [class |-> class, stage |-> "queued"])
    /\ UNCHANGED <<now, admitted, blockedUntil, silentUntil>>

\* _requests once try_admit has dropped what is older than a window.
RequestsDroppedEarly == {i \in DOMAIN admitted : admitted[i].at > now - Window + 1}
Requests == {i \in DOMAIN admitted : admitted[i].at > now - Window}
TooSoon == admitted # <<>> /\ admitted[Len(admitted)].at + Spacing > now
MustWait(class) ==
    \/ TooSoon
    \/ blockedUntil > now
    \/ Cardinality(Requests) >= CapacityOf(class)

TryAdmit(t) ==
    /\ IsHead(t) /\ ~MustWait(calls[t].class)
    /\ To(t, "admitted")
    /\ admitted' = Append(admitted, [class |-> calls[t].class, at |-> now])
    /\ UNCHANGED <<now, blockedUntil, silentUntil>>

\* A signal ends the sleep: the finally clause of acquire cancels the ticket.
Interrupt(t) ==
    /\ To(t, "done")
    /\ UNCHANGED <<now, admitted, blockedUntil, silentUntil>>

\* The entry guard, asked after the wait, says no or raises; or the one HTTP
\* exchange of the call is answered, a lookup's 404, or of unknown outcome.
Exchange(t) ==
    /\ calls[t].stage = "admitted"
    /\ To(t, "done")
    /\ UNCHANGED <<now, admitted, blockedUntil, silentUntil>>

\* A 429 without a usable header silences everybody for a whole window; none
\* shortens what an earlier one asked for.
SilenceOf(delay) == now + IF delay = 0 THEN Window ELSE delay
BlockUntilLatest(until) == until
BlockUntil(until) == Max({blockedUntil, until})

Throttle(t, delay) ==
    /\ calls[t].stage = "admitted"
    /\ To(t, "done")
    /\ blockedUntil' = BlockUntil(SilenceOf(delay))
    /\ silentUntil' = Max({silentUntil, SilenceOf(delay)})
    /\ UNCHANGED <<now, admitted>>

Tick ==
    /\ now < MaxNow /\ now' = now + 1
    /\ UNCHANGED <<calls, admitted, blockedUntil, silentUntil>>

ClientNext ==
    \/ \E class \in Classes : Enqueue(class)
    \/ \E t \in Pending : TryAdmit(t) \/ Interrupt(t)
    \/ \E t \in DOMAIN calls : Exchange(t) \/ \E delay \in Delays : Throttle(t, delay)
    \/ Tick

ClientSpec == ClientInit /\ [][ClientNext]_clientVars

-----------------------------------------------------------------------------
ClientTypeOK ==
    /\ now \in 0..MaxNow /\ blockedUntil \in Nat /\ silentUntil \in Nat
    /\ calls \in Seq([class : Classes, stage : Stages])
    /\ admitted \in Seq([class : Classes, at : 0..MaxNow])

\* Whatever the interleaving of enqueue, sleep, cancellation and throttling,
\* no window of 60 s that ends with an ordinary request holds more than 150
\* admissions and none at all more than 180: the rest is kept for sells and
\* cancellations; and admissions are spaced.  (RollingRateLimiter.try_admit)
CeilingsHold ==
    \A i, j \in DOMAIN admitted : i < j =>
        /\ admitted[j].at >= admitted[i].at + Spacing
        /\ admitted[j].at - admitted[i].at < Window => j - i < CapacityOf(admitted[j].class)

\* Nothing is let through while a 429 has asked for silence, also when a later
\* one asked for less; while a sell or a cancellation waits no other request
\* passes; ordinary requests alone never fill its queue.  (throttle, enqueue)
EmergencyFirst ==
    [][/\ Len(admitted') > Len(admitted) =>
            /\ now >= silentUntil
            /\ (\E t \in Pending : calls[t].class = "emergency")
                 => admitted'[Len(admitted')].class = "emergency"
       /\ (\A t \in Pending' : calls'[t].class # "emergency") /\ MaxQueue >= 4
            => Cardinality(Pending') < MaxQueue]_clientVars
=============================================================================
