--------------------------- MODULE QuoteValidation ---------------------------
(***************************************************************************)
(* The diagnostics of a quote and of a batch (data/quote_validation.py),   *)
(* as the entry, shadow and study code uses them: a batch is judged at a   *)
(* decision, and a quote is judged again at a later one.  Times are        *)
(* quarters of a second.                                                   *)
(***************************************************************************)
EXTENDS Integers, Sequences

CONSTANTS QuoteNames, FeedNames, ExpectedFeed,
          Payloads,        \* kind ("missing", "malformed", "quote"), t, bp, ap, bs, as
          ReceiptTimes, DecisionTimes,
          SourceAge, CacheAge, FutureSkew, SpreadBps, MinAsk, SizesRequired

\* What parses is a finite number; a policy's values are not negative.
ASSUME QuotesAssumption ==
    /\ {SourceAge, CacheAge, FutureSkew, SpreadBps, MinAsk} \subseteq Nat
    /\ ReceiptTimes \subseteq Seq(Int) /\ DecisionTimes \subseteq Seq(Int)
    /\ \A p \in Payloads : {p.t, p.bp, p.ap, p.bs, p.as} \subseteq Seq(Int)

VARIABLES batch,           \* symbol -> [feed, received, raw], of the last batch
          wellFormed,      \* the batch held a dict of quotes
          decidedAt, verdicts, earlier

quoteVars == <<batch, wellFormed, decidedAt, verdicts, earlier>>

Parsed(value) == value # <<>>
Age(later, sooner) == later[1] - sooner[1]

-----------------------------------------------------------------------------
(* validate_quote: every reason that applies.  A value is a sequence of one *)
(* number, or the empty one when it does not parse.                         *)

When(condition, reason) == IF condition THEN {reason} ELSE {}
LocalClocks(e, at) ==
    IF ~Parsed(e.received) \/ ~Parsed(at) THEN {"invalid_local_timestamp"}
    ELSE When(Age(at, e.received) < -FutureSkew, "receipt_after_decision")
         \cup When(Age(at, e.received) > CacheAge, "stale_cache")
EventClock(e, at) ==
    IF ~Parsed(e.raw.t) THEN {"invalid_event_timestamp"}
    ELSE IF ~Parsed(e.received) \/ ~Parsed(at) THEN {}
    ELSE When(Age(at, e.raw.t) < -FutureSkew, "future_event")
         \cup When(Age(at, e.raw.t) > SourceAge, "stale_source")
         \cup When(Age(e.raw.t, e.received) > FutureSkew, "event_after_receipt")
SpreadExceeds(bid, ask) == 20000 * (ask - bid) > SpreadBps * (ask + bid)
PriceReasons(raw) ==
    IF ~Parsed(raw.bp) \/ ~Parsed(raw.ap) THEN {"invalid_price"}
    ELSE When(raw.ap[1] < MinAsk, "ask_below_minimum")
         \cup IF raw.bp[1] <= 0 \/ raw.ap[1] <= 0 THEN {"nonpositive_price"}
              ELSE IF raw.bp[1] > raw.ap[1] THEN {"crossed_quote"}
              ELSE When(SpreadExceeds(raw.bp[1], raw.ap[1]), "excessive_spread")
SizeReasons(raw) ==
    IF ~SizesRequired THEN {}
    ELSE UNION {When(~Parsed(raw[f]), "invalid_" \o f) \cup When(Parsed(raw[f]) /\ raw[f][1] <= 0, "nonpositive_" \o f) : f \in {"bs", "as"}}
Validate(e, at) ==
    When(e.feed # ExpectedFeed, "unexpected_feed") \cup LocalClocks(e, at)
    \cup (CASE e.raw.kind = "missing" -> {"missing_quote"}
            [] e.raw.kind = "malformed" -> {"invalid_quote_payload"}
            [] OTHER -> EventClock(e, at) \cup PriceReasons(e.raw) \cup SizeReasons(e.raw))
\* validate_quote_batch: a batch without a dict of quotes has none for anyone.
Envelope(feed, quotes, received, s) == [feed |-> feed, received |-> received, raw |-> quotes[s]]
ValidateBatch(envelopes, formed, at) ==
    [s \in DOMAIN envelopes |-> Validate(envelopes[s], at) \cup When(~formed, "invalid_batch_payload")]

-----------------------------------------------------------------------------
QuotesInit == batch = <<>> /\ wellFormed = TRUE /\ decidedAt = <<>> /\ verdicts = <<>> /\ earlier = <<>>

JudgeBatch(feed, quotes, received, at, formed) ==
    /\ batch = <<>>
    /\ ~formed => \A s \in DOMAIN quotes : quotes[s].kind = "missing"
    /\ batch' = [s \in DOMAIN quotes |-> Envelope(feed, quotes, received, s)]
    /\ wellFormed' = formed /\ decidedAt' = at
    /\ verdicts' = ValidateBatch(batch', formed, at) /\ earlier' = <<>>
\* breakout.py, shadow.py: the envelopes again, at a later decision.
JudgeAgain(at) ==
    /\ batch # <<>> /\ Parsed(decidedAt) /\ Parsed(at) /\ at[1] > decidedAt[1]
    /\ decidedAt' = at /\ earlier' = verdicts
    /\ verdicts' = [s \in DOMAIN batch |-> Validate(batch[s], at)]
    /\ UNCHANGED <<batch, wellFormed>>
NextQuotes == batch # <<>> /\ batch' = <<>> /\ wellFormed' = TRUE /\ decidedAt' = <<>> /\ verdicts' = <<>> /\ earlier' = <<>>

QuotesNext ==
    \/ \E feed \in FeedNames, received \in ReceiptTimes, at \in DecisionTimes, formed \in BOOLEAN :
       \E quotes \in [QuoteNames -> Payloads] : JudgeBatch(feed, quotes, received, at, formed)
    \/ \E at \in DecisionTimes : JudgeAgain(at)
    \/ NextQuotes

QuotesSpec == QuotesInit /\ [][QuotesNext]_quoteVars

-----------------------------------------------------------------------------
\* What passes is a positive, uncrossed quote, of positive size where sizes are
\* required, whose event, receipt and decision followed one another within the
\* tolerances, however its clocks were read.
PassedQuotesAreUsable ==
    \A s \in DOMAIN batch :
        verdicts[s] = {} =>
            LET e == batch[s]
            IN  /\ e.feed = ExpectedFeed /\ 0 < e.raw.bp[1] /\ e.raw.bp[1] <= e.raw.ap[1]
                /\ e.raw.t[1] <= e.received[1] + FutureSkew /\ e.received[1] <= decidedAt[1] + FutureSkew
                /\ decidedAt[1] - e.raw.t[1] \in -FutureSkew .. SourceAge
                /\ decidedAt[1] - e.received[1] <= CacheAge
                /\ SizesRequired => e.raw.bs[1] > 0 /\ e.raw.as[1] > 0

\* Judged again later, a refused quote stays refused except for clocks that ran
\* ahead of the decision: staleness and bad prices do not heal.
OnlyClocksHeal ==
    \A s \in DOMAIN earlier :
        earlier[s] \ {"receipt_after_decision", "future_event", "invalid_batch_payload"} \subseteq verdicts[s]

VerdictsAreSound == PassedQuotesAreUsable /\ OnlyClocksHeal
=============================================================================
