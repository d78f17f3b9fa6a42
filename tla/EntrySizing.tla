---------------------------- MODULE EntrySizing ----------------------------
(***************************************************************************)
(* size_long_entry (execution/sizing.py) and the loop it is meant for: a   *)
(* caller that serialises sizing and reservations and passes a reconciled  *)
(* snapshot of all positions and outstanding buys.  Prices and amounts are *)
(* integers; fractions of equity are per mille and compared exactly.  A    *)
(* price moves between entry and stop only: gaps below the stop are what   *)
(* the module says it cannot bound.                                        *)
(***************************************************************************)
EXTENDS Integers, FiniteSets, FiniteSetsExt, Functions

CONSTANTS Names,                              \* symbols
          Prices,                             \* <<entry limit, stop>> pairs
          StartEquity, StartCash,             \* the account at session start
          TargetNotional, MaxPosition, MaxGross,
          PositionPerMille, GrossPerMille, RiskPerMille,
          MaxSessionLoss,                     \* -1 stands for None
          CostBuffer

ASSUME SizingAssumption ==
    /\ {StartEquity, TargetNotional, MaxPosition, MaxGross, PositionPerMille, GrossPerMille,
        RiskPerMille} \subseteq Nat \ {0}
    /\ StartCash \in Nat /\ CostBuffer \in Nat /\ MaxSessionLoss \in Nat \cup {-1}
    /\ {PositionPerMille, GrossPerMille, RiskPerMille} \subseteq 1..1000
    /\ TargetNotional <= MaxPosition /\ MaxPosition <= MaxGross /\ PositionPerMille <= GrossPerMille
    /\ IsFiniteSet(Names) /\ Prices \subseteq Nat \X Nat
    /\ \A pair \in Prices : 0 < pair[2] /\ pair[2] < pair[1]

VARIABLES book,     \* per symbol: nothing, a reserved buy or an open position
          cashLeft, \* account cash before reservations
          realizedLoss  \* losses of closed trades, costs included

sizingVars == <<book, cashLeft, realizedLoss>>

NoTrade == [stage |-> "none", qty |-> 0, entry |-> 1, stop |-> 0, mark |-> 1]
InStage(stages) == {n \in Names : book[n].stage \in stages}
Notional == [n \in Names |-> book[n].qty * book[n].entry]
OpenNotional == [n \in Names |-> book[n].qty * book[n].mark]
ReservedCash == [n \in Names |-> book[n].qty * (book[n].entry + CostBuffer)]
StopRisk == [n \in Names |-> book[n].qty * (book[n].mark - book[n].stop + CostBuffer)]
OpenLoss == [n \in Names |-> book[n].qty * (book[n].entry - book[n].mark)]
SumIn(stages, amount) == FoldFunctionOnSet(LAMBDA x, y : x + y, 0, amount, InStage(stages))

Equity == StartEquity - realizedLoss - SumIn({"open"}, OpenLoss)
SessionLoss == Max({0, StartEquity - Equity})
RemainingLoss == Max({0, MaxSessionLoss - SessionLoss})
UsedRisk == SumIn({"open", "reserved"}, StopRisk)

\* All in thousandths of an amount.
RiskBudget ==
    IF MaxSessionLoss = -1 THEN Equity * RiskPerMille
    ELSE Min({Equity * RiskPerMille, 1000 * Max({0, RemainingLoss - UsedRisk})})
PositionCap == Min({1000 * MaxPosition, Equity * PositionPerMille})
GrossCap == Min({1000 * MaxGross, Equity * GrossPerMille})
SymbolUse(n) == IF book[n].stage = "open" THEN OpenNotional[n] ELSE Notional[n]
GrossUse == SumIn({"open"}, OpenNotional) + SumIn({"reserved"}, Notional)

\* Whole shares under every capacity at once, rounded down.
Capacities(n, entry, stop) ==
    { (1000 * TargetNotional) \div (1000 * entry),
      Max({0, PositionCap - 1000 * SymbolUse(n)}) \div (1000 * entry),
      Max({0, GrossCap - 1000 * GrossUse}) \div (1000 * entry),
      Max({0, cashLeft - SumIn({"reserved"}, ReservedCash)}) \div (entry + CostBuffer),
      RiskBudget \div (1000 * (entry - stop + CostBuffer)) }
SizeLongEntry(n, entry, stop) == Min(Capacities(n, entry, stop))

SizingInit == book = [n \in Names |-> NoTrade] /\ cashLeft = StartCash /\ realizedLoss = 0

\* A quantity of zero is a rejection.
Reserve(n, entry, stop) ==
    /\ book[n] = NoTrade /\ Equity > 0
    /\ SizeLongEntry(n, entry, stop) > 0
    /\ book' = [book EXCEPT ![n] = [stage |-> "reserved", qty |-> SizeLongEntry(n, entry, stop),
                                    entry |-> entry, stop |-> stop, mark |-> entry]]
    /\ UNCHANGED <<cashLeft, realizedLoss>>

Fill(n) ==
    /\ book[n].stage = "reserved"
    /\ book' = [book EXCEPT ![n].stage = "open"]
    /\ cashLeft' = cashLeft - Notional[n]
    /\ UNCHANGED realizedLoss

Mark(n, price) ==
    /\ book[n].stage = "open" /\ price \in book[n].stop..book[n].entry
    /\ book' = [book EXCEPT ![n].mark = price]
    /\ UNCHANGED <<cashLeft, realizedLoss>>

\* Closed at the mark; the estimated costs are paid, at most what the sale brings.
CloseTrade(n) ==
    /\ book[n].stage = "open"
    /\ book' = [book EXCEPT ![n] = NoTrade]
    /\ LET cost == book[n].qty * Min({CostBuffer, book[n].mark})
       IN  /\ cashLeft' = cashLeft + OpenNotional[n] - cost
           /\ realizedLoss' = realizedLoss + OpenLoss[n] + cost

Withdraw(n) ==
    /\ book[n].stage = "reserved"
    /\ book' = [book EXCEPT ![n] = NoTrade]
    /\ UNCHANGED <<cashLeft, realizedLoss>>

SizingNext ==
    \E n \in Names :
       \/ \E pair \in Prices : Reserve(n, pair[1], pair[2])
       \/ Fill(n) \/ CloseTrade(n) \/ Withdraw(n)
       \/ \E pair \in Prices, i \in 1..2 : Mark(n, pair[i])

SizingSpec == SizingInit /\ [][SizingNext]_sizingVars

-----------------------------------------------------------------------------
SizingTypeOK ==
    /\ book \in [Names -> [stage : {"none", "reserved", "open"}, qty : Nat, entry : Nat, stop : Nat, mark : Nat]]
    /\ cashLeft \in Int /\ realizedLoss \in Nat

\* Over any sequence of entries, fills, price moves, exits and withdrawals the
\* losses of the session plus what all open and reserved trades can still lose
\* at their stops stay within the session budget, costs included; cash covers
\* every reservation; no budget comes from a loss.  (size_long_entry)
SessionLossBounded ==
    /\ MaxSessionLoss >= 0 => SessionLoss + UsedRisk <= MaxSessionLoss
    /\ cashLeft >= SumIn({"reserved"}, ReservedCash)

\* The quantity is the largest that breaks no limit: against the limits
\* written as inequalities over all smaller and larger quantities.
SizeIsLargest ==
    LET Keeps(n, entry, stop, q) ==
            /\ q * entry <= TargetNotional
            /\ 1000 * (q * entry + SymbolUse(n)) <= PositionCap
            /\ 1000 * (q * entry + GrossUse) <= GrossCap
            /\ q * (entry + CostBuffer) + SumIn({"reserved"}, ReservedCash) <= cashLeft
            /\ 1000 * q * (entry - stop + CostBuffer) <= RiskBudget
    IN  \A n \in Names, pair \in Prices :
            book[n] = NoTrade /\ Equity > 0 =>
                LET q == SizeLongEntry(n, pair[1], pair[2])
                IN  (q > 0 => Keeps(n, pair[1], pair[2], q)) /\ ~Keeps(n, pair[1], pair[2], q + 1)
=============================================================================
