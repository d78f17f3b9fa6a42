-------------------------- MODULE FifoAttribution --------------------------
(***************************************************************************)
(* _attribute (operations/pnl_attribution.py) for one symbol: the lots of  *)
(* the window's opening, then its fills and account activities in their    *)
(* order.  A fill meets the oldest opposite lots one after the other;      *)
(* fees are divided with them and rounded down, the last part takes the    *)
(* rest.  Amounts are integers in units of the rounding quantum, the       *)
(* multiplier is one.  The checks of the evidence only refuse a window.    *)
(***************************************************************************)
EXTENDS Integers, Sequences, SequencesExt

CONSTANTS OpeningLots,   \* possible sequences of [qty, price, fee], one direction each
          Fills,         \* possible fills: [qty, price, fee]
          Activities,    \* possible account activities: [kind, cash]
          OpeningMark, TerminalMark, OpeningCash, MaxEvents

Amount == [qty : Int, price : Int, fee : Int]
ASSUME FifoAssumption ==
    /\ OpeningMark \in Nat /\ TerminalMark \in Nat /\ MaxEvents \in Nat /\ OpeningCash \in Int
    /\ OpeningLots \subseteq Seq(Amount)
    /\ \A ls \in OpeningLots : \A i, j \in DOMAIN ls : ls[i].qty * ls[j].qty > 0 /\ ls[i].fee >= 0
    /\ Fills \subseteq Amount /\ \A f \in Fills : f.qty # 0 /\ f.fee >= 0 /\ f.price >= 0
    /\ \A a \in Activities : a.kind \in {"CSD", "CSW", "DIV", "INT", "FEE"} /\ a.cash \in Int

VARIABLES opened,       \* the opening lots
          lots,         \* the present ones, oldest first
          fill,         \* what is left of the fill being matched
          events,       \* how many have begun
          position,     \* net quantity by the events alone
          cashChange, external, income, accountFees,
          realized, realizedFees

fifoVars == <<opened, lots, fill, events, position, cashChange, external, income, accountFees, realized, realizedFees>>

NoFill == [qty |-> 0, price |-> 0, fee |-> 0]
Size(q) == IF q < 0 THEN -q ELSE q
Sign(q) == IF q < 0 THEN -1 ELSE 1
QuantityOf(ls) == FoldLeft(LAMBDA total, l : total + l.qty, 0, ls)
Allocated(total, closed, available) == IF closed = available THEN total ELSE (total * closed) \div available

FifoInit ==
    /\ opened = <<>> /\ lots = <<>> /\ fill = NoFill /\ events = 0 /\ position = 0
    /\ cashChange = 0 /\ external = 0 /\ income = 0 /\ accountFees = 0 /\ realized = 0 /\ realizedFees = 0

OpenWindow(ls) ==
    /\ events = 0 /\ events' = 1
    /\ opened' = ls /\ lots' = ls /\ position' = QuantityOf(ls)
    /\ UNCHANGED <<fill, cashChange, external, income, accountFees, realized, realizedFees>>

Activity(a) ==
    /\ events \in 1..MaxEvents /\ fill = NoFill /\ events' = events + 1
    /\ cashChange' = cashChange + a.cash
    /\ external' = IF a.kind \in {"CSD", "CSW"} THEN external + a.cash ELSE external
    /\ income' = IF a.kind \in {"DIV", "INT"} THEN income + a.cash ELSE income
    /\ accountFees' = IF a.kind = "FEE" THEN accountFees - a.cash ELSE accountFees
    /\ UNCHANGED <<opened, lots, fill, position, realized, realizedFees>>

BeginFill(f) ==
    /\ events \in 1..MaxEvents /\ fill = NoFill /\ events' = events + 1
    /\ fill' = f /\ position' = position + f.qty
    /\ cashChange' = cashChange - f.qty * f.price - f.fee
    /\ UNCHANGED <<opened, lots, external, income, accountFees, realized, realizedFees>>

\* The oldest opposite lot is closed, wholly or in part, with its share of both
\* fees.
Opposite == fill.qty # 0 /\ lots # <<>> /\ fill.qty * Head(lots).qty < 0
MatchLot ==
    /\ Opposite
    /\ LET lot == Head(lots)
           sign == Sign(lot.qty)
           closed == IF Size(fill.qty) < Size(lot.qty) THEN Size(fill.qty) ELSE Size(lot.qty)
           oldFee == Allocated(lot.fee, closed, Size(lot.qty))
           exitFee == Allocated(fill.fee, closed, Size(fill.qty))
           rest == [lot EXCEPT !.qty = @ - sign * closed, !.fee = @ - oldFee]
       IN  /\ realized' = realized + sign * closed * (fill.price - lot.price)
           /\ realizedFees' = realizedFees + oldFee + exitFee
           /\ lots' = IF rest.qty = 0 THEN Tail(lots) ELSE <<rest>> \o Tail(lots)
           /\ LET left == [fill EXCEPT !.qty = @ + sign * closed, !.fee = @ - exitFee]
              IN  fill' = IF left.qty = 0 THEN [NoFill EXCEPT !.fee = left.fee] ELSE left
    /\ UNCHANGED <<opened, events, position, cashChange, external, income, accountFees>>

\* What no lot opposes becomes the newest lot.
OpenLot ==
    /\ fill.qty # 0 /\ ~Opposite
    /\ lots' = Append(lots, fill) /\ fill' = NoFill
    /\ UNCHANGED <<opened, events, position, cashChange, external, income, accountFees, realized, realizedFees>>

FifoNext ==
    \/ \E ls \in OpeningLots : OpenWindow(ls)
    \/ \E a \in Activities : Activity(a)
    \/ \E f \in Fills : BeginFill(f)
    \/ MatchLot \/ OpenLot

FifoSpec == FifoInit /\ [][FifoNext]_fifoVars

-----------------------------------------------------------------------------
FifoTypeOK ==
    events \in 0..(MaxEvents + 1) /\ fill.fee >= 0 /\ \A i \in DOMAIN lots : lots[i].qty # 0 /\ lots[i].fee >= 0

\* The attributed result is the equity change, whatever crosses zero, is closed
\* in parts or rounds: no fee is lost or counted twice, and realized and
\* unrealized results add up to what cash and marks say.
Unrealized(ls, mark) == FoldLeft(LAMBDA total, l : total + (l.qty * (mark - l.price) - l.fee), 0, ls)
AttributionIsExact ==
    events > 0 /\ fill = NoFill =>
        LET held == QuantityOf(opened)
            attributed == realized - realizedFees + Unrealized(lots, TerminalMark)
                          - Unrealized(opened, OpeningMark) + income - accountFees
            equityChange == (OpeningCash + cashChange + position * TerminalMark)
                            - (OpeningCash + held * OpeningMark) - external
        IN  attributed = equityChange /\ position = QuantityOf(lots)

\* Lots never face one another: between two fills they have one direction.
LotsAgree == fill = NoFill => \A i, j \in DOMAIN lots : lots[i].qty * lots[j].qty > 0

FifoIsSound == AttributionIsExact /\ LotsAgree /\ (fill.qty = 0 => fill.fee = 0)
=============================================================================
