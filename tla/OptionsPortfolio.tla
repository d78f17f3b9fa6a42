------------------------- MODULE OptionsPortfolio --------------------------
(***************************************************************************)
(* The modeled book of the option track: entries planned in a fixed order  *)
(* (research/phase3_options.py plan_entries), batches prepared with frozen *)
(* ceilings and applied at the same observation                            *)
(* (phase3_options_portfolio.py).  A day has three moments: 0 its UTC      *)
(* boundary, 1 the decision at 09:35, 2 later in the session.  An offer is *)
(* the price of the selected contract of an underlying with its costs, a   *)
(* mark the bid of the owned or offered contract; shares of equity are per *)
(* mille.  What an exit search may find is any of its outcomes.            *)
(***************************************************************************)
EXTENDS Integers, Sequences, SequencesExt, FiniteSets, FiniteSetsExt

CONSTANTS Underlyings, Premiums, OfferPrices, OptionFee, OptionCash,
          EntryShare, OutstandingShare, OptionLossLimit, MaxContracts,
          LastOptionDay, MaxOptionSteps

ASSUME OptionAssumption ==
    /\ IsFiniteSet(Underlyings) /\ (Premiums \cup OfferPrices) \subseteq Nat \ {0} /\ {OptionCash, MaxOptionSteps} \subseteq Nat \ {0}
    /\ {OptionFee, EntryShare, OutstandingShare, OptionLossLimit, MaxContracts, LastOptionDay} \subseteq Nat

VARIABLES optionBook,   \* the state document
          optionFills,  \* fills in order, with each loss seen and exit reason recorded
          optionSteps   \* operations so far

optionVars == <<optionBook, optionFills, optionSteps>>

Moments == 0..(3 * LastOptionDay + 2)
OptionDay(t) == t \div 3
DecisionAt(t) == 3 * OptionDay(t) + 1
InSession(t) == t >= DecisionAt(t)
NotOwned == [premium |-> 0]
NoOptionBatch == [at |-> -1]
UnderlyingOrder == SetToSeq(Underlyings)

\* initial_state
OptionInit ==
    /\ optionBook = [cash |-> OptionCash, positions |-> [u \in Underlyings |-> NotOwned], day |-> 0, baseline |-> 0,
                     halted |-> FALSE, batch |-> NoOptionBatch, attempted |-> [u \in Underlyings |-> -1],
                     closed |-> [u \in Underlyings |-> -1], appliedAt |-> -1]
    /\ optionFills = <<>> /\ optionSteps = 0

OwnedOptions(b) == {u \in Underlyings : b.positions[u] # NotOwned}
Outstanding(b) == SumFunction([u \in Underlyings |-> b.positions[u].premium])

\* _valuation at the bid; it needs a valid mark of every owned contract and
\* latches the halt.
OptionsValued(b, marks, t) == OptionDay(t) = b.day /\ OwnedOptions(b) \subseteq DOMAIN marks
OptionEquity(b, marks) == b.cash + SumFunction([u \in OwnedOptions(b) |-> marks[u]])
OptionLoss(b, marks, t) ==
    OptionsValued(b, marks, t) /\ b.baseline > 0 /\ OptionEquity(b, marks) * 1000 <= b.baseline * (1000 - OptionLossLimit)
Latched(b, marks, t) == [b EXCEPT !.halted = @ \/ OptionLoss(b, marks, t)]
LossMark(b, marks, t) == IF OptionLoss(b, marks, t) THEN <<[kind |-> "loss", at |-> t]>> ELSE <<>>

\* set_day_baseline
SetOptionBaseline(day, equity) ==
    /\ day >= optionBook.day /\ (optionBook.appliedAt >= 0 => day >= OptionDay(optionBook.appliedAt))
    /\ day = optionBook.day => optionBook.baseline \in {0, equity}
    /\ optionBook' = [optionBook EXCEPT !.day = day, !.baseline = equity, !.halted = @ /\ day = optionBook.day]
    /\ UNCHANGED optionFills

\* plan_entries: one ordered pass; a candidate takes its debit and its slot from
\* those after it, and a contract that is too dear is not replaced.
PlanContract(acc, u, b, equity, trend, offers) ==
    IF \/ b.positions[u] # NotOwned \/ b.halted \/ u \notin trend \/ u \notin DOMAIN offers
       \/ (offers[u] + OptionFee) * 1000 > equity * EntryShare
       \/ (acc.outstanding + offers[u]) * 1000 > equity * OutstandingShare
       \/ acc.held >= MaxContracts \/ offers[u] + OptionFee > acc.cash
    THEN acc
    ELSE [cash |-> acc.cash - offers[u] - OptionFee, outstanding |-> acc.outstanding + offers[u],
          held |-> acc.held + 1, candidates |-> acc.candidates \cup {u}]
PlanEntries(b, equity, trend, offers) ==
    FoldLeft(LAMBDA acc, u : PlanContract(acc, u, b, equity, trend, offers),
             [cash |-> b.cash, outstanding |-> Outstanding(b), held |-> Cardinality(OwnedOptions(b)), candidates |-> {}],
             UnderlyingOrder).candidates

\* prepare_batch: reasons to leave become pending, and each candidate gets a
\* ceiling from what those before it left.  Later in the session a batch may come
\* with exits only: without outputs for entries (listed) none is attempted.
KeptReason(b, exits, u) == b.positions[u].pending => exits[u] # "hold"
CeilingOf(b, equity, cash, outstanding) ==
    Max({0, Min({(equity * EntryShare) \div 1000, cash, (equity * OutstandingShare) \div 1000 - outstanding + OptionFee})})
Ceiling(acc, u, b, priced, equity, candidates, offers) ==
    LET ceiling == IF priced THEN CeilingOf(b, equity, acc.cash, acc.outstanding) ELSE 0
        fits == offers[u] + OptionFee <= ceiling
    IN  IF u \notin candidates THEN acc
        ELSE [cash |-> IF fits THEN acc.cash - offers[u] - OptionFee ELSE acc.cash,
              outstanding |-> IF fits THEN acc.outstanding + offers[u] ELSE acc.outstanding,
              of |-> [acc.of EXCEPT ![u] = ceiling]]
Ceilings(b, priced, equity, candidates, offers) ==
    FoldLeft(LAMBDA acc, u : Ceiling(acc, u, b, priced, equity, candidates, offers),
             [cash |-> b.cash, outstanding |-> Outstanding(b), of |-> [u \in Underlyings |-> 0]], UnderlyingOrder).of
MayPrepareOptions(t) == InSession(t) /\ optionBook.batch = NoOptionBatch /\ t >= optionBook.appliedAt
PrepareOptions(t, listed, trend, offers, exits, marks) ==
    LET valued == OptionsValued(optionBook, marks, t)
        b == Latched(optionBook, marks, t)
        equity == IF valued THEN OptionEquity(b, marks) ELSE b.cash
        candidates == PlanEntries(optionBook, equity, trend, offers)
        priced == t = DecisionAt(t) /\ valued /\ b.baseline > 0 /\ ~b.halted
        leaving == {u \in OwnedOptions(b) : exits[u] # "hold" /\ ~b.positions[u].pending}
    IN  /\ MayPrepareOptions(t) /\ (listed \/ offers = <<>>)
        /\ \A u \in OwnedOptions(b) : KeptReason(b, exits, u) /\ (exits[u] = "candidate" => u \in DOMAIN marks /\ marks[u] >= OptionFee)
        /\ optionBook' = [b EXCEPT !.positions = [u \in Underlyings |->
                                       IF u \in leaving THEN [b.positions[u] EXCEPT !.pending = TRUE] ELSE b.positions[u]],
                                   !.batch = [id |-> optionSteps, at |-> t, exits |-> exits, owned |-> OwnedOptions(b), cash |-> b.cash,
                                              marks |-> marks, listed |-> listed, candidates |-> candidates, offers |-> offers,
                                              ceilings |-> Ceilings(b, priced, equity, candidates, offers)]]
        /\ optionFills' = optionFills \o LossMark(optionBook, marks, t)
                              \o SetToSeq({[kind |-> "pending", u |-> u, at |-> t] : u \in leaving})

\* apply_batch: exits found at this very moment, then entries decided at it.
BookOptionExit(acc, u, t) ==
    LET premium == acc.book.batch.marks[u]
        credit == premium - OptionFee
    IN  IF u \notin acc.book.batch.owned \/ acc.book.batch.exits[u] # "candidate" \/ t # acc.book.batch.at THEN acc
        ELSE [book |-> [acc.book EXCEPT !.cash = @ + credit, !.positions[u] = NotOwned, !.closed[u] = OptionDay(t)],
              rows |-> Append(acc.rows, [kind |-> "sell", u |-> u, cash |-> credit, at |-> t])]
OptionWithinLimits(b, u, debit, premium, equity) ==
    /\ debit <= b.batch.ceilings[u] /\ debit * 1000 <= equity * EntryShare
    /\ (Outstanding(b) + premium) * 1000 <= equity * OutstandingShare
    /\ Cardinality(OwnedOptions(b)) < MaxContracts /\ debit <= b.cash
BookOptionEntry(acc, u, t, marks) ==
    LET tried == [acc.book EXCEPT !.attempted[u] = OptionDay(t)]
        b == Latched(tried, marks, t)
        premium == b.batch.offers[u]
        debit == premium + OptionFee
        seen == [book |-> b, rows |-> acc.rows \o LossMark(tried, marks, t)]
    IN  IF u \notin acc.book.batch.candidates THEN [acc EXCEPT !.book = tried]
        ELSE IF OptionDay(t) \in {acc.book.attempted[u], acc.book.closed[u]} THEN acc
        ELSE IF u \in OwnedOptions(tried) \/ t # DecisionAt(t) THEN [acc EXCEPT !.book = tried]
        ELSE IF \/ ~OptionsValued(tried, marks, t) \/ b.baseline = 0 \/ b.halted \/ u \notin DOMAIN marks
                \/ ~OptionWithinLimits(b, u, debit, premium, OptionEquity(b, marks))
             THEN seen
             ELSE [book |-> [b EXCEPT !.cash = @ - debit, !.positions[u] = [premium |-> premium, pending |-> FALSE]],
                   rows |-> Append(seen.rows, [kind |-> "buy", u |-> u, cash |-> -debit, at |-> t,
                                               batch |-> b.batch.id, budget |-> b.batch.cash])]
ExitAll(start, t) == FoldLeft(LAMBDA acc, u : BookOptionExit(acc, u, t), start, UnderlyingOrder)
EnterAll(exited, t, marks) ==
    IF exited.book.batch.listed THEN FoldLeft(LAMBDA acc, u : BookOptionEntry(acc, u, t, marks), exited, UnderlyingOrder)
    ELSE exited
ApplyOptions(t, marks) ==
    LET batch == optionBook.batch IN
    /\ batch # NoOptionBatch /\ t >= batch.at /\ OptionDay(t) = OptionDay(batch.at) /\ batch.owned = OwnedOptions(optionBook)
    /\ LET start == [book |-> Latched(optionBook, marks, t), rows |-> LossMark(optionBook, marks, t)]
           done == EnterAll(ExitAll(start, t), t, marks)
       IN  /\ optionBook' = [Latched(done.book, marks, t) EXCEPT !.batch = NoOptionBatch, !.appliedAt = t]
           /\ optionFills' = optionFills \o done.rows \o LossMark(done.book, marks, t)

Partially(S) == UNION {[D -> S] : D \in SUBSET Underlyings}
ExitsOf(b) ==
    {[u \in Underlyings |-> IF u \in OwnedOptions(b) THEN e[u] ELSE "hold"] :
         e \in [OwnedOptions(b) -> {"hold", "pending", "candidate"}]}
OptionOperation ==
    \/ \E day \in 0..LastOptionDay : SetOptionBaseline(day, OptionCash)
    \/ \E t \in Moments :
           /\ MayPrepareOptions(t)
           /\ \E offers \in Partially(OfferPrices), marks \in Partially(Premiums), exits \in ExitsOf(optionBook),
                 listed \in BOOLEAN :
                 PrepareOptions(t, listed, DOMAIN offers, offers, exits, marks)
    \/ \E t \in Moments : \E marks \in Partially(Premiums) : ApplyOptions(t, marks)
OptionNext == optionSteps < MaxOptionSteps /\ optionSteps' = optionSteps + 1 /\ OptionOperation
OptionSpec == OptionInit /\ [][OptionNext]_optionVars

-----------------------------------------------------------------------------
OptionTypeOK ==
    /\ optionBook.cash \in Int /\ optionBook.halted \in BOOLEAN /\ optionBook.appliedAt \in Moments \cup {-1}
    /\ \A u \in OwnedOptions(optionBook) : optionBook.positions[u].premium \in OfferPrices

FillRows(kind) == {i \in DOMAIN optionFills : optionFills[i].kind = kind}
OfUnderlying(u, kind) == {i \in FillRows(kind) : optionFills[i].u = u}
SameDay(i, j) == OptionDay(optionFills[i].at) = OptionDay(optionFills[j].at)

\* Cash is the initial cash and every fill, never negative; a contract is owned
\* exactly from its buy to its sell.
OptionsReconcile ==
    /\ optionBook.cash = OptionCash + SumFunction([i \in FillRows("buy") \cup FillRows("sell") |-> optionFills[i].cash])
    /\ optionBook.cash >= 0
    /\ \A u \in Underlyings :
          (u \in OwnedOptions(optionBook)) <=> \E i \in OfUnderlying(u, "buy") : \A j \in OfUnderlying(u, "sell") : j < i

\* A reason to leave, once recorded, stays with the contract until it is sold.
PendingIsKept ==
    \A u \in OwnedOptions(optionBook) :
        optionBook.positions[u].pending <=> \E i \in OfUnderlying(u, "pending") : \A j \in OfUnderlying(u, "buy") : j < i

\* No buy after the day's loss was seen, one buy a session and none after a sale.
OptionEntriesAreBounded ==
    \A i \in FillRows("buy"), j \in DOMAIN optionFills :
        SameDay(i, j) /\ i # j =>
            /\ optionFills[j].kind = "loss" => i < j
            /\ optionFills[j].kind \in {"buy", "sell"} /\ optionFills[j].u = optionFills[i].u =>
                  i < j /\ optionFills[j].kind = "sell"

\* What a batch sells does not pay for what it buys: its buys fit the cash there
\* was when the ceilings were frozen.
ProceedsWait ==
    \A i \in FillRows("buy") :
        LET together == {j \in FillRows("buy") : optionFills[j].batch = optionFills[i].batch}
        IN  -SumFunction([j \in together |-> optionFills[j].cash]) <= optionFills[i].budget

OptionBookIsSound == OptionsReconcile /\ PendingIsKept /\ OptionEntriesAreBounded /\ ProceedsWait
=============================================================================
