------------------------- MODULE CryptoServiceProofs -------------------------
(***************************************************************************)
(* What the crypto worker of CryptoService keeps, for any number of        *)
(* symbols, orders, days and lives.                                        *)
(*                                                                         *)
(* No intent is POSTed twice, an entry once per day, one order in flight   *)
(* and on record, halts that last.  None of these is inductive.  They rest *)
(* on three facts about the state file: memory and file differ only after  *)
(* a failed save, after which the process does nothing more; an intent is  *)
(* POSTed under a number no order has; and whatever the file may have      *)
(* missed, it has not missed an intent that was POSTed.  IInv says so,     *)
(* part by part.                                                           *)
(*                                                                         *)
(* What the worker says it owns: alone in the account its books are exact  *)
(* and its sells are covered; with others in the account they are off by   *)
(* at most the fees its entries may have paid.  The books of a record are  *)
(* exact only while nothing is pending.  What carries the proof over an    *)
(* order is the balance it started from: the pending intent remembers what *)
(* was owned (Books), the account is off it by what was filled (Exact,     *)
(* Drift), and positions read before the last fill lag by a whole lot,     *)
(* more than the fees of an entry can hide.                                *)
(***************************************************************************)
EXTENDS CryptoService, FiniteSetTheorems, TLAPS

LEMMA ConstantFacts ==
  /\ NSymbols \in Nat /\ NSymbols > 0 /\ SeedQty \in Nat /\ SeedTried \subseteq 1..NSymbols
  /\ BuyLots \in Nat /\ BuyLots > 0 /\ Lot \in Nat /\ Lot > BuyLots
  /\ ForeignUnits \subseteq Nat \ {0} /\ Faults \in BOOLEAN
  /\ MaxOrders \in Nat /\ MaxOrders > 0 /\ MaxDay \in Nat /\ MaxDay > 0
  /\ MaxLives \in Nat /\ MaxLives > 0
  BY SizeAssumption, FaultAssumption, LimitAssumption

-----------------------------------------------------------------------------
(* The inductive invariant.                                                *)

\* The tick has saved an intent and not POSTed it yet.
Sending == pc \in {"announce", "post"}

Unseeded(r) == ~r.seeded /\ SeedQty > 0

\* The steps of a tick before the seed is known to be adopted.
Early == {"idle", "orders", "seed"}

\* Memory runs ahead of the file when a save has failed, and then this process
\* is done, or while the seed is not adopted, and then no tick goes further.
Storage ==
  /\ ~storageFailed => Unseeded(st) \/ st = disk
  /\ pc # "idle" => ~storageFailed
  /\ pc \notin Early => ~Unseeded(st)

\* Both records know every number that was POSTed, and each was POSTed once.
Numbering ==
  /\ \A r \in {st, disk} : r.pending # NoIntent =>
       r.pending.id \in Ids /\ r.pending.id <= r.sequence
  /\ \A k \in Ids :
       /\ posts[k] <= 1
       /\ posts[k] = 0 <=> order[k].status = "absent"
       /\ posts[k] > 0 => k <= st.sequence /\ k <= disk.sequence
  /\ Sending => st.pending # NoIntent /\ posts[st.pending.id] = 0

\* An order the broker may trade is the pending one of both records.
InFlight ==
  \A k \in Ids : InMarket(k) => st.pending.id = k /\ disk.pending = st.pending

\* An order at the broker is the one its intent announced.
Matching ==
  \A r \in {st, disk} :
    r.pending # NoIntent /\ posts[r.pending.id] > 0 =>
      /\ order[r.pending.id].sym = r.pending.sym
      /\ order[r.pending.id].side = r.pending.side
      /\ order[r.pending.id].qty = r.pending.qty

\* Every entry POSTed is on record as tried, and the one about to leave is the
\* first of its day.
Entering ==
  /\ \A k \in Ids : Posted(k, "buy") =>
       <<order[k].day, order[k].sym>> \in st.tried \cap disk.tried
  /\ EntryOncePerDay
  /\ Sending /\ st.pending.side = "buy" =>
       /\ <<tickDay, st.pending.sym>> \in st.tried
       /\ \A k \in Ids : Posted(k, "buy") =>
            <<order[k].day, order[k].sym>> # <<tickDay, st.pending.sym>>

\* Neither record is older than a day whose limit was reached, and the one
\* that is as old is halted.
Halting ==
  /\ tickDay <= today
  /\ \A r \in {st, disk} :
       /\ r.day <= tickDay
       /\ \A d \in haltDays : d < r.day \/ (d = r.day /\ r.halted)
  /\ pc \in {"limit", "plan", "announce", "post"} => st.day = tickDay
  /\ Sending /\ st.pending.side = "buy" => ~st.halted

IInv == /\ TypeOK /\ Storage /\ Numbering /\ InFlight /\ Matching
        /\ Entering /\ Halting

-----------------------------------------------------------------------------
(* Steps that write nothing: the tick reads, waits, or moves on.           *)

OrderRecord == [status : OrderStatus, sym : Symbols, side : {"buy", "sell"},
                qty : Nat, filled : Nat, day : Days]

\* The tick goes from one step to the next, or ends, on unchanged records.
Passing ==
  /\ UNCHANGED <<st, disk, storageFailed, tickDay, brokerVars, today,
                 historyVars>>
  /\ held' \in [Symbols -> Nat] /\ openSymbols' \subseteq Symbols
  /\ pc' \in Steps
  /\ pc' # "idle" => ~storageFailed
  /\ pc' \notin Early => ~Unseeded(st)
  /\ pc' \in {"limit", "plan"} => st.day = tickDay
  /\ Sending' => Sending

LEMMA PassingStep == IInv /\ Passing => IInv'
<1> SUFFICES ASSUME IInv, Passing PROVE IInv'
  OBVIOUS
<1> USE DEF Passing, brokerVars, historyVars
<1>1. TypeOK'
  BY DEF IInv, TypeOK
<1>2. Storage' /\ Numbering'
  BY DEF IInv, Storage, Numbering
<1>3. InFlight' /\ Matching'
  BY DEF IInv, InFlight, Matching, InMarket
<1>4. Entering'
  BY DEF IInv, Entering, EntryOncePerDay, Posted
<1>5. Halting'
  BY DEF IInv, Halting, Sending
<1>6. QED BY <1>1, <1>2, <1>3, <1>4, <1>5 DEF IInv

LEMMA ReadingStep ==
  ASSUME IInv,
         \/ TickRefused \/ ReadOrders \/ TickFails \/ SeedNotNeeded
         \/ NothingPending \/ StillPending \/ Unreconciled \/ SameDay
         \/ LimitNotReached \/ NothingToSubmit \/ IntentCreated \/ PostNotSent
  PROVE  IInv'
<1> USE DEF IInv, TypeOK, Storage, Halting, Passing, Quiet, Sending, Steps,
            Early, Unseeded, brokerVars, historyVars
<1>1. CASE TickRefused
  BY <1>1, PassingStep DEF TickRefused, vars, processVars
<1>2. CASE ReadOrders
  BY <1>2, PassingStep DEF ReadOrders
<1>3. CASE TickFails \/ SeedNotNeeded
  BY <1>3, PassingStep DEF TickFails, SeedNotNeeded, EndTick
<1>4. CASE NothingPending \/ StillPending \/ Unreconciled
  BY <1>4, PassingStep DEF NothingPending, StillPending, Unreconciled, EndTick
<1>5. CASE SameDay \/ LimitNotReached \/ NothingToSubmit
  BY <1>5, PassingStep DEF SameDay, LimitNotReached, NothingToSubmit, EndTick
<1>6. CASE IntentCreated \/ PostNotSent
  BY <1>6, PassingStep DEF IntentCreated, PostNotSent, EndTick
<1>7. QED BY <1>1, <1>2, <1>3, <1>4, <1>5, <1>6

\* Positions are read at the start of a tick, with the day they belong to.
LEMMA ReadPositionsStep == IInv /\ ReadPositions => IInv'
<1> SUFFICES ASSUME IInv, ReadPositions PROVE IInv'
  OBVIOUS
<1> USE DEF ReadPositions, brokerVars, historyVars
<1>1. TypeOK'
  BY DEF IInv, TypeOK, Steps
<1>2. Storage' /\ Numbering'
  BY DEF IInv, Storage, Numbering, Sending, Early
<1>3. InFlight' /\ Matching'
  BY DEF IInv, InFlight, Matching, InMarket
<1>4. Entering'
  BY DEF IInv, Entering, EntryOncePerDay, Posted, Sending
<1>5. Halting'
  BY ConstantFacts DEF IInv, Halting, Sending, TypeOK, State, Days
<1>6. QED BY <1>1, <1>2, <1>3, <1>4, <1>5 DEF IInv

-----------------------------------------------------------------------------
(* Steps that write the record.                                            *)

\* A save of new, good or failed: memory has it, the file may.
Written(new) ==
  /\ st' = new /\ disk' \in {disk, new}
  /\ storageFailed' \in BOOLEAN
  /\ storageFailed' = TRUE \/ disk' = new
  /\ pc' # "idle" => storageFailed' = FALSE
  /\ pc' \notin Early => ~Unseeded(new)

LEMMA NotFailed ==
  IInv /\ pc # "idle" => storageFailed = FALSE /\ (pc \notin Early => st = disk)
  BY DEF IInv, Storage, TypeOK

\* A tick writes a record that leaves the orders' numbers and entries as they
\* are: the seed, a new day, a halt.
LEMMA WrittenStep ==
  ASSUME IInv, NEW new \in State, Written(new), pc # "idle", ~Sending', pc' \in Steps,
         UNCHANGED <<tickDay, held, openSymbols, order, holding, net, today,
                     posts, life>>,
         new.pending = st.pending, new.sequence = st.sequence,
         st.tried \subseteq new.tried
  PROVE  /\ haltDays' \subseteq Days => TypeOK'
         /\ Storage' /\ Numbering' /\ InFlight' /\ Matching' /\ Entering'
<1>1. haltDays' \subseteq Days => TypeOK'
  BY DEF IInv, TypeOK, Written
<1>2. Storage'
  BY DEF Storage, Written
<1>3. Numbering'
  BY DEF IInv, Storage, Numbering, Written
<1>4. InFlight' /\ Matching'
  BY DEF IInv, Storage, InFlight, Matching, InMarket, Written
<1>5. Entering'
  BY DEF IInv, Storage, Entering, EntryOncePerDay, Posted, Written
<1>6. QED BY <1>1, <1>2, <1>3, <1>4, <1>5

LEMMA SeedVerifiedStep == IInv /\ SeedVerified => IInv'
<1> SUFFICES ASSUME IInv, SeedVerified PROVE IInv'
  OBVIOUS
<1>1. /\ Seeded \in State /\ Seeded.pending = st.pending
      /\ Seeded.sequence = st.sequence /\ st.tried \subseteq Seeded.tried
      /\ Seeded.day = st.day /\ Seeded.halted = st.halted /\ Seeded.seeded
  <2>1. st \in State /\ SeedAttempts \in SUBSET (Days \X Symbols)
    BY ConstantFacts, 1 \in Days DEF IInv, TypeOK, SeedAttempts, Days, Symbols
  <2>2. QED BY <2>1, ConstantFacts DEF State, Seeded, Symbols
<1>2. Written(Seeded) /\ ~Sending' /\ pc' \in Steps \ {"limit", "plan"}
  BY <1>1, NotFailed DEF Save, SaveFails, Written, SeedVerified, SeedDue, EndTick,
                         Sending, Steps, Unseeded
<1>3. UNCHANGED <<tickDay, held, openSymbols, order, holding, net, today,
                  posts, haltDays, life>> /\ pc # "idle"
  BY DEF SeedVerified, SeedDue, Quiet, brokerVars, historyVars
<1>4. Halting'
  BY <1>1, <1>2, <1>3 DEF IInv, Storage, Halting, Written, Sending
<1>5. QED BY <1>1, <1>2, <1>3, <1>4, WrittenStep DEF IInv, TypeOK

\* A failing verification writes attempts in memory only, and ends the tick.
LEMMA SeedUnverifiedStep == IInv /\ SeedUnverified => IInv'
<1> SUFFICES ASSUME IInv, SeedUnverified PROVE IInv'
  OBVIOUS
<1>1. PICK some \in SUBSET SeedAttempts : st' = [st EXCEPT !.tried = @ \cup some]
  BY DEF SeedUnverified
<1>2. /\ pc = "seed" /\ Unseeded(st) /\ pc' = "idle"
      /\ UNCHANGED <<storageFailed, disk, tickDay, held, openSymbols, order, holding,
                     net, today, posts, haltDays, life>>
  BY DEF SeedUnverified, SeedDue, EndTick, Quiet, Unseeded, brokerVars, historyVars
<1>3. /\ st' \in State /\ st'.pending = st.pending /\ st'.sequence = st.sequence
      /\ st.tried \subseteq st'.tried /\ st'.day = st.day /\ st'.halted = st.halted
      /\ st'.seeded = st.seeded
  <2>1. st \in State /\ some \in SUBSET (Days \X Symbols)
    BY ConstantFacts, 1 \in Days DEF IInv, TypeOK, SeedAttempts, Days, Symbols
  <2>2. QED BY <1>1, <2>1 DEF State
<1>4. TypeOK' /\ Storage'
  BY <1>2, <1>3 DEF IInv, TypeOK, Steps, Storage, Early, Unseeded
<1>5. Numbering' /\ InFlight' /\ Matching'
  BY <1>2, <1>3 DEF IInv, Numbering, InFlight, InMarket, Matching, Sending
<1>6. Entering' /\ Halting'
  BY <1>2, <1>3 DEF IInv, Entering, EntryOncePerDay, Posted, Halting, Sending
<1>7. QED BY <1>4, <1>5, <1>6 DEF IInv

LEMMA NewDayStep == IInv /\ NewDay => IInv'
<1> SUFFICES ASSUME IInv, NewDay PROVE IInv'
  OBVIOUS
<1> DEFINE new == [st EXCEPT !.day = tickDay, !.halted = FALSE]
<1>0. tickDay \in 0..MaxDay /\ st \in State
  BY ConstantFacts DEF IInv, TypeOK, Days
<1>1. /\ new \in State /\ new.pending = st.pending
      /\ new.sequence = st.sequence /\ new.tried = st.tried
      /\ new.day = tickDay /\ new.seeded = st.seeded
  BY <1>0 DEF State
<1>2. Written(new) /\ ~Sending' /\ pc' \in Steps \ {"plan"}
  <2>1. pc = "daily" /\ ~Unseeded(new)
    BY <1>1 DEF NewDay, IInv, Storage, Early, Unseeded
  <2> HIDE DEF new
  <2>2. st' = new /\ ((Save(new) /\ pc' = "limit") \/ (SaveFails(new) /\ EndTick))
    BY DEF NewDay, Save, SaveFails, new
  <2>3. QED BY <2>1, <2>2, NotFailed DEF Save, SaveFails, Written, EndTick, Sending, Steps
<1>3. /\ UNCHANGED <<tickDay, held, openSymbols, order, holding, net, today,
                     posts, haltDays, life>>
      /\ pc # "idle" /\ st.day # tickDay
  BY DEF NewDay, Quiet, brokerVars, historyVars
<1> HIDE DEF new
<1>4. \A d \in haltDays : d \in Nat
  BY DEF IInv, TypeOK, Days
<1>5. tickDay \in Nat /\ st.day \in Nat /\ disk.day \in Nat /\ st = disk
  BY <1>3, NotFailed DEF NewDay, IInv, TypeOK, State, Days, Early
<1>6. \A d \in haltDays : d < tickDay
  BY <1>3, <1>4, <1>5 DEF IInv, Halting
<1>7. Halting'
  BY <1>1, <1>2, <1>3, <1>5, <1>6 DEF IInv, Halting, Written, Sending
<1>8. QED BY <1>1, <1>2, <1>3, <1>7, WrittenStep DEF IInv, TypeOK

LEMMA LimitReachedStep == IInv /\ LimitReached => IInv'
<1> SUFFICES ASSUME IInv, LimitReached PROVE IInv'
  OBVIOUS
<1> DEFINE new == [st EXCEPT !.halted = TRUE]
<1>1. /\ new \in State /\ new.pending = st.pending
      /\ new.sequence = st.sequence /\ new.tried = st.tried
      /\ new.day = st.day /\ new.halted /\ new.seeded = st.seeded
  BY DEF IInv, TypeOK, State
<1>2. Written(new) /\ ~Sending' /\ pc' \in Steps
  <2>1. pc = "limit" /\ ~Unseeded(new)
    BY <1>1 DEF LimitReached, IInv, Storage, Early, Unseeded
  <2> HIDE DEF new
  <2>2. st' = new /\ ((Save(new) /\ pc' = "plan") \/ (SaveFails(new) /\ EndTick))
    BY DEF LimitReached, Save, SaveFails, new
  <2>3. QED BY <2>1, <2>2, NotFailed DEF Save, SaveFails, Written, EndTick, Sending, Steps
<1>3. /\ UNCHANGED <<tickDay, held, openSymbols, order, holding, net, today,
                     posts, life>>
      /\ pc # "idle" /\ st.day = tickDay /\ tickDay \in Days
      /\ \/ haltDays' = haltDays
         \/ haltDays' = haltDays \cup {tickDay} /\ disk' = st'
  BY DEF LimitReached, Save, brokerVars, IInv, TypeOK, Halting
<1> HIDE DEF new
<1>4. Halting'
  BY <1>1, <1>2, <1>3 DEF IInv, Storage, Halting, Written, Sending
<1>5. haltDays' \subseteq Days
  BY <1>3 DEF IInv, TypeOK
<1>6. QED BY <1>1, <1>2, <1>3, <1>4, <1>5, WrittenStep DEF IInv

\* A reconciled order is done, and no order is left in the market.
LEMMA ReconciledStep == IInv /\ PendingReconciled => IInv'
<1> SUFFICES ASSUME IInv, PendingReconciled PROVE IInv'
  OBVIOUS
<1>1. /\ st.pending # NoIntent /\ st.pending.id \in Ids
      /\ order[st.pending.id].status = "done"
      /\ OwnedAfter \in Nat /\ pc # "idle" /\ st = disk
  BY NotFailed DEF PendingReconciled, Balances, IInv, Numbering, PendingOrder,
         OwnedAfter, TypeOK, State, Intent, Early
<1>2. \A k \in Ids : ~InMarket(k)
  BY <1>1 DEF IInv, InFlight, InMarket
<1>3. NoIntent \in Intent /\ NoIntent.id = 0
  BY ConstantFacts DEF NoIntent, Intent, Symbols
<1>4. /\ Reconciled \in State /\ Reconciled.pending = NoIntent
      /\ Reconciled.sequence = st.sequence /\ Reconciled.tried = st.tried
      /\ Reconciled.day = st.day /\ Reconciled.halted = st.halted
      /\ Reconciled.seeded = st.seeded
  BY <1>1, <1>3 DEF IInv, TypeOK, State, Intent, Reconciled
<1>5. Written(Reconciled) /\ ~Sending' /\ pc' \in Steps \ {"limit", "plan"}
  <2>1. pc = "reconcile" /\ ~Unseeded(Reconciled)
    BY <1>4 DEF PendingReconciled, IInv, Storage, Early, Unseeded
  <2>2. QED BY <2>1, NotFailed DEF Save, SaveFails, Written, PendingReconciled, EndTick,
                           Sending, Steps
<1>6. UNCHANGED <<tickDay, held, openSymbols, order, holding, net, today,
                  posts, haltDays, life>>
  BY DEF PendingReconciled, Quiet, brokerVars, historyVars
<1>7. TypeOK'
  BY <1>4, <1>5, <1>6 DEF IInv, TypeOK, Written
<1>8. Storage' /\ Halting'
  BY <1>1, <1>4, <1>5, <1>6 DEF IInv, Storage, Halting, Written, Sending
<1>9. Numbering'
  BY <1>1, <1>4, <1>5, <1>6 DEF IInv, Numbering, Written
<1>10. InFlight' /\ Matching'
  BY <1>1, <1>2, <1>4, <1>5, <1>6 DEF IInv, InFlight, Matching, InMarket, Written
<1>11. Entering'
  BY <1>1, <1>4, <1>5, <1>6 DEF IInv, Entering, EntryOncePerDay, Posted, Written
<1>12. QED BY <1>7, <1>8, <1>9, <1>10, <1>11 DEF IInv

\* What submit has compared before it writes an intent.
LEMMA ChosenFacts ==
  ASSUME TypeOK, NEW s \in Symbols, NEW bullish \in SUBSET Symbols,
         NEW usable \in SUBSET Symbols, NEW enabled \in BOOLEAN,
         Chosen(s, bullish, usable, enabled)
  PROVE  /\ held[s] = st.owned[s]
         /\ held[s] = 0 => ~st.halted /\ <<tickDay, s>> \notin st.tried
<1>1. s \in ExitsPlanned(bullish, usable)
      \/ s \in EntriesPlanned(bullish, usable, enabled)
  BY DEF Chosen, Candidates
<1>2. CASE s \in ExitsPlanned(bullish, usable)
  BY <1>2 DEF ExitsPlanned, Blocked, TypeOK
<1>3. CASE s \in EntriesPlanned(bullish, usable, enabled)
  BY <1>3 DEF EntriesPlanned, Blocked
<1>4. QED BY <1>1, <1>2, <1>3

\* The intent submit writes, and what it leaves of the record.
LEMMA AnnouncedFacts ==
  ASSUME st \in State, held \in [Symbols -> Nat], tickDay \in Days,
         st.sequence < MaxOrders, NEW s \in Symbols, NEW q \in Nat
  PROVE  LET new == Announced(s, q)
         IN /\ new \in State
            /\ new.owned = st.owned /\ new.day = st.day
            /\ new.halted = st.halted /\ new.seeded = st.seeded
            /\ new.sequence = st.sequence + 1
            /\ new.pending.id = st.sequence + 1 /\ new.pending.id \in Ids
            /\ new.pending.sym = s /\ new.pending.qty = q
            /\ new.pending.side = IF held[s] = 0 THEN "buy" ELSE "sell"
            /\ new.pending.before = held[s]
            /\ new.pending.owned = st.owned[s]
            /\ st.tried \subseteq new.tried
            /\ held[s] = 0 => <<tickDay, s>> \in new.tried
<1> DEFINE side == IF held[s] = 0 THEN "buy" ELSE "sell"
           new == Announced(s, q)
<1>1. st.sequence \in 0..MaxOrders /\ st.owned \in [Symbols -> Nat]
      /\ st.tried \in SUBSET (Days \X Symbols)
  BY DEF State
<1>2. st.sequence + 1 \in Ids /\ st.sequence + 1 \in 0..MaxOrders
  BY <1>1, ConstantFacts DEF Ids
<1>3. [id |-> st.sequence + 1, sym |-> s, side |-> side, qty |-> q,
       before |-> held[s], owned |-> st.owned[s]] \in Intent
  BY <1>1, <1>2 DEF Intent
<1>4. st.tried \cup {<<tickDay, s>>} \in SUBSET (Days \X Symbols)
  BY <1>1
<1>5. new \in State
  BY <1>1, <1>2, <1>3, <1>4 DEF State, Announced
<1>6. /\ new.owned = st.owned /\ new.day = st.day
      /\ new.halted = st.halted /\ new.seeded = st.seeded
      /\ new.sequence = st.sequence + 1
      /\ new.tried = IF side = "buy" THEN st.tried \cup {<<tickDay, s>>}
                                     ELSE st.tried
      /\ new.pending = [id |-> st.sequence + 1, sym |-> s, side |-> side,
                        qty |-> q, before |-> held[s], owned |-> st.owned[s]]
  BY DEF State, Announced
<1>7. QED BY <1>2, <1>5, <1>6

LEMMA SubmitFacts ==
  ASSUME IInv, Submit
  PROVE  /\ \E s \in Symbols, q \in Nat :
              /\ held[s] = st.owned[s]
              /\ held[s] = 0 => /\ ~st.halted /\ <<tickDay, s>> \notin st.tried
                                /\ q = BuyLots * Lot
              /\ held[s] # 0 => q <= held[s]
              /\ Written(Announced(s, q))
         /\ pc' \in {"announce", "idle"} /\ pc = "plan"
         /\ st = disk /\ st.pending = NoIntent /\ st.sequence < MaxOrders
         /\ pc' = "announce" => disk' = st'
         /\ UNCHANGED <<tickDay, held, openSymbols, order, holding, net, today,
                        posts, haltDays, life>>
<1>1. /\ pc = "plan" /\ st.pending = NoIntent /\ st.sequence < MaxOrders
      /\ UNCHANGED <<tickDay, held, openSymbols, order, holding, net, today,
                     posts, haltDays, life>>
  BY DEF Submit, Quiet, brokerVars, historyVars
<1>2. st = disk /\ storageFailed = FALSE
  BY <1>1, NotFailed DEF Early
<1>3. PICK bullish \in SUBSET Symbols, usable \in SUBSET Symbols,
           enabled \in BOOLEAN, s \in Symbols :
        /\ Chosen(s, bullish, usable, enabled)
        /\ \E q \in IF held[s] = 0 THEN {BuyLots * Lot} ELSE 1..held[s] :
             \/ Save(Announced(s, q)) /\ pc' = "announce"
             \/ SaveFails(Announced(s, q)) /\ EndTick
  BY DEF Submit
<1>4. PICK q \in IF held[s] = 0 THEN {BuyLots * Lot} ELSE 1..held[s] :
        \/ Save(Announced(s, q)) /\ pc' = "announce"
        \/ SaveFails(Announced(s, q)) /\ EndTick
  BY <1>3
<1>5. /\ q \in Nat
      /\ held[s] = 0 => q = BuyLots * Lot
      /\ held[s] # 0 => q <= held[s]
<2>1. held[s] \in Nat /\ BuyLots * Lot \in Nat
  BY ConstantFacts DEF IInv, TypeOK
<2>2. CASE held[s] = 0
  BY <1>4, <2>1, <2>2
<2>3. CASE held[s] # 0
  BY <1>4, <2>1, <2>3
<2>4. QED BY <2>2, <2>3
<1>6. /\ Written(Announced(s, q)) /\ pc' \in {"announce", "idle"}
      /\ pc' = "announce" => disk' = st'
<2>0. ~Unseeded(Announced(s, q))
  <3>1. ~Unseeded(st) /\ st \in State /\ held \in [Symbols -> Nat] /\ tickDay \in Days
    BY <1>1 DEF IInv, Storage, TypeOK, Early
  <3>2. Announced(s, q).seeded = st.seeded
    BY <3>1 DEF State, Announced
  <3>3. QED BY <3>1, <3>2 DEF Unseeded
<2>1. CASE Save(Announced(s, q)) /\ pc' = "announce"
  BY <2>0, <2>1, <1>2 DEF Save, Written
<2>2. CASE SaveFails(Announced(s, q)) /\ EndTick
  BY <2>0, <2>2 DEF SaveFails, EndTick, Written, Early
<2>3. QED BY <1>4, <2>1, <2>2
<1>7. /\ held[s] = st.owned[s]
      /\ held[s] = 0 => ~st.halted /\ <<tickDay, s>> \notin st.tried
  BY <1>3, ChosenFacts DEF IInv
<1>8. QED BY <1>1, <1>2, <1>5, <1>6, <1>7

LEMMA SubmitStep == IInv /\ Submit => IInv'
<1> SUFFICES ASSUME IInv, Submit PROVE IInv'
  OBVIOUS
<1>1. PICK s \in Symbols, q \in Nat :
        /\ held[s] = st.owned[s]
        /\ held[s] = 0 => ~st.halted /\ <<tickDay, s>> \notin st.tried
        /\ Written(Announced(s, q))
  BY SubmitFacts
<1>2. /\ pc' \in {"announce", "idle"} /\ pc = "plan"
      /\ st = disk /\ st.pending = NoIntent /\ st.sequence < MaxOrders
      /\ pc' = "announce" => disk' = st'
      /\ UNCHANGED <<tickDay, held, openSymbols, order, holding, net, today,
                     posts, haltDays, life>>
  BY SubmitFacts
<1> DEFINE new == Announced(s, q)
<1>3. /\ new \in State /\ new.day = st.day /\ new.halted = st.halted
      /\ new.sequence = st.sequence + 1
      /\ new.pending.id = st.sequence + 1 /\ new.pending.id \in Ids
      /\ new.pending.sym = s
      /\ new.pending.side = "buy" => held[s] = 0
      /\ st.tried \subseteq new.tried
      /\ held[s] = 0 => <<tickDay, s>> \in new.tried
  BY <1>2, AnnouncedFacts DEF IInv, TypeOK
<1>4. st' = new /\ disk' \in {disk, new} /\ (disk' = disk \/ disk' = st')
  BY <1>1 DEF Written
<1> HIDE DEF new
<1>5. TypeOK'
  BY <1>1, <1>2, <1>3, <1>4 DEF IInv, TypeOK, Written, Steps
<1>6. Storage'
  BY <1>1, <1>4 DEF Storage, Written
<1>7. NoIntent.id = 0 /\ new.pending # NoIntent
  BY <1>3 DEF NoIntent, Ids
<1>8. st.sequence \in Nat /\ \A k \in Ids : posts[k] > 0 => k <= st.sequence
  BY DEF IInv, TypeOK, State, Numbering
<1>9. posts[new.pending.id] = 0
<2>1. posts[new.pending.id] \in Nat
  BY <1>3 DEF IInv, TypeOK
<2>2. ~(new.pending.id <= st.sequence)
  BY <1>3, <1>8
<2>3. QED BY <1>3, <1>8, <2>1, <2>2
<1>10. Numbering'
  <2>1. \A r \in {st', disk'} : r.pending # NoIntent =>
          r.pending.id \in Ids /\ r.pending.id <= r.sequence
    BY <1>2, <1>3, <1>4, <1>8 DEF IInv, Numbering
  <2>2. \A k \in Ids : /\ posts[k] <= 1
                       /\ posts[k] = 0 <=> order[k].status = "absent"
                       /\ posts[k] > 0 => k <= st'.sequence /\ k <= disk'.sequence
    BY <1>2, <1>3, <1>4, <1>8 DEF IInv, Numbering, Ids
  <2>3. QED BY <2>1, <2>2, <1>2, <1>4, <1>7, <1>9 DEF Numbering
<1>11. \A k \in Ids : ~InMarket(k)
  BY <1>2, <1>7 DEF IInv, InFlight, InMarket, Ids
<1>12. InFlight'
  BY <1>2, <1>11 DEF InFlight, InMarket
<1>13. Matching'
  BY <1>2, <1>4, <1>9 DEF Matching
<1>14. Entering'
  <2>1. \A k \in Ids : Posted(k, "buy") =>
          <<order[k].day, order[k].sym>> \in st'.tried \cap disk'.tried
    BY <1>2, <1>3, <1>4 DEF IInv, Entering
  <2>2. EntryOncePerDay'
    BY <1>2 DEF IInv, Entering, EntryOncePerDay, Posted
  <2>3. ASSUME Sending', st'.pending.side = "buy"
        PROVE  /\ <<tickDay, s>> \in st'.tried
               /\ \A k \in Ids : Posted(k, "buy") =>
                    <<order[k].day, order[k].sym>> # <<tickDay, s>>
    BY <1>1, <1>3, <1>4, <2>3 DEF IInv, Entering
  <2>4. QED BY <1>2, <1>3, <1>4, <2>1, <2>2, <2>3 DEF Entering, Posted
<1>15. Halting'
  BY <1>1, <1>2, <1>3, <1>4 DEF IInv, Halting, Sending
<1>16. QED BY <1>5, <1>6, <1>10, <1>12, <1>13, <1>14, <1>15 DEF IInv

-----------------------------------------------------------------------------
(* The POST, the broker, and the world.                                    *)

\* Nothing is in the market when an intent leaves, and it leaves as the first
\* order of its number and, for an entry, of its day.
LEMMA PostStep == IInv /\ Post => IInv'
<1> SUFFICES ASSUME IInv, Post PROVE IInv'
  OBVIOUS
<1> DEFINE id == st.pending.id
           new == [status |-> "sent", sym |-> st.pending.sym,
                   side |-> st.pending.side, qty |-> st.pending.qty,
                   filled |-> 0, day |-> tickDay]
<1>1. /\ pc = "post" /\ pc' = "idle"
      /\ order' = [order EXCEPT ![id] = new]
      /\ posts' = [posts EXCEPT ![id] = @ + 1]
      /\ UNCHANGED <<st, storageFailed, tickDay, held, openSymbols, disk,
                     holding, net, today, haltDays, life>>
  BY DEF Post, EndTick
<1>2. /\ st = disk /\ storageFailed = FALSE
      /\ st.pending # NoIntent /\ id \in Ids /\ posts[id] = 0
  BY <1>1, NotFailed DEF IInv, Numbering, Sending, Early
<1>3. new \in OrderRecord
  BY DEF IInv, TypeOK, State, Intent, OrderRecord, OrderStatus
<1>4. order \in [Ids -> OrderRecord] /\ posts \in [Ids -> Nat]
  BY DEF IInv, TypeOK, OrderRecord
<1> HIDE DEF new
<1>5. /\ order'[id] = new /\ posts'[id] = 1
      /\ \A k \in Ids \ {id} : order'[k] = order[k] /\ posts'[k] = posts[k]
      /\ order' \in [Ids -> OrderRecord] /\ posts' \in [Ids -> Nat]
  BY <1>1, <1>2, <1>3, <1>4
<1>6. /\ new.status = "sent" /\ new.sym = st.pending.sym /\ new.day = tickDay
      /\ new.side = st.pending.side /\ new.qty = st.pending.qty
  BY DEF new
<1> HIDE DEF id
<1>7. TypeOK'
  BY <1>1, <1>5 DEF IInv, TypeOK, OrderRecord, Steps
<1>8. Storage'
  BY <1>1, <1>2 DEF Storage, Early
<1>9. id <= st.sequence
  BY <1>2 DEF IInv, Numbering, id
<1>10. Numbering'
  <2>1. \A k \in Ids :
          /\ posts'[k] <= 1
          /\ posts'[k] = 0 <=> order'[k].status = "absent"
          /\ posts'[k] > 0 => k <= st.sequence /\ k <= disk.sequence
    <3> SUFFICES ASSUME NEW k \in Ids
                 PROVE  /\ posts'[k] <= 1
                        /\ posts'[k] = 0 <=> order'[k].status = "absent"
                        /\ posts'[k] > 0 => k <= st.sequence /\ k <= disk.sequence
      OBVIOUS
    <3>1. CASE k = id
      BY <3>1, <1>2, <1>5, <1>6, <1>9
    <3>2. CASE k # id
      BY <3>2, <1>5 DEF IInv, Numbering
    <3>3. QED BY <3>1, <3>2
  <2>2. QED BY <2>1, <1>1 DEF IInv, Numbering, Sending
<1>11. order[id].status = "absent"
  BY <1>2 DEF IInv, Numbering
<1>12. \A k \in Ids : ~InMarket(k)
  BY <1>2, <1>11 DEF IInv, InFlight, InMarket, id
<1>13. InFlight'
  BY <1>1, <1>2, <1>5, <1>12 DEF InFlight, InMarket, id
<1>14. Matching'
  BY <1>1, <1>2, <1>5, <1>6 DEF Matching, id
<1>15. Entering'
  <2>1. st.pending.side = "buy" =>
          /\ <<tickDay, st.pending.sym>> \in st.tried
          /\ \A k \in Ids : Posted(k, "buy") =>
               <<order[k].day, order[k].sym>> # <<tickDay, st.pending.sym>>
    BY <1>1 DEF IInv, Entering, Sending
  <2>2. \A k \in Ids : Posted(k, "buy")' =>
          IF k = id THEN st.pending.side = "buy" ELSE Posted(k, "buy")
    BY <1>5, <1>6 DEF Posted
  <2>3. \A k \in Ids : Posted(k, "buy")' =>
          <<order'[k].day, order'[k].sym>> \in st.tried \cap disk.tried
    BY <1>2, <1>5, <1>6, <2>1, <2>2 DEF IInv, Entering
  <2>4. EntryOncePerDay'
    <3> SUFFICES ASSUME NEW j \in Ids, NEW k \in Ids,
                        Posted(j, "buy")', Posted(k, "buy")',
                        order'[j].sym = order'[k].sym,
                        order'[j].day = order'[k].day
                 PROVE  j = k
      BY DEF EntryOncePerDay
    <3>1. CASE j = id /\ k # id
      BY <3>1, <1>5, <1>6, <2>1, <2>2
    <3>2. CASE k = id /\ j # id
      BY <3>2, <1>5, <1>6, <2>1, <2>2
    <3>3. CASE k # id /\ j # id
      BY <3>3, <1>5, <2>2 DEF IInv, Entering, EntryOncePerDay
    <3>4. QED BY <3>1, <3>2, <3>3
  <2>5. QED BY <1>1, <2>3, <2>4 DEF Entering, Sending
<1>16. Halting'
  BY <1>1 DEF IInv, Halting, Sending
<1>17. QED BY <1>7, <1>8, <1>10, <1>13, <1>14, <1>15, <1>16 DEF IInv

\* What the broker does to one of its orders leaves its identity alone.
Traded(k) ==
  /\ InMarket(k)
  /\ order' \in [Ids -> OrderRecord]
  /\ \A j \in Ids \ {k} : order'[j] = order[j]
  /\ order'[k].status \in {"sent", "working", "done"}
  /\ order'[k].sym = order[k].sym /\ order'[k].side = order[k].side
  /\ order'[k].qty = order[k].qty /\ order'[k].day = order[k].day

LEMMA StatusTraded ==
  ASSUME TypeOK, NEW k \in Ids, NEW v \in {"working", "done"}, InMarket(k),
         order' = [order EXCEPT ![k].status = v]
  PROVE  Traded(k) /\ \A j \in Ids : order'[j].filled = order[j].filled
<1>1. order \in [Ids -> OrderRecord]
  BY DEF TypeOK, OrderRecord
<1>2. order[k] \in OrderRecord /\ v \in OrderStatus
  BY <1>1 DEF OrderStatus
<1>3. [order[k] EXCEPT !.status = v] \in OrderRecord
  BY <1>2 DEF OrderRecord
<1>4. order' = [order EXCEPT ![k] = [order[k] EXCEPT !.status = v]]
  BY <1>1
<1> DEFINE new == [order[k] EXCEPT !.status = v]
<1>5. /\ new.status = v /\ new.sym = order[k].sym /\ new.side = order[k].side
      /\ new.qty = order[k].qty /\ new.day = order[k].day
      /\ new.filled = order[k].filled
  BY <1>2 DEF OrderRecord
<1> HIDE DEF new
<1>6. order'[k] = new /\ \A j \in Ids \ {k} : order'[j] = order[j]
  BY <1>1, <1>4 DEF new
<1>7. QED BY <1>1, <1>3, <1>4, <1>5, <1>6 DEF Traded, new

LEMMA FillTraded ==
  ASSUME TypeOK, NEW k \in Ids, NEW n \in Nat, InMarket(k),
         order' = [order EXCEPT ![k].filled = @ + n]
  PROVE  /\ Traded(k) /\ order'[k].filled = order[k].filled + n
         /\ order'[k].status = order[k].status
         /\ \A j \in Ids \ {k} : order'[j].filled = order[j].filled
<1>1. order \in [Ids -> OrderRecord]
  BY DEF TypeOK, OrderRecord
<1>2. order[k] \in OrderRecord /\ order[k].filled + n \in Nat
  BY <1>1 DEF OrderRecord
<1> DEFINE new == [order[k] EXCEPT !.filled = @ + n]
<1>3. /\ new \in OrderRecord
      /\ new.status = order[k].status /\ new.sym = order[k].sym
      /\ new.side = order[k].side
      /\ new.qty = order[k].qty /\ new.day = order[k].day
      /\ new.filled = order[k].filled + n
  BY <1>2 DEF OrderRecord
<1>4. order' = [order EXCEPT ![k] = new]
  BY <1>1
<1> HIDE DEF new
<1>5. order'[k] = new /\ \A j \in Ids \ {k} : order'[j] = order[j]
  BY <1>1, <1>4
<1>6. order' \in [Ids -> OrderRecord]
  BY <1>1, <1>3, <1>4
<1>7. QED BY <1>3, <1>5, <1>6 DEF Traded, InMarket

LEMMA TradedStep ==
  ASSUME IInv, NEW k \in Ids, Traded(k),
         holding' \in [Symbols -> Nat], net' \in [Symbols -> Int],
         UNCHANGED <<processVars, disk, today, historyVars>>
  PROVE  IInv'
<1> USE DEF processVars, historyVars
<1>1. TypeOK'
  BY DEF IInv, TypeOK, Traded, OrderRecord
<1>2. Storage' /\ Halting'
  BY DEF IInv, Storage, Halting, Sending
<1>3. posts[k] > 0
  BY DEF IInv, Numbering, Traded, InMarket, TypeOK
<1>4. Numbering'
  <2>1. \A j \in Ids : posts[j] = 0 <=> order'[j].status = "absent"
    BY <1>3 DEF IInv, Numbering, Traded
  <2>2. QED BY <2>1 DEF IInv, Numbering, Sending
<1>5. InFlight'
  BY DEF IInv, InFlight, Traded, InMarket
<1>6. Matching'
  BY DEF IInv, Numbering, Matching, Traded
<1>7. \A j \in Ids : /\ order'[j].sym = order[j].sym
                     /\ order'[j].side = order[j].side
                     /\ order'[j].day = order[j].day
  BY DEF Traded
<1>8. Entering'
  BY <1>7 DEF IInv, Entering, EntryOncePerDay, Posted, Sending
<1>9. QED BY <1>1, <1>2, <1>4, <1>5, <1>6, <1>8 DEF IInv

LEMMA FeeType ==
  ASSUME NEW n \in Nat
  PROVE  MaxFee(n) \in Nat
  BY ConstantFacts DEF MaxFee

\* What a fill does, in arithmetic.
LEMMA FillFacts ==
  ASSUME TypeOK, NEW k \in Ids,
         NEW n \in IF order[k].side = "buy" THEN {Lot} ELSE 1..order[k].qty,
         Fill(k, n)
  PROVE  /\ n \in Nat /\ Working(k)
         /\ order[k].side = "buy" => n = Lot
         /\ order[k].filled + n <= order[k].qty
         /\ order' = [order EXCEPT ![k].filled = @ + n]
         /\ \E d \in Int :
              /\ order[k].side = "buy" => n - MaxFee(n) <= d /\ d <= n
              /\ order[k].side = "sell" => d = -n
              /\ holding' = [holding EXCEPT ![order[k].sym] = @ + d]
              /\ net' = [net EXCEPT ![order[k].sym] = @ + d]
              /\ holding' \in [Symbols -> Nat] /\ net' \in [Symbols -> Int]
<1>1. /\ order[k].sym \in Symbols /\ order[k].qty \in Nat
      /\ order[k].filled \in Nat /\ order[k].side \in {"buy", "sell"}
      /\ holding \in [Symbols -> Nat] /\ net \in [Symbols -> Int]
  BY DEF TypeOK
<1>2. n \in Nat /\ (order[k].side = "buy" => n = Lot)
  BY <1>1, ConstantFacts
<1>3. /\ Working(k) /\ n <= order[k].qty - order[k].filled
      /\ order' = [order EXCEPT ![k].filled = @ + n]
  BY DEF Fill
<1>4. PICK d \in IF order[k].side = "buy" THEN (n - MaxFee(n))..n ELSE {-n} :
        /\ holding[order[k].sym] + d >= 0
        /\ holding' = [holding EXCEPT ![order[k].sym] = @ + d]
        /\ net' = [net EXCEPT ![order[k].sym] = @ + d]
  BY DEF Fill
<1>5. /\ d \in Int
      /\ order[k].side = "buy" => n - MaxFee(n) <= d /\ d <= n
      /\ order[k].side = "sell" => d = -n
  BY <1>1, <1>2, <1>4, FeeType
<1>6. holding' \in [Symbols -> Nat] /\ net' \in [Symbols -> Int]
  BY <1>1, <1>4, <1>5
<1>7. order[k].filled + n <= order[k].qty
  BY <1>1, <1>2, <1>3
<1>8. QED BY <1>2, <1>3, <1>4, <1>5, <1>6, <1>7

LEMMA BrokerStepInv == IInv /\ BrokerStep => IInv'
<1> SUFFICES ASSUME IInv, BrokerStep PROVE IInv'
  OBVIOUS
<1>1. UNCHANGED <<processVars, disk, today, historyVars>>
  BY DEF BrokerStep
<1>2. TypeOK /\ holding \in [Symbols -> Nat] /\ net \in [Symbols -> Int]
  BY DEF IInv, TypeOK
<1>3. PICK k \in Ids :
        \/ Accept(k) \/ Finish(k)
        \/ \E n \in IF order[k].side = "buy" THEN {Lot} ELSE 1..order[k].qty :
             Fill(k, n)
  BY DEF BrokerStep
<1>4. CASE Accept(k) \/ Finish(k)
  BY <1>1, <1>2, <1>4, StatusTraded, TradedStep
     DEF Accept, Finish, Working, InMarket
<1>5. ASSUME NEW n \in IF order[k].side = "buy" THEN {Lot} ELSE 1..order[k].qty,
             Fill(k, n)
      PROVE  IInv'
  <2>1. n \in Nat /\ InMarket(k) /\ order' = [order EXCEPT ![k].filled = @ + n]
        /\ holding' \in [Symbols -> Nat] /\ net' \in [Symbols -> Int]
    BY <1>2, <1>5, FillFacts DEF Working, InMarket
  <2>2. QED BY <1>1, <1>2, <2>1, FillTraded, TradedStep
<1>6. QED BY <1>3, <1>4, <1>5

LEMMA WorldStep == IInv /\ World => IInv'
<1> SUFFICES ASSUME IInv, World PROVE IInv'
  OBVIOUS
<1>1. CASE ForeignTrade
  <2>1. /\ UNCHANGED <<processVars, disk, order, net, today, historyVars>>
        /\ holding' \in [Symbols -> Nat]
    <3>1. PICK s \in Symbols, n \in ForeignUnits :
            \E change \in {n, -n} :
              /\ holding[s] + change >= 0
              /\ holding' = [holding EXCEPT ![s] = @ + change]
      BY <1>1 DEF ForeignTrade
    <3>2. PICK change \in {n, -n} :
            /\ holding[s] + change >= 0
            /\ holding' = [holding EXCEPT ![s] = @ + change]
      BY <3>1
    <3>3. change \in Int
      BY ConstantFacts
    <3>4. holding[s] + change \in Nat
      BY <3>3, <3>2 DEF IInv, TypeOK
    <3>5. holding' \in [Symbols -> Nat]
      BY <3>2, <3>4 DEF IInv, TypeOK
    <3>6. QED BY <3>5, <1>1 DEF ForeignTrade
  <2> USE DEF processVars, historyVars
  <2>2. TypeOK' /\ Storage' /\ Halting'
    BY <2>1 DEF IInv, TypeOK, Storage, Halting, Sending
  <2>3. Numbering' /\ InFlight' /\ Matching'
    BY <2>1 DEF IInv, Numbering, InFlight, Matching, InMarket, Sending
  <2>4. Entering'
    BY <2>1 DEF IInv, Entering, EntryOncePerDay, Posted, Sending
  <2>5. QED BY <2>2, <2>3, <2>4 DEF IInv
<1>2. CASE NextDay
  <2>1. /\ UNCHANGED <<processVars, disk, brokerVars, historyVars>>
        /\ today' \in Days /\ today' > today
    BY <1>2, ConstantFacts DEF NextDay, IInv, TypeOK, Days
  <2> USE DEF processVars, brokerVars, historyVars
  <2>2. TypeOK' /\ Storage'
    BY <2>1 DEF IInv, TypeOK, Storage
  <2>3. Numbering' /\ InFlight' /\ Matching'
    BY <2>1 DEF IInv, Numbering, InFlight, Matching, InMarket, Sending
  <2>4. Entering'
    BY <2>1 DEF IInv, Entering, EntryOncePerDay, Posted, Sending
  <2>5. tickDay' \in Nat /\ today \in Nat /\ today' \in Nat
    BY <2>1 DEF IInv, TypeOK, Days
  <2>6. Halting'
    BY <2>1, <2>5 DEF IInv, Halting, Sending
  <2>7. QED BY <2>2, <2>3, <2>4, <2>6 DEF IInv
<1>3. CASE Restart
  <2>1. /\ life' \in 1..MaxLives /\ st' = disk /\ storageFailed' = FALSE
        /\ pc' = "idle"
        /\ UNCHANGED <<tickDay, held, openSymbols, disk, brokerVars, today,
                       posts, haltDays>>
    BY <1>3, ConstantFacts DEF Restart, IInv, TypeOK
  <2> USE DEF brokerVars
  <2>2. TypeOK' /\ Storage'
    BY <2>1 DEF IInv, TypeOK, Storage, Steps, Early
  <2>3. Numbering' /\ Matching' /\ Halting'
    BY <2>1 DEF IInv, Numbering, Matching, Halting, Sending
  <2>4. InFlight'
    BY <2>1 DEF IInv, InFlight, InMarket
  <2>5. Entering'
    BY <2>1 DEF IInv, Entering, EntryOncePerDay, Posted, Sending
  <2>6. QED BY <2>2, <2>3, <2>4, <2>5 DEF IInv
<1>4. QED BY <1>1, <1>2, <1>3 DEF World

LEMMA InitInv == Init => IInv
<1> SUFFICES ASSUME Init PROVE IInv
  OBVIOUS
<1>1. NoIntent \in Intent /\ NoOrder \in OrderRecord
  BY ConstantFacts DEF NoIntent, Intent, NoOrder, OrderRecord, OrderStatus,
                       Symbols, Days
<1>2. TypeOK
  <2>1. st \in State /\ disk \in State
    BY <1>1, ConstantFacts DEF Init, State
  <2>2. holding \in [Symbols -> Nat] /\ net \in [Symbols -> Int]
    BY ConstantFacts DEF Init
  <2>3. /\ order \in [Ids -> OrderRecord] /\ posts \in [Ids -> Nat]
        /\ tickDay \in Days /\ today \in Days /\ haltDays \subseteq Days
        /\ life \in 1..MaxLives
    BY <1>1, ConstantFacts DEF Init, Days
  <2>4. QED BY <2>1, <2>2, <2>3 DEF Init, TypeOK, Steps, OrderRecord
<1>3. Storage /\ Halting
  BY <1>2, ConstantFacts DEF Init, Storage, Halting, Sending, Days, Early
<1>4. Numbering /\ Matching
  BY DEF Init, Numbering, Matching, Sending, NoOrder
<1>5. InFlight /\ Entering
  BY DEF Init, InFlight, InMarket, Entering, EntryOncePerDay, Posted, NoOrder,
         Sending
<1>6. QED BY <1>2, <1>3, <1>4, <1>5 DEF IInv

LEMMA NextInv == IInv /\ [Next]_vars => IInv'
<1> SUFFICES ASSUME IInv, [Next]_vars PROVE IInv'
  OBVIOUS
<1>1. CASE Tick
  BY <1>1, ReadingStep, ReadPositionsStep, SeedUnverifiedStep,
     SeedVerifiedStep, ReconciledStep,
     NewDayStep, LimitReachedStep, SubmitStep, PostStep DEF Tick
<1>2. CASE BrokerStep \/ World
  BY <1>2, BrokerStepInv, WorldStep
<1>3. CASE UNCHANGED vars
  <2>1. Passing
    BY <1>3 DEF vars, processVars, brokerVars, historyVars, Passing, Sending,
                IInv, TypeOK, Storage, Halting
  <2>2. QED BY <2>1, PassingStep
<1>4. QED BY <1>1, <1>2, <1>3 DEF Next

-----------------------------------------------------------------------------
(* The theorems.                                                           *)

\* Every behaviour of the worker, its broker and its restarts keeps IInv.
THEOREM Invariance == Spec => []IInv
<1>1. Init => IInv
  BY InitInv
<1>2. IInv /\ [Next]_vars => IInv'
  BY NextInv
<1>3. QED BY <1>1, <1>2, PTL DEF Spec

\* The state of the worker, its file and the broker stay in their types.
THEOREM TypeCorrect == Spec => []TypeOK
<1>1. IInv => TypeOK
  BY DEF IInv
<1>2. QED BY <1>1, Invariance, PTL

\* For any number of restarts, failed saves and lost answers, no intent leaves
\* twice: submit's sequence number in the file is ahead of every POST.
THEOREM PostedOnce == Spec => []NeverReposted
<1>1. IInv => NeverReposted
  BY DEF IInv, Numbering, NeverReposted
<1>2. QED BY <1>1, Invariance, PTL

\* A symbol is entered at most once per signal day: what submit writes into
\* "tried" before the POST is never lost.
THEOREM EnteredOnce == Spec => []EntryOncePerDay
<1>1. IInv => EntryOncePerDay
  BY DEF IInv, Entering
<1>2. QED BY <1>1, Invariance, PTL

\* Whatever the broker may still trade is the pending intent of the process and
\* of the file the next process reads.
THEOREM InFlightIsPending == Spec => []OneInFlight
<1>1. IInv => OneInFlight
  BY DEF IInv, InFlight, OneInFlight
<1>2. QED BY <1>1, Invariance, PTL

\* The only step that POSTs is that of an intent on record, and an entry is
\* never the intent of a day recorded as halted.
LEMMA HaltedStep ==
  ASSUME IInv, [Next]_vars, NEW k \in Ids, posts'[k] > posts[k],
         order'[k].side = "buy"
  PROVE  tickDay \notin haltDays
<1>1. posts' # posts
  BY DEF IInv, TypeOK
<1>2. Post
  BY <1>1 DEF Next, Tick, BrokerStep, World, ForeignTrade, NextDay, Restart,
       TickRefused, ReadPositions, ReadOrders, TickFails, SeedNotNeeded,
       SeedUnverified, SeedVerified, NothingPending, StillPending, Unreconciled,
       PendingReconciled, NewDay, SameDay, LimitReached, LimitNotReached,
       Submit, NothingToSubmit, IntentCreated, PostNotSent, Quiet, historyVars,
       vars
<1>3. k = st.pending.id /\ order'[k].side = st.pending.side
  BY <1>2 DEF Post, IInv, TypeOK
<1>4. Sending /\ st.day = tickDay /\ ~st.halted
  BY <1>2, <1>3 DEF Post, IInv, Halting, Sending
<1>5. QED BY <1>4 DEF IInv, Halting, TypeOK, State, Days

\* A recorded loss limit outlives the process and the recovery of equity.
THEOREM HaltsLast == Spec => HaltIsDurable
<1>1. IInv /\ [Next]_vars =>
        [\A k \in Ids : posts'[k] > posts[k] /\ order'[k].side = "buy" =>
           tickDay \notin haltDays]_vars
  BY HaltedStep
<1>2. QED BY <1>1, Invariance, PTL DEF Spec, HaltIsDurable

-----------------------------------------------------------------------------
(* The balance an order starts from.                                       *)

InitialNet == [s \in Symbols |-> IF s = 1 THEN SeedQty ELSE 0]

\* A record's pending intent starts from what the record owns, and a record
\* without the seed has nothing and traded nothing.
StartsFrom(r, brought) ==
  /\ r.pending # NoIntent =>
       /\ IF r.pending.side = "buy" THEN r.pending.qty = BuyLots * Lot
                                    ELSE r.pending.qty <= r.pending.before
       /\ r.pending.owned = r.owned[r.pending.sym]
       /\ r.pending.before = r.pending.owned
  /\ Unseeded(r) => /\ r.pending = NoIntent /\ brought = InitialNet
                    /\ r.owned = [s \in Symbols |-> 0]

Books ==
  /\ \A k \in Ids : /\ order[k].filled <= order[k].qty
                    /\ order[k].status = "absent" => order[k].filled = 0
  /\ \A r \in {st, disk} : StartsFrom(r, net)

\* Two records with the same books.
SameBooks(r, q) ==
  r.owned = q.owned /\ r.pending = q.pending /\ r.seeded = q.seeded

\* The steps that leave the books and the orders alone.
Keeping ==
  /\ UNCHANGED <<order, net, posts>>
  /\ \A r \in {st', disk'} : \E q \in {st, disk} : SameBooks(r, q)
  /\ pc' \notin Early => /\ pc \notin Early \/ ~Unseeded(st)
                         /\ SameBooks(st', st)
  /\ pc' \in {"orders", "seed", "reconcile"} =>
       \/ held' = holding
       \/ pc \in {"orders", "seed", "reconcile"} /\ held' = held /\ st' = st
  /\ holding' = holding \/ ForeignTrade

LEMMA KeepingReads ==
  ASSUME IInv,
         \/ TickRefused \/ ReadPositions \/ ReadOrders \/ TickFails
         \/ SeedNotNeeded \/ NothingPending \/ StillPending \/ Unreconciled
         \/ SameDay \/ LimitNotReached \/ NothingToSubmit \/ IntentCreated
         \/ PostNotSent
  PROVE  Keeping
<1> USE DEF Keeping, SameBooks, Early, Quiet, EndTick, brokerVars, historyVars,
            processVars, Unseeded
<1>1. CASE TickRefused
  BY <1>1 DEF TickRefused, vars
<1>2. CASE ReadPositions \/ ReadOrders \/ TickFails
  BY <1>2 DEF ReadPositions, ReadOrders, TickFails
<1>3. CASE SeedNotNeeded
  BY <1>3 DEF SeedNotNeeded
<1>4. CASE NothingPending \/ StillPending \/ Unreconciled \/ SameDay
  BY <1>4 DEF NothingPending, StillPending, Unreconciled, SameDay
<1>5. CASE LimitNotReached \/ NothingToSubmit \/ IntentCreated \/ PostNotSent
  BY <1>5 DEF LimitNotReached, NothingToSubmit, IntentCreated, PostNotSent
<1>6. QED BY <1>1, <1>2, <1>3, <1>4, <1>5

LEMMA KeepingWrites ==
  ASSUME IInv, SeedUnverified \/ NewDay \/ LimitReached
  PROVE  Keeping
<1> USE DEF Keeping, SameBooks, Early, Quiet, EndTick, brokerVars
<1>1. st \in State
  BY DEF IInv, TypeOK
<1>2. CASE NewDay
  <2> DEFINE new == [st EXCEPT !.day = tickDay, !.halted = FALSE]
  <2>1. SameBooks(new, st)
    BY <1>1 DEF State
  <2>2. st' = new /\ disk' \in {disk, new} /\ pc' \in {"idle", "limit"}
    BY <1>2 DEF NewDay, Save, SaveFails
  <2>3. pc \notin Early /\ UNCHANGED <<order, net, posts, holding>>
    BY <1>2 DEF NewDay, historyVars
  <2> HIDE DEF new
  <2>4. QED BY <2>1, <2>2, <2>3
<1>3. CASE LimitReached
  <2> DEFINE new == [st EXCEPT !.halted = TRUE]
  <2>1. SameBooks(new, st)
    BY <1>1 DEF State
  <2>2. st' = new /\ disk' \in {disk, new} /\ pc' \in {"idle", "plan"}
    BY <1>3 DEF LimitReached, Save, SaveFails
  <2>3. pc \notin Early /\ UNCHANGED <<order, net, posts, holding>>
    BY <1>3 DEF LimitReached
  <2> HIDE DEF new
  <2>4. QED BY <2>1, <2>2, <2>3
<1>4. CASE SeedUnverified
  <2>1. PICK some \in SUBSET SeedAttempts : st' = [st EXCEPT !.tried = @ \cup some]
    BY <1>4 DEF SeedUnverified
  <2>2. SameBooks(st', st)
    BY <1>1, <2>1 DEF State
  <2>3. pc' = "idle" /\ UNCHANGED <<disk, order, net, posts, holding>>
    BY <1>4 DEF SeedUnverified, historyVars
  <2>4. QED BY <2>2, <2>3
<1>5. QED BY <1>2, <1>3, <1>4

LEMMA KeepingWorld ==
  ASSUME IInv, World \/ UNCHANGED vars
  PROVE  Keeping
<1> USE DEF Keeping, SameBooks, Early, brokerVars, historyVars, processVars
<1>1. CASE ForeignTrade
  BY <1>1 DEF ForeignTrade
<1>2. CASE NextDay \/ UNCHANGED vars
  BY <1>2 DEF NextDay, vars
<1>3. CASE Restart
  BY <1>3 DEF Restart
<1>4. QED BY <1>1, <1>2, <1>3 DEF World

LEMMA BooksKeeping == IInv /\ Books /\ Keeping => Books'
<1> SUFFICES ASSUME IInv, Books, Keeping PROVE Books'
  OBVIOUS
<1>1. /\ UNCHANGED <<order, net, posts>>
      /\ \A r \in {st', disk'} : \E q \in {st, disk} : SameBooks(r, q)
      /\ pc' \notin Early => /\ pc \notin Early \/ ~Unseeded(st)
                             /\ SameBooks(st', st)
  BY DEF Keeping
<1>2. ASSUME NEW r \in {st', disk'}
      PROVE  StartsFrom(r, net')
  BY <1>1, <1>2 DEF Books, StartsFrom, SameBooks, Unseeded
<1>3. QED BY <1>1, <1>2 DEF Books

LEMMA SeededFacts ==
  ASSUME IInv, Books, SeedVerified
  PROVE  /\ st' = Seeded /\ disk' \in {disk, Seeded} /\ pc' \in {"idle", "reconcile"}
         /\ UNCHANGED <<order, net, posts, holding, held, tickDay>>
         /\ Seeded.seeded /\ Seeded.pending = NoIntent /\ Seeded.owned = InitialNet
         /\ net = InitialNet /\ pc = "seed" /\ SeedQty > 0
<1>1. /\ pc = "seed" /\ ~st.seeded /\ SeedQty > 0
      /\ UNCHANGED <<order, net, posts, holding, held, tickDay>>
  BY DEF SeedVerified, SeedDue, Quiet, brokerVars, historyVars
<1>2. st' = Seeded /\ disk' \in {disk, Seeded} /\ pc' \in {"idle", "reconcile"}
  BY DEF SeedVerified, Save, SaveFails, EndTick
<1>3. /\ st \in State /\ st.pending = NoIntent /\ net = InitialNet
      /\ st.owned = [s \in Symbols |-> 0]
  BY <1>1 DEF IInv, TypeOK, Books, StartsFrom, Unseeded
<1>4. Seeded.seeded /\ Seeded.pending = NoIntent
      /\ Seeded.owned = [st.owned EXCEPT ![1] = SeedQty]
  BY <1>3 DEF State, Seeded
<1>5. Seeded.owned = InitialNet
  BY <1>3, <1>4 DEF InitialNet
<1>6. QED BY <1>1, <1>2, <1>3, <1>4, <1>5

LEMMA BooksSeeded == IInv /\ Books /\ SeedVerified => Books'
<1> SUFFICES ASSUME IInv, Books, SeedVerified PROVE Books'
  OBVIOUS
<1>1. StartsFrom(Seeded, net')
  BY SeededFacts DEF StartsFrom, Unseeded
<1>2. StartsFrom(disk, net)
  BY DEF Books
<1>3. \A r \in {st', disk'} : StartsFrom(r, net')
  BY <1>1, <1>2, SeededFacts DEF StartsFrom, Unseeded
<1>4. QED BY <1>3, SeededFacts DEF Books, Unseeded, Early

\* What reconcile has compared when it adopts an order's outcome.
LEMMA ReconciledFacts ==
  ASSUME IInv, PendingReconciled
  PROVE  /\ st.pending # NoIntent /\ st.pending.id \in Ids
         /\ order[st.pending.id].status = "done" /\ Balances
         /\ st' = Reconciled /\ disk' \in {disk, Reconciled}
         /\ Reconciled.pending = NoIntent /\ Reconciled.seeded = st.seeded
         /\ Reconciled.owned = [st.owned EXCEPT ![st.pending.sym] = OwnedAfter]
         /\ OwnedAfter \in Nat
         /\ pc = "reconcile" /\ pc' \in {"idle", "daily"} /\ st = disk
         /\ UNCHANGED <<order, net, posts, holding>>
<1>1. /\ pc = "reconcile" /\ st.pending # NoIntent /\ Balances
      /\ order[st.pending.id].status = "done" /\ pc' \in {"idle", "daily"}
      /\ st' = Reconciled /\ disk' \in {disk, Reconciled}
      /\ UNCHANGED <<order, net, posts, holding>>
  BY DEF PendingReconciled, PendingOrder, Save, SaveFails, EndTick, Quiet,
         brokerVars, historyVars
<1>2. st \in State /\ st = disk /\ st.pending.id \in Ids
  BY <1>1, NotFailed DEF IInv, TypeOK, Numbering, Early
<1>3. OwnedAfter \in Nat
  BY <1>1, <1>2 DEF Balances, OwnedAfter, PendingOrder, IInv, TypeOK, State,
                    Intent
<1>4. /\ Reconciled.pending = NoIntent /\ Reconciled.seeded = st.seeded
      /\ Reconciled.owned = [st.owned EXCEPT ![st.pending.sym] = OwnedAfter]
  BY <1>2 DEF State, Reconciled
<1>5. QED BY <1>1, <1>2, <1>3, <1>4

LEMMA BooksReconciled == IInv /\ Books /\ PendingReconciled => Books'
<1> SUFFICES ASSUME IInv, Books, PendingReconciled PROVE Books'
  OBVIOUS
<1>1. ~Unseeded(st) /\ StartsFrom(disk, net)
  BY ReconciledFacts DEF Books, StartsFrom
<1>2. StartsFrom(Reconciled, net') /\ ~Unseeded(Reconciled)
  BY <1>1, ReconciledFacts DEF StartsFrom, Unseeded
<1>3. \A r \in {st', disk'} : StartsFrom(r, net')
  BY <1>1, <1>2, ReconciledFacts DEF StartsFrom, Unseeded
<1>4. QED BY <1>2, <1>3, ReconciledFacts DEF Books, Early

\* The books of an announced record, and the balance its intent starts from.
LEMMA AnnouncedBooks ==
  ASSUME st \in State, held \in [Symbols -> Nat], tickDay \in Days,
         st.sequence < MaxOrders, NEW s \in Symbols, NEW q \in Nat,
         NEW new, new = Announced(s, q)
  PROVE  /\ new.owned = st.owned /\ new.seeded = st.seeded
         /\ new.pending.id = st.sequence + 1
         /\ new.pending.sym = s /\ new.pending.qty = q
         /\ new.pending.side = IF held[s] = 0 THEN "buy" ELSE "sell"
         /\ new.pending.before = held[s] /\ new.pending.owned = st.owned[s]
  BY DEF State, Announced

\* The record submit writes: the books are as they were, and the intent starts
\* from them.
LEMMA SubmittedFacts ==
  ASSUME IInv, Books, Submit
  PROVE  /\ \E s \in Symbols :
              /\ st'.pending.sym = s /\ st'.pending.id \in Ids
              /\ posts[st'.pending.id] = 0
              /\ st'.pending.owned = st.owned[s]
              /\ st'.pending.before = st.owned[s]
              /\ st'.pending.side \in {"buy", "sell"}
              /\ st'.pending.side = "buy" => st'.pending.qty = BuyLots * Lot
              /\ st'.pending.side = "sell" => st'.pending.qty <= st.owned[s]
         /\ st'.owned = st.owned /\ st'.seeded = st.seeded
         /\ st'.pending # NoIntent /\ disk' \in {disk, st'}
         /\ st = disk /\ st.pending = NoIntent /\ ~Unseeded(st)
         /\ pc = "plan" /\ pc' \in {"announce", "idle"}
         /\ UNCHANGED <<order, net, posts, holding>>
<1>1. PICK s \in Symbols, q \in Nat :
        /\ held[s] = st.owned[s]
        /\ held[s] = 0 => /\ ~st.halted /\ <<tickDay, s>> \notin st.tried
                          /\ q = BuyLots * Lot
        /\ held[s] # 0 => q <= held[s]
        /\ Written(Announced(s, q))
  BY SubmitFacts
<1>2. /\ pc' \in {"announce", "idle"} /\ pc = "plan"
      /\ st = disk /\ st.pending = NoIntent /\ st.sequence < MaxOrders
      /\ UNCHANGED <<tickDay, held, openSymbols, order, holding, net, today,
                     posts, haltDays, life>>
  BY SubmitFacts
<1> DEFINE new == Announced(s, q)
<1>3. /\ new.owned = st.owned /\ new.seeded = st.seeded
      /\ new.pending.id = st.sequence + 1 /\ new.pending.id \in Ids
      /\ new.pending.sym = s /\ new.pending.qty = q
      /\ new.pending.side = IF held[s] = 0 THEN "buy" ELSE "sell"
      /\ new.pending.before = held[s] /\ new.pending.owned = st.owned[s]
<2>1. st \in State /\ held \in [Symbols -> Nat] /\ tickDay \in Days
  BY DEF IInv, TypeOK
<2>2. st.sequence + 1 \in Ids
  BY <1>2, <2>1, ConstantFacts DEF State, Ids
<2>3. QED BY <1>2, <2>1, <2>2, AnnouncedBooks
<1>4. st' = new /\ disk' \in {disk, new}
  BY <1>1 DEF Written
<1> HIDE DEF new
<1>5. NoIntent.id = 0 /\ new.pending # NoIntent
  BY <1>3 DEF NoIntent, Ids
<1>6. /\ posts[new.pending.id] \in Nat /\ st.sequence \in Nat
      /\ posts[new.pending.id] > 0 => new.pending.id <= st.sequence
  BY <1>3 DEF IInv, TypeOK, State, Numbering
<1>7. posts[new.pending.id] = 0
  BY <1>3, <1>6
<1>8. ~Unseeded(st)
  BY <1>2 DEF IInv, Storage, Early
<1>9. /\ new.pending.side = "buy" => new.pending.qty = BuyLots * Lot
      /\ new.pending.side = "sell" => new.pending.qty <= st.owned[s]
  BY <1>1, <1>3
<1>10. QED BY <1>1, <1>2, <1>3, <1>4, <1>5, <1>7, <1>8, <1>9

LEMMA BooksSubmitted == IInv /\ Books /\ Submit => Books'
<1> SUFFICES ASSUME IInv, Books, Submit PROVE Books'
  OBVIOUS
<1>1. /\ st'.owned = st.owned /\ st'.seeded = st.seeded
      /\ st'.pending # NoIntent /\ disk' \in {disk, st'} /\ ~Unseeded(st)
      /\ UNCHANGED <<order, net, posts, holding>>
  BY SubmittedFacts
<1>2. ~Unseeded(st')
  BY <1>1 DEF Unseeded
<1>3. StartsFrom(st', net')
  BY <1>1, <1>2, SubmittedFacts DEF StartsFrom
<1>4. StartsFrom(disk, net')
  BY <1>1 DEF Books, StartsFrom, Unseeded
<1>5. \A r \in {st', disk'} : StartsFrom(r, net')
  BY <1>1, <1>3, <1>4 DEF Books, StartsFrom, Unseeded
<1>6. QED BY <1>1, <1>2, <1>5 DEF Books

\* The POST puts an unfilled order where there was none.
LEMMA PostFacts ==
  ASSUME IInv, Post
  PROVE  LET id == st.pending.id
         IN /\ id \in Ids /\ posts[id] = 0 /\ posts'[id] = 1
            /\ st.pending # NoIntent /\ order[id].status = "absent"
            /\ order'[id].filled = 0 /\ order'[id].qty \in Nat
            /\ order'[id].sym = st.pending.sym /\ order'[id].side = st.pending.side
            /\ order'[id].qty = st.pending.qty
            /\ \A k \in Ids \ {id} : order'[k] = order[k] /\ posts'[k] = posts[k]
            /\ order'[id].status = "sent" /\ st = disk
            /\ pc' = "idle" /\ UNCHANGED <<st, disk, holding, net, held>>
<1> DEFINE id == st.pending.id
           new == [status |-> "sent", sym |-> st.pending.sym,
                   side |-> st.pending.side, qty |-> st.pending.qty,
                   filled |-> 0, day |-> tickDay]
<1>1. /\ pc = "post" /\ pc' = "idle"
      /\ order' = [order EXCEPT ![id] = new]
      /\ posts' = [posts EXCEPT ![id] = @ + 1]
      /\ UNCHANGED <<st, disk, holding, net, held>>
  BY DEF Post, EndTick
<1>2. /\ st = disk /\ st.pending # NoIntent /\ id \in Ids /\ posts[id] = 0
      /\ order[id].status = "absent"
  BY <1>1, NotFailed DEF IInv, Numbering, Sending, Early
<1>3. /\ order'[id] = new /\ posts'[id] = 1
      /\ \A k \in Ids \ {id} : order'[k] = order[k] /\ posts'[k] = posts[k]
  BY <1>1, <1>2 DEF IInv, TypeOK
<1>4. st.pending.qty \in Nat
  BY DEF IInv, TypeOK, State, Intent
<1>5. QED BY <1>1, <1>2, <1>3, <1>4

LEMMA BooksPost == IInv /\ Books /\ Post => Books'
<1> SUFFICES ASSUME IInv, Books, Post PROVE Books'
  OBVIOUS
<1>1. \A k \in Ids : /\ order'[k].filled <= order'[k].qty
                     /\ order'[k].status = "absent" => order'[k].filled = 0
  BY PostFacts DEF Books
<1>2. \A r \in {st, disk} : StartsFrom(r, net')
  BY PostFacts DEF Books, StartsFrom, Unseeded
<1>3. QED BY <1>1, <1>2, PostFacts DEF Books, Early

-----------------------------------------------------------------------------
(* The broker's steps.                                                     *)

\* A step of the broker trades one order; only a fill changes what was
\* brought.
LEMMA BrokerFacts ==
  ASSUME IInv, BrokerStep
  PROVE  /\ UNCHANGED <<st, disk, posts, pc, held>>
         /\ \E k \in Ids :
              /\ Traded(k)
              /\ st.pending # NoIntent /\ st.pending = disk.pending
              /\ st.pending.id = k
              /\ order[k].sym = st.pending.sym /\ order[k].side = st.pending.side
              /\ order[k].qty = st.pending.qty
              /\ \A j \in Ids \ {k} : order'[j].filled = order[j].filled
              /\ \/ order'[k].filled = order[k].filled /\ UNCHANGED <<holding, net>>
                 \/ \E n \in Nat, d \in Int :
                      /\ order[k].side = "buy" =>
                           n = Lot /\ n - MaxFee(n) <= d /\ d <= n
                      /\ order[k].side = "sell" => d = -n
                      /\ order[k].filled + n <= order[k].qty
                      /\ order'[k].filled = order[k].filled + n
                      /\ holding' = [holding EXCEPT ![st.pending.sym] = @ + d]
                      /\ net' = [net EXCEPT ![st.pending.sym] = @ + d]
<1>1. UNCHANGED <<st, disk, posts, pc, held>>
  BY DEF BrokerStep, processVars, historyVars
<1>2. TypeOK
  BY DEF IInv
<1>3. PICK k \in Ids :
        \/ Accept(k) \/ Finish(k)
        \/ \E n \in IF order[k].side = "buy" THEN {Lot} ELSE 1..order[k].qty :
             Fill(k, n)
  BY DEF BrokerStep
<1>4. ASSUME InMarket(k)
      PROVE  /\ st.pending # NoIntent /\ st.pending = disk.pending
             /\ st.pending.id = k
             /\ order[k].sym = st.pending.sym /\ order[k].side = st.pending.side
             /\ order[k].qty = st.pending.qty
  <2>1. st.pending.id = k /\ disk.pending = st.pending
    BY <1>4 DEF IInv, InFlight
  <2>2. st.pending # NoIntent
    BY <2>1 DEF NoIntent, Ids
  <2>3. posts[k] > 0
    BY <1>2, <1>4 DEF IInv, Numbering, InMarket, TypeOK
  <2>4. QED BY <2>1, <2>2, <2>3 DEF IInv, Matching
<1>5. CASE Accept(k) \/ Finish(k)
  <2>1. InMarket(k) /\ UNCHANGED <<holding, net>>
    BY <1>5 DEF Accept, Finish, Working, InMarket
  <2>2. Traded(k) /\ \A j \in Ids : order'[j].filled = order[j].filled
    BY <1>2, <1>5, <2>1, StatusTraded DEF Accept, Finish
  <2>3. QED BY <1>1, <1>4, <2>1, <2>2
<1>6. ASSUME NEW n \in IF order[k].side = "buy" THEN {Lot} ELSE 1..order[k].qty,
             Fill(k, n)
      PROVE  /\ Traded(k) /\ InMarket(k)
             /\ \A j \in Ids \ {k} : order'[j].filled = order[j].filled
             /\ \E m \in Nat, d \in Int :
                  /\ order[k].side = "buy" =>
                       m = Lot /\ m - MaxFee(m) <= d /\ d <= m
                  /\ order[k].side = "sell" => d = -m
                  /\ order[k].filled + m <= order[k].qty
                  /\ order'[k].filled = order[k].filled + m
                  /\ holding' = [holding EXCEPT ![order[k].sym] = @ + d]
                  /\ net' = [net EXCEPT ![order[k].sym] = @ + d]
  <2>1. /\ n \in Nat /\ InMarket(k)
        /\ order' = [order EXCEPT ![k].filled = @ + n]
        /\ order[k].filled + n <= order[k].qty
    BY <1>2, <1>6, FillFacts DEF Working, InMarket
  <2>2. PICK d \in Int :
          /\ order[k].side = "buy" => n = Lot /\ n - MaxFee(n) <= d /\ d <= n
          /\ order[k].side = "sell" => d = -n
          /\ holding' = [holding EXCEPT ![order[k].sym] = @ + d]
          /\ net' = [net EXCEPT ![order[k].sym] = @ + d]
    BY <1>2, <1>6, FillFacts
  <2>3. /\ Traded(k) /\ order'[k].filled = order[k].filled + n
        /\ \A j \in Ids \ {k} : order'[j].filled = order[j].filled
    BY <1>2, <2>1, FillTraded
  <2>4. QED BY <2>1, <2>2, <2>3
<1>7. QED BY <1>1, <1>3, <1>4, <1>5, <1>6

LEMMA BooksBroker == IInv /\ Books /\ BrokerStep => Books'
<1> SUFFICES ASSUME IInv, Books, BrokerStep PROVE Books'
  OBVIOUS
<1>1. /\ UNCHANGED <<st, disk, posts, pc, held>>
      /\ st.pending # NoIntent /\ st.pending = disk.pending
  BY BrokerFacts
<1>2. PICK k \in Ids :
        /\ Traded(k)
        /\ \A j \in Ids \ {k} : order'[j].filled = order[j].filled
        /\ \/ order'[k].filled = order[k].filled
           \/ \E n \in Nat : /\ order[k].filled + n <= order[k].qty
                             /\ order'[k].filled = order[k].filled + n
  BY BrokerFacts
<1>3. \A j \in Ids : /\ order'[j].filled <= order'[j].qty
                     /\ order'[j].status = "absent" => order'[j].filled = 0
  BY <1>2 DEF Books, Traded
<1>4. \A r \in {st, disk} : ~Unseeded(r)
  BY <1>1 DEF Books, StartsFrom
<1>5. \A r \in {st, disk} : StartsFrom(r, net')
  BY <1>1, <1>4 DEF Books, StartsFrom, Unseeded
<1>6. QED BY <1>1, <1>3, <1>5 DEF Books, Unseeded

LEMMA BooksInit == Init => Books
  BY ConstantFacts DEF Init, Books, StartsFrom, Unseeded, InitialNet, NoOrder,
                       Early

\* Every step keeps the books alone, or is one of the five that change them.
LEMMA StepCases ==
  ASSUME IInv, [Next]_vars
  PROVE  \/ Keeping \/ SeedVerified \/ PendingReconciled \/ Submit \/ Post
         \/ BrokerStep
  BY KeepingReads, KeepingWrites, KeepingWorld DEF Next, Tick

\* In memory and on file a pending intent starts from what the record owns,
\* whoever trades in the account, and nothing is submitted before the seed is
\* adopted.
THEOREM BooksInvariance == Spec => []Books
<1>1. Init => Books
  BY BooksInit
<1>2. IInv /\ Books /\ [Next]_vars => Books'
  BY StepCases, BooksKeeping, BooksSeeded, BooksReconciled, BooksSubmitted,
     BooksPost, BooksBroker
<1>3. QED BY <1>1, <1>2, Invariance, PTL DEF Spec

-----------------------------------------------------------------------------
(* Alone in the account.                                                   *)

\* A record's books against what was brought: equal, but for a pending order's
\* fills.
ExactIn(r, orders, brought) ==
  /\ Settled(r) => r.owned = brought
  /\ r.pending # NoIntent =>
       /\ \A s \in Symbols \ {r.pending.sym} : r.owned[s] = brought[s]
       /\ IF r.pending.side = "buy"
            THEN brought[r.pending.sym] <=
                   r.pending.owned + orders[r.pending.id].filled
            ELSE brought[r.pending.sym] =
                   r.pending.owned - orders[r.pending.id].filled

\* Positions read in this tick are those of now, or miss a whole lot of the
\* pending entry.
Fresh ==
  pc \in {"orders", "seed", "reconcile"} /\ st.pending # NoIntent
  /\ st.pending.side = "buy" =>
    \/ held[st.pending.sym] = net[st.pending.sym]
    \/ held[st.pending.sym] + Lot <=
         st.pending.owned + order[st.pending.id].filled

Exact ==
  /\ holding = net
  /\ \A r \in {st, disk} : ExactIn(r, order, net)
  /\ Fresh

LEMMA ExactKeeping ==
  ASSUME ForeignUnits = {}, IInv, Exact, Keeping
  PROVE  Exact'
<1>1. UNCHANGED <<order, net, posts, holding>>
  BY DEF Keeping, ForeignTrade
<1>2. ASSUME NEW r \in {st', disk'}
      PROVE  ExactIn(r, order', net')
  <2>1. PICK q \in {st, disk} : SameBooks(r, q)
    BY <1>2 DEF Keeping
  <2>2. QED BY <1>1, <2>1 DEF Exact, ExactIn, SameBooks, Settled
<1>3. Fresh'
  <2>1. CASE held' = holding
    BY <1>1, <2>1 DEF Fresh, Exact
  <2>2. CASE pc \in {"orders", "seed", "reconcile"} /\ held' = held /\ st' = st
    BY <1>1, <2>2 DEF Fresh, Exact
  <2>3. QED BY <2>1, <2>2 DEF Keeping, Fresh
<1>4. QED BY <1>1, <1>2, <1>3 DEF Exact

LEMMA ExactSeeded ==
  ASSUME IInv, Books, Exact, SeedVerified
  PROVE  Exact'
<1>1. ExactIn(Seeded, order', net')
  BY SeededFacts DEF ExactIn
<1>2. \A r \in {st', disk'} : ExactIn(r, order', net')
  BY <1>1, SeededFacts DEF Exact, ExactIn, Settled
<1>3. QED BY <1>2, SeededFacts DEF Exact, Fresh

\* An entry's fees are fewer than a lot.
LEMMA FeeBound ==
  ASSUME NEW n \in Nat, n <= BuyLots * Lot
  PROVE  MaxFee(n) <= BuyLots /\ MaxFee(n) < Lot
<1>1. /\ n \div Lot \in Nat /\ n = Lot * (n \div Lot) + (n % Lot)
      /\ n % Lot \in 0..(Lot - 1)
  BY ConstantFacts
<1>2. n \div Lot <= BuyLots
  <2> DEFINE d == n \div Lot
  <2>1. d \in Nat /\ Lot * d <= n
    BY <1>1, ConstantFacts
  <2> HIDE DEF d
  <2>2. Lot * d <= BuyLots * Lot
    BY <2>1, ConstantFacts
  <2>3. ASSUME d >= BuyLots + 1
        PROVE  FALSE
    <3>1. Lot * d >= Lot * (BuyLots + 1)
      BY <2>1, <2>3, ConstantFacts
    <3>2. Lot * (BuyLots + 1) = BuyLots * Lot + Lot
      BY ConstantFacts
    <3>3. QED BY <2>1, <2>2, <3>1, <3>2, ConstantFacts
  <2>4. QED BY <2>1, <2>3, ConstantFacts DEF d
<1>3. QED BY <1>1, <1>2, ConstantFacts DEF MaxFee

\* The comparison of reconcile lets only the truth through.
LEMMA BalancesAreTrue ==
  ASSUME IInv, Books, Exact, PendingReconciled
  PROVE  OwnedAfter = net[st.pending.sym]
<1> DEFINE p == st.pending
           f == order[p.id].filled
           h == held[p.sym]
<1>1. /\ p # NoIntent /\ p.id \in Ids /\ order[p.id].status = "done"
      /\ Balances /\ pc = "reconcile"
  BY ReconciledFacts
<1>2. /\ p.owned \in Nat /\ p.before \in Nat /\ p.side \in {"buy", "sell"}
      /\ p.sym \in Symbols /\ h \in Nat /\ f \in Nat /\ net[p.sym] \in Int
  BY <1>1 DEF IInv, TypeOK, State, Intent
<1>3. p.before = p.owned
  BY <1>1 DEF Books, StartsFrom
<1>4. OwnedAfter = h
  BY <1>1 DEF Balances
<1>5. CASE p.side = "sell"
  <2>1. p.before - h = f
    BY <1>1, <1>2, <1>5 DEF Balances, PendingOrder
  <2>2. net[p.sym] = p.owned - f
    BY <1>1, <1>5 DEF Exact, ExactIn
  <2>3. h = net[p.sym]
    BY <1>2, <1>3, <2>1, <2>2
  <2>4. QED BY <1>4, <2>3
<1>6. CASE p.side = "buy"
  <2>1. posts[p.id] > 0
    BY <1>1 DEF IInv, Numbering, TypeOK
  <2>2. f <= BuyLots * Lot
    <3>1. order[p.id].qty = p.qty
      BY <1>1, <2>1 DEF IInv, Matching
    <3>2. p.qty = BuyLots * Lot
      BY <1>1, <1>6 DEF Books, StartsFrom
    <3>3. f <= order[p.id].qty
      BY <1>1 DEF Books
    <3>4. QED BY <3>1, <3>2, <3>3
  <2>3. MaxFee(f) < Lot /\ MaxFee(f) \in Nat
    BY <1>2, <2>2, FeeBound, FeeType
  <2>4. f - MaxFee(f) <= h - p.before
    BY <1>1, <1>2, <1>6, <2>3 DEF Balances, PendingOrder
  <2>5. h = net[p.sym] \/ h + Lot <= p.owned + f
    BY <1>1, <1>6 DEF Exact, Fresh
  <2>6. h = net[p.sym]
    BY <1>2, <1>3, <2>3, <2>4, <2>5, ConstantFacts
  <2>7. QED BY <1>4, <2>6
<1>7. QED BY <1>2, <1>5, <1>6

LEMMA ExactReconciled ==
  ASSUME IInv, Books, Exact, PendingReconciled
  PROVE  Exact'
<1>1. st.owned \in [Symbols -> Nat] /\ net \in [Symbols -> Int]
      /\ st.pending.sym \in Symbols
  BY DEF IInv, TypeOK, State, Intent
<1>2. \A s \in Symbols \ {st.pending.sym} : st.owned[s] = net[s]
  BY ReconciledFacts DEF Exact, ExactIn
<1>3. Reconciled.owned = net
  BY <1>1, <1>2, ReconciledFacts, BalancesAreTrue
<1>4. ExactIn(Reconciled, order', net')
  BY <1>3, ReconciledFacts DEF ExactIn
<1>5. \A r \in {st', disk'} : ExactIn(r, order', net')
  BY <1>4, ReconciledFacts DEF Exact, ExactIn, Settled
<1>6. QED BY <1>5, ReconciledFacts DEF Exact, Fresh

LEMMA ExactSubmitted ==
  ASSUME IInv, Books, Exact, Submit
  PROVE  Exact'
<1>1. st.owned = net
<2>1. Settled(st)
  BY SubmittedFacts, ConstantFacts DEF Settled, Unseeded
<2>2. QED BY <2>1 DEF Exact, ExactIn
<1>2. PICK s \in Symbols :
        /\ st'.pending.sym = s /\ st'.pending.id \in Ids
        /\ posts[st'.pending.id] = 0 /\ st'.pending.owned = st.owned[s]
        /\ st'.pending.side \in {"buy", "sell"}
  BY SubmittedFacts
<1>3. /\ order[st'.pending.id].filled = 0
      /\ net[s] \in Int
  BY <1>2 DEF IInv, Numbering, Books, TypeOK
<1>4. ExactIn(st', order', net')
  BY <1>1, <1>2, <1>3, SubmittedFacts DEF ExactIn, Settled
<1>5. \A r \in {st', disk'} : ExactIn(r, order', net')
  BY <1>4, SubmittedFacts DEF Exact, ExactIn, Settled
<1>6. QED BY <1>5, SubmittedFacts DEF Exact, Fresh

LEMMA ExactPost ==
  ASSUME IInv, Books, Exact, Post
  PROVE  Exact'
<1>1. \A k \in Ids : order'[k].filled = order[k].filled
  BY PostFacts DEF Books
<1>2. \A r \in {st, disk} : r.pending # NoIntent => r.pending.id \in Ids
  BY DEF IInv, Numbering
<1>3. \A r \in {st, disk} : ExactIn(r, order', net')
  BY <1>1, <1>2, PostFacts DEF Exact, ExactIn, Settled
<1>4. QED BY <1>3, PostFacts DEF Exact, Fresh

LEMMA ExactBroker ==
  ASSUME IInv, Books, Exact, BrokerStep
  PROVE  Exact'
<1> DEFINE p == st.pending
<1>1. UNCHANGED <<st, disk, posts, pc, held>>
  BY BrokerFacts
<1>2. PICK k \in Ids :
        /\ Traded(k) /\ p # NoIntent /\ p = disk.pending /\ p.id = k
        /\ order[k].side = p.side
        /\ \/ order'[k].filled = order[k].filled /\ UNCHANGED <<holding, net>>
           \/ \E n \in Nat, d \in Int :
                /\ order[k].side = "buy" =>
                     n = Lot /\ n - MaxFee(n) <= d /\ d <= n
                /\ order[k].side = "sell" => d = -n
                /\ order'[k].filled = order[k].filled + n
                /\ holding' = [holding EXCEPT ![p.sym] = @ + d]
                /\ net' = [net EXCEPT ![p.sym] = @ + d]
  BY BrokerFacts
<1>3. /\ p.owned \in Nat /\ p.sym \in Symbols /\ p.side \in {"buy", "sell"}
      /\ order[k].filled \in Nat /\ net \in [Symbols -> Int]
      /\ held[p.sym] \in Nat
  BY DEF IInv, TypeOK, State, Intent
<1>4. CASE order'[k].filled = order[k].filled /\ UNCHANGED <<holding, net>>
  <2>1. \A r \in {st, disk} : r.pending.id = k
    BY <1>2
  <2>2. \A r \in {st, disk} : ExactIn(r, order', net')
    BY <1>2, <1>4, <2>1 DEF Exact, ExactIn, Settled
  <2>3. QED BY <1>1, <1>2, <1>4, <2>2 DEF Exact, Fresh
<1>5. ASSUME NEW n \in Nat, NEW d \in Int,
             order[k].side = "buy" => n = Lot /\ n - MaxFee(n) <= d /\ d <= n,
             order[k].side = "sell" => d = -n,
             order'[k].filled = order[k].filled + n,
             holding' = [holding EXCEPT ![p.sym] = @ + d],
             net' = [net EXCEPT ![p.sym] = @ + d]
      PROVE  Exact'
  <2>1. /\ net'[p.sym] = net[p.sym] + d
        /\ \A s \in Symbols \ {p.sym} : net'[s] = net[s]
    BY <1>3, <1>5
  <2>2. ASSUME NEW r \in {st, disk}
        PROVE  ExactIn(r, order', net')
    <3>1. r.pending = p
      BY <1>2, <2>2
    <3>2. ExactIn(r, order, net)
      BY DEF Exact
    <3>3. \A s \in Symbols \ {p.sym} : r.owned[s] = net'[s]
      BY <1>2, <2>1, <3>1, <3>2 DEF ExactIn
    <3>4. IF p.side = "buy" THEN net'[p.sym] <= p.owned + order'[k].filled
                            ELSE net'[p.sym] = p.owned - order'[k].filled
      <4>1. CASE p.side = "buy"
        <5>1. net[p.sym] <= p.owned + order[k].filled
          BY <1>2, <3>1, <3>2, <4>1 DEF ExactIn
        <5>2. d <= n
          BY <1>2, <1>5, <4>1
        <5>3. net'[p.sym] <= p.owned + order'[k].filled
          BY <1>3, <1>5, <2>1, <5>1, <5>2
        <5>4. QED BY <4>1, <5>3
      <4>2. CASE p.side = "sell"
        <5>1. net[p.sym] = p.owned - order[k].filled
          BY <1>2, <3>1, <3>2, <4>2 DEF ExactIn
        <5>2. d = -n
          BY <1>2, <1>5, <4>2
        <5>3. net'[p.sym] = p.owned - order'[k].filled
          BY <1>3, <1>5, <2>1, <5>1, <5>2
        <5>4. QED BY <4>2, <5>3
      <4>3. QED BY <1>3, <4>1, <4>2
    <3>5. QED BY <1>2, <3>1, <3>3, <3>4 DEF ExactIn, Settled
  <2>3. ASSUME p.side = "buy", pc \in {"orders", "seed", "reconcile"}
        PROVE  held[p.sym] + Lot <= p.owned + order'[k].filled
    <3>1. net[p.sym] <= p.owned + order[k].filled
      BY <1>2, <2>3 DEF Exact, ExactIn
    <3>2. \/ held[p.sym] = net[p.sym]
          \/ held[p.sym] + Lot <= p.owned + order[k].filled
      BY <1>2, <2>3 DEF Exact, Fresh
    <3>3. n = Lot
      BY <1>2, <1>5, <2>3
    <3>4. QED BY <1>3, <1>5, <3>1, <3>2, <3>3, ConstantFacts
  <2>4. holding' = net'
    BY <1>5 DEF Exact
  <2>5. QED BY <1>1, <1>2, <2>2, <2>3, <2>4 DEF Exact, Fresh
<1>6. QED BY <1>2, <1>4, <1>5

LEMMA ExactInit == Init => Exact
  BY ConstantFacts DEF Init, Exact, ExactIn, Settled, Fresh

\* Alone in the account, both records and the account differ by exactly what
\* the pending order has filled.
THEOREM ExactInvariance ==
  ASSUME ForeignUnits = {}
  PROVE  Spec => []Exact
<1>1. Init => Exact
  BY ExactInit
<1>2. IInv /\ Books /\ Exact /\ [Next]_vars => Exact'
  BY StepCases, ExactKeeping, ExactSeeded, ExactReconciled, ExactSubmitted,
     ExactPost, ExactBroker
<1>3. QED BY <1>1, <1>2, Invariance, BooksInvariance, PTL DEF Spec

\* Alone in the account, memory and file own exactly what the fills brought,
\* less their fees, whenever nothing is pending: what reconcile compares
\* excludes stale positions, for any lot, fee and number of restarts.
THEOREM OwnedExactly ==
  ASSUME ForeignUnits = {}
  PROVE  Spec => []OwnershipExact
<1>1. Exact => OwnershipExact
  BY DEF Exact, ExactIn, OwnershipExact
<1>2. QED BY <1>1, ExactInvariance, PTL

\* Alone in the account, what the broker may trade is on record, and a sell
\* offers no more than the worker owns.
THEOREM BackedOrders ==
  ASSUME ForeignUnits = {}
  PROVE  Spec => []OrdersAreBacked
<1>1. IInv /\ Books /\ Exact => SellsAreCovered
  <2> SUFFICES ASSUME IInv, Books, Exact, NEW k \in Ids,
                      InMarket(k), order[k].side = "sell"
               PROVE  order[k].qty - order[k].filled <= net[order[k].sym]
    BY DEF SellsAreCovered
  <2>1. st.pending.id = k /\ st.pending # NoIntent
    BY DEF IInv, InFlight, NoIntent, Ids
  <2>2. posts[k] > 0
    BY DEF IInv, Numbering, InMarket, TypeOK
  <2>3. /\ order[k].sym = st.pending.sym /\ st.pending.side = "sell"
        /\ order[k].qty = st.pending.qty
    BY <2>1, <2>2 DEF IInv, Matching
  <2>4. order[k].qty <= st.pending.owned
    BY <2>1, <2>3 DEF Books, StartsFrom
  <2>5. net[order[k].sym] = st.pending.owned - order[k].filled
    BY <2>1, <2>3 DEF Exact, ExactIn
  <2>6. order[k].qty \in Nat /\ order[k].filled \in Nat /\ st.pending.owned \in Nat
    BY DEF IInv, TypeOK, State, Intent
  <2>7. QED BY <2>4, <2>5, <2>6
<1>2. IInv => OneInFlight
  BY DEF IInv, InFlight, OneInFlight
<1>3. QED BY <1>1, <1>2, Invariance, BooksInvariance, ExactInvariance, PTL
     DEF OrdersAreBacked

-----------------------------------------------------------------------------
(* With others in the account.                                             *)

\* What the fees of a set of entries may have cost.
Fees(S) == BuyLots * Cardinality(S)

Within(x, m) == -m <= x /\ x <= m

Fills == [s \in Symbols |-> FilledBuys(s)]

\* A record's books against what was brought: off by the fees of the filled
\* entries, those of a pending entry not yet among them.
DriftIn(r, orders, brought, fills) ==
  /\ ~Unseeded(r) =>
       \A s \in Symbols : r.pending = NoIntent \/ r.pending.sym # s =>
         Within(r.owned[s] - brought[s], Fees(fills[s]))
  /\ r.pending # NoIntent =>
       LET s == r.pending.sym
           f == orders[r.pending.id].filled
           m == Fees(fills[s] \ {r.pending.id})
       IN IF r.pending.side = "buy"
            THEN /\ r.pending.owned + f - MaxFee(f) - brought[s] <= m
                 /\ -m <= r.pending.owned + f - brought[s]
            ELSE Within(r.pending.owned - f - brought[s], m)

Drift == \A r \in {st, disk} : DriftIn(r, order, net, Fills)

LEMMA FeesFacts ==
  ASSUME IInv, NEW s \in Symbols
  PROVE  /\ Fills[s] = FilledBuys(s) /\ IsFiniteSet(Fills[s])
         /\ Fees(Fills[s]) \in Nat
         /\ \A k \in Ids : Fees(Fills[s] \ {k}) \in Nat
         /\ \A k \in Fills[s] : Fees(Fills[s]) = Fees(Fills[s] \ {k}) + BuyLots
<1>1. Fills[s] = FilledBuys(s) /\ FilledBuys(s) \subseteq 1..MaxOrders
  BY DEF Fills, FilledBuys, Ids
<1>2. IsFiniteSet(1..MaxOrders)
  BY FS_Interval, ConstantFacts
<1>3. IsFiniteSet(Fills[s])
  BY <1>1, <1>2, FS_Subset
<1>4. Cardinality(Fills[s]) \in Nat
  BY <1>3, FS_CardinalityType
<1>5. \A k \in Ids : IsFiniteSet(Fills[s] \ {k})
                     /\ Cardinality(Fills[s] \ {k}) \in Nat
  BY <1>3, FS_RemoveElement, FS_CardinalityType
<1>6. ASSUME NEW k \in Fills[s]
      PROVE  Fees(Fills[s]) = Fees(Fills[s] \ {k}) + BuyLots
  <2>1. k \in Ids
    BY <1>1 DEF Ids
  <2>2. Cardinality(Fills[s] \ {k}) = Cardinality(Fills[s]) - 1
    BY <1>3, FS_RemoveElement
  <2>3. \A c \in Nat : BuyLots * (c + 1) = BuyLots * c + BuyLots
    BY ConstantFacts
  <2>4. Cardinality(Fills[s]) = Cardinality(Fills[s] \ {k}) + 1
    BY <1>4, <2>2
  <2>5. QED BY <1>5, <2>1, <2>3, <2>4 DEF Fees
<1>7. \A c \in Nat : BuyLots * c \in Nat
  BY ConstantFacts
<1>8. QED BY <1>1, <1>3, <1>4, <1>5, <1>6, <1>7 DEF Fees

\* Entries count once they are filled, so only a fill adds one.
LEMMA FillsSame ==
  ASSUME IInv,
         \A k \in Ids : /\ order'[k].filled = order[k].filled
                        /\ Posted(k, "buy") /\ order[k].filled > 0 =>
                             Posted(k, "buy")' /\ order'[k].sym = order[k].sym
                        /\ Posted(k, "buy")' /\ order[k].filled > 0 =>
                             Posted(k, "buy") /\ order'[k].sym = order[k].sym
  PROVE  Fills' = Fills
<1>1. \A s \in Symbols : FilledBuys(s)' = FilledBuys(s)
  BY DEF FilledBuys
<1>2. QED BY <1>1 DEF Fills

LEMMA DriftKeeping == IInv /\ Drift /\ Keeping => Drift'
<1> SUFFICES ASSUME IInv, Drift, Keeping PROVE Drift'
  OBVIOUS
<1>1. UNCHANGED <<order, net, posts>> /\ Fills' = Fills
  BY FillsSame DEF Keeping, Posted
<1>2. ASSUME NEW r \in {st', disk'}
      PROVE  DriftIn(r, order', net', Fills')
  <2>1. PICK q \in {st, disk} : SameBooks(r, q)
    BY <1>2 DEF Keeping
  <2>2. DriftIn(q, order, net, Fills)
    BY DEF Drift
  <2>3. QED BY <1>1, <2>1, <2>2 DEF DriftIn, SameBooks, Unseeded
<1>3. QED BY <1>2 DEF Drift

LEMMA WithinZero == ASSUME NEW m \in Nat PROVE Within(0, m)
  BY DEF Within

LEMMA DriftSeeded == IInv /\ Books /\ Drift /\ SeedVerified => Drift'
<1> SUFFICES ASSUME IInv, Books, Drift, SeedVerified PROVE Drift'
  OBVIOUS
<1>1. UNCHANGED <<order, net, posts>> /\ Fills' = Fills
  BY FillsSame, SeededFacts DEF Posted
<1>2. \A s \in Symbols : Seeded.owned[s] - net[s] = 0
  BY SeededFacts, ConstantFacts DEF InitialNet
<1>3. DriftIn(Seeded, order', net', Fills')
  BY <1>1, <1>2, SeededFacts, WithinZero, FeesFacts DEF DriftIn
<1>4. DriftIn(disk, order', net', Fills')
  BY <1>1 DEF Drift
<1>5. QED BY <1>3, <1>4, SeededFacts DEF Drift

\* An entry's outcome is off by its fees at most, an exit's is exact.
LEMMA OutcomeWithin ==
  ASSUME IInv, Books, Drift, PendingReconciled
  PROVE  LET s == st.pending.sym
         IN Within(OwnedAfter - net[s], Fees(Fills[s]))
<1> DEFINE p == st.pending
           s == p.sym
           f == order[p.id].filled
           m == Fees(Fills[s] \ {p.id})
<1>1. /\ p # NoIntent /\ p.id \in Ids /\ order[p.id].status = "done"
      /\ Balances
  BY ReconciledFacts
<1>2. /\ p.owned \in Nat /\ p.before \in Nat /\ p.side \in {"buy", "sell"}
      /\ s \in Symbols /\ held[s] \in Nat /\ f \in Nat /\ net[s] \in Int
  BY <1>1 DEF IInv, TypeOK, State, Intent
<1>3. m \in Nat /\ Fees(Fills[s]) \in Nat
  BY <1>1, <1>2, FeesFacts
<1>4. posts[p.id] > 0
  BY <1>1 DEF IInv, Numbering, TypeOK
<1>5. order[p.id].side = p.side /\ order[p.id].sym = s /\ order[p.id].qty = p.qty
  BY <1>1, <1>4 DEF IInv, Matching
<1>6. CASE p.side = "sell"
  <2>1. OwnedAfter = p.owned - f
    BY <1>6 DEF OwnedAfter, PendingOrder
  <2>2. Within(p.owned - f - net[s], m)
    BY <1>1, <1>6 DEF Drift, DriftIn
  <2>3. p.id \notin Fills[s]
    BY <1>2, <1>5, <1>6, FeesFacts DEF FilledBuys, Posted
  <2>4. Fills[s] \ {p.id} = Fills[s]
    BY <2>3
  <2>5. QED BY <2>1, <2>2, <2>4
<1>7. CASE p.side = "buy"
  <2>1. OwnedAfter = p.owned + held[s] - p.before
    BY <1>7 DEF OwnedAfter
  <2>2. MaxFee(f) \in Nat /\ MaxFee(f) <= BuyLots
    <3>1. f <= BuyLots * Lot
      BY <1>1, <1>5, <1>7 DEF Books, StartsFrom
    <3>2. QED BY <1>2, <3>1, FeeBound, FeeType
  <2>3. f - MaxFee(f) <= held[s] - p.before /\ held[s] - p.before <= f
    BY <1>1, <1>2, <1>7, <2>2 DEF Balances, PendingOrder
  <2>4. /\ p.owned + f - MaxFee(f) - net[s] <= m
        /\ -m <= p.owned + f - net[s]
    BY <1>1, <1>7 DEF Drift, DriftIn
  <2>5. m + MaxFee(f) <= Fees(Fills[s])
    <3>1. CASE f = 0
      <4>1. MaxFee(0) = 0
        BY ConstantFacts DEF MaxFee
      <4>2. p.id \notin Fills[s]
        BY <1>2, <3>1, FeesFacts DEF FilledBuys
      <4>3. Fills[s] \ {p.id} = Fills[s]
        BY <4>2
      <4>4. MaxFee(f) = 0 /\ m = Fees(Fills[s])
        BY <3>1, <4>1, <4>3
      <4> HIDE DEF m, f
      <4>5. QED BY <1>3, <4>4
    <3>2. CASE f > 0
      <4>1. p.id \in Fills[s]
        BY <1>1, <1>2, <1>4, <1>5, <1>7, <3>2, FeesFacts DEF FilledBuys, Posted
      <4>2. Fees(Fills[s]) = m + BuyLots
        BY <1>2, <4>1, FeesFacts
      <4>3. QED BY <1>3, <2>2, <4>2, ConstantFacts
    <3>3. QED BY <1>2, <3>1, <3>2
  <2> HIDE DEF m, f
  <2>6. QED BY <1>2, <1>3, <2>1, <2>2, <2>3, <2>4, <2>5 DEF Within
<1>8. QED BY <1>2, <1>6, <1>7

LEMMA DriftReconciled == IInv /\ Books /\ Drift /\ PendingReconciled => Drift'
<1> SUFFICES ASSUME IInv, Books, Drift, PendingReconciled PROVE Drift'
  OBVIOUS
<1>1. UNCHANGED <<order, net, posts>> /\ Fills' = Fills
  BY FillsSame, ReconciledFacts DEF Posted
<1>2. st.owned \in [Symbols -> Nat] /\ st.pending.sym \in Symbols
  BY DEF IInv, TypeOK, State, Intent
<1>3. ~Unseeded(st)
  BY ReconciledFacts DEF Books, StartsFrom
<1>4. \A s \in Symbols \ {st.pending.sym} :
        Within(st.owned[s] - net[s], Fees(Fills[s]))
  BY <1>3 DEF Drift, DriftIn
<1>5. \A s \in Symbols : Within(Reconciled.owned[s] - net[s], Fees(Fills[s]))
  BY <1>2, <1>4, ReconciledFacts, OutcomeWithin
<1>6. DriftIn(Reconciled, order', net', Fills')
  BY <1>1, <1>5, ReconciledFacts DEF DriftIn
<1>7. DriftIn(disk, order', net', Fills')
  BY <1>1 DEF Drift
<1>8. QED BY <1>6, <1>7, ReconciledFacts DEF Drift

LEMMA DriftSubmitted == IInv /\ Books /\ Drift /\ Submit => Drift'
<1> SUFFICES ASSUME IInv, Books, Drift, Submit PROVE Drift'
  OBVIOUS
<1>1. UNCHANGED <<order, net, posts>> /\ Fills' = Fills
  BY FillsSame, SubmittedFacts DEF Posted
<1>2. PICK s \in Symbols :
        /\ st'.pending.sym = s /\ st'.pending.id \in Ids
        /\ posts[st'.pending.id] = 0 /\ st'.pending.owned = st.owned[s]
        /\ st'.pending.side \in {"buy", "sell"}
  BY SubmittedFacts
<1>3. \A t \in Symbols : Within(st.owned[t] - net[t], Fees(Fills[t]))
  BY SubmittedFacts DEF Drift, DriftIn
<1>4. /\ order[st'.pending.id].filled = 0
      /\ net[s] \in Int /\ st.owned[s] \in Nat
  BY <1>2 DEF IInv, Numbering, Books, TypeOK, State
<1>5. Fills[s] \ {st'.pending.id} = Fills[s]
  BY <1>2, FeesFacts DEF FilledBuys, Posted
<1>6. MaxFee(0) = 0
  BY ConstantFacts DEF MaxFee
<1>7. DriftIn(st', order', net', Fills')
  <2>1. st'.pending # NoIntent /\ ~Unseeded(st') /\ st'.owned = st.owned
    BY SubmittedFacts DEF Unseeded
  <2>2. Fees(Fills[s]) \in Nat
    BY FeesFacts
  <2>3. Within(st.owned[s] - net[s], Fees(Fills[s]))
    BY <1>3
  <2> DEFINE owned == st'.pending.owned
             m == Fees(Fills[s] \ {st'.pending.id})
  <2>4. /\ owned - net[s] <= m /\ -m <= owned - net[s]
        /\ owned \in Nat /\ m \in Nat
    BY <1>2, <1>4, <1>5, <2>2, <2>3 DEF Within
  <2> HIDE DEF owned, m
  <2>5. /\ owned + 0 - MaxFee(0) - net[s] <= m /\ -m <= owned + 0 - net[s]
        /\ Within(owned - 0 - net[s], m)
    BY <1>4, <1>6, <2>4 DEF Within
  <2>6. QED BY <1>1, <1>2, <1>3, <1>4, <2>1, <2>5 DEF DriftIn, owned, m
<1>8. DriftIn(disk, order', net', Fills')
  BY <1>1 DEF Drift
<1>9. QED BY <1>7, <1>8, SubmittedFacts DEF Drift

LEMMA DriftPost == IInv /\ Books /\ Drift /\ Post => Drift'
<1> SUFFICES ASSUME IInv, Books, Drift, Post PROVE Drift'
  OBVIOUS
<1>1. \A k \in Ids : order'[k].filled = order[k].filled
  BY PostFacts DEF Books
<1>2. Fills' = Fills
  <2>1. \A k \in Ids : order[k].filled > 0 => k # st.pending.id
    BY PostFacts DEF Books
  <2>2. QED BY <1>1, <2>1, FillsSame, PostFacts DEF Posted
<1>3. \A r \in {st, disk} : r.pending # NoIntent => r.pending.id \in Ids
  BY DEF IInv, Numbering
<1>4. \A r \in {st, disk} : DriftIn(r, order', net', Fills')
  BY <1>1, <1>2, <1>3, PostFacts DEF Drift, DriftIn
<1>5. QED BY <1>4, PostFacts DEF Drift

LEMMA DriftBroker == IInv /\ Books /\ Drift /\ BrokerStep => Drift'
<1> SUFFICES ASSUME IInv, Books, Drift, BrokerStep PROVE Drift'
  OBVIOUS
<1> DEFINE p == st.pending
           s == p.sym
<1>1. UNCHANGED <<st, disk, posts, pc, held>>
  BY BrokerFacts
<1>2. PICK k \in Ids :
        /\ Traded(k) /\ p # NoIntent /\ p = disk.pending /\ p.id = k
        /\ order[k].sym = s /\ order[k].side = p.side
        /\ \A j \in Ids \ {k} : order'[j].filled = order[j].filled
        /\ \/ order'[k].filled = order[k].filled /\ UNCHANGED <<holding, net>>
           \/ \E n \in Nat, d \in Int :
                /\ order[k].side = "buy" =>
                     n = Lot /\ n - MaxFee(n) <= d /\ d <= n
                /\ order[k].side = "sell" => d = -n
                /\ order'[k].filled = order[k].filled + n
                /\ net' = [net EXCEPT ![s] = @ + d]
  BY BrokerFacts
<1>3. /\ p.owned \in Nat /\ s \in Symbols /\ p.side \in {"buy", "sell"}
      /\ order[k].filled \in Nat /\ net \in [Symbols -> Int]
  BY DEF IInv, TypeOK, State, Intent
<1>4. \A j \in Ids : Posted(j, "buy")' <=> Posted(j, "buy")
  BY <1>1, <1>2 DEF Posted, Traded
<1>5. CASE order'[k].filled = order[k].filled /\ UNCHANGED <<holding, net>>
  <2>1. \A j \in Ids : order'[j].filled = order[j].filled
    BY <1>2, <1>5
  <2>2. Fills' = Fills
    BY <1>2, <1>4, <2>1, FillsSame DEF Traded
  <2>3. \A r \in {st, disk} : r.pending.id = k
    BY <1>2
  <2>4. \A r \in {st, disk} : DriftIn(r, order', net', Fills')
    BY <1>5, <2>2, <2>3 DEF Drift, DriftIn
  <2>5. QED BY <1>1, <2>4 DEF Drift
<1>6. ASSUME NEW n \in Nat, NEW d \in Int,
             order[k].side = "buy" => n = Lot /\ n - MaxFee(n) <= d /\ d <= n,
             order[k].side = "sell" => d = -n,
             order'[k].filled = order[k].filled + n,
             net' = [net EXCEPT ![s] = @ + d]
      PROVE  Drift'
  <2>1. /\ net'[s] = net[s] + d
        /\ \A t \in Symbols \ {s} : net'[t] = net[t]
    BY <1>3, <1>6
  <2>2. \A t \in Symbols \ {s} : FilledBuys(t)' = FilledBuys(t)
    BY <1>2, <1>4 DEF FilledBuys, Traded
  <2>3. FilledBuys(s)' \ {k} = FilledBuys(s) \ {k}
    <3>1. \A j \in Ids \ {k} : /\ order'[j] = order[j]
                               /\ Posted(j, "buy")' <=> Posted(j, "buy")
      BY <1>2, <1>4 DEF Traded
    <3>2. s' = s
      BY <1>1
    <3> HIDE DEF s
    <3>3. QED BY <3>1, <3>2 DEF FilledBuys
  <2>4. /\ Fills'[s] \ {k} = Fills[s] \ {k}
        /\ \A t \in Symbols \ {s} : Fills'[t] = Fills[t]
    <3>1. /\ \A t \in Symbols : Fills[t] = FilledBuys(t)
          /\ \A t \in Symbols : Fills'[t] = FilledBuys(t)'
      BY DEF Fills
    <3>2. FilledBuys(s)' = Fills'[s]
      BY <1>1, <1>3, <3>1
    <3>3. QED BY <1>3, <2>2, <2>3, <3>1, <3>2
  <2>5. ASSUME NEW r \in {st, disk}
        PROVE  DriftIn(r, order', net', Fills')
    <3> DEFINE f == order[k].filled
               m == Fees(Fills[s] \ {k})
    <3>1. r.pending = p /\ DriftIn(r, order, net, Fills)
      BY <1>2, <2>5 DEF Drift
    <3>2. ~Unseeded(r) =>
            \A t \in Symbols : r.pending = NoIntent \/ s # t =>
              Within(r.owned[t] - net'[t], Fees(Fills'[t]))
      BY <1>2, <2>1, <2>4, <3>1 DEF DriftIn
    <3>3. m \in Nat /\ MaxFee(f) \in Nat
      BY <1>3, FeesFacts, FeeType
    <3>4. CASE p.side = "buy"
      <4>1. /\ p.owned + f - MaxFee(f) - net[s] <= m
            /\ -m <= p.owned + f - net[s]
        BY <1>2, <3>1, <3>4 DEF DriftIn
      <4>2. /\ MaxFee(f + Lot) = MaxFee(f) + 1 /\ MaxFee(Lot) = 1
        BY <1>3, ConstantFacts DEF MaxFee
      <4>3. n = Lot /\ Lot - 1 <= d /\ d <= Lot
        BY <1>2, <1>6, <3>4, <4>2
      <4> HIDE DEF m
      <4>4. /\ p.owned + (f + n) - MaxFee(f + n) - net'[s] <= m
            /\ -m <= p.owned + (f + n) - net'[s]
        BY <1>3, <2>1, <3>3, <4>1, <4>2, <4>3, ConstantFacts
      <4>5. QED BY <1>2, <1>6, <2>4, <3>1, <3>2, <3>4, <4>4 DEF DriftIn, m
    <3>5. CASE p.side = "sell"
      <4>1. Within(p.owned - f - net[s], m)
        BY <1>2, <3>1, <3>5 DEF DriftIn
      <4>2. d = -n
        BY <1>2, <1>6, <3>5
      <4> HIDE DEF m
      <4>3. Within(p.owned - (f + n) - net'[s], m)
        BY <1>3, <2>1, <3>3, <4>1, <4>2 DEF Within
      <4>4. QED BY <1>2, <1>6, <2>4, <3>1, <3>2, <3>5, <4>3 DEF DriftIn, m
    <3>6. QED BY <1>3, <3>4, <3>5
  <2>6. QED BY <1>1, <2>5 DEF Drift
<1>7. QED BY <1>2, <1>5, <1>6

LEMMA DriftInit == Init => Drift
<1> SUFFICES ASSUME Init PROVE Drift
  OBVIOUS
<1>1. IInv
  BY InitInv
<1>2. \A s \in Symbols : ~Unseeded(st) => st.owned[s] - net[s] = 0
  BY ConstantFacts DEF Init, Unseeded
<1>3. DriftIn(st, order, net, Fills)
  BY <1>1, <1>2, FeesFacts, WithinZero DEF Init, DriftIn
<1>4. QED BY <1>3 DEF Init, Drift

\* With others in the account, both records and the fills recorded at the
\* broker differ by at most the fees of the filled entries.
THEOREM DriftInvariance == Spec => []Drift
<1>1. Init => Drift
  BY DriftInit
<1>2. IInv /\ Books /\ Drift /\ [Next]_vars => Drift'
  BY StepCases, DriftKeeping, DriftSeeded, DriftReconciled, DriftSubmitted,
     DriftPost, DriftBroker
<1>3. QED BY <1>1, <1>2, Invariance, BooksInvariance, PTL DEF Spec

\* Whoever else trades in the account, the books of the worker are off by at
\* most the fees of its filled entries: reconcile compares every order's fills
\* with the account before it adopts a balance.
THEOREM OwnedWithinFees == Spec => []OwnershipWithinFees
<1>1. IInv /\ Drift => OwnershipWithinFees
  <2> SUFFICES ASSUME IInv, Drift, NEW r \in {st, disk}, Settled(r),
                      NEW s \in Symbols
               PROVE  r.owned[s] - net[s] \in
                        -(BuyLots * Cardinality(FilledBuys(s)))
                          ..(BuyLots * Cardinality(FilledBuys(s)))
    BY DEF OwnershipWithinFees
  <2>1. Within(r.owned[s] - net[s], Fees(FilledBuys(s)))
    BY FeesFacts DEF Drift, DriftIn, Settled, Unseeded
  <2>2. r.owned[s] \in Nat /\ net[s] \in Int /\ Fees(FilledBuys(s)) \in Nat
    BY FeesFacts DEF IInv, TypeOK, State
  <2>3. QED BY <2>1, <2>2 DEF Within, Fees
<1>2. QED BY <1>1, Invariance, DriftInvariance, PTL
=============================================================================
