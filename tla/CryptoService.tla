--------------------------- MODULE CryptoService ---------------------------
(***************************************************************************)
(* The continuous crypto worker of scripts/paper_crypto_service.py, with   *)
(* the planner of execution/crypto_manager.py: one tick after another, a   *)
(* state file rewritten atomically, and at most one order at a time.       *)
(*                                                                         *)
(* A tick reads the account and the positions, then the open orders, then  *)
(* the pending order, and only later plans and submits; the broker, the    *)
(* calendar, other users of the account, storage faults and crashes act    *)
(* between any two of these steps.  "pc" names what the tick does next.    *)
(* Prices enter only as the verdicts the planner draws from them.          *)
(***************************************************************************)
EXTENDS Integers, FiniteSets

CONSTANTS
  NSymbols,       \* SYMBOLS, by their place in the tuple
  SeedQty,        \* units of symbol 1 held under --seed, 0 without a seed
  SeedTried,      \* symbols the seed file lists attempts of, on the first day
  Lot,            \* units of which a buy fee takes at most one
  BuyLots,        \* lots per entry
  ForeignUnits,   \* amounts others may trade in the account
  Faults,         \* writes may fail, the client may refuse a POST
  MaxOrders, MaxDay, MaxLives    \* bounds

ASSUME SizeAssumption ==
  /\ NSymbols \in Nat \ {0} /\ SeedQty \in Nat /\ SeedTried \subseteq 1..NSymbols
  /\ BuyLots \in Nat \ {0} /\ Lot \in Nat /\ Lot > BuyLots
ASSUME FaultAssumption ==
  ForeignUnits \subseteq Nat \ {0} /\ Faults \in BOOLEAN
ASSUME LimitAssumption ==
  MaxOrders \in Nat \ {0} /\ MaxDay \in Nat \ {0} /\ MaxLives \in Nat \ {0}

VARIABLES
  \* the service process
  pc,
  st,             \* self.state
  storageFailed,  \* self.storage_failed
  tickDay, held, openSymbols,    \* what this tick has read
  \* the state file
  disk,
  \* the broker
  order,          \* order[k]: the order with sequence number k
  holding,        \* units in the account
  \* environment
  today,
  \* history
  net,            \* units the service's own orders (and seed) brought
  posts,          \* POSTs per sequence number
  haltDays,       \* days whose loss limit was recorded
  life

processVars == <<pc, st, storageFailed, tickDay, held, openSymbols>>
brokerVars  == <<order, holding, net>>
historyVars == <<posts, haltDays, life>>
vars == <<processVars, disk, brokerVars, today, historyVars>>

Symbols == 1..NSymbols
Days    == 1..MaxDay
Ids     == 1..MaxOrders

\* state["pending"]: the order it announces and the balances it starts from.
Intent == [id : 0..MaxOrders, sym : Symbols, side : {"buy", "sell"},
           qty : Nat, before : Nat, owned : Nat]

NoIntent == [id |-> 0, sym |-> 1, side |-> "buy", qty |-> 0, before |-> 0,
             owned |-> 0]

\* One record of state.json; day 0 stands for an empty "daily".
State == [owned : [Symbols -> Nat], tried : SUBSET (Days \X Symbols),
          pending : Intent, sequence : 0..MaxOrders, day : 0..MaxDay,
          halted : BOOLEAN, seeded : BOOLEAN]

\* "sent": the POST has left, the broker may take it later or never.
OrderStatus == {"absent", "sent", "working", "done"}

NoOrder == [status |-> "absent", sym |-> 1, side |-> "buy", qty |-> 0,
            filled |-> 0, day |-> 1]

Steps == {"idle", "orders", "seed", "reconcile", "daily", "limit", "plan",
          "announce", "post"}

TypeOK ==
  /\ pc \in Steps
  /\ st \in State /\ disk \in State
  /\ storageFailed \in BOOLEAN
  /\ tickDay \in Days /\ held \in [Symbols -> Nat]
  /\ openSymbols \subseteq Symbols
  /\ order \in [Ids -> [status : OrderStatus, sym : Symbols,
                        side : {"buy", "sell"}, qty : Nat, filled : Nat,
                        day : Days]]
  /\ holding \in [Symbols -> Nat] /\ net \in [Symbols -> Int]
  /\ today \in Days
  /\ posts \in [Ids -> Nat] /\ haltDays \subseteq Days
  /\ life \in 1..MaxLives

-----------------------------------------------------------------------------
(* Service.save: the state in memory is already changed when it fails, and *)
(* the file may have been replaced all the same.                           *)

Save(new) == st' = new /\ disk' = new /\ UNCHANGED storageFailed

SaveFails(new) ==
  /\ Faults
  /\ st' = new /\ disk' \in {disk, new}
  /\ storageFailed' = TRUE

\* The tick ends here: its error goes to status.json, or its work is done.
EndTick == pc' = "idle"

Quiet == UNCHANGED <<tickDay, held, openSymbols, brokerVars, today,
                     historyVars>>

-----------------------------------------------------------------------------
(* tick: reading.                                                          *)

\* After a failed save every tick of this process ends at once.
TickRefused == pc = "idle" /\ storageFailed /\ UNCHANGED vars

ReadPositions ==
  /\ pc = "idle" /\ ~storageFailed
  /\ tickDay' = today /\ held' = holding
  /\ pc' = "orders"
  /\ UNCHANGED <<st, storageFailed, openSymbols, disk, brokerVars, today,
                 historyVars>>

Working(k) == order[k].status = "working"

ReadOrders ==
  /\ pc = "orders"
  /\ openSymbols' = {order[k].sym : k \in {i \in Ids : Working(i)}}
  /\ pc' = "seed"
  /\ UNCHANGED <<st, storageFailed, tickDay, held, disk, brokerVars, today,
                 historyVars>>

\* A read raises; so do the checks of account, order and market answers.
TickFails ==
  /\ pc \in {"orders", "seed", "reconcile", "daily", "plan"}
  /\ EndTick
  /\ UNCHANGED <<st, storageFailed, disk>> /\ Quiet

SeedNotNeeded ==
  /\ pc = "seed" /\ (st.seeded \/ SeedQty = 0)
  /\ pc' = "reconcile"
  /\ UNCHANGED <<st, storageFailed, disk>> /\ Quiet

SeedAttempts == {1} \X SeedTried

SeedDue == pc = "seed" /\ ~st.seeded /\ SeedQty > 0 /\ held[1] = SeedQty

\* An attempt cannot be verified: those before it stay in memory, unsaved.
SeedUnverified ==
  /\ SeedDue
  /\ \E some \in SUBSET SeedAttempts : st' = [st EXCEPT !.tried = @ \cup some]
  /\ EndTick
  /\ UNCHANGED <<storageFailed, disk>> /\ Quiet

Seeded ==
  [st EXCEPT !.owned[1] = SeedQty, !.seeded = TRUE, !.tried = @ \cup SeedAttempts]

SeedVerified ==
  /\ SeedDue
  /\ \/ Save(Seeded) /\ pc' \in {"reconcile"} \cup
                              (IF Faults THEN {"idle"} ELSE {})
     \/ SaveFails(Seeded) /\ EndTick
  /\ Quiet

-----------------------------------------------------------------------------
(* reconcile                                                               *)

NothingPending ==
  /\ pc = "reconcile" /\ st.pending = NoIntent
  /\ pc' = "daily"
  /\ UNCHANGED <<st, storageFailed, disk>> /\ Quiet

\* The order at the broker that the pending intent names.
PendingOrder == order[st.pending.id]

\* Mutant: an order the broker does not know is POSTed again.
StillPendingReposts ==
  /\ pc = "reconcile" /\ st.pending # NoIntent
  /\ PendingOrder.status # "done"
  /\ pc' = IF PendingOrder.status = "working" THEN "idle" ELSE "post"
  /\ UNCHANGED <<st, storageFailed, disk>> /\ Quiet

\* Mutant: an order the broker does not know is forgotten.
StillPendingForgets ==
  /\ pc = "reconcile" /\ st.pending # NoIntent
  /\ PendingOrder.status # "done"
  /\ IF PendingOrder.status = "working"
       THEN UNCHANGED <<st, storageFailed, disk>>
       ELSE Save([st EXCEPT !.pending = NoIntent])
  /\ EndTick /\ Quiet

\* "pending_not_found" or not terminal: nothing else happens in this tick.
StillPending ==
  /\ pc = "reconcile" /\ st.pending # NoIntent
  /\ PendingOrder.status # "done"
  /\ EndTick
  /\ UNCHANGED <<st, storageFailed, disk>> /\ Quiet

MaxFee(filled) == filled \div Lot

\* What the service owns after its order, by the fills and this tick's
\* positions; a buy fee is taken out of the coins bought.
OwnedAfter ==
  LET p == st.pending
      f == PendingOrder.filled
  IN IF p.side = "buy" THEN p.owned + held[p.sym] - p.before
                       ELSE p.owned - f

\* Mutant: the account's holding is adopted without comparing the fills.
BalancesAnyDelta == OwnedAfter = held[st.pending.sym]

\* Mutant: the fee a buy costs is not allowed for.
BalancesWithoutFee ==
  /\ IF st.pending.side = "buy"
       THEN held[st.pending.sym] - st.pending.before = PendingOrder.filled
       ELSE st.pending.before - held[st.pending.sym] = PendingOrder.filled
  /\ OwnedAfter >= 0
  /\ OwnedAfter = held[st.pending.sym]

Balances ==
  LET p == st.pending
      f == PendingOrder.filled
      delta == held[p.sym] - p.before
  IN /\ IF p.side = "buy" THEN delta \in (f - MaxFee(f))..f
                          ELSE -delta = f
     /\ OwnedAfter >= 0
     /\ OwnedAfter = held[p.sym]

\* A foreign change, or positions older than the order: try again next tick.
Unreconciled ==
  /\ pc = "reconcile" /\ st.pending # NoIntent
  /\ PendingOrder.status = "done" /\ ~Balances
  /\ EndTick
  /\ UNCHANGED <<st, storageFailed, disk>> /\ Quiet

Reconciled ==
  [st EXCEPT !.owned[st.pending.sym] = OwnedAfter, !.pending = NoIntent]

PendingReconciled ==
  /\ pc = "reconcile" /\ st.pending # NoIntent
  /\ PendingOrder.status = "done" /\ Balances
  /\ \/ Save(Reconciled) /\ pc' \in {"daily"} \cup
                                  (IF Faults THEN {"idle"} ELSE {})
     \/ SaveFails(Reconciled) /\ EndTick
  /\ Quiet

-----------------------------------------------------------------------------
(* The daily loss limit.                                                   *)

NewDay ==
  /\ pc = "daily" /\ st.day # tickDay
  /\ LET new == [st EXCEPT !.day = tickDay, !.halted = FALSE]
     IN \/ Save(new) /\ pc' = "limit"
        \/ SaveFails(new) /\ EndTick
  /\ Quiet

SameDay ==
  /\ pc = "daily" /\ st.day = tickDay
  /\ pc' = "limit"
  /\ UNCHANGED <<st, storageFailed, disk>> /\ Quiet

\* Mutant: the halt is kept in memory only.
LimitReachedUnsaved ==
  /\ pc = "limit"
  /\ st' = [st EXCEPT !.halted = TRUE] /\ pc' = "plan"
  /\ haltDays' = haltDays \cup {tickDay}
  /\ UNCHANGED <<storageFailed, tickDay, held, openSymbols, disk, brokerVars,
                 today, posts, life>>

\* Equity is at most 97% of the day's first: no entries for the rest of it.
LimitReached ==
  /\ pc = "limit"
  /\ LET new == [st EXCEPT !.halted = TRUE]
     IN \/ Save(new) /\ pc' = "plan" /\ haltDays' = haltDays \cup {tickDay}
        \/ SaveFails(new) /\ EndTick /\ UNCHANGED haltDays
  /\ UNCHANGED <<tickDay, held, openSymbols, brokerVars, today, posts,
                 life>>

LimitNotReached ==
  /\ pc = "limit"
  /\ pc' = "plan"
  /\ UNCHANGED <<st, storageFailed, disk>> /\ Quiet

-----------------------------------------------------------------------------
(* plan_crypto_actions and submit.  "bullish" and "usable" are the symbols *)
(* whose last close is above the average, and whose bars and asset can be  *)
(* used; "enabled" that there is no STOP file.  The bars are those of        *)
(* tickDay: after midnight the planner rejects them all.                   *)

Blocked(s, usable) ==
  held[s] # st.owned[s] \/ s \in openSymbols \/ s \notin usable

ExitsPlanned(bullish, usable) ==
  {s \in Symbols : ~Blocked(s, usable) /\ held[s] > 0 /\ s \notin bullish}

\* Mutant: an entry of the day may be tried again.
EntriesRetried(bullish, usable, enabled) ==
  {s \in Symbols : /\ ~Blocked(s, usable) /\ held[s] = 0 /\ s \in bullish
                   /\ enabled /\ ~st.halted /\ openSymbols = {}
                   /\ \A t \in Symbols : held[t] = st.owned[t]}

EntriesPlanned(bullish, usable, enabled) ==
  {s \in Symbols : /\ ~Blocked(s, usable) /\ held[s] = 0 /\ s \in bullish
                   /\ enabled /\ ~st.halted /\ openSymbols = {}
                   /\ \A t \in Symbols : held[t] = st.owned[t]
                   /\ <<tickDay, s>> \notin st.tried}

OwnedBlocked(usable) == \E s \in Symbols : st.owned[s] > 0 /\ Blocked(s, usable)

\* The first exit, or the first entry when no owned position is blocked.
Candidates(bullish, usable, enabled) ==
  LET exits == ExitsPlanned(bullish, usable)
      entries == EntriesPlanned(bullish, usable, enabled)
  IN IF exits # {} THEN exits
     ELSE IF OwnedBlocked(usable) THEN {} ELSE entries

Chosen(s, bullish, usable, enabled) ==
  /\ s \in Candidates(bullish, usable, enabled)
  /\ \A t \in Candidates(bullish, usable, enabled) : s <= t

\* State with the intent for quantity q of s, as submit writes it.
Announced(s, q) ==
  LET side == IF held[s] = 0 THEN "buy" ELSE "sell"
  IN [st EXCEPT
       !.tried = IF side = "buy" THEN @ \cup {<<tickDay, s>>} ELSE @,
       !.sequence = @ + 1,
       !.pending = [id |-> st.sequence + 1, sym |-> s, side |-> side, qty |-> q,
                    before |-> held[s], owned |-> st.owned[s]]]

Submit ==
  /\ pc = "plan" /\ today = tickDay /\ st.pending = NoIntent
  /\ st.sequence < MaxOrders
  /\ \E bullish, usable \in SUBSET Symbols, enabled \in BOOLEAN, s \in Symbols :
       /\ Chosen(s, bullish, usable, enabled)
       /\ \E q \in IF held[s] = 0 THEN {BuyLots * Lot} ELSE 1..held[s] :
            \/ Save(Announced(s, q)) /\ pc' = "announce"
            \/ SaveFails(Announced(s, q)) /\ EndTick
  /\ Quiet

NothingToSubmit ==
  /\ pc = "plan"
  /\ EndTick
  /\ UNCHANGED <<st, storageFailed, disk>> /\ Quiet

IntentCreated ==
  /\ pc = "announce"
  /\ pc' \in {"post"} \cup (IF Faults THEN {"idle"} ELSE {})
  /\ UNCHANGED <<st, storageFailed, disk>> /\ Quiet

\* The only POST.  Whatever comes of it, the tick is over.
Post ==
  /\ pc = "post"
  /\ order' = [order EXCEPT ![st.pending.id] =
       [status |-> "sent", sym |-> st.pending.sym, side |-> st.pending.side,
        qty |-> st.pending.qty, filled |-> 0, day |-> tickDay]]
  /\ posts' = [posts EXCEPT ![st.pending.id] = @ + 1]
  /\ EndTick
  /\ UNCHANGED <<st, storageFailed, tickDay, held, openSymbols, disk, holding,
                 net, today, haltDays, life>>

\* The client raises before the request leaves: the outcome counts as unknown.
PostNotSent ==
  /\ pc = "post" /\ Faults
  /\ EndTick
  /\ UNCHANGED <<st, storageFailed, disk>> /\ Quiet

Tick ==
  \/ TickRefused \/ ReadPositions \/ ReadOrders \/ TickFails
  \/ SeedNotNeeded \/ SeedUnverified \/ SeedVerified
  \/ NothingPending \/ StillPending \/ Unreconciled \/ PendingReconciled
  \/ NewDay \/ SameDay \/ LimitReached \/ LimitNotReached
  \/ Submit \/ NothingToSubmit \/ IntentCreated \/ Post \/ PostNotSent

-----------------------------------------------------------------------------
(* The broker, the world, and a crash.                                     *)

Accept(k) ==
  /\ order[k].status = "sent"
  /\ order' = [order EXCEPT ![k].status = "working"]
  /\ UNCHANGED <<holding, net>>

\* A buy trades whole lots and may cost a unit of each; a sell any amount.
Fill(k, n) ==
  /\ Working(k)
  /\ n <= order[k].qty - order[k].filled
  /\ order' = [order EXCEPT ![k].filled = @ + n]
  /\ \E received \in IF order[k].side = "buy" THEN (n - MaxFee(n))..n ELSE {-n} :
       /\ holding[order[k].sym] + received >= 0
       /\ holding' = [holding EXCEPT ![order[k].sym] = @ + received]
       /\ net' = [net EXCEPT ![order[k].sym] = @ + received]

\* Immediate-or-cancel: filled, expired, canceled or rejected.
Finish(k) ==
  /\ Working(k)
  /\ order' = [order EXCEPT ![k].status = "done"]
  /\ UNCHANGED <<holding, net>>

BrokerStep ==
  /\ \E k \in Ids :
       \/ Accept(k) \/ Finish(k)
       \/ \E n \in IF order[k].side = "buy" THEN {Lot} ELSE 1..order[k].qty :
            Fill(k, n)
  /\ UNCHANGED <<processVars, disk, today, historyVars>>

\* Somebody else sells coins or buys them back; one lot away at most.
ForeignTrade ==
  /\ \E s \in Symbols, n \in ForeignUnits :
       \E change \in {n, -n} :
         /\ holding[s] + change >= 0
         /\ holding[s] + change - net[s] \in -Lot..Lot
         /\ holding' = [holding EXCEPT ![s] = @ + change]
  /\ UNCHANGED <<processVars, disk, order, net, today, historyVars>>

NextDay ==
  /\ today < MaxDay /\ today' = today + 1
  /\ UNCHANGED <<processVars, disk, brokerVars, historyVars>>

\* The process dies and the supervisor starts another, which reads the file.
Restart ==
  /\ life < MaxLives /\ life' = life + 1
  /\ st' = disk /\ storageFailed' = FALSE
  /\ pc' = "idle"
  /\ UNCHANGED <<tickDay, held, openSymbols, disk, brokerVars, today, posts,
                 haltDays>>

Init ==
  /\ pc = "idle" /\ storageFailed = FALSE
  /\ st = [owned |-> [s \in Symbols |-> 0], tried |-> {}, pending |-> NoIntent,
           sequence |-> 0, day |-> 0, halted |-> FALSE, seeded |-> FALSE]
  /\ disk = st
  /\ tickDay = 1 /\ held = [s \in Symbols |-> 0] /\ openSymbols = {}
  /\ order = [k \in Ids |-> NoOrder]
  /\ holding = [s \in Symbols |-> IF s = 1 THEN SeedQty ELSE 0]
  /\ net = holding
  /\ today = 1
  /\ posts = [k \in Ids |-> 0] /\ haltDays = {} /\ life = 1

World == ForeignTrade \/ NextDay \/ Restart

Next == Tick \/ BrokerStep \/ World

Spec == Init /\ [][Next]_vars

\* The worker ticks on, every read of the broker succeeds again and again,
\* and the broker takes and finishes what is POSTed.
FairSpec ==
  /\ Spec
  /\ WF_vars(ReadPositions) /\ SF_vars(ReadOrders)
  /\ SF_vars(SeedNotNeeded \/ SeedVerified)
  /\ SF_vars(NothingPending \/ StillPending \/ Unreconciled \/ PendingReconciled)
  /\ WF_vars(NewDay \/ SameDay) /\ WF_vars(LimitReached \/ LimitNotReached)
  /\ WF_vars(Submit \/ NothingToSubmit)
  /\ WF_vars(IntentCreated) /\ WF_vars(Post)
  /\ \A k \in Ids :
       /\ WF_vars(Accept(k) /\ UNCHANGED <<processVars, disk, today, historyVars>>)
       /\ WF_vars(Finish(k) /\ UNCHANGED <<processVars, disk, today, historyVars>>)

-----------------------------------------------------------------------------
(* What the worker promises.                                               *)

\* No intent is POSTed twice: not after a lost answer, not by a restarted
\* process, not when the state file lags behind the memory.
NeverReposted == \A k \in Ids : posts[k] <= 1

Posted(k, side) == posts[k] > 0 /\ order[k].side = side

\* Per signal day a symbol is entered at most once, over all restarts: an
\* unfilled or unanswered entry is not chased.
EntryOncePerDay ==
  \A j, k \in Ids :
    /\ Posted(j, "buy") /\ Posted(k, "buy")
    /\ order[j].sym = order[k].sym /\ order[j].day = order[k].day
    => j = k

InMarket(k) == order[k].status \in {"sent", "working"}

\* An order the broker may still trade is the one pending intent, both in the
\* memory of the process and in the file a restarted process reads.
OneInFlight ==
  \A k \in Ids : InMarket(k) => st.pending.id = k /\ disk.pending.id = k

\* A record's claim of ownership is in force: no order is pending, and the
\* seed has been adopted.
Settled(record) == record.pending = NoIntent /\ (record.seeded \/ SeedQty = 0)

\* Alone in the account, the books are exact whenever nothing is pending:
\* memory and file both own what the fills, less their fees, brought.
OwnershipExact ==
  \A record \in {st, disk} : Settled(record) => record.owned = net

\* With others in the account, nothing of theirs is taken for the worker's own
\* ("Unknown holdings [...] block new trading instead of being silently
\* adopted").  Not so: what a fee may have cost can be made up by others.
NothingForeignAdopted ==
  \A record \in {st, disk} : Settled(record) =>
    \A s \in Symbols : record.owned[s] <= net[s]

\* Entries after which fees may have hidden a foreign trade.
FilledBuys(s) ==
  {k \in Ids : Posted(k, "buy") /\ order[k].sym = s /\ order[k].filled > 0}

\* With others in the account, the books miss the truth by no more than the
\* fee allowance of each filled entry.
OwnershipWithinFees ==
  \A record \in {st, disk} : Settled(record) =>
    \A s \in Symbols :
      record.owned[s] - net[s] \in
        -(BuyLots * Cardinality(FilledBuys(s)))..(BuyLots * Cardinality(FilledBuys(s)))

\* Alone in the account, no sell order offers more than the worker owns.
SellsAreCovered ==
  \A k \in Ids : InMarket(k) /\ order[k].side = "sell" =>
    order[k].qty - order[k].filled <= net[order[k].sym]

\* What the broker may still trade is on record and backed by what is owned.
OrdersAreBacked == OneInFlight /\ SellsAreCovered

\* Once the file records that a day's loss limit was reached, no entry leaves
\* on that day: not by a restarted process, not when equity has recovered.
HaltIsDurable ==
  [][\A k \in Ids :
       posts'[k] > posts[k] /\ order'[k].side = "buy" => tickDay \notin haltDays]_vars

\* A process that does not crash, alone in the account, gets every intent
\* reconciled.
PendingResolves == st.pending # NoIntent ~> st.pending = NoIntent
=============================================================================
