------------------------- MODULE PaperExecutorProofs -------------------------
(***************************************************************************)
(* Why the variables of PaperExecutor keep their types, why it never posts *)
(* an ID twice and never has two orders in the market; why stop() is final *)
(* and no storage fault ends the drain of an intraday plan; then why it    *)
(* never sells what it does not own and what it answers is true.           *)
(*                                                                         *)
(* TypeOK is not inductive: that a quantity sent to the broker is one of   *)
(* 0..Quantity follows only from what the executor has compared on the way *)
(* there (Bounds).  The inductive invariant of the orders has four layers, *)
(* each proved from the ones before it:                                    *)
(*   Control      which call is where, and on whose behalf                 *)
(*   Memory       what self.attempted holds at each step                   *)
(*   Ledger       how POSTs, memory, and journal relate                    *)
(*   Settled      which orders are known to be terminal when a send starts *)
(* and the positions add three more:                                       *)
(*   Market       position, order details and the views of them agree      *)
(*   Tally        the executor's running count of sold shares is the       *)
(*                broker's, exact for the process that owns the plan       *)
(*   Answers      what a call that has returned said about the account     *)
(* and, from them, the refinement of LongOnlyPosition.  One lemma per      *)
(* group of actions, in the groups of Next.                                *)
(***************************************************************************)
EXTENDS PaperExecutorRefines, RunningSums, TLAPS

LEMMA ConstantFacts ==
  /\ NExits \in Nat /\ NExits > 0 /\ Quantity \in Nat /\ Quantity > 0
  /\ HoldEnabled \in BOOLEAN
  /\ Polls \in Nat /\ Polls > 0 /\ MaxLives \in Nat /\ MaxLives > 0
  BY NExitsAssumption, QuantityAssumption, FlagsAssumption, BoundsAssumption

-----------------------------------------------------------------------------
(* Types.                                                                  *)

\* What the program counter promises about the quantities at hand.
Bounds ==
  /\ pc \in {"term", "poll"} => call \in {"ack", "drain", "reconcile", "sell"}
  /\ pc = "position" => Residual \in 1..Quantity
  /\ pc \in {"intent", "recheck", "post", "ack", "ambiguous"} =>
       call \in {"entry", "protect", "hold", "sell"}
  /\ pc \in {"intent", "recheck", "post"} /\ call = "sell"
       => Residual \in 1..Quantity

TypeInv == TypeOK /\ Bounds

LEMMA OrderFields ==
  ASSUME NEW r \in OrderRecord
  PROVE  /\ r.status \in Status /\ r.qty \in 0..Quantity
         /\ r.filled \in 0..Quantity /\ r.stop \in BOOLEAN
  BY ConstantFacts DEF OrderRecord

LEMMA NoOrderType == NoOrder \in OrderRecord
  BY ConstantFacts DEF NoOrder, OrderRecord, Status

LEMMA IdsFacts ==
  /\ Entry \in Ids /\ 1 \in Exits /\ 1 \in Ids
  /\ Exits \subseteq Ids /\ Entry \notin Exits
  /\ \A c \in Ids : c # NExits => c + 1 \in Ids
  /\ \A c \in Exits : c # NExits => c + 1 \in Exits
  BY ConstantFacts DEF Ids, Exits, Entry

\* Journaling never leaves the types of what it changes.
JournalTypes ==
  disk \in {"ok", "failed", "corrupt"}
  /\ storageFailed \in BOOLEAN /\ blocked \in BOOLEAN

LEMMA EventType ==
  ASSUME TypeOK, EventOutcome
  PROVE  disk' \in {"ok", "failed", "corrupt"} /\ storageFailed' \in BOOLEAN
  BY ConstantFacts, IdsFacts DEF EventOutcome, AfterDiskFailure, TypeOK

LEMMA RecordType ==
  ASSUME TypeOK, RecordEvent
  PROVE  JournalTypes'
  BY ConstantFacts, IdsFacts, EventType DEF RecordEvent, JournalTypes, TypeOK

LEMMA ValidateType ==
  ASSUME TypeOK, NEW c \in Ids, Validate(c)
  PROVE  JournalTypes' /\ cache' \in [Ids -> OrderRecord]
  BY ConstantFacts, IdsFacts, RecordType DEF Validate, TypeOK, BrokerTypeOK

LEMMA NotRecordedType ==
  ASSUME TypeOK, NotRecorded
  PROVE  disk' \in {"ok", "failed", "corrupt"}
  BY ConstantFacts, IdsFacts DEF NotRecorded, AfterDiskFailure, TypeOK

LEMMA NoLocalsType ==
  ASSUME NoLocals
  PROVE  /\ cur' \in Ids /\ call' \in Calls /\ phase' \in {1, 2, 3}
         /\ polls' \in 0..Polls /\ sold' \in Nat /\ call' = "entry"
  BY ConstantFacts, IdsFacts DEF NoLocals, Calls

LEMMA IdleType ==
  ASSUME Idle
  PROVE  pc' = "idle" /\ mode' \in Modes
  BY DEF Idle, Modes

LEMMA RaiseType ==
  ASSUME TypeOK, Raise
  PROVE  /\ result' \in Results /\ blocked' \in BOOLEAN
         /\ active' \in BOOLEAN /\ liveOwned' \in BOOLEAN
         /\ completed' \in BOOLEAN
         /\ pc' \in {"idle", "report"} /\ mode' \in Modes
         /\ cur' \in Ids /\ call' \in Calls /\ phase' \in {1, 2, 3}
         /\ polls' \in 0..Polls /\ sold' \in Nat
  BY NoLocalsType DEF Raise, TypeOK, Idle, Modes, Results

LEMMA EntryBlockedType ==
  ASSUME TypeOK, EntryBlocked
  PROVE  /\ BrokerTypeOK' /\ cache' \in [Ids -> OrderRecord]
         /\ attempted' \subseteq Ids /\ result' \in Results
         /\ active' \in BOOLEAN /\ liveOwned' \in BOOLEAN
         /\ completed' \in BOOLEAN /\ jPlan' \in BOOLEAN
         /\ jDrain' \in BOOLEAN /\ posts' \in [Ids -> Nat]
         /\ life' \in 1..MaxLives /\ swing' \in BOOLEAN /\ Bounds'
         /\ pc' \in Steps /\ mode' \in Modes
         /\ cur' \in Ids /\ call' \in Calls /\ phase' \in {1, 2, 3}
         /\ polls' \in 0..Polls /\ sold' \in Nat
<1>1. Bounds' /\ pc' \in Steps
  BY DEF EntryBlocked, Idle, Bounds, Steps
<1>2. QED BY <1>1, NoLocalsType, IdleType
     DEF EntryBlocked, Idle, TypeOK, BrokerTypeOK, brokerVars, memoryVars,
         historyVars

LEMMA FailType == TypeInv /\ Fail => TypeInv'
<1> SUFFICES ASSUME TypeInv, Fail PROVE TypeInv'
  OBVIOUS
<1>1. Bounds'
  BY RaiseType DEF Fail, TypeInv, Bounds
<1>2. TypeOK'
  BY RaiseType DEF Fail, TypeInv, TypeOK, BrokerTypeOK, Steps, brokerVars,
                   memoryVars, journalVars, historyVars
<1>3. QED BY <1>1, <1>2 DEF TypeInv

LEMMA CancelType ==
  ASSUME TypeOK, NEW c \in Ids, CancelOrder(c)
  PROVE  order' \in [Ids -> OrderRecord]
<1>1. [order[c] EXCEPT !.status = "canceling"] \in OrderRecord
  BY DEF TypeOK, BrokerTypeOK, OrderRecord, Status
<1>2. QED BY <1>1 DEF CancelOrder, TypeOK, BrokerTypeOK

LEMMA InitType == Init => TypeInv
<1> SUFFICES ASSUME Init PROVE TypeInv
  OBVIOUS
<1>1. BrokerTypeOK
  <2>1. order \in [Ids -> OrderRecord]
    BY ConstantFacts, IdsFacts, NoOrderType DEF Init, BrokerInit
  <2>2. account \in [position : Int, open : SUBSET Ids]
    BY ConstantFacts, IdsFacts DEF Init, BrokerInit
  <2>3. QED BY ConstantFacts, IdsFacts, <2>1, <2>2 DEF Init, BrokerInit, BrokerTypeOK
<1>2. cache \in [Ids -> OrderRecord]
  BY ConstantFacts, IdsFacts, NoOrderType DEF Init
<1>3. TypeOK
  <2>1. cur \in Ids /\ polls \in 0..Polls /\ life \in 1..MaxLives
    BY ConstantFacts, IdsFacts DEF Init
  <2>2. posts \in [Ids -> Nat]
    BY DEF Init
  <2>3. QED BY <1>1, <1>2, <2>1, <2>2 DEF Init, TypeOK, Steps, Modes, Calls, Results
<1>4. Bounds
  BY ConstantFacts, IdsFacts DEF Init, Bounds
<1>5. QED BY ConstantFacts, IdsFacts, <1>3, <1>4 DEF TypeInv

LEMMA SendType == TypeInv /\ SendStep => TypeInv'
<1> SUFFICES ASSUME TypeInv, SendStep PROVE TypeInv'
  OBVIOUS
<1> USE DEF TypeInv, Steps, Modes, Calls, Results, brokerVars, localVars,
            controlVars, memoryVars, flagVars, journalVars, historyVars
<1>1. CASE IntentBlocked
  BY EntryBlockedType, <1>1 DEF IntentBlocked, TypeOK
<1>2. CASE IntentRecorded
  <2>1. Bounds'
    BY <1>2 DEF IntentRecorded, Bounds, Residual, Acquired
  <2>2. disk' \in {"ok", "failed", "corrupt"} /\ jAttempts' \subseteq Ids
    BY <1>2 DEF IntentRecorded, Recorded, TypeOK
  <2>3. BrokerTypeOK'
    BY <1>2 DEF IntentRecorded, TypeOK, BrokerTypeOK
  <2>4. QED BY <1>2, <2>1, <2>2, <2>3 DEF IntentRecorded, TypeOK
<1>3. CASE EntryIntentLost
  <2>1. disk' \in {"ok", "failed", "corrupt"} /\ jAttempts' \subseteq Ids
    BY <1>3, NotRecordedType DEF EntryIntentLost, Landed, TypeOK
  <2>2. storageFailed' \in BOOLEAN /\ blocked' \in BOOLEAN
    BY <1>3 DEF EntryIntentLost, StorageFailure
  <2>3. swing' \in BOOLEAN
    BY <1>3 DEF EntryIntentLost, EntryBlocked, TypeOK
  <2>4. QED BY EntryBlockedType, <1>3, <2>1, <2>2, <2>3 DEF EntryIntentLost, TypeOK
<1>4. CASE SwingExitIntentLost
  <2>1. disk' \in {"ok", "failed", "corrupt"} /\ jAttempts' \subseteq Ids
    BY <1>4, NotRecordedType DEF SwingExitIntentLost, Landed, TypeOK
  <2>2. /\ result' \in Results /\ blocked' \in BOOLEAN
        /\ active' \in BOOLEAN /\ liveOwned' \in BOOLEAN
        /\ completed' \in BOOLEAN
        /\ pc' \in {"idle", "report"} /\ mode' \in Modes
        /\ cur' \in Ids /\ call' \in Calls /\ phase' \in {1, 2, 3}
        /\ polls' \in 0..Polls /\ sold' \in Nat
    BY <1>4, RaiseType DEF SwingExitIntentLost
  <2>3. BrokerTypeOK'
    BY <1>4 DEF SwingExitIntentLost, TypeOK, BrokerTypeOK
  <2>4. Bounds'
    BY <2>2 DEF Bounds
  <2>5. QED BY <1>4, <2>1, <2>2, <2>3, <2>4 DEF SwingExitIntentLost, TypeOK
<1>5. CASE IntentBestEffort
  BY <1>5, RecordType
     DEF IntentBestEffort, Landed, JournalTypes, TypeOK, Bounds, BrokerTypeOK,
         Residual, Acquired
<1>6. CASE RecheckBlocked
  BY EntryBlockedType, <1>6 DEF RecheckBlocked, TypeOK
<1>7. CASE RecheckPassed
  BY <1>7 DEF RecheckPassed, TypeOK, Bounds, BrokerTypeOK, Residual, Acquired
<1>8. CASE Post
  <2>1. SendQuantity \in 0..Quantity
    <3>1. Acquired \in 0..Quantity
      BY OrderFields, IdsFacts DEF Acquired, TypeOK
    <3>2. call = "sell" => Residual \in 0..Quantity
      BY <1>8, ConstantFacts DEF Post, Bounds
    <3>3. QED BY <1>8, <3>1, <3>2, ConstantFacts DEF Post, Bounds, SendQuantity
  <2>2. [status |-> "sent", qty |-> SendQuantity, filled |-> 0,
        stop |-> call \in {"protect", "hold"}] \in OrderRecord
    <3>1. (call \in {"protect", "hold"}) \in BOOLEAN
      OBVIOUS
    <3>2. QED BY <2>1, <3>1, ConstantFacts DEF OrderRecord, Status
  <2>3. order' \in [Ids -> OrderRecord]
    BY <1>8, <2>2 DEF Post, SubmitOrder, TypeOK, BrokerTypeOK
  <2>4. posts' \in [Ids -> Nat]
    BY <1>8 DEF Post, TypeOK
  <2>5. QED BY <1>8, <2>3, <2>4 DEF Post, TypeOK, Bounds, BrokerTypeOK
<1>9. CASE NotSubmitted
  <2>1. /\ cur' \in Ids /\ call' \in Calls /\ phase' \in {1, 2, 3}
        /\ polls' \in 0..Polls /\ sold' \in Nat
    BY NoLocalsType, <1>9 DEF NotSubmitted
  <2>2. /\ disk' \in {"ok", "failed", "corrupt"}
        /\ storageFailed' \in BOOLEAN /\ blocked' \in BOOLEAN
    BY <1>9, RecordType DEF NotSubmitted, JournalTypes
  <2>3. Bounds'
    BY <1>9 DEF NotSubmitted, Bounds
  <2>4. BrokerTypeOK'
    BY <1>9 DEF NotSubmitted, TypeOK, BrokerTypeOK
  <2>5. QED BY <1>9, <2>1, <2>2, <2>3, <2>4 DEF NotSubmitted, TypeOK
<1>10. CASE AckLost
  BY <1>10 DEF AckLost, TypeOK, Bounds, BrokerTypeOK
<1>11. CASE SendReturns
  <2>1. Validate(cur) /\ cur \in Ids
    BY <1>11 DEF SendReturns, TypeOK
  <2>2. JournalTypes' /\ cache' \in [Ids -> OrderRecord]
    BY <2>1, ValidateType
  <2>3. pc' \in Steps /\ call' \in Calls /\ cur' \in Ids /\ Bounds'
    <3>1. CASE call = "entry"
      BY <1>11, <3>1 DEF SendReturns, TypeOK, Bounds
    <3>2. CASE call = "protect"
      BY <1>11, <3>2, IdsFacts DEF SendReturns, TypeOK, Bounds
    <3>3. CASE call \in {"hold", "sell"}
      BY <1>11, <3>3 DEF SendReturns, TypeOK, Bounds
    <3>4. QED BY <1>11, <3>1, <3>2, <3>3 DEF SendReturns
  <2>4. QED BY <1>11, <2>2, <2>3 DEF SendReturns, JournalTypes, TypeOK, BrokerTypeOK
<1>12. CASE StopNotAccepted
  <2>1. cache' \in [Ids -> OrderRecord]
    BY <1>12 DEF StopNotAccepted, TypeOK, BrokerTypeOK
  <2>2. QED BY <1>12, <2>1, EventType, RaiseType
       DEF StopNotAccepted, TypeOK, Bounds, BrokerTypeOK
<1>13. CASE StillAmbiguous
  BY <1>13, RaiseType DEF StillAmbiguous, Fail, TypeOK, Bounds, BrokerTypeOK
<1> QED BY <1>1, <1>2, <1>3, <1>4, <1>5, <1>6, <1>7, <1>8, <1>9, <1>10, <1>11,
     <1>12, <1>13
     DEF SendStep

LEMMA AfterTerminalType ==
  ASSUME TypeInv, pc \in {"term", "poll"}, AfterTerminal
  PROVE  /\ pc' \in {"drain", "decide", "reconcile", "residual"}
         /\ cur' \in Ids /\ phase' = 1 /\ polls' = 0 /\ sold' \in Nat
<1>1. cache[cur].filled \in Nat /\ cur \in Ids
  BY OrderFields, ConstantFacts DEF TypeInv, TypeOK
<1>2. sold' \in Nat
  BY <1>1 DEF AfterTerminal, TypeInv, TypeOK
<1>3. cur' \in Ids
  BY <1>1, IdsFacts, ConstantFacts DEF AfterTerminal, Ids, Entry, Exits
<1>4. pc' \in {"drain", "decide", "reconcile", "residual"}
  BY DEF AfterTerminal, TypeInv, Bounds
<1>5. QED BY <1>2, <1>3, <1>4 DEF AfterTerminal

LEMMA TerminalType == TypeInv /\ TerminalStep => TypeInv'
<1> SUFFICES ASSUME TypeInv, TerminalStep PROVE TypeInv'
  OBVIOUS
<1> USE DEF TypeInv, Steps, Modes, Calls, Results, brokerVars, localVars,
            controlVars, memoryVars, flagVars, journalVars, historyVars
<1>1. CASE TerminalAlready
  BY <1>1, AfterTerminalType, ConstantFacts
     DEF TerminalAlready, TypeOK, Bounds, BrokerTypeOK
<1>2. CASE StartPolling
  <2>1. order' \in [Ids -> OrderRecord]
    BY <1>2, CancelType DEF StartPolling, TypeOK, BrokerTypeOK
  <2>2. phase' \in {1, 2, 3} /\ polls' \in 0..Polls
    BY <1>2, ConstantFacts DEF StartPolling
  <2>3. QED BY <1>2, <2>1, <2>2 DEF StartPolling, TypeOK, Bounds, BrokerTypeOK
<1>3. CASE Poll
  <2>1. JournalTypes' /\ cache' \in [Ids -> OrderRecord]
    BY <1>3, ValidateType DEF Poll, TypeOK
  <2>2. polls' \in 0..Polls
    BY <1>3, ConstantFacts DEF Poll, TypeOK
  <2>3. pc' \in {"term", "poll"}
    BY <1>3 DEF Poll
  <2>4. QED BY <1>3, <2>1, <2>2, <2>3
       DEF Poll, JournalTypes, TypeOK, Bounds, BrokerTypeOK
<1>4. CASE PolledTerminal
  BY <1>4, AfterTerminalType, ConstantFacts
     DEF PolledTerminal, TypeOK, Bounds, BrokerTypeOK
<1>5. CASE CancelAfterPolls
  <2>1. order' \in [Ids -> OrderRecord]
    BY <1>5, CancelType DEF CancelAfterPolls, TypeOK
  <2>2. phase' \in {1, 2, 3} /\ polls' \in 0..Polls
    BY <1>5, ConstantFacts DEF CancelAfterPolls
  <2>3. QED BY <1>5, <2>1, <2>2 DEF CancelAfterPolls, TypeOK, Bounds, BrokerTypeOK
<1>6. CASE StillWorking
  BY <1>6, FailType DEF StillWorking
<1> QED BY <1>1, <1>2, <1>3, <1>4, <1>5, <1>6 DEF TerminalStep

LEMMA DrainType == TypeInv /\ DrainStep => TypeInv'
<1> SUFFICES ASSUME TypeInv, DrainStep PROVE TypeInv'
  OBVIOUS
<1> USE DEF TypeInv, Steps, Modes, Calls, Results, brokerVars, localVars,
            controlVars, memoryVars, flagVars, journalVars, historyVars
<1>1. CASE \/ EntryAbsent \/ ExitMayExist
           \/ SellRefused \/ PositionDiffers \/ NotFlat
  BY <1>1, FailType
     DEF EntryAbsent, ExitMayExist, SellRefused, PositionDiffers, NotFlat
<1>2. CASE EntryFound
  BY <1>2, ValidateType, IdsFacts
     DEF EntryFound, JournalTypes, TypeOK, Bounds, BrokerTypeOK
<1>3. CASE HoldPosition
  BY <1>3, IdsFacts DEF HoldPosition, TypeOK, Bounds, BrokerTypeOK
<1>4. CASE DrainRecorded
  <2>1. disk' \in {"ok", "failed", "corrupt"} /\ jDrain' \in BOOLEAN
    BY <1>4 DEF DrainRecorded, Recorded, TypeOK
  <2>2. QED BY <1>4, <2>1, IdsFacts DEF DrainRecorded, TypeOK, Bounds, BrokerTypeOK
<1>5. CASE DrainNotRecorded
  <2>1. disk' \in {"ok", "failed", "corrupt"} /\ jDrain' \in BOOLEAN
    BY <1>5, NotRecordedType DEF DrainNotRecorded, Landed, TypeOK
  <2>2. /\ result' \in Results /\ blocked' \in BOOLEAN
        /\ active' \in BOOLEAN /\ liveOwned' \in BOOLEAN
        /\ completed' \in BOOLEAN
        /\ pc' \in {"idle", "report"} /\ mode' \in Modes
        /\ cur' \in Ids /\ call' \in Calls /\ phase' \in {1, 2, 3}
        /\ polls' \in 0..Polls /\ sold' \in Nat
    BY <1>5, RaiseType DEF DrainNotRecorded
  <2>3. BrokerTypeOK'
    BY <1>5 DEF DrainNotRecorded, TypeOK, BrokerTypeOK
  <2>4. Bounds'
    BY <2>2 DEF Bounds
  <2>5. QED BY <1>5, <2>1, <2>2, <2>3, <2>4 DEF DrainNotRecorded, TypeOK
<1>6. CASE ExitFound
  BY <1>6, ValidateType
     DEF ExitFound, JournalTypes, TypeOK, Bounds, BrokerTypeOK
<1>7. CASE ExitUnused
  BY <1>7, IdsFacts DEF ExitUnused, TypeOK, Bounds, BrokerTypeOK
<1>8. CASE NothingLeft
  BY <1>8 DEF NothingLeft, TypeOK, Bounds, BrokerTypeOK
<1>9. CASE OrdersChecked
  <2>1. Acquired \in 0..Quantity
    BY OrderFields, IdsFacts DEF Acquired, TypeOK
  <2>2. Residual \in 1..Quantity
    BY <1>9, <2>1, ConstantFacts
       DEF OrdersChecked, MayNotSell, Residual, TypeOK
  <2>3. Residual' = Residual
    BY <1>9 DEF OrdersChecked, Residual, Acquired
  <2>4. QED BY <1>9, <2>2, <2>3 DEF OrdersChecked, TypeOK, Bounds, BrokerTypeOK
<1>10. CASE SellResidual
  <2>1. cur' \in Ids
    BY <1>10, IdsFacts DEF SellResidual, UnusedExits
  <2>2. Residual' = Residual
    BY <1>10 DEF SellResidual, Residual, Acquired
  <2>3. QED BY <1>10, <2>1, <2>2 DEF SellResidual, TypeOK, Bounds, BrokerTypeOK
<1>11. CASE Flat
  <2>1. Bounds'
    BY <1>11 DEF Flat, Bounds
  <2>2. BrokerTypeOK'
    BY <1>11 DEF Flat, TypeOK, BrokerTypeOK
  <2>3. /\ cur' \in Ids /\ call' \in Calls /\ phase' \in {1, 2, 3}
        /\ polls' \in 0..Polls /\ sold' \in Nat
    BY <1>11, NoLocalsType DEF Flat
  <2>4. /\ pc' \in Steps /\ result' \in Results
        /\ completed' \in BOOLEAN /\ active' \in BOOLEAN
    BY <1>11 DEF Flat
  <2>5. cache' \in [Ids -> OrderRecord] /\ attempted' \subseteq Ids
    BY <1>11 DEF Flat, TypeOK
  <2>6. posts' \in [Ids -> Nat] /\ life' \in 1..MaxLives
    BY <1>11 DEF Flat, TypeOK
  <2>7. TypeOK'
    BY <1>11, <2>2, <2>3, <2>4, <2>5, <2>6 DEF Flat, TypeOK
  <2>8. QED BY <2>1, <2>7
<1> QED BY <1>1, <1>2, <1>3, <1>4, <1>5, <1>6, <1>7, <1>8, <1>9, <1>10, <1>11
     DEF DrainStep

LEMMA HoldType == TypeInv /\ HoldStep => TypeInv'
<1> SUFFICES ASSUME TypeInv, HoldStep PROVE TypeInv'
  OBVIOUS
<1> USE DEF TypeInv, Steps, Modes, Calls, Results, brokerVars, localVars,
            controlVars, memoryVars, flagVars, journalVars, historyVars
<1>1. CASE HoldEnds
  <2>1. blocked' \in BOOLEAN
    BY <1>1, EventType DEF HoldEnds, TypeOK
  <2>2. QED BY <1>1, <2>1, EventType, IdsFacts
       DEF HoldEnds, TypeOK, Bounds, BrokerTypeOK
<1>2. CASE HoldChecks
  <2>1. JournalTypes' /\ cache' \in [Ids -> OrderRecord]
    BY <1>2, ValidateType DEF HoldChecks, TypeOK
  <2>2. pc' \in {"hold", "reconcile"}
    BY <1>2 DEF HoldChecks
  <2>3. QED BY <1>2, <2>1, <2>2
       DEF HoldChecks, JournalTypes, TypeOK, Bounds, BrokerTypeOK
<1>3. CASE HoldRaises
  <2>1. cache' \in [Ids -> OrderRecord]
    BY <1>3 DEF HoldRaises, TypeOK, BrokerTypeOK
  <2>2. QED BY <1>3, <2>1, EventType, RaiseType
       DEF HoldRaises, TypeOK, Bounds, BrokerTypeOK
<1> QED BY <1>1, <1>2, <1>3 DEF HoldStep

LEMMA ProtectionType == TypeInv /\ ProtectionStep => TypeInv'
<1> SUFFICES ASSUME TypeInv, ProtectionStep PROVE TypeInv'
  OBVIOUS
<1> USE DEF TypeInv, Steps, Modes, Calls, Results, brokerVars, localVars,
            controlVars, memoryVars, flagVars, journalVars, historyVars
<1>1. CASE VerifyOrder
  <2>1. JournalTypes' /\ cache' \in [Ids -> OrderRecord]
    BY <1>1, ValidateType DEF VerifyOrder, JournalTypes, TypeOK
  <2>2. sold' \in Nat
    <3>1. cache'[cur].filled \in Nat
      BY <2>1, OrderFields, ConstantFacts DEF TypeOK
    <3>2. QED BY <1>1, <3>1 DEF VerifyOrder, TypeOK
  <2>3. cur' \in Ids /\ pc' \in {"verify", "snapshot"}
    BY <1>1, IdsFacts DEF VerifyOrder, TypeOK
  <2>4. QED BY <1>1, <2>1, <2>2, <2>3
       DEF VerifyOrder, JournalTypes, TypeOK, Bounds, BrokerTypeOK
<1>2. CASE Protected
  <2>1. pc' \in {"adopted", "report"} /\ result' \in Results
    BY <1>2 DEF Protected, TypeOK
  <2>2. QED BY <1>2, <2>1, NoLocalsType DEF Protected, TypeOK, Bounds, BrokerTypeOK
<1>3. CASE NotProtected \/ AdoptAbsent
  BY <1>3, FailType DEF NotProtected, AdoptAbsent
<1>4. CASE AdoptIntent
  <2>1. JournalTypes' /\ cache' \in [Ids -> OrderRecord]
    BY <1>4, ValidateType DEF AdoptIntent, JournalTypes, TypeOK
  <2>2. cur' \in Ids /\ pc' \in {"adopt", "verify"}
    BY <1>4, IdsFacts DEF AdoptIntent, TypeOK
  <2>3. QED BY <1>4, <2>1, <2>2
       DEF AdoptIntent, JournalTypes, TypeOK, Bounds, BrokerTypeOK
<1>5. CASE AdoptionRecorded
  BY <1>5, NoLocalsType, IdleType
     DEF AdoptionRecorded, Idle, Recorded, TypeOK, Bounds, BrokerTypeOK
<1>6. CASE AdoptionNotRecorded
  BY <1>6, NotRecordedType, RaiseType
     DEF AdoptionNotRecorded, TypeOK, Bounds, BrokerTypeOK
<1> QED BY <1>1, <1>2, <1>3, <1>4, <1>5, <1>6 DEF ProtectionStep

CallStep ==
  \/ ExecuteStep \/ ReadFails \/ Report
  \/ ApiCall \/ Stop \/ Crash

LEMMA CallType == TypeInv /\ CallStep => TypeInv'
<1> SUFFICES ASSUME TypeInv, CallStep PROVE TypeInv'
  OBVIOUS
<1> USE DEF TypeInv, Steps, Modes, Calls, Results, brokerVars, localVars,
            controlVars, memoryVars, flagVars, journalVars, historyVars
<1>1. CASE PlanRefused
  <2>1. disk' \in {"ok", "failed", "corrupt"} /\ jPlan' \in BOOLEAN
    BY <1>1, NotRecordedType DEF PlanRefused, Landed, TypeOK
  <2>2. QED BY <1>1, <2>1, NoLocalsType, IdleType
       DEF PlanRefused, StorageFailure, Idle, TypeOK, Bounds, BrokerTypeOK
<1>2. CASE PlanRecorded
  BY <1>2, IdsFacts DEF PlanRecorded, Recorded, TypeOK, Bounds, BrokerTypeOK
<1>3. CASE ReadFails
  BY <1>3, FailType DEF ReadFails
<1>4. CASE Report
  BY <1>4, RecordType, NoLocalsType, IdleType
     DEF Report, JournalTypes, Idle, TypeOK, Bounds, BrokerTypeOK
<1>5. CASE Execute
  BY <1>5 DEF Execute, TypeOK, Bounds, BrokerTypeOK
<1>6. CASE ResumeDrain
  BY <1>6 DEF ResumeDrain, TypeOK, Bounds, BrokerTypeOK
<1>7. CASE Recover
  BY <1>7 DEF Recover, TypeOK, Bounds, BrokerTypeOK
<1>8. CASE AdoptProtected
  BY <1>8, IdsFacts DEF AdoptProtected, TypeOK, Bounds, BrokerTypeOK
<1>9. CASE AdoptRefused
  BY <1>9 DEF AdoptRefused, TypeOK, Bounds, BrokerTypeOK
<1>10. CASE Stop
  BY <1>10 DEF Stop, TypeOK, Bounds, BrokerTypeOK, Residual, Acquired
<1>11. CASE Crash
  <2>1. cache' \in [Ids -> OrderRecord]
    BY <1>11, NoOrderType DEF Crash
  <2>2. life' \in 1..MaxLives /\ disk' \in {"ok", "failed", "corrupt"}
    BY <1>11, ConstantFacts DEF Crash, TypeOK
  <2>3. QED BY <1>11, <2>1, <2>2, NoLocalsType, IdleType
       DEF Crash, Idle, TypeOK, Bounds, BrokerTypeOK
<1> QED BY <1>1, <1>2, <1>3, <1>4, <1>5, <1>6, <1>7, <1>8, <1>9, <1>10, <1>11
     DEF CallStep, ExecuteStep, ApiCall

LEMMA EnvironmentType == TypeInv /\ EnvironmentStep => TypeInv'
<1> SUFFICES ASSUME TypeInv, EnvironmentStep PROVE TypeInv'
  OBVIOUS
<1>1. BrokerTypeOK'
  <2>1. CASE \E c \in Ids : Accept(c) \/ Expire(c)
    <3>1. PICK c \in Ids : Accept(c) \/ Expire(c)
      BY <2>1
    <3>2. /\ [order[c] EXCEPT !.status = "working"] \in OrderRecord
          /\ [order[c] EXCEPT !.status = "canceled"] \in OrderRecord
      BY DEF TypeInv, TypeOK, BrokerTypeOK, OrderRecord, Status
    <3>3. QED BY <3>1, <3>2 DEF Accept, Expire, TypeInv, TypeOK, BrokerTypeOK
  <2>2. CASE \E c \in Ids, n \in 1..Quantity : Fill(c, n)
    <3>1. PICK c \in Ids, n \in 1..Quantity : Fill(c, n)
      BY <2>2
    <3>2. /\ order[c].filled + n \in 0..Quantity
          /\ order[c] \in OrderRecord
      BY <3>1, OrderFields, ConstantFacts
         DEF Fill, TypeInv, TypeOK, BrokerTypeOK
    <3>3. \A s \in Status :
            [order[c] EXCEPT !.filled = order[c].filled + n, !.status = s]
              \in OrderRecord
      BY <3>2 DEF OrderRecord
    <3>4. order' \in [Ids -> OrderRecord]
      <4>1. PICK s \in Status :
              order' = [order EXCEPT ![c] = [order[c] EXCEPT
                         !.filled = order[c].filled + n, !.status = s]]
        BY <3>1, <3>2, OrderFields
           DEF Fill, Status, TypeInv, TypeOK, BrokerTypeOK
      <4>2. QED BY <3>3, <4>1 DEF TypeInv, TypeOK, BrokerTypeOK
    <3>5. position' \in Int
      BY <3>1, ConstantFacts DEF Fill, TypeInv, TypeOK, BrokerTypeOK
    <3>6. QED BY <3>1, <3>4, <3>5 DEF Fill, TypeInv, TypeOK, BrokerTypeOK
  <2>3. CASE RefreshAccount \/ ForeignOrder
    <3>1. account' \in [position : Int, open : SUBSET Ids]
      BY <2>3 DEF RefreshAccount, ForeignOrder, TypeInv, TypeOK, BrokerTypeOK
    <3>2. foreign' \in BOOLEAN
      BY <2>3 DEF RefreshAccount, ForeignOrder, TypeInv, TypeOK, BrokerTypeOK
    <3>3. QED BY <2>3, <3>1, <3>2
         DEF RefreshAccount, ForeignOrder, TypeInv, TypeOK, BrokerTypeOK
  <2>4. QED BY <2>1, <2>2, <2>3 DEF EnvironmentStep, BrokerStep
<1>2. QED BY <1>1
     DEF EnvironmentStep, executorVars, controlVars, localVars, memoryVars,
         flagVars, journalVars, historyVars, TypeInv, TypeOK, Bounds,
         Residual, Acquired

LEMMA NextType == TypeInv /\ [Next]_vars => TypeInv'
<1> SUFFICES ASSUME TypeInv, [Next]_vars PROVE TypeInv'
  OBVIOUS
<1>1. CASE Next
  BY <1>1, SendType, TerminalType, DrainType, HoldType, ProtectionType,
     CallType, EnvironmentType DEF Next, ExecutorStep, CallStep
<1>2. CASE UNCHANGED vars
  BY <1>2 DEF vars, TypeInv, TypeOK, BrokerTypeOK, Bounds, Residual, Acquired
<1>3. QED BY <1>1, <1>2

\* Types and Bounds hold in every reachable state.
THEOREM TypeInvariant == Spec => []TypeInv
BY InitType, NextType, PTL DEF Spec

\* Every variable of executor, journal and broker keeps its type: no submitted
\* quantity leaves 0..Quantity, no client ID outside the plan is ever used.
THEOREM TypeCorrect == Spec => []TypeOK
<1>1. TypeInv => TypeOK
  BY DEF TypeInv
<1>2. QED BY <1>1, TypeInvariant, PTL

-----------------------------------------------------------------------------
(* The orders.                                                             *)

Sending == {"intent", "recheck", "post", "ack", "ambiguous"}
Adopting == {"adopt", "verify", "snapshot", "adopted"}
Selling == {"decide", "reconcile", "residual", "position", "flatcheck"}

\* A call that may send works on a plan this process owns.
Owner == mode \in {"execute", "resume"} /\ pc \notin {"idle", "plan", "report"}

\* Where in the code each API call can be, and on whose order it works.
Control ==
  /\ pc = "idle" <=> mode = "none"
  /\ mode = "adopt" => pc \in Adopting
  /\ pc = "plan" => mode = "execute" /\ life = 1
  /\ pc \in {"adopt", "adopted"} => mode = "adopt"
  /\ pc \in {"verify", "snapshot"} => mode \in {"execute", "adopt"}
  /\ pc \in Sending \cup {"position", "hold"} => mode \in {"execute", "resume"}
  /\ mode \in {"execute", "resume", "recover"}
       /\ pc \notin {"idle", "plan", "report"} => active
  /\ Owner => liveOwned
  /\ pc \in Selling => call # "entry"
  /\ pc = "decide" => call = "drain"
  /\ pc = "drain" /\ mode = "execute" => call \in {"entry", "ack"}
  /\ pc = "hold" => call = "hold" /\ cur = 1
  /\ pc \in Sending => (call = "entry" <=> cur = Entry)
  /\ pc \in Sending /\ call # "sell" => mode = "execute"
  /\ pc \in Sending /\ call \in {"protect", "hold"} => cur = 1
  /\ pc \in {"term", "poll"} => (call \in {"ack", "drain"} <=> cur = Entry)
  /\ pc = "reconcile" => cur \in Exits

\* Only an owned plan is attempted, and self.attempted always knows whether
\* the ID at hand has been sent.
Memory ==
  /\ ~blocked /\ ~active /\ ~completed => attempted = {}
  /\ pc = "plan" => attempted = {}
  /\ mode = "execute" /\ pc # "report" /\ call \in {"entry", "ack", "drain"}
       => attempted \subseteq {Entry}
  /\ pc \in Sending /\ call \in {"protect", "hold"}
       => attempted \subseteq {Entry, 1}
  /\ pc \in {"intent", "recheck"} => cur \notin attempted
  /\ pc = "post" => cur \in attempted

\* An owner remembers every ID ever POSTed, by any process: the first process
\* never forgets, a later one becomes owner only by adopting a plan whose
\* journal names them all.
Ledger ==
  /\ \A c \in Ids : order[c].status = "absent" <=> posts[c] = 0
  /\ \A c \in Ids : Cached(c) => posts[c] > 0
  /\ life = 1 \/ liveOwned => \A c \in Ids : posts[c] > 0 => c \in attempted
  /\ pc = "post" => posts[cur] = 0
  /\ call # "entry" => posts[Entry] > 0
  /\ liveOwned => jPlan
  /\ pc \in {"recheck", "post"} /\ MustBeDurable => cur \in jAttempts
  /\ mode = "adopt" => /\ swing /\ jPlan /\ Entry \in jAttempts
                       /\ jAttempts \subseteq attempted
  /\ IntentsAreDurable
  /\ NeverReposted

\* Exits below n (or all) that were attempted are terminal.
DoneBelow(n) == \A d \in Exits : d < n /\ d \in attempted => Terminal(d)

\* A terminal order is seen as it is; entry and earlier exits are terminal
\* when a sell starts, so nothing else can be live when it is posted.
Settled ==
  /\ \A c \in Ids : Terminal(c) => order[c] = cache[c]
  /\ \/ pc \in Selling \cup {"hold"}
     \/ pc \in Sending /\ call # "entry"
     \/ pc \in {"term", "poll"} /\ call \in {"reconcile", "sell"}
     => Terminal(Entry)
  /\ Owner /\ \/ pc = "reconcile"
              \/ pc \in {"term", "poll"} /\ call = "reconcile"
     => DoneBelow(cur)
  /\ Owner /\ pc \in {"residual", "position", "flatcheck"}
     => DoneBelow(NExits + 1)
  /\ Owner /\ pc \in Sending \cup {"term", "poll"} /\ call = "sell"
     => \A d \in Exits : d # cur /\ d \in attempted => Terminal(d)
  /\ OneLiveOrder

\* The inductive invariant.
IInv == TypeInv /\ Control /\ Memory /\ Ledger /\ Settled

OtherStep == CallStep \/ EnvironmentStep

LEMMA ControlSendStep == TypeInv /\ Control /\ SendStep => Control'
<1> SUFFICES ASSUME TypeInv, Control, SendStep PROVE Control'
  OBVIOUS
<1> USE DEF TypeInv, Control, Owner, Sending, Adopting, Selling, localVars,
            controlVars, flagVars, historyVars
<1>1. CASE IntentBlocked
  BY <1>1, IdsFacts
     DEF IntentBlocked, EntryBlocked, Idle, NoLocals, TypeOK, Bounds, Steps,
         Modes, Calls
<1>2. CASE IntentRecorded
  BY <1>2, IdsFacts DEF IntentRecorded, TypeOK, Bounds, Steps, Modes, Calls
<1>3. CASE EntryIntentLost
  BY <1>3, IdsFacts
     DEF EntryIntentLost, EntryBlocked, Idle, NoLocals, TypeOK, Bounds, Steps,
         Modes, Calls
<1>4. CASE SwingExitIntentLost
  BY <1>4, IdsFacts
     DEF SwingExitIntentLost, Raise, Idle, NoLocals, TypeOK, Bounds, Steps,
         Modes, Calls
<1>5. CASE IntentBestEffort
  BY <1>5, IdsFacts DEF IntentBestEffort, TypeOK, Bounds, Steps, Modes, Calls
<1>6. CASE RecheckBlocked
  BY <1>6, IdsFacts
     DEF RecheckBlocked, EntryBlocked, Idle, NoLocals, TypeOK, Bounds, Steps,
         Modes, Calls
<1>7. CASE RecheckPassed
  BY <1>7, IdsFacts DEF RecheckPassed, TypeOK, Bounds, Steps, Modes, Calls
<1>8. CASE Post
  BY <1>8, IdsFacts DEF Post, TypeOK, Bounds, Steps, Modes, Calls
<1>9. CASE NotSubmitted
  BY <1>9, IdsFacts
     DEF NotSubmitted, NoLocals, TypeOK, Bounds, Steps, Modes, Calls
<1>10. CASE AckLost
  BY <1>10, IdsFacts DEF AckLost, TypeOK, Bounds, Steps, Modes, Calls
<1>11. CASE SendReturns
  <2>1. CASE call = "entry"
    BY <1>11, <2>1, IdsFacts
       DEF SendReturns, TypeOK, Bounds, Steps, Modes, Calls
  <2>2. CASE call = "protect"
    BY <1>11, <2>2, IdsFacts
       DEF SendReturns, TypeOK, Bounds, Steps, Modes, Calls
  <2>3. CASE call = "hold"
    BY <1>11, <2>3, IdsFacts
       DEF SendReturns, TypeOK, Bounds, Steps, Modes, Calls
  <2>4. CASE call = "sell"
    BY <1>11, <2>4, IdsFacts
       DEF SendReturns, TypeOK, Bounds, Steps, Modes, Calls
  <2>5. QED BY <1>11, <2>1, <2>2, <2>3, <2>4 DEF SendReturns
<1>12. CASE StopNotAccepted
  BY <1>12, IdsFacts
     DEF StopNotAccepted, Raise, Idle, NoLocals, TypeOK, Bounds, Steps, Modes,
         Calls
<1>13. CASE StillAmbiguous
  BY <1>13, IdsFacts
     DEF StillAmbiguous, Fail, Raise, Idle, NoLocals, ReadSteps, TypeOK,
         Bounds, Steps, Modes, Calls
<1> QED BY <1>1, <1>2, <1>3, <1>4, <1>5, <1>6, <1>7, <1>8, <1>9, <1>10, <1>11,
     <1>12, <1>13
     DEF SendStep

LEMMA AfterTerminalControl ==
  ASSUME TypeInv, Control, pc \in {"term", "poll"}, AfterTerminal
  PROVE  /\ pc' = "drain" => call = "ack"
         /\ pc' = "decide" => call = "drain"
         /\ pc' = "reconcile" => call = "reconcile" /\ cur' \in Exits
         /\ pc' = "residual" => call \in {"reconcile", "sell"}
         /\ pc' \in {"drain", "decide", "reconcile", "residual"}
<1>1. CASE call = "reconcile"
  <2>1. cur \in Exits
    BY <1>1, IdsFacts DEF TypeInv, TypeOK, Control, Ids
  <2>2. QED BY <1>1, <2>1, IdsFacts DEF AfterTerminal, Exits
<1>2. CASE call # "reconcile"
  BY <1>2 DEF AfterTerminal, TypeInv, Bounds
<1>3. QED BY <1>1, <1>2

LEMMA ControlTerminalStep == TypeInv /\ Control /\ TerminalStep => Control'
<1> SUFFICES ASSUME TypeInv, Control, TerminalStep PROVE Control'
  OBVIOUS
<1> USE DEF TypeInv, Control, Owner, Sending, Adopting, Selling, localVars,
            controlVars, flagVars, historyVars
<1>1. CASE TerminalAlready
  <2>1. AfterTerminal /\ UNCHANGED <<mode, call, flagVars, life>>
    BY <1>1 DEF TerminalAlready
  <2>2. QED BY <1>1, <2>1, AfterTerminalControl
       DEF TerminalAlready, TypeOK, Bounds, Steps, Modes, Calls
<1>2. CASE StartPolling
  BY <1>2, IdsFacts DEF StartPolling, TypeOK, Bounds, Steps, Modes, Calls
<1>3. CASE Poll
  BY <1>3, IdsFacts DEF Poll, TypeOK, Bounds, Steps, Modes, Calls
<1>4. CASE PolledTerminal
  <2>1. AfterTerminal /\ UNCHANGED <<mode, call, flagVars, life>>
    BY <1>4 DEF PolledTerminal
  <2>2. QED BY <1>4, <2>1, AfterTerminalControl
       DEF PolledTerminal, TypeOK, Bounds, Steps, Modes, Calls
<1>5. CASE CancelAfterPolls
  BY <1>5, IdsFacts DEF CancelAfterPolls, TypeOK, Bounds, Steps, Modes, Calls
<1>6. CASE StillWorking
  BY <1>6, IdsFacts
     DEF StillWorking, Fail, Raise, Idle, NoLocals, ReadSteps, TypeOK, Bounds,
         Steps, Modes, Calls
<1> QED BY <1>1, <1>2, <1>3, <1>4, <1>5, <1>6 DEF TerminalStep

LEMMA ControlDrainStep == TypeInv /\ Control /\ DrainStep => Control'
<1> SUFFICES ASSUME TypeInv, Control, DrainStep PROVE Control'
  OBVIOUS
<1> USE DEF TypeInv, Control, Owner, Sending, Adopting, Selling, localVars,
            controlVars, flagVars, historyVars
<1>1. CASE EntryAbsent
  BY <1>1, IdsFacts
     DEF EntryAbsent, Fail, Raise, Idle, NoLocals, ReadSteps, TypeOK, Bounds,
         Steps, Modes, Calls
<1>2. CASE EntryFound
  BY <1>2, IdsFacts DEF EntryFound, TypeOK, Bounds, Steps, Modes, Calls
<1>3. CASE HoldPosition
  BY <1>3, IdsFacts
     DEF HoldPosition, Holds, AllowHold, TypeOK, Bounds, Steps, Modes, Calls
<1>4. CASE DrainRecorded
  BY <1>4, IdsFacts DEF DrainRecorded, TypeOK, Bounds, Steps, Modes, Calls
<1>5. CASE DrainNotRecorded
  BY <1>5, IdsFacts
     DEF DrainNotRecorded, Raise, Idle, NoLocals, TypeOK, Bounds, Steps,
         Modes, Calls
<1>6. CASE ExitFound
  BY <1>6, IdsFacts DEF ExitFound, TypeOK, Bounds, Steps, Modes, Calls
<1>7. CASE ExitMayExist
  BY <1>7, IdsFacts
     DEF ExitMayExist, Fail, Raise, Idle, NoLocals, ReadSteps, TypeOK, Bounds,
         Steps, Modes, Calls
<1>8. CASE ExitUnused
  BY <1>8, IdsFacts DEF ExitUnused, TypeOK, Bounds, Steps, Modes, Calls
<1>9. CASE NothingLeft
  BY <1>9, IdsFacts DEF NothingLeft, TypeOK, Bounds, Steps, Modes, Calls
<1>10. CASE SellRefused
  BY <1>10, IdsFacts
     DEF SellRefused, Fail, Raise, Idle, NoLocals, ReadSteps, TypeOK, Bounds,
         Steps, Modes, Calls
<1>11. CASE OrdersChecked
  BY <1>11, IdsFacts
     DEF OrdersChecked, MayNotSell, Recovering, TypeOK, Bounds, Steps, Modes,
         Calls
<1>12. CASE PositionDiffers
  BY <1>12, IdsFacts
     DEF PositionDiffers, Fail, Raise, Idle, NoLocals, ReadSteps, TypeOK,
         Bounds, Steps, Modes, Calls
<1>13. CASE SellResidual
  <2>1. cur' # Entry
    BY <1>13, IdsFacts DEF SellResidual, UnusedExits
  <2>2. QED BY <1>13, <2>1 DEF SellResidual, TypeOK, Bounds, Steps, Modes, Calls
<1>14. CASE Flat
  BY <1>14, IdsFacts DEF Flat, NoLocals, TypeOK, Bounds, Steps, Modes, Calls
<1>15. CASE NotFlat
  BY <1>15, IdsFacts
     DEF NotFlat, Fail, Raise, Idle, NoLocals, ReadSteps, TypeOK, Bounds,
         Steps, Modes, Calls
<1> QED BY <1>1, <1>2, <1>3, <1>4, <1>5, <1>6, <1>7, <1>8, <1>9, <1>10, <1>11,
     <1>12, <1>13, <1>14, <1>15
     DEF DrainStep

LEMMA ControlHoldStep == TypeInv /\ Control /\ HoldStep => Control'
<1> SUFFICES ASSUME TypeInv, Control, HoldStep PROVE Control'
  OBVIOUS
<1> USE DEF TypeInv, Control, Owner, Sending, Adopting, Selling, localVars,
            controlVars, flagVars, historyVars
<1>1. CASE HoldEnds
  BY <1>1, IdsFacts DEF HoldEnds, TypeOK, Bounds, Steps, Modes, Calls
<1>2. CASE HoldChecks
  BY <1>2, IdsFacts DEF HoldChecks, TypeOK, Bounds, Steps, Modes, Calls
<1>3. CASE HoldRaises
  BY <1>3, IdsFacts
     DEF HoldRaises, Raise, Idle, NoLocals, TypeOK, Bounds, Steps, Modes,
         Calls
<1> QED BY <1>1, <1>2, <1>3 DEF HoldStep

LEMMA ControlProtectionStep == TypeInv /\ Control /\ ProtectionStep => Control'
<1> SUFFICES ASSUME TypeInv, Control, ProtectionStep PROVE Control'
  OBVIOUS
<1> USE DEF TypeInv, Control, Owner, Sending, Adopting, Selling, localVars,
            controlVars, flagVars, historyVars
<1>1. CASE VerifyOrder
  BY <1>1, IdsFacts DEF VerifyOrder, TypeOK, Bounds, Steps, Modes, Calls
<1>2. CASE Protected
  BY <1>2, IdsFacts
     DEF Protected, NoLocals, TypeOK, Bounds, Steps, Modes, Calls
<1>3. CASE NotProtected
  BY <1>3, IdsFacts
     DEF NotProtected, Fail, Raise, Idle, NoLocals, ReadSteps, TypeOK, Bounds,
         Steps, Modes, Calls
<1>4. CASE AdoptIntent
  BY <1>4, IdsFacts DEF AdoptIntent, TypeOK, Bounds, Steps, Modes, Calls
<1>5. CASE AdoptAbsent
  BY <1>5, IdsFacts
     DEF AdoptAbsent, Fail, Raise, Idle, NoLocals, ReadSteps, TypeOK, Bounds,
         Steps, Modes, Calls
<1>6. CASE AdoptionRecorded
  BY <1>6, IdsFacts
     DEF AdoptionRecorded, Idle, NoLocals, TypeOK, Bounds, Steps, Modes, Calls
<1>7. CASE AdoptionNotRecorded
  BY <1>7, IdsFacts
     DEF AdoptionNotRecorded, Raise, Idle, NoLocals, TypeOK, Bounds, Steps,
         Modes, Calls
<1> QED BY <1>1, <1>2, <1>3, <1>4, <1>5, <1>6, <1>7 DEF ProtectionStep

LEMMA ControlOtherStep == TypeInv /\ Control /\ OtherStep => Control'
<1> SUFFICES ASSUME TypeInv, Control, OtherStep PROVE Control'
  OBVIOUS
<1> USE DEF TypeInv, Control, Owner, Sending, Adopting, Selling, localVars,
            controlVars, flagVars, historyVars
<1>1. CASE PlanRefused
  BY <1>1, IdsFacts
     DEF PlanRefused, Idle, NoLocals, TypeOK, Bounds, Steps, Modes, Calls
<1>2. CASE PlanRecorded
  BY <1>2, IdsFacts DEF PlanRecorded, TypeOK, Bounds, Steps, Modes, Calls
<1>3. CASE ReadFails
  BY <1>3, IdsFacts
     DEF ReadFails, Fail, Raise, Idle, NoLocals, ReadSteps, TypeOK, Bounds,
         Steps, Modes, Calls
<1>4. CASE Report
  BY <1>4, IdsFacts
     DEF Report, Idle, NoLocals, TypeOK, Bounds, Steps, Modes, Calls
<1>5. CASE Execute
  BY <1>5, IdsFacts DEF Execute, TypeOK, Bounds, Steps, Modes, Calls
<1>6. CASE ResumeDrain
  BY <1>6, IdsFacts
     DEF ResumeDrain, Resumable, TypeOK, Bounds, Steps, Modes, Calls
<1>7. CASE Recover
  BY <1>7, IdsFacts DEF Recover, TypeOK, Bounds, Steps, Modes, Calls
<1>8. CASE AdoptProtected
  BY <1>8, IdsFacts DEF AdoptProtected, TypeOK, Bounds, Steps, Modes, Calls
<1>9. CASE AdoptRefused
  BY <1>9, IdsFacts DEF AdoptRefused, TypeOK, Bounds, Steps, Modes, Calls
<1>10. CASE Stop
  BY <1>10, IdsFacts DEF Stop, TypeOK, Bounds, Steps, Modes, Calls
<1>11. CASE Crash
  BY <1>11, IdsFacts
     DEF Crash, Idle, NoLocals, TypeOK, Bounds, Steps, Modes, Calls
<1>12. CASE EnvironmentStep
  BY <1>12, IdsFacts
     DEF EnvironmentStep, executorVars, TypeOK, Bounds, Steps, Modes, Calls
<1> QED BY <1>1, <1>2, <1>3, <1>4, <1>5, <1>6, <1>7, <1>8, <1>9, <1>10, <1>11, <1>12
     DEF OtherStep, CallStep, ExecuteStep, ApiCall

LEMMA MemorySendStep ==
  ASSUME TypeInv, Control, Memory, SendStep
  PROVE  Memory'
<1> USE DEF Control, Memory, Owner, Sending, Adopting, Selling, TypeInv,
        TypeOK, Modes
<1>1. CASE IntentBlocked
  BY <1>1, IdsFacts DEF IntentBlocked, EntryBlocked, Idle, NoLocals,
     memoryVars, historyVars
<1>2. CASE IntentRecorded
  BY <1>2, IdsFacts DEF IntentRecorded, Recorded, memoryVars, localVars,
     flagVars, historyVars
<1>3. CASE EntryIntentLost
  BY <1>3, IdsFacts DEF EntryIntentLost, Landed, StorageFailure, EntryBlocked,
     Idle, NoLocals, memoryVars, historyVars
<1>4. CASE SwingExitIntentLost
  BY <1>4, IdsFacts DEF SwingExitIntentLost, Landed, Raise, Idle, NoLocals,
     memoryVars, historyVars
<1>5. CASE IntentBestEffort
  BY <1>5, IdsFacts DEF IntentBestEffort, RecordEvent, Landed, EventOutcome,
     memoryVars, localVars, flagVars, historyVars
<1>6. CASE RecheckBlocked
  BY <1>6, IdsFacts DEF RecheckBlocked, EntryBlocked, Idle, NoLocals,
     memoryVars, historyVars
<1>7. CASE RecheckPassed
  BY <1>7, IdsFacts DEF RecheckPassed, Bounds, localVars, flagVars,
     journalVars, historyVars
<1>8. CASE Post
  BY <1>8, IdsFacts DEF Post, localVars, memoryVars, flagVars, journalVars
<1>9. CASE NotSubmitted
  BY <1>9, IdsFacts DEF NotSubmitted, RecordEvent, NoLocals, EventOutcome,
     journalVars, historyVars
<1>10. CASE AckLost
  BY <1>10, IdsFacts DEF AckLost, memoryVars, localVars, flagVars,
     journalVars, historyVars
<1>11. CASE SendReturns
  BY <1>11, IdsFacts DEF SendReturns, Validate, RecordEvent, EventOutcome,
     flagVars, journalVars, historyVars
<1>12. CASE StopNotAccepted
  BY <1>12, IdsFacts DEF StopNotAccepted, EventOutcome, Raise, Idle, NoLocals,
     journalVars, historyVars
<1>13. CASE StillAmbiguous
  BY <1>13, IdsFacts DEF StillAmbiguous, Fail, Raise, Idle, NoLocals,
     memoryVars, journalVars, historyVars
<1> QED BY <1>1, <1>2, <1>3, <1>4, <1>5, <1>6, <1>7, <1>8, <1>9, <1>10,
     <1>11, <1>12, <1>13 DEF SendStep

LEMMA MemoryTerminalStep ==
  ASSUME TypeInv, Control, Memory, TerminalStep
  PROVE  Memory'
<1> USE DEF Control, Memory, Owner, Sending, Adopting, Selling, TypeInv,
        TypeOK, Modes
<1>1. CASE TerminalAlready
  BY <1>1, IdsFacts, AfterTerminalControl DEF TerminalAlready, AfterTerminal,
     memoryVars, flagVars, journalVars, historyVars
<1>2. CASE StartPolling
  BY <1>2, IdsFacts DEF StartPolling, memoryVars, flagVars, journalVars,
     historyVars
<1>3. CASE Poll
  BY <1>3, IdsFacts DEF Poll, Validate, RecordEvent, EventOutcome, flagVars,
     journalVars, historyVars
<1>4. CASE PolledTerminal
  BY <1>4, IdsFacts, AfterTerminalControl DEF PolledTerminal, AfterTerminal,
     memoryVars, flagVars, journalVars, historyVars
<1>5. CASE CancelAfterPolls
  BY <1>5, IdsFacts DEF CancelAfterPolls, memoryVars, flagVars, journalVars,
     historyVars
<1>6. CASE StillWorking
  BY <1>6, IdsFacts DEF StillWorking, Fail, Raise, Idle, NoLocals, memoryVars,
     journalVars, historyVars
<1> QED BY <1>1, <1>2, <1>3, <1>4, <1>5, <1>6 DEF TerminalStep

LEMMA MemoryDrainStep ==
  ASSUME TypeInv, Control, Memory, DrainStep
  PROVE  Memory'
<1> USE DEF Control, Memory, Owner, Sending, Adopting, Selling, TypeInv,
        TypeOK, Modes
<1>1. CASE EntryAbsent
  BY <1>1, IdsFacts DEF EntryAbsent, Fail, Raise, Idle, NoLocals, memoryVars,
     journalVars, historyVars
<1>2. CASE EntryFound
  BY <1>2, IdsFacts DEF EntryFound, Validate, RecordEvent, EventOutcome,
     flagVars, journalVars, historyVars
<1>3. CASE HoldPosition
  BY <1>3, IdsFacts DEF HoldPosition, Holds, AllowHold, memoryVars, flagVars,
     journalVars, historyVars
<1>4. CASE DrainRecorded
  BY <1>4, IdsFacts DEF DrainRecorded, Recorded, memoryVars, flagVars,
     historyVars
<1>5. CASE DrainNotRecorded
  BY <1>5, IdsFacts DEF DrainNotRecorded, Landed, Raise, Idle, NoLocals,
     memoryVars, historyVars
<1>6. CASE ExitFound
  BY <1>6, IdsFacts DEF ExitFound, Validate, RecordEvent, EventOutcome,
     flagVars, journalVars, historyVars
<1>7. CASE ExitMayExist
  BY <1>7, IdsFacts DEF ExitMayExist, Fail, Raise, Idle, NoLocals, memoryVars,
     journalVars, historyVars
<1>8. CASE ExitUnused
  BY <1>8, IdsFacts DEF ExitUnused, memoryVars, flagVars, journalVars,
     historyVars
<1>9. CASE NothingLeft
  BY <1>9, IdsFacts DEF NothingLeft, localVars, memoryVars, flagVars,
     journalVars, historyVars
<1>10. CASE SellRefused
  BY <1>10, IdsFacts DEF SellRefused, Fail, Raise, Idle, NoLocals, memoryVars,
     journalVars, historyVars
<1>11. CASE OrdersChecked
  BY <1>11, IdsFacts DEF OrdersChecked, localVars, memoryVars, flagVars,
     journalVars, historyVars
<1>12. CASE PositionDiffers
  BY <1>12, IdsFacts DEF PositionDiffers, Fail, Raise, Idle, NoLocals,
     memoryVars, journalVars, historyVars
<1>13. CASE SellResidual
  BY <1>13, IdsFacts DEF SellResidual, UnusedExits, memoryVars, flagVars,
     journalVars, historyVars
<1>14. CASE Flat
  BY <1>14, IdsFacts DEF Flat, NoLocals, memoryVars, journalVars, historyVars
<1>15. CASE NotFlat
  BY <1>15, IdsFacts DEF NotFlat, Fail, Raise, Idle, NoLocals, memoryVars,
     journalVars, historyVars
<1> QED BY <1>1, <1>2, <1>3, <1>4, <1>5, <1>6, <1>7, <1>8, <1>9, <1>10,
     <1>11, <1>12, <1>13, <1>14, <1>15 DEF DrainStep

LEMMA MemoryHoldStep ==
  ASSUME TypeInv, Control, Memory, HoldStep
  PROVE  Memory'
<1> USE DEF Control, Memory, Owner, Sending, Adopting, Selling, TypeInv,
        TypeOK, Modes
<1>1. CASE HoldEnds
  BY <1>1, IdsFacts DEF HoldEnds, EventOutcome, memoryVars, flagVars,
     journalVars, historyVars
<1>2. CASE HoldChecks
  BY <1>2, IdsFacts DEF HoldChecks, Validate, RecordEvent, EventOutcome,
     localVars, flagVars, journalVars, historyVars
<1>3. CASE HoldRaises
  BY <1>3, IdsFacts DEF HoldRaises, EventOutcome, Raise, Idle, NoLocals,
     journalVars, historyVars
<1> QED BY <1>1, <1>2, <1>3 DEF HoldStep

LEMMA MemoryProtectionStep ==
  ASSUME TypeInv, Control, Memory, ProtectionStep
  PROVE  Memory'
<1> USE DEF Control, Memory, Owner, Sending, Adopting, Selling, TypeInv,
        TypeOK, Modes
<1>1. CASE VerifyOrder
  BY <1>1, IdsFacts DEF VerifyOrder, Validate, RecordEvent, EventOutcome,
     flagVars, journalVars, historyVars
<1>2. CASE Protected
  BY <1>2, IdsFacts DEF Protected, NoLocals, memoryVars, flagVars,
     journalVars, historyVars
<1>3. CASE NotProtected
  BY <1>3, IdsFacts DEF NotProtected, Fail, Raise, Idle, NoLocals, memoryVars,
     journalVars, historyVars
<1>4. CASE AdoptIntent
  BY <1>4, IdsFacts DEF AdoptIntent, Validate, RecordEvent, EventOutcome,
     flagVars, journalVars, historyVars
<1>5. CASE AdoptAbsent
  BY <1>5, IdsFacts DEF AdoptAbsent, Fail, Raise, Idle, NoLocals, memoryVars,
     journalVars, historyVars
<1>6. CASE AdoptionRecorded
  BY <1>6, IdsFacts DEF AdoptionRecorded, Recorded, Idle, NoLocals,
     memoryVars, journalVars, historyVars
<1>7. CASE AdoptionNotRecorded
  BY <1>7, IdsFacts DEF AdoptionNotRecorded, Raise, Idle, NoLocals,
     memoryVars, journalVars, historyVars
<1> QED BY <1>1, <1>2, <1>3, <1>4, <1>5, <1>6, <1>7 DEF ProtectionStep

LEMMA MemoryOtherStep ==
  ASSUME TypeInv, Control, Memory, OtherStep
  PROVE  Memory'
<1> USE DEF Control, Memory, Owner, Sending, Adopting, Selling, TypeInv,
        TypeOK, Modes
<1>1. CASE PlanRefused
  BY <1>1, IdsFacts DEF PlanRefused, Landed, StorageFailure, Idle, NoLocals,
     memoryVars, flagVars, historyVars
<1>2. CASE PlanRecorded
  BY <1>2, IdsFacts DEF PlanRecorded, Recorded, memoryVars, historyVars
<1>3. CASE ReadFails
  BY <1>3, IdsFacts DEF ReadFails, ReadSteps, Fail, Raise, Idle, NoLocals,
     memoryVars, journalVars, historyVars
<1>4. CASE Report
  BY <1>4, IdsFacts DEF Report, RecordEvent, Idle, EventOutcome, NoLocals,
     memoryVars, flagVars, journalVars, historyVars
<1>5. CASE Execute
  BY <1>5, IdsFacts DEF Execute, memoryVars, localVars, flagVars, journalVars,
     historyVars
<1>6. CASE ResumeDrain
  BY <1>6, IdsFacts DEF ResumeDrain, localVars, memoryVars, flagVars,
     journalVars, historyVars
<1>7. CASE Recover
  BY <1>7, IdsFacts DEF Recover, localVars, memoryVars, journalVars,
     historyVars
<1>8. CASE AdoptProtected
  BY <1>8, IdsFacts DEF AdoptProtected, flagVars, journalVars, historyVars
<1>9. CASE AdoptRefused
  BY <1>9, IdsFacts DEF AdoptRefused, controlVars, memoryVars, flagVars,
     journalVars, historyVars, localVars
<1>10. CASE Stop
  BY <1>10, IdsFacts DEF Stop, controlVars, memoryVars, flagVars, journalVars,
     historyVars, localVars
<1>11. CASE Crash
  BY <1>11, IdsFacts DEF Crash, Idle, NoLocals, journalVars
<1>12. CASE EnvironmentStep
  BY <1>12, IdsFacts DEF EnvironmentStep, executorVars, controlVars,
     memoryVars, flagVars, journalVars, historyVars, localVars
<1> QED BY <1>1, <1>2, <1>3, <1>4, <1>5, <1>6, <1>7, <1>8, <1>9, <1>10,
     <1>11, <1>12 DEF OtherStep, CallStep, ExecuteStep, ApiCall

\* What no cancel request and no step of the broker undoes.
OrderStep ==
  \A d \in Ids :
    /\ order'[d].status = "absent" <=> order[d].status = "absent"
    /\ order[d].status \in TerminalStatus => order'[d] = order[d]
    /\ order'[d].status \in {"sent"} \cup WorkingStatus => Live(d)

LEMMA CancelKeeps ==
  ASSUME TypeInv, NEW c \in Ids, CancelOrder(c)
  PROVE  OrderStep
<1>1. order \in [Ids -> OrderRecord]
  BY DEF TypeInv, TypeOK, BrokerTypeOK
<1>2. CASE order' = order
  BY <1>2 DEF OrderStep, Live
<1>3. CASE order[c].status = "working"
           /\ order' = [order EXCEPT ![c].status = "canceling"]
  <2>1. order'[c].status = "canceling"
    BY <1>1, <1>3 DEF OrderRecord
  <2>2. \A d \in Ids : d # c => order'[d] = order[d]
    BY <1>1, <1>3
  <2>3. QED BY <1>3, <2>1, <2>2 DEF OrderStep, Live, WorkingStatus, TerminalStatus
<1>4. QED BY <1>2, <1>3 DEF CancelOrder

LEMMA BrokerKeeps ==
  ASSUME TypeInv, BrokerStep
  PROVE  OrderStep
<1>1. order \in [Ids -> OrderRecord]
  BY DEF TypeInv, TypeOK, BrokerTypeOK
<1>2. CASE RefreshAccount \/ ForeignOrder
  BY <1>2 DEF RefreshAccount, ForeignOrder, OrderStep, Live
<1>3. ASSUME NEW c \in Ids,
             Accept(c) \/ Expire(c) \/ \E n \in 1..Quantity : Fill(c, n)
      PROVE  OrderStep
  <2>1. order[c].status \in {"sent"} \cup WorkingStatus
    BY <1>3 DEF Accept, Expire, Fill
  <2>2. order'[c].status \in WorkingStatus \cup TerminalStatus
    <3>1. CASE Accept(c)
      BY <1>1, <3>1 DEF Accept, OrderRecord, WorkingStatus
    <3>2. CASE Expire(c)
      BY <1>1, <3>2 DEF Expire, OrderRecord, TerminalStatus
    <3>3. ASSUME NEW n \in 1..Quantity, Fill(c, n)
          PROVE  order'[c].status \in WorkingStatus \cup TerminalStatus
      <4>1. order'[c].status \in {"filled", order[c].status}
        BY <1>1, <3>3 DEF Fill, OrderRecord
      <4>2. QED BY <3>3, <4>1 DEF Fill, TerminalStatus
    <3>4. QED BY <1>3, <3>1, <3>2, <3>3
  <2>3. \A d \in Ids : d # c => order'[d] = order[d]
    BY <1>1, <1>3 DEF Accept, Expire, Fill
  <2>4. QED BY <2>1, <2>2, <2>3 DEF OrderStep, Live, WorkingStatus, TerminalStatus
<1>4. QED BY <1>2, <1>3 DEF BrokerStep

LEMMA VisiblePosted ==
  ASSUME TypeInv, Ledger, NEW c \in Ids, Visible(c)
  PROVE  posts[c] > 0
  BY DEF TypeInv, TypeOK, Ledger, Visible

LEMMA LedgerSendStep ==
  ASSUME TypeInv, Control, Memory, Ledger, SendStep
  PROVE  Ledger'
<1> USE DEF Control, Memory, Ledger, IntentsAreDurable, NeverReposted, Cached,
        MustBeDurable, Owner, Sending, Adopting, Selling, TypeInv, TypeOK,
        BrokerTypeOK, brokerVars
<1>1. CASE IntentBlocked
  BY <1>1, IdsFacts DEF IntentBlocked, EntryBlocked, Idle, NoLocals,
     memoryVars, historyVars
<1>2. CASE IntentRecorded
  BY <1>2, IdsFacts DEF IntentRecorded, Recorded, memoryVars, localVars,
     flagVars, historyVars
<1>3. CASE EntryIntentLost
  BY <1>3, IdsFacts DEF EntryIntentLost, Landed, StorageFailure, EntryBlocked,
     Idle, NoLocals, memoryVars, historyVars
<1>4. CASE SwingExitIntentLost
  BY <1>4, IdsFacts DEF SwingExitIntentLost, Landed, Raise, Idle, NoLocals,
     memoryVars, historyVars
<1>5. CASE IntentBestEffort
  BY <1>5, IdsFacts DEF IntentBestEffort, RecordEvent, Landed, EventOutcome,
     memoryVars, localVars, flagVars, historyVars
<1>6. CASE RecheckBlocked
  BY <1>6, IdsFacts DEF RecheckBlocked, EntryBlocked, Idle, NoLocals,
     memoryVars, historyVars
<1>7. CASE RecheckPassed
  BY <1>7, IdsFacts DEF RecheckPassed, localVars, flagVars, journalVars,
     historyVars
<1>8. CASE Post
  BY <1>8, IdsFacts DEF Post, SubmitOrder, localVars, memoryVars, flagVars,
     journalVars
<1>9. CASE NotSubmitted
  BY <1>9, IdsFacts DEF NotSubmitted, RecordEvent, NoLocals, EventOutcome,
     journalVars, historyVars
<1>10. CASE AckLost
  BY <1>10, IdsFacts DEF AckLost, memoryVars, localVars, flagVars,
     journalVars, historyVars
<1>11. CASE SendReturns
  <2>1. posts[cur] > 0 /\ (call # "entry" => call' = call) /\ call' # "drain"
    BY <1>11, VisiblePosted DEF SendReturns
  <2>2. pc' \in {"term", "drain", "verify", "hold"} /\ Validate(cur)
    BY <1>11 DEF SendReturns
  <2>3. posts[Entry] > 0
    BY <1>11, <2>1 DEF SendReturns
  <2>4. UNCHANGED <<order, posts, life, swing, mode, attempted, liveOwned,
                   jPlan, jAttempts>>
    BY <1>11 DEF SendReturns, flagVars, journalVars, historyVars
  <2>5. QED BY <2>2, <2>3, <2>4 DEF Validate
<1>12. CASE StopNotAccepted
  BY <1>12, IdsFacts DEF StopNotAccepted, EventOutcome, Raise, Idle, NoLocals,
     journalVars, historyVars
<1>13. CASE StillAmbiguous
  BY <1>13, IdsFacts DEF StillAmbiguous, Fail, Raise, Idle, NoLocals,
     memoryVars, journalVars, historyVars
<1> QED BY <1>1, <1>2, <1>3, <1>4, <1>5, <1>6, <1>7, <1>8, <1>9, <1>10,
     <1>11, <1>12, <1>13 DEF SendStep

LEMMA LedgerTerminalStep ==
  ASSUME TypeInv, Control, Memory, Ledger, TerminalStep
  PROVE  Ledger'
<1> USE DEF Control, Memory, Ledger, IntentsAreDurable, NeverReposted, Cached,
        MustBeDurable, Owner, Sending, Adopting, Selling, TypeInv, TypeOK,
        BrokerTypeOK, brokerVars
<1>1. CASE TerminalAlready
  BY <1>1, IdsFacts, AfterTerminalControl DEF TerminalAlready, AfterTerminal,
     memoryVars, flagVars, journalVars, historyVars
<1>2. CASE StartPolling
  <2>1. OrderStep
    BY <1>2, CancelKeeps DEF StartPolling, OrderStep, Live
  <2>2. QED BY <2>1, <1>2, IdsFacts
       DEF OrderStep, StartPolling, memoryVars, flagVars, journalVars,
           historyVars
<1>3. CASE Poll
  BY <1>3, IdsFacts DEF Poll, Validate, RecordEvent, EventOutcome, flagVars,
     journalVars, historyVars
<1>4. CASE PolledTerminal
  BY <1>4, IdsFacts, AfterTerminalControl DEF PolledTerminal, AfterTerminal,
     memoryVars, flagVars, journalVars, historyVars
<1>5. CASE CancelAfterPolls
  <2>1. OrderStep
    BY <1>5, CancelKeeps DEF CancelAfterPolls, OrderStep, Live
  <2>2. QED BY <2>1, <1>5, IdsFacts
       DEF OrderStep, CancelAfterPolls, memoryVars, flagVars, journalVars,
           historyVars
<1>6. CASE StillWorking
  BY <1>6, IdsFacts DEF StillWorking, Fail, Raise, Idle, NoLocals, memoryVars,
     journalVars, historyVars
<1> QED BY <1>1, <1>2, <1>3, <1>4, <1>5, <1>6 DEF TerminalStep

LEMMA LedgerDrainStep ==
  ASSUME TypeInv, Control, Memory, Ledger, DrainStep
  PROVE  Ledger'
<1> USE DEF Control, Memory, Ledger, IntentsAreDurable, NeverReposted, Cached,
        MustBeDurable, Owner, Sending, Adopting, Selling, TypeInv, TypeOK,
        BrokerTypeOK, brokerVars
<1>1. CASE EntryAbsent
  BY <1>1, IdsFacts DEF EntryAbsent, Fail, Raise, Idle, NoLocals, memoryVars,
     journalVars, historyVars
<1>2. CASE EntryFound
  <2>1. posts[Entry] > 0
    BY <1>2, IdsFacts, VisiblePosted DEF EntryFound
  <2>2. QED BY <2>1, <1>2, IdsFacts
       DEF EntryFound, Validate, RecordEvent, EventOutcome, flagVars,
           journalVars, historyVars
<1>3. CASE HoldPosition
  BY <1>3, IdsFacts DEF HoldPosition, memoryVars, flagVars, journalVars,
     historyVars
<1>4. CASE DrainRecorded
  BY <1>4, IdsFacts DEF DrainRecorded, Recorded, memoryVars, flagVars,
     historyVars
<1>5. CASE DrainNotRecorded
  BY <1>5, IdsFacts DEF DrainNotRecorded, Landed, Raise, Idle, NoLocals,
     memoryVars, historyVars
<1>6. CASE ExitFound
  BY <1>6, IdsFacts DEF ExitFound, Validate, RecordEvent, EventOutcome,
     flagVars, journalVars, historyVars
<1>7. CASE ExitMayExist
  BY <1>7, IdsFacts DEF ExitMayExist, Fail, Raise, Idle, NoLocals, memoryVars,
     journalVars, historyVars
<1>8. CASE ExitUnused
  BY <1>8, IdsFacts DEF ExitUnused, memoryVars, flagVars, journalVars,
     historyVars
<1>9. CASE NothingLeft
  BY <1>9, IdsFacts DEF NothingLeft, localVars, memoryVars, flagVars,
     journalVars, historyVars
<1>10. CASE SellRefused
  BY <1>10, IdsFacts DEF SellRefused, Fail, Raise, Idle, NoLocals, memoryVars,
     journalVars, historyVars
<1>11. CASE OrdersChecked
  BY <1>11, IdsFacts DEF OrdersChecked, localVars, memoryVars, flagVars,
     journalVars, historyVars
<1>12. CASE PositionDiffers
  BY <1>12, IdsFacts DEF PositionDiffers, Fail, Raise, Idle, NoLocals,
     memoryVars, journalVars, historyVars
<1>13. CASE SellResidual
  BY <1>13, IdsFacts DEF SellResidual, UnusedExits, memoryVars, flagVars,
     journalVars, historyVars
<1>14. CASE Flat
  BY <1>14, IdsFacts DEF Flat, NoLocals, memoryVars, journalVars, historyVars
<1>15. CASE NotFlat
  BY <1>15, IdsFacts DEF NotFlat, Fail, Raise, Idle, NoLocals, memoryVars,
     journalVars, historyVars
<1> QED BY <1>1, <1>2, <1>3, <1>4, <1>5, <1>6, <1>7, <1>8, <1>9, <1>10,
     <1>11, <1>12, <1>13, <1>14, <1>15 DEF DrainStep

LEMMA LedgerHoldStep ==
  ASSUME TypeInv, Control, Memory, Ledger, HoldStep
  PROVE  Ledger'
<1> USE DEF Control, Memory, Ledger, IntentsAreDurable, NeverReposted, Cached,
        MustBeDurable, Owner, Sending, Adopting, Selling, TypeInv, TypeOK,
        BrokerTypeOK, brokerVars
<1>1. CASE HoldEnds
  BY <1>1, IdsFacts DEF HoldEnds, EventOutcome, memoryVars, flagVars,
     journalVars, historyVars
<1>2. CASE HoldChecks
  BY <1>2, IdsFacts DEF HoldChecks, Validate, RecordEvent, EventOutcome,
     localVars, flagVars, journalVars, historyVars
<1>3. CASE HoldRaises
  BY <1>3, IdsFacts DEF HoldRaises, EventOutcome, Raise, Idle, NoLocals,
     journalVars, historyVars
<1> QED BY <1>1, <1>2, <1>3 DEF HoldStep

LEMMA LedgerProtectionStep ==
  ASSUME TypeInv, Control, Memory, Ledger, ProtectionStep
  PROVE  Ledger'
<1> USE DEF Control, Memory, Ledger, IntentsAreDurable, NeverReposted, Cached,
        MustBeDurable, Owner, Sending, Adopting, Selling, TypeInv, TypeOK,
        BrokerTypeOK, brokerVars
<1>1. CASE VerifyOrder
  BY <1>1, IdsFacts DEF VerifyOrder, Validate, RecordEvent, EventOutcome,
     flagVars, journalVars, historyVars
<1>2. CASE Protected
  BY <1>2, IdsFacts DEF Protected, NoLocals, memoryVars, flagVars,
     journalVars, historyVars
<1>3. CASE NotProtected
  BY <1>3, IdsFacts DEF NotProtected, Fail, Raise, Idle, NoLocals, memoryVars,
     journalVars, historyVars
<1>4. CASE AdoptIntent
  BY <1>4, IdsFacts DEF AdoptIntent, Validate, RecordEvent, EventOutcome,
     flagVars, journalVars, historyVars
<1>5. CASE AdoptAbsent
  BY <1>5, IdsFacts DEF AdoptAbsent, Fail, Raise, Idle, NoLocals, memoryVars,
     journalVars, historyVars
<1>6. CASE AdoptionRecorded
  BY <1>6, IdsFacts DEF AdoptionRecorded, Recorded, Idle, NoLocals,
     memoryVars, journalVars, historyVars
<1>7. CASE AdoptionNotRecorded
  BY <1>7, IdsFacts DEF AdoptionNotRecorded, Raise, Idle, NoLocals,
     memoryVars, journalVars, historyVars
<1> QED BY <1>1, <1>2, <1>3, <1>4, <1>5, <1>6, <1>7 DEF ProtectionStep

LEMMA LedgerOtherStep ==
  ASSUME TypeInv, Control, Memory, Ledger, OtherStep
  PROVE  Ledger'
<1> USE DEF Control, Memory, Ledger, IntentsAreDurable, NeverReposted, Cached,
        MustBeDurable, Owner, Sending, Adopting, Selling, TypeInv, TypeOK,
        BrokerTypeOK, brokerVars
<1>1. CASE PlanRefused
  BY <1>1, IdsFacts DEF PlanRefused, Landed, StorageFailure, Idle, NoLocals,
     memoryVars, flagVars, historyVars
<1>2. CASE PlanRecorded
  BY <1>2, IdsFacts DEF PlanRecorded, Recorded, memoryVars, historyVars
<1>3. CASE ReadFails
  BY <1>3, IdsFacts DEF ReadFails, ReadSteps, Fail, Raise, Idle, NoLocals,
     memoryVars, journalVars, historyVars
<1>4. CASE Report
  BY <1>4, IdsFacts DEF Report, RecordEvent, Idle, EventOutcome, NoLocals,
     memoryVars, flagVars, journalVars, historyVars
<1>5. CASE Execute
  BY <1>5, IdsFacts DEF Execute, memoryVars, localVars, flagVars, journalVars,
     historyVars
<1>6. CASE ResumeDrain
  BY <1>6, IdsFacts DEF ResumeDrain, Resumable, localVars, memoryVars,
     flagVars, journalVars, historyVars
<1>7. CASE Recover
  BY <1>7, IdsFacts DEF Recover, localVars, memoryVars, journalVars,
     historyVars
<1>8. CASE AdoptProtected
  BY <1>8, IdsFacts DEF AdoptProtected, Restorable, flagVars, journalVars,
     historyVars
<1>9. CASE AdoptRefused
  BY <1>9, IdsFacts DEF AdoptRefused, controlVars, memoryVars, flagVars,
     journalVars, historyVars, localVars
<1>10. CASE Stop
  BY <1>10, IdsFacts DEF Stop, controlVars, memoryVars, flagVars, journalVars,
     historyVars, localVars
<1>11. CASE Crash
  <2>1. life' # 1 /\ \A c \in Ids : cache'[c].status = "absent"
    BY <1>11 DEF Crash, NoOrder
  <2>2. QED BY <2>1, <1>11, IdsFacts DEF Crash, Idle, NoLocals, journalVars
<1>12. CASE EnvironmentStep
  <2>1. OrderStep
    BY <1>12, BrokerKeeps DEF EnvironmentStep
  <2>2. QED BY <2>1, <1>12, IdsFacts
       DEF OrderStep, EnvironmentStep, executorVars, controlVars, memoryVars,
           flagVars, journalVars, historyVars, localVars
<1> QED BY <1>1, <1>2, <1>3, <1>4, <1>5, <1>6, <1>7, <1>8, <1>9, <1>10,
     <1>11, <1>12 DEF OtherStep, CallStep, ExecuteStep, ApiCall

LEMMA OthersNotLive ==
  ASSUME TypeInv, Control, Memory, Ledger, Settled, pc = "post"
  PROVE  \A d \in Ids : d # cur => ~Live(d)
<1> SUFFICES ASSUME NEW d \in Ids, d # cur, Live(d) PROVE FALSE
  OBVIOUS
<1>1. Owner /\ liveOwned /\ cur \in Ids
  BY DEF Control, Owner, Sending, TypeInv, TypeOK
<1>2. posts[d] > 0
  BY DEF Ledger, Live, WorkingStatus, TypeInv, TypeOK
<1>3. d \in attempted
  BY <1>1, <1>2 DEF Ledger
<1>4. ~Terminal(d)
  BY DEF Settled, Live, Terminal, TerminalStatus, WorkingStatus
<1>5. CASE call = "entry"
  BY <1>3, <1>5 DEF Control, Memory, Sending
<1>6. CASE call \in {"protect", "hold"}
  BY <1>3, <1>4, <1>6 DEF Control, Memory, Settled, Sending
<1>7. CASE call = "sell"
  BY <1>1, <1>3, <1>4, <1>7 DEF Settled, Sending, Ids
<1>8. QED BY <1>5, <1>6, <1>7 DEF TypeInv, Bounds

LEMMA AfterTerminalSettled ==
  ASSUME TypeInv, Control, Settled, pc \in {"term", "poll"}, Terminal(cur),
         AfterTerminal,
         UNCHANGED <<order, mode, call, cache, attempted>>
  PROVE  Settled'
<1> USE DEF Owner, Sending, Selling, Terminal
<1>1. pc' \in {"drain", "decide", "reconcile", "residual"}
  BY AfterTerminalControl
<1>2. pc' # "drain" => Terminal(Entry)
  BY AfterTerminalControl, IdsFacts DEF Settled, Control, TypeInv, Bounds
<1>3. Owner' => Owner
  OBVIOUS
<1>4. Owner' /\ pc' = "reconcile" => DoneBelow(cur)' /\ call # "sell"
  <2> SUFFICES ASSUME Owner', pc' = "reconcile", NEW d \in Exits, d < cur',
                      d \in attempted
               PROVE  Terminal(d)
    BY AfterTerminalControl DEF DoneBelow
  <2>1. DoneBelow(cur) /\ cur' = cur + 1 /\ cur \in Exits
    <3>1. call = "reconcile" /\ cur # NExits
      BY AfterTerminalControl DEF AfterTerminal
    <3>2. cur \in Exits
      BY <3>1 DEF Control, TypeInv, TypeOK, Ids, Entry
    <3>3. cur' = cur + 1
      BY <3>1, <3>2, ConstantFacts DEF AfterTerminal, Exits
    <3>4. QED BY <1>3, <3>1, <3>2, <3>3 DEF Settled
  <2>2. d < cur \/ d = cur
    BY <2>1 DEF Exits
  <2>3. QED BY <2>1, <2>2 DEF DoneBelow
<1>5. Owner' /\ pc' = "residual" => DoneBelow(NExits + 1)'
  <2> SUFFICES ASSUME Owner', pc' = "residual", NEW d \in Exits,
                      d \in attempted, d # cur
               PROVE  Terminal(d)
    BY DEF DoneBelow
  <2>1. CASE call = "sell"
    BY <1>3, <2>1 DEF Settled
  <2>2. CASE call = "reconcile"
    <3>1. DoneBelow(cur) /\ cur = NExits
      BY <1>3, <2>2 DEF AfterTerminal, Settled
    <3>2. d < cur
      BY <3>1, ConstantFacts DEF Exits
    <3>3. QED BY <3>1, <3>2 DEF DoneBelow
  <2>3. QED BY <2>1, <2>2, AfterTerminalControl
<1>6. OneLiveOrder'
  BY DEF Settled, OneLiveOrder, Live
<1>7. QED BY <1>1, <1>2, <1>4, <1>5, <1>6 DEF Settled, DoneBelow

LEMMA SettledSendStep ==
  ASSUME TypeInv, Control, Memory, Ledger, Settled, SendStep
  PROVE  Settled'
<1> USE DEF Control, Memory, Ledger, Settled, OneLiveOrder, Terminal, Live,
        DoneBelow, Owner, Sending, Adopting, Selling, TypeInv, TypeOK,
        BrokerTypeOK, brokerVars
<1>1. CASE IntentBlocked
  BY <1>1, IdsFacts DEF IntentBlocked, EntryBlocked, Idle, NoLocals,
     memoryVars, historyVars
<1>2. CASE IntentRecorded
  BY <1>2, IdsFacts DEF IntentRecorded, Recorded, memoryVars, localVars,
     flagVars, historyVars
<1>3. CASE EntryIntentLost
  BY <1>3, IdsFacts DEF EntryIntentLost, Landed, StorageFailure, EntryBlocked,
     Idle, NoLocals, memoryVars, historyVars
<1>4. CASE SwingExitIntentLost
  BY <1>4, IdsFacts DEF SwingExitIntentLost, Landed, Raise, Idle, NoLocals,
     memoryVars, historyVars
<1>5. CASE IntentBestEffort
  BY <1>5, IdsFacts DEF IntentBestEffort, RecordEvent, Landed, EventOutcome,
     memoryVars, localVars, flagVars, historyVars
<1>6. CASE RecheckBlocked
  BY <1>6, IdsFacts DEF RecheckBlocked, EntryBlocked, Idle, NoLocals,
     memoryVars, historyVars
<1>7. CASE RecheckPassed
  BY <1>7, IdsFacts DEF RecheckPassed, localVars, flagVars, journalVars,
     historyVars
<1>8. CASE Post
  <2>1. \A d \in Ids : d # cur => order'[d] = order[d] /\ ~Live(d)
    BY <1>8, OthersNotLive DEF Post, SubmitOrder
  <2>2. OneLiveOrder'
    BY <2>1
  <2>3. ~Terminal(cur)
    BY <1>8 DEF Post, Ledger, Cached, TerminalStatus
  <2>4. \A c \in Ids : Terminal(c)' => order'[c] = cache'[c]
    BY <1>8, <2>1, <2>3 DEF Post, memoryVars
  <2>5. QED BY <1>8, <2>2, <2>4 DEF Post, localVars, memoryVars, flagVars
<1>9. CASE NotSubmitted
  BY <1>9, IdsFacts DEF NotSubmitted, RecordEvent, NoLocals, EventOutcome,
     journalVars, historyVars
<1>10. CASE AckLost
  BY <1>10, IdsFacts DEF AckLost, memoryVars, localVars, flagVars,
     journalVars, historyVars
<1>11. CASE SendReturns
  BY <1>11, IdsFacts DEF SendReturns, Validate, RecordEvent, EventOutcome,
     flagVars, journalVars, historyVars
<1>12. CASE StopNotAccepted
  BY <1>12, IdsFacts DEF StopNotAccepted, EventOutcome, Raise, Idle, NoLocals,
     journalVars, historyVars
<1>13. CASE StillAmbiguous
  BY <1>13, IdsFacts DEF StillAmbiguous, Fail, Raise, Idle, NoLocals,
     memoryVars, journalVars, historyVars
<1> QED BY <1>1, <1>2, <1>3, <1>4, <1>5, <1>6, <1>7, <1>8, <1>9, <1>10,
     <1>11, <1>12, <1>13 DEF SendStep

LEMMA SettledTerminalStep ==
  ASSUME TypeInv, Control, Memory, Ledger, Settled, TerminalStep
  PROVE  Settled'
<1> USE DEF Control, Memory, Ledger, Settled, OneLiveOrder, Terminal, Live,
        DoneBelow, Owner, Sending, Adopting, Selling, TypeInv, TypeOK,
        BrokerTypeOK, brokerVars
<1>1. CASE TerminalAlready
  BY <1>1, AfterTerminalSettled DEF TerminalAlready, memoryVars
<1>2. CASE StartPolling
  <2>1. OrderStep
    BY <1>2, CancelKeeps DEF StartPolling, OrderStep, Live
  <2>2. QED BY <2>1, <1>2, IdsFacts
       DEF OrderStep, StartPolling, memoryVars, flagVars, journalVars,
           historyVars
<1>3. CASE Poll
  BY <1>3, IdsFacts DEF Poll, Validate, RecordEvent, EventOutcome, flagVars,
     journalVars, historyVars
<1>4. CASE PolledTerminal
  BY <1>4, AfterTerminalSettled DEF PolledTerminal, memoryVars
<1>5. CASE CancelAfterPolls
  <2>1. OrderStep
    BY <1>5, CancelKeeps DEF CancelAfterPolls, OrderStep, Live
  <2>2. QED BY <2>1, <1>5, IdsFacts
       DEF OrderStep, CancelAfterPolls, memoryVars, flagVars, journalVars,
           historyVars
<1>6. CASE StillWorking
  BY <1>6, IdsFacts DEF StillWorking, Fail, Raise, Idle, NoLocals, memoryVars,
     journalVars, historyVars
<1> QED BY <1>1, <1>2, <1>3, <1>4, <1>5, <1>6 DEF TerminalStep

LEMMA SettledDrainStep ==
  ASSUME TypeInv, Control, Memory, Ledger, Settled, DrainStep
  PROVE  Settled'
<1> USE DEF Control, Memory, Ledger, Settled, OneLiveOrder, Terminal, Live,
        DoneBelow, Owner, Sending, Adopting, Selling, TypeInv, TypeOK,
        BrokerTypeOK, brokerVars
<1>1. CASE EntryAbsent
  BY <1>1, IdsFacts DEF EntryAbsent, Fail, Raise, Idle, NoLocals, memoryVars,
     journalVars, historyVars
<1>2. CASE EntryFound
  BY <1>2, IdsFacts DEF EntryFound, Validate, RecordEvent, EventOutcome,
     flagVars, journalVars, historyVars
<1>3. CASE HoldPosition
  BY <1>3, IdsFacts DEF HoldPosition, Holds, AllowHold, memoryVars, flagVars,
     journalVars, historyVars
<1>4. CASE DrainRecorded
  BY ConstantFacts, <1>4, IdsFacts
     DEF Exits, DrainRecorded, Recorded, memoryVars, flagVars, historyVars
<1>5. CASE DrainNotRecorded
  BY <1>5, IdsFacts DEF DrainNotRecorded, Landed, Raise, Idle, NoLocals,
     memoryVars, historyVars
<1>6. CASE ExitFound
  <2>1. \A d \in Exits : d < cur => d # cur
    BY <1>6 DEF Exits
  <2>2. QED BY <2>1, <1>6, IdsFacts DEF ExitFound, Validate, RecordEvent, EventOutcome,
       flagVars, journalVars, historyVars
<1>7. CASE ExitMayExist
  BY <1>7, IdsFacts DEF ExitMayExist, Fail, Raise, Idle, NoLocals, memoryVars,
     journalVars, historyVars
<1>8. CASE ExitUnused
  <2>1. cur \notin attempted /\ cur \in Exits
    BY <1>8 DEF ExitUnused, MayExist
  <2>2. \A d \in Exits :
          /\ d < cur + 1 /\ d \in attempted => d < cur
          /\ cur = NExits /\ d \in attempted => d < cur
    BY <2>1, ConstantFacts DEF Exits
  <2>3. QED BY <2>1, <2>2, <1>8, IdsFacts
       DEF ExitUnused, memoryVars, flagVars, journalVars, historyVars
<1>9. CASE NothingLeft
  BY <1>9, IdsFacts DEF NothingLeft, localVars, memoryVars, flagVars,
     journalVars, historyVars
<1>10. CASE SellRefused
  BY <1>10, IdsFacts DEF SellRefused, Fail, Raise, Idle, NoLocals, memoryVars,
     journalVars, historyVars
<1>11. CASE OrdersChecked
  BY <1>11, IdsFacts DEF OrdersChecked, localVars, memoryVars, flagVars,
     journalVars, historyVars
<1>12. CASE PositionDiffers
  BY <1>12, IdsFacts DEF PositionDiffers, Fail, Raise, Idle, NoLocals,
     memoryVars, journalVars, historyVars
<1>13. CASE SellResidual
  <2>1. \A d \in Exits : d < NExits + 1
    BY ConstantFacts DEF Exits
  <2>2. QED BY <2>1, <1>13, IdsFacts
       DEF SellResidual, UnusedExits, memoryVars, flagVars, journalVars,
           historyVars
<1>14. CASE Flat
  BY <1>14, IdsFacts DEF Flat, NoLocals, memoryVars, journalVars, historyVars
<1>15. CASE NotFlat
  BY <1>15, IdsFacts DEF NotFlat, Fail, Raise, Idle, NoLocals, memoryVars,
     journalVars, historyVars
<1> QED BY <1>1, <1>2, <1>3, <1>4, <1>5, <1>6, <1>7, <1>8, <1>9, <1>10,
     <1>11, <1>12, <1>13, <1>14, <1>15 DEF DrainStep

LEMMA SettledHoldStep ==
  ASSUME TypeInv, Control, Memory, Ledger, Settled, HoldStep
  PROVE  Settled'
<1> USE DEF Control, Memory, Ledger, Settled, OneLiveOrder, Terminal, Live,
        DoneBelow, Owner, Sending, Adopting, Selling, TypeInv, TypeOK,
        BrokerTypeOK, brokerVars
<1>1. CASE HoldEnds
  BY ConstantFacts, <1>1, IdsFacts
     DEF Exits, HoldEnds, EventOutcome, memoryVars, flagVars, journalVars,
         historyVars
<1>2. CASE HoldChecks
  BY ConstantFacts, <1>2, IdsFacts
     DEF Exits, HoldChecks, Validate, RecordEvent, EventOutcome, localVars,
         flagVars, journalVars, historyVars
<1>3. CASE HoldRaises
  BY <1>3, IdsFacts DEF HoldRaises, EventOutcome, Raise, Idle, NoLocals,
     journalVars, historyVars
<1> QED BY <1>1, <1>2, <1>3 DEF HoldStep

LEMMA SettledProtectionStep ==
  ASSUME TypeInv, Control, Memory, Ledger, Settled, ProtectionStep
  PROVE  Settled'
<1> USE DEF Control, Memory, Ledger, Settled, OneLiveOrder, Terminal, Live,
        DoneBelow, Owner, Sending, Adopting, Selling, TypeInv, TypeOK,
        BrokerTypeOK, brokerVars
<1>1. CASE VerifyOrder
  BY <1>1, IdsFacts DEF VerifyOrder, Validate, RecordEvent, EventOutcome,
     flagVars, journalVars, historyVars
<1>2. CASE Protected
  BY <1>2, IdsFacts DEF Protected, NoLocals, memoryVars, flagVars,
     journalVars, historyVars
<1>3. CASE NotProtected
  BY <1>3, IdsFacts DEF NotProtected, Fail, Raise, Idle, NoLocals, memoryVars,
     journalVars, historyVars
<1>4. CASE AdoptIntent
  BY <1>4, IdsFacts DEF AdoptIntent, Validate, RecordEvent, EventOutcome,
     flagVars, journalVars, historyVars
<1>5. CASE AdoptAbsent
  BY <1>5, IdsFacts DEF AdoptAbsent, Fail, Raise, Idle, NoLocals, memoryVars,
     journalVars, historyVars
<1>6. CASE AdoptionRecorded
  BY <1>6, IdsFacts DEF AdoptionRecorded, Recorded, Idle, NoLocals,
     memoryVars, journalVars, historyVars
<1>7. CASE AdoptionNotRecorded
  BY <1>7, IdsFacts DEF AdoptionNotRecorded, Raise, Idle, NoLocals,
     memoryVars, journalVars, historyVars
<1> QED BY <1>1, <1>2, <1>3, <1>4, <1>5, <1>6, <1>7 DEF ProtectionStep

LEMMA SettledOtherStep ==
  ASSUME TypeInv, Control, Memory, Ledger, Settled, OtherStep
  PROVE  Settled'
<1> USE DEF Control, Memory, Ledger, Settled, OneLiveOrder, Terminal, Live,
        DoneBelow, Owner, Sending, Adopting, Selling, TypeInv, TypeOK,
        BrokerTypeOK, brokerVars
<1>1. CASE PlanRefused
  BY <1>1, IdsFacts DEF PlanRefused, Landed, StorageFailure, Idle, NoLocals,
     memoryVars, flagVars, historyVars
<1>2. CASE PlanRecorded
  BY <1>2, IdsFacts DEF PlanRecorded, Recorded, memoryVars, historyVars
<1>3. CASE ReadFails
  BY <1>3, IdsFacts DEF ReadFails, ReadSteps, Fail, Raise, Idle, NoLocals,
     memoryVars, journalVars, historyVars
<1>4. CASE Report
  BY <1>4, IdsFacts DEF Report, RecordEvent, Idle, EventOutcome, NoLocals,
     memoryVars, flagVars, journalVars, historyVars
<1>5. CASE Execute
  BY <1>5, IdsFacts DEF Execute, memoryVars, localVars, flagVars, journalVars,
     historyVars
<1>6. CASE ResumeDrain
  BY <1>6, IdsFacts DEF ResumeDrain, Resumable, localVars, memoryVars,
     flagVars, journalVars, historyVars
<1>7. CASE Recover
  BY <1>7, IdsFacts DEF Recover, localVars, memoryVars, journalVars,
     historyVars
<1>8. CASE AdoptProtected
  BY <1>8, IdsFacts DEF AdoptProtected, flagVars, journalVars, historyVars
<1>9. CASE AdoptRefused
  BY <1>9, IdsFacts DEF AdoptRefused, controlVars, memoryVars, flagVars,
     journalVars, historyVars, localVars
<1>10. CASE Stop
  BY <1>10, IdsFacts DEF Stop, controlVars, memoryVars, flagVars, journalVars,
     historyVars, localVars
<1>11. CASE Crash
  <2>1. \A c \in Ids : ~Terminal(c)'
    BY <1>11 DEF Crash, NoOrder, TerminalStatus
  <2>2. QED BY <2>1, <1>11, IdsFacts DEF Crash, Idle, NoLocals, journalVars
<1>12. CASE EnvironmentStep
  <2>1. OrderStep
    BY <1>12, BrokerKeeps DEF EnvironmentStep
  <2>2. QED BY <2>1, <1>12, IdsFacts
       DEF OrderStep, EnvironmentStep, executorVars, controlVars, memoryVars,
           flagVars, journalVars, historyVars, localVars
<1> QED BY <1>1, <1>2, <1>3, <1>4, <1>5, <1>6, <1>7, <1>8, <1>9, <1>10,
     <1>11, <1>12 DEF OtherStep, CallStep, ExecuteStep, ApiCall

-----------------------------------------------------------------------------
LEMMA InitIInv == Init => IInv
<1> SUFFICES ASSUME Init PROVE IInv
  OBVIOUS
<1>1. TypeInv
  BY InitType
<1>2. Control /\ Memory
  BY DEF Init, Control, Memory, Owner, Sending, Adopting, Selling
<1>3. \A c \in Ids : /\ order[c].status = "absent" /\ cache[c].status = "absent"
                     /\ posts[c] = 0
  BY DEF Init, BrokerInit, NoOrder
<1>4. Ledger
  BY <1>3 DEF Init, Ledger, Cached, IntentsAreDurable, NeverReposted
<1>5. Settled
  BY <1>3 DEF Init, Settled, Terminal, TerminalStatus, Live, WorkingStatus,
              OneLiveOrder, Owner, Sending, Selling
<1>6. QED BY <1>1, <1>2, <1>4, <1>5 DEF IInv

LEMMA NextIInv == IInv /\ [Next]_vars => IInv'
<1> SUFFICES ASSUME IInv, [Next]_vars PROVE IInv'
  OBVIOUS
<1> USE DEF IInv
<1>1. TypeInv'
  BY NextType
<1>2. CASE Next
  <2>1. \/ SendStep \/ TerminalStep \/ DrainStep \/ HoldStep
        \/ ProtectionStep \/ OtherStep
    BY <1>2 DEF Next, ExecutorStep, OtherStep, CallStep
  <2>2. Control'
    BY <2>1, ControlSendStep, ControlTerminalStep, ControlDrainStep,
       ControlHoldStep, ControlProtectionStep, ControlOtherStep
  <2>3. Memory'
    BY <2>1, MemorySendStep, MemoryTerminalStep, MemoryDrainStep,
       MemoryHoldStep, MemoryProtectionStep, MemoryOtherStep
  <2>4. Ledger'
    BY <2>1, LedgerSendStep, LedgerTerminalStep, LedgerDrainStep,
       LedgerHoldStep, LedgerProtectionStep, LedgerOtherStep
  <2>5. Settled'
    BY <2>1, SettledSendStep, SettledTerminalStep, SettledDrainStep,
       SettledHoldStep, SettledProtectionStep, SettledOtherStep
  <2>6. QED BY <1>1, <2>2, <2>3, <2>4, <2>5
<1>3. CASE UNCHANGED vars
  <2>1. Control' /\ Memory'
    BY <1>3 DEF vars, Control, Memory, Owner
  <2>2. Ledger'
    BY <1>3 DEF vars, Ledger, Cached, MustBeDurable, IntentsAreDurable,
                NeverReposted
  <2>3. Settled'
    BY <1>3 DEF vars, Settled, Terminal, DoneBelow, Owner, OneLiveOrder, Live
  <2>4. QED BY <1>1, <2>1, <2>2, <2>3
<1>4. QED BY <1>2, <1>3

\* The four layers hold in every reachable state.
THEOREM InductiveInvariant == Spec => []IInv
BY InitIInv, NextIInv, PTL DEF Spec

\* For every number of exit IDs, quantity, poll limit and number of crashes: no
\* client ID is ever POSTed twice.
THEOREM NoRepost == Spec => []NeverReposted
<1>1. IInv => NeverReposted
  BY DEF IInv, Ledger
<1>2. QED BY <1>1, InductiveInvariant, PTL

\* _send is only ever entered with an ID no process of the plan has attempted,
\* as far as this process can know.
THEOREM FreshSends == Spec => []SendsAreFresh
<1>1. IInv => SendsAreFresh
  BY DEF IInv, Memory, SendsAreFresh
<1>2. QED BY <1>1, InductiveInvariant, PTL

\* Every order of a swing plan, and the entry of every plan, is in the journal
\* before its POST.
THEOREM DurableIntents == Spec => []IntentsAreDurable
<1>1. IInv => IntentsAreDurable
  BY DEF IInv, Ledger
<1>2. QED BY <1>1, InductiveInvariant, PTL

\* Entry, stop and exits never overlap in the market, whatever the broker does
\* with acknowledgments, cancels and fills.
THEOREM NoOverlap == Spec => []OneLiveOrder
<1>1. IInv => OneLiveOrder
  BY DEF IInv, Settled
<1>2. QED BY <1>1, InductiveInvariant, PTL

LEMMA OnlyPostPosts ==
  ASSUME Next, posts' # posts
  PROVE  Post
<1>1. CASE SendStep
  BY <1>1 DEF SendStep, IntentBlocked, EntryBlocked, historyVars,
     IntentRecorded, EntryIntentLost, SwingExitIntentLost, IntentBestEffort,
     RecheckBlocked, RecheckPassed, NotSubmitted, AckLost, SendReturns,
     StopNotAccepted, StillAmbiguous, Fail
<1>2. CASE TerminalStep
  BY <1>2 DEF TerminalStep, TerminalAlready, historyVars, StartPolling, Poll,
     PolledTerminal, CancelAfterPolls, StillWorking, Fail
<1>3. CASE DrainStep
  BY <1>3 DEF DrainStep, EntryAbsent, Fail, historyVars, EntryFound,
     HoldPosition, DrainRecorded, DrainNotRecorded, ExitFound, ExitMayExist,
     ExitUnused, NothingLeft, SellRefused, OrdersChecked, PositionDiffers,
     SellResidual, Flat, NotFlat
<1>4. CASE HoldStep
  BY <1>4 DEF HoldStep, HoldEnds, historyVars, HoldChecks, HoldRaises
<1>5. CASE ProtectionStep
  BY <1>5 DEF ProtectionStep, VerifyOrder, historyVars, Protected,
     NotProtected, Fail, AdoptIntent, AdoptAbsent, AdoptionRecorded,
     AdoptionNotRecorded
<1>6. CASE OtherStep
  BY <1>6
     DEF OtherStep, CallStep, ExecuteStep, ApiCall, PlanRefused, historyVars,
         PlanRecorded, ReadFails, Fail, Report, Execute, ResumeDrain, Recover,
         AdoptProtected, AdoptRefused, Stop, Crash, EnvironmentStep,
         executorVars
<1>7. QED BY <1>1, <1>2, <1>3, <1>4, <1>5, <1>6
     DEF Next, ExecutorStep, OtherStep, CallStep

\* recover() submits nothing: the step before a POST belongs to another call.
THEOREM RecoverIsReadOnly == Spec => RecoverNeverSubmits
<1>1. IInv /\ [Next]_vars => [mode = "recover" => posts' = posts]_vars
  <2> SUFFICES ASSUME IInv, Next, mode = "recover", posts' # posts
               PROVE  FALSE
    BY DEF vars
  <2>1. pc = "post"
    BY OnlyPostPosts DEF Post
  <2>2. QED BY <2>1 DEF IInv, Control, Sending
<1>2. QED BY <1>1, InductiveInvariant, PTL DEF Spec, RecoverNeverSubmits

-----------------------------------------------------------------------------
(* Stops and storage.                                                      *)

\* A process whose entries are blocked, unless the entry's POST is already
\* leaving, or one that came after the first.
Stopped ==
  \/ blocked /\ ~(pc = "post" /\ cur = Entry)
  \/ life > 1 /\ pc # "plan" /\ ~(pc \in {"intent", "recheck", "post"} /\ cur = Entry)

\* What a step may do to the flag and to the entry's way to its POST.
LEMMA StoppedStays ==
  ASSUME TypeInv, Stopped, Next
  PROVE  Stopped' /\ posts'[Entry] = posts[Entry]
<1>1. /\ life \in Nat /\ life >= 1 /\ blocked \in BOOLEAN /\ cur \in Nat /\ NExits \in Nat
      /\ pc \in {"term", "poll"} => call \in {"ack", "drain", "reconcile", "sell"}
  BY NExitsAssumption DEF TypeInv, TypeOK, Bounds, Ids, Entry, Exits
<1>2. Entry \notin Exits
  BY DEF Exits, Entry
<1>3. CASE SendStep
  <2>1. CASE IntentBlocked \/ RecheckBlocked
    BY <1>1, <1>2, <2>1 DEF Stopped, IntentBlocked, RecheckBlocked, EntryBlocked, Idle, NoLocals, historyVars
  <2>2. CASE EntryIntentLost
    BY <1>1, <1>2, <2>2 DEF Stopped, EntryIntentLost, EntryBlocked, StorageFailure, Idle, NoLocals, historyVars
  <2>3. CASE IntentRecorded
    BY <1>1, <1>2, <2>3 DEF Stopped, IntentRecorded, historyVars, localVars
  <2>4. CASE SwingExitIntentLost
    BY <1>1, <1>2, <2>4 DEF Stopped, SwingExitIntentLost, Fail, Raise, Idle, NoLocals, historyVars, localVars
  <2>5. CASE IntentBestEffort
    BY <1>1, <1>2, <2>5 DEF Stopped, IntentBestEffort, RecordEvent, MustBeDurable, historyVars, localVars
  <2>6. CASE RecheckPassed
    BY <1>1, <1>2, <2>6 DEF Stopped, RecheckPassed, historyVars, localVars
  <2>7. CASE Post
    BY <1>1, <1>2, <2>7 DEF Stopped, Post, localVars
  <2>8. CASE NotSubmitted
    BY <1>1, <1>2, <2>8 DEF Stopped, NotSubmitted, RecordEvent, NoLocals, historyVars
  <2>9. CASE AckLost
    BY <1>1, <1>2, <2>9 DEF Stopped, AckLost, historyVars, localVars
  <2>10. CASE SendReturns
    BY <1>1, <1>2, <2>10 DEF Stopped, SendReturns, Validate, RecordEvent, historyVars, localVars
  <2>11. CASE StopNotAccepted
    BY <1>1, <1>2, <2>11 DEF Stopped, StopNotAccepted, Fail, Raise, Idle, NoLocals, historyVars, localVars
  <2>12. CASE StillAmbiguous
    BY <1>1, <1>2, <2>12 DEF Stopped, StillAmbiguous, Fail, Raise, Idle, NoLocals, historyVars, localVars
  <2>13. QED BY <1>3, <2>1, <2>2, <2>3, <2>4, <2>5, <2>6, <2>7, <2>8, <2>9, <2>10, <2>11, <2>12 DEF SendStep
<1>4. CASE TerminalStep
  <2>1. CASE TerminalAlready \/ PolledTerminal
    BY <1>1, <1>2, <2>1 DEF Stopped, TerminalAlready, PolledTerminal, AfterTerminal, historyVars
  <2>2. CASE StartPolling
    BY <1>1, <1>2, <2>2 DEF Stopped, StartPolling, historyVars
  <2>3. CASE Poll
    BY <1>1, <1>2, <2>3 DEF Stopped, Poll, Validate, RecordEvent, historyVars, localVars
  <2>4. CASE CancelAfterPolls
    BY <1>1, <1>2, <2>4 DEF Stopped, CancelAfterPolls, historyVars
  <2>5. CASE StillWorking
    BY <1>1, <1>2, <2>5 DEF Stopped, StillWorking, Fail, Raise, Idle, NoLocals, historyVars, localVars
  <2>6. QED BY <1>4, <2>1, <2>2, <2>3, <2>4, <2>5 DEF TerminalStep
<1>5. CASE DrainStep
  <2>1. CASE EntryAbsent \/ ExitMayExist \/ SellRefused \/ PositionDiffers \/ NotFlat
    BY <1>1, <1>2, <2>1 DEF Stopped, EntryAbsent, ExitMayExist, SellRefused, PositionDiffers, NotFlat, Fail, Raise, Idle, NoLocals, historyVars, localVars
  <2>2. CASE EntryFound
    BY <1>1, <1>2, <2>2 DEF Stopped, EntryFound, Validate, RecordEvent, historyVars, localVars
  <2>3. CASE HoldPosition
    BY <1>1, <1>2, <2>3 DEF Stopped, HoldPosition, Entry, historyVars
  <2>4. CASE DrainRecorded
    BY <1>1, <1>2, <2>4 DEF Stopped, DrainRecorded, historyVars
  <2>5. CASE DrainNotRecorded
    BY <1>1, <1>2, <2>5 DEF Stopped, DrainNotRecorded, Fail, Raise, Idle, NoLocals, historyVars, localVars
  <2>6. CASE ExitFound
    BY <1>1, <1>2, <2>6 DEF Stopped, ExitFound, Validate, RecordEvent, historyVars, localVars
  <2>7. CASE ExitUnused \/ NothingLeft \/ OrdersChecked
    BY <1>1, <1>2, <2>7 DEF Stopped, ExitUnused, NothingLeft, OrdersChecked, historyVars, localVars
  <2>8. CASE SellResidual
    BY <1>1, <1>2, <2>8 DEF Stopped, SellResidual, UnusedExits, historyVars
  <2>9. CASE Flat
    BY <1>1, <1>2, <2>9 DEF Stopped, Flat, NoLocals, historyVars
  <2>10. QED BY <1>5, <2>1, <2>2, <2>3, <2>4, <2>5, <2>6, <2>7, <2>8, <2>9 DEF DrainStep
<1>6. CASE HoldStep
  BY <1>1, <1>2, <1>6
     DEF Stopped, HoldStep, HoldEnds, HoldChecks, HoldRaises, NoLocals, Raise, Idle, RecordEvent, Validate,
         historyVars, localVars
<1>7. CASE ProtectionStep
  BY <1>1, <1>2, <1>7
     DEF Stopped, ProtectionStep, VerifyOrder, Protected, NotProtected, AdoptIntent, AdoptAbsent, AdoptionRecorded,
         AdoptionNotRecorded, NoLocals, Raise, Fail, Idle, RecordEvent, Validate, historyVars, localVars
<1>8. CASE ExecuteStep \/ ReadFails \/ Report
  BY <1>1, <1>2, <1>8
     DEF Stopped, ExecuteStep, PlanRefused, PlanRecorded, ReadFails, Report, NoLocals, Raise, Fail, Idle, RecordEvent,
         StorageFailure, historyVars, localVars
<1>9. CASE ApiCall
  BY <1>1, <1>2, <1>9
     DEF Stopped, ApiCall, Execute, ResumeDrain, Recover, AdoptProtected, AdoptRefused, historyVars, localVars, controlVars
<1>10. CASE Stop \/ Crash \/ EnvironmentStep
  <2>1. CASE Stop
    BY <1>1, <2>1 DEF Stopped, Stop, historyVars, localVars, controlVars
  <2>2. CASE Crash
    <3>1. life' = life + 1 /\ pc' = "idle" /\ posts' = posts
      BY <2>2 DEF Crash, Idle
    <3>2. QED BY <1>1, <3>1 DEF Stopped
  <2>3. CASE EnvironmentStep
    BY <1>1, <2>3 DEF Stopped, EnvironmentStep, executorVars, historyVars, localVars, controlVars
  <2>4. QED BY <1>10, <2>1, <2>2, <2>3
<1>11. QED BY <1>3, <1>4, <1>5, <1>6, <1>7, <1>8, <1>9, <1>10 DEF Next, ExecutorStep

\* Once stop() was called no entry leaves, in this process or in any that comes
\* after it, unless the entry's POST was already on its way: an entry whose
\* intent is being written is still held back.
THEOREM StopsAreFinal == Spec => StopIsFinal
<1>1. ASSUME NEW n \in {0, 1}
      PROVE  Spec => [](blocked /\ pc # "post" /\ posts[Entry] = n => [](posts[Entry] = n))
  <2>1. TypeInv /\ (Stopped /\ posts[Entry] = n) /\ [Next]_vars => (Stopped /\ posts[Entry] = n)'
    <3> SUFFICES ASSUME TypeInv, Stopped, posts[Entry] = n, [Next]_vars
                 PROVE  (Stopped /\ posts[Entry] = n)'
      OBVIOUS
    <3>1. CASE Next
      BY <3>1, StoppedStays
    <3>2. CASE UNCHANGED vars
      BY <3>2 DEF vars, Stopped, controlVars, historyVars, localVars
    <3>3. QED BY <3>1, <3>2
  <2>2. blocked /\ pc # "post" => Stopped
    BY DEF Stopped
  <2>3. QED BY <2>1, <2>2, TypeInvariant, PTL DEF Spec
<1>2. QED BY <1>1 DEF StopIsFinal

-----------------------------------------------------------------------------
(* Positions and answers. *)

ExitFills == [c \in 1..NExits |-> order[c].filled]

\* Shares that exits 1..n have sold at the broker.
SoldUpTo(n) == Sums(ExitFills, NExits)[n]

\* An exit in the market always offers exactly what is held: a stop covers all
\* of it, a market exit sells all of it, and nothing else can trade meanwhile.
Market ==
  /\ \A c \in Ids : order[c].status = "absent" => order[c].filled = 0
  /\ position = order[Entry].filled - SoldUpTo(NExits)
  /\ position >= 0
  /\ \A c \in Exits : Live(c) =>
       position > 0 /\ order[c].qty - order[c].filled = position
  /\ \A c \in Ids : /\ cache[c].filled <= order[c].filled
                    /\ Cached(c) => cache[c].stop = order[c].stop

\* The calls that go over the exits, and have reached the one at hand.
AtExit == pc = "reconcile" \/ (pc \in {"term", "poll"} /\ call = "reconcile")
PastExits == pc \in {"residual", "position", "flatcheck"}
SellingOne == pc \in Sending \cup {"term", "poll"} /\ call = "sell"

\* recover() of a later process may have missed an exit, never counted one
\* that did not trade.
Tally ==
  /\ \/ pc \in {"plan", "adopt", "drain", "decide", "hold", "adopted"}
     \/ pc \in Sending \cup {"term", "poll"} /\ call \notin {"reconcile", "sell"}
     \/ pc = "idle"
     => sold = 0
  /\ AtExit => /\ sold <= SoldUpTo(cur - 1)
               /\ Owner => sold = SoldUpTo(cur - 1)
  /\ PastExits => /\ sold <= SoldUpTo(NExits)
                  /\ Owner => sold = SoldUpTo(NExits)
  /\ SellingOne => /\ mode \in {"execute", "resume"}
                   /\ sold + order[cur].filled = SoldUpTo(NExits)
  /\ pc = "flatcheck" => Residual = 0
  /\ pc \in {"intent", "recheck", "post"} /\ call \in {"protect", "hold"}
       => Acquired > 0

\* A swing plan's exits are only looked at with its drain request on record.
Announced ==
  /\ call = "hold" => ~swing
  /\ swing /\ (AtExit \/ PastExits \/ SellingOne) => jDrain

\* Orders a snapshot of the protection has looked at.
Seen ==
  /\ mode = "execute" /\ pc \in {"verify", "snapshot"}
       => attempted \subseteq {Entry, 1}
  /\ mode = "adopt" /\ pc = "adopt"
       => \A c \in jAttempts : c < cur => Cached(c)
  /\ mode = "adopt" /\ pc # "adopt" => \A c \in jAttempts : Cached(c)

NothingLive == \A c \in Ids : ~Live(c)
OnlyStopLive == \A c \in Ids : Live(c) => c \in Exits /\ order[c].stop

Answers ==
  /\ pc \notin {"idle", "report"} => result = "none"
  /\ result = "flat" => position = 0 /\ NothingLive
  /\ result = "holding_protected" \/ pc = "adopted" => OnlyStopLive

-----------------------------------------------------------------------------
(* What the broker has sold.                                               *)

LEMMA FillsType ==
  ASSUME TypeInv
  PROVE  /\ ExitFills \in [1..NExits -> Nat] /\ ExitFills \in [1..NExits -> Int]
         /\ NExits \in Nat
         /\ \A c \in 1..NExits : ExitFills[c] = order[c].filled
         /\ \A c \in Ids : /\ order[c].filled \in Nat /\ order[c].qty \in Nat
                           /\ cache[c].filled \in Nat
<1>1. \A c \in Ids : order[c] \in OrderRecord /\ cache[c] \in OrderRecord
  BY DEF TypeInv, TypeOK, BrokerTypeOK
<1>2. \A c \in Ids : /\ order[c].filled \in 0..Quantity
                     /\ order[c].qty \in 0..Quantity
                     /\ cache[c].filled \in 0..Quantity
  BY <1>1, OrderFields
<1>3. 1..NExits \subseteq Ids
  BY DEF Ids, Exits
<1>4. QED BY <1>2, <1>3, ConstantFacts DEF ExitFills

LEMMA SoldFacts ==
  ASSUME TypeInv
  PROVE  /\ SoldUpTo(0) = 0
         /\ \A n \in 0..NExits : SoldUpTo(n) \in Nat
         /\ \A n \in Exits : /\ SoldUpTo(n) = SoldUpTo(n - 1) + order[n].filled
                             /\ n - 1 \in 0..NExits /\ n \in 0..NExits
<1>1. IsSum(Sums(ExitFills, NExits), ExitFills, NExits)
  BY FillsType, SumsAre
<1>2. \A n \in 0..NExits : Sums(ExitFills, NExits)[n] \in Nat
  BY FillsType, SumsGrow
<1>3. \A n \in Exits : n - 1 \in 0..NExits /\ n \in 0..NExits
  BY ConstantFacts DEF Exits
<1>4. QED BY <1>1, <1>2, <1>3, FillsType DEF IsSum, SoldUpTo, Exits

\* Nothing sold by a later exit counts towards an earlier one.
LEMMA SoldGrows ==
  ASSUME TypeInv,
         NEW c \in Ids, NEW d \in Nat, order'[c].filled = order[c].filled + d,
         \A e \in Ids \ {c} : order'[e].filled = order[e].filled
  PROVE  \A n \in 0..NExits :
           Sums(ExitFills', NExits)[n] =
             IF c # Entry /\ c <= n THEN SoldUpTo(n) + d ELSE SoldUpTo(n)
<1>1. /\ ExitFills \in [1..NExits -> Int] /\ NExits \in Nat
      /\ \A k \in 1..NExits : ExitFills[k] = order[k].filled
  BY FillsType
<1>5. ExitFills' \in [1..NExits -> Int]
  BY <1>1 DEF ExitFills, Ids, Exits
<1>2. \A k \in 1..NExits :
        ExitFills'[k] = IF k = c THEN ExitFills[k] + d ELSE ExitFills[k]
  BY DEF ExitFills, Ids, Exits
<1>3. c \in Int /\ d \in Int /\ (1 <= c <=> c # Entry)
  BY ConstantFacts DEF Ids, Exits, Entry
<1>4. \A n \in 0..NExits :
        Sums(ExitFills', NExits)[n] =
          IF 1 <= c /\ c <= n THEN Sums(ExitFills, NExits)[n] + d
                              ELSE Sums(ExitFills, NExits)[n]
  <2> DEFINE f == ExitFills
             g == ExitFills'
  <2>1. /\ NExits \in Nat /\ f \in [1..NExits -> Int] /\ g \in [1..NExits -> Int]
        /\ c \in Int /\ d \in Int
        /\ \A k \in 1..NExits : g[k] = IF k = c THEN f[k] + d ELSE f[k]
    BY <1>1, <1>2, <1>3, <1>5
  <2> HIDE DEF f, g
  <2>2. \A n \in 0..NExits :
          Sums(g, NExits)[n] = IF 1 <= c /\ c <= n THEN Sums(f, NExits)[n] + d
                                                  ELSE Sums(f, NExits)[n]
    BY <2>1, SumsDiffer, ZenonT(60)
  <2>3. QED BY <2>2 DEF f, g
<1>6. QED BY <1>3, <1>4 DEF SoldUpTo

LEMMA SoldStays ==
  ASSUME \A c \in Ids : order'[c].filled = order[c].filled
  PROVE  \A n : Sums(ExitFills', NExits)[n] = SoldUpTo(n)
<1>1. ExitFills' = ExitFills
  BY DEF ExitFills, Ids, Exits
<1>2. QED BY <1>1 DEF SoldUpTo

-----------------------------------------------------------------------------
(* Market.                                                                 *)

\* A step that trades nothing: orders keep their quantities, none comes to
\* life, and memory only takes over what the broker has.
Tradeless ==
  /\ position' = position
  /\ \A c \in Ids :
       /\ order'[c].filled = order[c].filled /\ order'[c].qty = order[c].qty
       /\ order'[c].stop = order[c].stop
       /\ Live(c)' => Live(c)
       /\ order[c].status = "absent" <=> order'[c].status = "absent"
       /\ \/ cache'[c].filled = cache[c].filled
             /\ (Cached(c)' => Cached(c)) /\ cache'[c].stop = cache[c].stop
          \/ cache'[c] = order[c]
          \/ cache'[c] = NoOrder

LEMMA MarketTradeless ==
  ASSUME TypeInv, Market, Tradeless
  PROVE  Market'
<1>1. \A c \in Ids : order'[c].filled = order[c].filled
  BY DEF Tradeless
<1>2. SoldUpTo(NExits)' = SoldUpTo(NExits)
  BY <1>1, SoldStays DEF SoldUpTo
<1>3. Exits \subseteq Ids /\ Entry \in Ids
  BY IdsFacts
<1>4. \A c \in Ids : order'[c].status = "absent" => order'[c].filled = 0
  BY DEF Market, Tradeless
<1>5. \A c \in Exits : Live(c)' =>
        position' > 0 /\ order'[c].qty - order'[c].filled = position'
  BY <1>3 DEF Market, Tradeless
<1>6. \A c \in Ids : cache'[c].filled <= order'[c].filled
  BY FillsType DEF Market, Tradeless, NoOrder
<1>7. \A c \in Ids : Cached(c)' => cache'[c].stop = order'[c].stop
  BY DEF Market, Tradeless, NoOrder, Cached
<1>8. position' = order'[Entry].filled - SoldUpTo(NExits)' /\ position' >= 0
  BY <1>1, <1>2, <1>3 DEF Market, Tradeless
<1>9. QED BY <1>4, <1>5, <1>6, <1>7, <1>8 DEF Market

\* Nothing happens at the broker, and memory takes over what it has.
Quiet ==
  /\ order' = order /\ position' = position
  /\ \A c \in Ids : cache'[c] \in {cache[c], order[c], NoOrder}

LEMMA QuietTradeless == Quiet => Tradeless
BY DEF Quiet, Tradeless, Live, Cached

\* A cancel request, which may be lost.
Cancelling ==
  /\ pc \in {"term", "poll"} /\ pc' = "poll"
  /\ CancelOrder(cur)
  /\ UNCHANGED <<position, cache, cur, call, mode, sold>>

LEMMA CancellingTradeless == TypeInv /\ Cancelling => Tradeless
<1> SUFFICES ASSUME TypeInv, Cancelling PROVE Tradeless
  OBVIOUS
<1>1. order \in [Ids -> OrderRecord] /\ cur \in Ids
  BY DEF TypeInv, TypeOK, BrokerTypeOK
<1>2. \A c \in Ids :
        /\ order'[c].filled = order[c].filled /\ order'[c].qty = order[c].qty
        /\ order'[c].stop = order[c].stop
        /\ \/ order'[c].status = order[c].status
           \/ order[c].status = "working" /\ order'[c].status = "canceling"
  <2>1. CASE order' = order
    BY <2>1
  <2>2. CASE /\ order[cur].status = "working"
             /\ order' = [order EXCEPT ![cur].status = "canceling"]
    <3>1. \A c \in Ids : order[c] \in OrderRecord
      BY <1>1
    <3>2. \A c \in Ids : c # cur => order'[c] = order[c]
      BY <1>1, <2>2
    <3>3. order'[cur] = [order[cur] EXCEPT !.status = "canceling"]
      BY <1>1, <2>2
    <3>4. QED BY <1>1, <2>2, <3>1, <3>2, <3>3 DEF OrderRecord
  <2>3. QED BY <2>1, <2>2 DEF Cancelling, CancelOrder
<1>3. cache' = cache /\ position' = position
  BY DEF Cancelling
<1>4. QED BY <1>2, <1>3 DEF Tradeless, Live, Cached, WorkingStatus

LEMMA ValidateQuiet ==
  ASSUME TypeInv, NEW c \in Ids, cache' = [cache EXCEPT ![c] = order[c]]
  PROVE  \A d \in Ids : cache'[d] \in {cache[d], order[d], NoOrder}
BY DEF TypeInv, TypeOK

LEMMA QuietSend == TypeInv /\ SendStep => Quiet \/ Post
<1> SUFFICES ASSUME TypeInv, SendStep, ~Post PROVE Quiet
  OBVIOUS
<1>1. cur \in Ids
  BY DEF TypeInv, TypeOK
<1>2. order' = order /\ position' = position
  BY DEF SendStep, IntentBlocked, EntryBlocked, IntentRecorded, EntryIntentLost,
         SwingExitIntentLost, IntentBestEffort, RecheckBlocked, RecheckPassed,
         NotSubmitted, AckLost, SendReturns, StopNotAccepted, StillAmbiguous,
         Fail, brokerVars
<1>3. cache' = cache \/ cache' = [cache EXCEPT ![cur] = order[cur]]
  BY DEF SendStep, IntentBlocked, EntryBlocked, IntentRecorded, EntryIntentLost,
         SwingExitIntentLost, IntentBestEffort, RecheckBlocked, RecheckPassed,
         NotSubmitted, AckLost, SendReturns, StopNotAccepted, StillAmbiguous,
         Fail, Validate, memoryVars
<1>4. QED BY <1>1, <1>2, <1>3, ValidateQuiet DEF Quiet

LEMMA QuietTerminal == TypeInv /\ TerminalStep => Quiet \/ Cancelling
<1> SUFFICES ASSUME TypeInv, TerminalStep, ~Cancelling PROVE Quiet
  OBVIOUS
<1>1. cur \in Ids
  BY DEF TypeInv, TypeOK
<1>2. order' = order /\ position' = position
  BY DEF TerminalStep, TerminalAlready, StartPolling, Poll, PolledTerminal,
         CancelAfterPolls, StillWorking, Fail, brokerVars, Cancelling,
         memoryVars
<1>3. cache' = cache \/ cache' = [cache EXCEPT ![cur] = order[cur]]
  BY DEF TerminalStep, TerminalAlready, StartPolling, Poll, PolledTerminal,
         CancelAfterPolls, StillWorking, Fail, Validate, memoryVars
<1>4. QED BY <1>1, <1>2, <1>3, ValidateQuiet DEF Quiet

LEMMA QuietDrain == TypeInv /\ DrainStep => Quiet
<1> SUFFICES ASSUME TypeInv, DrainStep PROVE Quiet
  OBVIOUS
<1>1. cur \in Ids /\ Entry \in Ids
  BY IdsFacts DEF TypeInv, TypeOK
<1>2. order' = order /\ position' = position
  BY DEF DrainStep, EntryAbsent, EntryFound, HoldPosition, DrainRecorded,
         DrainNotRecorded, ExitFound, ExitMayExist, ExitUnused, NothingLeft,
         SellRefused, OrdersChecked, PositionDiffers, SellResidual, Flat,
         NotFlat, Fail, brokerVars
<1>3. \/ cache' = cache \/ cache' = [cache EXCEPT ![cur] = order[cur]]
      \/ cache' = [cache EXCEPT ![Entry] = order[Entry]]
  BY DEF DrainStep, EntryAbsent, EntryFound, HoldPosition, DrainRecorded,
         DrainNotRecorded, ExitFound, ExitMayExist, ExitUnused, NothingLeft,
         SellRefused, OrdersChecked, PositionDiffers, SellResidual, Flat,
         NotFlat, Fail, Validate, memoryVars
<1>4. QED BY <1>1, <1>2, <1>3, ValidateQuiet DEF Quiet

LEMMA QuietHoldAndProtection ==
  TypeInv /\ (HoldStep \/ ProtectionStep) => Quiet
<1> SUFFICES ASSUME TypeInv, HoldStep \/ ProtectionStep PROVE Quiet
  OBVIOUS
<1>1. cur \in Ids
  BY DEF TypeInv, TypeOK
<1>2. order' = order /\ position' = position
  BY DEF HoldStep, HoldEnds, HoldChecks, HoldRaises, ProtectionStep,
         VerifyOrder, Protected, NotProtected, AdoptIntent, AdoptAbsent,
         AdoptionRecorded, AdoptionNotRecorded, Fail, brokerVars
<1>3. cache' = cache \/ cache' = [cache EXCEPT ![cur] = order[cur]]
  BY DEF HoldStep, HoldEnds, HoldChecks, HoldRaises, ProtectionStep,
         VerifyOrder, Protected, NotProtected, AdoptIntent, AdoptAbsent,
         AdoptionRecorded, AdoptionNotRecorded, Fail, Validate, memoryVars
<1>4. QED BY <1>1, <1>2, <1>3, ValidateQuiet DEF Quiet

LEMMA QuietOther == TypeInv /\ OtherStep => Quiet \/ EnvironmentStep
<1> SUFFICES ASSUME TypeInv, OtherStep, ~EnvironmentStep PROVE Quiet
  OBVIOUS
<1>1. order' = order /\ position' = position
  BY DEF OtherStep, CallStep, ExecuteStep, ApiCall, PlanRefused, PlanRecorded,
         ReadFails, Fail, Report, Execute, ResumeDrain, Recover,
         AdoptProtected, AdoptRefused, Stop, Crash, brokerVars
<1>2. cache' = cache \/ cache' = [c \in Ids |-> NoOrder]
  BY DEF OtherStep, CallStep, ExecuteStep, ApiCall, PlanRefused, PlanRecorded,
         ReadFails, Fail, Report, Execute, ResumeDrain, Recover,
         AdoptProtected, AdoptRefused, Stop, Crash, memoryVars
<1>3. QED BY <1>1, <1>2 DEF Quiet

\* An ID that was never POSTed, as the owner of the plan knows, trades nothing.
LEMMA UnpostedIsEmpty ==
  ASSUME IInv, Market, Owner, NEW c \in Ids, c \notin attempted
  PROVE  order[c].status = "absent" /\ order[c].filled = 0
<1>1. liveOwned
  BY DEF IInv, Control
<1>2. ~(posts[c] > 0) /\ posts[c] \in Nat
  BY <1>1 DEF IInv, Ledger, TypeInv, TypeOK
<1>3. posts[c] = 0
  BY <1>2
<1>4. QED BY <1>3 DEF IInv, Ledger, Market

\* What a POST finds: nothing in the market, and an exit offers the position.
LEMMA PostFacts ==
  ASSUME IInv, Market, Tally, Post, IInv'
  PROVE  /\ cur \in Ids /\ NothingLive
         /\ order[cur].status = "absent" /\ order[cur].filled = 0
         /\ \A d \in Ids : d # cur => order'[d] = order[d]
         /\ order'[cur] = [status |-> "sent", qty |-> SendQuantity, filled |-> 0,
                           stop |-> call \in {"protect", "hold"}]
         /\ cur = Entry => SendQuantity = Quantity
         /\ cur \in Exits => SendQuantity = position /\ position > 0
         /\ UNCHANGED <<position, cache>>
<1>1. cur \in Ids /\ order \in [Ids -> OrderRecord] /\ pc = "post"
  BY DEF IInv, TypeInv, TypeOK, BrokerTypeOK, Post
<1>2. order[cur].status = "absent" /\ order[cur].filled = 0
  BY <1>1 DEF IInv, Ledger, Market
<1>3. /\ \A d \in Ids : d # cur => order'[d] = order[d]
      /\ order'[cur] = [status |-> "sent", qty |-> SendQuantity, filled |-> 0,
                        stop |-> call \in {"protect", "hold"}]
      /\ UNCHANGED <<position, cache, cur>>
  BY <1>1 DEF Post, SubmitOrder, memoryVars, localVars
<1>4. NothingLive
  <2> SUFFICES ASSUME NEW d \in Ids, Live(d) PROVE FALSE
    BY DEF NothingLive
  <2>1. d # cur
    BY <1>2 DEF Live, WorkingStatus
  <2>2. Live(d)' /\ Live(cur)' /\ cur' = cur
    BY <1>1, <1>3, <2>1 DEF Live
  <2>3. OneLiveOrder' /\ cur' \in Ids
    BY <1>1, <2>2 DEF IInv, Settled
  <2>4. QED BY <2>1, <2>2, <2>3 DEF OneLiveOrder, Ids
<1>5. cur = Entry => SendQuantity = Quantity
  BY <1>1 DEF IInv, Control, Sending, SendQuantity
<1>6. ASSUME cur \in Exits PROVE SendQuantity = position /\ position > 0
  <2>1. /\ call # "entry" /\ call \in {"entry", "protect", "hold", "sell"}
        /\ Owner
    BY <1>1, <1>6, IdsFacts
       DEF IInv, Control, Sending, TypeInv, Bounds, Owner
  <2>2. Acquired = order[Entry].filled
    <3>1. Terminal(Entry)
      BY <1>1, <2>1 DEF IInv, Settled, Sending
    <3>2. QED BY <3>1, IdsFacts DEF IInv, Settled, Acquired
  <2>3. CASE call = "sell"
    <3>1. Residual \in 1..Quantity /\ SendQuantity = Residual
      BY <1>1, <2>3 DEF IInv, TypeInv, Bounds, SendQuantity
    <3>2. sold + order[cur].filled = SoldUpTo(NExits)
      BY <1>1, <2>3 DEF Tally, SellingOne, Sending
    <3>3. sold \in Nat /\ position = order[Entry].filled - SoldUpTo(NExits)
      BY DEF IInv, TypeInv, TypeOK, Market
    <3>4. QED BY <1>2, <2>2, <3>1, <3>2, <3>3, ConstantFacts DEF Residual
  <2>4. CASE call \in {"protect", "hold"}
    <3>1. SendQuantity = Acquired /\ Acquired > 0
      BY <1>1, <2>4 DEF Tally, SendQuantity
    <3>2. attempted \subseteq {Entry, 1} /\ cur = 1
      BY <1>1, <2>4 DEF IInv, Memory, Control, Sending
    <3>3. \A c \in Exits : order[c].filled = 0
      BY <1>2, <2>1, <3>2, IdsFacts, UnpostedIsEmpty
    <3>4. SoldUpTo(NExits) = 0
      <4>1. \A k \in 1..NExits : ExitFills[k] = 0
        BY <3>3 DEF ExitFills, Exits
      <4>2. NExits \in 0..NExits
        BY ConstantFacts
      <4>3. QED BY <4>1, <4>2, FillsType, SumsOfZero DEF SoldUpTo, IInv
    <3>5. QED BY <2>2, <3>1, <3>4, FillsType, IdsFacts DEF Market, IInv
  <2>5. QED BY <2>1, <2>3, <2>4
<1>7. QED BY <1>1, <1>2, <1>3, <1>4, <1>5, <1>6

LEMMA MarketPost ==
  ASSUME IInv, Market, Tally, Post, IInv'
  PROVE  Market'
<1>1. \A c \in Ids : order'[c].filled = order[c].filled
  BY PostFacts
<1>2. SoldUpTo(NExits)' = SoldUpTo(NExits)
  BY <1>1, SoldStays DEF SoldUpTo
<1>3. position' = order'[Entry].filled - SoldUpTo(NExits)' /\ position' >= 0
  BY <1>1, <1>2, PostFacts, IdsFacts DEF Market
<1>4. \A c \in Ids : order'[c].status = "absent" => order'[c].filled = 0
  BY PostFacts DEF Market
<1>5. ASSUME NEW c \in Exits, Live(c)'
      PROVE  position' > 0 /\ order'[c].qty - order'[c].filled = position'
  <2>1. c = cur
    BY <1>5, PostFacts, IdsFacts DEF Live, NothingLive
  <2>2. order'[c].qty = position /\ order'[c].filled = 0 /\ position > 0
    BY <2>1, PostFacts
  <2>3. QED BY <2>2, PostFacts DEF IInv, TypeInv, TypeOK, BrokerTypeOK
<1>6. \A c \in Ids : cache'[c].filled <= order'[c].filled
  BY <1>1, PostFacts DEF Market
<1>7. \A c \in Ids : Cached(c)' => cache'[c].stop = order'[c].stop
  <2>1. ~Cached(cur)
    BY PostFacts DEF IInv, Ledger
  <2>2. QED BY <2>1, PostFacts DEF Market, Cached
<1>8. QED BY <1>3, <1>4, <1>5, <1>6, <1>7 DEF Market

LEMMA FillFacts ==
  ASSUME IInv, Market, NEW c \in Ids, NEW n \in 1..Quantity, Fill(c, n)
  PROVE  /\ Live(c) /\ \A d \in Ids : d # c => ~Live(d) /\ order'[d] = order[d]
         /\ order'[c].filled = order[c].filled + n
         /\ order'[c].qty = order[c].qty /\ order'[c].stop = order[c].stop
         /\ order'[c].status = IF order[c].filled + n = order[c].qty
                               THEN "filled" ELSE order[c].status
         /\ n <= order[c].qty - order[c].filled
         /\ order[c].status \in WorkingStatus
         /\ position' = IF c = Entry THEN position + n ELSE position - n
<1>1. order \in [Ids -> OrderRecord] /\ order[c].status \in WorkingStatus
  BY DEF IInv, TypeInv, TypeOK, BrokerTypeOK, Fill
<1>2. Live(c) /\ OneLiveOrder
  BY <1>1 DEF Live, IInv, Settled
<1>3. \A d \in Ids : d # c => ~Live(d)
  BY <1>2 DEF OneLiveOrder
<1>4. \A d \in Ids : d # c => order'[d] = order[d]
  BY <1>1 DEF Fill
<1>5. order'[c] = [order[c] EXCEPT !.filled = order[c].filled + n,
                     !.status = IF order[c].filled + n = order[c].qty
                                THEN "filled" ELSE order[c].status]
  BY <1>1 DEF Fill
<1>6. order[c] \in OrderRecord
  BY <1>1
<1>7. /\ order'[c].filled = order[c].filled + n
      /\ order'[c].qty = order[c].qty /\ order'[c].stop = order[c].stop
      /\ order'[c].status = IF order[c].filled + n = order[c].qty
                            THEN "filled" ELSE order[c].status
  BY <1>5, <1>6 DEF OrderRecord
<1>8. n <= order[c].qty - order[c].filled
  BY <1>6, OrderFields, ConstantFacts DEF Fill
<1>9. position' = IF c = Entry THEN position + n ELSE position - n
  BY DEF Fill
<1>10. QED BY <1>1, <1>2, <1>3, <1>4, <1>7, <1>8, <1>9

LEMMA SoldByFill ==
  ASSUME IInv, Market, NEW c \in Ids, NEW n \in 1..Quantity, Fill(c, n)
  PROVE  \A k \in 0..NExits :
           Sums(ExitFills', NExits)[k] =
             IF c # Entry /\ c <= k THEN SoldUpTo(k) + n ELSE SoldUpTo(k)
<1>1. /\ TypeInv /\ n \in Nat /\ order'[c].filled = order[c].filled + n
      /\ \A e \in Ids \ {c} : order'[e].filled = order[e].filled
  BY FillFacts, ConstantFacts DEF IInv
<1>2. QED BY <1>1, SoldGrows

LEMMA MarketFill ==
  ASSUME IInv, Market, NEW c \in Ids, NEW n \in 1..Quantity, Fill(c, n),
         cache' = cache
  PROVE  Market'
<1>1. /\ position \in Int /\ Entry \in Ids /\ NExits \in 0..NExits
      /\ \A d \in Ids : order[d].filled \in Nat /\ order[d].qty \in Nat
                        /\ cache[d].filled \in Nat
  BY IdsFacts, FillsType, ConstantFacts DEF IInv, TypeInv, TypeOK, BrokerTypeOK
<1>2. SoldUpTo(NExits) \in Nat
  BY <1>1, SoldFacts DEF IInv
<1>3. SoldUpTo(NExits)' = IF c # Entry THEN SoldUpTo(NExits) + n
                                       ELSE SoldUpTo(NExits)
  <2>1. c # Entry => c <= NExits
    BY ConstantFacts DEF Ids, Exits, Entry
  <2>2. QED BY <1>1, <2>1, SoldByFill DEF SoldUpTo
<1>4. position' = order'[Entry].filled - SoldUpTo(NExits)'
  <2>1. CASE c = Entry
    BY <1>1, <1>2, <1>3, <2>1, FillFacts DEF Market
  <2>2. CASE c # Entry
    BY <1>1, <1>2, <1>3, <2>2, FillFacts DEF Market
  <2>3. QED BY <2>1, <2>2
<1>5. CASE c = Entry
  <2>1. position' >= 0
    BY <1>1, <1>5, FillFacts DEF Market
  <2>2. \A d \in Exits : ~Live(d)'
    BY <1>5, FillFacts, IdsFacts DEF Live
  <2>3. \A d \in Ids : /\ order'[d].status = "absent" => order'[d].filled = 0
                       /\ cache'[d].filled <= order'[d].filled
                       /\ Cached(d)' => cache'[d].stop = order'[d].stop
    BY <1>1, FillFacts DEF Market, Cached, WorkingStatus
  <2>4. QED BY <1>4, <2>1, <2>2, <2>3 DEF Market
<1>6. CASE c # Entry
  <2>1. c \in Exits /\ order[c].qty - order[c].filled = position
    BY <1>6, FillFacts DEF Market, Ids
  <2>2. position' >= 0 /\ order'[c].qty - order'[c].filled = position'
    BY <1>1, <1>6, <2>1, FillFacts
  <2>3. Live(c)' => position' > 0
    BY <1>1, <1>6, <2>1, <2>2, FillFacts DEF Live, WorkingStatus
  <2>4. \A d \in Exits : Live(d)' => d = c
    BY FillFacts, IdsFacts DEF Live
  <2>5. \A d \in Ids : /\ order'[d].status = "absent" => order'[d].filled = 0
                       /\ cache'[d].filled <= order'[d].filled
                       /\ Cached(d)' => cache'[d].stop = order'[d].stop
    BY <1>1, FillFacts DEF Market, Cached, WorkingStatus
  <2>6. QED BY <1>4, <2>2, <2>3, <2>4, <2>5 DEF Market
<1>7. QED BY <1>5, <1>6

\* The broker's steps other than trades.
LEMMA BrokerTradeless ==
  ASSUME TypeInv, BrokerStep, cache' = cache,
         ~ \E c \in Ids, n \in 1..Quantity : Fill(c, n)
  PROVE  Tradeless
<1>1. order \in [Ids -> OrderRecord]
  BY DEF TypeInv, TypeOK, BrokerTypeOK
<1>2. CASE RefreshAccount \/ ForeignOrder
  BY <1>2 DEF RefreshAccount, ForeignOrder, Tradeless, Live, Cached
<1>3. ASSUME NEW c \in Ids, Accept(c) \/ Expire(c) PROVE Tradeless
  <2>1. order[c] \in OrderRecord
    BY <1>1
  <2>2. PICK s \in {"working", "canceled"} :
          order' = [order EXCEPT ![c].status = s]
    BY <1>3 DEF Accept, Expire
  <2>3. order'[c] = [order[c] EXCEPT !.status = s]
        /\ \A d \in Ids : d # c => order'[d] = order[d]
    BY <1>1, <2>2
  <2>4. /\ order'[c].filled = order[c].filled /\ order'[c].qty = order[c].qty
        /\ order'[c].stop = order[c].stop /\ order'[c].status = s
    BY <2>1, <2>3 DEF OrderRecord
  <2>5. order[c].status \in {"sent", "working", "canceling"}
    BY <1>3 DEF Accept, Expire, WorkingStatus
  <2>6. position' = position
    BY <1>3 DEF Accept, Expire
  <2>7. QED BY <2>3, <2>4, <2>5, <2>6 DEF Tradeless, Live, Cached, WorkingStatus
<1>4. QED BY <1>2, <1>3 DEF BrokerStep

LEMMA MarketStep == IInv /\ Market /\ Tally /\ Next /\ IInv' => Market'
<1> SUFFICES ASSUME IInv, Market, Tally, Next, IInv' PROVE Market'
  OBVIOUS
<1>1. TypeInv
  BY DEF IInv
<1>2. \/ SendStep \/ TerminalStep \/ DrainStep \/ HoldStep
      \/ ProtectionStep \/ OtherStep
  BY DEF Next, ExecutorStep, OtherStep, CallStep
<1>3. Quiet \/ Cancelling \/ Post \/ EnvironmentStep
  BY <1>1, <1>2, QuietSend, QuietTerminal, QuietDrain, QuietHoldAndProtection,
     QuietOther
<1>4. CASE EnvironmentStep
  <2>1. BrokerStep /\ cache' = cache
    BY <1>4 DEF EnvironmentStep, executorVars, memoryVars
  <2>2. QED BY <1>1, <2>1, BrokerTradeless, MarketTradeless, MarketFill
<1>5. QED BY <1>1, <1>3, <1>4, QuietTradeless, CancellingTradeless, MarketTradeless,
     MarketPost

-----------------------------------------------------------------------------
(* Tally.                                                                  *)

\* What the broker has sold, in the next state, when nothing trades.
SoldSame == \A n : Sums(ExitFills', NExits)[n] = SoldUpTo(n)

LEMMA TradelessSold == Tradeless => SoldSame
BY SoldStays DEF Tradeless, SoldSame

\* The entry's fills and the sum so far, where the tally is compared.
LEMMA Comparable ==
  ASSUME TypeInv
  PROVE  /\ sold \in Nat /\ cur \in Ids /\ Acquired \in Nat
         /\ \A n \in 0..NExits : SoldUpTo(n) \in Nat
         /\ \A n \in Exits : SoldUpTo(n - 1) <= SoldUpTo(n)
<1>1. sold \in Nat /\ cur \in Ids
  BY DEF TypeInv, TypeOK
<1>2. Acquired \in Nat
  BY FillsType, IdsFacts DEF Acquired
<1>3. \A n \in 0..NExits : SoldUpTo(n) \in Nat
  BY SoldFacts
<1>4. ASSUME NEW n \in Exits PROVE SoldUpTo(n - 1) <= SoldUpTo(n)
  <2>1. /\ SoldUpTo(n) = SoldUpTo(n - 1) + order[n].filled
        /\ n - 1 \in 0..NExits
    BY SoldFacts
  <2>2. order[n].filled \in Nat /\ SoldUpTo(n - 1) \in Nat
    BY <1>3, <2>1, FillsType, IdsFacts
  <2>3. QED BY <2>1, <2>2
<1>5. QED BY <1>1, <1>2, <1>3, <1>4

LEMMA TallySend ==
  ASSUME IInv, Market, Tally, SendStep, SoldSame,
         \A c \in Ids : order'[c].filled = order[c].filled
  PROVE  Tally'
<1> USE DEF IInv, Control, Tally, AtExit, PastExits, SellingOne, Owner,
            Sending, Adopting, Selling, SoldSame, SoldUpTo
<1>0. TypeInv /\ cur \in Ids
  BY DEF TypeInv, TypeOK
<1>1. CASE IntentBlocked
  BY <1>1 DEF IntentBlocked, EntryBlocked, Idle, NoLocals
<1>2. CASE IntentRecorded
  BY <1>0, <1>2 DEF IntentRecorded, localVars, memoryVars, Acquired
<1>3. CASE EntryIntentLost
  BY <1>3 DEF EntryIntentLost, EntryBlocked, Idle, NoLocals
<1>4. CASE SwingExitIntentLost
  BY <1>4 DEF SwingExitIntentLost, Raise, Idle, NoLocals
<1>5. CASE IntentBestEffort
  BY <1>0, <1>5 DEF IntentBestEffort, localVars, memoryVars, Acquired
<1>6. CASE RecheckBlocked
  BY <1>6 DEF RecheckBlocked, EntryBlocked, Idle, NoLocals
<1>7. CASE RecheckPassed
  BY <1>0, <1>7 DEF RecheckPassed, localVars, Acquired
<1>8. CASE Post
  BY <1>0, <1>8 DEF Post, localVars, memoryVars, Acquired
<1>9. CASE NotSubmitted
  BY <1>9 DEF NotSubmitted, NoLocals
<1>10. CASE AckLost
  BY <1>0, <1>10 DEF AckLost, localVars, memoryVars
<1>11. CASE SendReturns
  <2>1. CASE call = "entry"
    BY <1>11, <2>1 DEF SendReturns
  <2>2. CASE call = "protect"
    BY <1>11, <2>2 DEF SendReturns
  <2>3. CASE call = "hold"
    BY <1>11, <2>3 DEF SendReturns
  <2>4. CASE call = "sell"
    BY <1>0, <1>11, <2>4 DEF SendReturns
  <2>5. QED BY <1>11, <2>1, <2>2, <2>3, <2>4 DEF SendReturns
<1>12. CASE StopNotAccepted
  BY <1>12 DEF StopNotAccepted, Raise, Idle, NoLocals
<1>13. CASE StillAmbiguous
  BY <1>13 DEF StillAmbiguous, Fail, Raise, Idle, NoLocals
<1>14. QED BY <1>1, <1>2, <1>3, <1>4, <1>5, <1>6, <1>7, <1>8, <1>9, <1>10, <1>11,
     <1>12, <1>13
     DEF SendStep

\* Where _terminal's caller goes on, its sold shares counted.
LEMMA TallyAfterTerminal ==
  ASSUME IInv, Market, Tally, Terminal(cur), pc \in {"term", "poll"},
         AfterTerminal, SoldSame, UNCHANGED <<order, cache, mode, call>>
  PROVE  Tally'
<1>1. cur \in Ids /\ order[cur] = cache[cur] /\ TypeInv
  BY DEF IInv, TypeInv, TypeOK, Settled
<1>2. CASE call = "reconcile"
  <2>1. cur \in Exits
    BY <1>1, <1>2 DEF IInv, Control, Ids
  <2>2. /\ sold' = sold + order[cur].filled
        /\ SoldUpTo(cur) = SoldUpTo(cur - 1) + order[cur].filled
        /\ cur - 1 \in 0..NExits /\ cur \in 0..NExits
    BY <1>1, <1>2, <2>1, SoldFacts DEF AfterTerminal
  <2>3. /\ order[cur].filled \in Nat /\ sold \in Nat
        /\ SoldUpTo(cur - 1) \in Nat /\ SoldUpTo(cur) \in Nat
    BY <1>1, <2>2, FillsType, Comparable
  <2>4. /\ sold <= SoldUpTo(cur - 1)
        /\ Owner => sold = SoldUpTo(cur - 1)
    BY <1>2 DEF Tally, AtExit
  <2>5. sold' <= SoldUpTo(cur) /\ (Owner => sold' = SoldUpTo(cur))
    BY <2>2, <2>3, <2>4
  <2>6. Owner' => Owner
    BY DEF Owner
  <2>7. CASE cur = NExits
    <3>1. pc' = "residual"
      BY <1>2, <2>7 DEF AfterTerminal
    <3>2. QED BY <2>5, <2>6, <2>7, <3>1
         DEF Tally, AtExit, PastExits, SellingOne, Sending, SoldSame, SoldUpTo
  <2>8. CASE cur # NExits
    <3>1. pc' = "reconcile" /\ cur' = cur + 1 /\ cur' - 1 = cur
      BY <1>2, <2>1, <2>8, ConstantFacts DEF AfterTerminal, Exits
    <3>2. QED BY <2>5, <2>6, <3>1
         DEF Tally, AtExit, PastExits, SellingOne, Sending, SoldSame, SoldUpTo
  <2>9. QED BY <2>7, <2>8
<1>3. CASE call = "sell"
  <2>1. sold + order[cur].filled = SoldUpTo(NExits)
    BY <1>3 DEF Tally, SellingOne
  <2>2. pc' = "residual" /\ sold' = sold + order[cur].filled
    BY <1>1, <1>3 DEF AfterTerminal
  <2>3. SoldUpTo(NExits) \in Nat
    BY <1>1, Comparable, ConstantFacts
  <2>4. QED BY <2>1, <2>2, <2>3
       DEF Tally, AtExit, PastExits, SellingOne, Sending, SoldSame, SoldUpTo
<1>4. CASE call \in {"ack", "drain"}
  <2>1. sold = 0
    BY <1>4 DEF Tally
  <2>2. pc' \in {"drain", "decide"} /\ sold' = 0
    BY <1>4, <2>1 DEF AfterTerminal
  <2>3. QED BY <2>2 DEF Tally, AtExit, PastExits, SellingOne, Sending
<1>5. QED BY <1>1, <1>2, <1>3, <1>4 DEF TypeInv, Bounds

LEMMA TallyTerminal ==
  ASSUME IInv, Market, Tally, TerminalStep, SoldSame,
         \A c \in Ids : order'[c].filled = order[c].filled
  PROVE  Tally'
<1>0. TypeInv /\ cur \in Ids
  BY DEF IInv, TypeInv, TypeOK
<1>1. CASE TerminalAlready
  BY <1>1, TallyAfterTerminal DEF TerminalAlready, brokerVars, memoryVars
<1>2. CASE StartPolling
  BY <1>0, <1>2 DEF StartPolling, Tally, AtExit, PastExits, SellingOne,
     Sending, Owner, SoldSame, SoldUpTo
<1>3. CASE Poll
  BY <1>0, <1>3 DEF Poll, Tally, AtExit, PastExits, SellingOne,
     Sending, Owner, SoldSame, SoldUpTo
<1>4. CASE PolledTerminal
  BY <1>4, TallyAfterTerminal DEF PolledTerminal, brokerVars, memoryVars
<1>5. CASE CancelAfterPolls
  BY <1>0, <1>5 DEF CancelAfterPolls, Tally, AtExit, PastExits, SellingOne,
     Sending, Owner, SoldSame, SoldUpTo
<1>6. CASE StillWorking
  BY <1>6 DEF StillWorking, Fail, Raise, Idle, NoLocals, Tally, AtExit,
     PastExits, SellingOne, Sending, IInv, Control
<1>7. QED BY <1>1, <1>2, <1>3, <1>4, <1>5, <1>6 DEF TerminalStep

LEMMA TallyDrain ==
  ASSUME IInv, Market, Tally, DrainStep, SoldSame, order' = order
  PROVE  Tally'
<1> USE DEF Tally, AtExit, PastExits, SellingOne, Sending, Owner, SoldSame,
            SoldUpTo
<1>0. TypeInv /\ cur \in Ids /\ Control
  BY DEF IInv, TypeInv, TypeOK
<1>1. CASE EntryAbsent
  BY <1>0, <1>1 DEF EntryAbsent, Fail, Raise, Idle, NoLocals, Control
<1>2. CASE EntryFound
  BY <1>0, <1>2 DEF EntryFound
<1>3. CASE HoldPosition
  BY <1>0, <1>3 DEF HoldPosition, Holds, Acquired, memoryVars
<1>4. CASE DrainRecorded
  <2>1. SoldUpTo(0) = 0
    BY <1>0, SoldFacts
  <2>2. pc' = "reconcile" /\ cur' = 1 /\ sold' = 0
    BY <1>4 DEF DrainRecorded
  <2>3. QED BY <2>1, <2>2
<1>5. CASE DrainNotRecorded
  BY <1>0, <1>5 DEF DrainNotRecorded, Raise, Idle, NoLocals, Control
<1>6. CASE ExitFound
  BY <1>0, <1>6 DEF ExitFound
<1>7. CASE ExitMayExist
  BY <1>0, <1>7 DEF ExitMayExist, Fail, Raise, Idle, NoLocals, Control
<1>9. CASE NothingLeft
  BY <1>0, <1>9 DEF NothingLeft, localVars, memoryVars, Residual, Acquired
<1>10. CASE SellRefused
  BY <1>0, <1>10 DEF SellRefused, Fail, Raise, Idle, NoLocals, Control
<1>11. CASE OrdersChecked
  BY <1>0, <1>11 DEF OrdersChecked, localVars
<1>12. CASE PositionDiffers
  BY <1>0, <1>12 DEF PositionDiffers, Fail, Raise, Idle, NoLocals, Control
<1>14. CASE Flat
  BY <1>0, <1>14 DEF Flat, NoLocals
<1>15. CASE NotFlat
  BY <1>0, <1>15 DEF NotFlat, Fail, Raise, Idle, NoLocals, Control
<1>8. CASE ExitUnused
  <2>1. /\ pc = "reconcile" /\ cur \in Exits /\ cur \notin attempted
        /\ UNCHANGED <<sold, mode, call>>
    BY <1>0, <1>8 DEF ExitUnused, MayExist, Control
  <2>2. /\ SoldUpTo(cur) = SoldUpTo(cur - 1) + order[cur].filled
        /\ cur - 1 \in 0..NExits /\ cur \in 0..NExits
    BY <1>0, <2>1, SoldFacts
  <2>3. /\ order[cur].filled \in Nat /\ sold \in Nat
        /\ SoldUpTo(cur - 1) \in Nat /\ SoldUpTo(cur) \in Nat
    BY <1>0, <2>2, FillsType, Comparable
  <2>4. Owner => order[cur].filled = 0
    BY <1>0, <2>1, UnpostedIsEmpty
  <2>5. /\ sold <= SoldUpTo(cur - 1)
        /\ Owner => sold = SoldUpTo(cur - 1)
    BY <2>1
  <2>6. sold' <= SoldUpTo(cur) /\ (Owner => sold' = SoldUpTo(cur))
    BY <2>1, <2>2, <2>3, <2>4, <2>5
  <2> HIDE DEF SoldUpTo
  <2>7. CASE cur = NExits
    <3>1. pc' = "residual"
      BY <1>8, <2>7 DEF ExitUnused
    <3>2. QED BY <2>1, <2>6, <2>7, <3>1 DEF SoldUpTo
  <2>8. CASE cur # NExits
    <3>1. pc' = "reconcile" /\ cur' = cur + 1
      BY <1>8, <2>1, <2>8 DEF ExitUnused
    <3>2. cur' - 1 = cur
      BY <2>1, <3>1 DEF Exits
    <3>3. QED BY <2>1, <2>6, <3>1, <3>2 DEF SoldUpTo
  <2>9. QED BY <2>7, <2>8
<1>13. CASE SellResidual
  <2>1. /\ pc' = "intent" /\ call' = "sell" /\ cur' \in Exits
        /\ cur' \notin attempted /\ UNCHANGED <<sold, mode>>
    BY <1>13 DEF SellResidual, UnusedExits
  <2>2. Owner
    BY <1>0, <1>13 DEF SellResidual, Control
  <2>3. order[cur'].filled = 0
    BY <2>1, <2>2, UnpostedIsEmpty, IdsFacts
  <2>4. sold = SoldUpTo(NExits) /\ sold \in Nat
    BY <1>0, <1>13, <2>2, Comparable DEF SellResidual
  <2>5. sold' + order'[cur'].filled = SoldUpTo(NExits)
    BY <2>1, <2>3, <2>4
  <2>6. QED BY <2>1, <2>2, <2>5
<1>16. QED BY <1>1, <1>2, <1>3, <1>4, <1>5, <1>6, <1>7, <1>8, <1>9, <1>10, <1>11,
     <1>12, <1>13, <1>14, <1>15
     DEF DrainStep

LEMMA TallyHold ==
  ASSUME IInv, Tally, HoldStep, SoldSame, order' = order
  PROVE  Tally'
<1> USE DEF Tally, AtExit, PastExits, SellingOne, Sending, Owner, SoldSame,
            SoldUpTo
<1>0. TypeInv /\ Control
  BY DEF IInv
<1>1. CASE HoldEnds
  <2>1. SoldUpTo(0) = 0
    BY <1>0, SoldFacts
  <2>2. pc' = "reconcile" /\ cur' = 1 /\ sold' = 0
    BY <1>1 DEF HoldEnds
  <2>3. QED BY <2>1, <2>2
<1>2. CASE HoldChecks
  <2>1. SoldUpTo(0) = 0 /\ cur = 1
    BY <1>0, <1>2, SoldFacts DEF Control, HoldChecks
  <2>2. pc' \in {"reconcile", "hold"} /\ cur' = 1 /\ sold' = 0
    BY <1>2, <2>1 DEF HoldChecks, localVars
  <2>3. QED BY <2>1, <2>2
<1>3. CASE HoldRaises
  BY <1>0, <1>3 DEF HoldRaises, Raise, Idle, NoLocals, Control
<1>4. QED BY <1>1, <1>2, <1>3 DEF HoldStep

LEMMA TallyProtection ==
  ASSUME IInv, Tally, ProtectionStep
  PROVE  Tally'
<1> USE DEF Tally, AtExit, PastExits, SellingOne, Sending, Owner
<1>0. TypeInv /\ Control
  BY DEF IInv
<1>1. CASE VerifyOrder
  BY <1>1 DEF VerifyOrder
<1>2. CASE Protected
  BY <1>2 DEF Protected, NoLocals
<1>3. CASE NotProtected
  BY <1>0, <1>3 DEF NotProtected, Fail, Raise, Idle, NoLocals, Control
<1>4. CASE AdoptIntent
  BY <1>4 DEF AdoptIntent
<1>5. CASE AdoptAbsent
  BY <1>0, <1>5 DEF AdoptAbsent, Fail, Raise, Idle, NoLocals, Control
<1>6. CASE AdoptionRecorded
  BY <1>6 DEF AdoptionRecorded, Idle, NoLocals
<1>7. CASE AdoptionNotRecorded
  BY <1>0, <1>7 DEF AdoptionNotRecorded, Raise, Idle, NoLocals, Control
<1>8. QED BY <1>1, <1>2, <1>3, <1>4, <1>5, <1>6, <1>7 DEF ProtectionStep

LEMMA TallyCall ==
  ASSUME IInv, Tally, CallStep, SoldSame, order' = order
  PROVE  Tally'
<1> USE DEF Tally, AtExit, PastExits, SellingOne, Sending, Owner, SoldSame,
            SoldUpTo
<1>0. TypeInv /\ Control
  BY DEF IInv
<1>1. CASE PlanRefused
  BY <1>1 DEF PlanRefused, Idle, NoLocals
<1>2. CASE PlanRecorded
  BY <1>2 DEF PlanRecorded
<1>3. CASE ReadFails
  BY <1>0, <1>3 DEF ReadFails, ReadSteps, Fail, Raise, Idle, NoLocals, Control
<1>4. CASE Report
  BY <1>4 DEF Report, Idle, NoLocals
<1>5. CASE Execute
  BY <1>5 DEF Execute, localVars
<1>6. CASE ResumeDrain
  BY <1>6 DEF ResumeDrain, localVars
<1>7. CASE Recover
  BY <1>7 DEF Recover, localVars
<1>8. CASE AdoptProtected
  BY <1>8 DEF AdoptProtected
<1>9. CASE AdoptRefused
  BY <1>9 DEF AdoptRefused, controlVars, localVars
<1>10. CASE Stop
  BY <1>0, <1>10
     DEF Stop, controlVars, localVars, memoryVars, Acquired, Residual
<1>11. CASE Crash
  BY <1>11 DEF Crash, Idle, NoLocals
<1>12. QED BY <1>1, <1>2, <1>3, <1>4, <1>5, <1>6, <1>7, <1>8, <1>9, <1>10, <1>11
     DEF CallStep, ExecuteStep, ApiCall

\* A trade of an order the executor has passed is over, so a trade leaves an
\* owner's tally exact and can only leave recover()'s behind.
LEMMA TallyFill ==
  ASSUME IInv, Market, Tally, NEW c \in Ids, NEW n \in 1..Quantity, Fill(c, n),
         UNCHANGED executorVars
  PROVE  Tally'
<1> DEFINE S(k) == Sums(ExitFills', NExits)[k]
<1>1. UNCHANGED <<pc, mode, cur, call, sold, cache, attempted>>
  BY DEF executorVars, controlVars, localVars, memoryVars
<1>2. /\ TypeInv /\ Control /\ sold \in Nat /\ cur \in Ids
      /\ \A k \in 0..NExits : SoldUpTo(k) \in Nat
  BY Comparable DEF IInv
<1>3. \A k \in 0..NExits :
        S(k) = IF c # Entry /\ c <= k THEN SoldUpTo(k) + n ELSE SoldUpTo(k)
  BY SoldByFill
<1>4. c \in Nat /\ n \in Nat /\ NExits \in Nat /\ (c # Entry => c \in Exits)
      /\ NExits \in 0..NExits
  BY ConstantFacts DEF Ids, Exits, Entry
<1>5. \A k \in 0..NExits : SoldUpTo(k) <= S(k)
  BY <1>2, <1>3, <1>4
<1>6. ~Terminal(c)
  <2>1. order[c].status \in WorkingStatus
    BY FillFacts
  <2>2. QED BY <2>1 DEF IInv, Settled, Terminal, TerminalStatus, WorkingStatus
<1>7. Owner => c \in attempted
  <2> SUFFICES ASSUME Owner, c \notin attempted PROVE FALSE
    OBVIOUS
  <2>1. order[c].status = "absent"
    BY UnpostedIsEmpty
  <2>2. QED BY <2>1, FillFacts DEF WorkingStatus
<1> HIDE DEF S
<1>8. ASSUME AtExit
      PROVE  sold <= S(cur - 1) /\ (Owner => sold = S(cur - 1))
  <2>1. cur \in Exits
    BY <1>2, <1>8 DEF AtExit, Control, Ids
  <2>2. cur - 1 \in 0..NExits /\ cur \in Int
    BY <2>1, ConstantFacts DEF Exits
  <2>3. sold <= SoldUpTo(cur - 1) /\ (Owner => sold = SoldUpTo(cur - 1))
    BY <1>8 DEF Tally
  <2>4. ASSUME Owner PROVE S(cur - 1) = SoldUpTo(cur - 1)
    <3>1. DoneBelow(cur)
      BY <1>8, <2>4 DEF IInv, Settled, AtExit
    <3>2. c # Entry => ~(c < cur)
      BY <1>4, <1>6, <1>7, <2>4, <3>1 DEF DoneBelow
    <3>3. QED BY <1>3, <1>4, <2>2, <3>2
  <2>5. SoldUpTo(cur - 1) \in Nat /\ S(cur - 1) \in Nat
    BY <1>2, <1>3, <1>4, <2>2
  <2>6. SoldUpTo(cur - 1) <= S(cur - 1)
    BY <1>5, <2>2
  <2>7. QED BY <1>2, <2>3, <2>4, <2>5, <2>6
<1>9. ASSUME PastExits
      PROVE  sold <= S(NExits) /\ (Owner => sold = S(NExits))
  <2>1. sold <= SoldUpTo(NExits) /\ (Owner => sold = SoldUpTo(NExits))
    BY <1>9 DEF Tally
  <2>2. ASSUME Owner PROVE S(NExits) = SoldUpTo(NExits)
    <3>1. DoneBelow(NExits + 1)
      BY <1>9, <2>2 DEF IInv, Settled, PastExits
    <3>2. \A d \in Exits : d < NExits + 1
      BY ConstantFacts DEF Exits
    <3>3. c = Entry
      BY <1>4, <1>6, <1>7, <2>2, <3>1, <3>2 DEF DoneBelow
    <3>4. QED BY <1>3, <1>4, <3>3
  <2>3. SoldUpTo(NExits) \in Nat /\ S(NExits) \in Nat
    BY <1>2, <1>3, <1>4
  <2>4. QED BY <1>2, <1>4, <1>5, <2>1, <2>2, <2>3
<1>10. ASSUME SellingOne
       PROVE  sold + order'[cur].filled = S(NExits)
  <2>1. sold + order[cur].filled = SoldUpTo(NExits) /\ Owner
    BY <1>10 DEF Tally, SellingOne, Sending, Owner
  <2>2. cur \in Exits
    BY <1>2, <1>10 DEF SellingOne, Control, Sending, Ids
  <2>3. \A d \in Exits : d # cur /\ d \in attempted => Terminal(d)
    BY <1>10, <2>1 DEF IInv, Settled, SellingOne
  <2>4. Terminal(Entry)
    BY <1>2, <1>10, <2>1 DEF IInv, Settled, SellingOne, Sending
  <2>5. c = cur
    BY <1>4, <1>6, <1>7, <2>1, <2>3, <2>4
  <2>6. S(NExits) = SoldUpTo(NExits) + n
    BY <1>3, <1>4, <2>2, <2>5, IdsFacts, ConstantFacts DEF Exits
  <2>7. order'[cur].filled = order[cur].filled + n
    BY <2>5, FillFacts
  <2>8. order[cur].filled \in Nat /\ SoldUpTo(NExits) \in Nat
    BY <1>2, <1>4, FillsType
  <2>9. QED BY <1>2, <1>4, <2>1, <2>6, <2>7, <2>8
<1>11. /\ AtExit' = AtExit /\ PastExits' = PastExits
       /\ SellingOne' = SellingOne /\ Owner' = Owner
       /\ Residual' = Residual /\ Acquired' = Acquired
       /\ SoldUpTo(cur - 1)' = S(cur - 1) /\ SoldUpTo(NExits)' = S(NExits)
  BY <1>1 DEF AtExit, PastExits, SellingOne, Owner, Residual, Acquired,
              SoldUpTo, S
<1>12. QED BY <1>1, <1>8, <1>9, <1>10, <1>11 DEF Tally

LEMMA TallyQuietBroker ==
  ASSUME IInv, Tally, UNCHANGED executorVars, SoldSame,
         \A c \in Ids : order'[c].filled = order[c].filled
  PROVE  Tally'
BY DEF Tally, AtExit, PastExits, SellingOne, Sending, Owner, SoldSame,
       SoldUpTo, executorVars, controlVars, localVars, memoryVars, Residual,
       Acquired, IInv, TypeInv, TypeOK

LEMMA TallyStep == IInv /\ Market /\ Tally /\ Next /\ IInv' => Tally'
<1> SUFFICES ASSUME IInv, Market, Tally, Next, IInv' PROVE Tally'
  OBVIOUS
<1>1. TypeInv
  BY DEF IInv
<1>2. ASSUME Quiet PROVE Tradeless /\ SoldSame /\ order' = order
  BY <1>2, QuietTradeless, TradelessSold DEF Quiet
<1>3. CASE SendStep
  <2>1. \A c \in Ids : order'[c].filled = order[c].filled
    <3>1. CASE Post
      BY <3>1, PostFacts
    <3>2. CASE Quiet
      BY <3>2 DEF Quiet
    <3>3. QED BY <1>1, <1>3, <3>1, <3>2, QuietSend
  <2>2. QED BY <1>3, <2>1, SoldStays, TallySend DEF SoldSame
<1>4. CASE TerminalStep
  <2>1. Tradeless
    BY <1>1, <1>2, <1>4, QuietTerminal, CancellingTradeless
  <2>2. QED BY <1>4, <2>1, TradelessSold, TallyTerminal DEF Tradeless
<1>5. CASE DrainStep
  BY <1>1, <1>2, <1>5, QuietDrain, TallyDrain
<1>6. CASE HoldStep
  BY <1>1, <1>2, <1>6, QuietHoldAndProtection, TallyHold
<1>7. CASE ProtectionStep
  BY <1>7, TallyProtection
<1>8. CASE EnvironmentStep
  <2>1. BrokerStep /\ UNCHANGED executorVars /\ cache' = cache
    BY <1>8 DEF EnvironmentStep, executorVars, memoryVars
  <2>2. CASE \E c \in Ids, n \in 1..Quantity : Fill(c, n)
    BY <2>1, <2>2, TallyFill
  <2>3. CASE ~ \E c \in Ids, n \in 1..Quantity : Fill(c, n)
    <3>1. Tradeless
      BY <1>1, <2>1, <2>3, BrokerTradeless
    <3>2. QED BY <2>1, <3>1, TradelessSold, TallyQuietBroker DEF Tradeless
  <2>4. QED BY <2>2, <2>3
<1>9. CASE CallStep
  <2>1. order' = order
    BY <1>9 DEF CallStep, ExecuteStep, ApiCall, PlanRefused, PlanRecorded,
       ReadFails, Fail, Report, Execute, ResumeDrain, Recover, AdoptProtected,
       AdoptRefused, Stop, Crash, brokerVars
  <2>2. SoldSame
    BY <2>1, SoldStays DEF SoldSame
  <2>3. QED BY <1>9, <2>1, <2>2, TallyCall
<1>10. QED BY <1>3, <1>4, <1>5, <1>6, <1>7, <1>8, <1>9
     DEF Next, ExecutorStep, CallStep

-----------------------------------------------------------------------------
(* Announced.                                                              *)

LEMMA RecordStays == TypeInv /\ Next => (jDrain => jDrain') /\ swing' = swing
<1> SUFFICES ASSUME TypeInv, Next PROVE (jDrain => jDrain') /\ swing' = swing
  OBVIOUS
<1> USE DEF TypeInv, TypeOK, journalVars, historyVars
<1>1. CASE SendStep
  BY <1>1
     DEF SendStep, IntentBlocked, EntryBlocked, IntentRecorded,
         EntryIntentLost, SwingExitIntentLost, IntentBestEffort,
         RecheckBlocked, RecheckPassed, Post, NotSubmitted, AckLost,
         SendReturns, StopNotAccepted, StillAmbiguous, Fail
<1>2. CASE TerminalStep
  BY <1>2
     DEF TerminalStep, TerminalAlready, StartPolling, Poll, PolledTerminal,
         CancelAfterPolls, StillWorking, Fail
<1>3. CASE DrainStep
  BY <1>3
     DEF DrainStep, EntryAbsent, EntryFound, HoldPosition, DrainRecorded,
         DrainNotRecorded, Landed, ExitFound, ExitMayExist, ExitUnused,
         NothingLeft, SellRefused, OrdersChecked, PositionDiffers,
         SellResidual, Flat, NotFlat, Fail
<1>4. CASE HoldStep \/ ProtectionStep
  BY <1>4
     DEF HoldStep, HoldEnds, HoldChecks, HoldRaises, ProtectionStep,
         VerifyOrder, Protected, NotProtected, AdoptIntent, AdoptAbsent,
         AdoptionRecorded, AdoptionNotRecorded, Fail
<1>5. CASE OtherStep
  BY <1>5
     DEF OtherStep, CallStep, ExecuteStep, ApiCall, PlanRefused, PlanRecorded,
         ReadFails, Fail, Report, Execute, ResumeDrain, Recover,
         AdoptProtected, AdoptRefused, Stop, Crash, EnvironmentStep,
         executorVars
<1>6. QED BY <1>1, <1>2, <1>3, <1>4, <1>5 DEF Next, ExecutorStep, OtherStep, CallStep

LEMMA AnnouncedStep == IInv /\ Announced /\ Next => Announced'
<1> SUFFICES ASSUME IInv, Announced, Next PROVE Announced'
  OBVIOUS
<1>0. TypeInv /\ Control /\ (jDrain => jDrain') /\ swing' = swing
  BY RecordStays DEF IInv
<1> USE DEF Announced, AtExit, PastExits, SellingOne, Sending, NoLocals, Idle,
            Raise, localVars
<1>1. CASE SendStep
  BY <1>0, <1>1
     DEF SendStep, IntentBlocked, EntryBlocked, IntentRecorded,
         EntryIntentLost, SwingExitIntentLost, IntentBestEffort,
         RecheckBlocked, RecheckPassed, Post, NotSubmitted, AckLost,
         SendReturns, StopNotAccepted, StillAmbiguous, Fail
<1>2. CASE TerminalStep
  <2>1. CASE AfterTerminal /\ call' = call /\ pc \in {"term", "poll"}
    BY <1>0, <2>1, AfterTerminalControl
  <2>2. CASE ~AfterTerminal
    BY <1>0, <1>2, <2>2
       DEF TerminalStep, TerminalAlready, StartPolling, Poll, PolledTerminal,
           CancelAfterPolls, StillWorking, Fail
  <2>3. QED BY <1>0, <1>2, <2>1, <2>2
       DEF TerminalStep, TerminalAlready, StartPolling, Poll, PolledTerminal,
           CancelAfterPolls, StillWorking, Fail
<1>3. CASE DrainStep
  BY <1>0, <1>3
     DEF DrainStep, EntryAbsent, EntryFound, HoldPosition, DrainRecorded,
         DrainNotRecorded, ExitFound, ExitMayExist, ExitUnused,
         NothingLeft, SellRefused, OrdersChecked, PositionDiffers,
         SellResidual, Flat, NotFlat, Fail, Control, Selling
<1>4. CASE HoldStep \/ ProtectionStep
  BY <1>0, <1>4
     DEF HoldStep, HoldEnds, HoldChecks, HoldRaises, ProtectionStep,
         VerifyOrder, Protected, NotProtected, AdoptIntent, AdoptAbsent,
         AdoptionRecorded, AdoptionNotRecorded, Fail, Control
<1>5. CASE OtherStep
  BY <1>0, <1>5
     DEF OtherStep, CallStep, ExecuteStep, ApiCall, PlanRefused, PlanRecorded,
         ReadFails, ReadSteps, Fail, Report, Execute, ResumeDrain, Recover,
         AdoptProtected, AdoptRefused, Stop, Crash, EnvironmentStep,
         executorVars, controlVars
<1>6. QED BY <1>1, <1>2, <1>3, <1>4, <1>5 DEF Next, ExecutorStep, OtherStep, CallStep

LEMMA RecordedEnd ==
  ASSUME IInv, Market, Tally, Announced, ProtectionEndsOnRecord, Next, IInv'
  PROVE  ProtectionEndsOnRecord'
<1> SUFFICES ASSUME swing, NEW c \in Exits,
                    order'[c].status = "canceling", order'[c].stop
             PROVE  jDrain'
  BY RecordStays DEF ProtectionEndsOnRecord, IInv
<1>1. TypeInv /\ Control /\ (jDrain => jDrain') /\ c \in Ids
  BY RecordStays, IdsFacts DEF IInv
<1>2. order[c].status = "canceling" /\ order[c].stop => jDrain'
  BY <1>1 DEF ProtectionEndsOnRecord
<1>3. CASE Quiet
  BY <1>2, <1>3 DEF Quiet
<1>4. CASE Cancelling
  <2>1. order \in [Ids -> OrderRecord] /\ cur \in Ids
    BY <1>1 DEF TypeInv, TypeOK, BrokerTypeOK
  <2>2. c # cur => order'[c] = order[c]
    BY <1>1, <1>4, <2>1 DEF Cancelling, CancelOrder
  <2>3. c = cur => call \in {"reconcile", "sell"}
    BY <1>1, <1>4, IdsFacts DEF Cancelling, Control, TypeInv, Bounds
  <2>4. c = cur => jDrain
    BY <1>4, <2>3 DEF Announced, AtExit, SellingOne, Cancelling
  <2>5. QED BY <1>1, <1>2, <2>2, <2>4
<1>5. CASE Post
  BY <1>2, <1>5, PostFacts, <1>1
<1>6. CASE EnvironmentStep
  <2>1. BrokerStep
    BY <1>6 DEF EnvironmentStep
  <2>2. order \in [Ids -> OrderRecord]
    BY <1>1 DEF TypeInv, TypeOK, BrokerTypeOK
  <2>3. CASE RefreshAccount \/ ForeignOrder
    BY <1>2, <2>3 DEF RefreshAccount, ForeignOrder
  <2>4. ASSUME NEW d \in Ids, Accept(d) \/ Expire(d) PROVE jDrain'
    <3>1. PICK s \in {"working", "canceled"} :
            order' = [order EXCEPT ![d].status = s]
      BY <2>4 DEF Accept, Expire
    <3>2. d # c => order'[c] = order[c]
      BY <1>1, <2>2, <3>1
    <3>3. d = c => order'[c].status = s
      <4>1. order'[d] = [order[d] EXCEPT !.status = s] /\ order[d] \in OrderRecord
        BY <2>2, <3>1
      <4>2. QED BY <4>1 DEF OrderRecord
    <3>4. QED BY <1>2, <3>2, <3>3
  <2>5. ASSUME NEW d \in Ids, NEW n \in 1..Quantity, Fill(d, n) PROVE jDrain'
    BY <1>1, <1>2, <2>5, FillFacts
  <2>6. QED BY <2>1, <2>3, <2>4, <2>5 DEF BrokerStep
<1>7. QED
  <2>1. \/ SendStep \/ TerminalStep \/ DrainStep \/ HoldStep
        \/ ProtectionStep \/ OtherStep
    BY DEF Next, ExecutorStep, OtherStep, CallStep
  <2>2. QED BY <1>1, <1>3, <1>4, <1>5, <1>6, <2>1, QuietSend, QuietTerminal,
       QuietDrain, QuietHoldAndProtection, QuietOther

-----------------------------------------------------------------------------
(* Seen.                                                                   *)

LEMMA SeenStep == IInv /\ Seen /\ Next => Seen'
<1> SUFFICES ASSUME IInv, Seen, Next PROVE Seen'
  OBVIOUS
<1>0. TypeInv /\ Control /\ Memory /\ cur \in Ids /\ cache \in [Ids -> OrderRecord]
      /\ jAttempts \subseteq Ids
  BY DEF IInv, TypeInv, TypeOK
<1> USE DEF Seen, NoLocals, Idle, Raise, localVars, journalVars
<1>1. CASE SendStep
  <2>1. mode' # "adopt"
    BY <1>0, <1>1
       DEF SendStep, IntentBlocked, EntryBlocked, IntentRecorded,
           EntryIntentLost, SwingExitIntentLost, IntentBestEffort,
           RecheckBlocked, RecheckPassed, Post, NotSubmitted, AckLost,
           SendReturns, StopNotAccepted, StillAmbiguous, Fail, Control, Sending
  <2>2. pc' \in {"verify", "snapshot"} =>
          /\ pc \in {"ack", "ambiguous"} /\ call = "protect"
          /\ attempted' = attempted
    BY <1>1
       DEF SendStep, IntentBlocked, EntryBlocked, IntentRecorded,
           EntryIntentLost, SwingExitIntentLost, IntentBestEffort,
           RecheckBlocked, RecheckPassed, Post, NotSubmitted, AckLost,
           SendReturns, StopNotAccepted, StillAmbiguous, Fail
  <2>3. QED BY <1>0, <2>1, <2>2 DEF Memory, Sending
<1>2. CASE TerminalStep \/ DrainStep \/ HoldStep
  <2>1. mode' # "adopt" /\ pc' \notin {"verify", "snapshot"}
    <3>1. CASE TerminalStep
      <4>1. mode' = mode /\ mode # "adopt"
        BY <1>0, <3>1
           DEF TerminalStep, TerminalAlready, StartPolling, Poll,
               PolledTerminal, CancelAfterPolls, StillWorking, Fail, Control,
               Adopting
      <4>2. QED BY <1>0, <3>1, <4>1, AfterTerminalControl
           DEF TerminalStep, TerminalAlready, StartPolling, Poll,
               PolledTerminal, CancelAfterPolls, StillWorking, Fail
    <3>2. CASE DrainStep
      BY <1>0, <3>2
         DEF DrainStep, EntryAbsent, EntryFound, HoldPosition, DrainRecorded,
             DrainNotRecorded, ExitFound, ExitMayExist, ExitUnused,
             NothingLeft, SellRefused, OrdersChecked, PositionDiffers,
             SellResidual, Flat, NotFlat, Fail, Control, Adopting
    <3>3. CASE HoldStep
      BY <1>0, <3>3
         DEF HoldStep, HoldEnds, HoldChecks, HoldRaises, Control, Adopting
    <3>4. QED BY <1>2, <3>1, <3>2, <3>3
  <2>2. QED BY <2>1

<1>3. CASE ProtectionStep
  <2>1. \A c \in Ids : Cached(c) => Cached(c)'
    BY <1>0, <1>3
       DEF ProtectionStep, VerifyOrder, Protected, NotProtected, AdoptIntent,
           AdoptAbsent, AdoptionRecorded, AdoptionNotRecorded, Fail, Validate,
           memoryVars, Cached, Visible
  <2>2. UNCHANGED <<attempted, jAttempts>>
    BY <1>3
       DEF ProtectionStep, VerifyOrder, Protected, NotProtected, AdoptIntent,
           AdoptAbsent, AdoptionRecorded, AdoptionNotRecorded, Fail, memoryVars
  <2>3. CASE AdoptIntent
    <3>1. \A c \in jAttempts : c = cur => Cached(c)'
      BY <1>0, <2>3 DEF AdoptIntent, Validate, Cached, Visible
    <3>2. mode' = mode /\ mode = "adopt" /\ pc = "adopt"
      BY <1>0, <2>3 DEF AdoptIntent, Control
    <3>3. \A c \in jAttempts : c < cur => Cached(c)'
      BY <1>0, <2>1, <3>2
    <3>4. \A c \in jAttempts : c \in Int /\ c <= NExits
      BY <1>0, ConstantFacts DEF Ids, Exits, Entry
    <3>5. cur \in Int
      BY <1>0, ConstantFacts DEF Ids, Exits, Entry
    <3>6. CASE cur = NExits
      <4>1. \A c \in jAttempts : Cached(c)'
        BY <3>1, <3>3, <3>4, <3>5, <3>6
      <4>2. QED BY <2>2, <2>3, <3>2, <3>6, <4>1 DEF AdoptIntent
    <3>7. CASE cur # NExits
      <4>1. cur' = cur + 1 /\ pc' = "adopt"
        BY <2>3, <3>2, <3>7 DEF AdoptIntent
      <4>2. \A c \in jAttempts : c < cur' => Cached(c)'
        BY <3>1, <3>3, <3>4, <3>5, <4>1
      <4>3. QED BY <2>2, <3>2, <4>1, <4>2
    <3>8. QED BY <3>6, <3>7
  <2>4. CASE VerifyOrder \/ Protected
    <3>1. mode' = mode /\ pc \in {"verify", "snapshot"}
      BY <2>4 DEF VerifyOrder, Protected
    <3>2. pc' \in {"verify", "snapshot", "adopted", "report"}
      BY <2>4 DEF VerifyOrder, Protected
    <3>3. QED BY <1>0, <2>1, <2>2, <3>1, <3>2
  <2>5. CASE NotProtected \/ AdoptAbsent \/ AdoptionRecorded
             \/ AdoptionNotRecorded
    BY <1>0, <2>5
       DEF NotProtected, AdoptAbsent, AdoptionRecorded, AdoptionNotRecorded,
           Fail, Control
  <2>6. QED BY <1>3, <2>3, <2>4, <2>5 DEF ProtectionStep
<1>4. CASE OtherStep
  <2>1. CASE AdoptProtected
    <3>1. \A c \in jAttempts : ~(c < Entry)
      BY <1>0, ConstantFacts DEF Ids, Exits, Entry
    <3>2. QED BY <2>1, <3>1 DEF AdoptProtected
  <2>2. CASE Stop \/ EnvironmentStep \/ AdoptRefused
    <3>1. UNCHANGED <<pc, mode, cur, cache, attempted, jAttempts>>
      BY <2>2 DEF Stop, EnvironmentStep, AdoptRefused, executorVars,
                  controlVars, memoryVars
    <3>2. QED BY <3>1 DEF Cached
  <2>3. CASE PlanRefused \/ PlanRecorded \/ ReadFails \/ Report \/ Execute
             \/ ResumeDrain \/ Recover \/ Crash
    BY <1>0, <2>3
       DEF PlanRefused, PlanRecorded, ReadFails, Fail, Report, Execute,
           ResumeDrain, Recover, Crash, Control, Adopting
  <2>4. QED BY <1>4, <2>1, <2>2, <2>3 DEF OtherStep, CallStep, ExecuteStep, ApiCall
<1>5. QED BY <1>1, <1>2, <1>3, <1>4 DEF Next, ExecutorStep, OtherStep, CallStep

-----------------------------------------------------------------------------
(* Answers.                                                                *)

\* A call in progress has no answer yet, and only Flat and the protection
\* check give one.
LEMMA AnswerStep ==
  ASSUME IInv, Answers, Next
  PROVE  /\ pc' \notin {"idle", "report"} => result' = "none"
         /\ result' = "flat" => result = "flat" \/ Flat
         /\ result' = "holding_protected" \/ pc' = "adopted" =>
              \/ result = "holding_protected" \/ pc = "adopted" \/ Protected
<1>0. TypeInv /\ Control
  BY DEF IInv
<1> USE DEF Answers, NoLocals, Idle, Raise, localVars, controlVars
<1>1. CASE SendStep
  BY <1>0, <1>1
     DEF SendStep, IntentBlocked, EntryBlocked, IntentRecorded,
         EntryIntentLost, SwingExitIntentLost, IntentBestEffort,
         RecheckBlocked, RecheckPassed, Post, NotSubmitted, AckLost,
         SendReturns, StopNotAccepted, StillAmbiguous, Fail
<1>2. CASE TerminalStep
  BY <1>0, <1>2, AfterTerminalControl
     DEF TerminalStep, TerminalAlready, StartPolling, Poll, PolledTerminal,
         CancelAfterPolls, StillWorking, Fail
<1>3. CASE DrainStep
  BY <1>0, <1>3
     DEF DrainStep, EntryAbsent, EntryFound, HoldPosition, DrainRecorded,
         DrainNotRecorded, ExitFound, ExitMayExist, ExitUnused,
         NothingLeft, SellRefused, OrdersChecked, PositionDiffers,
         SellResidual, Flat, NotFlat, Fail
<1>4. CASE HoldStep
  BY <1>0, <1>4 DEF HoldStep, HoldEnds, HoldChecks, HoldRaises
<1>5. CASE ProtectionStep
  BY <1>0, <1>5
     DEF ProtectionStep, VerifyOrder, Protected, NotProtected, AdoptIntent,
         AdoptAbsent, AdoptionRecorded, AdoptionNotRecorded, Fail
<1>6. CASE OtherStep
  BY <1>0, <1>6
     DEF OtherStep, CallStep, ExecuteStep, ApiCall, PlanRefused, PlanRecorded,
         ReadFails, Fail, Report, Execute, ResumeDrain, Recover,
         AdoptProtected, AdoptRefused, Stop, Crash, EnvironmentStep,
         executorVars
<1>7. QED BY <1>1, <1>2, <1>3, <1>4, <1>5, <1>6
     DEF Next, ExecutorStep, OtherStep, CallStep

\* Flat has compared views that may be old; the account is flat all the same.
LEMMA FlatIsTrue ==
  ASSUME IInv, Market, Tally, Flat
  PROVE  position = 0 /\ NothingLive
<1>1. pc = "flatcheck" /\ TypeInv /\ Terminal(Entry) /\ Entry \in Ids
  BY IdsFacts DEF Flat, IInv, Settled, Selling
<1>2. order[Entry] = cache[Entry]
  BY <1>1 DEF IInv, Settled
<1>3. Residual = 0 /\ sold <= SoldUpTo(NExits)
  BY <1>1 DEF Tally, PastExits
<1>4. /\ sold \in Nat /\ SoldUpTo(NExits) \in Nat /\ Acquired \in Nat
      /\ position \in Int
  BY <1>1, Comparable, ConstantFacts DEF TypeInv, TypeOK, BrokerTypeOK
<1>5. position = Acquired - SoldUpTo(NExits) /\ position >= 0
  BY <1>2 DEF Market, Acquired
<1>6. position = 0
  BY <1>3, <1>4, <1>5 DEF Residual
<1>7. \A c \in Exits : ~Live(c)
  BY <1>4, <1>6 DEF Market
<1>8. ~Live(Entry)
  BY <1>1, <1>2 DEF Live, Terminal, TerminalStatus, WorkingStatus
<1>9. QED BY <1>6, <1>7, <1>8 DEF NothingLive, Ids

\* The protection check has seen every order that can be live.
LEMMA ProtectedIsTrue ==
  ASSUME IInv, Market, Seen, Protected
  PROVE  OnlyStopLive
<1>1. /\ pc = "snapshot" /\ ProtectionExact /\ TypeInv /\ Control /\ Ledger
      /\ mode \in {"execute", "adopt"} /\ Entry \in Ids /\ Exits \subseteq Ids
  BY IdsFacts DEF Protected, IInv, Control
<1>2. PICK c \in Exits :
        /\ {d \in Exits : Cached(d) /\ ~Terminal(d)} = {c}
        /\ cache[c].stop
  BY <1>1 DEF ProtectionExact
<1>3. Cached(c) /\ c \in Ids /\ order[c].stop
  BY <1>1, <1>2 DEF Market
<1>4. \A d \in Ids : Terminal(d) => ~Live(d)
  BY DEF IInv, Settled, Terminal, TerminalStatus, Live, WorkingStatus
<1>5. ~Live(Entry)
  BY <1>1, <1>4 DEF ProtectionExact
<1>6. ASSUME NEW d \in Exits, Live(d) PROVE d = c
  <2>1. d \in Ids /\ ~Terminal(d) /\ posts[d] \in Nat /\ posts[d] # 0
    BY <1>1, <1>4, <1>6
       DEF TypeInv, TypeOK, Ledger, Live, WorkingStatus
  <2>2. CASE mode = "execute"
    <3>1. liveOwned /\ attempted \subseteq {Entry, 1}
      BY <1>1, <2>2 DEF Seen, Control, Owner
    <3>2. d \in attempted /\ c \in attempted
      BY <1>1, <1>3, <2>1, <3>1 DEF Ledger
    <3>3. QED BY <3>1, <3>2, IdsFacts, <1>2
  <2>3. CASE mode = "adopt"
    <3>1. swing /\ posts[d] > 0
      BY <1>1, <2>1, <2>3 DEF Ledger
    <3>2. d \in jAttempts
      BY <1>1, <2>1, <3>1 DEF Ledger, IntentsAreDurable
    <3>3. Cached(d)
      BY <1>1, <2>3, <3>2 DEF Seen
    <3>4. QED BY <1>2, <2>1, <3>3
  <2>4. QED BY <1>1, <2>2, <2>3
<1>7. QED BY <1>3, <1>5, <1>6 DEF OnlyStopLive, Ids

LEMMA AnswersStep ==
  ASSUME IInv, Market, Tally, Seen, Answers, Next, IInv'
  PROVE  Answers'
<1>1. TypeInv
  BY DEF IInv
<1>2. ASSUME Quiet \/ Cancelling PROVE Tradeless
  BY <1>1, <1>2, QuietTradeless, CancellingTradeless
<1>3. Tradeless \/ Post \/ (BrokerStep /\ ~Tradeless /\ cache' = cache)
  <2>1. \/ SendStep \/ TerminalStep \/ DrainStep \/ HoldStep
        \/ ProtectionStep \/ OtherStep
    BY DEF Next, ExecutorStep, OtherStep, CallStep
  <2>2. EnvironmentStep => BrokerStep /\ cache' = cache
    BY DEF EnvironmentStep, executorVars, memoryVars
  <2>3. QED BY <1>1, <1>2, <2>1, <2>2, QuietSend, QuietTerminal, QuietDrain,
       QuietHoldAndProtection, QuietOther
<1>4. NothingLive => (position' = position /\ NothingLive') \/ Post
  <2>1. CASE Tradeless
    BY <2>1 DEF Tradeless, NothingLive
  <2>2. CASE BrokerStep /\ ~Tradeless /\ cache' = cache
    <3>1. PICK c \in Ids, n \in 1..Quantity : Fill(c, n)
      BY <1>1, <2>2, BrokerTradeless
    <3>2. QED BY <3>1, FillFacts DEF NothingLive
  <2>3. QED BY <1>3, <2>1, <2>2
<1>5. OnlyStopLive => OnlyStopLive' \/ Post
  <2>1. CASE Tradeless
    BY <2>1 DEF Tradeless, OnlyStopLive
  <2>2. CASE BrokerStep /\ ~Tradeless /\ cache' = cache
    <3>1. PICK c \in Ids, n \in 1..Quantity : Fill(c, n)
      BY <1>1, <2>2, BrokerTradeless
    <3>2. \A d \in Ids : Live(d)' => Live(d) /\ order'[d].stop = order[d].stop
      BY <3>1, FillFacts DEF Live
    <3>3. QED BY <3>2 DEF OnlyStopLive
  <2>3. QED BY <1>3, <2>1, <2>2
<1>6. Post => result = "none" /\ pc = "post" /\ ~Flat /\ ~Protected
  BY DEF Post, Answers, Flat, Protected
<1>7. result' = "flat" => position' = 0 /\ NothingLive'
  <2> SUFFICES ASSUME result' = "flat" PROVE position' = 0 /\ NothingLive'
    OBVIOUS
  <2>1. result = "flat" \/ Flat
    BY AnswerStep
  <2>2. position = 0 /\ NothingLive
    BY <2>1, FlatIsTrue DEF Answers
  <2>3. ~Post
    BY <1>6, <2>1
  <2>4. QED BY <1>4, <2>2, <2>3
<1>8. result' = "holding_protected" \/ pc' = "adopted" => OnlyStopLive'
  <2> SUFFICES ASSUME result' = "holding_protected" \/ pc' = "adopted"
               PROVE  OnlyStopLive'
    OBVIOUS
  <2>1. result = "holding_protected" \/ pc = "adopted" \/ Protected
    BY AnswerStep
  <2>2. OnlyStopLive
    BY <2>1, ProtectedIsTrue DEF Answers
  <2>3. ~Post
    BY <1>6, <2>1
  <2>4. QED BY <1>5, <2>2, <2>3
<1>9. QED BY <1>7, <1>8, AnswerStep DEF Answers

-----------------------------------------------------------------------------
\* The layers above IInv.
Positions ==
  /\ Market /\ Tally /\ Announced /\ ProtectionEndsOnRecord /\ Seen /\ Answers

LEMMA InitPositions == Init => Positions
<1> SUFFICES ASSUME Init PROVE Positions
  OBVIOUS
<1>1. TypeInv
  BY InitType
<1>2. \A c \in Ids : order[c] = NoOrder /\ cache[c] = NoOrder
  BY DEF Init, BrokerInit
<1>3. SoldUpTo(NExits) = 0
  <2>1. \A k \in 1..NExits : ExitFills[k] = 0
    BY <1>2 DEF ExitFills, NoOrder, Ids, Exits
  <2>2. NExits \in 0..NExits
    BY ConstantFacts
  <2>3. QED BY <1>1, <2>1, <2>2, FillsType, SumsOfZero DEF SoldUpTo
<1>4. Market
  BY <1>2, <1>3, IdsFacts
     DEF Market, Init, BrokerInit, NoOrder, Cached, Live, WorkingStatus
<1>5. Tally /\ Announced
  BY DEF Init, Tally, Announced, AtExit, PastExits, SellingOne, Sending
<1>6. ProtectionEndsOnRecord
  BY <1>2, IdsFacts DEF ProtectionEndsOnRecord, NoOrder
<1>7. Seen /\ Answers
  BY DEF Init, Seen, Answers
<1>8. QED BY <1>4, <1>5, <1>6, <1>7 DEF Positions

LEMMA NextPositions == IInv /\ Positions /\ [Next]_vars => Positions'
<1> SUFFICES ASSUME IInv, Positions, [Next]_vars PROVE Positions'
  OBVIOUS
<1>1. IInv'
  BY NextIInv
<1>2. CASE Next
  BY <1>1, <1>2, MarketStep, TallyStep, AnnouncedStep, RecordedEnd, SeenStep,
     AnswersStep
     DEF Positions
<1>3. CASE UNCHANGED vars
  <2>1. Market' /\ Tally'
    BY <1>3 DEF vars, Positions, Market, Tally, AtExit, PastExits, SellingOne,
       SoldUpTo, ExitFills, Live, Cached, Owner, Residual, Acquired
  <2>2. Announced' /\ ProtectionEndsOnRecord' /\ Seen' /\ Answers'
    BY <1>3 DEF vars, Positions, Announced, AtExit, PastExits, SellingOne,
       ProtectionEndsOnRecord, Seen, Answers, Cached, NothingLive,
       OnlyStopLive, Live
  <2>3. QED BY <2>1, <2>2 DEF Positions
<1>4. QED BY <1>2, <1>3

\* In every reachable state the views, tallies and answers of the executor
\* relate to the account as the layers say.
THEOREM PositionsInvariance == Spec => []Positions
<1>1. Init => IInv /\ Positions
  BY InitIInv, InitPositions
<1>2. IInv /\ Positions /\ [Next]_vars => IInv' /\ Positions'
  BY NextIInv, NextPositions
<1>3. QED BY <1>1, <1>2, PTL DEF Spec

\* Whatever the broker does with acknowledgments, partial fills, cancels and
\* lagging views, and however often the process dies: the account never goes
\* short, and no exit ever offers more than is held.
THEOREM NoOversell == Spec => []NeverOversold
<1>1. IInv /\ Positions => NeverOversold
  <2> SUFFICES ASSUME IInv, Positions PROVE NeverOversold
    OBVIOUS
  <2>1. position >= 0 /\ position \in Int
    BY DEF Positions, Market, IInv, TypeInv, TypeOK, BrokerTypeOK
  <2>2. \A c \in Exits : Live(c) => order[c].qty - order[c].filled = position
    BY DEF Positions, Market
  <2>3. QED BY <2>1, <2>2 DEF NeverOversold
<1>2. QED BY <1>1, InductiveInvariant, PositionsInvariance, PTL

\* _drain's "flat" is true at the broker although the position and the open
\* orders it compared may be old, recover() of a later process included.
THEOREM HonestFlat == Spec => []FlatIsFlat
<1>1. Positions => FlatIsFlat
  BY DEF Positions, Answers, NothingLive, FlatIsFlat
<1>2. QED BY <1>1, PositionsInvariance, PTL

\* After "holding_protected" of execute or adopt_protected, the only order
\* that can be live is a stop for everything that is held.
THEOREM ProtectionCovers == Spec => []ProtectedIsCovered
<1>1. Positions => ProtectedIsCovered
  BY DEF Positions, Market, Answers, OnlyStopLive, ProtectedIsCovered
<1>2. QED BY <1>1, PositionsInvariance, PTL

\* The stop of a swing plan is never cancelled before drain_requested is in
\* the journal, whatever call of whatever process cancels it.
THEOREM ProtectionEndsDurably == Spec => []ProtectionEndsOnRecord
<1>1. Positions => ProtectionEndsOnRecord
  BY DEF Positions
<1>2. QED BY <1>1, PositionsInvariance, PTL

-----------------------------------------------------------------------------
(* The refinement.                                                         *)

MarketSide == IF LiveIds = {} THEN "none"
              ELSE IF LiveOrder = Entry THEN "buy" ELSE "sell"

MarketOpen == IF LiveIds = {} THEN 0
              ELSE order[LiveOrder].qty - order[LiveOrder].filled

LEMMA TheLiveOne ==
  ASSUME NEW S, NEW c, S = {c}
  PROVE  (CHOOSE x \in S : TRUE) = c
BY DEF LiveIds

LEMMA AbstractNow ==
  ASSUME NEW c \in Ids, Live(c), OneLiveOrder
  PROVE  /\ LiveIds # {}
         /\ MarketSide = IF c = Entry THEN "buy" ELSE "sell"
         /\ MarketOpen = order[c].qty - order[c].filled
<1>1. LiveIds = {c}
  BY DEF LiveIds, OneLiveOrder
<1>2. LiveOrder = c
  BY <1>1, TheLiveOne DEF LiveOrder
<1>3. QED BY <1>1, <1>2 DEF MarketSide, MarketOpen

LEMMA AbstractThen ==
  ASSUME NEW c \in Ids, Live(c)', OneLiveOrder'
  PROVE  /\ MarketSide' = IF c = Entry THEN "buy" ELSE "sell"
         /\ MarketOpen' = order'[c].qty - order'[c].filled
<1>1. LiveIds' = {c}
  BY DEF LiveIds, OneLiveOrder
<1>2. LiveOrder' = c
  BY <1>1, TheLiveOne DEF LiveOrder
<1>3. QED BY <1>1, <1>2 DEF MarketSide, MarketOpen

LEMMA AbstractIdle ==
  /\ NothingLive => LiveIds = {} /\ MarketSide = "none" /\ MarketOpen = 0
  /\ NothingLive' => MarketSide' = "none" /\ MarketOpen' = 0
BY DEF NothingLive, LiveIds, MarketSide, MarketOpen

LEMMA AbstractSame ==
  ASSUME OneLiveOrder, OneLiveOrder', position' = position, Entry \in Ids,
         \A c \in Ids : /\ Live(c)' <=> Live(c)
                        /\ order'[c].qty = order[c].qty
                        /\ order'[c].filled = order[c].filled
                        /\ order'[c].status = "absent"
                             <=> order[c].status = "absent"
  PROVE  UNCHANGED Abstract!vars
<1>1. MarketSide' = MarketSide /\ MarketOpen' = MarketOpen
  <2>1. CASE NothingLive
    <3>1. NothingLive'
      BY <2>1 DEF NothingLive
    <3>2. QED BY <2>1, <3>1, AbstractIdle
  <2>2. CASE ~NothingLive
    <3>1. PICK c \in Ids : Live(c)
      BY <2>2 DEF NothingLive
    <3>2. Live(c)'
      BY <3>1
    <3>3. QED BY <3>1, <3>2, AbstractNow, AbstractThen
  <2>3. QED BY <2>1, <2>2
<1>2. (order'[Entry].status # "absent") = (order[Entry].status # "absent")
  OBVIOUS
<1>3. QED BY <1>1, <1>2 DEF Abstract!vars, MarketSide, MarketOpen

\* The POST of the entry buys, the POST of an exit offers shares that are held.
LEMMA AbstractPost ==
  ASSUME IInv, Positions, Post, IInv'
  PROVE  Abstract!Next
<1>1. /\ Market /\ Tally /\ OneLiveOrder /\ OneLiveOrder' /\ Entry \in Ids
      /\ pc = "post" /\ cur \in Ids
  BY IdsFacts DEF Positions, IInv, Settled, Post, TypeInv, TypeOK
<1>2. MarketSide = "none" /\ MarketOpen = 0
  BY <1>1, PostFacts, AbstractIdle
<1>3. Live(cur) = FALSE
  BY <1>1, PostFacts DEF NothingLive
<1>4. ASSUME NEW c, c = cur
      PROVE  /\ MarketSide' = IF c = Entry THEN "buy" ELSE "sell"
             /\ MarketOpen' = SendQuantity
  <2>1. Live(c)' /\ c \in Ids
    BY <1>1, <1>4, PostFacts DEF Live
  <2>2. order'[c].qty = SendQuantity /\ order'[c].filled = 0
    BY <1>1, <1>4, PostFacts
  <2>3. SendQuantity \in Int
    <3>1. c = Entry => SendQuantity = Quantity
      BY <1>1, <1>4, PostFacts
    <3>2. c \in Exits => SendQuantity = position
      BY <1>1, <1>4, PostFacts
    <3>3. QED BY <2>1, <3>1, <3>2, ConstantFacts
         DEF Ids, IInv, TypeInv, TypeOK, BrokerTypeOK
  <2>4. QED BY <1>1, <2>1, <2>2, <2>3, AbstractThen
<1>5. position' = position
  BY <1>1, PostFacts
<1>6. CASE cur = Entry
  <2>1. order[Entry].status = "absent" /\ order'[Entry].status = "sent"
    BY <1>1, <1>6, PostFacts
  <2>2. MarketSide' = "buy" /\ MarketOpen' = Quantity
    BY <1>1, <1>4, <1>6, PostFacts
  <2>3. Abstract!Buy
    BY <1>5, <2>1, <2>2 DEF Abstract!Buy, MarketSide, MarketOpen
  <2>4. QED BY <2>3 DEF Abstract!Next
<1>7. CASE cur # Entry
  <2>1. SendQuantity = position /\ position > 0 /\ order'[Entry] = order[Entry]
    BY <1>1, <1>7, PostFacts DEF Ids
  <2>2. MarketSide' = "sell" /\ MarketOpen' = position
    BY <1>4, <1>7, <2>1
  <2>3. position \in 1..Quantity
    <3>1. order'[cur] \in OrderRecord /\ order'[cur].qty = position
      <4>1. order' \in [Ids -> OrderRecord]
        BY DEF IInv, TypeInv, TypeOK, BrokerTypeOK
      <4>2. QED BY <1>1, <2>1, <4>1, PostFacts
    <3>2. QED BY <2>1, <3>1, OrderFields, ConstantFacts
  <2>4. Abstract!Sell(position)
    BY <1>2, <1>5, <2>1, <2>2, <2>3, ConstantFacts
       DEF Abstract!Sell, MarketSide, MarketOpen
  <2>5. QED BY <2>3, <2>4 DEF Abstract!Next
<1>8. QED BY <1>6, <1>7

\* A fill of the broker is a trade of the one order in the market.
LEMMA AbstractFill ==
  ASSUME IInv, Positions, NEW c \in Ids, NEW n \in 1..Quantity, Fill(c, n),
         IInv'
  PROVE  Abstract!Next
<1>1. /\ Market /\ OneLiveOrder /\ OneLiveOrder' /\ Entry \in Ids /\ Live(c)
      /\ position \in Int /\ n \in Nat
      /\ order[c].qty \in Nat /\ order[c].filled \in Nat
  <2>1. Market /\ OneLiveOrder /\ OneLiveOrder' /\ TypeInv
    BY DEF Positions, IInv, Settled
  <2>2. Live(c) /\ Entry \in Ids
    BY <2>1, IdsFacts, FillFacts
  <2>3. position \in Int /\ n \in Nat
    BY <2>1, ConstantFacts DEF TypeInv, TypeOK, BrokerTypeOK
  <2>4. QED BY <2>1, <2>2, <2>3, FillsType
<1>2. /\ MarketSide = IF c = Entry THEN "buy" ELSE "sell"
      /\ MarketOpen = order[c].qty - order[c].filled
  BY <1>1, AbstractNow
<1>3. n \in 1..MarketOpen /\ MarketSide # "none"
  BY <1>1, <1>2, FillFacts
<1>4. position' = IF MarketSide = "buy" THEN position + n ELSE position - n
  BY <1>1, <1>2, FillFacts
<1>5. (order'[Entry].status # "absent") = (order[Entry].status # "absent")
  BY <1>1, FillFacts DEF WorkingStatus
<1>6. /\ MarketOpen' = MarketOpen - n
      /\ MarketSide' = IF n = MarketOpen THEN "none" ELSE MarketSide
  <2>1. CASE n = MarketOpen
    <3>1. order'[c].status = "filled"
      BY <1>1, <1>2, <2>1, FillFacts
    <3>2. NothingLive'
      BY <1>1, <3>1, FillFacts DEF NothingLive, Live, WorkingStatus
    <3>3. QED BY <1>1, <1>2, <2>1, <3>2, AbstractIdle
  <2>2. CASE n # MarketOpen
    <3>1. order'[c].status \in WorkingStatus
      BY <1>1, <1>2, <2>2, FillFacts
    <3>2. Live(c)'
      BY <3>1 DEF Live
    <3>3. order'[c].qty - order'[c].filled = MarketOpen - n
      BY <1>1, <1>2, FillFacts
    <3>4. QED BY <1>1, <1>2, <2>2, <3>2, <3>3, AbstractThen
  <2>3. QED BY <2>1, <2>2
<1>7. Abstract!Trade(n)
  BY <1>3, <1>4, <1>5, <1>6 DEF Abstract!Trade, MarketSide, MarketOpen
<1>8. QED BY <1>7 DEF Abstract!Next

\* An order that ends unfilled closes the position's order, any other step of
\* the broker, or a cancel request, is not visible in it.
LEMMA AbstractBroker ==
  ASSUME IInv, Positions, BrokerStep, IInv'
  PROVE  Abstract!Next \/ UNCHANGED Abstract!vars
<1>1. /\ OneLiveOrder /\ OneLiveOrder' /\ Entry \in Ids
      /\ order \in [Ids -> OrderRecord]
  BY IdsFacts DEF IInv, Settled, TypeInv, TypeOK, BrokerTypeOK
<1>2. CASE RefreshAccount \/ ForeignOrder
  <2>1. order' = order /\ position' = position
    BY <1>2 DEF RefreshAccount, ForeignOrder
  <2>2. QED BY <1>1, <2>1, AbstractSame DEF Live
<1>3. ASSUME NEW c \in Ids, Accept(c) \/ Expire(c)
      PROVE  Abstract!Next \/ UNCHANGED Abstract!vars
  <2>1. PICK s \in {"working", "canceled"} :
          /\ order' = [order EXCEPT ![c].status = s]
          /\ s = "working" => order[c].status = "sent"
          /\ s = "canceled" => order[c].status \in WorkingStatus
    BY <1>3 DEF Accept, Expire
  <2>2. /\ order'[c] = [order[c] EXCEPT !.status = s] /\ order[c] \in OrderRecord
        /\ \A d \in Ids : d # c => order'[d] = order[d]
    BY <1>1, <2>1
  <2>3. /\ order'[c].status = s /\ order'[c].qty = order[c].qty
        /\ order'[c].filled = order[c].filled
    BY <2>2 DEF OrderRecord
  <2>4. position' = position /\ Live(c)
    BY <1>3 DEF Accept, Expire, Live
  <2>5. CASE s = "working"
    <3>1. \A d \in Ids : /\ Live(d)' <=> Live(d)
                         /\ order'[d].qty = order[d].qty
                         /\ order'[d].filled = order[d].filled
                         /\ order'[d].status = "absent"
                              <=> order[d].status = "absent"
      BY <2>1, <2>2, <2>3, <2>4, <2>5 DEF Live, WorkingStatus
    <3>2. QED BY <1>1, <2>4, <3>1, AbstractSame
  <2>6. CASE s = "canceled"
    <3>1. NothingLive'
      BY <1>1, <2>2, <2>3, <2>4, <2>6
         DEF NothingLive, OneLiveOrder, Live, WorkingStatus
    <3>2. MarketSide # "none"
      BY <1>1, <2>4, AbstractNow
    <3>3. MarketSide' = "none" /\ MarketOpen' = 0
      BY <3>1, AbstractIdle
    <3>4. (order'[Entry].status # "absent") = (order[Entry].status # "absent")
      BY <1>1, <2>1, <2>2, <2>3, <2>6 DEF WorkingStatus
    <3>5. Abstract!Close
      BY <2>4, <3>2, <3>3, <3>4 DEF Abstract!Close, MarketSide, MarketOpen
    <3>6. QED BY <3>5 DEF Abstract!Next
  <2>7. QED BY <2>5, <2>6
<1>4. QED BY <1>2, <1>3, AbstractFill DEF BrokerStep

LEMMA AbstractCancelling ==
  ASSUME IInv, Cancelling, IInv'
  PROVE  UNCHANGED Abstract!vars
<1>1. /\ OneLiveOrder /\ OneLiveOrder' /\ Entry \in Ids /\ cur \in Ids
      /\ order \in [Ids -> OrderRecord]
  BY IdsFacts DEF IInv, Settled, TypeInv, TypeOK, BrokerTypeOK
<1>2. position' = position /\ CancelOrder(cur)
  BY DEF Cancelling
<1>3. CASE order' = order
  BY <1>1, <1>2, <1>3, AbstractSame DEF Live
<1>4. CASE /\ order[cur].status = "working"
           /\ order' = [order EXCEPT ![cur].status = "canceling"]
  <2>1. /\ order'[cur] = [order[cur] EXCEPT !.status = "canceling"]
        /\ order[cur] \in OrderRecord
        /\ \A d \in Ids : d # cur => order'[d] = order[d]
    BY <1>1, <1>4
  <2>2. /\ order'[cur].status = "canceling" /\ order'[cur].qty = order[cur].qty
        /\ order'[cur].filled = order[cur].filled
    BY <2>1 DEF OrderRecord
  <2>3. \A d \in Ids : /\ Live(d)' <=> Live(d)
                       /\ order'[d].qty = order[d].qty
                       /\ order'[d].filled = order[d].filled
                       /\ order'[d].status = "absent"
                            <=> order[d].status = "absent"
    BY <1>4, <2>1, <2>2 DEF Live, WorkingStatus
  <2>4. QED BY <1>1, <1>2, <2>3, AbstractSame
<1>5. QED BY <1>2, <1>3, <1>4 DEF CancelOrder

LEMMA AbstractInit == Init => Abstract!Init
<1> SUFFICES ASSUME Init PROVE Abstract!Init
  OBVIOUS
<1>1. \A c \in Ids : order[c].status = "absent"
  BY DEF Init, BrokerInit, NoOrder
<1>2. NothingLive /\ order[Entry].status = "absent" /\ position = 0
  BY <1>1, IdsFacts DEF NothingLive, Live, WorkingStatus, Init, BrokerInit
<1>3. MarketSide = "none" /\ MarketOpen = 0
  BY <1>2, AbstractIdle
<1>4. (order[Entry].status # "absent") = FALSE
  BY <1>2
<1>5. QED BY <1>2, <1>3, <1>4 DEF Abstract!Init, MarketSide, MarketOpen

LEMMA AbstractStep ==
  IInv /\ Positions /\ [Next]_vars => [Abstract!Next]_(Abstract!vars)
<1> SUFFICES ASSUME IInv, Positions, [Next]_vars
             PROVE  Abstract!Next \/ UNCHANGED Abstract!vars
  OBVIOUS
<1>1. IInv' /\ OneLiveOrder /\ OneLiveOrder' /\ Entry \in Ids /\ TypeInv
  BY NextIInv, IdsFacts DEF IInv, Settled
<1>2. CASE order' = order /\ position' = position
  BY <1>1, <1>2, AbstractSame DEF Live
<1>3. CASE UNCHANGED vars
  BY <1>2, <1>3 DEF vars
<1>4. CASE Next
  <2>1. \/ SendStep \/ TerminalStep \/ DrainStep \/ HoldStep
        \/ ProtectionStep \/ OtherStep
    BY <1>4 DEF Next, ExecutorStep, OtherStep, CallStep
  <2>2. Quiet \/ Cancelling \/ Post \/ EnvironmentStep
    BY <1>1, <2>1, QuietSend, QuietTerminal, QuietDrain, QuietHoldAndProtection,
       QuietOther
  <2>3. CASE Quiet
    BY <1>2, <2>3 DEF Quiet
  <2>4. CASE Cancelling
    BY <1>1, <2>4, AbstractCancelling
  <2>5. CASE Post
    BY <1>1, <2>5, AbstractPost
  <2>6. CASE EnvironmentStep
    BY <1>1, <2>6, AbstractBroker DEF EnvironmentStep
  <2>7. QED BY <2>2, <2>3, <2>4, <2>5, <2>6
<1>5. QED BY <1>3, <1>4

\* The whole lifecycle, broker, journal faults and crashes included, is an
\* implementation of the long-only position: it buys once, offers only what it
\* holds, one order at a time, and changes the position only by its trades.
THEOREM ImplementsPosition == Spec => Implements
<1>1. Init => Abstract!Init
  BY AbstractInit
<1>2. IInv /\ Positions /\ [Next]_vars => [Abstract!Next]_(Abstract!vars)
  BY AbstractStep
<1>3. QED BY <1>1, <1>2, InductiveInvariant, PositionsInvariance, PTL
     DEF Spec, Implements, Abstract!Spec
=============================================================================
