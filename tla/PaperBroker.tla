---------------------------- MODULE PaperBroker ----------------------------
(***************************************************************************)
(* The paper broker as src/trader_engine/execution/lifecycle.py uses it    *)
(* through the Broker protocol.  The broker is outside the repository, so  *)
(* everything here is what the executor has to assume about it: an order   *)
(* is known by its client ID, a POST may reach the broker late or never,   *)
(* a working order fills in any number of parts, a cancel request races    *)
(* with fills, and the account views (position, list of open orders) lag   *)
(* behind the order details.                                               *)
(*                                                                         *)
(* Client IDs of one TradePlan: 0 is plan.entry_id and 1..NExits are the   *)
(* reserved plan.exit_ids, in order.                                       *)
(***************************************************************************)
EXTENDS Integers

CONSTANTS
  NExits,       \* number of reserved exit IDs (3 in TradePlan.create)
  Quantity      \* plan.quantity, in shares

ASSUME NExitsAssumption == NExits \in Nat \ {0}
ASSUME QuantityAssumption == Quantity \in Nat \ {0}

VARIABLES
  order,        \* order[c]: the broker's record of client ID c
  position,     \* shares of the symbol in the account
  account,      \* the lagging account view: position and open order IDs
  foreign       \* a working order of somebody else exists on the symbol

brokerVars == <<order, position, account, foreign>>

Entry == 0
Exits == 1..NExits
Ids   == {Entry} \cup Exits

(***************************************************************************)
(* "absent"    get_order answers None and no POST was made;                *)
(* "sent"      a POST left the executor, the broker has not taken it yet   *)
(*             (it may still do so at any later time, or never);           *)
(* "working", "canceling"   accepted, the second with a cancel pending;    *)
(* "filled", "canceled"     terminal; "canceled" stands for canceled,      *)
(*             expired and rejected, which the executor treats alike.      *)
(***************************************************************************)
Status == {"absent", "sent", "working", "canceling", "filled", "canceled"}
TerminalStatus == {"filled", "canceled"}
WorkingStatus  == {"working", "canceling"}

OrderRecord == [status : Status, qty : 0..Quantity, filled : 0..Quantity,
                stop : BOOLEAN]

NoOrder == [status |-> "absent", qty |-> 0, filled |-> 0, stop |-> FALSE]

Visible(c) == order[c].status \notin {"absent", "sent"}
Live(c)    == order[c].status \in {"sent"} \cup WorkingStatus

BrokerTypeOK ==
  /\ order \in [Ids -> OrderRecord]
  /\ position \in Int
  /\ account \in [position : Int, open : SUBSET Ids]
  /\ foreign \in BOOLEAN

BrokerInit ==
  /\ order = [c \in Ids |-> NoOrder]
  /\ position = 0
  /\ account = [position |-> 0, open |-> {}]
  /\ foreign = FALSE

-----------------------------------------------------------------------------
(* What happens at the broker, without the executor.                       *)

Accept(c) ==
  /\ order[c].status = "sent"
  /\ order' = [order EXCEPT ![c].status = "working"]
  /\ UNCHANGED <<position, account, foreign>>

\* n more shares of a working order trade; a cancel request does not stop it.
Fill(c, n) ==
  /\ order[c].status \in WorkingStatus
  /\ n \in 1..(order[c].qty - order[c].filled)
  /\ order' = [order EXCEPT
       ![c].filled = @ + n,
       ![c].status = IF order[c].filled + n = order[c].qty
                     THEN "filled" ELSE @]
  /\ position' = IF c = Entry THEN position + n ELSE position - n
  /\ UNCHANGED <<account, foreign>>

\* The cancel request is executed, or the order expires or is rejected.
Expire(c) ==
  /\ order[c].status \in WorkingStatus
  /\ order' = [order EXCEPT ![c].status = "canceled"]
  /\ UNCHANGED <<position, account, foreign>>

\* The position and open-order caches catch up with the order details.
\* All orders of the plan trade the same symbol: one buy, the rest sells.
RefreshAccount ==
  /\ account' = [position |-> position,
                 open |-> {c \in Ids : order[c].status \in WorkingStatus}]
  /\ account' # account
  /\ UNCHANGED <<order, position, foreign>>

ForeignOrder ==
  /\ foreign' = ~foreign
  /\ UNCHANGED <<order, position, account>>

BrokerStep ==
  \/ \E c \in Ids : Accept(c) \/ Expire(c)
  \/ \E c \in Ids, n \in 1..Quantity : Fill(c, n)
  \/ RefreshAccount
  \/ ForeignOrder

-----------------------------------------------------------------------------
(* Requests of the executor.                                               *)

\* The POST leaves the executor; the acknowledgment is a later step.
SubmitOrder(c, qty, stop) ==
  order' = [order EXCEPT ![c] =
    [status |-> "sent", qty |-> qty, filled |-> 0, stop |-> stop]]

\* DELETE: it may be lost, and does nothing to an order that is terminal.
CancelOrder(c) ==
  \/ /\ order[c].status = "working"
     /\ order' = [order EXCEPT ![c].status = "canceling"]
  \/ order' = order
=============================================================================
