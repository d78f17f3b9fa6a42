-------------------------- MODULE LongOnlyPosition --------------------------
(***************************************************************************)
(* What the order lifecycle promises to the account, without the executor: *)
(* a plan buys at most once, has one order in the market at a time, never  *)
(* offers a share it does not own, and moves only by trades of that order. *)
(* PaperExecutor implements it (Implements, in module PaperExecutorRefines).*)
(***************************************************************************)
EXTENDS Integers

CONSTANT Quantity       \* shares of the entry order

VARIABLES
  entered,      \* the entry order has been sent
  held,         \* shares owned
  side,         \* side of the order in the market, "none" if there is none
  open          \* shares it may still trade

vars == <<entered, held, side, open>>

Init == entered = FALSE /\ held = 0 /\ side = "none" /\ open = 0

Buy ==
  /\ ~entered
  /\ entered' = TRUE /\ side' = "buy" /\ open' = Quantity
  /\ UNCHANGED held

Sell(q) ==
  /\ side = "none" /\ q \in 1..held
  /\ side' = "sell" /\ open' = q
  /\ UNCHANGED <<entered, held>>

Trade(n) ==
  /\ side # "none" /\ n \in 1..open
  /\ held' = IF side = "buy" THEN held + n ELSE held - n
  /\ open' = open - n
  /\ side' = IF n = open THEN "none" ELSE side
  /\ UNCHANGED entered

Close ==
  /\ side # "none"
  /\ side' = "none" /\ open' = 0
  /\ UNCHANGED <<entered, held>>

Next ==
  \/ Buy \/ Close
  \/ \E q \in 1..Quantity : Sell(q) \/ Trade(q)

Spec == Init /\ [][Next]_vars
=============================================================================
