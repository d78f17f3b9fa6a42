------------------------ MODULE PaperExecutorRefines ------------------------
(***************************************************************************)
(* PaperExecutor implements LongOnlyPosition: the abstract order is the    *)
(* one live order of the plan, the abstract holding its true position.     *)
(***************************************************************************)
EXTENDS PaperExecutor

LiveIds == {c \in Ids : Live(c)}

LiveOrder == CHOOSE c \in LiveIds : TRUE

Abstract == INSTANCE LongOnlyPosition WITH
  entered <- order[Entry].status # "absent",
  held    <- position,
  side    <- IF LiveIds = {} THEN "none"
             ELSE IF LiveOrder = Entry THEN "buy" ELSE "sell",
  open    <- IF LiveIds = {} THEN 0
             ELSE order[LiveOrder].qty - order[LiveOrder].filled

\* Every step of the executor, of the broker and of a crash is a step of the
\* long-only position, or leaves it alone.
Implements == Abstract!Spec
=============================================================================
