--------------------------- MODULE SerialExecutor ---------------------------
(***************************************************************************)
(* What IOScheduler promises to the code built on it (IOScheduler.h, the   *)
(* comments on post and dispatch): the tasks handed to it are executed by  *)
(* one executor, one after the other, in the order in which they were      *)
(* handed over, each at most once.  The tasks are never forgotten: those   *)
(* not yet executed stay in the order they came.                           *)
(***************************************************************************)
EXTENDS Naturals, Sequences

CONSTANT Items      \* everything that can be handed to the executor

VARIABLES
  submitted,        \* the items handed over so far, in order
  executed          \* how many of them have been executed

vars == <<submitted, executed>>

Init ==
  /\ submitted = <<>>
  /\ executed = 0

Submit(i) ==
  /\ submitted' = Append(submitted, i)
  /\ UNCHANGED executed

Execute ==
  /\ executed < Len(submitted)
  /\ executed' = executed + 1
  /\ UNCHANGED submitted

Next ==
  \/ \E i \in Items : Submit(i)
  \/ Execute

Spec == Init /\ [][Next]_vars

=============================================================================
