-------------------------------- MODULE Park --------------------------------
(***************************************************************************)
(* What a task that parks promises the tasks behind it, however it is      *)
(* resolved: it is over once each time it is run, counts them down then    *)
(* and not before, and has them wait again when it is put back.            *)
(***************************************************************************)
EXTENDS Integers

VARIABLES
  over,   \* the task is over
  waits   \* what remaining_deps of a task behind it has for this one

Init == ~over /\ waits = 1

Resolve == ~over /\ over' /\ waits' = waits - 1

PutBack == over /\ ~over' /\ waits' = 1

Spec == Init /\ [][Resolve \/ PutBack]_<<over, waits>>
=============================================================================
