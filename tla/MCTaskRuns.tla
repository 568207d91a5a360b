----------------------------- MODULE MCTaskRuns -----------------------------
(***************************************************************************)
(* Small workflows for TLC to run TaskRuns on.                             *)
(***************************************************************************)
EXTENDS TaskRuns, TLC

CONSTANTS e1, e2

Engines2 == Permutations({e1, e2})

A == "a"
B == "b"
C == "c"
D == "d"
E == "e"
F == "f"

AllSuccess == [t \in Tasks |-> "all_success"]
OneAttempt == [t \in Tasks |-> {1}]
NoRepeat == [t \in Tasks |-> 0]

\* Every rule decides: a gate a; a sensor b, whatever a came to; c, by default
\* and with its failure allowed, and d, with a runtime `when`, about the two;
\* then e and f about what those came to, a skip among it.
KindsTasks == {A, B, C, D, E, F}
KindsDeps == A :> {} @@ B :> {A} @@ C :> {A, B} @@ D :> {A, B} @@ E :> {C, D} @@ F :> {C}
KindsRules ==
  A :> "all_success" @@ B :> "all_done" @@ C :> "all_success" @@ D :> "one_failed"
    @@ E :> "none_failed" @@ F :> "all_failed"

\* a -> b, where a is run again: after a failure, or by its `repeat:`.
ChainTasks == {A, B}
ChainDeps == A :> {} @@ B :> {A}
ChainBudgets == A :> {0, 1, 3} @@ B :> {1}
ChainRepeat == A :> 2 @@ B :> 0
=============================================================================
