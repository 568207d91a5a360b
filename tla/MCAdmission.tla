----------------------------- MODULE MCAdmission -----------------------------
(***************************************************************************)
(* Four runs of one key for TLC to run Admission on.                       *)
(***************************************************************************)
EXTENDS Admission

\* Two runs that wait their turn at a cap of two, one of a later definition
\* that takes the place of the others, and one of it from a pull request.
CapLowered == <<2, 2, 1, 1>>
Mixed == <<"queue", "queue", "supersede", "supersede">>
TwoSources == <<"main", "pr", "main", "pr">>
=============================================================================
