------------------------------ MODULE Admission ------------------------------
(***************************************************************************)
(* max_active_runs: the runs of one workflow and one concurrency key, from *)
(* their creation to their end.  A run over the cap is refused, waits, or  *)
(* takes the place of the runs before it (when_full).  A run that waits is *)
(* held by one dependency more on each of its tasks, which its admission   *)
(* takes away.                                                             *)
(*                                                                         *)
(* What TaskRuns has in detail is here one bit, whether a worker holds a   *)
(* task of the run.  Every action is one write transaction of              *)
(* crates/dagron-core/src/db/sqlite.rs.                                    *)
(***************************************************************************)
EXTENDS Integers, FiniteSets

CONSTANTS
  Runs,        \* the runs that may be made
  Cap,         \* max_active_runs, as the definition of each has it
  WhenFull,    \* when_full
  Confined,    \* the runs that are not trusted
  Source,      \* forge, repository, pull request and ref of each
  MaxWaiting,  \* DAGRON_MAX_WAITING_RUNS
  MaxAgain     \* bound on the runs set running again

ASSUME AdmissionAssumption ==
  /\ IsFiniteSet(Runs)
  /\ Cap \in [Runs -> Nat \ {0}]
  /\ WhenFull \in [Runs -> {"refuse", "queue", "supersede"}]
  /\ Confined \subseteq Runs
  /\ MaxWaiting \in Nat \ {0} /\ MaxAgain \in Nat
  /\ \A r \in Runs : WhenFull[r] = "supersede" => Cap[r] = 1

VARIABLES
  runStatus,  \* "none" before it is made
  made,       \* created_at, as a rank: 0 before it is made
  queued,     \* queued_at IS NOT NULL
  admitted,   \* admitted_at IS NOT NULL
  stopping,   \* stopping_as IS NOT NULL
  busy,       \* a worker holds a task of the run
  hold,       \* what remaining_deps of its pending tasks has over their dependencies
  again       \* the runs set running again so far

rowVars == <<made, queued, admitted>>
vars == <<runStatus, made, queued, admitted, stopping, busy, hold, again>>

Ends == {"succeeded", "failed", "cancelled"}

\* The rows hold values of their columns' types.
TypeOK ==
  /\ runStatus \in [Runs -> {"none", "running"} \cup Ends]
  /\ made \in [Runs -> Nat]
  /\ queued \in [Runs -> BOOLEAN] /\ admitted \in [Runs -> BOOLEAN]
  /\ stopping \in [Runs -> BOOLEAN] /\ busy \in [Runs -> BOOLEAN]
  /\ hold \in [Runs -> {0, 1}]
  /\ again \in 0 .. MaxAgain

Init ==
  /\ runStatus = [r \in Runs |-> "none"]
  /\ made = [r \in Runs |-> 0]
  /\ queued = [r \in Runs |-> FALSE] /\ admitted = [r \in Runs |-> FALSE]
  /\ stopping = [r \in Runs |-> FALSE] /\ busy = [r \in Runs |-> FALSE]
  /\ hold = [r \in Runs |-> 0]
  /\ again = 0

Waiting(r) == runStatus[r] = "running" /\ queued[r] /\ ~admitted[r]

InFlight_bug(before) == {q \in before : runStatus[q] = "running" /\ ~Waiting(q)}

\* runs_in_flight: a run that waits and a run being stopped count too.
InFlight(before) == {q \in before : runStatus[q] = "running"}

Active == {q \in Runs : runStatus[q] = "running" /\ ~Waiting(q)}

-----------------------------------------------------------------------------
Superseded_bug(r) ==
  {q \in Runs : /\ WhenFull[r] = "supersede"
                /\ runStatus[q] = "running" /\ ~stopping[q] /\ ~Waiting(q)
                /\ r \in Confined => Source[q] = Source[r]}

\* supersede_runs: whose place the new run takes.  One that is not trusted
\* takes that of its own source's runs alone.
Superseded(r) ==
  {q \in Runs : /\ WhenFull[r] = "supersede"
                /\ runStatus[q] = "running" /\ ~stopping[q]
                /\ r \in Confined => Source[q] = Source[r]}

\* create_run_full: cancel whom it supersedes, then refuse the run, let it
\* wait or let it run, all in one transaction.  A refusal undoes the rest.
CreateRun(r) ==
  LET ended == {q \in Superseded(r) : ~busy[q]}
      others == InFlight(Runs \ ended)
      full == Cardinality(others) >= Cap[r]
  IN  /\ runStatus[r] = "none"
      /\ full => /\ WhenFull[r] # "refuse"
                 /\ Cardinality({q \in others : Waiting(q)}) < MaxWaiting
      /\ runStatus' = [q \in Runs |-> IF q = r THEN "running"
                                      ELSE IF q \in ended THEN "cancelled"
                                      ELSE runStatus[q]]
      /\ stopping' = [q \in Runs |-> stopping[q] \/ q \in Superseded(r) \ ended]
      /\ made' = [made EXCEPT ![r] = Cardinality({q \in Runs : made[q] > 0}) + 1]
      /\ queued' = [queued EXCEPT ![r] = full]
      /\ hold' = [hold EXCEPT ![r] = IF full THEN 1 ELSE 0]
      /\ UNCHANGED <<admitted, busy, again>>

Admissible_bug ==
  LET ahead(q) == {p \in Runs : Waiting(p) /\ made[p] < made[q]}
  IN  {r \in Runs : /\ Waiting(r)
                    /\ \A q \in ahead(r) \cup {r} : Cardinality(Active) < Cap[q]}

AdmissibleAll_bug ==
  {r \in Runs : Waiting(r) /\ Cardinality(InFlight(Runs)) < Cap[r]}

\* Who is let in: the runs that wait, oldest first, each while there is room
\* under its own cap; the first that has none stops the ones behind it.
Admissible ==
  LET ahead(q) == {p \in Runs : Waiting(p) /\ made[p] < made[q]}
  IN  {r \in Runs : /\ Waiting(r)
                    /\ \A q \in ahead(r) \cup {r} :
                         Cardinality(Active) + Cardinality(ahead(q)) < Cap[q]}

\* admit_waiting_runs.
AdmitWaitingRuns ==
  /\ Admissible # {}
  /\ admitted' = [r \in Runs |-> admitted[r] \/ r \in Admissible]
  /\ hold' = [r \in Runs |-> IF r \in Admissible THEN hold[r] - 1 ELSE hold[r]]
  /\ UNCHANGED <<runStatus, made, queued, stopping, busy, again>>

-----------------------------------------------------------------------------
(* The life of a run, as TaskRuns has it *)

\* A task of the run is claimed: none of them can be while each is held.
Claim(r) ==
  /\ runStatus[r] = "running" /\ ~stopping[r] /\ hold[r] < 1 /\ ~busy[r]
  /\ busy' = [busy EXCEPT ![r] = TRUE]
  /\ UNCHANGED <<runStatus, rowVars, stopping, hold, again>>

\* The last task a worker holds is over.  A run being stopped ends with it
\* (settle_stopping, finish_stopped_run).
WorkEnds(r) ==
  /\ busy[r]
  /\ busy' = [busy EXCEPT ![r] = FALSE]
  /\ stopping' = [stopping EXCEPT ![r] = FALSE]
  /\ runStatus' = [runStatus EXCEPT ![r] = IF stopping[r] THEN "cancelled" ELSE @]
  /\ UNCHANGED <<rowVars, hold, again>>

\* reap, of a run whose tasks are all over.
Reap(r) ==
  /\ runStatus[r] = "running" /\ ~stopping[r] /\ ~busy[r] /\ hold[r] < 1
  /\ \E end \in {"succeeded", "failed"} : runStatus' = [runStatus EXCEPT ![r] = end]
  /\ UNCHANGED <<rowVars, stopping, busy, hold, again>>

\* cancel_run, of a run that waits too.  cancel_overdue_runs leaves those out,
\* and does no more to the others.
CancelRun(r) ==
  /\ runStatus[r] = "running"
  /\ stopping' = [stopping EXCEPT ![r] = busy[r]]
  /\ runStatus' = [runStatus EXCEPT ![r] = IF busy[r] THEN @ ELSE "cancelled"]
  /\ UNCHANGED <<rowVars, busy, hold, again>>

RunAgain_bug(r) ==
  /\ again < MaxAgain /\ again' = again + 1
  /\ runStatus[r] \in Ends
  /\ Cardinality(InFlight(Runs \ {r})) < Cap[r]
  /\ runStatus' = [runStatus EXCEPT ![r] = "running"]
  /\ hold' = [hold EXCEPT ![r] = 0]
  /\ UNCHANGED <<made, queued, admitted, stopping, busy>>

\* What the four operations of RunAgain do to the row of an ended run: refused
\* while its key is full without it; never again a run that waits; its tasks
\* put back with the dependencies they have.
RunAgain(r) ==
  /\ again < MaxAgain /\ again' = again + 1
  /\ runStatus[r] \in Ends
  /\ Cardinality(InFlight(Runs \ {r})) < Cap[r]
  /\ runStatus' = [runStatus EXCEPT ![r] = "running"]
  /\ queued' = [queued EXCEPT ![r] = @ /\ admitted[r]]
  /\ hold' = [hold EXCEPT ![r] = 0]
  /\ UNCHANGED <<made, admitted, stopping, busy>>

Next ==
  \/ AdmitWaitingRuns
  \/ \E r \in Runs : \/ CreateRun(r) \/ Claim(r) \/ WorkEnds(r) \/ Reap(r)
                     \/ CancelRun(r) \/ RunAgain(r)

Spec == Init /\ [][Next]_vars

\* The sweep runs on every tick, and every run that is let in ends (RunEnds of
\* TaskRuns).  No run has to be made, cancelled or run again.
FairSpec ==
  /\ Spec
  /\ WF_vars(AdmitWaitingRuns)
  /\ \A r \in Runs : WF_vars(WorkEnds(r)) /\ SF_vars(Reap(r))

-----------------------------------------------------------------------------
(* Properties *)

\* The cap holds through creations, admissions, reruns and stops: the runs of
\* the key that may have work out are no more than the largest cap among them
\* allows.
CapHeld ==
  Active = {} \/ \E r \in Active : Cardinality(Active) <= Cap[r]

\* Exactly the runs that wait are held: the dependency that create_run_full
\* adds is taken away once, by the admission, and a run that was cancelled as
\* it waited and is run again is neither held nor admitted.
HeldWhileWaiting ==
  \A r \in Runs : runStatus[r] = "running" => hold[r] = IF Waiting(r) THEN 1 ELSE 0

\* "Runs go in the order they came": when one starts, each that came before it,
\* with a cap as large, and still waits has room as well.  (A new run under a
\* raised cap may overtake one that waits under the old.)
NoOvertaking ==
  [][\A q, r \in Runs :
       /\ Waiting(q) /\ Waiting(q)' /\ r \notin Active /\ (r \in Active)'
       /\ made[q] < made'[r] /\ Cap[r] <= Cap[q]
       => Cardinality(Active') + Cardinality({p \in Runs : Waiting(p)' /\ made[p] <= made[q]})
           <= Cap[q]]_vars

\* "Every run of its key that is before it is cancelled, the ones that wait as
\* the ones that run": no run stays beside a later one that may take its place.
\* (One of a definition with a larger cap may be run again beside it.)
SupersededIsStopped ==
  \A q, r \in Runs :
    /\ runStatus[q] = "running" /\ ~stopping[q] /\ runStatus[r] = "running" /\ ~stopping[r]
    /\ made[q] < made[r] /\ WhenFull[r] = "supersede"
    /\ again = 0 \/ Cap[q] <= Cap[r]
    => r \in Confined /\ Source[q] # Source[r]

\* A run that waits is let in, or ends.
WaitIsOver == \A r \in Runs : Waiting(r) ~> ~Waiting(r)
=============================================================================
