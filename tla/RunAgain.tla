------------------------------ MODULE RunAgain ------------------------------
(***************************************************************************)
(* Running again: the four operations of crates/dagron-core/src/db/        *)
(* sqlite.rs that put tasks of a run back and set the run running again,   *)
(* on top of the engines of TaskRuns.  They come from the API, a process   *)
(* of its own, at any moment: between an engine's read and the write the   *)
(* read was for, and while work of an earlier round is still out.          *)
(***************************************************************************)
EXTENDS TaskRuns, Sequences

CONSTANT MaxAgain   \* bound on the operations of one behaviour

ASSUME AgainAssumption == MaxAgain \in Nat

VARIABLE again      \* the operations so far, in order

againVars == <<vars, again>>

Operations == {"rerun from failed", "rerun all", "clear", "retry"}

AgainInit == Init /\ again = <<>>

Asked(op) == Len(again) < MaxAgain /\ again' = Append(again, op)

\* An ended run is running again, with its deadlines counted from now; one
\* that never ended stays as it is.
Rearmed(ended) ==
  /\ runStatus' = IF runStatus \in ended THEN "running" ELSE runStatus
  /\ completed' = IF runStatus \in ended THEN 0 ELSE completed
  /\ UNCHANGED stoppingAs

\* The counters of the pending tasks, from the statuses `st`: a dependency is
\* outstanding unless its status is one of `settled`.
Recounted(st, settled) ==
  [u \in Tasks |-> IF st[u] = "pending"
                     THEN Cardinality({d \in Deps[u] : st[d] \notin settled})
                     ELSE remaining[u]]

PutBackStale_bug(reset, settled) ==
  /\ status' = [t \in Tasks |-> IF t \in reset THEN "pending" ELSE status[t]]
  /\ remaining' = [u \in Tasks |-> IF u \in reset
                     THEN Cardinality({d \in Deps[u] : status[d] \notin settled})
                     ELSE remaining[u]]
  /\ attempt' = [t \in Tasks |-> IF t \in reset THEN 0 ELSE attempt[t]]
  /\ claimedBy' = [t \in Tasks |-> IF t \in reset THEN None ELSE claimedBy[t]]
  /\ lease' = [t \in Tasks |-> IF t \in reset THEN "none" ELSE lease[t]]
  /\ version' = [t \in Tasks |-> IF t \in reset THEN version[t] + 1 ELSE version[t]]
  /\ waking' = waking \ reset
  /\ UNCHANGED stopReq

PutBackFresh_bug(reset, settled) ==
  /\ status' = [t \in Tasks |-> IF t \in reset THEN "pending" ELSE status[t]]
  /\ remaining' = Recounted(status', settled)
  /\ attempt' = [t \in Tasks |-> IF t \in reset THEN 0 ELSE attempt[t]]
  /\ claimedBy' = [t \in Tasks |-> IF t \in reset THEN None ELSE claimedBy[t]]
  /\ lease' = [t \in Tasks |-> IF t \in reset THEN "none" ELSE lease[t]]
  /\ version' = [t \in Tasks |-> IF t \in reset THEN 0 ELSE version[t]]
  /\ waking' = waking \ reset
  /\ UNCHANGED stopReq

\* The reset the three share: the tasks of `reset` start again from nothing,
\* but for their version, which only rises; then, in a statement of its own,
\* the counters of what is pending now.
PutBack(reset, settled) ==
  /\ status' = [t \in Tasks |-> IF t \in reset THEN "pending" ELSE status[t]]
  /\ remaining' = Recounted(status', settled)
  /\ attempt' = [t \in Tasks |-> IF t \in reset THEN 0 ELSE attempt[t]]
  /\ claimedBy' = [t \in Tasks |-> IF t \in reset THEN None ELSE claimedBy[t]]
  /\ lease' = [t \in Tasks |-> IF t \in reset THEN "none" ELSE lease[t]]
  /\ version' = [t \in Tasks |-> IF t \in reset THEN version[t] + 1 ELSE version[t]]
  /\ waking' = waking \ reset
  /\ UNCHANGED stopReq

BrokenCone == {t \in Tasks : status[t] \in {"failed", "cancelled", "skipped"}}

\* rerun_from_failed_in: the run must have failed or been cancelled.
RerunFromFailed ==
  /\ Asked("rerun from failed")
  /\ runStatus \in {"failed", "cancelled"}
  /\ Rearmed({"failed", "cancelled"})
  /\ PutBack(BrokenCone, {"succeeded", "skipped"})
  /\ UNCHANGED <<memory, faults>>

\* rerun_all_in: the run must have ended, however it did.
RerunAll ==
  /\ Asked("rerun all")
  /\ runStatus # "running"
  /\ Rearmed({"succeeded", "failed", "cancelled"})
  /\ PutBack({t \in Tasks : Over(status, t)}, {"succeeded", "skipped"})
  /\ UNCHANGED <<memory, faults>>

\* The task and what depends on it, however far down.
Cone(t) ==
  LET down[n \in 0 .. Cardinality(Tasks)] ==
        IF n = 0 THEN {t}
        ELSE down[n - 1] \cup {u \in Tasks : Deps[u] \cap down[n - 1] # {}}
  IN  down[Cardinality(Tasks)]

\* clear_task_with_downstream_by: a task that is over, and what is over below
\* it.  The run may be running, stopping or ended.
ClearTaskWithDownstream(t) ==
  /\ Asked("clear")
  /\ Over(status, t)
  /\ PutBack({u \in Cone(t) : Over(status, u)}, Terminal)
  /\ Rearmed({"succeeded", "failed", "cancelled"})
  /\ UNCHANGED <<memory, faults>>

\* retry_task_from_ui_by: this task alone, ready at once.  Its attempt is kept,
\* and its dependents' counters are left as they are.
RetryTaskFromUi(t) ==
  /\ Asked("retry")
  /\ status[t] \in {"failed", "cancelled"}
  /\ status' = [status EXCEPT ![t] = "ready"]
  /\ claimedBy' = [claimedBy EXCEPT ![t] = None]
  /\ lease' = [lease EXCEPT ![t] = "none"]
  /\ version' = [version EXCEPT ![t] = @ + 1]
  /\ waking' = waking \ {t}
  /\ Rearmed({"failed", "cancelled"})
  /\ UNCHANGED <<remaining, attempt, stopReq, memory, faults>>

RunsAgain ==
  \/ RerunFromFailed \/ RerunAll
  \/ \E t \in Tasks : ClearTaskWithDownstream(t) \/ RetryTaskFromUi(t)

AgainNext == (Next /\ UNCHANGED again) \/ RunsAgain

AgainSpec == AgainInit /\ [][AgainNext]_againVars

-----------------------------------------------------------------------------
(* Properties *)

NeverRetried == \A i \in DOMAIN again : again[i] # "retry"

\* However often a run is set running again, and whatever an engine read
\* before that, the counters of a running run are exact: its tasks start.  (A
\* run that is stopping starts none, and a task that settles counts nothing
\* off one that was cleared there.)
RunningCounterExact ==
  runStatus = "running" /\ stoppingAs = None /\ NeverRetried => CounterExact
=============================================================================
