----------------------------- MODULE SubWorkflow -----------------------------
(***************************************************************************)
(* A task of type workflow: an engine claims it, makes a child run and     *)
(* parks it on that run, in three transactions; a sweep of any engine      *)
(* resolves it with the child's end or, where it repeats, sends it round   *)
(* for another child.  An engine may crash or stall between any two, and   *)
(* the run may be cancelled and its task cleared meanwhile.                *)
(*                                                                         *)
(* Source: crates/dagron-engine/src/lib.rs and                             *)
(* crates/dagron-core/src/db/sqlite.rs.                                    *)
(***************************************************************************)
EXTENDS Integers, FiniteSets

CONSTANTS
  Engines,
  Nobody,       \* claimed_by IS NULL
  Repeats,      \* the task has a repeat
  MaxTurns,     \* its max_iterations
  MaxChildren,  \* bound on the child runs
  MaxFence,     \* bound on the version, which every claim counts up
  MaxStalls,    \* bound on crashes and lapsed leases
  MaxStops      \* bound on cancels and on clears

VARIABLES
  status,     \* "running" with nobody's claim is parked
  fence,      \* version
  attempt,
  claimedBy,
  lapsed,     \* lease_expires_at has come
  stopReq,    \* stop_requested_at IS NOT NULL
  subRun,     \* sub_run_id: a child, or 0 for NULL
  child,      \* the status of each child run
  engine,     \* where each engine's loop is, and what it has in hand
  behind,     \* remaining_deps of the task behind this one
  stalls, stops, clears

rowVars == <<status, fence, attempt, claimedBy, lapsed, stopReq, subRun>>
triggerVars == <<rowVars, child, engine, behind, stalls, stops, clears>>

Children == 1 .. MaxChildren
ChildEnds == {"succeeded", "failed", "cancelled"}
AtRest == [at |-> "rest", fence |-> 0, child |-> 0, end |-> "none"]
Parked == status = "running" /\ subRun # 0

\* The row, the child runs and the engines hold values of their types.
TriggerTypeOK ==
  /\ status \in {"ready", "running", "succeeded", "failed", "cancelled"}
  /\ fence \in Nat /\ attempt \in Nat
  /\ claimedBy \in Engines \cup {Nobody}
  /\ lapsed \in BOOLEAN /\ stopReq \in BOOLEAN
  /\ subRun \in 0 .. MaxChildren
  /\ child \in [Children -> {"none", "running"} \cup ChildEnds]
  /\ \A e \in Engines : /\ engine[e].at \in {"rest", "claimed", "made", "swept"}
                        /\ engine[e].fence \in 0 .. fence
                        /\ engine[e].child \in 0 .. MaxChildren
  /\ behind \in {0, 1}
  /\ stalls \in 0 .. MaxStalls /\ stops \in 0 .. MaxStops /\ clears \in 0 .. MaxStops

TriggerInit ==
  /\ status = "ready" /\ fence = 0 /\ attempt = 0 /\ claimedBy = Nobody
  /\ lapsed = FALSE /\ stopReq = FALSE /\ subRun = 0
  /\ child = [c \in Children |-> "none"]
  /\ engine = [e \in Engines |-> AtRest]
  /\ behind = 1
  /\ stalls = 0 /\ stops = 0 /\ clears = 0

Turns(e, to) == engine' = [engine EXCEPT ![e] = to]

-----------------------------------------------------------------------------
(* Dispatch *)

\* claim_ready hands the task to an engine.
ClaimTrigger(e) ==
  /\ engine[e].at = "rest" /\ status = "ready" /\ fence < MaxFence
  /\ status' = "running" /\ fence' = fence + 1 /\ attempt' = attempt + 1
  /\ claimedBy' = e /\ lapsed' = FALSE
  /\ Turns(e, [AtRest EXCEPT !.at = "claimed", !.fence = fence + 1])
  /\ UNCHANGED <<stopReq, subRun, child, behind, stalls, stops, clears>>

\* create_run_triggered.
MakeChild(e) ==
  /\ engine[e].at = "claimed"
  /\ \E c \in Children :
       /\ child[c] = "none" /\ \A d \in Children : d < c => child[d] # "none"
       /\ child' = [child EXCEPT ![c] = "running"]
       /\ Turns(e, [engine[e] EXCEPT !.at = "made", !.child = c])
  /\ UNCHANGED <<rowVars, behind, stalls, stops, clears>>

\* The guard of park_subworkflow and release_subworkflow_task.
HoldsClaim(e) == status = "running" /\ fence = engine[e].fence /\ ~stopReq

\* park_subworkflow.  The child of a claim that is lost runs on, on its own.
ParkSubworkflow(e) ==
  /\ engine[e].at = "made"
  /\ Turns(e, AtRest)
  /\ IF HoldsClaim(e)
     THEN subRun' = engine[e].child /\ claimedBy' = Nobody /\ lapsed' = FALSE
     ELSE UNCHANGED <<subRun, claimedBy, lapsed>>
  /\ UNCHANGED <<status, fence, attempt, stopReq, child, behind, stalls, stops, clears>>

\* The child is refused for capacity: release_subworkflow_task.
ReleaseSubworkflowTask(e) ==
  /\ engine[e].at = "claimed"
  /\ Turns(e, AtRest)
  /\ IF HoldsClaim(e)
     THEN status' = "ready" /\ claimedBy' = Nobody /\ lapsed' = FALSE
     ELSE UNCHANGED <<status, claimedBy, lapsed>>
  /\ UNCHANGED <<fence, attempt, stopReq, subRun, child, behind, stalls, stops, clears>>

\* It is refused for good, cannot be read, or is nested too deep:
\* mark_task_failed.
CannotStart(e) ==
  /\ engine[e].at = "claimed"
  /\ Turns(e, AtRest)
  /\ IF claimedBy = e /\ HoldsClaim(e)
     THEN /\ status' = "failed" /\ claimedBy' = Nobody /\ lapsed' = FALSE
          /\ behind' = behind - 1
     ELSE UNCHANGED <<status, claimedBy, lapsed, behind>>
  /\ UNCHANGED <<fence, attempt, stopReq, subRun, child, stalls, stops, clears>>

-----------------------------------------------------------------------------
(* Leases, crashes, stops *)

\* The lease runs out: of a claim no engine is at any more, or of one whose
\* engine stalls.
LeaseLapses ==
  LET held == \E e \in Engines : engine[e].at \in {"claimed", "made"} /\ engine[e].fence = fence
  IN  /\ status = "running" /\ claimedBy # Nobody /\ ~lapsed
      /\ held => stalls < MaxStalls
      /\ stalls' = IF held THEN stalls + 1 ELSE stalls
      /\ lapsed' = TRUE
      /\ UNCHANGED <<status, fence, attempt, claimedBy, stopReq, subRun, child, engine,
                     behind, stops, clears>>

\* recover_expired_leases, and of a task asked to stop the end of the stop
\* (settle_stopping).
RecoverLease ==
  /\ status = "running" /\ lapsed
  /\ status' = IF stopReq THEN "cancelled" ELSE "ready"
  /\ claimedBy' = Nobody /\ lapsed' = FALSE /\ stopReq' = FALSE
  /\ UNCHANGED <<fence, attempt, subRun, child, engine, behind, stalls, stops, clears>>

CrashEngine(e) ==
  /\ engine[e] # AtRest
  /\ stalls < MaxStalls /\ stalls' = stalls + 1
  /\ Turns(e, AtRest)
  /\ UNCHANGED <<rowVars, child, behind, stops, clears>>

\* cancel_run (stop_run_tasks): a child run is not the run's, and goes on.
CancelParent ==
  /\ status \in {"ready", "running"} /\ ~stopReq
  /\ stops < MaxStops /\ stops' = stops + 1
  /\ IF status = "running" /\ claimedBy # Nobody
     THEN stopReq' = TRUE /\ UNCHANGED status
     ELSE status' = "cancelled" /\ UNCHANGED stopReq
  /\ lapsed' = FALSE
  /\ UNCHANGED <<fence, attempt, claimedBy, subRun, child, engine, behind, stalls, clears>>

\* clear_task_with_downstream and the reruns, of a task that is over: pending, and
\* ready at the next advance.
ClearTrigger ==
  /\ status \in {"succeeded", "failed", "cancelled"}
  /\ clears < MaxStops /\ clears' = clears + 1
  /\ status' = "ready" /\ fence' = fence + 1 /\ attempt' = 0
  /\ subRun' = 0 /\ behind' = 1
  /\ UNCHANGED <<claimedBy, lapsed, stopReq, child, engine, stalls, stops>>

-----------------------------------------------------------------------------
(* The child run, and the sweep *)

ChildRunEnds(c) ==
  /\ child[c] = "running"
  /\ \E end \in ChildEnds : child' = [child EXCEPT ![c] = end]
  /\ UNCHANGED <<rowVars, engine, behind, stalls, stops, clears>>

ReadParked(e, ends) ==
  /\ engine[e].at = "rest"
  /\ Parked /\ child[subRun] \in ends
  /\ Turns(e, [AtRest EXCEPT !.at = "swept", !.child = subRun, !.end = child[subRun]])
  /\ UNCHANGED <<rowVars, child, behind, stalls, stops, clears>>

SweepSubworkflows_bug(e) == ReadParked(e, {"succeeded", "failed"})

\* PARKED_SUBWORKFLOWS.
SweepSubworkflows(e) == ReadParked(e, ChildEnds)

\* resolve_subworkflow, and fail_parked_subworkflow, whose row names no child.
Resolved(as, run) == status' = as /\ subRun' = run /\ behind' = behind - 1

Requeued_bug == status' = "ready" /\ subRun' = 0 /\ behind' = behind - 1

\* requeue_parked_subworkflow: another turn.
Requeued == status' = "ready" /\ subRun' = 0 /\ UNCHANGED behind

\* reconcile_subworkflows decides by the child's end and by the turns so far,
\* and writes if the task is parked as guard says.
Decides(e, guard) ==
  LET ok == engine[e].end = "succeeded"
  IN  /\ engine[e].at = "swept"
      /\ Turns(e, AtRest)
      /\ IF guard
         THEN \/ /\ Resolved(IF ok THEN "succeeded" ELSE "failed", subRun)
                 /\ UNCHANGED fence
              \/ /\ ok /\ Repeats /\ attempt < MaxTurns
                 /\ Requeued
                 /\ fence' = fence + 1
              \/ /\ ok /\ Repeats
                 /\ Resolved("failed", 0)
                 /\ UNCHANGED fence
         ELSE UNCHANGED <<status, subRun, behind, fence>>
      /\ UNCHANGED <<attempt, claimedBy, lapsed, stopReq, child, stalls, stops, clears>>

DecideParked_bug(e) == Decides(e, Parked)

\* Each of the three writes asks for the child the sweep has read.
Decide(e) == Decides(e, Parked /\ subRun = engine[e].child)

-----------------------------------------------------------------------------
EngineStep(e) ==
  \/ ClaimTrigger(e) \/ MakeChild(e) \/ ParkSubworkflow(e) \/ ReleaseSubworkflowTask(e)
  \/ CannotStart(e) \/ SweepSubworkflows(e) \/ Decide(e)

TriggerNext ==
  \/ LeaseLapses \/ RecoverLease \/ CancelParent \/ ClearTrigger
  \/ \E e \in Engines : EngineStep(e) \/ CrashEngine(e)
  \/ \E c \in Children : ChildRunEnds(c)

TriggerSpec == TriggerInit /\ [][TriggerNext]_triggerVars

-----------------------------------------------------------------------------
(* Properties *)

Contract == INSTANCE Park WITH over <- status \in {"succeeded", "failed"}, waits <- behind

\* However many turns the task takes and whoever sweeps, the task behind it is
\* counted down once, at the end of the last.
TriggerKeepsPromise == Contract!Spec

\* A task ends well with a child that it is parked on and that ended well,
\* never with one of an earlier turn.
EndsWithItsChild ==
  [][status # "succeeded" /\ status' = "succeeded"
       => subRun # 0 /\ child[subRun] = "succeeded"]_triggerVars

\* A parked task does not stay parked.
ParkIsLeft == Parked ~> ~Parked
=============================================================================
