------------------------------ MODULE MCParks ------------------------------
(***************************************************************************)
(* Two engines for TLC to run FanOut and SubWorkflow on: a task that parks *)
(* is a barrier or a trigger, and neither touches the other's rows.        *)
(***************************************************************************)
EXTENDS FanOut

CONSTANTS e1, e2, Nobody, Repeats, MaxTurns, MaxChildren, MaxFence, MaxStalls, MaxStops

VARIABLES
  status, fence, attempt, claimedBy, lapsed, stopReq, subRun, child, engine, behind,
  stalls, stops, clears,
  kind   \* which of the two the task is

Trigger == INSTANCE SubWorkflow

rows == <<status, fence, attempt, claimedBy, lapsed, stopReq, subRun, child, engine, behind,
          stalls, stops, clears>>
allVars == <<kind, vars, rows>>

ParksInit == kind \in {"barrier", "trigger"} /\ Init /\ Trigger!TriggerInit

BarrierStep == kind = "barrier" /\ Next /\ UNCHANGED <<kind, rows>>

TriggerStep == kind = "trigger" /\ Trigger!TriggerNext /\ UNCHANGED <<kind, vars>>

\* Every tick dispatches, advances and sweeps, and what is at work ends (RunEnds
\* of TaskRuns).
ParksSpec ==
  /\ ParksInit /\ [][BarrierStep \/ TriggerStep]_allVars
  /\ WF_vars(kind = "barrier" /\ ProducerEnds) /\ WF_vars(kind = "barrier" /\ AdvanceBarrier)
  /\ WF_vars(kind = "barrier" /\ \E i \in inst : InstanceEnds(i))
  /\ \A e \in Engines : /\ WF_vars(kind = "barrier" /\ Sweep(e))
                        /\ WF_rows(kind = "trigger" /\ Trigger!EngineStep(e))
  /\ \A c \in 1 .. MaxChildren : WF_rows(kind = "trigger" /\ Trigger!ChildRunEnds(c))

\* Barrier and trigger both implement Park: whoever resolves, fails, skips or
\* requeues them, what is behind is counted down once for each time they are over.
ParksKeepPromise == BarrierKeepsPromise /\ Trigger!TriggerKeepsPromise

\* No task stays parked: a barrier comes to its end, unless a reset came in the
\* middle of a sweep, and a trigger leaves the child it was parked on.
ParksAreLeft == (kind = "barrier" => BarrierEnds) /\ Trigger!ParkIsLeft

\* EndsWithItsChild of SubWorkflow.
EndsWithItsChild == Trigger!EndsWithItsChild
=============================================================================
