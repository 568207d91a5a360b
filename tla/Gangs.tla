-------------------------------- MODULE Gangs --------------------------------
(***************************************************************************)
(* Gang co-scheduling (RUNNER_GANGS, the enterprise feature) over the      *)
(* engines of TaskRuns and the reruns of RunAgain: the members of one      *)
(* `gang:` task, the set Ganged, are claimed all together, and a member    *)
(* that fails takes its siblings with it.  That second half is a           *)
(* transaction of its own, after the one that marked the member.           *)
(***************************************************************************)
EXTENDS RunAgain

GangAssumption == Cardinality(Ganged) >= 2 /\ Ganged \cap (Gate \cup Sensor) = {}

\* The member whose failure an engine has handled, until it has seen to the
\* siblings; part of the engine's memory.
VARIABLE dying

gangVars == <<againVars, dying>>

GangTypeOK == TypeOK /\ dying \in [Engines -> SUBSET Ganged]

GangInit == AgainInit /\ dying = [e \in Engines |-> {}]

ClaimReadyGang_bug(e) ==
  LET ready == {t \in Ganged : status[t] = "ready"}
  IN  /\ ready # {}
      /\ Cardinality({x \in work : x.eng = e}) + Cardinality(ready) <= Slots
      /\ status' = [t \in Tasks |-> IF t \in ready THEN "running" ELSE status[t]]
      /\ claimedBy' = [t \in Tasks |-> IF t \in ready THEN e ELSE claimedBy[t]]
      /\ lease' = [t \in Tasks |-> IF t \in ready THEN "live" ELSE lease[t]]
      /\ attempt' = [t \in Tasks |-> IF t \in ready THEN attempt[t] + 1 ELSE attempt[t]]
      /\ version' = [t \in Tasks |-> IF t \in ready THEN NextFence(t) ELSE version[t]]
      /\ work' = Dispatched(e, ready, "held")
      /\ UNCHANGED <<remaining, stopReq, waking, runRow, cands, decided, reaping, faults, dying>>

\* claim_ready_gang: every member is ready, and there is a slot for each.
ClaimReadyGang(e) ==
  /\ \A t \in Ganged : status[t] = "ready"
  /\ Cardinality({x \in work : x.eng = e}) + Cardinality(Ganged) <= Slots
  /\ status' = [t \in Tasks |-> IF t \in Ganged THEN "running" ELSE status[t]]
  /\ claimedBy' = [t \in Tasks |-> IF t \in Ganged THEN e ELSE claimedBy[t]]
  /\ lease' = [t \in Tasks |-> IF t \in Ganged THEN "live" ELSE lease[t]]
  /\ attempt' = [t \in Tasks |-> IF t \in Ganged THEN attempt[t] + 1 ELSE attempt[t]]
  /\ version' = [t \in Tasks |-> IF t \in Ganged THEN NextFence(t) ELSE version[t]]
  /\ work' = Dispatched(e, Ganged, "held")
  /\ UNCHANGED <<remaining, stopReq, waking, runRow, cands, decided, reaping, faults, dying>>

\* A member's failure.  One that is not retried is marked, and the siblings
\* are seen to next, whether the mark was taken or not.
GangResultFails(x) ==
  /\ x \in work /\ x.kind # "teardown" /\ x.task \in Ganged
  /\ \E budget \in Budgets[x.task] :
       /\ IF ShouldRetryFailed(x, budget)
            THEN /\ RetryTask(x) \/ SettleStopping(x) \/ StaleResult(x)
                 /\ UNCHANGED dying
            ELSE /\ MarkTaskFailed(x) \/ SettleStopping(x) \/ StaleResult(x)
                 /\ dying' = [dying EXCEPT ![x.eng] = {x.task}]
  /\ Collected(x) /\ UNCHANGED faults

\* cancel_gang_siblings: a sibling no worker holds is cancelled under a new
\* version, and one that a worker holds is asked to stop, with a whole lease
\* to answer in.  Nothing is counted off the dependents.
CancelGangSiblings(e) ==
  /\ \E m \in dying[e] :
       LET sibling(t) == t \in Ganged \ {m}
           idle(t) == sibling(t) /\ Idle(t) /\ status[t] # "awaiting_approval"
           held(t) == sibling(t) /\ Dispatch(t)
       IN  /\ status' = [t \in Tasks |-> IF idle(t) THEN "cancelled" ELSE status[t]]
           /\ claimedBy' = [t \in Tasks |-> IF idle(t) THEN None ELSE claimedBy[t]]
           /\ version' = [t \in Tasks |-> IF idle(t) THEN version[t] + 1 ELSE version[t]]
           /\ lease' = [t \in Tasks |-> IF idle(t) THEN "none"
                                        ELSE IF held(t) /\ ~stopReq[t] THEN "live"
                                        ELSE lease[t]]
           /\ stopReq' = [t \in Tasks |-> stopReq[t] \/ held(t)]
  /\ dying' = [dying EXCEPT ![e] = {}]
  /\ UNCHANGED <<remaining, attempt, waking, runRow, memory, faults>>

GangCrash(e) == Crash(e) /\ dying' = [dying EXCEPT ![e] = {}]

-----------------------------------------------------------------------------
\* An engine does one thing at a time: between its two transactions for a
\* failed member it neither sweeps, advances, claims, collects nor reaps.
Free(e) == dying[e] = {}

Sweep ==
  /\ \E e \in Engines : Free(e)
  /\ \/ AdvanceDefaultReady \/ AdvanceDefaultSkip \/ RecoverExpiredLeases \/ CancelOverdueRun

Step(e) ==
  /\ Free(e)
  /\ \/ AdvanceCandidates(e) \/ AdvanceApply(e) \/ ReapRead(e) \/ ReapApply(e)
     \/ \E t \in Tasks : AdvanceEvaluate(e, t) \/ ClaimReady(e, t) \/ ClaimTeardown(e, t)
     \/ \E x \in work : /\ x.eng = e
                        /\ \/ ResultSucceeds(x) \/ ResultGone(x) \/ ResultUnseen(x)
                           \/ x.task \notin Ganged /\ (ResultFails(x) \/ ResultRefused(x))

\* What does not wait for an engine's loop: its heartbeats, the API, time.
Outside ==
  \/ CancelRun
  \/ \E t \in Tasks : LeaseLapses(t)
  \/ \E x \in work : RenewTaskLease(x) \/ TellToStop(x)

GangStep(e) ==
  \/ Free(e) /\ ClaimReadyGang(e)
  \/ Free(e) /\ \E x \in work : x.eng = e /\ GangResultFails(x)
  \/ CancelGangSiblings(e)

GangNext ==
  \/ (Sweep \/ Outside \/ \E e \in Engines : Step(e)) /\ UNCHANGED <<dying, again>>
  \/ (\E e \in Engines : GangStep(e) \/ GangCrash(e)) /\ UNCHANGED again
  \/ RunsAgain /\ UNCHANGED dying

GangSpec == GangInit /\ [][GangNext]_gangVars

-----------------------------------------------------------------------------
(* Properties *)

\* "N ranks together or none": a member starts to run only in the step in
\* which every member does, after a reclaim or a rerun as at first.
ClaimsWhole ==
  \A t \in Ganged : status[t] = "ready" /\ status'[t] = "running" =>
    \A u \in Ganged : version'[u] = version[u] + 1 /\ claimedBy'[u] = claimedBy'[t]
=============================================================================
