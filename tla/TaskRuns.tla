------------------------------ MODULE TaskRuns ------------------------------
(***************************************************************************)
(* One workflow run of dagron: its rows in `task_runs`, its row in         *)
(* `workflow_runs`, and the engines that drive it.  Every action is one    *)
(* database transaction (or one read) of crates/dagron-core/src/db/        *)
(* sqlite.rs as the reconcile loop of crates/dagron-engine/src/lib.rs      *)
(* calls it; several engines interleave at transaction granularity.        *)
(*                                                                         *)
(* Wall-clock time is abstract: a lease is live until it lapses, which may *)
(* be at any moment.  A `scheduled_at` in the future (retry backoff, quota *)
(* wait) is a delay before a claim and nothing else, so it is not kept.    *)
(*                                                                         *)
(* An operator named ..._bug is the definition after it with a plausible   *)
(* mistake: no action uses it.  It is there to be put in the place of that *)
(* definition, to see that the properties notice.                          *)
(***************************************************************************)
EXTENDS Integers, FiniteSets

CONSTANTS
  Engines,      \* the scheduler processes, each with a worker_id of its own
  Tasks,        \* the task rows of the run
  Deps,         \* task_dependencies: the direct dependencies of each task
  Rule,         \* task_runs.trigger_rule
  Gate,         \* the `type: approval` tasks (is_approval = 1)
  Sensor,       \* the `type: wait` tasks with a time to wait for
  Conditional,  \* the tasks whose `when` is left to run time
  AllowFailure, \* the tasks with allow_failure = 1
  Ganged,       \* the members of a gang, where RUNNER_GANGS is on
  Budgets,      \* the attempt budgets a failure of a task may resolve to
  Iterations,   \* repeat.max_iterations, 0 for a task with no `repeat:`
  Slots,        \* WORKER_COUNT: the executions one engine may have out
  Deadline,     \* TRUE when the run has a run_timeout_secs
  None,         \* SQL NULL
  MaxFaults     \* bound on crashes, stalls, refusals and unseen teardowns

TriggerRules == {"all_success", "all_done", "one_failed", "all_failed", "none_failed"}

ASSUME DagAssumption ==
  /\ IsFiniteSet(Tasks)
  /\ Deps \in [Tasks -> SUBSET Tasks]
  /\ Rule \in [Tasks -> TriggerRules]
  /\ Gate \subseteq Tasks /\ Sensor \subseteq Tasks /\ Conditional \subseteq Tasks
  /\ AllowFailure \subseteq Tasks /\ Ganged \subseteq Tasks
  /\ Gate \cap Sensor = {}

ASSUME EngineAssumption ==
  /\ None \notin Engines
  /\ None \notin {"cancelled", "failed"}
  /\ Budgets \in [Tasks -> SUBSET Nat]
  /\ Iterations \in [Tasks -> Nat]
  /\ Slots \in Nat /\ MaxFaults \in Nat /\ Deadline \in BOOLEAN

VARIABLES
  \* task_runs
  status,     \* the task state machine
  remaining,  \* remaining_deps
  version,    \* version: the fencing token of the latest claim
  attempt,    \* attempt
  claimedBy,  \* claimed_by
  lease,      \* lease_expires_at: "none" (NULL), "live" or "lapsed"
  stopReq,    \* stop_requested_at IS NOT NULL
  waking,     \* the rows whose wake_at is set
  \* workflow_runs and event_outbox
  runStatus,  \* status
  stoppingAs, \* stopping_as
  completed,  \* run.completed events written since the run was last set running
  \* the memory of the engines, lost with their process
  work,       \* the executions that are out, each under the claim it was made by
  cands,      \* advance_exotic_once: the candidates read and not yet evaluated
  decided,    \* advance_exotic_once: the transition decided and not yet written
  reaping,    \* reap: the final status decided and not yet written
  faults      \* crashes, stalls, refusals and unseen teardowns so far

taskRows == <<status, remaining, version, attempt, claimedBy, lease, stopReq, waking>>
runRow   == <<runStatus, stoppingAs, completed>>
memory   == <<work, cands, decided, reaping>>
vars     == <<taskRows, runRow, memory, faults>>

-----------------------------------------------------------------------------
(* The state space *)

Terminal == {"succeeded", "failed", "skipped", "cancelled"}
Statuses == {"pending", "ready", "running", "awaiting_approval"} \cup Terminal

\* "held": the engine keeps its stop signal (`held` in the reconcile loop);
\* "loose": a later dispatch of the task took its place in `held`;
\* "teardown": a dispatch that only tears down.
Exec == [task : Tasks, fence : Nat, eng : Engines, attempt : Nat,
         kind : {"held", "loose", "teardown"}, told : BOOLEAN]

Decision == [task : Tasks, to : {"ready", "awaiting_approval", "skipped", "failed"}]

\* The rows and the run hold values of their columns' types.
TypeOK ==
  /\ status \in [Tasks -> Statuses]
  /\ remaining \in [Tasks -> Nat]
  /\ version \in [Tasks -> Nat]
  /\ attempt \in [Tasks -> Nat]
  /\ claimedBy \in [Tasks -> Engines \cup {None}]
  /\ lease \in [Tasks -> {"none", "live", "lapsed"}]
  /\ stopReq \in [Tasks -> BOOLEAN]
  /\ waking \in SUBSET Tasks
  /\ runStatus \in {"running", "succeeded", "failed", "cancelled"}
  /\ stoppingAs \in {None, "cancelled", "failed"}
  /\ completed \in Nat
  /\ work \in SUBSET Exec
  /\ cands \in [Engines -> SUBSET Tasks]
  /\ decided \in [Engines -> SUBSET Decision]
  /\ reaping \in [Engines -> SUBSET {"succeeded", "failed"}]
  /\ faults \in Nat

\* create_run_full, for a run that starts at once: every task is pending and
\* counts its dependencies (remaining_deps = in-degree).
Init ==
  /\ status = [t \in Tasks |-> "pending"]
  /\ remaining = [t \in Tasks |-> Cardinality(Deps[t])]
  /\ version = [t \in Tasks |-> 0]
  /\ attempt = [t \in Tasks |-> 0]
  /\ claimedBy = [t \in Tasks |-> None]
  /\ lease = [t \in Tasks |-> "none"]
  /\ stopReq = [t \in Tasks |-> FALSE]
  /\ waking = {}
  /\ runStatus = "running" /\ stoppingAs = None /\ completed = 0
  /\ work = {}
  /\ cands = [e \in Engines |-> {}]
  /\ decided = [e \in Engines |-> {}]
  /\ reaping = [e \in Engines |-> {}]
  /\ faults = 0

Fault == faults < MaxFaults /\ faults' = faults + 1

-----------------------------------------------------------------------------
(* Dependencies and trigger rules *)

Over(st, t) == st[t] \in Terminal

DepStatuses(st, t) == {st[d] : d \in Deps[t]}

TriggerRuleReady_bug(rule, sts) ==
  \/ sts = {}
  \/ rule = "all_done"
  \/ rule = "one_failed" /\ sts \cap {"failed", "cancelled"} # {}
  \/ rule = "all_failed" /\ sts \subseteq {"failed", "cancelled"}
  \/ rule \in {"none_failed", "all_success"} /\ sts \subseteq {"succeeded"}

\* `cancelled` counts as a failure, `skipped` does not; a root always runs.
TriggerRuleReady(rule, sts) ==
  \/ sts = {}
  \/ rule = "all_done"
  \/ rule = "one_failed" /\ sts \cap {"failed", "cancelled"} # {}
  \/ rule = "all_failed" /\ sts \subseteq {"failed", "cancelled"}
  \/ rule = "none_failed" /\ sts \subseteq {"succeeded", "skipped"}
  \/ rule = "all_success" /\ sts \subseteq {"succeeded"}

\* What the set-based statements may advance without looking at the task.
DefaultShaped(t) == Rule[t] = "all_success" /\ t \notin Gate /\ t \notin Conditional

AllDepsSucceeded(st, t) == \A d \in Deps[t] : st[d] = "succeeded"

\* The counters once the tasks of `over` became terminal, `st` being the
\* statuses after that: only a dependent that is still pending is decremented.
Decremented(st, over) ==
  [u \in Tasks |-> IF st[u] = "pending"
                     THEN remaining[u] - Cardinality(Deps[u] \cap over)
                     ELSE remaining[u]]

\* The dependents a success promotes in its own transaction.
Promoted(st, rem, t) ==
  {u \in Tasks : /\ t \in Deps[u] /\ st[u] = "pending" /\ rem[u] = 0
                 /\ DefaultShaped(u) /\ AllDepsSucceeded(st, u)}

Candidate_bug(t) == status[t] = "pending" /\ remaining[t] <= 1
Candidate(t) == status[t] = "pending" /\ remaining[t] = 0

-----------------------------------------------------------------------------
(* Step 2 of the tick: advance_ready_tasks *)

ReadyFrontier ==
  {t \in Tasks : Candidate(t) /\ DefaultShaped(t) /\ AllDepsSucceeded(status, t)}

SkipFrontier ==
  {t \in Tasks : Candidate(t) /\ DefaultShaped(t) /\ ~AllDepsSucceeded(status, t)}

\* The first statement of advance_default_shaped, over the whole frontier.
AdvanceDefaultReady ==
  /\ ReadyFrontier # {}
  /\ status' = [t \in Tasks |-> IF t \in ReadyFrontier THEN "ready" ELSE status[t]]
  /\ UNCHANGED <<remaining, version, attempt, claimedBy, lease, stopReq, waking,
                 runRow, memory, faults>>

\* Its second: skip the rest of the frontier and count the skips off the
\* dependents, in one transaction.
AdvanceDefaultSkip ==
  /\ SkipFrontier # {}
  /\ status' = [t \in Tasks |-> IF t \in SkipFrontier THEN "skipped" ELSE status[t]]
  /\ remaining' = Decremented(status', SkipFrontier)
  /\ UNCHANGED <<version, attempt, claimedBy, lease, stopReq, waking,
                 runRow, memory, faults>>

\* advance_exotic_once reads every candidate, default-shaped ones too ...
AdvanceCandidates(e) ==
  /\ cands[e] = {} /\ decided[e] = {}
  /\ \E t \in Tasks : Candidate(t)
  /\ cands' = [cands EXCEPT ![e] = {t \in Tasks : Candidate(t)}]
  /\ UNCHANGED <<taskRows, runRow, work, decided, reaping, faults>>

\* The outcomes of a runtime `when` over what the task's upstream printed.
WhenOutcomes(t) == IF t \in Conditional THEN {"pass", "false", "error"} ELSE {"pass"}

\* ... then, for each, reads its dependencies' statuses and decides ...
AdvanceEvaluate(e, t) ==
  /\ decided[e] = {} /\ t \in cands[e]
  /\ \E when \in WhenOutcomes(t) :
       decided' = [decided EXCEPT ![e] =
         {[task |-> t,
           to |-> IF when = "error" THEN "failed"
                  ELSE IF when = "pass" /\ TriggerRuleReady(Rule[t], DepStatuses(status, t))
                    THEN IF t \in Gate THEN "awaiting_approval" ELSE "ready"
                    ELSE "skipped"]}]
  /\ cands' = [cands EXCEPT ![e] = @ \ {t}]
  /\ UNCHANGED <<taskRows, runRow, work, reaping, faults>>

AdvanceApplyBlind_bug(e) ==
  /\ \E d \in decided[e] :
       /\ status' = [status EXCEPT ![d.task] = d.to]
       /\ remaining' = IF d.to \in Terminal
                         THEN Decremented(status', {d.task}) ELSE remaining
  /\ decided' = [decided EXCEPT ![e] = {}]
  /\ UNCHANGED <<version, attempt, claimedBy, lease, stopReq, waking,
                 runRow, work, cands, reaping, faults>>

\* ... and writes it, if the task is still pending.  A skip and an unevaluable
\* `when` are terminal, and are counted off the dependents.
AdvanceApply(e) ==
  /\ \E d \in decided[e] :
       IF status[d.task] = "pending"
         THEN /\ status' = [status EXCEPT ![d.task] = d.to]
              /\ remaining' = IF d.to \in Terminal
                                THEN Decremented(status', {d.task}) ELSE remaining
         ELSE UNCHANGED <<status, remaining>>
  /\ decided' = [decided EXCEPT ![e] = {}]
  /\ UNCHANGED <<version, attempt, claimedBy, lease, stopReq, waking,
                 runRow, work, cands, reaping, faults>>

\* resolve_approval: a person's decision, or resolve_expired_approvals'.
ResolveApproval(t, verdict) ==
  /\ status[t] = "awaiting_approval"
  /\ status' = [status EXCEPT ![t] = verdict]
  /\ remaining' = Decremented(status', {t})
  /\ UNCHANGED <<version, attempt, claimedBy, lease, stopReq, waking,
                 runRow, memory, faults>>

-----------------------------------------------------------------------------
(* Step 3: claims and dispatch *)

NextFenceStuck_bug(t) == version[t]

\* The fencing token of the next claim.  It is never given back.
NextFence(t) == version[t] + 1

FreeSlot(e) == Cardinality({x \in work : x.eng = e}) < Slots

\* A dispatch by e of a task it still has an execution out for takes that
\* one's place in `held`.
Dispatched(e, ts, kind) ==
  {IF x.eng = e /\ x.task \in ts /\ x.kind = "held" /\ kind = "held"
     THEN [x EXCEPT !.kind = "loose"] ELSE x : x \in work}
  \cup {[task |-> t, fence |-> NextFence(t), eng |-> e,
         attempt |-> attempt[t] + 1, kind |-> kind, told |-> FALSE] : t \in ts}

\* claim_ready_filtered for one row of its batch: the rows of a batch are
\* claimed each by its own compare-and-set, and touch nothing of each other.
ClaimReady(e, t) ==
  /\ FreeSlot(e)
  /\ t \notin Ganged
  /\ status[t] = "ready"
  /\ status' = [status EXCEPT ![t] = "running"]
  /\ claimedBy' = [claimedBy EXCEPT ![t] = e]
  /\ lease' = [lease EXCEPT ![t] = "live"]
  /\ attempt' = [attempt EXCEPT ![t] = @ + 1]
  /\ version' = [version EXCEPT ![t] = NextFence(t)]
  /\ work' = Dispatched(e, {t}, "held")
  /\ UNCHANGED <<remaining, stopReq, waking, runRow, cands, decided, reaping, faults>>

\* claim_teardowns, for one row of its batch: a stopping task whose lease has
\* lapsed, unless this engine still watches it.  No attempt is spent.
ClaimTeardown(e, t) ==
  /\ FreeSlot(e)
  /\ status[t] = "running" /\ stopReq[t] /\ lease[t] = "lapsed"
  /\ ~ \E x \in work : x.eng = e /\ x.task = t /\ x.kind = "held"
  /\ claimedBy' = [claimedBy EXCEPT ![t] = e]
  /\ lease' = [lease EXCEPT ![t] = "live"]
  /\ version' = [version EXCEPT ![t] = NextFence(t)]
  /\ work' = Dispatched(e, {t}, "teardown")
  /\ UNCHANGED <<status, remaining, attempt, stopReq, waking, runRow,
                 cands, decided, reaping, faults>>

-----------------------------------------------------------------------------
(* Leases *)

\* The row is x's to run: claimed by its engine, under its fence.
Owns(x) == claimedBy[x.task] = x.eng /\ version[x.task] = x.fence

\* The lease of a claim runs out.  A worker that is watching the work renews
\* its lease in time, unless its process stalls or its database is away.
LeaseLapses(t) ==
  /\ status[t] = "running" /\ lease[t] = "live"
  /\ IF \E x \in work : x.task = t /\ Owns(x) THEN Fault ELSE UNCHANGED faults
  /\ lease' = [lease EXCEPT ![t] = "lapsed"]
  /\ UNCHANGED <<status, remaining, version, attempt, claimedBy, stopReq, waking,
                 runRow, memory>>

\* renew_task_lease, by the heartbeat of an execution, while its claim holds.
RenewTaskLease(x) ==
  /\ x \in work
  /\ status[x.task] = "running" /\ Owns(x)
  /\ lease' = [lease EXCEPT ![x.task] = "live"]
  /\ UNCHANGED <<status, remaining, version, attempt, claimedBy, stopReq, waking,
                 runRow, memory, faults>>

\* recover_expired_leases: every lapsed claim that was not asked to stop goes
\* back to `ready`, its version and its attempt as they were.
Expired == {t \in Tasks : status[t] = "running" /\ lease[t] = "lapsed" /\ ~stopReq[t]}

RecoverExpiredLeases ==
  /\ Expired # {}
  /\ status' = [t \in Tasks |-> IF t \in Expired THEN "ready" ELSE status[t]]
  /\ claimedBy' = [t \in Tasks |-> IF t \in Expired THEN None ELSE claimedBy[t]]
  /\ lease' = [t \in Tasks |-> IF t \in Expired THEN "none" ELSE lease[t]]
  /\ UNCHANGED <<remaining, version, attempt, stopReq, waking, runRow, memory, faults>>

-----------------------------------------------------------------------------
(* Stopping a run *)

FinishStoppedRun_bug(as, st, asked) ==
  IF runStatus = "running" /\ as # None
    THEN runStatus' = as /\ stoppingAs' = None /\ completed' = completed + 1
    ELSE runStatus' = runStatus /\ stoppingAs' = as /\ completed' = completed

\* finish_stopped_run, in the transaction that leaves the statuses `st` and
\* the requests `asked`: the run ends once none of its tasks is stopping.
FinishStoppedRun(as, st, asked) ==
  IF runStatus = "running" /\ as # None /\ ~ \E t \in Tasks : st[t] = "running" /\ asked[t]
    THEN runStatus' = as /\ stoppingAs' = None /\ completed' = completed + 1
    ELSE runStatus' = runStatus /\ stoppingAs' = as /\ completed' = completed

\* What nothing runs for: never claimed, or parked.
Idle(t) ==
  \/ status[t] \in {"pending", "ready", "awaiting_approval"}
  \/ status[t] = "running" /\ claimedBy[t] = None

\* What a worker holds.
Dispatch(t) == status[t] = "running" /\ claimedBy[t] # None

\* stop_run_tasks: cancel what nothing runs for, and ask what a worker holds,
\* with a whole lease to answer in when it is asked for the first time.
StopRunTasks ==
  /\ status' = [t \in Tasks |-> IF Idle(t) THEN "cancelled" ELSE status[t]]
  /\ claimedBy' = [t \in Tasks |-> IF Idle(t) THEN None ELSE claimedBy[t]]
  /\ lease' = [t \in Tasks |-> IF Idle(t) THEN "none"
                               ELSE IF Dispatch(t) /\ ~stopReq[t] THEN "live"
                               ELSE lease[t]]
  /\ stopReq' = [t \in Tasks |-> stopReq[t] \/ Dispatch(t)]
  /\ UNCHANGED <<remaining, version, attempt, waking>>

\* cancel_run.  A second cancel keeps what the run was to end as.
CancelRun ==
  /\ runStatus = "running"
  /\ StopRunTasks
  /\ FinishStoppedRun(IF stoppingAs = None THEN "cancelled" ELSE stoppingAs,
                      status', stopReq')
  /\ UNCHANGED <<memory, faults>>

\* cancel_overdue_runs, once run_timeout_secs have passed.
CancelOverdueRun ==
  /\ Deadline
  /\ runStatus = "running" /\ stoppingAs = None
  /\ StopRunTasks
  /\ FinishStoppedRun("failed", status', stopReq')
  /\ UNCHANGED <<memory, faults>>

TellToStop_bug(x) ==
  /\ x \in work /\ x.kind # "teardown" /\ ~x.told
  /\ ~(status[x.task] = "running" /\ Owns(x))
  /\ work' = (work \ {x}) \cup {[x EXCEPT !.told = TRUE]}
  /\ UNCHANGED <<taskRows, runRow, cands, decided, reaping, faults>>

\* The engine tells an execution to stop: its stop sweep finds the row asked
\* to stop or not its own any more (tasks_to_stop, not_held), or the heartbeat
\* finds the claim gone (renew_task_lease answers false).
TellToStop(x) ==
  /\ x \in work /\ x.kind # "teardown" /\ ~x.told
  /\ \/ x.kind = "held" /\ ~(status[x.task] = "running" /\ Owns(x) /\ ~stopReq[x.task])
     \/ ~(status[x.task] = "running" /\ Owns(x))
  /\ work' = (work \ {x}) \cup {[x EXCEPT !.told = TRUE]}
  /\ UNCHANGED <<taskRows, runRow, cands, decided, reaping, faults>>

-----------------------------------------------------------------------------
(* Step 4: the results of executions, each applied under its claim *)

MayMarkStopping_bug(x) == Owns(x)

\* The guard of mark_task_succeeded, mark_task_failed and retry_task.
MayMark(x) == Owns(x) /\ ~stopReq[x.task]

\* The guard of settle_stopping.
MaySettle(x) == Owns(x) /\ status[x.task] = "running" /\ stopReq[x.task]

Collected(x) == work' = work \ {x} /\ UNCHANGED <<cands, decided, reaping>>

MarkTaskSucceeded(x) ==
  LET t == x.task
      st == [status EXCEPT ![t] = "succeeded"]
      rem == Decremented(st, {t})
  IN  /\ MayMark(x)
      /\ status' = [u \in Tasks |-> IF u \in Promoted(st, rem, t) THEN "ready" ELSE st[u]]
      /\ remaining' = rem
      /\ claimedBy' = [claimedBy EXCEPT ![t] = None]
      /\ UNCHANGED <<version, attempt, lease, stopReq, waking, runRow>>

MarkTaskFailed_bug(x) ==
  /\ MayMark(x)
  /\ status' = [status EXCEPT ![x.task] = "failed"]
  /\ claimedBy' = [claimedBy EXCEPT ![x.task] = None]
  /\ UNCHANGED <<remaining, version, attempt, lease, stopReq, waking, runRow>>

MarkTaskFailed(x) ==
  /\ MayMark(x)
  /\ status' = [status EXCEPT ![x.task] = "failed"]
  /\ remaining' = Decremented(status', {x.task})
  /\ claimedBy' = [claimedBy EXCEPT ![x.task] = None]
  /\ UNCHANGED <<version, attempt, lease, stopReq, waking, runRow>>

\* retry_task: back to `ready` for a later attempt, which its claim will count.
RetryTask(x) ==
  /\ MayMark(x)
  /\ status' = [status EXCEPT ![x.task] = "ready"]
  /\ claimedBy' = [claimedBy EXCEPT ![x.task] = None]
  /\ lease' = [lease EXCEPT ![x.task] = "none"]
  /\ UNCHANGED <<remaining, version, attempt, stopReq, waking, runRow>>

\* requeue_quota_wait: back to `ready`, with the attempt of the claim given back.
RequeueQuotaWait(x) ==
  /\ MayMark(x) /\ status[x.task] = "running"
  /\ status' = [status EXCEPT ![x.task] = "ready"]
  /\ claimedBy' = [claimedBy EXCEPT ![x.task] = None]
  /\ lease' = [lease EXCEPT ![x.task] = "none"]
  /\ attempt' = [attempt EXCEPT ![x.task] = IF @ > 0 THEN @ - 1 ELSE 0]
  /\ UNCHANGED <<remaining, version, stopReq, waking, runRow>>

\* settle_stopping: the task was asked to stop and its work is over.  It is
\* cancelled, whatever it came to, and ends its run if it was the last one.
SettleStopping(x) ==
  /\ MaySettle(x)
  /\ status' = [status EXCEPT ![x.task] = "cancelled"]
  /\ claimedBy' = [claimedBy EXCEPT ![x.task] = None]
  /\ lease' = [lease EXCEPT ![x.task] = "none"]
  /\ stopReq' = [stopReq EXCEPT ![x.task] = FALSE]
  /\ FinishStoppedRun(stoppingAs, status', stopReq')
  /\ UNCHANGED <<remaining, version, attempt, waking>>

\* Neither: the claim is another's now, and nothing is written.
StaleResult(x) ==
  /\ ~MayMark(x) /\ ~MaySettle(x)
  /\ UNCHANGED <<taskRows, runRow>>

\* A command that ended well.  Of a `repeat:` task it is one iteration: done
\* when `until` holds; run again, while iterations are left; or failed, with
\* none left or an `until` that cannot be evaluated.
ResultSucceeds(x) ==
  /\ x \in work /\ x.kind # "teardown" /\ x.task \notin Sensor
  /\ \/ MarkTaskSucceeded(x)
     \/ Iterations[x.task] > x.attempt /\ RetryTask(x)
     \/ Iterations[x.task] > 0 /\ MarkTaskFailed(x)
     \/ SettleStopping(x)
     \/ StaleResult(x)
  /\ Collected(x) /\ UNCHANGED faults

ShouldRetryFailed_bug(x, budget) == x.attempt <= budget

\* should_retry_failed_with_class: `budget` is the one the failure resolves to
\* (the task's own, its fault class's, or 0 for a timeout that is not retried).
ShouldRetryFailed(x, budget) == x.attempt < budget

ResultFails(x) ==
  /\ x \in work /\ x.kind # "teardown" /\ x.task \notin Sensor
  /\ \/ \E budget \in Budgets[x.task] :
          IF ShouldRetryFailed(x, budget) THEN RetryTask(x) ELSE MarkTaskFailed(x)
     \/ SettleStopping(x)
     \/ StaleResult(x)
  /\ Collected(x) /\ UNCHANGED faults

\* The executor refused to start the task for lack of room: it waits, or has
\* waited past DAGRON_QUOTA_WAIT_MAX_SECS and fails for good.
ResultRefused(x) ==
  /\ x \in work /\ x.kind # "teardown" /\ x.task \notin Sensor
  /\ x.task \notin Ganged
  /\ \/ RequeueQuotaWait(x)
     \/ MarkTaskFailed(x)
     \/ SettleStopping(x)
     \/ StaleResult(x)
  /\ Collected(x) /\ Fault

\* Stopped::Gone, of an execution that was told to stop or of a teardown.
ResultGone(x) ==
  /\ x \in work /\ (x.told \/ x.kind = "teardown")
  /\ \/ SettleStopping(x)
     \/ ~MaySettle(x) /\ UNCHANGED <<taskRows, runRow>>
  /\ Collected(x) /\ UNCHANGED faults

\* Stopped::Unseen: release_stopping_task leaves it stopping, under a short
\* lease, for claim_teardowns to look for its work again.
ResultUnseen(x) ==
  /\ x \in work /\ (x.told \/ x.kind = "teardown")
  /\ lease' = IF MaySettle(x) THEN [lease EXCEPT ![x.task] = "live"] ELSE lease
  /\ UNCHANGED <<status, remaining, version, attempt, claimedBy, stopReq, waking, runRow>>
  /\ Collected(x) /\ Fault

-----------------------------------------------------------------------------
(* Sensors: `type: wait` *)

\* park_wait: still `running`, with no claim and no lease, until it wakes.
ParkWait(x) ==
  /\ status[x.task] = "running" /\ version[x.task] = x.fence /\ ~stopReq[x.task]
  /\ waking' = waking \cup {x.task}
  /\ claimedBy' = [claimedBy EXCEPT ![x.task] = None]
  /\ lease' = [lease EXCEPT ![x.task] = "none"]
  /\ UNCHANGED <<status, remaining, version, attempt, stopReq, runRow>>

\* The dispatch of a sensor: parked, or over at once where its time has passed
\* or cannot be read.  A park that matches no row writes nothing.
DispatchSensor(x) ==
  /\ x \in work /\ x.kind # "teardown" /\ x.task \in Sensor
  /\ \/ ParkWait(x)
     \/ MarkTaskSucceeded(x)
     \/ MarkTaskFailed(x)
     \/ SettleStopping(x)
     \/ ~MayMark(x) /\ UNCHANGED <<taskRows, runRow>>
  /\ Collected(x) /\ UNCHANGED faults

\* reconcile_waits.
ReconcileWait(t) ==
  /\ status[t] = "running" /\ t \in waking
  /\ status' = [status EXCEPT ![t] = "succeeded"]
  /\ remaining' = Decremented(status', {t})
  /\ UNCHANGED <<version, attempt, claimedBy, lease, stopReq, waking,
                 runRow, memory, faults>>

-----------------------------------------------------------------------------
(* Step 5: reap *)

FinalStatus_bug ==
  IF \E t \in Tasks : status[t] = "failed" THEN "failed" ELSE "succeeded"

\* `cancelled` and `skipped` fail no run, and neither does an allowed failure.
FinalStatus ==
  IF \E t \in Tasks \ AllowFailure : status[t] = "failed" THEN "failed" ELSE "succeeded"

\* The read: every task is terminal, and the run is not being stopped.
ReapRead(e) ==
  /\ reaping[e] = {}
  /\ runStatus = "running" /\ stoppingAs = None
  /\ \A t \in Tasks : Over(status, t)
  /\ reaping' = [reaping EXCEPT ![e] = {FinalStatus}]
  /\ UNCHANGED <<taskRows, runRow, work, cands, decided, faults>>

ReapApply_bug(e) ==
  /\ \E end \in reaping[e] : runStatus' = end /\ completed' = completed + 1
  /\ reaping' = [reaping EXCEPT ![e] = {}]
  /\ UNCHANGED <<taskRows, stoppingAs, work, cands, decided, faults>>

\* The write, in a transaction of its own, with the run.completed event.
ReapApply(e) ==
  /\ \E end \in reaping[e] :
       IF runStatus = "running"
         THEN runStatus' = end /\ completed' = completed + 1
         ELSE UNCHANGED <<runStatus, completed>>
  /\ reaping' = [reaping EXCEPT ![e] = {}]
  /\ UNCHANGED <<taskRows, stoppingAs, work, cands, decided, faults>>

-----------------------------------------------------------------------------
(* The process of an engine dies and comes back under the same worker_id: *)
(* what its workers ran, and what it had read, is gone.                    *)
Crash(e) ==
  /\ Fault
  /\ work' = {x \in work : x.eng # e}
  /\ cands' = [cands EXCEPT ![e] = {}]
  /\ decided' = [decided EXCEPT ![e] = {}]
  /\ reaping' = [reaping EXCEPT ![e] = {}]
  /\ UNCHANGED <<taskRows, runRow>>

Advance ==
  \/ AdvanceDefaultReady
  \/ AdvanceDefaultSkip
  \/ \E e \in Engines : \/ AdvanceCandidates(e)
                        \/ \E t \in Tasks : AdvanceEvaluate(e, t)
                        \/ AdvanceApply(e)
  \/ \E t \in Tasks : \E verdict \in {"succeeded", "failed"} : ResolveApproval(t, verdict)
  \/ \E t \in Tasks : ReconcileWait(t)

Claim == \E e \in Engines, t \in Tasks : ClaimReady(e, t) \/ ClaimTeardown(e, t)

Leases ==
  \/ \E t \in Tasks : LeaseLapses(t)
  \/ \E x \in work : RenewTaskLease(x)
  \/ RecoverExpiredLeases

Result ==
  \E x \in work : \/ ResultSucceeds(x) \/ ResultFails(x) \/ ResultRefused(x)
                  \/ ResultGone(x) \/ ResultUnseen(x) \/ DispatchSensor(x)

Stop == CancelRun \/ CancelOverdueRun \/ \E x \in work : TellToStop(x)

Reap == \E e \in Engines : ReapRead(e) \/ ReapApply(e)

Next == Advance \/ Claim \/ Leases \/ Result \/ Stop \/ Reap \/ \E e \in Engines : Crash(e)

Spec == Init /\ [][Next]_vars

\* What the engines keep doing, whatever else happens: every engine ticks, a
\* command that is told to stop is killed, and the lease of a claim nobody
\* watches runs out.  No crash, refusal, stall, cancel or deadline is assumed to
\* happen, and a command may run for ever.
Orphaned(t) == ~ \E x \in work : x.task = t /\ Owns(x)

EngineFairness ==
  /\ WF_vars(Advance)
  /\ WF_vars(Claim)
  /\ WF_vars(RecoverExpiredLeases)
  /\ WF_vars(\E t \in Tasks : Orphaned(t) /\ LeaseLapses(t))
  /\ WF_vars(\E x \in work : TellToStop(x))
  /\ WF_vars(\E x \in work : ResultGone(x))
  /\ WF_vars(Reap)

EngineSpec == Spec /\ EngineFairness

\* That every command ends by itself, as one with a timeout_secs does.
CommandsEnd == WF_vars(\E x \in work : ResultSucceeds(x) \/ ResultFails(x) \/ DispatchSensor(x))

-----------------------------------------------------------------------------
(* Properties *)

\* The counter of a pending task is the number of its dependencies that are
\* not over yet: every terminal transition (mark, skip, approval, sensor) was
\* counted off exactly once, by whichever engine made it.
CounterExact ==
  \A t \in Tasks : status[t] = "pending" =>
    remaining[t] = Cardinality({d \in Deps[t] : ~Over(status, d)})

\* No task leaves `pending` by the engines' hand before all its dependencies
\* are over; only a stop may cancel it earlier.
DepsOverFirst ==
  \A t \in Tasks : status[t] \notin {"pending", "cancelled"} =>
    \A d \in Deps[t] : Over(status, d)

\* The trigger rules by what they ask of the outcomes, counted.
RuleAsks(t) ==
  LET n == Cardinality(Deps[t])
      count(sts) == Cardinality({d \in Deps[t] : status[d] \in sts})
  IN  n = 0 \/ CASE Rule[t] = "all_success" -> count({"succeeded"}) = n
                 [] Rule[t] = "all_done"    -> count(Terminal) = n
                 [] Rule[t] = "one_failed"  -> count({"failed", "cancelled"}) > 0
                 [] Rule[t] = "all_failed"  -> count({"failed", "cancelled"}) = n
                 [] Rule[t] = "none_failed" -> count({"failed", "cancelled"}) = 0

\* Promotion in mark_task_succeeded, the set-based sweep and the per-task
\* evaluation agree with one rule, whichever engine gets there first: what
\* runs has its trigger_rule satisfied by its dependencies' outcomes, and what
\* is skipped (with no `when`) has not.
TriggerRuleHonoured ==
  \A t \in Tasks :
    /\ status[t] \in {"ready", "running", "awaiting_approval", "succeeded"} => RuleAsks(t)
    /\ status[t] = "skipped" /\ t \notin Conditional => ~RuleAsks(t)

\* A fence names one execution: no two executions of a task are out under the
\* same version, and none is from a version the row has not reached.
FenceNamesExecution ==
  /\ \A x \in work : x.fence <= version[x.task]
  /\ \A x, y \in work : x.task = y.task /\ x.fence = y.fence => x = y

\* An execution is told to stop only when its row was asked to stop or is no
\* longer its own, and that never turns back while it is out.
ToldOnlyWhenLost ==
  \A x \in work : x.told =>
    ~(status[x.task] = "running" /\ Owns(x) /\ ~stopReq[x.task])

\* "The run ends when its work has": once the run is over, so is every task,
\* and nothing is left stopping.
EndedRunIsOver ==
  runStatus # "running" =>
    /\ stoppingAs = None
    /\ \A t \in Tasks : Over(status, t) /\ ~stopReq[t]

\* A run that succeeded has no task that failed, except where allowed, and
\* none that was cancelled; one that failed has one that did, or ran out of
\* time.
VerdictMatchesTasks ==
  /\ runStatus = "succeeded" =>
       \A t \in Tasks : \/ status[t] \in {"succeeded", "skipped"}
                        \/ status[t] = "failed" /\ t \in AllowFailure
  /\ runStatus = "failed" =>
       Deadline \/ \E t \in Tasks \ AllowFailure : status[t] = "failed"

\* Each end of the run writes one run.completed event, however many engines
\* reap it or settle its tasks at once.
OneCompletionPerEnd == completed = IF runStatus = "running" THEN 0 ELSE 1

\* The attempts a task spends are bounded by its largest budget, plus one for
\* each claim lost to a crash or a stall: a refusal gives its attempt back.
AttemptsWithinBudget ==
  \A t \in Tasks : \E b \in Budgets[t] \cup {1, Iterations[t]} : attempt[t] <= b + faults

\* What the safety properties above rest on.  A claim and a stop request are
\* only ever on a row that runs, and a row that waits to wake holds neither a
\* claim nor a lease.
ClaimedRuns ==
  \A t \in Tasks :
    /\ claimedBy[t] # None => status[t] = "running"
    /\ stopReq[t] => claimedBy[t] # None
    /\ t \in waking => Over(status, t) \/ (status[t] = "running" /\ claimedBy[t] = None
                                           /\ lease[t] = "none")

\* A stop reaches every task of the run at once: from then on each is over, or
\* asked to stop.
StopShape ==
  (stoppingAs # None \/ \E t \in Tasks : stopReq[t]) =>
    \A u \in Tasks : Over(status, u) \/ stopReq[u]

\* A run that is stopping has not ended and has work to wait for; one that
\* ended has none.
RunShape ==
  /\ stoppingAs # None => runStatus = "running" /\ \E t \in Tasks : stopReq[t]
  /\ runStatus # "running" => \A t \in Tasks : Over(status, t)

\* What an engine has read is still true when it writes, though the write does
\* not look again.
ReadsHold ==
  \A e \in Engines :
    /\ \A t \in cands[e] : \A d \in Deps[t] : Over(status, d)
    /\ \A c \in decided[e] : \A d \in Deps[c.task] : Over(status, d)
    /\ reaping[e] # {} => \A t \in Tasks : Over(status, t)

IInv ==
  /\ TypeOK
  /\ ClaimedRuns
  /\ StopShape
  /\ RunShape
  /\ ReadsHold
  /\ CounterExact
  /\ DepsOverFirst
  /\ OneCompletionPerEnd

\* A task that is over stays as it ended: a late result, a stale advance or a
\* second engine never rewrites it.
TerminalIsFinal ==
  [][\A t \in Tasks : Over(status, t) => status'[t] = status[t]]_vars

\* A task that was asked to stop takes no other result and never runs again:
\* it stays asked until it is cancelled.
StopIsFinal ==
  [][\A t \in Tasks : status[t] = "running" /\ stopReq[t] =>
       \/ status'[t] = "running" /\ stopReq'[t]
       \/ status'[t] = "cancelled"]_vars

\* Where every command ends by itself the run ends, through every crash, stall,
\* refusal and cancel.
RunEnds == CommandsEnd => <>(runStatus # "running")

\* A run that was asked to stop ends, though its commands would run for ever
\* and the engine that started them has crashed.
StopEnds == stoppingAs # None ~> runStatus # "running"

=============================================================================
