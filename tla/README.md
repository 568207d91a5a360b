# dagron in TLA+

A verification project for dagron's engine: TLA+ modules that model how runs and
their tasks move through the database, how runs come to be (sources, schedules,
backfills, triggers) and how their ends are told; TLC configurations that check
them on small instances; and TLAPS proofs of the central properties for every
workflow.

All paths below are relative to the repository, `src/` standing for its root.
`DB` is `src/crates/dagron-core/src/db/sqlite.rs`, `LOOP` is
`src/crates/dagron-engine/src/lib.rs`.

## 1. The system

dagron runs DAG workflows. The database is the source of truth: a row of
`workflow_runs` per run, a row of `task_runs` per task. Any number of identical
engines run the same reconcile loop over it (`LOOP`, `run`), each with a pool of
workers; the API, a process of its own, writes to the same rows. Nothing else
coordinates them: an operation is one SQL transaction, guarded by the status,
the claim (`claimed_by`) and the fencing token (`version`) of the rows it
changes.

One tick of an engine: (1) sweeps: expired leases, stops, deadlines, admissions,
approvals, parks; (2) `advance_ready_tasks`; (3) claims and dispatch to workers;
(4) results of workers; (5) `reap`, which ends the runs whose tasks are over.

### Inventory

| component | state | operations | what is hard | what makes it correct |
|---|---|---|---|---|
| task and run state machine (`DB`, `models.rs`) | status, `remaining_deps`, `version`, `attempt`, `claimed_by`, `lease_expires_at`, `stop_requested_at`, `wake_at`; the run's `status`, `stopping_as`; `run.completed` events | advance, claim, mark, retry, requeue, recover, cancel, settle, park, wake, reap | every operation by several engines at once, late results, crashes at any point, reads that are older than their write | dependents counted down once, rules honoured, fences unique, ends final, one completion per end, runs end |
| reconcile loop (`LOOP`) | executions out (`held`), candidates and decisions read | the tick | memory lost with the process; `held` has one entry per task | as above |
| worker pool (`dagron-executor/src/worker.rs`) | slots, heartbeats, stop signals | run, renew, stop, tear down | a lease lapses while the work goes on | an execution is told to stop when it has lost its row, and only then |
| running again (`DB` 5523-6033) | the same rows | rerun from failed, rerun all, clear with downstream, retry of one task | comes between any two steps of the engines, leftovers of the last round | counters agree with statuses, fences never reused, nothing stranded |
| gangs (`DB` 1516-1685) | `gang_id`, `gang_size` | claim of all or none, cancel of siblings | two transactions per failure | claimed whole, no member stranded |
| admission (`DB` 446-491, 5316-5454, 8768-8837) | `queued_at`, `admitted_at`, one dependency more per task | create, supersede, admit, rerun | a cap counted in three places | cap held, order kept, waiting ends |
| outbox (`DB` 7085-7660, `db.rs` 484-537, `dagron-engine/src/run_end.rs`) | events, sinks with a cursor, deliveries with leases and attempts | enrol, claim, deliver, fail, shed | events that commit later than their stamp; a crash between delivery and mark; a run rerun before its end is told | no event left behind, each end told or accounted for, every one settled |
| parks (`DB` 2563-4540) | children, instances, polls, external handles | park, expand, join, resolve, requeue, fail | sweeps of several statements, by every engine; children made in one transaction and parked on in another; clears in between | the parent is over once, with what it waited for |
| leadership, sweep slots (`DB` 9740-9830) | lease rows | acquire, renew, release | stalls | one leader at a time, up to a lease |
| sources (`dagron-source/src/stream.rs`, `ingest.rs`, `DB` 168, 851-990) | partitions, offsets, dead letters | lease, reconcile, receive, create, park, ack, nack, redrive | redelivery, leases lost with a line in flight | nothing skipped, each line a run or a dead letter once |
| schedules, backfills (`schedule.rs`, `backfill.rs`, `backfill_jobs.rs`, `DB` 6038-6395) | next fire, slot ledger, job cursor and count | fire, gate, stop, edit, catch up, backfill, pace, cancel | several nodes, restarts, three fillers of one ledger | each slot once, no slot lost, jobs end |
| remote runners (`dagron-runner`, `dagron-api/src/routes/runner`) | sessions, words for the engine | lease, report | sessions that lapse | as for local workers |
| logs, retention (`dagron-engine/src/gc.rs`, `log_*.rs`) | segments, cut-offs | append, seal, collect | append after the end | nothing of a live run is collected |
| parsing and expansion (`dag.rs`, `expand.rs`) | none | pure | size | a DAG |
| keyed submits (`dagron-api/src/routes/control.rs` 2040-2364) | `run_idempotency` | claim, take over, create, release | a claim taken over from a request that is only slow | one run per key |
| CI gateway (`dagron-ci`) | events, claims, runs by key | record, claim, submit, record the run, settle, withdraw, cancel | a crash between any two; the same event at two workers; a group let go of while one is dispatched | one run per commit, settled once, no event lost, nothing going of a group let go of |
| executors, rest of the HTTP API, importers, front end | outside | | | |

`PROJECT.json` has the same list with what is and what is not modelled, and the
hazards, each at its line with the properties that cover it.

## 2. The modules

| module | models | proofs |
|---|---|---|
| `TaskRuns` | one run, its tasks and the engines that drive it | `TaskRuns_proofs` |
| `RunAgain` | extends `TaskRuns`: the operations that set a run running again | `TaskRuns_proofs` |
| `Gangs` | extends `RunAgain`: one gang among its tasks | `TaskRuns_proofs` |
| `Admission` | the runs of one concurrency key under `max_active_runs` | `Admission_proofs` |
| `Outbox` | the enrolment of events for one sink | `Outbox_proofs` |
| `RunEnd` | the delivery of a run's ends by the workers of one sink | `RunEnd_proofs` |
| `Ingest` | the sharded stream source and the ingest loop over it | `Ingest_proofs` |
| `KeyedSubmit` | a run submitted to dagron-api under an `Idempotency-Key` | `CiEvents_proofs` |
| `CiEvents` | extends `KeyedSubmit`: the webhook queue of dagron-ci | `CiEvents_proofs` |
| `Schedules` | one schedule: leadership, firing, edits, catch-up, backfills, a job | `Schedules_proofs` |
| `Park` | abstract: what a task that parks promises what is behind it | |
| `FanOut` | a runtime fan-out; implements `Park` | `Parks_proofs` |
| `SubWorkflow` | a task of type workflow; implements `Park` | `Parks_proofs` |
| `MC*` | the workflows, caps and fault bounds TLC runs them on | |

They are apart because the code's components meet in a few rows and calls only.
What a module takes from another is a fairness assumption or one action that
stands for it, and the other module has the property: `Admission`, `FanOut` and
`SubWorkflow` take from `TaskRuns` that what is at work ends (`RunEnds`), `RunEnd`
takes from `Outbox` that an end is handed to its sink (`EveryEventIsHanded`), and
`Outbox` takes from `TaskRuns` that an end writes one event
(`OneCompletionPerEnd`).

An operator whose name ends in `_bug` is the definition after it with one
plausible mistake in it. No action uses it. `PROJECT.json` says for every
property which such mistake makes TLC report it.

### TaskRuns

State: the columns of `task_runs` and `workflow_runs` that control anything,
under the names of the code; `completed`, the `run.completed` events written
since the run was last set running; and the memory of the engines: `work` (the
executions out, each under the claim it was made by, with `told` when its stop
was requested and `kind` for whether the engine still has it in `held`), `cands`
and `decided` (the two reads of `advance_exotic_once` before its write) and
`reaping` (the read of `reap` before its write). A crash empties the memory of
one engine and leaves the rows.

Every action is one transaction, or one read outside a transaction. The order of
the steps within a tick is left free: with two engines, and with the API, every
order of transactions occurs anyway. The actions, by the step of the tick:

- advance: `AdvanceDefaultReady`, `AdvanceDefaultSkip` (the two statements of
  `advance_default_shaped`), `AdvanceCandidates`, `AdvanceEvaluate`,
  `AdvanceApply` (`advance_exotic_once`), `ResolveApproval`, `ReconcileWait`;
- claim: `ClaimReady`, `ClaimTeardown`;
- leases: `LeaseLapses` (time), `RenewTaskLease`, `RecoverExpiredLeases`;
- results: `ResultSucceeds`, `ResultFails`, `ResultRefused` (no room to start),
  `ResultGone`, `ResultUnseen` (of work that was told to stop), `DispatchSensor`;
- stops: `CancelRun`, `CancelOverdueRun`, `TellToStop`;
- end: `ReapRead`, `ReapApply`; and `Crash`.

A result is applied by one of the writes `MarkTaskSucceeded`, `MarkTaskFailed`,
`RetryTask`, `RequeueQuotaWait` or `SettleStopping`, or by none if the claim it
carries is not the row's any more (`StaleResult`).

Abstractions: time is gone but for "the lease is live or has lapsed"; a backoff
(`scheduled_at`) only delays a claim; the output of a task and the condition of a
runtime `when` are a choice among the outcomes; the budget of a failure is a
choice from `Budgets[t]` (the task's own, that of the fault class, 0 for a
timeout that is not retried). A sensor's dispatch is apart from its claim: the
engine may crash between. Tasks are in no pool, and priorities and runner
classes, which only choose among claims, are left out.

`end_stopped_runs` is not an action. It ends a run that is stopping with no
stopping task; `RunShape`, a part of the proved invariant, says that engines of
this version never leave such a run. It is for rows an older version left.

### RunAgain

`RerunFromFailed`, `RerunAll`, `ClearTaskWithDownstream` and `RetryTaskFromUi`
with the engines of `TaskRuns` around them. The first three share `PutBack`: the
reset of the rows and, in a statement of its own after it, the recount of
`remaining_deps`. `Rearmed` is what happens to the run's row.
`refuse_if_full` is in `Admission`. `refuse_if_teardown_owed` is about handles of
external jobs, which are not modelled.

### Gangs

One gang, the constant `Ganged`. `ClaimReadyGang` takes it whole; the members'
failures go through `GangResultFails`, which leaves the member in `dying` until
`CancelGangSiblings`, the second transaction. Between the two the engine does
nothing else (`Free`); a crash forgets it. The operations of `RunAgain` come at any
moment. `MCRunAgain` has both in one behaviour space: `ganged` says whether the first
two tasks are a gang, that of the instance `Train`.

### Admission

The runs of one workflow and one key. What `TaskRuns` has in detail is one bit
per run, `busy`. `hold` is the dependency that `create_run_full` adds to every
task of a run that waits and `admit_waiting_runs` takes away. `CreateRun` is one
transaction: supersede, count, then refuse, queue or start. `cancel_overdue_runs`
does no more to a run's row here than `CancelRun` does and leaves out the runs
that wait, so it is not an action of its own.

### Outbox

`outbox_enroll` for one sink, by the workers of several replicas. An event is
stamped (`BeginEvent`) before its transaction commits (`EndEvent`), so a younger
one may be seen first. A worker reads the clock and the cursor, selects a batch
of events that are not handed, inserts their deliveries and moves the cursor: four
steps, with a crash between any two. Time is a number. `Late` is
`OUTBOX_LATE_COMMIT_SECS`, and `Tick` does not let a transaction stay open longer:
it is what the constant's comment takes for granted, and the one assumption
`NoneLeftBehind` rests on. `IInv`, which the run checks and `Outbox_proofs` proves, is
`NoneLeftBehind` with what makes it inductive.

### RunEnd

The ends of one run and a sink's workers: claim of what is due under a lease,
`owed`, the part itself, and the record of its outcome. The run may be set running
again at any time, so that its ends differ in whether they are still its own.
`attempts` is the row's count, `seenAttempts` what a claim read of it: `fail` goes
by the latter. `shed_outbox` reads its victims in one step and sheds each in
another. A lease or a backoff that runs out is `ComesDue`; a lease that runs out
under a worker is a fault, since `PART_TIMEOUT` is less than `LEASE_SECS`.

### Ingest

The shards of `ShardedStreamSource` and the consumers of several engines. A shard
is a file of `Lines` lines, written half a line at a time, and a position is a
number of halves: a child reads with `follow` off, so that the end of the file
ends a line. `upkeep` is `Renew`, `Claim` and `Reconcile`; `handle` is one of
`CreateRunWithOffset`, `Refused`, `CreateFails`, `DeadLetter`, `DeadLetterFails`,
then `Ack` or `Nack`. What a half line parses as is left open (`Torn`). The
transaction that moves the offset does not ask for the lease, in the model as in
the code. `taken` counts halves: `BytesTakenOnce` is about them, and says that none is
lost or repeated; `ExactlyOnce` is what the code's comments say of lines, and does not
hold (see Disagreements).

### KeyedSubmit and CiEvents

`KeyedSubmit` is the row `run_idempotency` has of one key and the requests made with
it, statement by statement: claim (or take over a claim that is old), create the run
and resolve the claim in one transaction, or give the claim back. A request may be
slow, refused or lost at any of them, and a claim that cannot be given back is left to
age. A run is named by the request that made it.

`CiEvents` puts the workers of dagron-ci around it. The events are of one merge group
at one head, under one key, and the one by which the queue lets go of the group.
`ClaimEvent`, `ReadRepo` and `FinishEvent` are the loop of `worker.rs` with the
statements of `db.rs`; `FindRun`, `Submit`, `ReadAnswer` and `RecordRun` are
`run_workflow`; `GroupEvents`, `WithdrawEvent`, `GroupRuns`, `CancelRun` are
`drop_group`. A worker that dies leaves its claim to lapse; one that stalls goes on,
and its request goes on at dagron-api when it has given up on the answer. A submit
that finds no room puts the event back with its attempt (`wait`). Runs do not end by
themselves, so that a run that is left going stays visible.

### Schedules

Leadership is a row and, on every node, a flag that mirrors it; loops go by the
flag. One schedule whose slots are numbers: `ClaimDue`, `Gate` or `Fire`, `Advance`
are the steps of a round of `schedule.rs`; `EditRead` and `EditWrite` those of
`update_schedule`, which keeps the next fire time it read, or computes it anew where
the schedule is turned on or its cron or timezone is another. Catch-up sweep, API backfill and backfill job are three kinds of
filler over one ledger (`ClaimSlot`, `Fill`, `GiveBack`), each with its own way to
fail; the job also keeps a cursor and a count (`AdvanceBackfill`). The constant
`Uses` says which loops a behaviour has; `Intakes` has each pair that meets. Of
`pace_one` two ends are left out: a job whose cron no longer parses is completed, and
a tick that has looked at `ENUMERATE_HARD_CAP` fire times stops there and goes on from
its cursor in the next.

### Park, FanOut and SubWorkflow

`Park` has two variables: whether the task is over, and what `remaining_deps` of
the task behind it has for it. It is over once each time it runs, counts down
then, and has the other wait again when it is put back. Both detailed modules
instantiate it (`Contract == INSTANCE Park WITH ...`) and the run checks
`Contract!Spec` of each (`ParksKeepPromise`). A cancelled trigger is not over in this sense, since a
stop counts nobody down.

`FanOut` has the barrier, its producer, the instances and, per engine, the sweep
`reconcile_fanouts` statement by statement: begin, drop the last generation, count,
join or read the output, ask for room, expand, finish. `version` is the generation.
Only the expansion is guarded by it. The two DELETEs of the drop, edges and then rows,
are one step: what lies between them shows in the barrier's edges alone, and the sweep
goes by the rows. The resets (`Clear`, `RerunFromFailed`,
`RerunAll`) come between any two statements; `torn` remembers that one did, because
`finish_fanout` and the drop are not guarded by the version and a reset in between
makes what they read stale. `JoinIsWhole` and `BarrierEnds` except that case and no
other. A producer that fails, and a cancel, leave no parked barrier of their own
and are in `TaskRuns`.

`SubWorkflow` has the trigger's row, its child runs and the engines: claim, make
the child, park, in three steps; a sweep that reads a parked trigger with an ended
child and a step that writes its decision, guarded by `sub_run_id`. With `repeat:`
a child that ended well may be followed by another.

`MCParks` runs both in one behaviour space, `kind` choosing which of the two the
task is. `MCIntake` does the same for `Ingest` and `Schedules` (`use` has the stream or
loops of the schedule) and `MCEvents` for `Outbox` and `CiEvents` (`way`): the parts
share no variable, a behaviour is of one of them, and the fairness is that of each.

## 3. The runs

Deadlock is not checked: a run that has ended is a state in which the system
may stop. The constants of each run are in its `.cfg`.

| run | workflow and bounds | checks |
|---|---|---|
| `task_kinds` | a gate, a sensor, a runtime `when`, an allowed failure, all five trigger rules over six tasks; 2 engines, a cancel, 1 fault | `TriggerRuleHonoured`, `VerdictMatchesTasks`, `CounterExact`, `DepsOverFirst`, `EndedRunIsOver`, `OneCompletionPerEnd`, `TerminalIsFinal`, `StopIsFinal` |
| `retries` | a then b; budgets 0, 1, 3, two iterations; 2 engines, 2 faults, fair | `AttemptsWithinBudget`, `RunEnds`, `StopEnds` |
| `run_again` | a, b then c, with a and b a gang or not; one operation of `RunAgain` at any moment, 1 fault; a rank of the gang may have a second attempt, and its run a deadline | `CountersRunAgain`, `FenceNamesExecution`, `ToldOnlyWhenLost`, `GangIsClaimedWhole` |
| `admission` | four runs, caps 2, 2, 1, 1, two that wait, two that supersede, one of them not trusted, one rerun, fair | `CapHeld`, `HeldWhileWaiting`, `SupersededIsStopped`, `NoOvertaking`, `WaitIsOver` |
| `events` | out: two events, two replicas, batches of one, three instants, lateness 1, 1 crash; in: an event that asks for checks and one that lets go of the group, two workers, three requests, two attempts, one wait, 1 crash, lapse, lost answer or failure; fair | `IInv`, `EveryEventIsHanded`, `OneRunPerCommit`, `SettledIsFinal`, `EveryEventSettles` |
| `run_end` | two ends of one run (cancelled, then succeeded), two workers, two tries, 1 crash or lapse, fair | `CurrentEndIsTold`, `GivenUpAfterEveryTry`, `EveryEndIsSettled` |
| `intake` | a stream: one shard of two lines, the second does not parse, two consumers with room for two partitions, 2 failures or crashes, 1 lapse; a schedule: two nodes, two slots, firing with an edit, catch-up with the API, a job with the API, 1 fault; fair | `BytesTakenOnce`, `EveryLineIsTaken`, `FilledOnce`, `FiredAgainForCause`, `JobWithinCap`, `JobLeavesNoGap`, `JobEnds` |
| `parks` | two engines; a fan-out over no, an empty or a list of two with two resets and a crash; a trigger of two turns with a stall, a cancel and a clear; fair | `OneFreshGeneration`, `JoinIsWhole`, `ParksKeepPromise`, `EndsWithItsChild`, `ParksAreLeft` |
| `cleared_fan_out` | the instance of `parks` | `ClearedFansOut`, which is violated |
| `let_go` | the instance of `events`, with no fault | `GroupIsLetGo`, which is violated |
| `torn_line` | the stream of `intake`, with no fault and no lapse | `ExactlyOnce`, which is violated |
| `double_fire` | the firing of `intake`, with no edit and 1 fault | `NeverDoubleFires`, which is violated |

Why the bounds are enough to be interesting: two engines give every pair of
interleaved transactions, a late result beside its successor included; one fault
is a lapse with the work going on, or a crash; two are a reclaim that is itself
lost, or a teardown that crashes. In `task_kinds` two engines with a slot each end
c and d side by side, whose decrements of e meet. `run_again` has one engine with two slots: its own late
execution beside the next one is there with the fault. The engines are symmetric
(`SYMMETRY`) except where liveness is checked. In `events`, two outbox events and batches
of one are the least with which one can commit behind a cursor that the other
moved, and three instants the least in which it does so late. In `run_end`, two tries and one lapse are two claims whose counts differ. In
the stream of `intake`, one lapse takes a shard from a consumer with its line still in flight, and a
crash of the other brings it back; the spare room lets a consumer that still has a child of the shard claim it again. In
`events`, one event of a commit is at two workers after a
lapse, and the third request finds the claim of the first still there, old or not.
In `parks`, two resets clear a barrier that was put back before,
and two generations of instances meet. The proofs then remove the bounds for what
they cover.

Exceptions in a property name what the code does not guard: `OnceUnlessLapsed`,
a part of `BytesTakenOnce`, allows a part of a shard twice more for each lease that lapsed under a
live consumer (the cursor that the late commit moves back is gone on from, and the late
consumer may come by the shard again from where it was: both happen);
`FiredAgainForCause` is about leaders that do not lapse, and allows a slot once more
for each failure between the run and the advance and for each edit, so that no other
step fires one again;
`JobLeavesNoGap` allows a slot that a crash left claimed, or that another filler
gave back once the job had passed it; `JobWithinCap` the runs of a tick whose count
a crash lost (with two slots and one run there is no room to pass that allowance, and
`JobKeepsToItsCap` has it for every bound), and both are about one leader at a time;
`JoinIsWhole` and `ParksAreLeft` are about barriers that no reset came upon in the
middle of a sweep; `GangIsClaimedWhole` says that no part of a gang starts alone, and
not that a stranded member is started.

### Disagreements

`cleared_fan_out` shows as a counterexample that the code does otherwise than its
tests and comments say. A fan-out fails because one instance failed; its producer
is cleared and succeeds anew. The old instances are still dependencies of the
barrier (nothing drops them before it parks), so `advance_exotic_once` finds a
failed dependency and skips the barrier: nothing fans out over the new output.
`PROJECT.json` quotes the lines.

`let_go` shows that a merge group may keep a run after its queue let go of it. Its
event waits its turn; `drop_group` reads it as waiting, a worker claims it, and
`drop_group` then finds it cannot withdraw it and sees no run to cancel. Had it read
a claimed event it would have looked again, as its comment says.

`torn_line` shows that the lines of a sharded stream do not commit exactly once, as the
doc of `ShardedStreamSource` says (`stream.rs` 375), and that a line still being written
is not waited for, as the comment of `next_line` says (247-249). Children read with
`follow` off, so the end of the file ends the line: the piece is committed as a message
of its own and the rest as another. No fault is needed. That a lapsed lease has lines
taken again is a second way to it, which the run leaves out.

`double_fire` shows that a slot may be fired twice, of which the doc of `schedule.rs`
(9-12) says that N schedulers never do. The run of a slot and the move of
`next_fire_at` are two statements: TLC's behaviour has the second one fail, which is
only logged. A leader that dies between them gives the next one the same slot, and one
whose lease lapses in the middle of a round fires beside it. An edit, which the run
leaves out, is a cause of its own.

Other behaviours that the models show and that the properties therefore leave out:

- a retry of one task from the UI in a running run does not put its dependents'
  counters back: they may be decided while it runs, and counted down twice.
  `CountersRunAgain` speaks of runs with no such retry. A
  rejected gate, or a barrier, that is retried so becomes `ready` and can be
  claimed by a worker;
- a clear in a run that is stopping leaves a pending task in a run that ends.
  `EndedRunIsOver` and `DepsOverFirst` are not claimed of `AgainSpec`: a clear may
  come between the read and the write of an advance or a reap;
- when a gang member fails its siblings are cancelled without a count-down of
  their dependents, and also when the failure itself was refused by its fence: a
  task behind the gang then stays pending and its run does not end. A member whose
  lease lapses after its sibling has ended, or that a rerun from failed puts back
  beside one that had succeeded, can be claimed neither with its gang nor alone.
  No run claims that gangs end, and `CountersRunAgain` is of workflows without one;
- after a raise of the cap a new run may start before an older one that waits under
  the old cap. `NoOvertaking` is among runs of one cap;
- a leader whose lease lapses keeps firing until its renew loop finds out; a
  catch-up sweep goes by `last_fired_at`, so it also runs slots that were gated, and
  fires beside a due fire of the same slot, which does not go through the ledger.
  `FilledOnce` is about the ledger;
- an edit of a schedule writes back the `next_fire_at` and `enabled` it read: it may
  move the schedule back, or turn on one that has just stopped itself.

### Fairness

`EngineFairness`: the engines keep ticking (advance, claim, recover, reap), a
lease nobody renews lapses, the stop sweep tells what it finds, and work that
was told to stop is gone in the end (the executor kills it and its answer is
capped by a timeout). Each is a sweep of the loop that runs on every tick, or a
clock. No fault, cancel or deadline is assumed to happen. `CommandsEnd`, the
hypothesis of `RunEnds`, is that commands end, as those with a `timeout_secs` do;
`StopEnds` does without it.
`ResolveApproval` is within `Advance`, whose weak fairness is over the whole:
the liveness workflows have no gate, since nobody has to decide one.
`Outbox` and `RunEnd` assume that workers go on with their loops, and that leases
and backoffs run out. `Ingest` assumes the same of consumers, and that a submission
refused for room is taken in the end, without which a full unit rightly takes nothing;
that `recv` has the shards in turn is not needed where each has an end. `CiEvents` assumes that workers and dagron-api go on with what they are at, that the
lease of a worker that died lapses and that a backoff ends. `Schedules` assumes the renew loop and the
pacing, and that a slot's run is made in the end where creation is refused for a
while. `MCParks` assumes that every tick dispatches, advances and sweeps and that
what is at work ends. None assumes an event, a fault or a call.
`Admission` assumes that a run which is let in ends: `SF(Reap)`, which is what
`RunEnds` shows of the detailed model; strong, because a task of it may be
claimed again and again before.

## 4. The proofs

Checked with `tlapm M.tla` for the eight modules `*_proofs`. They hold for every
value of the constants that the named assumptions of the models allow
(`DagAssumption`, `EngineAssumption` and `AgainAssumption`, `AdmissionAssumption`, `OutboxAssumption`,
`RunEndAssumption`, `IngestAssumption`, `CiAssumption`, `SchedulesAssumption`,
`FanOutAssumption`): types, finiteness, and that NULL is not a name. Any finite
workflow (`Deps` need not even be acyclic), any trigger rules and task kinds, any
engines, workers, consumers, nodes, slots, budgets, caps, lists and faults.

Every proof has the same form: an inductive invariant, checked by TLC on the
instance of the run (mostly with a larger bound) before it was proved; one lemma
per action, or per group of actions that disturb the same conjuncts, with lemmas
for the conjuncts a step leaves alone; a theorem `Spec => []Inv`; and the
properties from it.

**TaskRuns.** `Invariance` proves `Spec => []IInv`. `CounterExact` is not
inductive by itself: a decrement in `Decremented` is exact only if the task that
ends was not over before, which is a fact about claims (`ClaimedRuns`: a claim is
on a running row only), about parks (a waking row is running or over) and about
stale decisions (`AdvanceApply` writes on a pending row only). `DepsOverFirst`
needs `ReadsHold`, that what an engine read about dependencies is still so when
it writes, which in turn needs that terminal tasks stay. `EndedRunIsOver` needs
`RunShape` and `StopShape`: a stop reaches every task at once, so that when the
last stopping task settles the others are over. `OneCompletionPerEnd` rests on
the guard of each of the writes that end a run. From `IInv` follow, besides its
parts, `TerminalStays` and `StopHolds`, two action properties. The arithmetic of
the counters is in lemmas about `Decremented` (the cardinality of the outstanding
dependencies, before and after), cited wherever a task ends.

On top of `IInv`, each with an invariant of its own:

- `FencesAreUnique` and `ToldHasLost`: every execution carries a fence that its row
  has reached, and the fences of one task's executions differ. A claim uses
  `version + 1`, which is above all of them. What was told to stop has lost its row
  for good, since only a claim gives a row back and it moves the version.
- `RulesAreHonoured` (`TriggerRuleHonoured`): `RulesInv` says it of the rows and of
  the decisions read and not written yet. A rule stands once the dependencies are over
  (`RuleStands`, from `RowsKeepTheirEnd`), so that a decision is as right when it is
  written as when it was made. The engines evaluate a rule over the set of statuses,
  the property counts them: `RuleCounted` shows the two agree.
- `VerdictsMatch` (`VerdictMatchesTasks`): `VerdictInv` adds that a task is cancelled
  only in a run that is stopping or was stopped, so that a reap never reads one, and
  that what a reap has read still holds when it writes.
- `AttemptsAreBounded` (`AttemptsWithinBudget`): `BudgetInv` says that a row which can
  be claimed again without another fault (ready, or under a claim that has lapsed or
  that nobody watches) has room for one more attempt: a retry looked at the budget, or
  the fault that lost the claim paid for it. `OwnersCount` ties the attempt an
  execution carries, by which the retry decides, to the row's.

**RunAgain and Gangs.** `IInv` is not an invariant here: a clear takes back what an
engine has read, and one in a stopping run leaves counters that later fall below zero.
What is left of it is `RowsInv`: the types without the counters', and `ClaimedRuns`.
`RowsKept`, `RunsAgainRows` and `GangRows` show it of every step of the engines, of every
operation that sets a run running again, and of a gang's own steps.

- `AgainInvariance`, `CountersSurviveReruns` (`RunningCounterExact`) and, of the
  specification `run_again` checks, `CountersOfTheFanIn` (`CountersRunAgain`): `AgainInv` adds `StopsNamed`, that a
  stop request is in a run that is to end as something. So the transaction that settles a
  stop, which counts nothing off, leaves the run stopping or ended; and what sets an ended
  run running again counts all its pending tasks anew. `Recounted` is exact whatever the
  counters and statuses were, because after each reset a task is over if and only if its
  status is among the `settled` of that operation. The stronger guess, that a run which is
  stopping is running, is false: a reap read before a clear may end a run that was
  cancelled in between.
- `FencesSurviveReruns` and `FencesHoldInGangs`: every step is a `FenceStep`. It claims a
  set of rows under `version + 1`, tells one execution to stop, or takes executions back
  while each row keeps its version and its claim, or moves to a version nobody holds. Such
  steps keep `FenceNamesExecution` and `ToldOnlyWhenLost`; the theorems about `Spec` are
  from the same lemmas.
- `GangsStartWhole` (`ClaimsWhole`, for a gang of any size; the run's `GangIsClaimedWhole`
  is that of the gang of `MCRunAgain`): no result, advance, lapse or rerun starts a
  member, and the claim of one row refuses members, which leaves the claim of all.

**Admission.** `AdmissionTypeCorrect` and `HoldIsExact`, from an invariant that
joins `HeldWhileWaiting` with the fact that a run not made yet is neither queued
nor admitted. `CapIsKept` needs more than `CapHeld`, which a run of a large cap
could break by leaving: `RoomForEach`, that for every number c the active runs with
a cap of c or less are no more than c. Each run found room under its own cap when it
came in, and those before it only leave; so the active runs cannot all have a cap
below their number. `SupersededIsOut` and `RunsKeepTheirOrder` use that `created_at`
is an order, and that among the runs an admission takes there is a last (`HasLast`).

**Outbox.** `OutboxInvariance` proves `IInv`: what a worker has selected covers what
lies between the cursor it read and where it will move it to, up to what is not
committed within `Late`; another worker may have moved the cursor on since, never
back past what was seen (`SeenIsPast`). `NoEventIsLeftBehind` is a part of it.

**RunEnd.** `RInv`: the ends come in order, a worker's count is of the past
(`seenAttempts <= attempts`), what it holds as done was told, and the row of the last
end was let go untold only while the run was running again or gone. `CurrentEndsAreTold`
and `GivenUpLate` follow.

**Ingest.** `NoneSkipped` needs that each child is behind what is taken (`Accounted`).
The bound of `OnceUnlessLapsed` is a potential argument, `TakenBound`: the takings of
a unit, and those that may yet come (by the holder, `OpenFor`; by consumers that lost
the shard and have not found out, `May` and `Will`), are within 1 and two for each
lapse that somebody took the shard after. The bound is tight: with a spare place among
its partitions a consumer comes by a shard it has lost, and takes a line a third time.

**CiEvents** with **KeyedSubmit.** `CInv`: the key's row names the only run; an answer
with a run is with that one; where a worker is says what it has in hand. `CommitHasOneRun`
and the action property `SettledStays`.

**Schedules.** `SInv` keeps three kinds of books. The ledger: a slot is one filler's
while it is held, filled at most once, and claimed for no one at most twice per fault.
The lease: as long as no lease lapsed under a live node, only its holder is at work.
The loop and the job: the schedule is past what it fired, but for what a fault or a
finished edit has paid for (`Paid`); the job's
runs are what it has counted, what its tick is yet to count, and a pace per fault; what
its cursor has passed is in the ledger or was given back. `SlotIsFilledOnce`,
`SlotIsFiredForCause`, `JobKeepsToItsCap` and `JobCoversItsRange` follow.

**Parks.** `ParksImplementPark` proves the refinement, `FanOut` and `SubWorkflow` each
implementing `Park`: the initial states map to `Park`'s, and every step of the
detailed module to a step of it or to none. It needs that a barrier or a trigger is
counted exactly when it is over. `FanOutIsFresh` needs what a sweep has read (`Reads`):
a sweep that goes by an older version expands nothing. `FanOutJoinsWhole` needs that, with
no reset in between (`torn`), the instances of a sweep that counts are all of its list
(`Whole`). `TriggerEndsWithItsChild` needs that the end a sweep has read of a child is
its end. These theorems are about `MCParks`, which puts the two modules side by side, for
every value of their constants.

Only model-checked:

- liveness under fairness (`RunEnds`, `StopEnds`, `WaitIsOver`, `EveryEventIsHanded`,
  `EveryEndIsSettled`, `EveryLineIsTaken`, `JobEnds`, `EveryEventSettles`, `ParksAreLeft`),
  which TLAPS does not do here;
- `Cone`, a recursive function over the edges: what it computes for every graph would
  need induction over data. The proofs about a clear do not rest on it: they hold for
  any set of tasks in its place.


## 5. Not modelled

- URL, dataset and external sensors, remote-runner sessions: the same park, lease
  and fence as above with another answer; candidates for actions of `SubWorkflow`
  and `TaskRuns`.
- Pools, priorities, runner classes and sweep slots, which choose among work or
  spread it and guard nothing the properties are about.
- The brokers' sources, the webhook and fleet sinks, task events and the adoption of
  rows an older version left.
- `dag.rs` and `expand.rs`: pure functions of a document; their output is the
  constants of `TaskRuns`. Cron arithmetic likewise.
- Executors, the HTTP layer, logs, retention, the importers and the front end:
  input and output, or no state of a live run.
- `postgres.rs`, the twin of `sqlite.rs`: a second source for the same actions.
- The rest of `dagron-ci`: pipelines read from a repository, forks and their
  approvals, the admission of builds (an event that waits for it is as one that
  waits for room), the connection of a repository anew, the reporter of checks,
  fleets.

## 6. Plan

Done: all modules above; every safety property of a run proved for its component. Next,
in order:

1. What else of `TaskRuns` holds across reruns: the attempts counted from the last reset,
   and one `run.completed` for each time the run is set running, each checked by TLC first.
2. The sensors and remote-runner sessions of section 5, as actions of `TaskRuns`.
