------------------------------ MODULE Schedules ------------------------------
(***************************************************************************)
(* One schedule and what makes runs of its fire times, on the node that    *)
(* holds the lease of leadership: the loop that fires what is due, the     *)
(* sweep that catches up what was missed and the pacing of a backfill job, *)
(* and on no node in particular the API's own backfill and its edits of    *)
(* the schedule.                                                           *)
(*                                                                         *)
(* Fire times are the slots 1, 2, ...; slot k is due when the clock is at  *)
(* k.  Every action is one statement on the datastore and what its loop    *)
(* does up to the next one.                                                *)
(***************************************************************************)
EXTENDS Integers, FiniteSets

CONSTANTS
  Nodes,
  None,       \* NULL, or the id of a node that has died
  MaxTime,    \* bound on the clock
  Window,     \* catchup_window_secs
  SweepCap,   \* catchup_max_runs
  JobTo,      \* the last slot of the job's range; the first is 1
  MaxRuns,    \* the job's max_runs
  Pace,       \* BACKFILL_PACE_PER_TICK
  Uses,       \* what deployments run and ask for, of "fire", "catchup", "job", "api", "edit"
  MaxCalls,   \* bound on the edits and backfills asked of the API
  MaxFaults   \* bound on crashes, lost leases and failed writes

ASSUME SchedulesAssumption ==
  /\ IsFiniteSet(Nodes) /\ None \notin Nodes
  /\ MaxTime \in Nat /\ Window \in Nat /\ JobTo \in 1 .. MaxTime
  /\ SweepCap \in Nat \ {0} /\ MaxRuns \in Nat \ {0} /\ Pace \in Nat \ {0}
  /\ MaxCalls \in Nat /\ MaxFaults \in Nat

Slots == 1 .. MaxTime
Times == 0 .. MaxTime
Never == 0       \* NULL as a fire time

\* What fills a slot through the ledger: the sweep and the pacing of each node,
\* and a call of the API.
Api == <<"api", None>>
Fillers == ({"catchup", "job"} \X Nodes) \cup {Api}

VARIABLES
  use,                    \* what this deployment runs and is asked for
  now,
  holder, live,           \* leader_election: whose lease it is, and that it is to expire
  flag,                   \* is_leader of each node
  enabled, next, last,    \* schedules: enabled, next_fire_at, last_fired_at
  fires,                  \* the runs schedule.rs made of each slot
  loop, due, tick,        \* schedule.rs on a node: where it is, the slot, its now
  edit, editNext,         \* update_schedule: what it is to set, the next_fire_at it read
  ledger,                 \* schedule_backfills
  fills,                  \* the runs made of each slot through the ledger
  pc, at, to, count,      \* a filler: where it is, past which slot, up to which, how many so far
  job, cursor, fired,     \* backfills: status, cursor, fired
  seenFired,              \* fired, as the pacing of a node read it
  jobRuns,                \* the runs the job has made
  gaveBack,               \* the slots released by one that does not have them again itself
  lapsed,                 \* a node that lives has lost the lease
  calls, faults

leaderVars == <<holder, live, flag, lapsed>>
rowVars == <<enabled, next, last>>
loopVars == <<fires, loop, due, tick>>
editVars == <<edit, editNext, calls>>
ledgerVars == <<ledger, fills, gaveBack>>
fillVars == <<ledgerVars, pc, at, to, count>>
jobVars == <<job, cursor, fired, seenFired, jobRuns>>
vars == <<use, now, leaderVars, rowVars, loopVars, editVars, fillVars, jobVars, faults>>

\* The rows and the loops' variables hold values of their types.
TypeOK ==
  /\ use \in Uses /\ now \in Times
  /\ holder \in Nodes \cup {None} /\ live \in BOOLEAN /\ flag \in [Nodes -> BOOLEAN]
  /\ lapsed \in BOOLEAN
  /\ enabled \in BOOLEAN /\ next \in 0 .. MaxTime + 1 /\ last \in Times
  /\ fires \in [Slots -> Nat]
  /\ loop \in [Nodes -> {"idle", "due", "fired", "gated"}]
  /\ due \in [Nodes -> Times] /\ tick \in [Nodes -> Times]
  /\ edit \in {"none", "keep", "pause", "reset"} /\ editNext \in 0 .. MaxTime + 1
  /\ ledger \subseteq Slots /\ fills \in [Slots -> Nat]
  /\ pc \in [Fillers -> {"idle", "scan", "held", "record", "complete"}]
  /\ at \in [Fillers -> Times] /\ to \in [Fillers -> Times] /\ count \in [Fillers -> Nat]
  /\ job \in {"none", "running", "completed", "cancelled"}
  /\ cursor \in Times /\ fired \in Nat /\ seenFired \in [Nodes -> Nat] /\ jobRuns \in Nat
  /\ gaveBack \subseteq Slots
  /\ calls \in 0 .. MaxCalls /\ faults \in 0 .. MaxFaults

Init ==
  /\ use \in Uses
  /\ now = 0
  /\ holder = None /\ live = FALSE /\ flag = [n \in Nodes |-> FALSE]
  /\ lapsed = FALSE
  /\ enabled = TRUE /\ next = 1 /\ last = 0
  /\ fires = [k \in Slots |-> 0]
  /\ loop = [n \in Nodes |-> "idle"]
  /\ due = [n \in Nodes |-> 0] /\ tick = [n \in Nodes |-> 0]
  /\ edit = "none" /\ editNext = Never
  /\ ledger = {} /\ fills = [k \in Slots |-> 0]
  /\ pc = [f \in Fillers |-> "idle"]
  /\ at = [f \in Fillers |-> 0] /\ to = [f \in Fillers |-> 0]
  /\ count = [f \in Fillers |-> 0]
  /\ job = IF "job" \in use THEN "running" ELSE "none"
  /\ cursor = 0 /\ fired = 0
  /\ seenFired = [n \in Nodes |-> 0] /\ jobRuns = 0
  /\ gaveBack = {}
  /\ calls = 0 /\ faults = 0

Fault == faults < MaxFaults /\ faults' = faults + 1

\* Time goes by, where a loop looks at it.
Tick ==
  /\ use \cap {"fire", "catchup"} # {}
  /\ now < MaxTime /\ now' = now + 1
  /\ UNCHANGED <<use, leaderVars, rowVars, loopVars, editVars, fillVars, jobVars, faults>>

-----------------------------------------------------------------------------
(* Leadership *)

\* Whose try_acquire_leadership the row lets through.
Free(n) == holder = n \/ ~live

\* try_acquire_leadership, and the flag that mirrors it.
TryAcquire(n) ==
  /\ flag' = [flag EXCEPT ![n] = Free(n)]
  /\ holder' = IF Free(n) THEN n ELSE holder
  /\ live' = TRUE
  /\ UNCHANGED <<use, now, lapsed, rowVars, loopVars, editVars, fillVars, jobVars, faults>>

\* The call fails: the node stands down, and its lease is to run out.
RenewFails(n) ==
  /\ flag[n] /\ Fault
  /\ flag' = [flag EXCEPT ![n] = FALSE]
  /\ UNCHANGED <<use, now, holder, live, lapsed, rowVars, loopVars, editVars, fillVars, jobVars>>

\* The lease runs out: of a node that died or stands down, or of one that is
\* cut off and has yet to find out.
Lapse ==
  LET led == \E n \in Nodes : holder = n /\ flag[n]
  IN  /\ live /\ live' = FALSE
      /\ led => faults < MaxFaults
      /\ faults' = IF led THEN faults + 1 ELSE faults
      /\ lapsed' = (lapsed \/ holder # None)
      /\ UNCHANGED <<use, now, holder, flag, rowVars, loopVars, editVars, fillVars, jobVars>>

\* The process dies.  The one that takes its place has an id of its own.
Crash(n) ==
  LET mine == {f \in Fillers : f[2] = n}
  IN  /\ flag[n] \/ loop[n] # "idle" \/ \E f \in mine : pc[f] # "idle"
      /\ Fault
      /\ holder' = IF holder = n THEN None ELSE holder
      /\ flag' = [flag EXCEPT ![n] = FALSE]
      /\ loop' = [loop EXCEPT ![n] = "idle"]
      /\ due' = [due EXCEPT ![n] = 0] /\ tick' = [tick EXCEPT ![n] = 0]
      /\ pc' = [f \in Fillers |-> IF f \in mine THEN "idle" ELSE pc[f]]
      /\ at' = [f \in Fillers |-> IF f \in mine THEN 0 ELSE at[f]]
      /\ to' = [f \in Fillers |-> IF f \in mine THEN 0 ELSE to[f]]
      /\ count' = [f \in Fillers |-> IF f \in mine THEN 0 ELSE count[f]]
      /\ seenFired' = [seenFired EXCEPT ![n] = 0]
      /\ UNCHANGED <<use, now, live, lapsed, rowVars, fires, editVars, ledger, fills, gaveBack,
                     job, cursor, fired, jobRuns>>

-----------------------------------------------------------------------------
(* schedule.rs *)

\* claim_due_schedules: a SELECT, which claims nothing.
ClaimDue(n) ==
  /\ "fire" \in use /\ flag[n] /\ loop[n] = "idle"
  /\ enabled /\ next # Never /\ next <= now
  /\ loop' = [loop EXCEPT ![n] = "due"]
  /\ due' = [due EXCEPT ![n] = next] /\ tick' = [tick EXCEPT ![n] = now]
  /\ UNCHANGED <<use, now, leaderVars, rowVars, fires, editVars, fillVars, jobVars, faults>>

\* This round of the loop is over.
Rest(n) ==
  /\ loop' = [loop EXCEPT ![n] = "idle"]
  /\ due' = [due EXCEPT ![n] = 0] /\ tick' = [tick EXCEPT ![n] = 0]

\* stop_schedule: the runs so far satisfy stop_expr.
StopSchedule(n) ==
  /\ loop[n] = "due" /\ \E k \in Slots : fires[k] > 0
  /\ enabled' = FALSE
  /\ Rest(n)
  /\ UNCHANGED <<use, now, leaderVars, next, last, fires, editVars, fillVars, jobVars, faults>>

\* The slot is passed over: its when_expr is false, or admission is closed.
Gate(n) ==
  /\ loop[n] = "due"
  /\ loop' = [loop EXCEPT ![n] = "gated"]
  /\ UNCHANGED <<use, now, leaderVars, rowVars, fires, due, tick, editVars, fillVars, jobVars, faults>>

\* create_run_triggered, or its refusal.  The schedule moves on either way.
Fire(n) ==
  /\ loop[n] = "due"
  /\ loop' = [loop EXCEPT ![n] = "fired"]
  /\ \E made \in {0, 1} : fires' = [fires EXCEPT ![due[n]] = @ + made]
  /\ UNCHANGED <<use, now, leaderVars, rowVars, due, tick, editVars, fillVars, jobVars, faults>>

AdvanceFrom(n, slot) ==
  /\ loop[n] \in {"fired", "gated"}
  /\ next' = slot
  /\ last' = IF loop[n] = "fired" THEN tick[n] ELSE last
  /\ Rest(n)
  /\ UNCHANGED <<use, now, leaderVars, enabled, fires, editVars, fillVars, jobVars, faults>>

Advance_bug(n) == AdvanceFrom(n, tick[n])

\* advance_schedule, or advance_schedule_gated: to the first slot after the
\* time at which the round began.
Advance(n) == AdvanceFrom(n, tick[n] + 1)

\* It fails, which is only logged.
AdvanceFails(n) ==
  /\ loop[n] \in {"fired", "gated"} /\ Fault
  /\ Rest(n)
  /\ UNCHANGED <<use, now, leaderVars, rowVars, fires, editVars, fillVars, jobVars>>

-----------------------------------------------------------------------------
(* update_schedule *)

\* It reads the row and settles what to write: next_fire_at as it read it, or the
\* first slot after now where the schedule is turned on or its cron or timezone
\* is another, or none where it is turned off.
EditRead(on, moved) ==
  LET keeps == on /\ enabled /\ next # Never /\ ~moved
  IN  /\ "edit" \in use /\ edit = "none" /\ calls < MaxCalls /\ calls' = calls + 1
      /\ edit' = IF keeps THEN "keep" ELSE IF on THEN "reset" ELSE "pause"
      /\ editNext' = IF keeps THEN next ELSE IF on THEN now + 1 ELSE Never
      /\ UNCHANGED <<use, now, leaderVars, rowVars, loopVars, fillVars, jobVars, faults>>

EditWrite ==
  /\ edit # "none"
  /\ enabled' = (edit # "pause") /\ next' = editNext
  /\ edit' = "none" /\ editNext' = Never
  /\ UNCHANGED <<use, now, leaderVars, last, loopVars, calls, fillVars, jobVars, faults>>

-----------------------------------------------------------------------------
(* The ledger, and what fills through it *)

Put(f, stage, past, upper, made) ==
  /\ pc' = [pc EXCEPT ![f] = stage]
  /\ at' = [at EXCEPT ![f] = past] /\ to' = [to EXCEPT ![f] = upper]
  /\ count' = [count EXCEPT ![f] = made]

Rested(f) == Put(f, "idle", 0, 0, 0)

\* sweep_catchup: from the last fire, and no further back than the window.
Sweep(n) ==
  LET f == <<"catchup", n>>
      lower == IF last > now - Window THEN last ELSE now - Window
  IN  /\ "catchup" \in use /\ flag[n] /\ pc[f] = "idle"
      /\ enabled /\ lower \in 0 .. now - 1
      /\ Put(f, "scan", lower, now, 0)
      /\ UNCHANGED <<use, now, leaderVars, rowVars, loopVars, editVars, ledgerVars, jobVars, faults>>

\* backfill, of the API: up to any fire time.
Backfill ==
  /\ "api" \in use /\ pc[Api] = "idle"
  /\ calls < MaxCalls /\ calls' = calls + 1
  /\ \E upper \in Slots : Put(Api, "scan", 0, upper, 0)
  /\ UNCHANGED <<use, now, leaderVars, rowVars, loopVars, edit, editNext, ledgerVars, jobVars, faults>>

\* pace_one, of a job that may make more runs, with a cron that parses and no more
\* than ENUMERATE_HARD_CAP fire times in its range.
PaceOne(n) ==
  /\ flag[n] /\ pc[<<"job", n>>] = "idle" /\ job = "running" /\ fired < MaxRuns
  /\ Put(<<"job", n>>, "scan", cursor, JobTo, 0)
  /\ seenFired' = [seenFired EXCEPT ![n] = fired]
  /\ UNCHANGED <<use, now, leaderVars, rowVars, loopVars, editVars, ledgerVars,
                 job, cursor, fired, jobRuns, faults>>

\* How many slots a filler takes in one go.
Cap(f) ==
  CASE f[1] = "catchup" -> SweepCap
    [] f[1] = "api" -> MaxTime
    [] f[1] = "job" -> LET remaining == MaxRuns - seenFired[f[2]]
                       IN  IF Pace < remaining THEN Pace ELSE remaining

\* It has a slot to look at, and may take it.
Scans(f) == pc[f] = "scan" /\ at[f] < to[f] /\ count[f] < Cap(f)

ClaimSlot_bug(f) ==
  /\ Scans(f)
  /\ ledger' = ledger \cup {at[f] + 1}
  /\ Put(f, "held", at[f], to[f], count[f])
  /\ UNCHANGED <<use, now, leaderVars, rowVars, loopVars, editVars, fills, gaveBack, jobVars, faults>>

\* claim_backfill_slot: the slot is the filler's, or it is passed over.
ClaimSlot(f) ==
  /\ Scans(f)
  /\ ledger' = ledger \cup {at[f] + 1}
  /\ IF at[f] + 1 \in ledger
     THEN Put(f, "scan", at[f] + 1, to[f], count[f])
     ELSE Put(f, "held", at[f], to[f], count[f])
  /\ UNCHANGED <<use, now, leaderVars, rowVars, loopVars, editVars, fills, gaveBack, jobVars, faults>>

\* create_run_triggered of the slot, and record_backfill_run.
Fill(f) ==
  /\ pc[f] = "held"
  /\ fills' = [fills EXCEPT ![at[f] + 1] = @ + 1]
  /\ jobRuns' = IF f[1] = "job" THEN jobRuns + 1 ELSE jobRuns
  /\ Put(f, "scan", at[f] + 1, to[f], count[f] + 1)
  /\ UNCHANGED <<use, now, leaderVars, rowVars, loopVars, editVars, ledger, gaveBack,
                 job, cursor, fired, seenFired, faults>>

\* release_backfill_slot, of a slot the filler has on its next tick again or not.
GiveBack(f, again) ==
  /\ pc[f] = "held"
  /\ ledger' = ledger \ {at[f] + 1}
  /\ gaveBack' = IF again THEN gaveBack ELSE gaveBack \cup {at[f] + 1}
  /\ UNCHANGED <<use, now, leaderVars, rowVars, loopVars, editVars, fills, jobVars, faults>>

JobFillFails_bug(n) ==
  LET f == <<"job", n>>
  IN  GiveBack(f, TRUE) /\ Put(f, "record", at[f] + 1, to[f], count[f])

\* The run could not be made.  A job has the slot again on its next tick.
JobFillFails(n) ==
  LET f == <<"job", n>>
  IN  GiveBack(f, TRUE) /\ Put(f, "record", at[f], to[f], count[f])

\* The job's environment is gone or refuses it: the job is at its end.
JobUnparsable(n) ==
  LET f == <<"job", n>>
  IN  GiveBack(f, FALSE) /\ Put(f, "record", at[f] + 1, at[f] + 1, count[f])

\* A sweep goes on with its next slot, and stops if the workflow does not parse.
SweepFillFails(n) ==
  LET f == <<"catchup", n>>
  IN  GiveBack(f, FALSE) /\ (Put(f, "scan", at[f] + 1, to[f], count[f] + 1) \/ Rested(f))

\* The call of the API returns the error.
BackfillFails == GiveBack(Api, FALSE) /\ Rested(Api)

\* A sweep or a call of the API has been through its slots.
ScanEnds(f) ==
  /\ f[1] # "job" /\ pc[f] = "scan" /\ ~Scans(f)
  /\ Rested(f)
  /\ UNCHANGED <<use, now, leaderVars, rowVars, loopVars, editVars, ledgerVars, jobVars, faults>>

\* A statement fails, and the sweep, tick or call ends there.
Abandon(f) ==
  /\ pc[f] # "idle" /\ Fault
  /\ Rested(f)
  /\ UNCHANGED <<use, now, leaderVars, rowVars, loopVars, editVars, ledgerVars, jobVars>>

-----------------------------------------------------------------------------
(* The job *)

\* cancel_backfill.
CancelJob ==
  /\ job = "running" /\ job' = "cancelled"
  /\ UNCHANGED <<use, now, leaderVars, rowVars, loopVars, editVars, fillVars,
                 cursor, fired, seenFired, jobRuns, faults>>

Advanced(n, total) ==
  LET f == <<"job", n>>
      exhausted == at[f] = to[f] /\ count[f] < Cap(f)
  IN  /\ pc[f] = "record" \/ (pc[f] = "scan" /\ ~Scans(f))
      /\ cursor' = at[f] /\ fired' = total
      /\ IF exhausted \/ total >= MaxRuns THEN Put(f, "complete", 0, 0, 0) ELSE Rested(f)
      /\ UNCHANGED <<use, now, leaderVars, rowVars, loopVars, editVars, ledgerVars,
                     job, seenFired, jobRuns, faults>>

AdvanceBackfill_bug(n) == Advanced(n, fired)

\* advance_backfill: the cursor and the count, as this tick has them.
AdvanceBackfill(n) == Advanced(n, seenFired[n] + count[<<"job", n>>])

CompleteBackfill_bug(n) ==
  /\ pc[<<"job", n>>] = "complete"
  /\ Rested(<<"job", n>>)
  /\ UNCHANGED <<use, now, leaderVars, rowVars, loopVars, editVars, ledgerVars, jobVars, faults>>

\* complete_backfill, at the end of a tick or of a job found to be through.
CompleteBackfill(n) ==
  LET f == <<"job", n>>
  IN  /\ pc[f] = "complete" \/ (pc[f] = "idle" /\ flag[n] /\ job = "running" /\ fired >= MaxRuns)
      /\ job' = IF job = "running" THEN "completed" ELSE job
      /\ Rested(f)
      /\ UNCHANGED <<use, now, leaderVars, rowVars, loopVars, editVars, ledgerVars,
                     cursor, fired, seenFired, jobRuns, faults>>

-----------------------------------------------------------------------------
Lead(n) == TryAcquire(n) \/ RenewFails(n) \/ Crash(n)

FireStep(n) ==
  ClaimDue(n) \/ StopSchedule(n) \/ Gate(n) \/ Fire(n) \/ Advance(n)

Edit == (\E on, moved \in BOOLEAN : EditRead(on, moved)) \/ EditWrite

FillStep(f) == ClaimSlot(f) \/ Fill(f) \/ ScanEnds(f)

JobStep(n) ==
  PaceOne(n) \/ FillStep(<<"job", n>>) \/ AdvanceBackfill(n) \/ CompleteBackfill(n)

Next ==
  \/ Tick \/ Lapse \/ Edit \/ Backfill \/ BackfillFails \/ CancelJob
  \/ \E n \in Nodes : \/ Lead(n) \/ FireStep(n) \/ AdvanceFails(n)
                      \/ Sweep(n) \/ SweepFillFails(n)
                      \/ JobStep(n) \/ JobFillFails(n) \/ JobUnparsable(n)
  \/ \E f \in Fillers : FillStep(f) \/ Abandon(f)

Spec == Init /\ [][Next]_vars

\* The renew loop and the pacing of each node go on, and a lease no one renews
\* runs out.  A run that is refused for a while is made in the end.  Nothing has
\* to be edited, swept or asked for.
FairSpec ==
  /\ Spec
  /\ WF_vars(Lapse /\ faults' = faults)
  /\ \A n \in Nodes :
       WF_vars(TryAcquire(n)) /\ WF_vars(JobStep(n)) /\ SF_vars(Fill(<<"job", n>>))

-----------------------------------------------------------------------------
(* Properties *)

\* "A re-sweep (or the manual endpoint) never double-runs a slot": sweeps, job
\* and API make one run of a slot between them, whoever leads, whatever fails.
FilledOnce == \A k \in Slots : fills[k] <= 1

\* A slot is fired again only for a cause: with nodes that lead one at a time, it
\* is fired once, once more for each crash or failed write before the schedule
\* has moved on, and once more for each call of the API, as an edit puts back the
\* time it read.
FiredAgainForCause == ~lapsed => \A k \in Slots : fires[k] <= 1 + faults + calls

\* "Only the leader fires and advances it, so N schedulers never double-fire"
\* (schedule.rs): no slot is fired twice.
NeverDoubleFires == \A k \in Slots : fires[k] <= 1

Holds(f, k) == pc[f] = "held" /\ at[f] + 1 = k

\* A job paced by one node at a time makes no more runs than it was given, and
\* the runs of a tick more for each crash, whose tick does not come to be counted.
JobWithinCap == ~lapsed => jobRuns <= MaxRuns + faults * Pace

\* Such a job leaves no slot behind its cursor without a run, its own or another
\* filler's: but for one that a filler holds, or gave back once the job had passed
\* it, and for one that a crash between claim and run has cost, of the node's
\* sweep or its job.
JobLeavesNoGap ==
  ~lapsed =>
    Cardinality({k \in (1 .. cursor) \ gaveBack : fills[k] = 0 /\ \A f \in Fillers : ~Holds(f, k)})
      <= 2 * faults

\* A job that is not cancelled is completed.
JobEnds == job = "running" ~> job # "running"
=============================================================================
