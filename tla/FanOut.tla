------------------------------- MODULE FanOut -------------------------------
(***************************************************************************)
(* A runtime fan-out (with_output_of): a barrier that parks once its       *)
(* producer is over, is expanded into one instance for each element of the *)
(* producer's output, and joins them.  The sweep of every engine may       *)
(* expand and join it, over several statements of                          *)
(* crates/dagron-core/src/db/sqlite.rs, while tasks of the run are cleared *)
(* and run again.                                                          *)
(*                                                                         *)
(* An instance that is not over is "live": how it is claimed and run is    *)
(* TaskRuns'.  The run's one other task, which depends on the barrier, is  *)
(* here by its remaining_deps.                                             *)
(***************************************************************************)
EXTENDS Integers, FiniteSets

CONSTANTS
  Engines,
  Lengths,       \* of the lists that the producer may print
  NoList,        \* an output that is none
  Room,          \* what DAGRON_MAX_TASKS_PER_RUN leaves for instances
  AllowFailure,  \* allow_failure of the barrier
  MaxResets,     \* bound on clears and reruns
  MaxFaults      \* bound on crashes

ASSUME FanOutAssumption ==
  /\ IsFiniteSet(Engines) /\ Lengths \subseteq Nat /\ NoList \notin Lengths
  /\ Room \in Nat /\ AllowFailure \in BOOLEAN
  /\ MaxResets \in Nat /\ MaxFaults \in Nat

VARIABLES
  producer,   \* its status: "live", or "succeeded"
  output,     \* its output
  round,      \* how often it has been set to run
  barrier,    \* the barrier's status: "running" is parked
  version,
  remaining,  \* remaining_deps of the barrier
  parkRound,  \* the round of the producer the barrier last parked after
  inst,       \* the rows with this fanout_parent
  sweep,      \* where each engine's sweep is, and what it has read
  waits,      \* remaining_deps of the task behind the barrier
  resets, faults,
  torn        \* a reset has come between two statements of a sweep

producerVars == <<producer, output, round>>
barrierVars == <<barrier, version, remaining, parkRound>>
boundVars == <<resets, faults, torn>>
vars == <<producerVars, barrierVars, inst, sweep, waits, boundVars>>

Over == {"succeeded", "failed", "skipped"}
Idle == [at |-> "idle", seen |-> 0, list |-> NoList, from |-> 0, ok |-> FALSE]

\* The rows and what a sweep has read hold values of their types.
TypeOK ==
  /\ producer \in {"live", "succeeded"}
  /\ output \in Lengths \cup {NoList} /\ round \in Nat
  /\ barrier \in {"pending", "running"} \cup Over
  /\ version \in Nat /\ remaining \in Nat /\ parkRound \in Nat
  /\ \A i \in inst : /\ i.epoch \in 1 .. version /\ i.from \in 1 .. round
                     /\ i.item \in 1 .. Room /\ i.status \in {"live", "succeeded", "failed"}
  /\ \A e \in Engines :
       /\ sweep[e].at \in {"idle", "drop", "count", "join", "read", "room", "expand", "finish"}
       /\ sweep[e].seen \in 0 .. version /\ sweep[e].list \in Lengths \cup {NoList}
  /\ waits \in {0, 1}
  /\ resets \in 0 .. MaxResets /\ faults \in 0 .. MaxFaults /\ torn \in BOOLEAN

Init ==
  /\ producer = "live" /\ output = NoList /\ round = 1
  /\ barrier = "pending" /\ version = 0 /\ remaining = 1 /\ parkRound = 0
  /\ inst = {} /\ sweep = [e \in Engines |-> Idle] /\ waits = 1
  /\ resets = 0 /\ faults = 0 /\ torn = FALSE

-----------------------------------------------------------------------------
(* The tasks *)

\* What the end of a dependency does to the barrier.
CountDown == remaining' = IF barrier = "pending" THEN remaining - 1 ELSE remaining

\* The producer succeeds.  (One that fails leaves no barrier to park.)
ProducerEnds ==
  /\ producer = "live"
  /\ producer' = "succeeded" /\ output' \in Lengths \cup {NoList}
  /\ CountDown
  /\ UNCHANGED <<round, barrier, version, parkRound, inst, sweep, waits, boundVars>>

InstanceEnds(i) ==
  /\ i.status = "live"
  /\ \E end \in {"succeeded", "failed"} :
       inst' = (inst \ {i}) \cup {[i EXCEPT !.status = end]}
  /\ CountDown
  /\ UNCHANGED <<producerVars, barrier, version, parkRound, sweep, waits, boundVars>>

\* advance_exotic_once: all_success, asked of the instances as of the producer.
AdvanceBarrier ==
  /\ barrier = "pending" /\ remaining = 0
  /\ IF producer = "succeeded" /\ \A i \in inst : i.status = "succeeded"
     THEN barrier' = "running" /\ parkRound' = round /\ UNCHANGED waits
     ELSE barrier' = "skipped" /\ waits' = waits - 1 /\ UNCHANGED parkRound
  /\ UNCHANGED <<producerVars, version, remaining, inst, sweep, boundVars>>

-----------------------------------------------------------------------------
(* reconcile_fanouts, statement by statement *)

Goes(e, next) == sweep' = [sweep EXCEPT ![e] = next]

\* PARKED_FANOUTS: parked, and no instance of its generation still at work.
SweepBegins(e) ==
  /\ sweep[e].at = "idle"
  /\ barrier = "running"
  /\ ~ \E i \in inst : i.epoch >= version /\ i.status = "live"
  /\ Goes(e, [Idle EXCEPT !.at = "drop", !.seen = version])
  /\ UNCHANGED <<producerVars, barrierVars, inst, waits, boundVars>>

\* The instances of an earlier generation go, with their edges: two DELETEs, edges
\* first, as one step.
SweepDrops(e) ==
  /\ sweep[e].at = "drop"
  /\ inst' = {i \in inst : i.epoch >= sweep[e].seen}
  /\ Goes(e, [sweep[e] EXCEPT !.at = "count"])
  /\ UNCHANGED <<producerVars, barrierVars, waits, boundVars>>

SweepCounts(e) ==
  /\ sweep[e].at = "count"
  /\ Goes(e, [sweep[e] EXCEPT !.at = IF inst # {} THEN "join" ELSE "read"])
  /\ UNCHANGED <<producerVars, barrierVars, inst, waits, boundVars>>

SweepJoins_bug(e) ==
  /\ sweep[e].at = "join"
  /\ Goes(e, IF inst # {} /\ \A i \in inst : i.status = "live" THEN Idle
             ELSE [sweep[e] EXCEPT !.at = "finish",
                                   !.ok = AllowFailure \/ \A i \in inst : i.status # "failed"])
  /\ UNCHANGED <<producerVars, barrierVars, inst, waits, boundVars>>

\* The statuses of the instances: nothing to do while one is at work.
SweepJoins(e) ==
  /\ sweep[e].at = "join"
  /\ Goes(e, IF \E i \in inst : i.status = "live" THEN Idle
             ELSE [sweep[e] EXCEPT !.at = "finish",
                                   !.ok = AllowFailure \/ \A i \in inst : i.status # "failed"])
  /\ UNCHANGED <<producerVars, barrierVars, inst, waits, boundVars>>

\* The producer's output, through the edges: no list is the end of it.
SweepReads(e) ==
  /\ sweep[e].at = "read"
  /\ Goes(e, [sweep[e] EXCEPT !.at = IF output = NoList THEN "finish" ELSE "room",
                              !.list = output, !.from = round])
  /\ UNCHANGED <<producerVars, barrierVars, inst, waits, boundVars>>

\* The ceiling, over the rows the run has by now; an empty list is done.
SweepAsksForRoom(e) ==
  /\ sweep[e].at = "room"
  /\ LET fits == Cardinality(inst) + sweep[e].list <= Room
     IN  Goes(e, [sweep[e] EXCEPT !.at = IF fits /\ sweep[e].list > 0 THEN "expand" ELSE "finish",
                                  !.ok = fits])
  /\ UNCHANGED <<producerVars, barrierVars, inst, waits, boundVars>>

\* The insert of the instances, stamped with the given generation, if wins.
Expand(e, wins, epoch) ==
  /\ sweep[e].at = "expand"
  /\ Goes(e, Idle)
  /\ IF wins
     THEN /\ version' = version + 1
          /\ inst' = inst \cup
               [epoch : {epoch}, item : 1 .. sweep[e].list, from : {sweep[e].from}, status : {"live"}]
     ELSE UNCHANGED <<version, inst>>
  /\ UNCHANGED <<producerVars, barrier, remaining, parkRound, waits, boundVars>>

SweepExpandsAny_bug(e) == Expand(e, barrier = "running", version + 1)

\* One transaction, of the sweep whose version is the barrier's still.
SweepExpands(e) == Expand(e, barrier = "running" /\ version = sweep[e].seen, version + 1)

Finish(e, wins) ==
  /\ sweep[e].at = "finish"
  /\ Goes(e, Idle)
  /\ IF wins
     THEN barrier' = (IF sweep[e].ok THEN "succeeded" ELSE "failed") /\ waits' = waits - 1
     ELSE UNCHANGED <<barrier, waits>>
  /\ UNCHANGED <<producerVars, version, remaining, parkRound, inst, boundVars>>

\* finish_fanout: of a barrier that is parked, whichever its generation.
SweepFinishes(e) == Finish(e, barrier = "running")

Sweep(e) ==
  \/ SweepBegins(e) \/ SweepDrops(e) \/ SweepCounts(e) \/ SweepJoins(e)
  \/ SweepReads(e) \/ SweepAsksForRoom(e) \/ SweepExpands(e) \/ SweepFinishes(e)

\* The engine dies, and begins again.
Crash(e) ==
  /\ sweep[e] # Idle
  /\ faults < MaxFaults /\ faults' = faults + 1
  /\ Goes(e, Idle)
  /\ UNCHANGED <<producerVars, barrierVars, inst, waits, resets, torn>>

-----------------------------------------------------------------------------
(* Running again *)

\* Tasks are put back, and with them the barrier, if it is over, and the task
\* behind it.  rows are the instances from now on.
PutBack(withProducer, rows, waiting) ==
  LET back == barrier \in Over
  IN  /\ resets < MaxResets /\ resets' = resets + 1
      /\ torn' = (torn \/ \E e \in Engines : sweep[e] # Idle)
      /\ IF withProducer
         THEN producer' = "live" /\ output' = NoList /\ round' = round + 1
         ELSE UNCHANGED producerVars
      /\ inst' = rows
      /\ IF back
         THEN barrier' = "pending" /\ version' = version + 1 /\ waits' = waiting
         ELSE UNCHANGED <<barrier, version, waits>>
      /\ remaining' =
           IF back \/ barrier = "pending"
           THEN Cardinality({i \in rows : i.status = "live"}) + (IF producer' = "live" THEN 1 ELSE 0)
           ELSE remaining
      /\ UNCHANGED <<parkRound, sweep, faults>>

Live(rows) == {[i EXCEPT !.status = "live"] : i \in rows}

\* clear_task_with_downstream, of a task that is over; the instances are not
\* downstream of the barrier, and stay as they are.
Clear ==
  \/ producer = "succeeded" /\ PutBack(TRUE, inst, 1)
  \/ barrier \in Over /\ PutBack(FALSE, inst, 1)
  \/ \E i \in inst : i.status # "live" /\ PutBack(FALSE, (inst \ {i}) \cup Live({i}), 1)

RunOver == producer = "succeeded" /\ barrier \in Over /\ \A i \in inst : i.status # "live"

\* rerun_from_failed, of the run once it has failed.
RerunFromFailed ==
  /\ RunOver /\ barrier \in {"failed", "skipped"}
  /\ LET failed == {i \in inst : i.status = "failed"}
     IN  PutBack(FALSE, (inst \ failed) \cup Live(failed), 1)

\* rerun_all.
RerunAll == RunOver /\ PutBack(TRUE, {}, 1)

-----------------------------------------------------------------------------
Next ==
  \/ ProducerEnds \/ AdvanceBarrier \/ Clear \/ RerunFromFailed \/ RerunAll
  \/ \E i \in inst : InstanceEnds(i)
  \/ \E e \in Engines : Sweep(e) \/ Crash(e)

Spec == Init /\ [][Next]_vars

-----------------------------------------------------------------------------
(* Properties *)

Contract == INSTANCE Park WITH over <- barrier \in Over, waits <- waits

\* Whoever joins, fails or skips the barrier, the task behind it is counted
\* down once for each time the barrier is over.
BarrierKeepsPromise == Contract!Spec

\* What a parked barrier is expanded into is one generation, of an output its
\* producer printed for this park: not of one that a sweep had read before a
\* reset, and not by two sweeps.  What is left of an earlier generation is over.
OneFreshGeneration ==
  /\ \A i, j \in inst : i.status = "live" /\ j.status = "live" => i.epoch = j.epoch
  /\ \A i \in inst : barrier = "running" /\ i.epoch = version => i.from >= parkRound

\* A barrier joins with all of its instances, unless a task was put back in the
\* middle of a sweep: finish_fanout asks for a parked barrier, not for the
\* generation or the statuses its sweep has read.
JoinIsWhole ==
  barrier = "succeeded" /\ ~torn /\ ~AllowFailure => \A i \in inst : i.status = "succeeded"

\* A barrier is over in the end, through crashes, reruns and clears, unless one
\* came in the middle of a sweep: that sweep may drop an instance the barrier,
\* put back by then, has counted on.
BarrierEnds == barrier \notin Over ~> barrier \in Over \/ torn

\* "Clearing a producer and re-running must fan out over the NEW output": a
\* barrier is not passed over once its producer has succeeded anew.
ClearedFansOut == [][barrier' = "skipped" => round = parkRound]_vars
=============================================================================
