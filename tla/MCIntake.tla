------------------------------ MODULE MCIntake ------------------------------
(***************************************************************************)
(* Two engines for TLC to run Ingest and Schedules on: a deployment either *)
(* consumes a stream or keeps a schedule, and neither touches the other's  *)
(* rows.                                                                   *)
(***************************************************************************)
EXTENDS Ingest, Schedules

CONSTANTS n1, n2, s1

\* The second line is no workflow.
SecondLine == {<<s1, 2>>}

\* The stream, or the loops of a schedule in pairs, where they meet; each on its
\* own is a part of these.
StreamOnly == {{"stream"}}
Intakes == StreamOnly \cup {{"fire", "edit"}, {"catchup", "api"}, {"job", "api"}}

\* No one edits the schedule.
FireOnly == {{"fire"}}

Streams == "stream" \in use

intakeVars == <<ingestVars, vars>>

IntakeInit == IngestInit /\ Init

StreamStep == Streams /\ IngestNext /\ UNCHANGED vars

ScheduleStep == ~Streams /\ Next /\ UNCHANGED ingestVars

IntakeSpec == IntakeInit /\ [][StreamStep \/ ScheduleStep]_intakeVars

partVars == IF Streams THEN ingestVars ELSE vars

\* What an engine does of its own accord, and what it comes to do though it is
\* refused for a while.
Works(n) == IF Streams THEN Step(n) /\ UNCHANGED use ELSE JobStep(n)
Makes(n) == IF Streams THEN Handle(n) /\ UNCHANGED use ELSE Fill(<<"job", n>>)
Expires ==
  IF Streams
  THEN UNCHANGED use /\ \E s \in Shards : owner[s] = NoOne /\ LeaseLapses(s)
  ELSE Lapse /\ faults' = faults

\* IngestFairness, or that of Schedules' FairSpec.
IntakeFairSpec ==
  /\ IntakeSpec
  /\ WF_partVars(Expires)
  /\ \A n \in Nodes : /\ WF_partVars(Works(n)) /\ SF_partVars(Makes(n))
                       /\ WF_vars(~Streams /\ TryAcquire(n))
=============================================================================
