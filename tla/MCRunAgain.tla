----------------------------- MODULE MCRunAgain -----------------------------
(***************************************************************************)
(* A fan-in for TLC to run RunAgain on, and Gangs where its first two      *)
(* tasks are the ranks of a gang: the instance Train.                      *)
(***************************************************************************)
EXTENDS Gangs, TLC

CONSTANT e1

AllSuccess == [t \in Tasks |-> "all_success"]
OneAttempt == [t \in Tasks |-> {1}]

\* A rank of the gang may have a second attempt.
RanksRetried == [t \in Tasks |-> IF t = "c" THEN {1} ELSE {1, 2}]
NoRepeat == [t \in Tasks |-> 0]

\* a, b -> c.
FanInTasks == {"a", "b", "c"}
FanInDeps == "a" :> {} @@ "b" :> {} @@ "c" :> {"a", "b"}

VARIABLE ganged   \* whether a and b are a gang

Train == INSTANCE Gangs WITH Ganged <- {"a", "b"}, Budgets <- RanksRetried, Deadline <- TRUE

ASSUME TrainAssumption == Train!GangAssumption

allVars == <<ganged, gangVars>>

PlainStep == ~ganged /\ AgainNext /\ UNCHANGED <<ganged, dying>>

TrainStep == ganged /\ Train!GangNext /\ UNCHANGED ganged

FanInInit == ganged \in BOOLEAN /\ GangInit

FanInNext == PlainStep \/ TrainStep

FanInSpec == FanInInit /\ [][FanInNext]_allVars

\* RunningCounterExact of RunAgain, in a workflow with no gang.
CountersRunAgain == ~ganged => RunningCounterExact

\* A gang is claimed whole: ClaimsWhole of Gangs, at every step.
GangIsClaimedWhole == [][ganged => Train!ClaimsWhole]_allVars
=============================================================================
