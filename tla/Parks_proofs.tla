---------------------------- MODULE Parks_proofs ----------------------------
(***************************************************************************)
(* Proofs about the tasks that park, FanOut and SubWorkflow, for any       *)
(* number of engines, lists, children, crashes, clears and reruns: each    *)
(* implements Park, a barrier is expanded once into a fresh generation and *)
(* joins with all of it, and a trigger ends well with its own child.       *)
(***************************************************************************)
EXTENDS MCParks, TLAPS

USE FanOutAssumption

-----------------------------------------------------------------------------
(* The barrier *)

Instances == [epoch : Nat, item : Nat, from : Nat, status : {"live", "succeeded", "failed"}]

Places == {"idle", "drop", "count", "join", "read", "room", "expand", "finish"}

Sweeps == [at : Places, seen : Nat, list : Lengths \cup {NoList}, from : Nat, ok : BOOLEAN]

BarrierTypes ==
  /\ producer \in {"live", "succeeded"} /\ output \in Lengths \cup {NoList}
  /\ barrier \in {"pending", "running"} \cup Over
  /\ round \in Nat /\ version \in Nat /\ parkRound \in Nat
  /\ inst \subseteq Instances /\ sweep \in [Engines -> Sweeps]
  /\ torn \in BOOLEAN

\* A barrier that is over has been counted once.
BarrierCounted == waits = IF barrier \in Over THEN 0 ELSE 1

\* The instances are of one generation, which a barrier that is put back leaves
\* behind; a producer at work has no output.
Generations ==
  /\ \A i, j \in inst : i.epoch = j.epoch
  /\ \A i \in inst : i.epoch <= version /\ (barrier = "pending" => i.epoch < version)
  /\ \A i \in inst : barrier = "running" /\ i.epoch = version => i.from >= parkRound
  /\ parkRound <= round
  /\ producer = "live" => output = NoList

\* What a sweep has read is not of a later version.  Where the version is the one
\* it began with, the barrier has not been put back, and no instance has come
\* since it found none.
Reads(e) ==
  /\ sweep[e].seen <= version
  /\ sweep[e].at \in {"idle", "drop", "count", "join", "read"}
       => sweep[e].list = NoList /\ ~sweep[e].ok
  /\ sweep[e].at \in {"room", "expand"} => sweep[e].list \in Lengths
  /\ sweep[e].at = "expand" => sweep[e].list > 0
  /\ sweep[e].at # "idle" /\ sweep[e].seen = version =>
       /\ barrier # "pending"
       /\ sweep[e].at \in {"read", "room", "expand"} => inst = {}
       /\ sweep[e].at \in {"room", "expand"} => sweep[e].from >= parkRound

\* As long as no reset comes between its statements, a sweep has the output that
\* is there still, the version moves only as a sweep expands, and what it is to
\* join with stays.
Whole(e) ==
  /\ sweep[e].list # NoList => sweep[e].list = output
  /\ sweep[e].at # "idle" /\ sweep[e].seen # version =>
       output \in Lengths \ {0} /\ \A i \in inst : i.epoch = version
  /\ sweep[e].at \notin {"idle", "drop"} => \A i \in inst : i.epoch = version
  /\ sweep[e].at = "join" => inst # {}
  /\ sweep[e].at = "finish" /\ sweep[e].ok /\ ~AllowFailure =>
       /\ \A i \in inst : i.status = "succeeded"
       /\ sweep[e].list = NoList => inst # {}
       /\ sweep[e].list # NoList => output = 0

\* The inductive invariant of a fan-out.
FInv ==
  /\ BarrierTypes /\ BarrierCounted /\ Generations
  /\ \A e \in Engines : Reads(e)
  /\ ~torn => \A e \in Engines : Whole(e)
  /\ JoinIsWhole

LEMMA BarrierStarts ==
  ASSUME Init
  PROVE  FInv
<1> USE DEF Init
<1>1. Idle \in Sweeps /\ Idle.at = "idle" /\ Idle.seen = 0 /\ Idle.list = NoList /\ Idle.ok = FALSE
  BY DEF Idle, Sweeps, Places
<1>2. sweep \in [Engines -> Sweeps]
  BY <1>1
<1>3. BarrierTypes
  BY <1>2 DEF BarrierTypes
<1>4. ASSUME NEW e \in Engines PROVE Reads(e) /\ Whole(e)
  BY <1>1, <1>4 DEF Reads, Whole
<1>5. BarrierCounted /\ Generations /\ JoinIsWhole
  BY DEF BarrierCounted, Generations, JoinIsWhole, Over
<1> QED
  BY <1>3, <1>4, <1>5 DEF FInv

\* A sweep that has let go of the barrier, and one that goes on with what it has.
LEMMA IdleSweep ==
  /\ Idle \in Sweeps /\ Idle.at = "idle" /\ Idle.seen = 0 /\ Idle.list = NoList
  /\ Idle.from = 0 /\ Idle.ok = FALSE
  BY DEF Idle, Sweeps, Places

LEMMA SweepMoves ==
  ASSUME NEW s \in Sweeps, NEW a \in Places, NEW n \in Nat, NEW l \in Lengths \cup {NoList},
         NEW m \in Nat, NEW b \in BOOLEAN
  PROVE  /\ [s EXCEPT !.at = a] \in Sweeps
         /\ [s EXCEPT !.at = a, !.seen = n] \in Sweeps
         /\ [s EXCEPT !.at = a, !.ok = b] \in Sweeps
         /\ [s EXCEPT !.at = a, !.list = l, !.from = m] \in Sweeps
  BY DEF Sweeps

\* What a step of the barrier is to show: the invariant, and a step of Park.
BarrierStepOK ==
  /\ FInv'
  /\ \/ Contract!Resolve \/ Contract!PutBack
     \/ UNCHANGED <<barrier \in Over, waits>>

\* A statement of a sweep that only reads.
LEMMA ReadingStep ==
  ASSUME FInv, NEW e \in Engines, NEW s \in Sweeps, sweep' = [sweep EXCEPT ![e] = s],
         UNCHANGED <<producerVars, barrierVars, inst, waits, torn>>,
         Reads(e)', ~torn => Whole(e)'
  PROVE  BarrierStepOK
<1> USE DEF producerVars, barrierVars
<1>1. BarrierTypes' /\ BarrierCounted' /\ Generations' /\ JoinIsWhole'
  BY DEF FInv, BarrierTypes, BarrierCounted, Generations, JoinIsWhole
<1>2. ASSUME NEW f \in Engines PROVE Reads(f)' /\ (~torn => Whole(f)')
  <2>1. CASE f = e
    BY <2>1
  <2>2. CASE f # e
    <3>1. sweep'[f] = sweep[f]
      BY <2>2 DEF FInv, BarrierTypes
    <3> QED
      BY <1>2, <3>1 DEF FInv, Reads, Whole
  <2> QED
    BY <2>1, <2>2
<1> QED
  BY <1>1, <1>2 DEF FInv, BarrierStepOK

LEMMA SweepBeginsOK ==
  ASSUME FInv, NEW e \in Engines, SweepBegins(e)
  PROVE  BarrierStepOK
<1> DEFINE s == [Idle EXCEPT !.at = "drop", !.seen = version]
<1>1. s \in Sweeps /\ s.at = "drop" /\ s.seen = version /\ s.list = NoList /\ s.ok = FALSE
  <2>1. version \in Nat /\ "drop" \in Places
    BY DEF FInv, BarrierTypes, Places
  <2> QED
    BY ONLY <2>1, IdleSweep DEF Sweeps, s
<1>2. sweep' = [sweep EXCEPT ![e] = s] /\ sweep \in [Engines -> Sweeps]
  BY DEF SweepBegins, Goes, FInv, BarrierTypes
<1> HIDE DEF s
<1>3. sweep'[e] = s /\ UNCHANGED <<producerVars, barrierVars, inst, waits, boundVars>>
  BY <1>2 DEF SweepBegins
<1>4. Reads(e)' /\ Whole(e)'
  BY <1>1, <1>3 DEF Reads, Whole, SweepBegins, barrierVars, FInv, BarrierTypes
<1> QED
  BY <1>1, <1>2, <1>3, <1>4, ReadingStep DEF boundVars

LEMMA SweepCountsOK ==
  ASSUME FInv, NEW e \in Engines, SweepCounts(e)
  PROVE  BarrierStepOK
<1> DEFINE s == [sweep[e] EXCEPT !.at = IF inst # {} THEN "join" ELSE "read"]
<1>0. sweep \in [Engines -> Sweeps] /\ sweep[e] \in Sweeps
  BY DEF FInv, BarrierTypes
<1>1. /\ s \in Sweeps /\ s.at = IF inst # {} THEN "join" ELSE "read"
      /\ s.seen = sweep[e].seen /\ s.list = sweep[e].list /\ s.ok = sweep[e].ok
  <2>1. (IF inst # {} THEN "join" ELSE "read") \in Places
    BY DEF Places
  <2> QED
    BY <1>0, <2>1, SweepMoves DEF Sweeps
<1>2. sweep' = [sweep EXCEPT ![e] = s]
  BY DEF SweepCounts, Goes
<1> HIDE DEF s
<1>3. sweep'[e] = s /\ UNCHANGED <<producerVars, barrierVars, inst, waits, boundVars>>
  BY <1>0, <1>2 DEF SweepCounts
<1>4. Reads(e)' /\ (~torn => Whole(e)')
  BY <1>1, <1>3 DEF Reads, Whole, SweepCounts, producerVars, barrierVars, FInv
<1> QED
  BY <1>1, <1>2, <1>3, <1>4, ReadingStep DEF boundVars

LEMMA SweepIdlesOK ==
  ASSUME FInv, NEW e \in Engines, sweep' = [sweep EXCEPT ![e] = Idle],
         UNCHANGED <<producerVars, barrierVars, inst, waits, torn>>
  PROVE  BarrierStepOK
<1>1. sweep'[e] = Idle /\ version \in Nat /\ UNCHANGED <<version, barrier, inst, output>>
  BY DEF FInv, BarrierTypes, producerVars, barrierVars
<1>2. Reads(e)' /\ Whole(e)'
  BY <1>1, IdleSweep DEF Reads, Whole
<1> QED
  BY <1>2, IdleSweep, ReadingStep

LEMMA SweepJoinsOK ==
  ASSUME FInv, NEW e \in Engines, SweepJoins(e)
  PROVE  BarrierStepOK
<1>1. CASE \E i \in inst : i.status = "live"
  BY <1>1, SweepIdlesOK DEF SweepJoins, Goes, boundVars
<1>2. CASE ~ \E i \in inst : i.status = "live"
  <2> DEFINE b == AllowFailure \/ \A i \in inst : i.status # "failed"
             s == [sweep[e] EXCEPT !.at = "finish", !.ok = b]
  <2>0. sweep \in [Engines -> Sweeps] /\ sweep[e] \in Sweeps
    BY DEF FInv, BarrierTypes
  <2>1. b \in BOOLEAN /\ "finish" \in Places
    BY DEF Places
  <2>2. sweep' = [sweep EXCEPT ![e] = s]
    BY <1>2 DEF SweepJoins, Goes
  <2>3. ~AllowFailure /\ b => \A i \in inst : i.status = "succeeded"
    BY <1>2 DEF FInv, BarrierTypes, Instances
  <2> HIDE DEF b
  <2>4. /\ s \in Sweeps /\ s.at = "finish"
        /\ s.seen = sweep[e].seen /\ s.list = sweep[e].list /\ s.ok = b
    BY <2>0, <2>1, SweepMoves DEF Sweeps
  <2> HIDE DEF s
  <2>5. sweep'[e] = s /\ UNCHANGED <<producerVars, barrierVars, inst, waits, boundVars>>
    BY <2>0, <2>2 DEF SweepJoins
  <2>6. Reads(e)' /\ (~torn => Whole(e)')
    BY <2>3, <2>4, <2>5 DEF Reads, Whole, SweepJoins, producerVars, barrierVars, FInv
  <2> QED
    BY <2>2, <2>4, <2>5, <2>6, ReadingStep DEF boundVars
<1> QED
  BY <1>1, <1>2

LEMMA SweepReadsOK ==
  ASSUME FInv, NEW e \in Engines, SweepReads(e)
  PROVE  BarrierStepOK
<1> DEFINE a == IF output = NoList THEN "finish" ELSE "room"
           s == [sweep[e] EXCEPT !.at = a, !.list = output, !.from = round]
<1>0. sweep \in [Engines -> Sweeps] /\ sweep[e] \in Sweeps
  BY DEF FInv, BarrierTypes
<1>1. a \in Places /\ output \in Lengths \cup {NoList} /\ round \in Nat
  BY DEF FInv, BarrierTypes, Places
<1>2. sweep' = [sweep EXCEPT ![e] = s]
  BY DEF SweepReads, Goes
<1>3. (a = "finish" /\ output = NoList) \/ (a = "room" /\ output # NoList)
  OBVIOUS
<1> HIDE DEF a
<1>4. /\ s \in Sweeps /\ s.at = a /\ s.from = round
      /\ s.seen = sweep[e].seen /\ s.list = output /\ s.ok = sweep[e].ok
  BY <1>0, <1>1, SweepMoves DEF Sweeps
<1> HIDE DEF s
<1>5. sweep'[e] = s /\ UNCHANGED <<producerVars, barrierVars, inst, waits, boundVars>>
  BY <1>0, <1>2 DEF SweepReads
<1>6. Reads(e)' /\ (~torn => Whole(e)')
  BY <1>1, <1>3, <1>4, <1>5 DEF Reads, Whole, SweepReads, producerVars, barrierVars, FInv, Generations
<1> QED
  BY <1>2, <1>4, <1>5, <1>6, ReadingStep DEF boundVars

LEMMA SweepAsksOK ==
  ASSUME FInv, NEW e \in Engines, SweepAsksForRoom(e)
  PROVE  BarrierStepOK
<1> DEFINE fits == Cardinality(inst) + sweep[e].list <= Room
           a == IF fits /\ sweep[e].list > 0 THEN "expand" ELSE "finish"
           s == [sweep[e] EXCEPT !.at = a, !.ok = fits]
<1>0. sweep \in [Engines -> Sweeps] /\ sweep[e] \in Sweeps
  BY DEF FInv, BarrierTypes
<1>1. a \in Places /\ fits \in BOOLEAN
  BY DEF Places
<1>2. sweep' = [sweep EXCEPT ![e] = s]
  BY DEF SweepAsksForRoom, Goes
<1>3. \/ a = "expand" /\ sweep[e].list > 0
      \/ a = "finish" /\ (fits => ~(sweep[e].list > 0))
  OBVIOUS
<1> HIDE DEF a, fits
<1>4. /\ s \in Sweeps /\ s.at = a /\ s.from = sweep[e].from
      /\ s.seen = sweep[e].seen /\ s.list = sweep[e].list /\ s.ok = fits
  BY <1>0, <1>1, SweepMoves DEF Sweeps
<1> HIDE DEF s
<1>5. sweep'[e] = s /\ UNCHANGED <<producerVars, barrierVars, inst, waits, boundVars>>
  BY <1>0, <1>2 DEF SweepAsksForRoom
<1>6. sweep[e].at = "room" /\ sweep[e].list \in Lengths /\ sweep[e].list \in Nat
      /\ sweep[e].list # NoList /\ Reads(e) /\ (~torn => Whole(e))
  BY DEF SweepAsksForRoom, FInv, Reads
<1>7. Reads(e)'
  BY <1>3, <1>4, <1>5, <1>6 DEF Reads, barrierVars
<1>8. ASSUME ~torn PROVE Whole(e)'
  <2>1. CASE a = "expand"
    BY <1>4, <1>5, <1>6, <1>8, <2>1 DEF Whole, producerVars, barrierVars
  <2>2. CASE a = "finish" /\ ~fits
    BY <1>4, <1>5, <1>6, <1>8, <2>2 DEF Whole, producerVars, barrierVars
  <2>3. CASE a = "finish" /\ fits
    <3>1. sweep[e].list = 0 /\ output = 0
      BY <1>3, <1>6, <1>8, <2>3 DEF Whole
    <3>2. inst = {}
      BY <1>6, <1>8, <3>1 DEF Whole, Reads
    <3> QED
      BY <1>4, <1>5, <1>6, <1>8, <2>3, <3>1, <3>2 DEF Whole, producerVars, barrierVars
  <2> QED
    BY <1>1, <1>3, <2>1, <2>2, <2>3
<1> QED
  BY <1>2, <1>4, <1>5, <1>7, <1>8, ReadingStep DEF boundVars

\* The earlier generation goes: while no reset has come, none of this one.
LEMMA SweepDropsOK ==
  ASSUME FInv, NEW e \in Engines, SweepDrops(e)
  PROVE  BarrierStepOK
<1> DEFINE s == [sweep[e] EXCEPT !.at = "count"]
<1> USE DEF producerVars, barrierVars, boundVars
<1>0. sweep \in [Engines -> Sweeps] /\ sweep[e] \in Sweeps /\ "count" \in Places
  BY DEF FInv, BarrierTypes, Places
<1>1. /\ s \in Sweeps /\ s.at = "count"
      /\ s.seen = sweep[e].seen /\ s.list = sweep[e].list /\ s.ok = sweep[e].ok
  BY <1>0, SweepMoves DEF Sweeps
<1>2. sweep' = [sweep EXCEPT ![e] = s]
  BY DEF SweepDrops, Goes
<1> HIDE DEF s
<1>3. /\ sweep'[e] = s /\ \A f \in Engines : f # e => sweep'[f] = sweep[f]
      /\ sweep' \in [Engines -> Sweeps]
  BY <1>0, <1>1, <1>2
<1>4. /\ inst' \subseteq inst /\ \A i \in inst' : i.epoch >= sweep[e].seen
      /\ \A i \in inst : i.epoch = version => i \in inst'
      /\ UNCHANGED <<producerVars, barrierVars, waits, torn>>
  BY <1>0 DEF SweepDrops, FInv, BarrierTypes, Instances, Reads, Sweeps
<1>5. BarrierTypes' /\ BarrierCounted' /\ Generations' /\ JoinIsWhole'
  BY <1>3, <1>4 DEF FInv, BarrierTypes, BarrierCounted, Generations, JoinIsWhole
<1>6. ASSUME NEW f \in Engines PROVE Reads(f)'
  <2>1. CASE f = e
    BY <1>1, <1>3, <1>4, <2>1 DEF FInv, Reads, SweepDrops
  <2>2. CASE f # e
    BY <1>3, <1>4, <1>6, <2>2 DEF FInv, Reads
  <2> QED
    BY <2>1, <2>2
<1>7. ASSUME NEW f \in Engines, ~torn PROVE Whole(f)'
  <2>0. Whole(f) /\ Whole(e) /\ Reads(e)
    BY <1>7 DEF FInv
  <2>1. CASE f = e
    <3>1. ASSUME NEW i \in inst' PROVE i.epoch = version
      BY <1>0, <1>4, <2>0, <3>1 DEF Whole, SweepDrops, FInv, Generations, BarrierTypes, Instances, Sweeps
    <3> QED
      BY <1>1, <1>3, <1>4, <2>0, <2>1, <3>1 DEF Whole, Reads, SweepDrops
  <2>2. CASE f # e
    BY <1>3, <1>4, <1>7, <2>0, <2>2 DEF Whole
  <2> QED
    BY <2>1, <2>2
<1> QED
  BY <1>4, <1>5, <1>6, <1>7 DEF FInv, BarrierStepOK

\* A sweep expands the barrier it has read, which has no instances: the version
\* moves on, and with it every other sweep is behind.
LEMMA SweepExpandsOK ==
  ASSUME FInv, NEW e \in Engines, SweepExpands(e)
  PROVE  BarrierStepOK
<1> USE DEF producerVars, barrierVars, boundVars
<1>1. CASE ~(barrier = "running" /\ version = sweep[e].seen)
  BY <1>1, SweepIdlesOK DEF SweepExpands, Expand, Goes
<1>2. CASE barrier = "running" /\ version = sweep[e].seen
  <2> DEFINE new == [epoch : {version + 1}, item : 1 .. sweep[e].list, from : {sweep[e].from},
                     status : {"live"}]
  <2>1. /\ sweep[e].at = "expand" /\ version' = version + 1 /\ inst' = inst \cup new
        /\ sweep' = [sweep EXCEPT ![e] = Idle]
        /\ UNCHANGED <<producerVars, barrier, parkRound, waits, torn>>
    BY <1>2 DEF SweepExpands, Expand, Goes
  <2>2. /\ sweep \in [Engines -> Sweeps] /\ sweep[e] \in Sweeps /\ version \in Nat
        /\ parkRound \in Nat
    BY DEF FInv, BarrierTypes
  <2>3. /\ inst = {} /\ sweep[e].from >= parkRound /\ sweep[e].from \in Nat
        /\ sweep[e].list \in Lengths /\ sweep[e].list \in Nat /\ sweep[e].list > 0
        /\ (~torn => sweep[e].list = output)
    BY <1>2, <2>1, <2>2 DEF FInv, Reads, Whole, Sweeps
  <2>4. ASSUME NEW i \in new
        PROVE  i \in Instances /\ i.epoch = version' /\ i.from >= parkRound
    BY <2>1, <2>2, <2>3, <2>4 DEF Instances
  <2>5. inst' = new
    BY <2>1, <2>3
  <2> HIDE DEF new
  <2>6. sweep'[e] = Idle /\ \A f \in Engines : f # e => sweep'[f] = sweep[f]
    BY <2>1, <2>2
  <2>7. BarrierTypes'
    BY <2>1, <2>2, <2>4, <2>5, IdleSweep DEF FInv, BarrierTypes
  <2>8. BarrierCounted' /\ JoinIsWhole'
    BY <1>2, <2>1 DEF FInv, BarrierCounted, JoinIsWhole, Over
  <2>9. Generations'
    BY <1>2, <2>1, <2>2, <2>4, <2>5 DEF FInv, Generations
  <2>10. ASSUME NEW f \in Engines PROVE Reads(f)'
    <3>1. CASE f = e
      BY <2>1, <2>2, <2>6, <3>1, IdleSweep DEF Reads
    <3>2. CASE f # e
      <4>1. Reads(f) /\ sweep[f] \in Sweeps /\ sweep[f].seen <= version /\ sweep[f].seen # version'
        BY <2>1, <2>2, <2>10 DEF FInv, Reads, Sweeps
      <4> QED
        BY <2>1, <2>2, <2>6, <3>2, <4>1 DEF Reads, Sweeps
    <3> QED
      BY <3>1, <3>2
  <2>11. ASSUME NEW f \in Engines, ~torn PROVE Whole(f)'
    <3>0. output \in Lengths \ {0} /\ UNCHANGED output
      BY <2>1, <2>3, <2>11
    <3>1. CASE f = e
      BY <2>4, <2>5, <2>6, <3>1, IdleSweep DEF Whole
    <3>2. CASE f # e
      <4>1. Whole(f) /\ Reads(f) /\ sweep'[f] = sweep[f]
        BY <2>6, <2>11, <3>2 DEF FInv
      <4>2. sweep[f].at # "join" /\ ~(sweep[f].at = "finish" /\ sweep[f].ok /\ ~AllowFailure)
        BY <2>3, <3>0, <4>1 DEF Whole
      <4> QED
        BY <2>4, <2>5, <3>0, <4>1, <4>2 DEF Whole
    <3> QED
      BY <3>1, <3>2
  <2> QED
    BY <2>1, <2>7, <2>8, <2>9, <2>10, <2>11 DEF FInv, BarrierStepOK
<1> QED
  BY <1>1, <1>2

\* finish_fanout: with no reset since its sweep began, all of the instances are
\* those the sweep has read, and over.
LEMMA SweepFinishesOK ==
  ASSUME FInv, NEW e \in Engines, SweepFinishes(e)
  PROVE  BarrierStepOK
<1> USE DEF producerVars, barrierVars, boundVars
<1>1. CASE barrier # "running"
  BY <1>1, SweepIdlesOK DEF SweepFinishes, Finish, Goes
<1>2. CASE barrier = "running"
  <2>1. /\ sweep[e].at = "finish" /\ barrier' = (IF sweep[e].ok THEN "succeeded" ELSE "failed")
        /\ waits' = waits - 1 /\ sweep' = [sweep EXCEPT ![e] = Idle]
        /\ UNCHANGED <<producerVars, version, parkRound, inst, torn>>
    BY <1>2 DEF SweepFinishes, Finish, Goes
  <2>2. sweep'[e] = Idle /\ \A f \in Engines : f # e => sweep'[f] = sweep[f]
    BY <2>1 DEF FInv, BarrierTypes
  <2>3. waits = 1 /\ barrier' \in Over /\ barrier \notin Over
    BY <1>2, <2>1 DEF FInv, BarrierCounted, Over
  <2>4. BarrierTypes' /\ BarrierCounted'
    BY <2>1, <2>3, IdleSweep DEF FInv, BarrierTypes, BarrierCounted
  <2>5. Generations'
    BY <2>1, <2>3 DEF FInv, Generations, Over
  <2>6. JoinIsWhole'
    BY <2>1 DEF FInv, Whole, JoinIsWhole
  <2>7. ASSUME NEW f \in Engines PROVE Reads(f)' /\ (~torn => Whole(f)')
    <3>1. CASE f = e
      BY <2>1, <2>2, <3>1, IdleSweep DEF FInv, BarrierTypes, Reads, Whole
    <3>2. CASE f # e
      BY <2>1, <2>2, <2>3, <2>7, <3>2 DEF FInv, Reads, Whole, Over
    <3> QED
      BY <3>1, <3>2
  <2>8. Contract!Resolve
    BY <2>1, <2>3 DEF Contract!Resolve
  <2> QED
    BY <2>1, <2>4, <2>5, <2>6, <2>7, <2>8 DEF FInv, BarrierStepOK
<1> QED
  BY <1>1, <1>2

LEMMA SweepOK ==
  ASSUME FInv, NEW e \in Engines, Sweep(e) \/ Crash(e)
  PROVE  BarrierStepOK
<1>1. CASE Crash(e)
  BY <1>1, SweepIdlesOK DEF Crash, Goes
<1> QED
  BY <1>1, SweepBeginsOK, SweepDropsOK, SweepCountsOK, SweepJoinsOK, SweepReadsOK, SweepAsksOK,
     SweepExpandsOK, SweepFinishesOK DEF Sweep

LEMMA ProducerEndsOK ==
  ASSUME FInv, ProducerEnds
  PROVE  BarrierStepOK
<1> USE DEF ProducerEnds, boundVars
<1>1. BarrierTypes' /\ BarrierCounted' /\ Generations' /\ JoinIsWhole'
  BY DEF FInv, BarrierTypes, BarrierCounted, Generations, JoinIsWhole
<1>2. output = NoList
  BY DEF FInv, Generations
<1>3. ASSUME NEW e \in Engines PROVE Reads(e)' /\ (~torn => Whole(e)')
  BY <1>2, <1>3 DEF FInv, Reads, Whole
<1> QED
  BY <1>1, <1>3 DEF FInv, BarrierStepOK

LEMMA InstanceEndsOK ==
  ASSUME FInv, NEW i \in inst, InstanceEnds(i)
  PROVE  BarrierStepOK
<1> USE DEF boundVars, producerVars
<1>1. PICK j : /\ j \in Instances /\ j.epoch = i.epoch /\ j.from = i.from
               /\ inst' = (inst \ {i}) \cup {j}
  <2>1. PICK end \in {"succeeded", "failed"} : inst' = (inst \ {i}) \cup {[i EXCEPT !.status = end]}
    BY DEF InstanceEnds
  <2>2. i \in Instances
    BY DEF FInv, BarrierTypes
  <2>3. /\ [i EXCEPT !.status = end] \in Instances
        /\ [i EXCEPT !.status = end].epoch = i.epoch /\ [i EXCEPT !.status = end].from = i.from
    BY <2>2 DEF Instances
  <2> QED
    BY <2>1, <2>3
<1>2. i.status = "live" /\ inst # {} /\ inst' # {}
      /\ UNCHANGED <<producer, output, round, barrier, version, parkRound, sweep, waits, torn>>
  BY <1>1 DEF InstanceEnds
<1>3. BarrierTypes' /\ BarrierCounted'
  BY <1>1, <1>2 DEF FInv, BarrierTypes, BarrierCounted
<1>4. Generations'
  BY <1>1, <1>2 DEF FInv, Generations
<1>5. JoinIsWhole'
  BY <1>2 DEF FInv, JoinIsWhole
<1>6. ASSUME NEW e \in Engines PROVE Reads(e)' /\ (~torn => Whole(e)')
  BY <1>1, <1>2, <1>6 DEF FInv, Reads, Whole
<1> QED
  BY <1>2, <1>3, <1>4, <1>5, <1>6 DEF FInv, BarrierStepOK

LEMMA AdvanceBarrierOK ==
  ASSUME FInv, AdvanceBarrier
  PROVE  BarrierStepOK
<1> USE DEF boundVars, producerVars
<1>1. /\ barrier = "pending"
      /\ \/ barrier' = "running" /\ parkRound' = round /\ UNCHANGED waits
         \/ barrier' = "skipped" /\ waits' = waits - 1 /\ UNCHANGED parkRound
      /\ UNCHANGED <<producer, output, round, version, inst, sweep, torn>>
  BY DEF AdvanceBarrier
<1>2. waits = 1 /\ barrier \notin Over
  BY <1>1 DEF FInv, BarrierCounted, Over
<1>3. BarrierTypes' /\ BarrierCounted' /\ JoinIsWhole'
  BY <1>1, <1>2 DEF FInv, BarrierTypes, BarrierCounted, JoinIsWhole, Over
<1>4. Generations'
  BY <1>1 DEF FInv, BarrierTypes, Instances, Generations
<1>5. ASSUME NEW e \in Engines PROVE Reads(e)' /\ (~torn => Whole(e)')
  BY <1>1, <1>5 DEF FInv, Reads, Whole
<1>6. Contract!Resolve \/ UNCHANGED <<barrier \in Over, waits>>
  BY <1>1, <1>2 DEF Contract!Resolve, Over
<1> QED
  BY <1>1, <1>3, <1>4, <1>5, <1>6 DEF FInv, BarrierStepOK

\* A reset: with no sweep between its statements, or torn.
LEMMA PutBackOK ==
  ASSUME FInv, NEW p \in BOOLEAN, NEW rows2 \in SUBSET Instances, PutBack(p, rows2, 1),
         \A r \in rows2 : \E i \in inst : r.epoch = i.epoch /\ r.from = i.from
  PROVE  BarrierStepOK
<1>1. /\ inst' = rows2 /\ UNCHANGED <<parkRound, sweep>>
      /\ torn' = (torn \/ \E e \in Engines : sweep[e] # Idle)
      /\ \/ producer' = "live" /\ output' = NoList /\ round' = round + 1
         \/ UNCHANGED <<producer, output, round>>
      /\ \/ barrier \in Over /\ barrier' = "pending" /\ version' = version + 1 /\ waits' = 1
         \/ barrier \notin Over /\ UNCHANGED <<barrier, version, waits>>
  BY DEF PutBack, producerVars
<1>2. /\ version \in Nat /\ round \in Nat /\ parkRound \in Nat /\ inst \subseteq Instances
      /\ sweep \in [Engines -> Sweeps]
  BY DEF FInv, BarrierTypes
<1>3. BarrierTypes'
  BY <1>1 DEF FInv, BarrierTypes
<1>4. BarrierCounted' /\ JoinIsWhole'
  BY <1>1 DEF FInv, BarrierCounted, JoinIsWhole, Over
<1>5. Generations'
  <2>1. /\ \A i, j \in inst' : i.epoch = j.epoch
        /\ \A i \in inst' : i.epoch \in Nat /\ i.epoch <= version
                            /\ (barrier = "pending" => i.epoch < version)
                            /\ (barrier = "running" /\ i.epoch = version => i.from >= parkRound)
    BY <1>1, <1>2 DEF FInv, Generations, Instances
  <2>2. (producer' = "live" => output' = NoList) /\ parkRound' <= round'
    BY <1>1, <1>2 DEF FInv, Generations
  <2> QED
    BY <1>1, <1>2, <2>1, <2>2 DEF Generations, Over
<1>6. ASSUME NEW e \in Engines PROVE Reads(e)'
  <2>1. inst = {} => inst' = {}
    BY <1>1
  <2> QED
    BY <1>1, <1>2, <1>6, <2>1 DEF FInv, Reads, Sweeps
<1>7. ASSUME NEW e \in Engines, ~torn' PROVE Whole(e)'
  <2>1. sweep'[e] = Idle
    BY <1>1, <1>7
  <2> QED
    BY <2>1, IdleSweep DEF Whole
<1>8. Contract!PutBack \/ UNCHANGED <<barrier \in Over, waits>>
  BY <1>1 DEF Contract!PutBack, Over
<1> QED
  BY <1>3, <1>4, <1>5, <1>6, <1>7, <1>8 DEF FInv, BarrierStepOK

LEMMA LiveRows ==
  ASSUME NEW some \in SUBSET Instances
  PROVE  /\ Live(some) \subseteq Instances
         /\ \A r \in Live(some) : \E i \in some : r.epoch = i.epoch /\ r.from = i.from
  BY DEF Live, Instances

LEMMA ResetsOK ==
  ASSUME FInv, Clear \/ RerunFromFailed \/ RerunAll
  PROVE  BarrierStepOK
<1>1. inst \subseteq Instances
  BY DEF FInv, BarrierTypes
<1>2. ASSUME NEW some \in SUBSET inst, PutBack(FALSE, (inst \ some) \cup Live(some), 1)
      PROVE  BarrierStepOK
  <2>1. /\ (inst \ some) \cup Live(some) \in SUBSET Instances
        /\ \A r \in (inst \ some) \cup Live(some) :
             \E i \in inst : r.epoch = i.epoch /\ r.from = i.from
    BY <1>1, LiveRows
  <2> QED
    BY <1>2, <2>1, PutBackOK
<1>3. ASSUME NEW p \in BOOLEAN, PutBack(p, inst, 1) PROVE BarrierStepOK
  BY <1>1, <1>3, PutBackOK
<1>4. CASE Clear
  BY <1>2, <1>3, <1>4 DEF Clear
<1>5. CASE RerunFromFailed
  BY <1>2, <1>5 DEF RerunFromFailed
<1>6. CASE RerunAll
  <2>1. PutBack(TRUE, {}, 1) /\ {} \in SUBSET Instances
    BY <1>6 DEF RerunAll
  <2> QED
    BY <2>1, PutBackOK
<1> QED
  BY <1>4, <1>5, <1>6

LEMMA BarrierSteps ==
  ASSUME FInv, Next
  PROVE  BarrierStepOK
  BY ProducerEndsOK, AdvanceBarrierOK, ResetsOK, InstanceEndsOK, SweepOK DEF Next

-----------------------------------------------------------------------------
(* The trigger *)

Hands == [at : {"rest", "claimed", "made", "swept"}, fence : Nat,
          child : Trigger!Children \cup {0}, end : {"none"} \cup Trigger!ChildEnds]

\* The inductive invariant of a trigger: its end counts the task behind it down
\* once, and the end of a child that a sweep has read is its end.
TInv ==
  /\ fence \in Nat /\ subRun \in Trigger!Children \cup {0}
  /\ child \in [Trigger!Children -> {"none", "running"} \cup Trigger!ChildEnds]
  /\ engine \in [Engines -> Hands]
  /\ status \in {"ready", "running", "succeeded", "failed", "cancelled"}
  /\ behind = IF status \in {"succeeded", "failed"} THEN 0 ELSE 1
  /\ \A e \in Engines :
       /\ engine[e].at = "made" => engine[e].child \in Trigger!Children
       /\ engine[e].at = "swept" => /\ engine[e].child \in Trigger!Children
                                    /\ child[engine[e].child] = engine[e].end
                                    /\ engine[e].end \in Trigger!ChildEnds

LEMMA TriggerStarts ==
  ASSUME Trigger!TriggerInit
  PROVE  TInv
<1> USE DEF Trigger!TriggerInit
<1>1. engine \in [Engines -> Hands]
  BY DEF Hands, Trigger!AtRest
<1>2. child \in [Trigger!Children -> {"none", "running"} \cup Trigger!ChildEnds]
  OBVIOUS
<1> QED
  BY <1>1, <1>2 DEF TInv, Trigger!AtRest

\* What an engine has in hand once it has claimed the task, and once it has made
\* a child for it.
LEMMA HandTaken ==
  ASSUME NEW n \in Nat
  PROVE  /\ [Trigger!AtRest EXCEPT !.at = "claimed", !.fence = n] \in Hands
         /\ [Trigger!AtRest EXCEPT !.at = "claimed", !.fence = n].at = "claimed"
<1>1. Trigger!AtRest \in Hands
  BY DEF Hands, Trigger!AtRest
<1> QED
  BY <1>1 DEF Hands

LEMMA HandFilled ==
  ASSUME NEW h \in Hands, NEW c \in Trigger!Children
  PROVE  [h EXCEPT !.at = "made", !.child = c] \in Hands
  BY DEF Hands

\* Every step of a trigger keeps the invariant, resolves the task or puts it back
\* as Park has it, and ends it well only with the child it is parked on.
TriggerStepOK ==
  /\ TInv'
  /\ \/ Trigger!Contract!Resolve \/ Trigger!Contract!PutBack
     \/ UNCHANGED <<status \in {"succeeded", "failed"}, behind>>
  /\ status # "succeeded" /\ status' = "succeeded" => subRun # 0 /\ child[subRun] = "succeeded"

LEMMA TriggerSteps ==
  ASSUME TInv, Trigger!TriggerNext
  PROVE  TriggerStepOK
<1> USE DEF TriggerStepOK, TInv, Hands, Trigger!rowVars, Trigger!Turns, Trigger!AtRest, Trigger!ChildEnds,
            Trigger!Parked, Trigger!HoldsClaim, Trigger!Contract!Resolve, Trigger!Contract!PutBack
<1>1. CASE Trigger!LeaseLapses
  BY <1>1 DEF Trigger!LeaseLapses
<1>2. CASE Trigger!RecoverLease
  BY <1>2 DEF Trigger!RecoverLease
<1>3. CASE Trigger!CancelParent
  BY <1>3 DEF Trigger!CancelParent
<1>4. CASE Trigger!ClearTrigger
  BY <1>4 DEF Trigger!ClearTrigger
<1>5. ASSUME NEW e \in Engines, Trigger!ClaimTrigger(e) PROVE TriggerStepOK
  <2> DEFINE h == [Trigger!AtRest EXCEPT !.at = "claimed", !.fence = fence + 1]
  <2>0. fence + 1 \in Nat
    OBVIOUS
  <2>1. h \in Hands /\ h.at = "claimed"
    BY ONLY <2>0, HandTaken
  <2>2. engine' = [engine EXCEPT ![e] = h]
    BY <1>5 DEF Trigger!ClaimTrigger
  <2> HIDE DEF h
  <2>3. engine' \in [Engines -> Hands]
    BY <2>1, <2>2
  <2> QED
    BY <1>5, <2>1, <2>2, <2>3 DEF Trigger!ClaimTrigger
<1>6. ASSUME NEW e \in Engines, Trigger!MakeChild(e) PROVE TriggerStepOK
  <2>1. PICK c \in Trigger!Children :
          /\ child[c] = "none" /\ child' = [child EXCEPT ![c] = "running"]
          /\ engine' = [engine EXCEPT ![e] = [engine[e] EXCEPT !.at = "made", !.child = c]]
    BY <1>6 DEF Trigger!MakeChild
  <2>2. [engine[e] EXCEPT !.at = "made", !.child = c] \in Hands
    BY HandFilled
  <2>3. engine' \in [Engines -> Hands]
    BY <2>1, <2>2
  <2>4. /\ child' \in [Trigger!Children -> {"none", "running"} \cup Trigger!ChildEnds]
        /\ \A d \in Trigger!Children : child[d] \in Trigger!ChildEnds => child'[d] = child[d]
    BY <2>1
  <2>5. UNCHANGED <<fence, subRun, status, behind>>
    BY <1>6 DEF Trigger!MakeChild
  <2>6. ASSUME NEW f \in Engines
        PROVE  /\ engine'[f].at = "made" => engine'[f].child \in Trigger!Children
               /\ engine'[f].at = "swept" => /\ engine'[f].child \in Trigger!Children
                                             /\ child'[engine'[f].child] = engine'[f].end
                                             /\ engine'[f].end \in Trigger!ChildEnds
    BY <2>1, <2>4, <2>6
  <2> QED
    BY <2>3, <2>4, <2>5, <2>6
<1>7. ASSUME NEW e \in Engines, Trigger!ParkSubworkflow(e) PROVE TriggerStepOK
  BY <1>7 DEF Trigger!ParkSubworkflow
<1>8. ASSUME NEW e \in Engines, Trigger!ReleaseSubworkflowTask(e) PROVE TriggerStepOK
  BY <1>8 DEF Trigger!ReleaseSubworkflowTask
<1>9. ASSUME NEW e \in Engines, Trigger!CannotStart(e) PROVE TriggerStepOK
  BY <1>9 DEF Trigger!CannotStart
<1>10. ASSUME NEW e \in Engines, Trigger!SweepSubworkflows(e) PROVE TriggerStepOK
  BY <1>10 DEF Trigger!SweepSubworkflows, Trigger!ReadParked
<1>11. ASSUME NEW e \in Engines, Trigger!Decide(e) PROVE TriggerStepOK
  BY <1>11 DEF Trigger!Decide, Trigger!Decides, Trigger!Resolved, Trigger!Requeued
<1>12. ASSUME NEW e \in Engines, Trigger!CrashEngine(e) PROVE TriggerStepOK
  BY <1>12 DEF Trigger!CrashEngine
<1>13. ASSUME NEW c \in Trigger!Children, Trigger!ChildRunEnds(c) PROVE TriggerStepOK
  BY <1>13 DEF Trigger!ChildRunEnds
<1> QED
  BY <1>1, <1>2, <1>3, <1>4, <1>5, <1>6, <1>7, <1>8, <1>9, <1>10, <1>11, <1>12, <1>13
  DEF Trigger!TriggerNext, Trigger!EngineStep

-----------------------------------------------------------------------------
(* The specification *)

PInv == FInv /\ TInv

LEMMA ParksSteps ==
  ASSUME PInv, [BarrierStep \/ TriggerStep]_allVars
  PROVE  /\ PInv'
         /\ BarrierStepOK \/ UNCHANGED <<barrier \in Over, waits>>
         /\ TriggerStepOK \/ UNCHANGED <<status, behind>>
<1>1. CASE BarrierStep
  <2>1. UNCHANGED rows /\ BarrierStepOK
    BY <1>1, BarrierSteps DEF BarrierStep, PInv
  <2>2. TInv'
    BY <2>1 DEF PInv, TInv, rows
  <2> QED
    BY <2>1, <2>2 DEF PInv, BarrierStepOK, rows
<1>2. ASSUME UNCHANGED vars PROVE FInv' /\ UNCHANGED <<barrier \in Over, waits>>
  BY <1>2 DEF PInv, FInv, vars, producerVars, barrierVars, boundVars, BarrierTypes, BarrierCounted,
              Generations, Reads, Whole, JoinIsWhole
<1>3. CASE TriggerStep
  <2>1. UNCHANGED vars /\ TriggerStepOK
    BY <1>3, TriggerSteps DEF TriggerStep, PInv
  <2> QED
    BY <1>2, <2>1 DEF PInv, TriggerStepOK
<1>4. CASE UNCHANGED allVars
  <2>1. TInv' /\ UNCHANGED <<status, behind>>
    BY <1>4 DEF PInv, TInv, allVars, rows
  <2> QED
    BY <1>2, <1>4, <2>1 DEF PInv, allVars
<1> QED
  BY <1>1, <1>3, <1>4

\* The inductive invariants of the fan-out and of the trigger.
THEOREM ParksInvariance == ParksSpec => []PInv
<1>1. ParksInit => PInv
  BY BarrierStarts, TriggerStarts DEF ParksInit, PInv
<1>2. PInv /\ [BarrierStep \/ TriggerStep]_allVars => PInv'
  BY ParksSteps
<1> QED
  BY <1>1, <1>2, PTL DEF ParksSpec

\* A barrier and a trigger implement Park: whichever engine joins, expands, fails,
\* skips, resolves or requeues them, between whichever crashes, clears and reruns,
\* the task behind is counted down once for each time they are over.
THEOREM ParksImplementPark == ParksSpec => ParksKeepPromise
<1>1. ParksInit => Contract!Init /\ Trigger!Contract!Init
  BY DEF ParksInit, Init, Trigger!TriggerInit, Contract!Init, Trigger!Contract!Init, Over
<1>2. PInv /\ [BarrierStep \/ TriggerStep]_allVars
        => [Contract!Resolve \/ Contract!PutBack]_<<barrier \in Over, waits>>
  BY ParksSteps DEF BarrierStepOK
<1>3. PInv /\ [BarrierStep \/ TriggerStep]_allVars
        => [Trigger!Contract!Resolve \/ Trigger!Contract!PutBack]_<<status \in {"succeeded", "failed"}, behind>>
  BY ParksSteps DEF TriggerStepOK
<1> QED
  BY <1>1, <1>2, <1>3, ParksInvariance, PTL
  DEF ParksSpec, ParksKeepPromise, BarrierKeepsPromise, Trigger!TriggerKeepsPromise,
      Contract!Spec, Trigger!Contract!Spec

\* A trigger ends well only with the child it is parked on, and that has ended
\* well: what a sweep read of an earlier turn's child does not end it.
THEOREM TriggerEndsWithItsChild == ParksSpec => EndsWithItsChild
<1>1. PInv /\ [BarrierStep \/ TriggerStep]_allVars
        => [status # "succeeded" /\ status' = "succeeded"
              => subRun # 0 /\ child[subRun] = "succeeded"]_(Trigger!triggerVars)
  BY ParksSteps DEF TriggerStepOK
<1> QED
  BY <1>1, ParksInvariance, PTL DEF ParksSpec, EndsWithItsChild, Trigger!EndsWithItsChild

\* However many sweeps are at a barrier, and whatever is cleared and run again
\* between their statements, its live instances are of one generation, and those
\* of a parked one of an output printed for this park.
THEOREM FanOutIsFresh == ParksSpec => []OneFreshGeneration
<1>1. PInv => OneFreshGeneration
  BY DEF PInv, FInv, Generations, OneFreshGeneration
<1> QED
  BY <1>1, ParksInvariance, PTL

\* A barrier that no reset has torn a sweep of succeeds with every instance.
THEOREM FanOutJoinsWhole == ParksSpec => []JoinIsWhole
<1>1. PInv => JoinIsWhole
  BY DEF PInv, FInv
<1> QED
  BY <1>1, ParksInvariance, PTL
=============================================================================
