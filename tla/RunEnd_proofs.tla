---------------------------- MODULE RunEnd_proofs ----------------------------
(***************************************************************************)
(* Proofs about RunEnd, for any number of ends, workers, tries and faults: *)
(* an end that is its run's is told before its row is done with, and is    *)
(* given up only after every try.                                          *)
(***************************************************************************)
EXTENDS RunEnd, TLAPS

USE RunEndAssumption

Last(e) == e \in written /\ \A f \in written : f <= e

\* The ends come in order, and a run that is over is in the status of the last.
EndsInOrder ==
  /\ \A e \in written : \A f \in Ends : f < e => f \in written
  /\ runStatus \in {"running", "gone"} \/ \E e \in Ends : Last(e) /\ runStatus = EndAs[e]

\* The row of the last end is done with as it is told, too old, or let go while
\* the run was running again or gone: and that it is then as long as this end is
\* the last.
DoneWithLast(e) ==
  row[e] = "delivered" /\ Last(e) /\ e \notin stale => e \in told \/ runStatus \in {"running", "gone"}

\* What a worker holds was told when it says so, and its count is of the past.
WorkerKnows(w, e) ==
  /\ hold[w][e] = "done" => e \in told
  /\ seenAttempts[w][e] <= attempts[e]

\* The inductive invariant.
RInv ==
  /\ TypeOK /\ EndsInOrder
  /\ \A e \in Ends : /\ row[e] # "none" => e \in written
                     /\ DoneWithLast(e)
                     /\ row[e] = "dead" => attempts[e] >= MaxAttempts
  /\ \A w \in Workers : \A e \in Ends : WorkerKnows(w, e)

LEMMA RStarts ==
  ASSUME Init
  PROVE  RInv
<1> USE DEF Init
<1>1. /\ row \in [Ends -> {"none", "pending"} \cup Settled] /\ due \in [Ends -> BOOLEAN]
      /\ attempts \in [Ends -> Nat]
  OBVIOUS
<1>2. hold \in [Workers -> [Ends -> Stages]] /\ seenAttempts \in [Workers -> [Ends -> Nat]]
  BY DEF Stages
<1>3. TypeOK
  BY <1>1, <1>2 DEF TypeOK
<1> QED
  BY <1>3 DEF RInv, EndsInOrder, DoneWithLast, WorkerKnows

\* A step of the run's.
LEMMA RunSteps ==
  ASSUME RInv, RunAgain \/ \E e \in Ends : EndRun(e) \/ GrowsStale(e)
  PROVE  RInv'
<1> USE DEF rowVars, workVars
<1>1. CASE RunAgain
  <2>1. TypeOK' /\ EndsInOrder'
    BY <1>1 DEF RunAgain, RInv, TypeOK, EndsInOrder, Last
  <2> QED
    BY <1>1, <2>1 DEF RunAgain, RInv, DoneWithLast, Last, WorkerKnows
<1>2. ASSUME NEW e \in Ends, GrowsStale(e) PROVE RInv'
  <2>1. TypeOK' /\ EndsInOrder'
    BY <1>2 DEF GrowsStale, RInv, TypeOK, EndsInOrder, Last
  <2> QED
    BY <1>2, <2>1 DEF GrowsStale, RInv, DoneWithLast, Last, WorkerKnows
<1>3. ASSUME NEW e \in Ends, EndRun(e) PROVE RInv'
  <2>1. /\ e \notin written /\ written' = written \cup {e} /\ runStatus' = EndAs[e] /\ row[e] = "none"
        /\ UNCHANGED <<stale, row, due, attempts, hold, seenAttempts, told, victims, faults>>
    BY <1>3 DEF EndRun, RInv
  <2>2. \A f \in written : f < e
    <3> SUFFICES ASSUME NEW f \in written PROVE f < e
      OBVIOUS
    <3>1. f \in Ends /\ f # e /\ f \in Nat /\ e \in Nat
      BY <2>1 DEF RInv, TypeOK
    <3>2. ~(e < f)
      BY <2>1 DEF RInv, EndsInOrder
    <3> QED
      BY <3>1, <3>2
  <2>3. Last(e)' /\ \A f \in Ends : f # e => ~Last(f)'
    BY <2>1, <2>2 DEF Last, RInv, TypeOK
  <2>4. TypeOK'
    BY <2>1 DEF RInv, TypeOK
  <2>5. EndsInOrder'
    <3>1. \A g \in written' : \A f \in Ends : f < g => f \in written'
      BY <1>3, <2>1 DEF EndRun, RInv, EndsInOrder
    <3> QED
      BY <2>1, <2>3, <3>1 DEF EndsInOrder
  <2>6. \A f \in Ends : DoneWithLast(f)'
    BY <2>1, <2>3 DEF DoneWithLast
  <2> QED
    BY <2>1, <2>4, <2>5, <2>6 DEF RInv, WorkerKnows
<1> QED
  BY <1>1, <1>2, <1>3

\* A step that leaves the run alone, settles no row as delivered but one that is
\* told, stale or of a run that is not over, and goes by no count to come.
LEMMA WorkSteps ==
  ASSUME RInv, UNCHANGED runVars, TypeOK', told \subseteq told',
         \A e \in Ends : /\ row'[e] # "none" => e \in written
                         /\ row'[e] = "delivered" => \/ row[e] = "delivered" \/ e \in told
                                                     \/ ~Owed(e)
                         /\ row'[e] = "dead" => attempts'[e] >= MaxAttempts,
         \A w \in Workers : \A e \in Ends : WorkerKnows(w, e)'
  PROVE  RInv'
<1> USE DEF runVars
<1>1. EndsInOrder'
  BY DEF RInv, EndsInOrder, Last
<1>2. ASSUME NEW e \in Ends PROVE DoneWithLast(e)'
  <2> SUFFICES ASSUME row'[e] = "delivered", Last(e), e \notin stale, e \notin told
               PROVE  runStatus \in {"running", "gone"}
    BY DEF DoneWithLast, Last
  <2>1. CASE row[e] = "delivered"
    BY <2>1, <1>2 DEF RInv, DoneWithLast
  <2>2. CASE ~Owed(e)
    <3>1. \A f \in Ends : Last(f) => f = e
      BY DEF Last, RInv, TypeOK
    <3> QED
      BY <2>2, <3>1 DEF Owed, RInv, EndsInOrder
  <2> QED
    BY <1>2, <2>1, <2>2
<1> QED
  BY <1>1, <1>2 DEF RInv

LEMMA EnrollOK ==
  ASSUME RInv, NEW e \in Ends, Enroll(e)
  PROVE  RInv'
<1> USE DEF Enroll, workVars
<1>1. TypeOK'
  BY DEF RInv, TypeOK, runVars
<1>2. \A w \in Workers : \A f \in Ends : WorkerKnows(w, f)'
  BY DEF RInv, WorkerKnows
<1> QED
  BY <1>1, <1>2, WorkSteps DEF RInv, TypeOK

LEMMA ClaimOK ==
  ASSUME RInv, NEW w \in Workers, ClaimDeliveries(w)
  PROVE  RInv'
<1> USE DEF ClaimDeliveries, Claim
<1>1. hold' \in [Workers -> [Ends -> Stages]]
  BY DEF RInv, TypeOK, Stages
<1>2. seenAttempts' \in [Workers -> [Ends -> Nat]]
  BY DEF RInv, TypeOK
<1>3. due' \in [Ends -> BOOLEAN]
  BY DEF RInv, TypeOK
<1>4. TypeOK'
  BY <1>1, <1>2, <1>3 DEF RInv, TypeOK, runVars
<1>5. ASSUME NEW v \in Workers, NEW f \in Ends PROVE WorkerKnows(v, f)'
  <2>1. CASE v = w
    BY <1>5, <2>1 DEF RInv, TypeOK, WorkerKnows
  <2>2. CASE v # w
    BY <1>5, <2>2 DEF RInv, TypeOK, WorkerKnows
  <2> QED
    BY <2>1, <2>2
<1> QED
  BY <1>4, <1>5, WorkSteps DEF RInv, TypeOK

\* A worker's step with one end.
LEMMA DeliverOK ==
  ASSUME RInv, NEW w \in Workers, NEW e \in Ends, Deliver(w, e)
  PROVE  RInv'
<1> USE DEF rowVars
<1>1. PICK stage \in Stages :
        /\ hold' = [hold EXCEPT ![w][e] = stage]
        /\ stage = "done" => e \in told'
        /\ seenAttempts' = seenAttempts \/ seenAttempts' = [seenAttempts EXCEPT ![w][e] = 0]
  BY DEF Deliver, CheckOwed, ReadFails, RunPart, RecordDelivered, Fail, FailTries, LetGo, Stages
<1>2. told \subseteq told' /\ told' \subseteq Ends /\ UNCHANGED <<runVars, victims, faults>>
  BY DEF Deliver, CheckOwed, ReadFails, RunPart, RecordDelivered, Fail, FailTries, RInv, TypeOK
<1>3. /\ hold' \in [Workers -> [Ends -> Stages]] /\ seenAttempts' \in [Workers -> [Ends -> Nat]]
      /\ \A v \in Workers : \A f \in Ends :
           /\ hold'[v][f] = "done" => f \in told'
           /\ seenAttempts'[v][f] <= attempts[f]
  <2>1. hold' \in [Workers -> [Ends -> Stages]]
    BY <1>1 DEF RInv, TypeOK
  <2>2. seenAttempts' \in [Workers -> [Ends -> Nat]]
    BY <1>1 DEF RInv, TypeOK
  <2>3. ASSUME NEW v \in Workers, NEW f \in Ends, hold'[v][f] = "done" PROVE f \in told'
    BY <1>1, <1>2, <2>3 DEF RInv, TypeOK, WorkerKnows
  <2>4. ASSUME NEW v \in Workers, NEW f \in Ends PROVE seenAttempts'[v][f] <= attempts[f]
    <3>1. seenAttempts[v][f] <= attempts[f] /\ 0 <= attempts[f]
      BY <2>4 DEF RInv, TypeOK, WorkerKnows
    <3>2. seenAttempts'[v][f] = seenAttempts[v][f] \/ seenAttempts'[v][f] = 0
      BY <1>1, <2>4 DEF RInv, TypeOK
    <3> QED
      BY <3>1, <3>2
  <2> QED
    BY <2>1, <2>2, <2>3, <2>4
<1>4. CASE CheckOwed(w, e) \/ ReadFails(w, e) \/ RunPart(w, e) \/ RecordDelivered(w, e)
  <2>1. UNCHANGED <<due, attempts>>
    BY <1>4 DEF CheckOwed, ReadFails, RunPart, RecordDelivered
  <2>2. \/ UNCHANGED row
        \/ MarkDelivered(e) /\ (~Owed(e) \/ e \in told)
    BY <1>4 DEF CheckOwed, ReadFails, RunPart, RecordDelivered, RInv, WorkerKnows
  <2>3. row' \in [Ends -> {"none", "pending"} \cup Settled]
    BY <2>2 DEF MarkDelivered, RInv, TypeOK, Settled
  <2>4. TypeOK'
    BY <1>2, <1>3, <2>1, <2>3 DEF RInv, TypeOK, runVars
  <2>5. \A f \in Ends : /\ row'[f] # "none" => f \in written
                        /\ row'[f] = "delivered" => row[f] = "delivered" \/ f \in told \/ ~Owed(f)
                        /\ row'[f] = "dead" => attempts'[f] >= MaxAttempts
    BY <2>1, <2>2 DEF MarkDelivered, RInv, TypeOK
  <2> QED
    BY <1>2, <1>3, <2>1, <2>4, <2>5, WorkSteps DEF WorkerKnows
<1>5. CASE Fail(w, e)
  <2> DEFINE last == seenAttempts[w][e] + 1 >= MaxAttempts
  <2>1. /\ attempts' = [attempts EXCEPT ![e] = IF row[e] = "pending" THEN attempts[e] + 1 ELSE @]
        /\ row' = [row EXCEPT ![e] = IF row[e] = "pending" /\ last THEN "dead" ELSE @]
        /\ due' = [due EXCEPT ![e] = @ /\ (last \/ row[e] # "pending")]
    BY <1>5 DEF Fail, FailTries
  <2>2. due' \in [Ends -> BOOLEAN]
    <3>1. PICK b \in BOOLEAN : due' = [due EXCEPT ![e] = b]
      BY <2>1 DEF RInv, TypeOK
    <3> QED
      BY <3>1 DEF RInv, TypeOK
  <2>3. /\ attempts' \in [Ends -> Nat] /\ row' \in [Ends -> {"none", "pending"} \cup Settled]
        /\ \A f \in Ends : attempts[f] <= attempts'[f]
    BY <2>1 DEF RInv, TypeOK, Settled
  <2>4. TypeOK'
    BY <1>2, <1>3, <2>2, <2>3 DEF RInv, TypeOK, runVars
  <2>5. ASSUME NEW f \in Ends
        PROVE  /\ row'[f] # "none" => f \in written
               /\ row'[f] = "delivered" => row[f] = "delivered"
               /\ row'[f] = "dead" => attempts'[f] >= MaxAttempts
    <3>1. seenAttempts[w][e] <= attempts[e] /\ seenAttempts[w][e] \in Nat /\ attempts[e] \in Nat
      BY DEF RInv, TypeOK, WorkerKnows
    <3>2. CASE f = e
      BY <2>1, <2>5, <3>1, <3>2 DEF RInv, TypeOK
    <3>3. CASE f # e
      BY <2>1, <2>5, <3>3 DEF RInv, TypeOK
    <3> QED
      BY <3>2, <3>3
  <2>6. ASSUME NEW v \in Workers, NEW f \in Ends PROVE WorkerKnows(v, f)'
    <3>1. /\ seenAttempts'[v][f] \in Nat /\ attempts[f] \in Nat /\ attempts'[f] \in Nat
      BY <1>3, <2>3, <2>6 DEF RInv, TypeOK
    <3> QED
      BY <1>3, <2>3, <2>6, <3>1 DEF WorkerKnows
  <2> QED
    BY <1>2, <2>4, <2>5, <2>6, WorkSteps
<1> QED
  BY <1>4, <1>5 DEF Deliver

LEMMA OtherSteps ==
  ASSUME RInv, ShedRead \/ (\E e \in Ends : ComesDue(e) \/ ShedApply(e)) \/ \E w \in Workers : Crash(w)
  PROVE  RInv'
<1>1. CASE ShedRead
  <2>1. TypeOK' /\ UNCHANGED <<runVars, row, attempts, hold, seenAttempts, told>>
    BY <1>1 DEF ShedRead, RInv, TypeOK, runVars, rowVars, workVars, Claimable
  <2> QED
    BY <2>1, WorkSteps DEF RInv, WorkerKnows
<1>2. ASSUME NEW e \in Ends, ComesDue(e) PROVE RInv'
  <2>1. TypeOK' /\ UNCHANGED <<runVars, row, attempts, hold, seenAttempts, told>>
    BY <1>2 DEF ComesDue, RInv, TypeOK, runVars, workVars
  <2> QED
    BY <2>1, WorkSteps DEF RInv, WorkerKnows
<1>3. ASSUME NEW e \in Ends, ShedApply(e) PROVE RInv'
  <2>1. TypeOK' /\ UNCHANGED <<runVars, attempts, hold, seenAttempts, told>>
    BY <1>3 DEF ShedApply, RInv, TypeOK, runVars, workVars, Settled
  <2>2. \A f \in Ends : /\ row'[f] # "none" => row[f] # "none"
                        /\ row'[f] \in {"dead", "delivered"} => row'[f] = row[f]
    BY <1>3 DEF ShedApply, RInv, TypeOK
  <2> QED
    BY <2>1, <2>2, WorkSteps DEF RInv, WorkerKnows
<1>4. ASSUME NEW w \in Workers, Crash(w) PROVE RInv'
  <2>1. hold' \in [Workers -> [Ends -> Stages]] /\ seenAttempts' \in [Workers -> [Ends -> Nat]]
    BY <1>4 DEF Crash, RInv, TypeOK, Stages
  <2>2. TypeOK' /\ UNCHANGED <<runVars, row, attempts, told>>
    BY <1>4, <2>1 DEF Crash, RInv, TypeOK, runVars, rowVars
  <2>3. ASSUME NEW v \in Workers, NEW f \in Ends PROVE WorkerKnows(v, f)'
    <3>1. CASE v = w
      BY <1>4, <2>2, <2>3, <3>1 DEF Crash, RInv, TypeOK, WorkerKnows
    <3>2. CASE v # w
      BY <1>4, <2>2, <2>3, <3>2 DEF Crash, RInv, TypeOK, WorkerKnows
    <3> QED
      BY <3>1, <3>2
  <2> QED
    BY <2>2, <2>3, WorkSteps DEF RInv
<1> QED
  BY <1>1, <1>2, <1>3, <1>4

\* The inductive invariant of the end-of-run work.
THEOREM RunEndInvariance == Spec => []RInv
<1>1. Init => RInv
  BY RStarts
<1>2. RInv /\ [Next]_vars => RInv'
  <2> SUFFICES ASSUME RInv, [Next]_vars PROVE RInv'
    OBVIOUS
  <2>1. CASE UNCHANGED vars
    <3>1. TypeOK' /\ UNCHANGED <<runVars, row, attempts, hold, seenAttempts, told>>
      BY <2>1 DEF RInv, TypeOK, vars, runVars, rowVars, workVars
    <3> QED
      BY <3>1, WorkSteps DEF RInv, WorkerKnows
  <2> QED
    BY <2>1, RunSteps, EnrollOK, ClaimOK, DeliverOK, OtherSteps DEF Next, Drain
<1> QED
  BY <1>1, <1>2, PTL DEF Spec

\* A run's end that is still current, and not too old, is told before its row is
\* settled as delivered, however its claims overlap, crash and are retried.
THEOREM CurrentEndsAreTold == Spec => []CurrentEndIsTold
<1>1. RInv => CurrentEndIsTold
  <2> SUFFICES ASSUME RInv, NEW e \in written, row[e] = "delivered", \A f \in written : f <= e,
                      runStatus = EndAs[e], e \notin stale
               PROVE  e \in told
    BY DEF CurrentEndIsTold
  <2>1. e \in Ends /\ Last(e) /\ runStatus \notin {"running", "gone"}
    BY DEF RInv, TypeOK, Last
  <2> QED
    BY <2>1 DEF RInv, DoneWithLast
<1> QED
  BY <1>1, RunEndInvariance, PTL

\* A row is dead only after MAX_ATTEMPTS tries that failed, though each worker
\* decides by the count its own claim has read.
THEOREM GivenUpLate == Spec => []GivenUpAfterEveryTry
<1>1. RInv => GivenUpAfterEveryTry
  BY DEF RInv, GivenUpAfterEveryTry
<1> QED
  BY <1>1, RunEndInvariance, PTL
=============================================================================
