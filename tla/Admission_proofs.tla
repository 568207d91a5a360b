-------------------------- MODULE Admission_proofs --------------------------
(***************************************************************************)
(* Proofs about Admission, for any number of runs, caps and policies.      *)
(***************************************************************************)
EXTENDS Admission, FiniteSetTheorems, TLAPS

\* A run that waits is held, and no other.
Held(r) == runStatus[r] = "running" => hold[r] = IF Waiting(r) THEN 1 ELSE 0

\* Nobody was admitted before it was made.
Fresh(r) == runStatus[r] = "none" => ~admitted[r]

AInv == TypeOK /\ \A r \in Runs : Held(r) /\ Fresh(r)

\* A row that is left alone, or only ends.
LEMMA RowKept ==
  ASSUME AInv, NEW q \in Runs,
         queued'[q] <=> queued[q], admitted'[q] <=> admitted[q], hold'[q] = hold[q],
         runStatus'[q] = "running" => runStatus[q] = "running",
         runStatus'[q] = "none" => runStatus[q] = "none"
  PROVE  Held(q)' /\ Fresh(q)'
<1>1. Held(q) /\ Fresh(q)
  BY DEF AInv
<1>2. Fresh(q)'
  BY <1>1 DEF Fresh
<1>3. ASSUME runStatus'[q] = "running" PROVE hold'[q] = IF Waiting(q)' THEN 1 ELSE 0
  <2>1. Waiting(q)' <=> Waiting(q)
    BY <1>3 DEF Waiting
  <2>2. hold[q] = IF Waiting(q) THEN 1 ELSE 0
    BY <1>1, <1>3 DEF Held
  <2> QED
    BY <2>1, <2>2
<1> QED
  BY <1>2, <1>3 DEF Held

\* The bits and counters that create_run_full writes are of their types.
LEMMA CreateRunType ==
  ASSUME TypeOK, NEW r \in Runs, CreateRun(r)
  PROVE  TypeOK'
<1> DEFINE ended == {q \in Superseded(r) : ~busy[q]}
           others == InFlight(Runs \ ended)
           full == Cardinality(others) >= Cap[r]
           n == Cardinality({q \in Runs : made[q] > 0})
<1>1. /\ runStatus' = [q \in Runs |-> IF q = r THEN "running"
                                      ELSE IF q \in ended THEN "cancelled"
                                      ELSE runStatus[q]]
      /\ stopping' = [q \in Runs |-> stopping[q] \/ q \in Superseded(r) \ ended]
      /\ made' = [made EXCEPT ![r] = n + 1]
      /\ queued' = [queued EXCEPT ![r] = full]
      /\ hold' = [hold EXCEPT ![r] = IF full THEN 1 ELSE 0]
      /\ UNCHANGED <<admitted, busy, again>>
  BY DEF CreateRun
<1>2. n \in Nat
  BY AdmissionAssumption, FS_Subset, FS_CardinalityType
<1>3. full \in BOOLEAN
  <2>1. IsFiniteSet(others)
    BY AdmissionAssumption, FS_Subset DEF InFlight
  <2>2. Cardinality(others) \in Nat /\ Cap[r] \in Nat
    BY <2>1, AdmissionAssumption, FS_CardinalityType
  <2> HIDE DEF others
  <2> QED
    BY <2>2
<1> HIDE DEF ended, others, n, full
<1>4. stopping' \in [Runs -> BOOLEAN]
  BY <1>1, Zenon
<1>5. queued' \in [Runs -> BOOLEAN]
  BY <1>1, <1>3 DEF TypeOK
<1>6. hold' \in [Runs -> {0, 1}]
  BY <1>1 DEF TypeOK
<1> QED
  BY <1>1, <1>2, <1>4, <1>5, <1>6 DEF TypeOK, Ends

\* Making a run holds it exactly when it is written as one that waits.
LEMMA CreateRunKeeps ==
  ASSUME AInv, NEW r \in Runs, CreateRun(r)
  PROVE  AInv'
<1> DEFINE full == Cardinality(InFlight(Runs \ {q \in Superseded(r) : ~busy[q]})) >= Cap[r]
<1>1. TypeOK'
  BY CreateRunType DEF AInv
<1>2. /\ queued' = [queued EXCEPT ![r] = full]
      /\ hold' = [hold EXCEPT ![r] = IF full THEN 1 ELSE 0]
      /\ UNCHANGED admitted /\ runStatus[r] = "none"
  BY DEF CreateRun
<1>3. \A q \in Runs \ {r} : /\ runStatus'[q] = "running" => runStatus[q] = "running"
                            /\ runStatus'[q] = "none" => runStatus[q] = "none"
  BY DEF CreateRun
<1>4. runStatus'[r] = "running"
  BY DEF CreateRun
<1> HIDE DEF full
<1>5. /\ queued'[r] = full /\ hold'[r] = IF full THEN 1 ELSE 0
      /\ \A q \in Runs \ {r} : (queued'[q] <=> queued[q]) /\ hold'[q] = hold[q]
  BY <1>2 DEF AInv, TypeOK
<1>6. ~admitted'[r]
  BY <1>2 DEF AInv, Fresh
<1>7. Held(r)' /\ Fresh(r)'
  BY <1>4, <1>5, <1>6 DEF Held, Fresh, Waiting
<1>8. ASSUME NEW q \in Runs \ {r} PROVE Held(q)' /\ Fresh(q)'
  <2>1. (queued'[q] <=> queued[q]) /\ hold'[q] = hold[q]
    BY <1>5, <1>8
  <2>2. admitted'[q] <=> admitted[q]
    BY <1>2, <1>8 DEF AInv, TypeOK
  <2>3. /\ runStatus'[q] = "running" => runStatus[q] = "running"
        /\ runStatus'[q] = "none" => runStatus[q] = "none"
    BY <1>3, <1>8
  <2> QED
    BY <1>8, <2>1, <2>2, <2>3, RowKept
<1> QED
  BY <1>1, <1>7, <1>8 DEF AInv

LEMMA AdmitKeeps ==
  ASSUME AInv, AdmitWaitingRuns
  PROVE  AInv'
<1> USE DEF AdmitWaitingRuns, AInv
<1>1. \A r \in Admissible : r \in Runs /\ Waiting(r) /\ hold[r] = 1 /\ runStatus[r] = "running"
  BY DEF Admissible, Held, Waiting
<1>2. admitted' \in [Runs -> BOOLEAN]
  BY Zenon
<1>3. hold' \in [Runs -> {0, 1}]
  BY <1>1 DEF TypeOK
<1>4. TypeOK'
  BY <1>2, <1>3 DEF TypeOK
<1>5. ASSUME NEW r \in Admissible PROVE Held(r)' /\ Fresh(r)'
  <2>1. admitted'[r]
    BY <1>1, <1>5, Zenon
  <2>2. hold'[r] = 0 /\ runStatus'[r] = "running"
    BY <1>1, <1>5
  <2> QED
    BY <2>1, <2>2 DEF Held, Fresh, Waiting
<1>6. ASSUME NEW r \in Runs \ Admissible PROVE Held(r)' /\ Fresh(r)'
  <2>1. (admitted'[r] <=> admitted[r]) /\ hold'[r] = hold[r]
    BY <1>6
  <2> QED
    BY <1>6, <2>1, RowKept
<1> QED
  BY <1>4, <1>5, <1>6

LEMMA RunAgainKeeps ==
  ASSUME AInv, NEW r \in Runs, RunAgain(r)
  PROVE  AInv'
<1> USE DEF RunAgain, AInv
<1>1. TypeOK'
  <2>1. queued' \in [Runs -> BOOLEAN]
    BY DEF TypeOK
  <2>2. again' \in 0 .. MaxAgain
    BY AdmissionAssumption DEF TypeOK
  <2> QED
    BY <2>1, <2>2 DEF TypeOK
<1>2. (queued'[r] <=> queued[r] /\ admitted[r]) /\ hold'[r] = 0 /\ runStatus'[r] = "running"
  BY DEF TypeOK
<1>3. Held(r)' /\ Fresh(r)'
  BY <1>2 DEF Held, Fresh, Waiting
<1>4. \A q \in Runs \ {r} : /\ (queued'[q] <=> queued[q]) /\ hold'[q] = hold[q]
                            /\ runStatus'[q] = runStatus[q]
  BY DEF TypeOK
<1>5. ASSUME NEW q \in Runs \ {r} PROVE Held(q)' /\ Fresh(q)'
  BY <1>4, RowKept
<1> QED
  BY <1>1, <1>3, <1>5

\* The rest only ends runs, or leaves them as they are.
LEMMA LifeKeeps ==
  ASSUME AInv, NEW r \in Runs, Claim(r) \/ WorkEnds(r) \/ Reap(r) \/ CancelRun(r)
  PROVE  AInv'
<1> USE DEF AInv, Claim, WorkEnds, Reap, CancelRun, rowVars
<1>1. TypeOK'
  BY DEF TypeOK, Ends
<1>2. /\ \A q \in Runs : /\ runStatus'[q] = "running" => runStatus[q] = "running"
                         /\ runStatus'[q] = "none" => runStatus[q] = "none"
      /\ UNCHANGED <<queued, admitted, hold>>
  BY DEF TypeOK
<1>3. ASSUME NEW q \in Runs PROVE Held(q)' /\ Fresh(q)'
  <2>1. /\ (queued'[q] <=> queued[q]) /\ (admitted'[q] <=> admitted[q]) /\ hold'[q] = hold[q]
        /\ runStatus'[q] = "running" => runStatus[q] = "running"
        /\ runStatus'[q] = "none" => runStatus[q] = "none"
    BY <1>2, <1>3 DEF TypeOK
  <2> QED
    BY <2>1, RowKept
<1> QED
  BY <1>1, <1>3

LEMMA AInvHolds == Spec => []AInv
<1>1. Init => AInv
  BY AdmissionAssumption DEF Init, AInv, TypeOK, Held, Fresh, Waiting
<1>2. AInv /\ [Next]_vars => AInv'
  <2>1. ASSUME AInv, UNCHANGED vars PROVE AInv'
    BY <2>1 DEF AInv, TypeOK, Held, Fresh, Waiting, vars
  <2> QED
    BY <2>1, CreateRunKeeps, AdmitKeeps, RunAgainKeeps, LifeKeeps DEF Next
<1> QED
  BY <1>1, <1>2, PTL DEF Spec

\* The columns of the runs keep their types.
THEOREM AdmissionTypeCorrect == Spec => []TypeOK
<1>1. AInv => TypeOK
  BY DEF AInv
<1> QED
  BY <1>1, AInvHolds, PTL

\* The dependency create_run_full holds a waiting run's tasks by is taken away
\* exactly once, whatever is cancelled, superseded, admitted and run again: no
\* run that may run is held for ever, and none is let past its dependencies.
THEOREM HoldIsExact == Spec => []HeldWhileWaiting
<1>1. AInv => HeldWhileWaiting
  BY DEF AInv, HeldWhileWaiting, Held
<1> QED
  BY <1>1, AInvHolds, PTL

-----------------------------------------------------------------------------
(* The cap, and what a new run takes the place of. *)

\* created_at gives the runs an order, and a new run comes after all of them.
Made == {q \in Runs : made[q] > 0}

MadeInOrder ==
  /\ \A q \in Runs : made[q] <= Cardinality(Made) /\ (made[q] > 0 <=> runStatus[q] # "none")
  /\ \A p, q \in Made : made[p] = made[q] => p = q

\* Only a run that is not over has work out.
BusyRuns == \A q \in Runs : busy[q] => runStatus[q] = "running"

\* The runs whose cap is c or less are themselves no more than c: each found
\* room under its own cap when it came in, and those before it only leave.  The
\* active runs cannot all have a cap below their number, then.
Below(c) == {r \in Active : Cap[r] <= c}
RoomForEach == \A c \in Nat : Cardinality(Below(c)) <= c

\* The inductive invariant.
CapInv == AInv /\ MadeInOrder /\ BusyRuns /\ RoomForEach /\ SupersededIsStopped

LEMMA OfRuns ==
  ASSUME NEW S \in SUBSET Runs
  PROVE  /\ IsFiniteSet(S) /\ Cardinality(S) \in Nat
         /\ \A T \in SUBSET S : IsFiniteSet(T) /\ Cardinality(T) \in Nat /\ Cardinality(T) <= Cardinality(S)
<1>1. IsFiniteSet(S) /\ Cardinality(S) \in Nat
  BY AdmissionAssumption, FS_Subset, FS_CardinalityType
<1>2. ASSUME NEW T \in SUBSET S
      PROVE  IsFiniteSet(T) /\ Cardinality(T) \in Nat /\ Cardinality(T) <= Cardinality(S)
  BY <1>1, FS_Subset, FS_CardinalityType
<1> QED
  BY <1>1, <1>2

LEMMA OneMore ==
  ASSUME NEW S \in SUBSET Runs, NEW r \in Runs
  PROVE  /\ Cardinality(S \cup {r}) \in Nat /\ Cardinality(S \cup {r}) <= Cardinality(S) + 1
         /\ r \notin S => Cardinality(S \cup {r}) = Cardinality(S) + 1
<1>1. IsFiniteSet(S) /\ Cardinality(S) \in Nat
  BY OfRuns
<1>2. Cardinality(S \cup {r}) = IF r \in S THEN Cardinality(S) ELSE Cardinality(S) + 1
  BY <1>1, FS_AddElement, Zenon
<1> QED
  BY <1>1, <1>2

\* Of finitely many, one comes last.
LEMMA HasLast ==
  ASSUME NEW T, IsFiniteSet(T), T # {}, NEW f, \A p \in T : f[p] \in Nat
  PROVE  \E q \in T : \A p \in T : f[p] <= f[q]
<1> DEFINE behind(q) == {p \in T : f[p] > f[q]}
           All == {behind(q) : q \in T}
<1>1. All \subseteq FiniteSubsetsOf(T) /\ All # {}
  <2>1. \A q \in T : IsFiniteSet(behind(q)) /\ behind(q) \subseteq T
    BY FS_Subset
  <2> QED
    BY <2>1 DEF FiniteSubsetsOf
<1>2. PICK x \in All : \A y \in All : ~(<<y, x>> \in StrictSubsetOrdering(T))
  <2>1. IsWellFoundedOn(StrictSubsetOrdering(T), FiniteSubsetsOf(T))
    BY FS_StrictSubsetOrderingWellFounded
  <2> HIDE DEF All
  <2> QED
    BY <1>1, <2>1, WFMin
<1>3. PICK q \in T : x = behind(q)
  OBVIOUS
<1>4. ASSUME NEW p \in T, ~(f[p] <= f[q]) PROVE FALSE
  <2>1. f[p] > f[q] /\ f[p] \in Nat /\ f[q] \in Nat
    BY <1>4
  <2>2. behind(p) \subseteq behind(q) /\ p \in behind(q) /\ p \notin behind(p)
    BY <2>1
  <2>3. <<behind(p), behind(q)>> \in StrictSubsetOrdering(T)
    <3> DEFINE y == behind(p)
    <3>1. y \subseteq x /\ y # x /\ y \in SUBSET T /\ x \in SUBSET T
      BY <1>3, <2>2
    <3> HIDE DEF y
    <3> QED
      BY <1>3, <3>1 DEF StrictSubsetOrdering, y
  <2> QED
    BY <1>2, <1>3, <2>3
<1> QED
  BY <1>4

\* A run that ends, or waits, leaves room.
LEMMA RoomIsLeft ==
  ASSUME RoomForEach, Active' \subseteq Active
  PROVE  RoomForEach'
<1> SUFFICES ASSUME NEW c \in Nat PROVE Cardinality(Below(c)') <= c
  BY DEF RoomForEach
<1>1. Below(c)' \subseteq Below(c) /\ Below(c) \in SUBSET Runs
  BY DEF Below, Active
<1>2. Cardinality(Below(c)') \in Nat /\ Cardinality(Below(c)') <= Cardinality(Below(c))
      /\ Cardinality(Below(c)) \in Nat
  BY <1>1, OfRuns
<1> QED
  BY <1>2 DEF RoomForEach

\* A run that starts where fewer runs are in flight than its cap finds room.
LEMMA RoomIsTaken ==
  ASSUME RoomForEach, NEW r \in Runs, NEW others \in SUBSET Runs, Cardinality(others) < Cap[r],
         Active' \subseteq others \cup {r}, Active' \subseteq Active \cup {r}
  PROVE  RoomForEach'
<1> SUFFICES ASSUME NEW c \in Nat PROVE Cardinality(Below(c)') <= c
  BY DEF RoomForEach
<1>1. Cap[r] \in Nat
  BY AdmissionAssumption
<1>2. CASE Cap[r] <= c
  <2>1. Below(c)' \subseteq others \cup {r} /\ (others \cup {r}) \in SUBSET Runs
    BY DEF Below
  <2>2. Cardinality(Below(c)') \in Nat /\ Cardinality(Below(c)') <= Cardinality(others \cup {r})
    BY <2>1, OfRuns
  <2>3. Cardinality(others) \in Nat /\ Cardinality(others \cup {r}) \in Nat
        /\ Cardinality(others \cup {r}) <= Cardinality(others) + 1
    BY OfRuns, OneMore
  <2> QED
    BY <1>1, <1>2, <2>2, <2>3
<1>3. CASE ~(Cap[r] <= c)
  <2>1. Below(c)' \subseteq Below(c) /\ Below(c) \in SUBSET Runs
    BY <1>3 DEF Below, Active
  <2>2. Cardinality(Below(c)') \in Nat /\ Cardinality(Below(c)') <= Cardinality(Below(c))
        /\ Cardinality(Below(c)) \in Nat
    BY <2>1, OfRuns
  <2> QED
    BY <2>2 DEF RoomForEach
<1> QED
  BY <1>2, <1>3

\* The one that came last is within its cap, with all the others.
LEMMA CapFromRoom ==
  ASSUME RoomForEach
  PROVE  CapHeld
<1> SUFFICES ASSUME Active # {} PROVE \E r \in Active : Cardinality(Active) <= Cap[r]
  BY DEF CapHeld
<1>1. Active \in SUBSET Runs
  BY DEF Active
<1>2. Cardinality(Active) \in Nat /\ Cardinality(Active) # 0
  BY <1>1, OfRuns, FS_EmptySet
<1>3. \A r \in Active : Cap[r] \in Nat
  BY <1>1, AdmissionAssumption
<1> DEFINE c == Cardinality(Active) - 1
<1>4. c \in Nat /\ Cardinality(Below(c)) <= c
  BY <1>2 DEF RoomForEach
<1>5. Below(c) # Active
  BY <1>2, <1>4
<1> QED
  BY <1>2, <1>3, <1>5 DEF Below

-----------------------------------------------------------------------------
(* The steps. *)

\* created_at is written once, when the run is made.
LEMMA MadeKept ==
  ASSUME AInv, MadeInOrder, UNCHANGED made,
         \A q \in Runs : runStatus'[q] = "none" <=> runStatus[q] = "none"
  PROVE  MadeInOrder'
BY DEF MadeInOrder, Made

LEMMA MadeLast ==
  ASSUME AInv, MadeInOrder, NEW r \in Runs, CreateRun(r)
  PROVE  /\ MadeInOrder'
         /\ \A q \in Runs \ {r} : made'[q] = made[q] /\ made[q] < made'[r]
<1>1. /\ made' = [made EXCEPT ![r] = Cardinality(Made) + 1] /\ runStatus[r] = "none"
      /\ runStatus'[r] = "running"
      /\ \A q \in Runs \ {r} : runStatus'[q] = "none" <=> runStatus[q] = "none"
  <2>1. \A q \in Superseded(r) : runStatus[q] # "none"
    BY DEF Superseded
  <2> QED
    BY <2>1 DEF CreateRun, Made
<1>2. Cardinality(Made) \in Nat /\ Made \in SUBSET Runs /\ r \notin Made
  BY <1>1, OfRuns DEF Made, MadeInOrder
<1>3. made'[r] = Cardinality(Made) + 1 /\ \A q \in Runs \ {r} : made'[q] = made[q] /\ made[q] \in Nat
  BY <1>1 DEF AInv, TypeOK
<1>4. Made' = Made \cup {r}
  BY <1>2, <1>3 DEF Made
<1>5. Cardinality(Made') = Cardinality(Made) + 1
  BY <1>2, <1>4, OneMore
<1>6. \A q \in Runs \ {r} : made[q] <= Cardinality(Made)
  BY DEF MadeInOrder
<1>7. \A q \in Runs \ {r} : made'[q] = made[q] /\ made[q] < made'[r]
  BY <1>2, <1>3, <1>6
<1>8. MadeInOrder'
  <2>1. \A q \in Runs : made'[q] <= Cardinality(Made') /\ (made'[q] > 0 <=> runStatus'[q] # "none")
    BY <1>1, <1>2, <1>3, <1>5, <1>6 DEF MadeInOrder
  <2>2. \A p, q \in Made' : made'[p] = made'[q] => p = q
    BY <1>2, <1>3, <1>4, <1>6 DEF MadeInOrder
  <2> QED
    BY <2>1, <2>2 DEF MadeInOrder
<1> QED
  BY <1>7, <1>8

\* Who is in flight once the runs that end are out.
LEMMA CreatedActive ==
  ASSUME AInv, NEW r \in Runs, CreateRun(r)
  PROVE  LET ended == {q \in Superseded(r) : ~busy[q]}
             others == InFlight(Runs \ ended)
         IN  /\ others \in SUBSET Runs /\ r \notin others
             /\ \A q \in Runs \ {r} : /\ runStatus'[q] = "running" <=> q \in others
                                      /\ Waiting(q)' <=> Waiting(q) /\ q \in others
             /\ r \in Active' <=> ~Waiting(r)'
             /\ r \in Active' => Cardinality(others) < Cap[r]
<1> DEFINE ended == {q \in Superseded(r) : ~busy[q]}
           others == InFlight(Runs \ ended)
           full == Cardinality(others) >= Cap[r]
<1>1. others \in SUBSET Runs /\ r \notin others /\ runStatus'[r] = "running"
  BY DEF CreateRun, InFlight
<1>2. ASSUME NEW q \in Runs \ {r}
      PROVE  (runStatus'[q] = "running" <=> q \in others) /\ (Waiting(q)' <=> Waiting(q) /\ q \in others)
  <2>1. runStatus'[q] = "running" <=> q \in others
    BY <1>2 DEF CreateRun, InFlight
  <2>2. UNCHANGED admitted /\ queued' = [queued EXCEPT ![r] = full]
    BY DEF CreateRun
  <2>3. queued'[q] <=> queued[q]
    BY <1>2, <2>2 DEF AInv, TypeOK
  <2>4. q \in others => runStatus[q] = "running"
    BY DEF InFlight
  <2> QED
    BY <2>1, <2>2, <2>3, <2>4 DEF Waiting
<1>3. r \in Active' <=> ~Waiting(r)'
  BY <1>1 DEF Active
<1>4. r \in Active' => Cardinality(others) < Cap[r]
  <2>1. Cardinality(others) \in Nat /\ Cap[r] \in Nat
    BY <1>1, OfRuns, AdmissionAssumption
  <2>2. queued' = [queued EXCEPT ![r] = full] /\ UNCHANGED admitted /\ runStatus[r] = "none"
    BY DEF CreateRun
  <2>3. ~admitted'[r]
    BY <2>2 DEF AInv, Fresh
  <2>4. queued'[r] <=> full
    BY <2>2 DEF AInv, TypeOK
  <2>5. ~Waiting(r)' => ~full
    BY <1>1, <2>3, <2>4 DEF Waiting
  <2> QED
    BY <1>3, <2>1, <2>5
<1> QED
  BY <1>1, <1>2, <1>3, <1>4

LEMMA CreateRunCap ==
  ASSUME CapInv, NEW r \in Runs, CreateRun(r)
  PROVE  CapInv'
<1> DEFINE ended == {q \in Superseded(r) : ~busy[q]}
           others == InFlight(Runs \ ended)
<1>1. AInv' /\ MadeInOrder' /\ \A q \in Runs \ {r} : made'[q] = made[q] /\ made[q] < made'[r]
  BY CreateRunKeeps, MadeLast DEF CapInv
<1>2. /\ others \in SUBSET Runs /\ r \notin others
      /\ \A q \in Runs \ {r} : /\ runStatus'[q] = "running" <=> q \in others
                               /\ Waiting(q)' <=> Waiting(q) /\ q \in others
      /\ r \in Active' => Cardinality(others) < Cap[r]
  BY CreatedActive DEF CapInv
<1>3. \A q \in others : runStatus[q] = "running"
  BY DEF InFlight
<1>4. SupersededIsStopped'
  <2> SUFFICES ASSUME NEW q \in Runs, NEW p \in Runs,
                      runStatus'[q] = "running", ~stopping'[q], runStatus'[p] = "running", ~stopping'[p],
                      made'[q] < made'[p], WhenFull[p] = "supersede", again' = 0 \/ Cap[q] <= Cap[p]
               PROVE  p \in Confined /\ Source[q] # Source[p]
    BY DEF SupersededIsStopped
  <2>1. stopping' = [s \in Runs |-> stopping[s] \/ s \in Superseded(r) \ ended] /\ again' = again
    BY DEF CreateRun
  <2>2. \A s \in Runs : ~stopping'[s] => ~stopping[s] /\ ~(s \in Superseded(r) \ ended)
    BY <2>1, Zenon
  <2>3. q # r
    <3> SUFFICES ASSUME q = r PROVE FALSE
      OBVIOUS
    <3>1. p # r /\ made'[p] < made'[r] /\ made'[p] \in Nat /\ made'[r] \in Nat
      BY <1>1 DEF AInv, TypeOK
    <3> QED
      BY <3>1
  <2>4. q \in others /\ runStatus[q] = "running" /\ ~stopping[q] /\ q \notin Superseded(r)
    BY <1>2, <1>3, <2>2, <2>3 DEF InFlight
  <2>5. CASE p = r
    BY <2>4, <2>5 DEF Superseded
  <2>6. CASE p # r
    BY <1>1, <1>2, <1>3, <2>1, <2>2, <2>3, <2>4, <2>6 DEF CapInv, SupersededIsStopped
  <2> QED
    BY <2>5, <2>6
<1>5. RoomForEach'
  <2>1. Active' \subseteq Active \cup {r} /\ Active' \subseteq others \cup {r}
    BY <1>2, <1>3 DEF Active
  <2> HIDE DEF others
  <2>2. CASE r \in Active'
    BY <1>2, <2>1, <2>2, RoomIsTaken DEF CapInv
  <2>3. CASE r \notin Active'
    BY <2>1, <2>3, RoomIsLeft DEF CapInv
  <2> QED
    BY <2>2, <2>3
<1>6. BusyRuns'
  <2>1. busy' = busy /\ runStatus[r] = "none" /\ runStatus'[r] = "running"
    BY DEF CreateRun
  <2>2. \A q \in Runs \ {r} : busy[q] => q \in others
    BY DEF CapInv, BusyRuns, InFlight
  <2> QED
    BY <1>2, <2>1, <2>2 DEF BusyRuns
<1> QED
  BY <1>1, <1>4, <1>5, <1>6 DEF CapInv

\* A run of the key that is unstopped now was before.
LEMMA StoppedKept ==
  ASSUME SupersededIsStopped, UNCHANGED made, again' = 0 => again = 0,
         \A q \in Runs : runStatus'[q] = "running" /\ ~stopping'[q] =>
                           runStatus[q] = "running" /\ ~stopping[q]
  PROVE  SupersededIsStopped'
BY DEF SupersededIsStopped

\* admit_waiting_runs lets in as many as there is room for under the cap of the
\* last of them, and in their order.
LEMMA AdmitCap ==
  ASSUME CapInv, AdmitWaitingRuns
  PROVE  CapInv'
<1> DEFINE ahead(q) == {p \in Runs : Waiting(p) /\ made[p] < made[q]}
<1>1. AInv'
  BY AdmitKeeps DEF CapInv
<1>2. UNCHANGED <<runStatus, made, queued, stopping, busy, again>>
  BY DEF AdmitWaitingRuns
<1>3. MadeInOrder' /\ SupersededIsStopped' /\ BusyRuns'
  BY <1>2, MadeKept, StoppedKept DEF CapInv, BusyRuns
<1>4. \A q \in Runs : Waiting(q)' <=> Waiting(q) /\ q \notin Admissible
  <2>1. admitted' = [q \in Runs |-> admitted[q] \/ q \in Admissible]
    BY DEF AdmitWaitingRuns
  <2>2. \A q \in Runs : admitted'[q] <=> admitted[q] \/ q \in Admissible
    BY <2>1, Zenon
  <2> QED
    BY <1>2, <2>2 DEF Waiting
<1>5. \A q \in Admissible : /\ q \in Runs /\ Waiting(q)
                            /\ Cardinality(Active) + Cardinality(ahead(q)) < Cap[q]
  BY DEF Admissible
<1>6. Active' = Active \cup Admissible
  BY <1>2, <1>4, <1>5 DEF Active, Waiting
<1>7. RoomForEach'
  <2> SUFFICES ASSUME NEW c \in Nat PROVE Cardinality(Below(c)') <= c
    BY DEF RoomForEach
  <2> DEFINE T == {q \in Admissible : Cap[q] <= c}
  <2>1. Below(c)' = Below(c) \cup T
    BY <1>6 DEF Below
  <2>2. T \in SUBSET Runs /\ Active \in SUBSET Runs /\ Below(c) \in SUBSET Active
    BY <1>5 DEF Below, Active
  <2>3. CASE T = {}
    BY <2>1, <2>3 DEF CapInv, RoomForEach
  <2>4. CASE T # {}
    <3>1. \A q \in T : made[q] \in Nat
      BY <2>2 DEF CapInv, AInv, TypeOK
    <3>2. PICK q \in T : \A p \in T : made[p] <= made[q]
      <4>1. IsFiniteSet(T)
        BY <2>2, OfRuns
      <4> HIDE DEF T
      <4> QED
        BY <2>4, <3>1, <4>1, HasLast
    <3>3. q \in Runs /\ Cardinality(Active) + Cardinality(ahead(q)) < Cap[q] /\ Cap[q] <= c
          /\ Cap[q] \in Nat
      BY <1>5, <2>2, AdmissionAssumption
    <3>4. T \subseteq ahead(q) \cup {q}
      <4> SUFFICES ASSUME NEW p \in T, p # q PROVE p \in ahead(q)
        OBVIOUS
      <4>1. p \in Runs /\ Waiting(p) /\ Waiting(q) /\ made[p] <= made[q] /\ made[p] \in Nat /\ made[q] \in Nat
        BY <1>5, <3>1, <3>2
      <4>2. p \in Made /\ q \in Made
        BY <3>3, <4>1 DEF CapInv, MadeInOrder, Made, Waiting
      <4>3. made[p] # made[q]
        BY <4>2 DEF CapInv, MadeInOrder
      <4> QED
        BY <4>1, <4>3
    <3> DEFINE H == ahead(q)
    <3>5. H \in SUBSET Runs
      OBVIOUS
    <3> HIDE DEF H, T
    <3>6. Below(c)' \subseteq Active \cup (H \cup {q}) /\ (Active \cup (H \cup {q})) \in SUBSET Runs
      BY <2>1, <2>2, <3>3, <3>4, <3>5 DEF H
    <3>7. /\ Cardinality(Below(c)') \in Nat
          /\ Cardinality(Below(c)') <= Cardinality(Active \cup (H \cup {q}))
      BY <3>6, OfRuns
    <3>8. /\ Cardinality(Active) \in Nat /\ Cardinality(H) \in Nat
          /\ Cardinality(H \cup {q}) \in Nat /\ Cardinality(H \cup {q}) <= Cardinality(H) + 1
      BY <2>2, <3>3, <3>5, OfRuns, OneMore
    <3>9. /\ Cardinality(Active \cup (H \cup {q})) \in Nat
          /\ Cardinality(Active \cup (H \cup {q})) <= Cardinality(Active) + Cardinality(H \cup {q})
      <4> DEFINE U == H \cup {q}
      <4>1. IsFiniteSet(Active) /\ IsFiniteSet(U) /\ U \in SUBSET Runs
        BY <2>2, <3>3, <3>5, OfRuns
      <4> HIDE DEF U
      <4>2. /\ IsFiniteSet(Active \cup U)
            /\ Cardinality(Active \cup U) = Cardinality(Active) + Cardinality(U) - Cardinality(Active \cap U)
        BY <4>1, FS_Union
      <4>3. Cardinality(Active \cap U) \in Nat /\ Cardinality(Active) \in Nat /\ Cardinality(U) \in Nat
        BY <2>2, <4>1, OfRuns
      <4>4. Cardinality(Active \cup U) \in Nat /\ Cardinality(Active \cup U) <= Cardinality(Active) + Cardinality(U)
        BY <4>2, <4>3, FS_CardinalityType
      <4> QED
        BY <4>4 DEF U
    <3> QED
      BY <3>3, <3>7, <3>8, <3>9 DEF H
  <2> QED
    BY <2>3, <2>4
<1> QED
  BY <1>1, <1>3, <1>7 DEF CapInv

LEMMA RunAgainCap ==
  ASSUME CapInv, NEW r \in Runs, RunAgain(r)
  PROVE  CapInv'
<1> DEFINE others == InFlight(Runs \ {r})
<1>1. AInv'
  BY RunAgainKeeps DEF CapInv
<1>2. /\ again' = again + 1 /\ runStatus[r] \in Ends /\ Cardinality(others) < Cap[r]
      /\ runStatus' = [runStatus EXCEPT ![r] = "running"]
      /\ queued' = [queued EXCEPT ![r] = @ /\ admitted[r]]
      /\ UNCHANGED <<made, admitted, stopping, busy>>
  BY DEF RunAgain
<1>3. runStatus'[r] = "running" /\ \A q \in Runs \ {r} : runStatus'[q] = runStatus[q]
  BY <1>2 DEF CapInv, AInv, TypeOK
<1>4. \A q \in Runs \ {r} : Waiting(q)' <=> Waiting(q)
  <2>1. \A q \in Runs \ {r} : queued'[q] <=> queued[q]
    BY <1>2 DEF CapInv, AInv, TypeOK
  <2> QED
    BY <1>2, <1>3, <2>1 DEF Waiting
<1>5. MadeInOrder'
  BY <1>2, <1>3, MadeKept DEF CapInv, Ends
<1>6. others \in SUBSET Runs /\ \A q \in Runs \ {r} : q \in others <=> runStatus[q] = "running"
  BY DEF InFlight
<1>7. RoomForEach'
  <2>1. Active' \subseteq Active \cup {r} /\ Active' \subseteq others \cup {r}
    BY <1>3, <1>4, <1>6 DEF Active
  <2> HIDE DEF others
  <2> QED
    BY <1>2, <1>6, <2>1, RoomIsTaken DEF CapInv
<1>8. SupersededIsStopped'
  <2> SUFFICES ASSUME NEW q \in Runs, NEW p \in Runs,
                      runStatus'[q] = "running", ~stopping'[q], runStatus'[p] = "running", ~stopping'[p],
                      made'[q] < made'[p], WhenFull[p] = "supersede", again' = 0 \/ Cap[q] <= Cap[p]
               PROVE  p \in Confined /\ Source[q] # Source[p]
    BY DEF SupersededIsStopped
  <2>1. again' # 0 /\ Cap[p] = 1 /\ Cap[q] = 1
    <3>1. again \in Nat /\ Cap[p] = 1 /\ Cap[q] \in Nat /\ Cap[q] # 0
      BY AdmissionAssumption DEF CapInv, AInv, TypeOK
    <3> QED
      BY <1>2, <3>1
  <2>2. p # q
    BY <1>2 DEF CapInv, AInv, TypeOK
  <2>3. ASSUME NEW s \in others, Cap[r] = 1 PROVE FALSE
    <3>1. Cardinality(others) \in Nat /\ IsFiniteSet(others)
      BY <1>6, OfRuns
    <3> HIDE DEF others
    <3>2. Cardinality(others) # 0
      BY <2>3, <3>1, FS_EmptySet
    <3> QED
      BY <1>2, <2>3, <3>1, <3>2
  <2>4. q # r /\ p # r
    BY <1>3, <1>6, <2>1, <2>2, <2>3
  <2> QED
    BY <1>2, <1>3, <2>1, <2>4 DEF CapInv, SupersededIsStopped
<1>9. BusyRuns'
  BY <1>2, <1>3 DEF CapInv, BusyRuns
<1> QED
  BY <1>1, <1>5, <1>7, <1>8, <1>9 DEF CapInv

LEMMA LifeCap ==
  ASSUME CapInv, NEW r \in Runs, Claim(r) \/ WorkEnds(r) \/ Reap(r) \/ CancelRun(r)
  PROVE  CapInv'
<1>1. AInv'
  BY LifeKeeps DEF CapInv
<1>2. UNCHANGED <<made, queued, admitted, again>>
  BY DEF Claim, WorkEnds, Reap, CancelRun, rowVars
<1>3. \A q \in Runs : /\ runStatus'[q] = "running" => runStatus[q] = "running"
                      /\ runStatus'[q] = "none" <=> runStatus[q] = "none"
  <2>1. runStatus[r] = "running"
    BY DEF Claim, WorkEnds, Reap, CancelRun, CapInv, BusyRuns
  <2> QED
    BY <2>1 DEF Claim, WorkEnds, Reap, CancelRun, CapInv, AInv, TypeOK
<1>4. \A q \in Runs : runStatus'[q] = "running" /\ ~stopping'[q] => ~stopping[q]
  BY DEF Claim, WorkEnds, Reap, CancelRun, CapInv, AInv, TypeOK
<1>5. MadeInOrder' /\ SupersededIsStopped'
  BY <1>2, <1>3, <1>4, MadeKept, StoppedKept DEF CapInv
<1>6. Active' \subseteq Active
  BY <1>2, <1>3 DEF Active, Waiting
<1>7. BusyRuns'
  BY DEF Claim, WorkEnds, Reap, CancelRun, CapInv, AInv, TypeOK, BusyRuns
<1> QED
  BY <1>1, <1>5, <1>6, <1>7, RoomIsLeft DEF CapInv

LEMMA CapInvHolds == Spec => []CapInv
<1>1. Init => CapInv
  <2> SUFFICES ASSUME Init PROVE CapInv
    OBVIOUS
  <2>1. AInv
    BY AdmissionAssumption DEF Init, AInv, TypeOK, Held, Fresh, Waiting
  <2>2. Active = {} /\ Made = {}
    BY DEF Init, Active, Made
  <2>3. Cardinality(Made) = 0 /\ \A c \in Nat : Below(c) = {}
    BY <2>2, FS_EmptySet DEF Below
  <2>4. MadeInOrder /\ BusyRuns /\ SupersededIsStopped
    BY <2>2, <2>3 DEF Init, MadeInOrder, BusyRuns, SupersededIsStopped
  <2>5. RoomForEach
    BY <2>3, FS_EmptySet DEF RoomForEach
  <2> QED
    BY <2>1, <2>4, <2>5 DEF CapInv
<1>2. CapInv /\ [Next]_vars => CapInv'
  <2>1. ASSUME CapInv, UNCHANGED vars PROVE CapInv'
    <3> USE <2>1 DEF vars
    <3>1. AInv'
      BY DEF CapInv, AInv, TypeOK, Held, Fresh, Waiting
    <3>2. MadeInOrder' /\ SupersededIsStopped' /\ BusyRuns'
      BY MadeKept, StoppedKept DEF CapInv, BusyRuns
    <3>3. Active' \subseteq Active
      BY DEF Active, Waiting
    <3> QED
      BY <3>1, <3>2, <3>3, RoomIsLeft DEF CapInv
  <2> QED
    BY <2>1, CreateRunCap, AdmitCap, RunAgainCap, LifeCap DEF Next
<1> QED
  BY <1>1, <1>2, PTL DEF Spec

\* max_active_runs holds, whatever is created, admitted, superseded, stopped and
\* run again: the active runs of a key are within the cap of one of them.
THEOREM CapIsKept == Spec => []CapHeld
<1>1. CapInv => CapHeld
  BY CapFromRoom DEF CapInv
<1> QED
  BY <1>1, CapInvHolds, PTL

\* A run that takes the place of others stands beside none that it may replace:
\* no admission, stop or rerun brings one of them back.
THEOREM SupersededIsOut == Spec => []SupersededIsStopped
<1>1. CapInv => SupersededIsStopped
  BY DEF CapInv
<1> QED
  BY <1>1, CapInvHolds, PTL

-----------------------------------------------------------------------------
(* The order of the runs that wait. *)

\* A run that starts does so where the active runs, and those that wait, are
\* within its cap with it.
LEMMA StartsWithinCap ==
  ASSUME NEW A \in SUBSET Runs, NEW W \in SUBSET Runs, NEW others \in SUBSET Runs, NEW r \in Runs,
         A \cap W = {}, A \cup W \subseteq others \cup {r}, Cardinality(others) < Cap[r],
         NEW q \in Runs, Cap[r] <= Cap[q]
  PROVE  Cardinality(A) + Cardinality(W) <= Cap[q]
<1>1. Cap[q] \in Nat /\ Cap[r] \in Nat
  BY AdmissionAssumption
<1>2. IsFiniteSet(A) /\ IsFiniteSet(W) /\ Cardinality(A) \in Nat /\ Cardinality(W) \in Nat
  BY OfRuns
<1>3. Cardinality(A \cap W) = 0
  BY FS_EmptySet
<1>4. Cardinality(A \cup W) = Cardinality(A) + Cardinality(W) - Cardinality(A \cap W)
  BY <1>2, FS_Union
<1>5. Cardinality(others) \in Nat /\ Cardinality(others \cup {r}) \in Nat
      /\ Cardinality(others \cup {r}) <= Cardinality(others) + 1
  BY OfRuns, OneMore
<1>6. Cardinality(A \cup W) <= Cardinality(others \cup {r})
  BY OfRuns
<1> QED
  BY <1>1, <1>2, <1>3, <1>4, <1>5, <1>6

LEMMA NoneOvertakes ==
  ASSUME CapInv, Next, NEW q \in Runs, NEW r \in Runs,
         Waiting(q), Waiting(q)', r \notin Active, (r \in Active)',
         made[q] < made'[r], Cap[r] <= Cap[q]
  PROVE  Cardinality(Active') + Cardinality({p \in Runs : Waiting(p)' /\ made[p] <= made[q]}) <= Cap[q]
<1> DEFINE W == {p \in Runs : Waiting(p)' /\ made[p] <= made[q]}
<1>1. Active' \in SUBSET Runs /\ W \in SUBSET Runs /\ Active' \cap W = {}
  BY DEF Active
<1>2. ASSUME NEW s \in Runs, CreateRun(s) PROVE Cardinality(Active') + Cardinality(W) <= Cap[q]
  <2> DEFINE others == InFlight(Runs \ {p \in Superseded(s) : ~busy[p]})
  <2>1. /\ others \in SUBSET Runs /\ s \notin others
        /\ \A p \in Runs \ {s} : /\ runStatus'[p] = "running" <=> p \in others
                                 /\ Waiting(p)' <=> Waiting(p) /\ p \in others
        /\ s \in Active' => Cardinality(others) < Cap[s]
    BY <1>2, CreatedActive DEF CapInv
  <2>2. r = s
    <3> SUFFICES ASSUME r # s PROVE r \in Active
      OBVIOUS
    <3>1. r \in others /\ runStatus'[r] = "running" /\ ~Waiting(r)'
      BY <2>1 DEF Active
    <3>2. runStatus[r] = "running"
      BY <3>1 DEF InFlight
    <3> QED
      BY <2>1, <3>1, <3>2 DEF Active
  <2>3. Active' \cup W \subseteq others \cup {s}
    BY <2>1 DEF Active, Waiting
  <2> HIDE DEF others, W
  <2> QED
    BY <1>1, <2>1, <2>2, <2>3, StartsWithinCap
<1>3. ASSUME NEW s \in Runs, RunAgain(s) PROVE Cardinality(Active') + Cardinality(W) <= Cap[q]
  <2> DEFINE others == InFlight(Runs \ {s})
  <2>1. /\ Cardinality(others) < Cap[s] /\ runStatus' = [runStatus EXCEPT ![s] = "running"]
        /\ queued' = [queued EXCEPT ![s] = @ /\ admitted[s]] /\ UNCHANGED <<made, admitted>>
    BY <1>3 DEF RunAgain
  <2>2. \A p \in Runs \ {s} : runStatus'[p] = runStatus[p] /\ (queued'[p] <=> queued[p])
    BY <2>1 DEF CapInv, AInv, TypeOK
  <2>3. r = s
    BY <2>1, <2>2 DEF Active, Waiting
  <2>4. others \in SUBSET Runs /\ Active' \cup W \subseteq others \cup {s}
    BY <2>2 DEF Active, Waiting, InFlight
  <2> HIDE DEF others, W
  <2> QED
    BY <1>1, <2>1, <2>3, <2>4, StartsWithinCap
\* admit_waiting_runs lets in whom it finds before a run that it lets in.
<1>4. CASE AdmitWaitingRuns
  <2> DEFINE ahead(p) == {o \in Runs : Waiting(o) /\ made[o] < made[p]}
  <2>1. admitted' = [p \in Runs |-> admitted[p] \/ p \in Admissible]
        /\ UNCHANGED <<runStatus, made, queued>>
    BY <1>4 DEF AdmitWaitingRuns
  <2>2. \A p \in Runs : admitted'[p] <=> admitted[p] \/ p \in Admissible
    BY <2>1, Zenon
  <2>3. r \in Admissible /\ q \notin Admissible
    BY <2>1, <2>2 DEF Active, Waiting
  <2>4. q \in ahead(r)
    BY <2>1
  <2>5. \A o \in ahead(q) : o \in ahead(r)
    <3>1. \A o \in Runs : made[o] \in Nat
      BY DEF CapInv, AInv, TypeOK
    <3> QED
      BY <2>4, <3>1
  <2>6. q \in Admissible
    BY <2>3, <2>4, <2>5 DEF Admissible
  <2> QED
    BY <2>3, <2>6
<1>5. ASSUME NEW s \in Runs, Claim(s) \/ WorkEnds(s) \/ Reap(s) \/ CancelRun(s) PROVE FALSE
  <2>1. UNCHANGED <<queued, admitted>>
    BY <1>5 DEF Claim, WorkEnds, Reap, CancelRun, rowVars
  <2>2. \A p \in Runs : runStatus'[p] = "running" => runStatus[p] = "running"
    BY <1>5 DEF Claim, WorkEnds, Reap, CancelRun, CapInv, AInv, TypeOK
  <2> QED
    BY <2>1, <2>2 DEF Active, Waiting
<1> QED
  BY <1>2, <1>3, <1>4, <1>5 DEF Next

\* Runs of a key start in the order they came, as far as their caps are as large.
THEOREM RunsKeepTheirOrder == Spec => NoOvertaking
<1> DEFINE InOrder ==
      \A q, r \in Runs :
       /\ Waiting(q) /\ Waiting(q)' /\ r \notin Active /\ (r \in Active)'
       /\ made[q] < made'[r] /\ Cap[r] <= Cap[q]
       => Cardinality(Active') + Cardinality({p \in Runs : Waiting(p)' /\ made[p] <= made[q]})
           <= Cap[q]
<1>1. CapInv /\ [Next]_vars => [InOrder]_vars
  <2> SUFFICES ASSUME CapInv, Next PROVE InOrder
    OBVIOUS
  <2> QED
    BY NoneOvertakes
<1> QED
  BY <1>1, CapInvHolds, PTL DEF Spec, NoOvertaking
=============================================================================
