--------------------------- MODULE Schedules_proofs ---------------------------
(***************************************************************************)
(* Proofs about Schedules, for any number of nodes, slots, edits, calls    *)
(* and faults, and for any window, caps and pace.                          *)
(***************************************************************************)
EXTENDS Schedules, FiniteSetTheorems, TLAPS

USE SchedulesAssumption

(* The inductive invariant, in the parts the loops are responsible for. *)

Job(n) == <<"job", n>>
Pacing(n) == pc[Job(n)] \in {"scan", "held", "record"}

\* A filler stays within its range and takes no more than its cap, and the job's
\* pacing began with runs still to be made.
Within(f) ==
  /\ pc[f] = "held" => at[f] < to[f] /\ count[f] < Cap(f)
  /\ f[1] # "job" => pc[f] \in {"idle", "scan", "held"}

PacesWithin(n) ==
  Pacing(n) => /\ seenFired[n] < MaxRuns
               /\ count[Job(n)] <= Pace /\ seenFired[n] + count[Job(n)] <= MaxRuns

\* A slot is claimed in the ledger for as long as it is held, and for good once
\* it is filled; it is one filler's.
Claimed(f) == pc[f] = "held" => at[f] + 1 \in ledger /\ fills[at[f] + 1] = 0

OneHolder ==
  \A f, g \in Fillers : pc[f] = "held" /\ pc[g] = "held" /\ at[f] = at[g] => f = g

Filled == \A k \in Slots : fills[k] <= 1 /\ (fills[k] = 1 => k \in ledger)

\* The slots that are claimed for no one: a crash costs at most the two that the
\* node's sweep and its job hold.
Orphans == {k \in ledger : fills[k] = 0 /\ \A f \in Fillers : ~Holds(f, k)}

Ledgered ==
  /\ Filled /\ OneHolder
  /\ \A f \in Fillers : Claimed(f)
  /\ Cardinality(Orphans) <= 2 * faults

\* As long as no lease lapsed under a node that lives, only its holder is at work.
Working(n) == flag[n] \/ loop[n] # "idle" \/ pc[Job(n)] # "idle"

Leased ==
  ~lapsed => /\ live \/ holder = None
             /\ \A n \in Nodes : Working(n) => holder = n

\* What there is to pay for firing a slot again: each fault, and each call of the
\* API but for an edit that has yet to write.
Paid == faults + calls - (IF edit = "none" THEN 0 ELSE 1)

\* The schedule is at a slot or short of it, and no round of the loop is about to
\* move it past; or a round is about to fire it.
ToCome(k) ==
  \/ next # Never /\ next <= k /\ \A n \in Nodes : loop[n] \in {"fired", "gated"} => tick[n] < k
  \/ \E n \in Nodes : loop[n] = "due" /\ due[n] = k

\* A slot has been fired once, and again as often as was paid for; while it is
\* to come, this once is still due.
Fired ==
  /\ calls = 0 => edit = "none"
  /\ \A n \in Nodes : loop[n] # "idle" => due[n] \in Slots /\ due[n] <= tick[n] /\ tick[n] <= now
  /\ \A k \in Slots : fires[k] > 0 => k <= now
  /\ ~lapsed =>
       /\ \A n \in Nodes : loop[n] # "idle" => \A k \in Slots : fires[k] > 0 => k <= tick[n]
       /\ \A k \in Slots : fires[k] <= 1 + Paid /\ (ToCome(k) => fires[k] <= Paid)

\* What the job has counted, and what its tick is yet to count.
Counted ==
  /\ fired <= MaxRuns
  /\ ~lapsed =>
       /\ \A n \in Nodes : Pacing(n) => /\ seenFired[n] = fired
                                        /\ jobRuns <= fired + count[Job(n)] + faults * Pace
       /\ (\A n \in Nodes : ~Pacing(n)) => jobRuns <= fired + faults * Pace

\* What the job has passed is in the ledger, or was given back.
Passed(upto) == \A k \in Slots : k <= upto => k \in ledger \/ k \in gaveBack

Covered ==
  ~lapsed => /\ Passed(cursor)
             /\ \A n \in Nodes : Pacing(n) => Passed(at[Job(n)]) /\ cursor <= at[Job(n)]

\* The inductive invariant.
SInv ==
  /\ TypeOK
  /\ \A f \in Fillers : Within(f)
  /\ \A n \in Nodes : PacesWithin(n)
  /\ Ledgered /\ Leased /\ Fired /\ Counted /\ Covered

-----------------------------------------------------------------------------
(* What the fillers are, and the steps that leave a part alone. *)

LEMMA FillerKinds ==
  /\ \A n \in Nodes : Job(n) \in Fillers /\ Job(n)[1] = "job" /\ Job(n)[2] = n
  /\ \A n \in Nodes : /\ <<"catchup", n>> \in Fillers /\ <<"catchup", n>>[1] = "catchup"
                      /\ <<"catchup", n>>[2] = n
  /\ Api \in Fillers /\ Api[1] = "api" /\ Api[2] = None
  /\ \A n, m \in Nodes : Job(n) = Job(m) => n = m
  /\ \A f \in Fillers : \/ f = Api
                        \/ \E n \in Nodes : f = Job(n)
                        \/ \E n \in Nodes : f = <<"catchup", n>>
BY DEF Fillers, Api, Job

LEMMA CapType ==
  ASSUME TypeOK
  PROVE  /\ \A f \in Fillers : Cap(f) \in Int
         /\ \A n \in Nodes : /\ Cap(Job(n)) <= Pace /\ Cap(Job(n)) <= MaxRuns - seenFired[n]
                             /\ Cap(Job(n)) = Pace \/ Cap(Job(n)) = MaxRuns - seenFired[n]
<1>1. \A n \in Nodes : seenFired[n] \in Nat
  BY DEF TypeOK
<1>2. \A n \in Nodes : Cap(Job(n)) = IF Pace < MaxRuns - seenFired[n] THEN Pace
                                      ELSE MaxRuns - seenFired[n]
  BY FillerKinds DEF Cap
<1>3. \A n \in Nodes : Cap(<<"catchup", n>>) = SweepCap
  BY FillerKinds DEF Cap
<1>4. Cap(Api) = MaxTime
  BY FillerKinds DEF Cap
<1> QED
  BY <1>1, <1>2, <1>3, <1>4, FillerKinds

LEMMA MoreFaults ==
  ASSUME NEW a \in Nat, NEW b \in Nat, b >= a
  PROVE  /\ a * Pace \in Nat /\ b * Pace \in Nat /\ a * Pace <= b * Pace
         /\ (a + 1) * Pace = a * Pace + Pace
<1>1. Pace \in Nat
  OBVIOUS
<1>2. PICK c \in Nat : b = a + c
  <2>1. b - a \in Nat /\ b = a + (b - a)
    OBVIOUS
  <2> QED
    BY <2>1
<1>3. c * Pace \in Nat /\ (a + c) * Pace = a * Pace + c * Pace
  BY <1>1
<1> QED
  BY <1>1, <1>2, <1>3

LEMMA OrphansFinite ==
  ASSUME TypeOK
  PROVE  IsFiniteSet(Orphans) /\ Cardinality(Orphans) \in Nat
<1>1. IsFiniteSet(Slots)
  BY FS_Interval DEF Slots
<1>2. Orphans \subseteq Slots
  BY DEF Orphans, TypeOK
<1> QED
  BY <1>1, <1>2, FS_Subset, FS_CardinalityType

LEMMA OneMore ==
  ASSUME NEW S, NEW a, IsFiniteSet(S)
  PROVE  /\ IsFiniteSet(S \cup {a}) /\ Cardinality(S) \in Nat
         /\ Cardinality(S \cup {a}) \in Nat /\ Cardinality(S \cup {a}) <= Cardinality(S) + 1
<1>1. /\ IsFiniteSet(S \cup {a})
      /\ Cardinality(S \cup {a}) = IF a \in S THEN Cardinality(S) ELSE Cardinality(S) + 1
  BY FS_AddElement, Zenon
<1>2. Cardinality(S) \in Nat
  BY FS_CardinalityType
<1> QED
  BY <1>1, <1>2

LEMMA TwoMore ==
  ASSUME NEW S, NEW T, NEW a, NEW b, IsFiniteSet(S), T \subseteq (S \cup {a}) \cup {b}
  PROVE  Cardinality(T) \in Nat /\ Cardinality(T) <= Cardinality(S) + 2
<1> DEFINE U == S \cup {a}
<1>1. IsFiniteSet(U) /\ Cardinality(S) \in Nat /\ Cardinality(U) \in Nat
      /\ Cardinality(U) <= Cardinality(S) + 1
  BY OneMore
<1> HIDE DEF U
<1>2. IsFiniteSet(U \cup {b}) /\ Cardinality(U \cup {b}) \in Nat
      /\ Cardinality(U \cup {b}) <= Cardinality(U) + 1
  BY <1>1, OneMore
<1>3. T \subseteq U \cup {b}
  BY DEF U
<1>4. Cardinality(T) <= Cardinality(U \cup {b}) /\ Cardinality(T) \in Nat
  BY <1>2, <1>3, FS_Subset, FS_CardinalityType
<1> QED
  BY <1>1, <1>2, <1>4

\* The fillers are left alone.
LEMMA FillKept ==
  ASSUME SInv, TypeOK', UNCHANGED <<fillVars, seenFired>>, faults' >= faults
  PROVE  (\A f \in Fillers : Within(f))' /\ (\A n \in Nodes : PacesWithin(n))' /\ Ledgered'
<1> USE DEF fillVars, ledgerVars
<1>1. (\A f \in Fillers : Within(f))'
  BY DEF SInv, Within, Cap
<1>2. (\A n \in Nodes : PacesWithin(n))'
  BY DEF SInv, PacesWithin, Pacing
<1>3. Orphans' = Orphans
  BY DEF Orphans, Holds
<1>4. Cardinality(Orphans) \in Nat
  BY OrphansFinite DEF SInv
<1>5. faults \in Nat /\ faults' \in Nat
  BY DEF SInv, TypeOK
<1>6. Cardinality(Orphans)' <= 2 * faults'
  BY <1>3, <1>4, <1>5 DEF SInv, Ledgered
<1>7. Filled' /\ OneHolder' /\ \A f \in Fillers : Claimed(f)'
  BY DEF SInv, Ledgered, Filled, OneHolder, Claimed
<1> QED
  BY <1>1, <1>2, <1>6, <1>7 DEF Ledgered

LEMMA PaidIs ==
  ASSUME SInv
  PROVE  Paid \in Nat /\ faults \in Nat /\ calls \in Nat /\ now \in Nat /\ fires \in [Slots -> Nat]
BY DEF SInv, TypeOK, Fired, Paid, Times

LEMMA MorePaid ==
  ASSUME NEW a \in Nat, NEW b \in Nat, NEW c \in Nat, NEW d \in Nat, c >= a, d >= b
  PROVE  c + d \in Int /\ c + d >= a + b /\ c + d - 1 \in Int /\ c + d - 1 >= a + b - 1
OBVIOUS

\* The loop that fires and its row are left alone.
LEMMA FireKept ==
  ASSUME SInv, TypeOK', UNCHANGED <<rowVars, loopVars, edit>>,
         lapsed => lapsed', faults' >= faults, calls' >= calls, now' >= now
  PROVE  Fired'
<1> USE DEF rowVars, loopVars
<1>1. /\ faults' \in Nat /\ calls' \in Nat /\ now' \in Nat
      /\ Paid \in Nat /\ faults \in Nat /\ calls \in Nat /\ now \in Nat /\ fires \in [Slots -> Nat]
  BY PaidIs DEF TypeOK, Times
<1>2. Paid' \in Int /\ Paid' >= Paid
  <2>1. /\ faults' + calls' \in Int /\ faults' + calls' >= faults + calls
        /\ faults' + calls' - 1 \in Int /\ faults' + calls' - 1 >= faults + calls - 1
    BY <1>1, MorePaid
  <2>2. CASE edit = "none"
    <3>1. Paid = faults + calls /\ Paid' = faults' + calls'
      BY <1>1, <2>2 DEF Paid
    <3> QED
      BY <2>1, <3>1, Zenon
  <2>3. CASE edit # "none"
    <3>1. Paid = faults + calls - 1 /\ Paid' = faults' + calls' - 1
      BY <1>1, <2>3 DEF Paid
    <3> QED
      BY <2>1, <3>1, Zenon
  <2> QED
    BY <2>2, <2>3
<1>3. \A k \in Slots : ToCome(k)' <=> ToCome(k)
  BY DEF ToCome
<1>4. /\ \A k \in Slots : fires[k] > 0 => k <= now'
      /\ \A n \in Nodes : loop[n] # "idle" => tick[n] <= now'
  <2>1. ASSUME NEW k \in Slots, fires[k] > 0
        PROVE  k <= now'
    <3>1. k \in Nat /\ k <= now
      BY <2>1 DEF SInv, Fired, Slots
    <3> QED
      BY <1>1, <3>1
  <2>2. ASSUME NEW n \in Nodes, loop[n] # "idle"
        PROVE  tick[n] <= now'
    <3>1. tick[n] \in Nat /\ tick[n] <= now
      BY <2>2 DEF SInv, TypeOK, Fired, Times
    <3> QED
      BY <1>1, <3>1
  <2> QED
    BY <2>1, <2>2
<1>5. ASSUME ~lapsed, NEW k \in Slots
      PROVE  fires'[k] <= 1 + Paid' /\ (ToCome(k)' => fires'[k] <= Paid')
  <2>1. fires[k] <= 1 + Paid /\ (ToCome(k) => fires[k] <= Paid)
    BY <1>5 DEF SInv, Fired
  <2> QED
    BY <1>1, <1>2, <1>3, <2>1
<1>6. calls' = 0 => calls = 0
  BY <1>1
<1> QED
  BY <1>2, <1>4, <1>5, <1>6 DEF SInv, Fired

\* The job and its pacing are left alone.
LEMMA JobKept ==
  ASSUME SInv, TypeOK', UNCHANGED <<fillVars, cursor, fired, seenFired, jobRuns>>,
         lapsed => lapsed', faults' >= faults
  PROVE  Counted' /\ Covered'
<1> USE DEF fillVars, ledgerVars
<1>1. /\ faults \in Nat /\ faults' \in Nat /\ fired \in Nat /\ jobRuns \in Nat
      /\ \A n \in Nodes : count[Job(n)] \in Nat
  BY FillerKinds DEF SInv, TypeOK
<1> DEFINE P == faults * Pace
           Q == faults' * Pace
<1>2. P \in Nat /\ Q \in Nat /\ P <= Q
  BY <1>1, MoreFaults
<1>3. Counted'
  <2>1. fired <= MaxRuns
    BY DEF SInv, Counted
  <2>2. ASSUME ~lapsed, NEW n \in Nodes, Pacing(n)
        PROVE  seenFired[n] = fired /\ jobRuns <= fired + count[Job(n)] + P
    BY <2>2 DEF SInv, Counted
  <2>3. ASSUME ~lapsed, \A n \in Nodes : ~Pacing(n)
        PROVE  jobRuns <= fired + P
    BY <2>3 DEF SInv, Counted
  <2> HIDE DEF P, Q
  <2>4. ASSUME ~lapsed, NEW n \in Nodes, Pacing(n)
        PROVE  seenFired[n] = fired /\ jobRuns <= fired + count[Job(n)] + Q
    BY <1>1, <1>2, <2>2, <2>4
  <2>5. ASSUME ~lapsed, \A n \in Nodes : ~Pacing(n)
        PROVE  jobRuns <= fired + Q
    BY <1>1, <1>2, <2>3, <2>5
  <2>6. (\A n \in Nodes : Pacing(n)' <=> Pacing(n)) /\ UNCHANGED <<count, seenFired, fired, jobRuns>>
    BY DEF Pacing
  <2> QED
    BY <2>1, <2>4, <2>5, <2>6 DEF Counted, Q
<1>4. Covered'
  BY DEF SInv, Covered, Passed, Pacing
<1> QED
  BY <1>3, <1>4

\* No one begins to work without the lease.
LEMMA LeaseKept ==
  ASSUME SInv, UNCHANGED leaderVars,
         \A n \in Nodes : Working(n)' => Working(n)
  PROVE  Leased'
BY DEF leaderVars, SInv, Leased

-----------------------------------------------------------------------------
(* Init, the lease, the loop that fires and the edits. *)

LEMMA SStarts ==
  ASSUME Init
  PROVE  SInv
<1> USE DEF Init
<1>1. /\ flag \in [Nodes -> BOOLEAN] /\ loop \in [Nodes -> {"idle", "due", "fired", "gated"}]
      /\ due \in [Nodes -> Times] /\ tick \in [Nodes -> Times] /\ seenFired \in [Nodes -> Nat]
      /\ fires \in [Slots -> Nat] /\ fills \in [Slots -> Nat]
  BY DEF Times
<1>2. /\ pc \in [Fillers -> {"idle", "scan", "held", "record", "complete"}]
      /\ at \in [Fillers -> Times] /\ to \in [Fillers -> Times] /\ count \in [Fillers -> Nat]
  BY DEF Times
<1>3. TypeOK
  <2>1. /\ now \in Times /\ last \in Times /\ next \in 0 .. MaxTime + 1 /\ editNext \in 0 .. MaxTime + 1
        /\ cursor \in Times /\ calls \in 0 .. MaxCalls /\ faults \in 0 .. MaxFaults
    BY DEF Times, Never
  <2>2. /\ ledger \subseteq Slots /\ gaveBack \subseteq Slots
        /\ job \in {"none", "running", "completed", "cancelled"}
    OBVIOUS
  <2>3. /\ use \in Uses /\ holder \in Nodes \cup {None} /\ live \in BOOLEAN /\ lapsed \in BOOLEAN
        /\ enabled \in BOOLEAN /\ edit \in {"none", "keep", "pause", "reset"}
        /\ fired \in Nat /\ jobRuns \in Nat
    OBVIOUS
  <2> HIDE DEF Init
  <2> QED
    BY <1>1, <1>2, <2>1, <2>2, <2>3 DEF TypeOK
<1>4. /\ \A f \in Fillers : Within(f) /\ Claimed(f)
      /\ \A n \in Nodes : PacesWithin(n) /\ ~Pacing(n)
  BY FillerKinds DEF Within, Claimed, PacesWithin, Pacing
<1>5. Ledgered
  <2>1. Orphans = {} /\ Filled /\ OneHolder
    BY DEF Orphans, Filled, OneHolder
  <2>2. Cardinality(Orphans) = 0
    BY <2>1, FS_EmptySet
  <2> QED
    BY <1>4, <2>1, <2>2 DEF Ledgered
<1>6. Leased /\ Fired
  <2>1. Leased
    BY FillerKinds DEF Leased, Working
  <2>2. Paid = 0
    BY DEF Paid
  <2> QED
    BY <2>1, <2>2 DEF Fired
<1>7. Counted /\ Covered
  BY <1>4 DEF Counted, Covered, Passed, Slots
<1> QED
  BY <1>3, <1>4, <1>5, <1>6, <1>7 DEF SInv

\* Time, the lease while its node lives, and the job's cancelling.
LEMMA LeaseSteps ==
  ASSUME SInv, Tick \/ Lapse \/ CancelJob \/ \E n \in Nodes : TryAcquire(n) \/ RenewFails(n)
  PROVE  SInv'
<1> USE DEF leaderVars, rowVars, loopVars, editVars, fillVars, ledgerVars, jobVars
<1>1. TypeOK'
  <2>1. CASE Tick
    BY <2>1 DEF Tick, SInv, TypeOK, Times
  <2>2. CASE Lapse
    <3>1. lapsed' \in BOOLEAN
      BY <2>2, Zenon DEF Lapse
    <3>2. faults' \in 0 .. MaxFaults
      BY <2>2 DEF Lapse, SInv, TypeOK
    <3> QED
      BY <2>2, <3>1, <3>2 DEF Lapse, SInv, TypeOK
  <2>3. CASE CancelJob
    BY <2>3 DEF CancelJob, SInv, TypeOK
  <2>4. ASSUME NEW n \in Nodes, TryAcquire(n) PROVE TypeOK'
    <3>1. PICK b \in BOOLEAN : flag' = [flag EXCEPT ![n] = b]
      BY <2>4 DEF TryAcquire, Free
    <3>2. flag' \in [Nodes -> BOOLEAN]
      BY <3>1 DEF SInv, TypeOK
    <3> QED
      BY <2>4, <3>2 DEF TryAcquire, SInv, TypeOK
  <2>5. ASSUME NEW n \in Nodes, RenewFails(n) PROVE TypeOK'
    BY <2>5 DEF RenewFails, Fault, SInv, TypeOK
  <2> QED
    BY <2>1, <2>2, <2>3, <2>4, <2>5
<1>2. /\ UNCHANGED <<rowVars, loopVars, editVars, fillVars, cursor, fired, seenFired, jobRuns>>
      /\ lapsed => lapsed'
  <2>1. UNCHANGED <<rowVars, loopVars, editVars, fillVars, cursor, fired, seenFired, jobRuns>>
    BY DEF Tick, Lapse, CancelJob, TryAcquire, RenewFails
  <2>2. CASE Lapse
    BY <2>1, <2>2, Zenon DEF Lapse
  <2> QED
    BY <2>1, <2>2 DEF Tick, CancelJob, TryAcquire, RenewFails
<1>3. faults' >= faults /\ calls' >= calls /\ now' >= now
  <2>1. faults \in Nat /\ calls \in Nat /\ now \in Nat
    BY PaidIs
  <2> QED
    BY <2>1 DEF Tick, Lapse, CancelJob, TryAcquire, RenewFails, Fault
<1>4. Leased'
  <2>1. CASE Tick \/ CancelJob
    BY <2>1 DEF Tick, CancelJob, SInv, Leased, Working
  <2>2. CASE Lapse
    BY <2>2 DEF Lapse, SInv, Leased, Working
  <2>3. ASSUME NEW n \in Nodes, TryAcquire(n) PROVE Leased'
    <3> SUFFICES ASSUME ~lapsed PROVE live' /\ \A m \in Nodes : Working(m)' => holder' = m
      BY <2>3 DEF TryAcquire, Leased
    <3>1. /\ live \/ holder = None
          /\ \A m \in Nodes : Working(m) => holder = m
      BY DEF SInv, Leased
    <3>2. CASE Free(n)
      <4>1. \A m \in Nodes : m # n => ~Working(m)
        BY <3>1, <3>2 DEF Free
      <4> QED
        BY <2>3, <3>2, <4>1 DEF TryAcquire, Working, SInv, TypeOK
    <3>3. CASE ~Free(n)
      BY <2>3, <3>1, <3>3 DEF TryAcquire, Working, SInv, TypeOK
    <3> QED
      BY <3>2, <3>3
  <2>4. ASSUME NEW n \in Nodes, RenewFails(n) PROVE Leased'
    BY <2>4 DEF RenewFails, SInv, TypeOK, Leased, Working
  <2> QED
    BY <2>1, <2>2, <2>3, <2>4
<1> QED
  BY <1>1, <1>2, <1>3, <1>4, FillKept, FireKept, JobKept DEF SInv

\* The loop that fires, but for its crash.
LEMMA FireSteps ==
  ASSUME SInv, NEW n \in Nodes, FireStep(n) \/ AdvanceFails(n)
  PROVE  SInv'
<1> USE DEF leaderVars, rowVars, loopVars, editVars, fillVars, ledgerVars, jobVars
<1>1. TypeOK'
  <2>1. CASE ClaimDue(n)
    BY <2>1 DEF ClaimDue, SInv, TypeOK, Times, Never
  <2>2. CASE StopSchedule(n)
    <3>1. /\ enabled' = FALSE /\ Rest(n)
          /\ UNCHANGED <<use, now, leaderVars, next, last, fires, editVars, fillVars, jobVars, faults>>
      BY <2>2 DEF StopSchedule
    <3>2. /\ loop' \in [Nodes -> {"idle", "due", "fired", "gated"}]
          /\ due' \in [Nodes -> Times] /\ tick' \in [Nodes -> Times]
      BY <2>2 DEF StopSchedule, Rest, SInv, TypeOK, Times
    <3>3. enabled' \in BOOLEAN
      BY <3>1
    <3> QED
      BY <3>1, <3>2, <3>3 DEF SInv, TypeOK
  <2>3. CASE Gate(n)
    BY <2>3 DEF Gate, SInv, TypeOK
  <2>4. CASE Fire(n)
    <3>1. PICK made \in {0, 1} : fires' = [fires EXCEPT ![due[n]] = @ + made]
      BY <2>4 DEF Fire
    <3>2. due[n] \in Slots
      BY <2>4 DEF Fire, SInv, Fired
    <3>3. fires' \in [Slots -> Nat]
      BY <3>1, <3>2 DEF SInv, TypeOK
    <3> QED
      BY <2>4, <3>3 DEF Fire, SInv, TypeOK
  <2>5. CASE Advance(n)
    BY <2>5 DEF Advance, AdvanceFrom, Rest, SInv, TypeOK, Times
  <2>6. CASE AdvanceFails(n)
    BY <2>6 DEF AdvanceFails, Fault, Rest, SInv, TypeOK, Times
  <2> QED
    BY <2>1, <2>2, <2>3, <2>4, <2>5, <2>6 DEF FireStep
<1>2. UNCHANGED <<leaderVars, edit, calls, fillVars, jobVars>>
  BY DEF FireStep, ClaimDue, StopSchedule, Gate, Fire, Advance, AdvanceFrom, AdvanceFails
<1>3. faults' >= faults /\ faults \in Nat
  BY DEF FireStep, ClaimDue, StopSchedule, Gate, Fire, Advance, AdvanceFrom, AdvanceFails, Fault,
         SInv, TypeOK
<1>4. Leased'
  <2>1. \A m \in Nodes : loop'[m] # "idle" => loop[m] # "idle" \/ flag[m]
    BY DEF FireStep, ClaimDue, StopSchedule, Gate, Fire, Advance, AdvanceFrom, AdvanceFails, Rest,
           SInv, TypeOK
  <2> QED
    BY <1>2, <2>1, LeaseKept DEF Working
<1>5. Fired'
  <2> USE DEF SInv, TypeOK
  <2>1. \A m \in Nodes : loop'[m] # "idle" => /\ due'[m] \in Slots
                                              /\ due'[m] <= tick'[m] /\ tick'[m] <= now'
    <3>1. \A m \in Nodes : loop[m] # "idle" => /\ due[m] \in Slots
                                               /\ due[m] <= tick[m] /\ tick[m] <= now
      BY DEF Fired
    <3>2. CASE ClaimDue(n)
      <4>1. next \in Slots /\ next <= now /\ now \in Nat
        BY <3>2 DEF ClaimDue, Never, Slots, Times
      <4>2. now' = now /\ due'[n] = next /\ tick'[n] = now
        BY <3>2 DEF ClaimDue
      <4>3. \A m \in Nodes \ {n} : loop'[m] = loop[m] /\ due'[m] = due[m] /\ tick'[m] = tick[m]
        BY <3>2 DEF ClaimDue
      <4> QED
        BY <3>1, <4>1, <4>2, <4>3
    <3> QED
      BY <3>1, <3>2 DEF FireStep, StopSchedule, Gate, Fire, Advance, AdvanceFrom, AdvanceFails, Rest
  <2>2. /\ \A k \in Slots : fires'[k] > 0 => k <= now'
        /\ UNCHANGED <<now, edit, calls, lapsed>>
        /\ Paid \in Nat /\ faults \in Nat /\ calls \in Nat /\ now \in Nat /\ fires \in [Slots -> Nat]
    <3>1. UNCHANGED <<now, edit, calls, lapsed>>
      BY DEF FireStep, ClaimDue, StopSchedule, Gate, Fire, Advance, AdvanceFrom, AdvanceFails
    <3>2. \A k \in Slots : fires[k] > 0 => k <= now
      BY DEF Fired
    <3>3. CASE Fire(n)
      <4>1. PICK made \in {0, 1} : fires' = [fires EXCEPT ![due[n]] = @ + made]
        BY <3>3 DEF Fire
      <4>2. due[n] \in Slots /\ due[n] <= now
        <5>1. /\ due[n] \in Slots /\ due[n] <= tick[n] /\ tick[n] <= now
              /\ due[n] \in Nat /\ tick[n] \in Nat /\ now \in Nat
          BY <3>3 DEF Fire, Fired, Times
        <5> QED
          BY <5>1
      <4>3. \A k \in Slots : k # due[n] => fires'[k] = fires[k]
        BY <4>1, <4>2
      <4> QED
        BY <3>1, <3>2, <4>2, <4>3, PaidIs
    <3>4. CASE ~Fire(n)
      <4>1. fires' = fires
        BY <3>4 DEF FireStep, ClaimDue, StopSchedule, Gate, Advance, AdvanceFrom, AdvanceFails
      <4> QED
        BY <3>1, <3>2, <4>1, PaidIs
    <3> QED
      BY <3>3, <3>4
  <2>3. ASSUME ~lapsed
        PROVE  /\ \A m \in Nodes : loop'[m] # "idle" => \A k \in Slots : fires'[k] > 0 => k <= tick'[m]
               /\ \A k \in Slots : fires'[k] <= 1 + Paid' /\ (ToCome(k)' => fires'[k] <= Paid')
    <3>1. /\ \A m \in Nodes : loop[m] # "idle" => \A k \in Slots : fires[k] > 0 => k <= tick[m]
          /\ \A k \in Slots : fires[k] <= 1 + Paid /\ (ToCome(k) => fires[k] <= Paid)
          /\ \A m \in Nodes : loop[m] # "idle" => due[m] \in Slots /\ due[m] <= tick[m]
          /\ \A k \in Slots : fires[k] > 0 => k <= now
      BY <2>3 DEF Fired
    <3>2. loop[n] # "idle" \/ ClaimDue(n) => \A m \in Nodes : m # n => loop[m] = "idle"
      BY <2>3 DEF Leased, Working, ClaimDue
    <3>3. CASE ClaimDue(n)
      <4>1. /\ loop[n] = "idle" /\ next # Never /\ next <= now /\ fires' = fires /\ next' = next
            /\ loop' = [loop EXCEPT ![n] = "due"] /\ faults' = faults
            /\ due' = [due EXCEPT ![n] = next] /\ tick' = [tick EXCEPT ![n] = now]
        BY <3>3 DEF ClaimDue
      <4>2. \A m \in Nodes : loop'[m] # "idle" => m = n
        BY <3>2, <3>3, <4>1
      <4>3. ASSUME NEW k \in Slots, ToCome(k)' PROVE ToCome(k)
        <5>1. next <= k /\ next # Never
          BY <4>1, <4>2, <4>3 DEF ToCome, Slots
        <5> QED
          BY <3>2, <3>3, <4>1, <5>1 DEF ToCome
      <4> QED
        BY <2>2, <3>1, <4>1, <4>2, <4>3 DEF Paid
    <3>4. CASE StopSchedule(n) \/ Gate(n)
      <4>1. /\ loop[n] = "due" /\ fires' = fires /\ next' = next /\ faults' = faults
            /\ loop'[n] \in {"idle", "gated"} /\ (loop'[n] = "gated" => tick' = tick)
            /\ \A m \in Nodes : m # n => loop'[m] = loop[m]
        BY <3>4 DEF StopSchedule, Gate, Rest
      <4>2. \A m \in Nodes : loop'[m] # "idle" => m = n /\ tick' = tick
        BY <3>2, <4>1
      <4>3. ASSUME NEW k \in Slots, ToCome(k)' PROVE ToCome(k)
        <5>1. next # Never /\ next <= k
          BY <4>1, <4>2, <4>3 DEF ToCome
        <5> QED
          BY <3>2, <4>1, <5>1 DEF ToCome
      <4> QED
        BY <2>2, <3>1, <4>1, <4>2, <4>3 DEF Paid
    <3>5. CASE Fire(n)
      <4>1. /\ loop[n] = "due" /\ loop' = [loop EXCEPT ![n] = "fired"] /\ faults' = faults
            /\ UNCHANGED <<next, due, tick>>
        BY <3>5 DEF Fire
      <4>2. PICK made \in {0, 1} : fires' = [fires EXCEPT ![due[n]] = @ + made]
        BY <3>5 DEF Fire
      <4>3. ToCome(due[n]) /\ due[n] \in Slots /\ due[n] <= tick[n]
        BY <3>1, <4>1 DEF ToCome
      <4>4. \A m \in Nodes : m # n => loop'[m] = "idle"
        BY <3>2, <4>1
      <4>5. ASSUME NEW k \in Slots PROVE fires'[k] <= 1 + Paid /\ (k # due[n] => fires'[k] = fires[k])
        BY <2>2, <3>1, <4>2, <4>3
      <4>6. ASSUME NEW k \in Slots, ToCome(k)' PROVE k # due[n] /\ ToCome(k)
        <5>1. next # Never /\ next <= k /\ tick[n] < k
          BY <4>1, <4>4, <4>6 DEF ToCome
        <5>2. due[n] \in Nat /\ tick[n] \in Nat /\ k \in Nat
          BY <4>3 DEF Slots, Times
        <5>3. k # due[n]
          BY <4>3, <5>1, <5>2
        <5> QED
          BY <3>2, <4>1, <5>1, <5>3 DEF ToCome
      <4>7. ASSUME NEW k \in Slots, fires'[k] > 0 PROVE k <= tick[n]
        BY <3>1, <4>1, <4>3, <4>5, <4>7
      <4>8. Paid' = Paid
        BY <2>2, <4>1 DEF Paid
      <4> QED
        BY <3>1, <4>1, <4>4, <4>5, <4>6, <4>7, <4>8
    <3>6. CASE Advance(n)
      <4>1. /\ loop[n] # "idle" /\ next' = tick[n] + 1 /\ fires' = fires /\ faults' = faults
            /\ loop' = [loop EXCEPT ![n] = "idle"]
        BY <3>6 DEF Advance, AdvanceFrom, Rest
      <4>2. \A m \in Nodes : loop'[m] = "idle"
        BY <3>2, <4>1
      <4>3. ASSUME NEW k \in Slots, ToCome(k)' PROVE fires[k] = 0
        <5>1. tick[n] + 1 <= k /\ tick[n] \in Nat /\ k \in Nat /\ fires[k] \in Nat
          BY <2>2, <4>1, <4>2, <4>3 DEF ToCome, Times, Slots
        <5>2. fires[k] > 0 => k <= tick[n]
          BY <3>1, <4>1
        <5> QED
          BY <5>1, <5>2
      <4> QED
        BY <2>2, <3>1, <4>1, <4>2, <4>3 DEF Paid
    <3>7. CASE AdvanceFails(n)
      <4>1. /\ loop[n] # "idle" /\ faults' = faults + 1 /\ fires' = fires
            /\ loop' = [loop EXCEPT ![n] = "idle"]
        BY <3>7 DEF AdvanceFails, Fault, Rest
      <4>2. (\A m \in Nodes : loop'[m] = "idle") /\ Paid' = Paid + 1
        BY <2>2, <3>2, <4>1 DEF Paid
      <4> QED
        BY <2>2, <3>1, <4>1, <4>2
    <3> QED
      BY <3>3, <3>4, <3>5, <3>6, <3>7 DEF FireStep
  <2> QED
    BY <1>2, <2>1, <2>2, <2>3 DEF Fired
<1> QED
  BY <1>1, <1>2, <1>3, <1>4, <1>5, FillKept, JobKept DEF SInv

\* update_schedule: what it writes may have any slot to come again, and is paid for.
LEMMA EditSteps ==
  ASSUME SInv, Edit
  PROVE  SInv'
<1> USE DEF leaderVars, rowVars, loopVars, editVars, fillVars, ledgerVars, jobVars
<1>1. TypeOK'
  <2>1. ASSUME NEW on \in BOOLEAN, NEW moved \in BOOLEAN, EditRead(on, moved) PROVE TypeOK'
    <3>1. edit' \in {"keep", "reset", "pause"} /\ calls' \in 0 .. MaxCalls
      BY <2>1 DEF EditRead, SInv, TypeOK
    <3>2. editNext' \in {next, now + 1, Never}
      BY <2>1 DEF EditRead
    <3>3. next \in 0 .. MaxTime + 1 /\ now + 1 \in 0 .. MaxTime + 1 /\ Never \in 0 .. MaxTime + 1
      BY DEF SInv, TypeOK, Times, Never
    <3>4. UNCHANGED <<use, now, leaderVars, rowVars, loopVars, fillVars, jobVars, faults>>
      BY <2>1 DEF EditRead
    <3> QED
      BY <3>1, <3>2, <3>3, <3>4 DEF SInv, TypeOK
  <2>2. CASE EditWrite
    <3>1. enabled' \in BOOLEAN
      BY <2>2, Zenon DEF EditWrite
    <3> QED
      BY <2>2, <3>1 DEF EditWrite, SInv, TypeOK, Never
  <2> QED
    BY <2>1, <2>2 DEF Edit
<1>2. UNCHANGED <<leaderVars, loopVars, fillVars, jobVars, faults>>
  BY DEF Edit, EditRead, EditWrite
<1>3. faults' >= faults
  BY <1>2 DEF SInv, TypeOK
<1>4. Leased'
  BY <1>2, LeaseKept DEF Working
<1>5. now' = now /\ (calls = 0 => edit = "none")
  BY DEF SInv, Fired, Edit, EditRead, EditWrite
<1>6. Fired'
  <2>1. ASSUME NEW on \in BOOLEAN, NEW moved \in BOOLEAN, EditRead(on, moved) PROVE Fired'
    <3>1. /\ edit = "none" /\ edit' # "none" /\ calls' = calls + 1
          /\ UNCHANGED <<rowVars, loopVars, lapsed, faults, now>>
      BY <2>1 DEF EditRead
    <3>2. Paid' = Paid /\ calls' # 0
      BY <3>1, PaidIs DEF Paid
    <3>3. \A k \in Slots : ToCome(k)' <=> ToCome(k)
      BY <3>1 DEF ToCome
    <3> QED
      BY <3>1, <3>2, <3>3 DEF SInv, Fired
  <2>2. CASE EditWrite
    <3>1. edit # "none" /\ edit' = "none" /\ UNCHANGED <<loopVars, lapsed, faults, calls, now>>
      BY <2>2 DEF EditWrite
    <3>2. Paid' = Paid + 1
      BY <3>1, PaidIs DEF Paid
    <3>3. ASSUME ~lapsed, NEW k \in Slots PROVE fires[k] <= Paid' /\ fires[k] <= 1 + Paid'
      <4>1. fires[k] <= 1 + Paid
        BY <3>3 DEF SInv, Fired
      <4> QED
        BY <3>2, <4>1, PaidIs
    <3> QED
      BY <3>1, <3>3 DEF SInv, Fired
  <2> QED
    BY <2>1, <2>2 DEF Edit
<1> QED
  BY <1>1, <1>2, <1>3, <1>4, <1>6, FillKept, JobKept DEF SInv

-----------------------------------------------------------------------------
(* The fillers: what a step of one leaves to the others. *)

OnlyOf(f) ==
  /\ \A g \in Fillers \ {f} : pc'[g] = pc[g] /\ at'[g] = at[g] /\ to'[g] = to[g] /\ count'[g] = count[g]
  /\ \A n \in Nodes : Job(n) # f => seenFired'[n] = seenFired[n]

LEMMA PutIs ==
  ASSUME TypeOK, NEW f \in Fillers,
         NEW stage \in {"idle", "scan", "held", "record", "complete"},
         NEW past \in Times, NEW upper \in Times, NEW made \in Nat,
         Put(f, stage, past, upper, made), \A n \in Nodes : Job(n) # f => seenFired'[n] = seenFired[n]
  PROVE  /\ pc' \in [Fillers -> {"idle", "scan", "held", "record", "complete"}]
         /\ at' \in [Fillers -> Times] /\ to' \in [Fillers -> Times] /\ count' \in [Fillers -> Nat]
         /\ pc'[f] = stage /\ at'[f] = past /\ to'[f] = upper /\ count'[f] = made
         /\ OnlyOf(f)
<1>1. /\ pc \in [Fillers -> {"idle", "scan", "held", "record", "complete"}]
      /\ at \in [Fillers -> Times] /\ to \in [Fillers -> Times] /\ count \in [Fillers -> Nat]
  BY DEF TypeOK
<1>2. /\ pc' = [pc EXCEPT ![f] = stage] /\ at' = [at EXCEPT ![f] = past]
      /\ to' = [to EXCEPT ![f] = upper] /\ count' = [count EXCEPT ![f] = made]
  BY DEF Put
<1> QED
  BY <1>1, <1>2 DEF OnlyOf

LEMMA WithinKept ==
  ASSUME SInv, NEW f \in Fillers, OnlyOf(f), Within(f)'
  PROVE  (\A g \in Fillers : Within(g))'
<1> SUFFICES ASSUME NEW g \in Fillers, g # f PROVE Within(g)'
  OBVIOUS
<1>1. Cap(g)' = Cap(g)
  <2>1. CASE g = Api \/ \E n \in Nodes : g = <<"catchup", n>>
    BY <2>1, FillerKinds DEF Cap
  <2>2. ASSUME NEW n \in Nodes, g = Job(n) PROVE Cap(g)' = Cap(g)
    BY <2>2, FillerKinds DEF Cap, OnlyOf
  <2> QED
    BY <2>1, <2>2, FillerKinds
<1> QED
  BY <1>1 DEF SInv, Within, OnlyOf

\* Nothing is claimed, filled or given up by the step.
LEMMA MovesOn ==
  ASSUME SInv, TypeOK', NEW f \in Fillers, OnlyOf(f), pc[f] # "held", pc'[f] # "held",
         UNCHANGED ledgerVars, faults' >= faults
  PROVE  Ledgered'
<1> USE DEF ledgerVars
<1>1. \A g \in Fillers : (pc'[g] = "held" <=> pc[g] = "held") /\ (pc[g] = "held" => at'[g] = at[g])
  BY DEF OnlyOf
<1>2. Orphans' = Orphans
  BY <1>1 DEF Orphans, Holds
<1>3. Cardinality(Orphans) \in Nat /\ faults \in Nat /\ faults' \in Nat
  BY OrphansFinite DEF SInv, TypeOK
<1>4. Cardinality(Orphans)' <= 2 * faults'
  BY <1>2, <1>3 DEF SInv, Ledgered
<1>5. Filled' /\ OneHolder' /\ \A g \in Fillers : Claimed(g)'
  BY <1>1 DEF SInv, Ledgered, Filled, OneHolder, Claimed
<1> QED
  BY <1>4, <1>5 DEF Ledgered

\* The slot after the filler's place is free, and now the filler's.
LEMMA Claims ==
  ASSUME SInv, TypeOK', NEW f \in Fillers, OnlyOf(f), pc[f] # "held", pc'[f] = "held",
         at'[f] = at[f], at[f] + 1 \in Slots, at[f] + 1 \notin ledger,
         ledger' = ledger \cup {at[f] + 1}, UNCHANGED <<fills, faults>>
  PROVE  Ledgered'
<1>1. \A g \in Fillers \ {f} : pc'[g] = pc[g] /\ at'[g] = at[g]
  BY DEF OnlyOf
<1>2. \A g \in Fillers : at[g] \in Nat
  BY DEF SInv, TypeOK, Times
<1>3. \A g \in Fillers : pc[g] = "held" => at[g] + 1 \in ledger /\ fills[at[g] + 1] = 0
  BY DEF SInv, Ledgered, Claimed
<1>4. Filled' /\ fills[at[f] + 1] = 0
  BY DEF SInv, Ledgered, Filled, TypeOK
<1>5. OneHolder'
  BY <1>1, <1>3 DEF SInv, Ledgered, OneHolder
<1>6. \A g \in Fillers : Claimed(g)'
  BY <1>1, <1>3, <1>4 DEF Claimed
<1>7. Orphans' \subseteq Orphans
  <2> SUFFICES ASSUME NEW k \in Orphans' PROVE k \in Orphans
    OBVIOUS
  <2>1. k \in ledger' /\ fills[k] = 0 /\ (\A g \in Fillers : ~Holds(g, k)')
    BY DEF Orphans
  <2>2. k # at[f] + 1
    BY <2>1 DEF Holds
  <2>3. \A g \in Fillers : ~Holds(g, k)
    BY <1>1, <2>1 DEF Holds
  <2> QED
    BY <2>1, <2>2, <2>3 DEF Orphans
<1>8. Cardinality(Orphans') <= Cardinality(Orphans) /\ Cardinality(Orphans') \in Nat
  BY <1>7, OrphansFinite, FS_Subset, FS_CardinalityType DEF SInv
<1>9. Cardinality(Orphans)' <= 2 * faults'
  BY <1>8, OrphansFinite DEF SInv, Ledgered, TypeOK
<1> QED
  BY <1>4, <1>5, <1>6, <1>9 DEF Ledgered

\* The slot that the filler holds is filled, or given back.
LEMMA HeldIsSettled ==
  ASSUME SInv, TypeOK', NEW f \in Fillers, OnlyOf(f), pc[f] = "held", pc'[f] # "held",
         UNCHANGED faults,
         \/ fills' = [fills EXCEPT ![at[f] + 1] = @ + 1] /\ ledger' = ledger
         \/ ledger' = ledger \ {at[f] + 1} /\ fills' = fills
  PROVE  Ledgered'
<1> DEFINE s == at[f] + 1
<1>1. \A g \in Fillers \ {f} : pc'[g] = pc[g] /\ at'[g] = at[g]
  BY DEF OnlyOf
<1>2. \A g \in Fillers : at[g] \in Nat
  BY DEF SInv, TypeOK, Times
<1>3. s \in Slots /\ s \in ledger /\ fills[s] = 0
  BY DEF SInv, Ledgered, Claimed, TypeOK
<1>4. \A g \in Fillers \ {f} : pc[g] = "held" => at[g] + 1 # s
  BY <1>2 DEF SInv, Ledgered, OneHolder
<1>5. \A k \in Slots : k # s => fills'[k] = fills[k] /\ (k \in ledger' <=> k \in ledger)
  BY <1>3 DEF SInv, TypeOK
<1>6. fills'[s] <= 1 /\ (fills'[s] = 1 => s \in ledger') /\ (s \in ledger' => fills'[s] # 0)
  BY <1>3 DEF SInv, TypeOK
<1>7. Filled'
  BY <1>5, <1>6 DEF SInv, Ledgered, Filled
<1>8. OneHolder'
  BY <1>1 DEF SInv, Ledgered, OneHolder
<1>9. \A g \in Fillers : Claimed(g)'
  <2> SUFFICES ASSUME NEW g \in Fillers, pc'[g] = "held"
               PROVE  at'[g] + 1 \in ledger' /\ fills'[at'[g] + 1] = 0
    BY DEF Claimed
  <2>1. g # f /\ pc[g] = "held" /\ at'[g] = at[g] /\ at[g] + 1 # s
    BY <1>1, <1>4
  <2>2. at[g] + 1 \in ledger /\ fills[at[g] + 1] = 0 /\ at[g] + 1 \in Slots
    BY <2>1 DEF SInv, Ledgered, Claimed, TypeOK
  <2> QED
    BY <1>5, <2>1, <2>2
<1>10. Orphans' \subseteq Orphans
  <2> SUFFICES ASSUME NEW k \in Orphans' PROVE k \in Orphans
    OBVIOUS
  <2>1. k \in ledger' /\ fills'[k] = 0 /\ (\A g \in Fillers : ~Holds(g, k)') /\ k \in Slots
    BY DEF Orphans, TypeOK
  <2>2. k # s /\ k \in ledger /\ fills[k] = 0
    BY <1>5, <1>6, <2>1
  <2>3. \A g \in Fillers : ~Holds(g, k)
    BY <1>1, <2>1, <2>2 DEF Holds
  <2> QED
    BY <2>2, <2>3 DEF Orphans
<1>11. Cardinality(Orphans') <= Cardinality(Orphans) /\ Cardinality(Orphans') \in Nat
  BY <1>10, OrphansFinite, FS_Subset, FS_CardinalityType DEF SInv
<1>12. Cardinality(Orphans)' <= 2 * faults'
  <2>1. faults \in Nat /\ Cardinality(Orphans) <= 2 * faults
    BY SchedulesAssumption DEF SInv, Ledgered, TypeOK
  <2>2. Cardinality(Orphans) \in Nat
    BY OrphansFinite DEF SInv
  <2> QED
    BY <1>11, <2>1, <2>2
<1> QED
  BY <1>7, <1>8, <1>9, <1>12 DEF Ledgered

\* A fault takes from fillers what they hold, from two at most.
LEMMA HeldIsLost ==
  ASSUME SInv, TypeOK', NEW f \in Fillers, NEW g \in Fillers,
         \A h \in Fillers : \/ pc'[h] = pc[h] /\ at'[h] = at[h]
                            \/ h \in {f, g} /\ pc'[h] # "held",
         UNCHANGED <<ledger, fills>>, faults' = faults + 1
  PROVE  Ledgered'
<1>1. \A h \in Fillers : pc'[h] = "held" => pc[h] = "held" /\ at'[h] = at[h]
  OBVIOUS
<1>2. Filled' /\ OneHolder' /\ \A h \in Fillers : Claimed(h)'
  BY <1>1 DEF SInv, Ledgered, Filled, OneHolder, Claimed
<1>3. Orphans' \subseteq (Orphans \cup {at[f] + 1}) \cup {at[g] + 1}
  <2> SUFFICES ASSUME NEW k \in Orphans', k # at[f] + 1, k # at[g] + 1 PROVE k \in Orphans
    OBVIOUS
  <2>1. k \in ledger /\ fills[k] = 0 /\ (\A h \in Fillers : ~Holds(h, k)')
    BY DEF Orphans
  <2>2. \A h \in Fillers : ~Holds(h, k)
    BY <2>1 DEF Holds
  <2> QED
    BY <2>1, <2>2 DEF Orphans
<1>4. Cardinality(Orphans') \in Nat /\ Cardinality(Orphans') <= Cardinality(Orphans) + 2
  <2>1. IsFiniteSet(Orphans)
    BY OrphansFinite DEF SInv
  <2>2. \A S, T, a, b : IsFiniteSet(S) /\ T \subseteq (S \cup {a}) \cup {b} =>
                          Cardinality(T) \in Nat /\ Cardinality(T) <= Cardinality(S) + 2
    BY TwoMore
  <2>3. \A T : T \subseteq (Orphans \cup {at[f] + 1}) \cup {at[g] + 1} =>
                Cardinality(T) \in Nat /\ Cardinality(T) <= Cardinality(Orphans) + 2
    BY <2>1, <2>2, Zenon
  <2> QED
    BY <1>3, <2>3, Zenon
<1>5. Cardinality(Orphans)' <= 2 * faults'
  <2>1. faults \in Nat /\ Cardinality(Orphans) <= 2 * faults
    BY SchedulesAssumption DEF SInv, Ledgered, TypeOK
  <2>2. Cardinality(Orphans) \in Nat
    BY OrphansFinite DEF SInv
  <2> QED
    BY <1>4, <2>1, <2>2
<1> QED
  BY <1>2, <1>5 DEF Ledgered

-----------------------------------------------------------------------------
(* The job's books, over a step of a filler. *)

LEMMA OnesWork ==
  ASSUME SInv, ~lapsed, NEW n \in Nodes, flag[n] \/ pc[Job(n)] # "idle"
  PROVE  \A m \in Nodes \ {n} : ~Pacing(m)
BY DEF SInv, Leased, Working, Pacing

\* Another filler than the job's leaves them as they are.
LEMMA OtherFills ==
  ASSUME SInv, TypeOK', NEW f \in Fillers, f[1] # "job", OnlyOf(f),
         ledger \cup gaveBack \subseteq ledger' \cup gaveBack',
         UNCHANGED <<cursor, fired, seenFired, jobRuns, lapsed>>, faults' >= faults
  PROVE  Counted' /\ Covered' /\ (\A n \in Nodes : PacesWithin(n))'
<1>1. \A n \in Nodes : /\ pc'[Job(n)] = pc[Job(n)] /\ at'[Job(n)] = at[Job(n)]
                       /\ to'[Job(n)] = to[Job(n)] /\ count'[Job(n)] = count[Job(n)]
  BY FillerKinds DEF OnlyOf
<1>2. (\A n \in Nodes : PacesWithin(n))'
  BY <1>1 DEF SInv, PacesWithin, Pacing
<1>3. Covered'
  BY <1>1 DEF SInv, Covered, Passed, Pacing
<1>4. /\ faults \in Nat /\ faults' \in Nat /\ fired \in Nat /\ jobRuns \in Nat
      /\ \A n \in Nodes : count[Job(n)] \in Nat
  BY FillerKinds DEF SInv, TypeOK
<1> DEFINE P == faults * Pace
           Q == faults' * Pace
<1>5. P \in Nat /\ Q \in Nat /\ P <= Q
  BY <1>4, MoreFaults
<1>6. /\ fired <= MaxRuns
      /\ ~lapsed =>
           /\ \A n \in Nodes : Pacing(n) => seenFired[n] = fired /\ jobRuns <= fired + count[Job(n)] + P
           /\ (\A n \in Nodes : ~Pacing(n)) => jobRuns <= fired + P
  BY DEF SInv, Counted
<1> HIDE DEF P, Q
<1>7. ~lapsed =>
        /\ \A n \in Nodes : Pacing(n) => seenFired[n] = fired /\ jobRuns <= fired + count[Job(n)] + Q
        /\ (\A n \in Nodes : ~Pacing(n)) => jobRuns <= fired + Q
  BY <1>4, <1>5, <1>6
<1>8. \A n \in Nodes : Pacing(n)' <=> Pacing(n)
  BY <1>1 DEF Pacing
<1>9. Counted'
  BY <1>1, <1>6, <1>7, <1>8 DEF Counted, Q
<1> QED
  BY <1>2, <1>3, <1>9

\* What the books are to be after a step of the job on a node at work.
BooksOf(n) ==
  /\ Pacing(n) => /\ seenFired[n] = fired
                  /\ jobRuns <= fired + count[Job(n)] + faults * Pace
                  /\ Passed(at[Job(n)]) /\ cursor <= at[Job(n)]
  /\ ~Pacing(n) => jobRuns <= fired + faults * Pace
  /\ Passed(cursor)

LEMMA JobFills ==
  ASSUME SInv, NEW n \in Nodes, flag[n] \/ pc[Job(n)] # "idle", OnlyOf(Job(n)), UNCHANGED lapsed,
         fired' <= MaxRuns, PacesWithin(n)', ~lapsed => BooksOf(n)'
  PROVE  Counted' /\ Covered' /\ (\A m \in Nodes : PacesWithin(m))'
<1>1. \A m \in Nodes \ {n} : /\ pc'[Job(m)] = pc[Job(m)] /\ at'[Job(m)] = at[Job(m)]
                             /\ to'[Job(m)] = to[Job(m)] /\ count'[Job(m)] = count[Job(m)]
                             /\ seenFired'[m] = seenFired[m]
  BY FillerKinds DEF OnlyOf
<1>2. (\A m \in Nodes : PacesWithin(m))'
  BY <1>1 DEF SInv, PacesWithin, Pacing
<1>3. ~lapsed => \A m \in Nodes \ {n} : ~Pacing(m)'
  BY <1>1, OnesWork DEF Pacing
<1> QED
  BY <1>2, <1>3 DEF Counted, Covered, BooksOf

\* The books of a node at work, as a step of its job finds them.
LEMMA BooksBefore ==
  ASSUME SInv, NEW n \in Nodes, ~lapsed, flag[n] \/ pc[Job(n)] # "idle"
  PROVE  BooksOf(n)
<1>1. \A m \in Nodes \ {n} : ~Pacing(m)
  BY OnesWork
<1> QED
  BY <1>1 DEF SInv, Counted, Covered, BooksOf

-----------------------------------------------------------------------------
(* The fillers' steps. *)

LEMMA FillerStep ==
  ASSUME SInv, TypeOK', NEW f \in Fillers, OnlyOf(f), Within(f)', Ledgered',
         Counted', Covered', (\A n \in Nodes : PacesWithin(n))',
         UNCHANGED <<now, leaderVars, rowVars, loopVars, edit>>, calls' >= calls, faults' >= faults,
         \A n \in Nodes : f = Job(n) /\ pc'[f] # "idle" => pc[f] # "idle" \/ flag[n]
  PROVE  SInv'
<1> USE DEF leaderVars, loopVars
<1>1. \A n \in Nodes : Working(n)' => Working(n)
  BY FillerKinds DEF Working, OnlyOf
<1>2. Leased'
  BY <1>1, LeaseKept
<1>3. Fired'
  BY FireKept, PaidIs
<1>4. (\A g \in Fillers : Within(g))'
  BY WithinKept
<1> QED
  BY <1>2, <1>3, <1>4 DEF SInv

\* A sweep or a call of the API begins, or has been through its slots.
LEMMA SweepSteps ==
  ASSUME SInv, \/ Backfill
               \/ \E n \in Nodes : Sweep(n)
               \/ \E f \in Fillers : ScanEnds(f)
  PROVE  SInv'
<1> USE DEF leaderVars, rowVars, loopVars, editVars, ledgerVars, jobVars
<1>1. ASSUME NEW f \in Fillers, f[1] # "job", pc[f] # "held",
             NEW stage \in {"idle", "scan"}, NEW past \in Times, NEW upper \in Times,
             Put(f, stage, past, upper, 0), calls' \in 0 .. MaxCalls, calls' >= calls,
             UNCHANGED <<use, now, leaderVars, rowVars, loopVars, edit, editNext, ledgerVars, jobVars, faults>>
      PROVE  SInv'
  <2>1. /\ pc' \in [Fillers -> {"idle", "scan", "held", "record", "complete"}]
        /\ at' \in [Fillers -> Times] /\ to' \in [Fillers -> Times] /\ count' \in [Fillers -> Nat]
        /\ pc'[f] = stage /\ OnlyOf(f)
    BY <1>1, PutIs DEF SInv
  <2>2. TypeOK' /\ faults' >= faults
    BY <1>1, <2>1 DEF SInv, TypeOK
  <2>3. Within(f)' /\ Ledgered'
    BY <1>1, <2>1, <2>2, MovesOn DEF Within
  <2>4. Counted' /\ Covered' /\ (\A n \in Nodes : PacesWithin(n))'
    BY <1>1, <2>1, <2>2, OtherFills
  <2> QED
    BY <1>1, <2>1, <2>2, <2>3, <2>4, FillerStep, FillerKinds
<1>2. calls \in 0 .. MaxCalls /\ 0 \in Times
  BY DEF SInv, TypeOK, Times
<1>3. CASE Backfill
  <2>1. PICK upper \in Slots : Put(Api, "scan", 0, upper, 0)
    BY <1>3 DEF Backfill
  <2>2. upper \in Times
    BY DEF Slots, Times
  <2>3. calls' \in 0 .. MaxCalls /\ calls' >= calls
    BY <1>2, <1>3 DEF Backfill
  <2> QED
    BY <1>1, <1>2, <1>3, <2>1, <2>2, <2>3, FillerKinds DEF Backfill
<1>4. ASSUME NEW n \in Nodes, Sweep(n) PROVE SInv'
  <2> DEFINE lower == IF last > now - Window THEN last ELSE now - Window
  <2>1. /\ lower \in 0 .. now - 1 /\ pc[<<"catchup", n>>] = "idle"
        /\ Put(<<"catchup", n>>, "scan", lower, now, 0)
        /\ UNCHANGED <<use, now, leaderVars, rowVars, loopVars, editVars, ledgerVars, jobVars, faults>>
    BY <1>4 DEF Sweep
  <2> HIDE DEF lower
  <2>2. lower \in Times /\ now \in Times
    BY <2>1 DEF SInv, TypeOK, Times
  <2>3. calls' \in 0 .. MaxCalls /\ calls' >= calls
    BY <1>2, <2>1
  <2> QED
    BY <1>1, <2>1, <2>2, <2>3, FillerKinds
<1>5. ASSUME NEW f \in Fillers, ScanEnds(f) PROVE SInv'
  <2>1. calls' \in 0 .. MaxCalls /\ calls' >= calls
    BY <1>2, <1>5 DEF ScanEnds
  <2> QED
    BY <1>1, <1>2, <1>5, <2>1 DEF ScanEnds, Rested
<1> QED
  BY <1>3, <1>4, <1>5

\* claim_backfill_slot.
LEMMA ClaimSteps ==
  ASSUME SInv, NEW f \in Fillers, ClaimSlot(f)
  PROVE  SInv'
<1> USE DEF leaderVars, rowVars, loopVars, editVars, ledgerVars, jobVars
<1> DEFINE s == at[f] + 1
<1>1. /\ pc[f] = "scan" /\ at[f] < to[f] /\ count[f] < Cap(f) /\ ledger' = ledger \cup {s}
      /\ UNCHANGED <<use, now, leaderVars, rowVars, loopVars, editVars, fills, gaveBack, jobVars, faults>>
  BY DEF ClaimSlot, Scans
<1>2. at[f] \in Times /\ to[f] \in Times /\ count[f] \in Nat /\ s \in Slots /\ s \in Times
  BY <1>1 DEF SInv, TypeOK, Times, Slots
<1>3. PICK stage \in {"scan", "held"}, past \in {at[f], s} :
        /\ Put(f, stage, past, to[f], count[f])
        /\ stage = "scan" => past = s /\ s \in ledger
        /\ stage = "held" => past = at[f] /\ s \notin ledger
  BY DEF ClaimSlot
<1>4. /\ pc' \in [Fillers -> {"idle", "scan", "held", "record", "complete"}]
      /\ at' \in [Fillers -> Times] /\ to' \in [Fillers -> Times] /\ count' \in [Fillers -> Nat]
      /\ pc'[f] = stage /\ at'[f] = past /\ to'[f] = to[f] /\ count'[f] = count[f] /\ OnlyOf(f)
  BY <1>1, <1>2, <1>3, PutIs DEF SInv
<1>5. TypeOK'
  BY <1>1, <1>2, <1>4 DEF SInv, TypeOK
<1>6. calls' >= calls /\ faults' >= faults
  BY <1>1 DEF SInv, TypeOK
<1>7. Ledgered'
  <2>1. CASE stage = "held"
    BY <1>1, <1>2, <1>3, <1>4, <1>5, <2>1, Claims
  <2>2. CASE stage = "scan"
    <3>1. ledger' = ledger
      BY <1>1, <1>3, <2>2
    <3> QED
      BY <1>1, <1>4, <1>5, <1>6, <2>2, <3>1, MovesOn
  <2> QED
    BY <2>1, <2>2
<1>8. Within(f)'
  <2>1. Cap(f)' = Cap(f)
    BY <1>1 DEF Cap
  <2> QED
    BY <1>1, <1>3, <1>4, <2>1 DEF Within
<1>9. Counted' /\ Covered' /\ (\A n \in Nodes : PacesWithin(n))'
  <2>1. CASE f[1] # "job"
    BY <1>1, <1>4, <1>5, <1>6, <2>1, OtherFills
  <2>2. CASE f[1] = "job"
    <3>1. PICK n \in Nodes : f = Job(n)
      BY <2>2, FillerKinds
    <3>2. Pacing(n) /\ Pacing(n)'
      BY <1>1, <1>4, <3>1 DEF Pacing
    <3>3. PacesWithin(n)'
      BY <1>1, <1>4, <3>1, <3>2 DEF SInv, PacesWithin
    <3>4. ~lapsed => BooksOf(n)'
      <4> SUFFICES ASSUME ~lapsed PROVE BooksOf(n)'
        OBVIOUS
      <4>1. BooksOf(n)
        BY <1>1, <3>1, BooksBefore
      <4>2. ASSUME NEW k \in Slots, k <= s PROVE k \in ledger' \/ k \in gaveBack'
        BY <1>1, <1>2, <3>1, <3>2, <4>1, <4>2 DEF BooksOf, Passed, Slots, Times
      <4>3. at[f] <= past /\ past <= s /\ cursor <= at[f] /\ cursor \in Nat /\ past \in Nat
        BY <1>2, <1>3, <3>1, <3>2, <4>1 DEF BooksOf, SInv, TypeOK, Times
      <4>4. Passed(at[f])' /\ Passed(cursor)' /\ cursor' <= at'[f]
        BY <1>1, <1>2, <1>4, <4>2, <4>3 DEF Passed, Slots, Times
      <4> QED
        BY <1>1, <1>4, <3>1, <3>2, <4>1, <4>4 DEF BooksOf
    <3>5. fired' <= MaxRuns
      BY <1>1 DEF SInv, Counted
    <3> QED
      BY <1>1, <1>4, <3>1, <3>3, <3>4, <3>5, JobFills
  <2> QED
    BY <2>1, <2>2
<1> QED
  BY <1>1, <1>4, <1>5, <1>6, <1>7, <1>8, <1>9, FillerStep

\* create_run_triggered and record_backfill_run.
LEMMA FillSteps ==
  ASSUME SInv, NEW f \in Fillers, Fill(f)
  PROVE  SInv'
<1> USE DEF leaderVars, rowVars, loopVars, editVars, ledgerVars
<1> DEFINE s == at[f] + 1
<1>1. /\ pc[f] = "held" /\ fills' = [fills EXCEPT ![s] = @ + 1]
      /\ jobRuns' = IF f[1] = "job" THEN jobRuns + 1 ELSE jobRuns
      /\ Put(f, "scan", s, to[f], count[f] + 1)
      /\ UNCHANGED <<use, now, leaderVars, rowVars, loopVars, editVars, ledger, gaveBack,
                     job, cursor, fired, seenFired, faults>>
  BY DEF Fill
<1>2. at[f] \in Times /\ to[f] \in Times /\ count[f] \in Nat /\ at[f] < to[f] /\ count[f] < Cap(f)
  BY <1>1 DEF SInv, TypeOK, Within
<1>3. s \in Slots /\ s \in Times /\ count[f] + 1 \in Nat /\ s \in ledger
  BY <1>1, <1>2 DEF Slots, Times, SInv, Ledgered, Claimed
<1>4. /\ pc' \in [Fillers -> {"idle", "scan", "held", "record", "complete"}]
      /\ at' \in [Fillers -> Times] /\ to' \in [Fillers -> Times] /\ count' \in [Fillers -> Nat]
      /\ pc'[f] = "scan" /\ at'[f] = s /\ to'[f] = to[f] /\ count'[f] = count[f] + 1 /\ OnlyOf(f)
  BY <1>1, <1>2, <1>3, PutIs DEF SInv
<1>5. TypeOK'
  <2>1. fills' \in [Slots -> Nat] /\ jobRuns' \in Nat
    BY <1>1, <1>3 DEF SInv, TypeOK
  <2> QED
    BY <1>1, <1>4, <2>1 DEF SInv, TypeOK
<1>6. calls' >= calls /\ faults' >= faults
  BY <1>1 DEF SInv, TypeOK
<1>7. Ledgered' /\ Within(f)'
  BY <1>1, <1>4, <1>5, HeldIsSettled DEF Within
<1>8. Counted' /\ Covered' /\ (\A n \in Nodes : PacesWithin(n))'
  <2>1. CASE f[1] # "job"
    BY <1>1, <1>4, <1>5, <1>6, <2>1, OtherFills
  <2>2. CASE f[1] = "job"
    <3>1. PICK n \in Nodes : f = Job(n)
      BY <2>2, FillerKinds
    <3>2. Pacing(n) /\ Pacing(n)'
      BY <1>1, <1>4, <3>1 DEF Pacing
    <3>3. PacesWithin(n)'
      <4>1. Cap(f) <= Pace /\ Cap(f) <= MaxRuns - seenFired[n] /\ Cap(f) \in Int /\ seenFired[n] \in Nat
        BY <3>1, CapType DEF SInv, TypeOK
      <4>2. seenFired[n] < MaxRuns /\ count[f] + 1 <= Pace /\ seenFired[n] + (count[f] + 1) <= MaxRuns
        BY <1>2, <3>1, <3>2, <4>1 DEF SInv, PacesWithin
      <4> QED
        BY <1>1, <1>4, <3>1, <4>2 DEF PacesWithin
    <3>4. ~lapsed => BooksOf(n)'
      <4> SUFFICES ASSUME ~lapsed PROVE BooksOf(n)'
        OBVIOUS
      <4>1. BooksOf(n)
        BY <1>1, <3>1, BooksBefore
      <4>2. ASSUME NEW k \in Slots, k <= s PROVE k \in ledger' \/ k \in gaveBack'
        BY <1>1, <1>2, <1>3, <3>1, <3>2, <4>1, <4>2 DEF BooksOf, Passed, Slots, Times
      <4>3. cursor <= at[f] /\ cursor \in Nat /\ at[f] \in Nat
        BY <1>2, <3>1, <3>2, <4>1 DEF BooksOf, SInv, TypeOK, Times
      <4>4. Passed(at[f])' /\ Passed(cursor)' /\ cursor' <= at'[f]
        BY <1>1, <1>4, <4>2, <4>3 DEF Passed, Slots
      <4> DEFINE P == faults * Pace
      <4>5. P \in Nat /\ jobRuns \in Nat /\ fired \in Nat
        BY MoreFaults DEF SInv, TypeOK
      <4>6. seenFired[n] = fired /\ jobRuns <= fired + count[f] + P
        BY <3>1, <3>2, <4>1 DEF BooksOf
      <4> HIDE DEF P
      <4>7. seenFired'[n] = fired' /\ jobRuns' <= fired' + count'[f] + P
        BY <1>1, <1>2, <1>4, <2>2, <4>5, <4>6
      <4> QED
        BY <1>1, <3>1, <3>2, <4>4, <4>7 DEF BooksOf, P
    <3>5. fired' <= MaxRuns
      BY <1>1 DEF SInv, Counted
    <3> QED
      BY <1>1, <1>4, <3>1, <3>3, <3>4, <3>5, JobFills
  <2> QED
    BY <2>1, <2>2
<1> QED
  BY <1>1, <1>4, <1>5, <1>6, <1>7, <1>8, FillerStep

\* release_backfill_slot, and what becomes of the one that releases it.
LEMMA FillFailsSteps ==
  ASSUME SInv, \/ BackfillFails
               \/ \E n \in Nodes : SweepFillFails(n) \/ JobFillFails(n) \/ JobUnparsable(n)
  PROVE  SInv'
<1> USE DEF leaderVars, rowVars, loopVars, editVars, jobVars
<1>1. ASSUME NEW f \in Fillers, NEW again \in BOOLEAN, GiveBack(f, again),
             NEW stage \in {"idle", "scan", "record"}, NEW past \in Times, NEW upper \in Times,
             NEW made \in Nat, Put(f, stage, past, upper, made), f[1] # "job" => stage # "record",
             TypeOK' => Counted' /\ Covered' /\ (\A m \in Nodes : PacesWithin(m))'
      PROVE  SInv'
  <2>1. /\ pc' \in [Fillers -> {"idle", "scan", "held", "record", "complete"}]
        /\ at' \in [Fillers -> Times] /\ to' \in [Fillers -> Times] /\ count' \in [Fillers -> Nat]
        /\ pc'[f] = stage /\ OnlyOf(f)
    BY <1>1, PutIs DEF SInv, GiveBack
  <2>2. /\ pc[f] = "held" /\ ledger' = ledger \ {at[f] + 1} /\ gaveBack' \subseteq gaveBack \cup {at[f] + 1}
        /\ UNCHANGED <<use, now, leaderVars, rowVars, loopVars, editVars, fills, jobVars, faults>>
    BY <1>1 DEF GiveBack
  <2>3. at[f] + 1 \in Slots
    BY <2>2 DEF SInv, Ledgered, Claimed, TypeOK
  <2>4. TypeOK' /\ faults' >= faults /\ calls' >= calls
    BY <2>1, <2>2, <2>3 DEF SInv, TypeOK
  <2>5. Ledgered' /\ Within(f)'
    BY <1>1, <2>1, <2>2, <2>4, HeldIsSettled DEF Within
  <2> QED
    BY <1>1, <2>1, <2>2, <2>4, <2>5, FillerStep
<1>2. ASSUME NEW f \in Fillers, pc[f] = "held"
      PROVE  /\ at[f] \in Times /\ at[f] + 1 \in Times /\ to[f] \in Times /\ count[f] \in Nat
             /\ count[f] + 1 \in Nat /\ 0 \in Times /\ 0 \in Nat /\ at[f] < to[f] /\ at[f] + 1 \in Slots
  BY <1>2 DEF SInv, TypeOK, Times, Within, Slots
\* Of a sweep and of the API, the slot is given back for others.
<1>3. ASSUME NEW f \in Fillers, f[1] # "job", GiveBack(f, FALSE), TypeOK',
             NEW stage \in {"idle", "scan"}, NEW past \in Times, NEW upper \in Times,
             NEW made \in Nat, Put(f, stage, past, upper, made)
      PROVE  Counted' /\ Covered' /\ (\A m \in Nodes : PacesWithin(m))'
  <2>1. OnlyOf(f)
    BY <1>3, PutIs DEF SInv, GiveBack
  <2>2. faults' >= faults
    BY <1>3 DEF GiveBack, SInv, TypeOK
  <2>3. ledger \cup gaveBack \subseteq ledger' \cup gaveBack'
    BY <1>3 DEF GiveBack
  <2> QED
    BY <1>3, <2>1, <2>2, <2>3, OtherFills DEF GiveBack
<1>4. CASE BackfillFails
  <2>1. GiveBack(Api, FALSE) /\ Put(Api, "idle", 0, 0, 0) /\ pc[Api] = "held"
    BY <1>4 DEF BackfillFails, Rested, GiveBack
  <2> QED
    BY <1>1, <1>2, <1>3, <2>1, FillerKinds
<1>5. ASSUME NEW n \in Nodes, SweepFillFails(n) PROVE SInv'
  <2> DEFINE f == <<"catchup", n>>
  <2>1. /\ GiveBack(f, FALSE) /\ pc[f] = "held"
        /\ Put(f, "scan", at[f] + 1, to[f], count[f] + 1) \/ Put(f, "idle", 0, 0, 0)
    BY <1>5 DEF SweepFillFails, Rested, GiveBack
  <2>2. f \in Fillers /\ f[1] # "job"
    BY FillerKinds
  <2> HIDE DEF f
  <2> QED
    BY <1>1, <1>2, <1>3, <2>1, <2>2
\* Of the job, which keeps its place or ends behind the slot.
<1>6. ASSUME NEW n \in Nodes, NEW again \in BOOLEAN, GiveBack(Job(n), again),
             NEW past \in Times, NEW upper \in Times,
             Put(Job(n), "record", past, upper, count[Job(n)]),
             IF again THEN past = at[Job(n)] ELSE past = at[Job(n)] + 1
      PROVE  Counted' /\ Covered' /\ (\A m \in Nodes : PacesWithin(m))'
  <2> DEFINE f == Job(n)
  <2>1. f \in Fillers /\ pc[f] = "held"
    BY <1>6, FillerKinds DEF GiveBack
  <2>2. /\ ledger' = ledger \ {at[f] + 1}
        /\ gaveBack' = IF again THEN gaveBack ELSE gaveBack \cup {at[f] + 1}
        /\ UNCHANGED <<lapsed, cursor, fired, seenFired, jobRuns, faults>>
    BY <1>6 DEF GiveBack
  <2>3. count[f] \in Nat
    BY <1>2, <2>1
  <2>4. pc'[f] = "record" /\ at'[f] = past /\ to'[f] = upper /\ count'[f] = count[f] /\ OnlyOf(f)
    BY <1>6, <2>1, <2>2, <2>3, PutIs DEF SInv
  <2>5. Pacing(n) /\ Pacing(n)'
    BY <2>1, <2>4 DEF Pacing
  <2>6. PacesWithin(n)'
    BY <1>6, <2>2, <2>4, <2>5 DEF SInv, PacesWithin
  <2>7. ~lapsed => BooksOf(n)'
    <3> SUFFICES ASSUME ~lapsed PROVE BooksOf(n)'
      OBVIOUS
    <3>1. BooksOf(n)
      BY <2>1, BooksBefore
    <3>2. at[f] \in Nat /\ past \in Nat /\ cursor \in Nat /\ cursor <= at[f] /\ at[f] <= past
      BY <1>2, <1>6, <2>1, <2>5, <3>1 DEF BooksOf, SInv, TypeOK, Times
    <3>3. ASSUME NEW k \in Slots, k <= past PROVE k \in ledger' \/ k \in gaveBack'
      <4>1. k <= at[f] => k # at[f] + 1 /\ (k \in ledger \/ k \in gaveBack)
        BY <2>5, <3>1, <3>2 DEF BooksOf, Passed, Slots
      <4>2. ~(k <= at[f]) => ~again /\ k = at[f] + 1
        BY <1>6, <3>2, <3>3 DEF Slots
      <4> QED
        BY <2>2, <4>1, <4>2
    <3>4. Passed(at[f])' /\ Passed(cursor)' /\ cursor' <= at'[f]
      BY <2>2, <2>4, <3>2, <3>3 DEF Passed, Slots
    <3> QED
      BY <2>2, <2>4, <2>5, <3>1, <3>4 DEF BooksOf
  <2>8. fired' <= MaxRuns
    BY <2>2 DEF SInv, Counted
  <2> QED
    BY <2>1, <2>2, <2>4, <2>6, <2>7, <2>8, JobFills
<1>7. ASSUME NEW n \in Nodes, JobFillFails(n) PROVE SInv'
  <2> DEFINE f == Job(n)
  <2>1. GiveBack(f, TRUE) /\ pc[f] = "held" /\ Put(f, "record", at[f], to[f], count[f])
    BY <1>7 DEF JobFillFails, GiveBack, Job
  <2>2. f \in Fillers /\ f[1] = "job"
    BY FillerKinds
  <2>3. at[f] \in Times /\ to[f] \in Times /\ count[f] \in Nat
    BY <1>2, <2>1, <2>2
  <2>4. Counted' /\ Covered' /\ (\A m \in Nodes : PacesWithin(m))'
    BY <1>6, <2>1, <2>3
  <2> QED
    BY <1>1, <2>1, <2>2, <2>3, <2>4
<1>8. ASSUME NEW n \in Nodes, JobUnparsable(n) PROVE SInv'
  <2> DEFINE f == Job(n)
  <2>1. GiveBack(f, FALSE) /\ pc[f] = "held" /\ Put(f, "record", at[f] + 1, at[f] + 1, count[f])
    BY <1>8 DEF JobUnparsable, GiveBack, Job
  <2>2. f \in Fillers /\ f[1] = "job"
    BY FillerKinds
  <2>3. at[f] + 1 \in Times /\ count[f] \in Nat
    BY <1>2, <2>1, <2>2
  <2>4. Counted' /\ Covered' /\ (\A m \in Nodes : PacesWithin(m))'
    BY <1>6, <2>1, <2>3
  <2> QED
    BY <1>1, <2>1, <2>2, <2>3, <2>4
<1> QED
  BY <1>4, <1>5, <1>7, <1>8

\* A tick of the job begins, is counted, and ends the job.
LEMMA JobSteps ==
  ASSUME SInv, NEW n \in Nodes, PaceOne(n) \/ AdvanceBackfill(n) \/ CompleteBackfill(n)
  PROVE  SInv'
<1> USE DEF leaderVars, rowVars, loopVars, editVars, ledgerVars
<1> DEFINE f == Job(n)
<1>1. f \in Fillers /\ f[1] = "job" /\ \A m \in Nodes : m # n => Job(m) # f
  BY FillerKinds
<1>2. 0 \in Times /\ 0 \in Nat /\ cursor \in Times /\ JobTo \in Times /\ fired \in Nat /\ jobRuns \in Nat
  BY DEF SInv, TypeOK, Times
<1>3. at[f] \in Times /\ to[f] \in Times /\ count[f] \in Nat /\ seenFired[n] \in Nat
  BY <1>1 DEF SInv, TypeOK
<1>4. CASE PaceOne(n)
  <2>1. /\ flag[n] /\ pc[f] = "idle" /\ fired < MaxRuns /\ Put(f, "scan", cursor, JobTo, 0)
        /\ seenFired' = [seenFired EXCEPT ![n] = fired]
        /\ UNCHANGED <<use, now, leaderVars, rowVars, loopVars, editVars, ledgerVars,
                       job, cursor, fired, jobRuns, faults>>
    BY <1>4 DEF PaceOne, Job
  <2>2. seenFired' \in [Nodes -> Nat] /\ seenFired'[n] = fired
        /\ \A m \in Nodes : Job(m) # f => seenFired'[m] = seenFired[m]
    BY <1>1, <1>2, <2>1 DEF SInv, TypeOK
  <2>3. /\ pc' \in [Fillers -> {"idle", "scan", "held", "record", "complete"}]
        /\ at' \in [Fillers -> Times] /\ to' \in [Fillers -> Times] /\ count' \in [Fillers -> Nat]
        /\ pc'[f] = "scan" /\ at'[f] = cursor /\ to'[f] = JobTo /\ count'[f] = 0 /\ OnlyOf(f)
    BY <1>1, <1>2, <2>1, <2>2, PutIs DEF SInv
  <2>4. TypeOK' /\ calls' >= calls /\ faults' >= faults
    BY <2>1, <2>2, <2>3 DEF SInv, TypeOK
  <2>5. Ledgered' /\ Within(f)'
    BY <1>1, <2>1, <2>3, <2>4, MovesOn DEF Within
  <2>6. ~Pacing(n) /\ Pacing(n)'
    BY <2>1, <2>3 DEF Pacing
  <2>7. PacesWithin(n)'
    BY <1>2, <2>1, <2>2, <2>3 DEF PacesWithin, SInv
  <2>8. ~lapsed => BooksOf(n)'
    BY <1>2, <2>1, <2>2, <2>3, <2>6, BooksBefore, MoreFaults DEF BooksOf, Passed, SInv, TypeOK, Times
  <2>9. Counted' /\ Covered' /\ (\A m \in Nodes : PacesWithin(m))'
    BY <1>2, <2>1, <2>3, <2>7, <2>8, JobFills
  <2> QED
    BY <1>1, <2>1, <2>3, <2>4, <2>5, <2>9, FillerStep
<1>5. CASE AdvanceBackfill(n)
  <2> DEFINE total == seenFired[n] + count[f]
  <2>1. /\ pc[f] = "record" \/ pc[f] = "scan"
        /\ cursor' = at[f] /\ fired' = total
        /\ Put(f, "complete", 0, 0, 0) \/ Put(f, "idle", 0, 0, 0)
        /\ UNCHANGED <<use, now, leaderVars, rowVars, loopVars, editVars, ledgerVars,
                       job, seenFired, jobRuns, faults>>
    BY <1>5 DEF AdvanceBackfill, Advanced, Rested, Job
  <2>2. PICK stage \in {"complete", "idle"} : Put(f, stage, 0, 0, 0)
    BY <2>1
  <2>3. /\ pc' \in [Fillers -> {"idle", "scan", "held", "record", "complete"}]
        /\ at' \in [Fillers -> Times] /\ to' \in [Fillers -> Times] /\ count' \in [Fillers -> Nat]
        /\ pc'[f] = stage /\ OnlyOf(f)
    BY <1>1, <1>2, <2>1, <2>2, PutIs DEF SInv
  <2>4. fired' \in Nat /\ cursor' \in Times
    BY <1>3, <2>1
  <2>5. TypeOK' /\ calls' >= calls /\ faults' >= faults
    BY <2>1, <2>3, <2>4 DEF SInv, TypeOK
  <2>6. Ledgered' /\ Within(f)'
    BY <1>1, <2>1, <2>3, <2>5, MovesOn DEF Within
  <2>7. Pacing(n) /\ ~Pacing(n)' /\ PacesWithin(n)'
    BY <2>1, <2>3 DEF Pacing, PacesWithin
  <2>8. fired' <= MaxRuns
    BY <1>3, <2>1, <2>7 DEF SInv, PacesWithin
  <2>9. ~lapsed => BooksOf(n)'
    <3> SUFFICES ASSUME ~lapsed PROVE BooksOf(n)'
      OBVIOUS
    <3>1. BooksOf(n)
      BY <2>1, BooksBefore
    <3>2. seenFired[n] = fired /\ jobRuns <= fired + count[f] + faults * Pace /\ Passed(at[f])
      BY <2>7, <3>1 DEF BooksOf
    <3> QED
      BY <2>1, <2>7, <3>2 DEF BooksOf, Passed
  <2>10. Counted' /\ Covered' /\ (\A m \in Nodes : PacesWithin(m))'
    BY <2>1, <2>3, <2>7, <2>8, <2>9, JobFills
  <2> QED
    BY <1>1, <2>1, <2>3, <2>5, <2>6, <2>10, FillerStep
<1>6. CASE CompleteBackfill(n)
  <2>1. /\ pc[f] = "complete" \/ (pc[f] = "idle" /\ flag[n])
        /\ job' \in {job, "completed"} /\ Put(f, "idle", 0, 0, 0)
        /\ UNCHANGED <<use, now, leaderVars, rowVars, loopVars, editVars, ledgerVars,
                       cursor, fired, seenFired, jobRuns, faults>>
    BY <1>6 DEF CompleteBackfill, Rested, Job
  <2>2. /\ pc' \in [Fillers -> {"idle", "scan", "held", "record", "complete"}]
        /\ at' \in [Fillers -> Times] /\ to' \in [Fillers -> Times] /\ count' \in [Fillers -> Nat]
        /\ pc'[f] = "idle" /\ OnlyOf(f)
    BY <1>1, <1>2, <2>1, PutIs DEF SInv
  <2>3. TypeOK' /\ calls' >= calls /\ faults' >= faults
    BY <2>1, <2>2 DEF SInv, TypeOK
  <2>4. Ledgered' /\ Within(f)'
    BY <1>1, <2>1, <2>2, <2>3, MovesOn DEF Within
  <2>5. ~Pacing(n) /\ ~Pacing(n)' /\ PacesWithin(n)'
    BY <2>1, <2>2 DEF Pacing, PacesWithin
  <2>6. fired' <= MaxRuns
    BY <2>1 DEF SInv, Counted
  <2>7. ~lapsed => BooksOf(n)'
    BY <2>1, <2>5, BooksBefore DEF BooksOf, Passed
  <2>8. Counted' /\ Covered' /\ (\A m \in Nodes : PacesWithin(m))'
    BY <2>1, <2>2, <2>5, <2>6, <2>7, JobFills
  <2> QED
    BY <1>1, <2>1, <2>2, <2>3, <2>4, <2>8, FillerStep
<1> QED
  BY <1>4, <1>5, <1>6

\* What a tick has made and not counted is the runs of one fault.
LEMMA UncountedIsLost ==
  ASSUME SInv, TypeOK', NEW n \in Nodes, ~lapsed, flag[n] \/ pc[Job(n)] # "idle",
         UNCHANGED <<ledger, gaveBack, cursor, fired, jobRuns>>, ~Pacing(n)', faults' = faults + 1
  PROVE  BooksOf(n)'
<1>1. BooksOf(n)
  BY BooksBefore
<1>2. count[Job(n)] \in Nat /\ fired \in Nat /\ jobRuns \in Nat /\ faults \in Nat
  BY FillerKinds DEF SInv, TypeOK
<1> DEFINE P == faults * Pace
           Q == faults' * Pace
<1>3. P \in Nat /\ Q = P + Pace
  BY <1>2, MoreFaults
<1>4. Pacing(n) => jobRuns <= fired + count[Job(n)] + P /\ count[Job(n)] <= Pace
  BY <1>1 DEF BooksOf, SInv, PacesWithin
<1>5. ~Pacing(n) => jobRuns <= fired + P
  BY <1>1 DEF BooksOf
<1> HIDE DEF P, Q
<1>6. jobRuns <= fired + Q
  BY <1>2, <1>3, <1>4, <1>5
<1> QED
  BY <1>1, <1>6 DEF BooksOf, Passed, Q

\* A statement of a filler fails.
LEMMA AbandonSteps ==
  ASSUME SInv, NEW f \in Fillers, Abandon(f)
  PROVE  SInv'
<1> USE DEF leaderVars, rowVars, loopVars, editVars, ledgerVars, jobVars
<1>1. /\ pc[f] # "idle" /\ faults < MaxFaults /\ faults' = faults + 1 /\ Put(f, "idle", 0, 0, 0)
      /\ UNCHANGED <<use, now, leaderVars, rowVars, loopVars, editVars, ledgerVars, jobVars>>
  BY DEF Abandon, Fault, Rested
<1>2. /\ pc' \in [Fillers -> {"idle", "scan", "held", "record", "complete"}]
      /\ at' \in [Fillers -> Times] /\ to' \in [Fillers -> Times] /\ count' \in [Fillers -> Nat]
      /\ pc'[f] = "idle" /\ OnlyOf(f)
  <2>1. 0 \in Times /\ 0 \in Nat
    BY DEF Times
  <2> QED
    BY <1>1, <2>1, PutIs DEF SInv
<1>3. TypeOK' /\ calls' >= calls /\ faults' >= faults
  BY <1>1, <1>2 DEF SInv, TypeOK
<1>4. Ledgered' /\ Within(f)'
  <2>1. \A h \in Fillers : (pc'[h] = pc[h] /\ at'[h] = at[h]) \/ (h \in {f} /\ pc'[h] # "held")
    BY <1>2 DEF OnlyOf
  <2> QED
    BY <1>1, <1>2, <1>3, <2>1, HeldIsLost DEF Within
<1>5. Counted' /\ Covered' /\ (\A n \in Nodes : PacesWithin(n))'
  <2>1. CASE f[1] # "job"
    BY <1>1, <1>2, <1>3, <2>1, OtherFills
  <2>2. CASE f[1] = "job"
    <3>1. PICK n \in Nodes : f = Job(n)
      BY <2>2, FillerKinds
    <3>2. ~Pacing(n)' /\ PacesWithin(n)'
      BY <1>2, <3>1 DEF Pacing, PacesWithin
    <3>3. ~lapsed => BooksOf(n)'
      BY <1>1, <1>3, <3>1, <3>2, UncountedIsLost
    <3>4. fired' <= MaxRuns
      BY <1>1 DEF SInv, Counted
    <3> QED
      BY <1>1, <1>2, <3>1, <3>2, <3>3, <3>4, JobFills
  <2> QED
    BY <2>1, <2>2
<1> QED
  BY <1>1, <1>2, <1>3, <1>4, <1>5, FillerStep

\* A node dies: its loop, its sweep and its job with it.
LEMMA CrashSteps ==
  ASSUME SInv, NEW n \in Nodes, Crash(n)
  PROVE  SInv'
<1> USE DEF leaderVars, rowVars, loopVars, editVars, ledgerVars, jobVars
<1> DEFINE f == Job(n)
           g == <<"catchup", n>>
<1>1. /\ f \in Fillers /\ g \in Fillers /\ f[2] = n /\ g[2] = n
      /\ \A h \in Fillers : h[2] = n => h = f \/ h = g
      /\ \A m \in Nodes : Job(m)[2] = m /\ Job(m) \in Fillers
  BY FillerKinds
<1>2. /\ flag[n] \/ loop[n] # "idle" \/ \E h \in Fillers : h[2] = n /\ pc[h] # "idle"
      /\ faults < MaxFaults /\ faults' = faults + 1
      /\ holder' = IF holder = n THEN None ELSE holder
      /\ UNCHANGED <<use, now, live, lapsed, rowVars, fires, editVars, ledger, fills, gaveBack,
                     job, cursor, fired, jobRuns>>
  BY DEF Crash, Fault
<1>3. /\ flag' = [flag EXCEPT ![n] = FALSE] /\ loop' = [loop EXCEPT ![n] = "idle"]
      /\ due' = [due EXCEPT ![n] = 0] /\ tick' = [tick EXCEPT ![n] = 0]
      /\ seenFired' = [seenFired EXCEPT ![n] = 0]
  BY DEF Crash
<1>4. \A h \in Fillers :
        IF h[2] = n THEN pc'[h] = "idle" /\ at'[h] = 0 /\ to'[h] = 0 /\ count'[h] = 0
                    ELSE pc'[h] = pc[h] /\ at'[h] = at[h] /\ to'[h] = to[h] /\ count'[h] = count[h]
  BY DEF Crash
<1>5. /\ pc' \in [Fillers -> {"idle", "scan", "held", "record", "complete"}]
      /\ at' \in [Fillers -> Times] /\ to' \in [Fillers -> Times] /\ count' \in [Fillers -> Nat]
  BY DEF Crash, SInv, TypeOK, Times
<1>6. /\ flag' \in [Nodes -> BOOLEAN] /\ loop' \in [Nodes -> {"idle", "due", "fired", "gated"}]
      /\ due' \in [Nodes -> Times] /\ tick' \in [Nodes -> Times] /\ seenFired' \in [Nodes -> Nat]
  BY <1>3 DEF SInv, TypeOK, Times
<1>7. TypeOK' /\ faults \in Nat
  BY <1>2, <1>5, <1>6 DEF SInv, TypeOK
<1>8. (\A h \in Fillers : Within(h))'
  <2>1. ASSUME NEW h \in Fillers, h[2] # n PROVE Cap(h)' = Cap(h)
    <3>1. ASSUME NEW m \in Nodes, h = Job(m) PROVE seenFired'[h[2]] = seenFired[h[2]]
      BY <1>1, <1>3, <2>1, <3>1 DEF SInv, TypeOK
    <3>2. h[1] = "job" => \E m \in Nodes : h = Job(m)
      BY FillerKinds
    <3> QED
      BY <3>1, <3>2 DEF Cap
  <2> QED
    BY <1>4, <2>1 DEF SInv, Within
<1>9. (\A m \in Nodes : PacesWithin(m))'
  BY <1>1, <1>3, <1>4 DEF SInv, TypeOK, PacesWithin, Pacing
<1>10. Ledgered'
  <2>1. \A h \in Fillers : (pc'[h] = pc[h] /\ at'[h] = at[h]) \/ (h \in {f, g} /\ pc'[h] # "held")
    BY <1>1, <1>4
  <2>2. UNCHANGED <<ledger, fills>>
    BY <1>2
  <2> HIDE DEF f, g
  <2> QED
    BY <1>1, <1>2, <1>7, <2>1, <2>2, HeldIsLost
<1>11. Leased'
  BY <1>1, <1>2, <1>3, <1>4 DEF SInv, TypeOK, Leased, Working
<1>12. Fired'
  <2>1. \A m \in Nodes : loop'[m] # "idle" => /\ m # n /\ loop[m] # "idle" /\ loop'[m] = loop[m]
                                              /\ due'[m] = due[m] /\ tick'[m] = tick[m]
    BY <1>3 DEF SInv, TypeOK
  <2>2. Paid' = Paid + 1
    BY <1>2, PaidIs DEF Paid
  <2>3. ASSUME ~lapsed, NEW k \in Slots PROVE fires[k] <= Paid' /\ fires[k] <= 1 + Paid'
    <3>1. fires[k] <= 1 + Paid
      BY <2>3 DEF SInv, Fired
    <3> QED
      BY <2>2, <3>1, PaidIs
  <2> QED
    BY <1>2, <2>1, <2>3 DEF SInv, Fired
<1>13. Counted' /\ Covered'
  <2>1. \A m \in Nodes : Pacing(m)' => m # n /\ Pacing(m)
    BY <1>1, <1>4 DEF Pacing
  <2>2. CASE lapsed
    BY <1>2, <2>2 DEF SInv, Counted, Covered
  <2>3. CASE ~lapsed /\ (flag[n] \/ pc[f] # "idle")
    <3>1. \A m \in Nodes : ~Pacing(m)'
      BY <2>1, <2>3, OnesWork
    <3>2. BooksOf(n)'
      BY <1>2, <1>7, <2>3, <3>1, UncountedIsLost
    <3> QED
      BY <1>2, <3>1, <3>2 DEF SInv, Counted, Covered, BooksOf
  <2>4. CASE ~lapsed /\ pc[f] = "idle"
    <3>1. \A m \in Nodes : Pacing(m)' <=> Pacing(m)
      BY <1>1, <1>4, <2>4 DEF Pacing
    <3>2. \A m \in Nodes : Pacing(m) => /\ seenFired'[m] = seenFired[m] /\ count'[Job(m)] = count[Job(m)]
                                        /\ at'[Job(m)] = at[Job(m)] /\ count[Job(m)] \in Nat
      BY <1>1, <1>3, <1>4, <2>1, <3>1 DEF SInv, TypeOK
    <3>3. Covered'
      BY <1>2, <3>1, <3>2 DEF SInv, Covered, Passed
    <3> DEFINE P == faults * Pace
               Q == faults' * Pace
    <3>4. P \in Nat /\ Q \in Nat /\ P <= Q
      BY <1>2, <1>7, MoreFaults
    <3>5. /\ fired <= MaxRuns
          /\ \A m \in Nodes : Pacing(m) => seenFired[m] = fired /\ jobRuns <= fired + count[Job(m)] + P
          /\ (\A m \in Nodes : ~Pacing(m)) => jobRuns <= fired + P
      BY <2>4 DEF SInv, Counted
    <3>6. fired \in Nat /\ jobRuns \in Nat
      BY DEF SInv, TypeOK
    <3> HIDE DEF P, Q
    <3>7. /\ \A m \in Nodes : Pacing(m) => seenFired[m] = fired /\ jobRuns <= fired + count[Job(m)] + Q
          /\ (\A m \in Nodes : ~Pacing(m)) => jobRuns <= fired + Q
      BY <3>2, <3>4, <3>5, <3>6
    <3>8. Counted'
      BY <1>2, <3>1, <3>2, <3>5, <3>7 DEF Counted, Q
    <3> QED
      BY <3>3, <3>8
  <2> QED
    BY <2>2, <2>3, <2>4
<1> QED
  BY <1>7, <1>8, <1>9, <1>10, <1>11, <1>12, <1>13 DEF SInv

-----------------------------------------------------------------------------
(* The theorems. *)

LEMMA SStep ==
  ASSUME SInv, Next
  PROVE  SInv'
<1>1. CASE Tick \/ Lapse \/ CancelJob
  BY <1>1, LeaseSteps
<1>2. CASE Edit
  BY <1>2, EditSteps
<1>3. CASE Backfill
  BY <1>3, SweepSteps
<1>4. CASE BackfillFails
  BY <1>4, FillFailsSteps
<1>5. ASSUME NEW n \in Nodes, Lead(n) PROVE SInv'
  BY <1>5, LeaseSteps, CrashSteps DEF Lead
<1>6. ASSUME NEW n \in Nodes, FireStep(n) \/ AdvanceFails(n) PROVE SInv'
  BY <1>6, FireSteps
<1>7. ASSUME NEW f \in Fillers, FillStep(f) PROVE SInv'
  BY <1>7, ClaimSteps, FillSteps, SweepSteps DEF FillStep
<1>8. ASSUME NEW n \in Nodes, Sweep(n) PROVE SInv'
  BY <1>8, SweepSteps
<1>9. ASSUME NEW n \in Nodes, SweepFillFails(n) \/ JobFillFails(n) \/ JobUnparsable(n) PROVE SInv'
  BY <1>9, FillFailsSteps
<1>10. ASSUME NEW n \in Nodes, JobStep(n) PROVE SInv'
  BY <1>7, <1>10, JobSteps, FillerKinds DEF JobStep, Job
<1>11. ASSUME NEW f \in Fillers, Abandon(f) PROVE SInv'
  BY <1>11, AbandonSteps
<1> QED
  BY <1>1, <1>2, <1>3, <1>4, <1>5, <1>6, <1>7, <1>8, <1>9, <1>10, <1>11 DEF Next

\* The ledger, the lease and the books of the loop and of the job are kept in
\* every reachable state.
THEOREM SchedulesInvariance == Spec => []SInv
<1>1. Init => SInv
  BY SStarts
<1>2. SInv /\ UNCHANGED vars => SInv'
  <2> SUFFICES ASSUME SInv, UNCHANGED vars PROVE SInv'
    OBVIOUS
  <2> USE DEF vars, leaderVars, rowVars, loopVars, editVars, fillVars, ledgerVars, jobVars
  <2>1. TypeOK'
    BY DEF SInv, TypeOK
  <2>2. faults' >= faults /\ calls' >= calls /\ now' >= now
    BY PaidIs
  <2>3. Leased'
    BY LeaseKept DEF Working
  <2> QED
    BY <2>1, <2>2, <2>3, FillKept, FireKept, JobKept DEF SInv
<1> QED
  BY <1>1, <1>2, SStep, PTL DEF Spec

\* Sweeps, job and API make one run of a slot between them, whoever leads and
\* whatever fails: claim_backfill_slot is what decides.
THEOREM SlotIsFilledOnce == Spec => []FilledOnce
<1>1. SInv => FilledOnce
  BY DEF SInv, Ledgered, Filled, FilledOnce
<1> QED
  BY <1>1, SchedulesInvariance, PTL

\* With nodes that lead one at a time, a slot is fired once, once more at most for
\* each crash or failed advance_schedule, and once more at most for each call of
\* the API, an edit that puts back the next_fire_at it read among them.
THEOREM SlotIsFiredForCause == Spec => []FiredAgainForCause
<1>1. SInv => FiredAgainForCause
  <2> SUFFICES ASSUME SInv, ~lapsed, NEW k \in Slots PROVE fires[k] <= 1 + faults + calls
    BY DEF FiredAgainForCause
  <2>1. fires[k] <= 1 + Paid /\ Paid <= faults + calls
    BY PaidIs DEF SInv, Fired, Paid
  <2> QED
    BY <2>1, PaidIs
<1> QED
  BY <1>1, SchedulesInvariance, PTL

\* A job paced by one node at a time keeps to max_runs, but for the ticks that
\* did not come to be counted.
THEOREM JobKeepsToItsCap == Spec => []JobWithinCap
<1>1. SInv => JobWithinCap
  <2> SUFFICES ASSUME SInv, ~lapsed PROVE jobRuns <= MaxRuns + faults * Pace
    BY DEF JobWithinCap
  <2> DEFINE P == faults * Pace
  <2>1. P \in Nat /\ jobRuns \in Nat /\ fired \in Nat /\ \A n \in Nodes : count[Job(n)] \in Nat
    BY MoreFaults, FillerKinds DEF SInv, TypeOK
  <2>2. /\ fired <= MaxRuns
        /\ \A n \in Nodes : Pacing(n) => /\ seenFired[n] = fired /\ jobRuns <= fired + count[Job(n)] + P
                                         /\ seenFired[n] + count[Job(n)] <= MaxRuns
        /\ (\A n \in Nodes : ~Pacing(n)) => jobRuns <= fired + P
    BY DEF SInv, Counted, PacesWithin
  <2> HIDE DEF P
  <2>3. jobRuns <= MaxRuns + P
    BY <2>1, <2>2
  <2> QED
    BY <2>3 DEF P
<1> QED
  BY <1>1, SchedulesInvariance, PTL

\* Such a job leaves no slot behind its cursor without a run, but for those held,
\* given back, or claimed by a sweep or a job that died before the run.
THEOREM JobCoversItsRange == Spec => []JobLeavesNoGap
<1>1. SInv => JobLeavesNoGap
  <2> DEFINE Gap == {k \in (1 .. cursor) \ gaveBack : fills[k] = 0 /\ \A f \in Fillers : ~Holds(f, k)}
  <2> SUFFICES ASSUME SInv, ~lapsed PROVE Cardinality(Gap) <= 2 * faults
    BY DEF JobLeavesNoGap
  <2>1. Gap \subseteq Orphans
    <3> SUFFICES ASSUME NEW k \in Gap PROVE k \in Orphans
      OBVIOUS
    <3>1. k \in Slots /\ k <= cursor
      BY DEF SInv, TypeOK, Times, Slots
    <3> QED
      BY <3>1 DEF SInv, Covered, Passed, Orphans
  <2> HIDE DEF Gap
  <2>2. Cardinality(Gap) \in Nat /\ Cardinality(Gap) <= Cardinality(Orphans)
    BY <2>1, OrphansFinite, FS_Subset, FS_CardinalityType DEF SInv
  <2> QED
    BY <2>2, OrphansFinite DEF SInv, Ledgered, TypeOK
<1> QED
  BY <1>1, SchedulesInvariance, PTL
=============================================================================
