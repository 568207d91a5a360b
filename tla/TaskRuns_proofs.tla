--------------------------- MODULE TaskRuns_proofs ---------------------------
(***************************************************************************)
(* Proofs about TaskRuns, and about RunAgain and Gangs on top of it, for   *)
(* any number of engines, any dependency graph, any gang and any bound on  *)
(* the faults and the reruns.                                              *)
(***************************************************************************)
EXTENDS MCRunAgain, FiniteSetTheorems, TLAPS

(* Counting off *)

\* The tasks that `over` names become terminal, and no other: counted off, the
\* counters are what is left to wait for, and none falls below zero.
LEMMA CountedDown ==
  ASSUME CounterExact, NEW st \in [Tasks -> Statuses], NEW over \in SUBSET Tasks,
         \A t \in over : ~Over(status, t) /\ Over(st, t),
         \A t \in Tasks \ over : Over(st, t) <=> Over(status, t),
         \A t \in Tasks : st[t] = "pending" => status[t] = "pending",
         NEW u \in Tasks, st[u] = "pending"
  PROVE  /\ remaining[u] - Cardinality(Deps[u] \cap over) \in Nat
         /\ remaining[u] - Cardinality(Deps[u] \cap over)
              = Cardinality({d \in Deps[u] : ~Over(st, d)})
<1> DEFINE before == {d \in Deps[u] : ~Over(status, d)}
           after == {d \in Deps[u] : ~Over(st, d)}
<1>1. Deps[u] \subseteq Tasks
  BY DagAssumption
<1>2. IsFiniteSet(before) /\ IsFiniteSet(after)
  BY <1>1, DagAssumption, FS_Subset
<1>3. remaining[u] = Cardinality(before)
  BY DEF CounterExact
<1>4. after = before \ over /\ before \cap over = Deps[u] \cap over
  BY <1>1
<1>5. Cardinality(after) = Cardinality(before) - Cardinality(before \cap over)
  BY <1>2, <1>4, FS_Difference
<1>6. Cardinality(after) \in Nat
  BY <1>2, FS_CardinalityType
<1> QED
  BY <1>3, <1>4, <1>5, <1>6

LEMMA CountedOff ==
  ASSUME TypeOK, CounterExact,
         NEW st \in [Tasks -> Statuses], NEW over \in SUBSET Tasks,
         \A t \in over : ~Over(status, t) /\ Over(st, t),
         \A t \in Tasks \ over : Over(st, t) <=> Over(status, t),
         \A t \in Tasks : st[t] = "pending" => status[t] = "pending"
  PROVE  /\ Decremented(st, over) \in [Tasks -> Nat]
         /\ \A u \in Tasks : st[u] = "pending" =>
              Decremented(st, over)[u] = Cardinality({d \in Deps[u] : ~Over(st, d)})
<1>1. \A u \in Tasks : st[u] = "pending" =>
        /\ remaining[u] - Cardinality(Deps[u] \cap over) \in Nat
        /\ remaining[u] - Cardinality(Deps[u] \cap over)
             = Cardinality({d \in Deps[u] : ~Over(st, d)})
  BY CountedDown
<1> QED
  BY <1>1 DEF Decremented, TypeOK

\* A counter at zero has nothing left to wait for.
LEMMA ZeroMeansOver ==
  ASSUME TypeOK, CounterExact, NEW t \in Tasks, Candidate(t)
  PROVE  \A d \in Deps[t] : Over(status, d)
<1>1. IsFiniteSet({d \in Deps[t] : ~Over(status, d)})
  BY DagAssumption, FS_Subset
<1>2. Cardinality({d \in Deps[t] : ~Over(status, d)}) = 0
  BY DEF Candidate, CounterExact
<1> QED
  BY <1>1, <1>2, FS_EmptySet

LEMMA InitIInv == Init => IInv
<1> SUFFICES ASSUME Init PROVE IInv
  OBVIOUS
<1>1. \A t \in Tasks : Cardinality(Deps[t]) \in Nat /\ {d \in Deps[t] : ~Over(status, d)} = Deps[t]
  <2> SUFFICES ASSUME NEW t \in Tasks
               PROVE Cardinality(Deps[t]) \in Nat /\ {d \in Deps[t] : ~Over(status, d)} = Deps[t]
    OBVIOUS
  <2>1. Deps[t] \subseteq Tasks /\ IsFiniteSet(Deps[t])
    BY DagAssumption, FS_Subset
  <2>2. \A d \in Deps[t] : ~Over(status, d)
    BY <2>1 DEF Init, Over, Terminal
  <2> QED
    BY <2>1, <2>2, FS_CardinalityType
<1>2. TypeOK
  BY <1>1, EngineAssumption DEF Init, TypeOK, Statuses
<1>3. CounterExact
  BY <1>1 DEF Init, CounterExact
<1>4. ClaimedRuns /\ StopShape /\ RunShape /\ ReadsHold /\ DepsOverFirst /\ OneCompletionPerEnd
  BY DEF Init, ClaimedRuns, StopShape, RunShape, ReadsHold, DepsOverFirst, OneCompletionPerEnd
<1> QED
  BY <1>2, <1>3, <1>4 DEF IInv

-----------------------------------------------------------------------------
(* What a step must keep to, conjunct by conjunct *)

\* Terminal stays terminal and no engine reads anything new: what was read
\* still holds.
LEMMA ReadsKept ==
  ASSUME IInv,
         \A t \in Tasks : Over(status, t) => Over(status', t),
         \A e \in Engines : /\ cands'[e] \subseteq cands[e]
                            /\ decided'[e] \subseteq decided[e]
                            /\ reaping'[e] \subseteq reaping[e]
  PROVE  ReadsHold'
<1> USE DagAssumption DEF IInv, ReadsHold
<1> SUFFICES ASSUME NEW e \in Engines
             PROVE  /\ \A t \in cands'[e] : \A d \in Deps[t] : Over(status', d)
                    /\ \A c \in decided'[e] : \A d \in Deps[c.task] : Over(status', d)
                    /\ reaping'[e] # {} => \A t \in Tasks : Over(status', t)
  BY DEF ReadsHold
<1>1. \A t \in cands'[e] : t \in Tasks /\ t \in cands[e]
  BY DEF TypeOK
<1>2. \A c \in decided'[e] : c.task \in Tasks /\ c \in decided[e]
  BY DEF TypeOK, Decision
<1>3. \A t \in Tasks : Deps[t] \subseteq Tasks
  OBVIOUS
<1> QED
  BY <1>1, <1>2, <1>3

\* Terminal stays terminal, and a task leaves `pending` only once its
\* dependencies are over.
LEMMA DepsKept ==
  ASSUME IInv, status' \in [Tasks -> Statuses],
         \A t \in Tasks : Over(status, t) => status'[t] = status[t],
         \A t \in Tasks : status[t] = "pending" /\ status'[t] \notin {"pending", "cancelled"} =>
           \A d \in Deps[t] : Over(status', d)
  PROVE  DepsOverFirst'
<1> SUFFICES ASSUME NEW t \in Tasks, status'[t] \notin {"pending", "cancelled"}, NEW d \in Deps[t]
             PROVE  Over(status', d)
  BY DEF DepsOverFirst
<1>1. d \in Tasks
  BY DagAssumption
<1>2. CASE status[t] = "pending"
  BY <1>2
<1>3. CASE status[t] # "pending"
  <2>1. status[t] # "cancelled"
    BY DEF Over, Terminal
  <2>2. Over(status, d)
    BY <1>3, <2>1 DEF IInv, DepsOverFirst
  <2> QED
    BY <1>1, <2>2 DEF Over
<1> QED
  BY <1>2, <1>3

\* A step that counts off exactly the tasks it ends.
LEMMA CountKept ==
  ASSUME IInv, status' \in [Tasks -> Statuses], NEW over \in SUBSET Tasks,
         \A t \in over : ~Over(status, t) /\ Over(status', t),
         \A t \in Tasks \ over : Over(status', t) <=> Over(status, t),
         \A t \in Tasks : status'[t] = "pending" => status[t] = "pending",
         remaining' = Decremented(status', over)
  PROVE  CounterExact' /\ remaining' \in [Tasks -> Nat]
<1>1. TypeOK /\ CounterExact
  BY DEF IInv
<1>2. /\ Decremented(status', over) \in [Tasks -> Nat]
      /\ \A u \in Tasks : status'[u] = "pending" =>
           Decremented(status', over)[u] = Cardinality({d \in Deps[u] : ~Over(status', d)})
  BY <1>1, CountedOff
<1> QED
  BY <1>2 DEF CounterExact

\* A step that ends no task and counts nothing off.
LEMMA SameCount ==
  ASSUME CounterExact,
         \A t \in Tasks : Over(status', t) <=> Over(status, t),
         \A t \in Tasks : status'[t] = "pending" => status[t] = "pending",
         remaining' = remaining
  PROVE  CounterExact'
<1> SUFFICES ASSUME NEW u \in Tasks, status'[u] = "pending"
             PROVE  remaining[u] = Cardinality({d \in Deps[u] : ~Over(status', d)})
  BY DEF CounterExact
<1>1. {d \in Deps[u] : ~Over(status', d)} = {d \in Deps[u] : ~Over(status, d)}
  BY DagAssumption
<1> QED
  BY <1>1 DEF CounterExact

LEMMA CountSame ==
  ASSUME IInv,
         \A t \in Tasks : Over(status', t) <=> Over(status, t),
         \A t \in Tasks : status'[t] = "pending" => status[t] = "pending",
         remaining' = remaining
  PROVE  CounterExact'
BY SameCount DEF IInv

-----------------------------------------------------------------------------
(* The steps *)

\* An engine's memory alone: a read, a stale result, a word to a worker, a
\* crash.
LEMMA MemoryStep ==
  ASSUME IInv, UNCHANGED taskRows, UNCHANGED runRow,
         work' \in SUBSET Exec, cands' \in [Engines -> SUBSET Tasks],
         decided' \in [Engines -> SUBSET Decision],
         reaping' \in [Engines -> SUBSET {"succeeded", "failed"}],
         faults' \in Nat, ReadsHold'
  PROVE  IInv'
<1> USE DEF taskRows, runRow, IInv
<1>1. TypeOK'
  BY DEF TypeOK
<1>2. ClaimedRuns' /\ StopShape' /\ RunShape' /\ DepsOverFirst' /\ OneCompletionPerEnd'
  BY DEF ClaimedRuns, StopShape, RunShape, DepsOverFirst, OneCompletionPerEnd, Over
<1>3. CounterExact'
  BY DEF CounterExact, Over
<1> QED
  BY <1>1, <1>2, <1>3

\* A lease alone, of a row that is not parked.
LEMMA LeaseStep ==
  ASSUME IInv, UNCHANGED <<status, remaining, version, attempt, claimedBy, stopReq, waking>>,
         UNCHANGED runRow, UNCHANGED <<cands, decided, reaping>>,
         work' \in SUBSET work, faults' \in Nat,
         NEW t \in Tasks, NEW l \in {"none", "live", "lapsed"},
         lease[t] # "none" \/ claimedBy[t] # None, lease' = [lease EXCEPT ![t] = l]
  PROVE  IInv'
<1> USE DEF runRow, IInv
<1>1. TypeOK'
  BY DEF TypeOK
<1>2. ClaimedRuns'
  BY DEF ClaimedRuns, TypeOK, Over
<1>3. StopShape' /\ RunShape' /\ DepsOverFirst' /\ OneCompletionPerEnd' /\ ReadsHold'
  BY DEF StopShape, RunShape, DepsOverFirst, OneCompletionPerEnd, ReadsHold, Over
<1>4. CounterExact'
  BY DEF CounterExact, Over
<1> QED
  BY <1>1, <1>2, <1>3, <1>4

\* While one row is neither over nor asked to stop, the run is neither ended
\* nor stopping, whatever becomes of that row.
LEMMA RunUntouched ==
  ASSUME IInv, UNCHANGED runRow, UNCHANGED stopReq,
         NEW t \in Tasks, ~Over(status, t), ~stopReq[t]
  PROVE  StopShape' /\ RunShape' /\ OneCompletionPerEnd'
<1>1. stoppingAs = None /\ \A u \in Tasks : ~stopReq[u]
  BY DEF IInv, StopShape
<1>2. runStatus = "running"
  BY DEF IInv, RunShape
<1> QED
  BY <1>1, <1>2 DEF IInv, StopShape, RunShape, OneCompletionPerEnd, runRow

\* A step of the engines on the rows of a run that goes on.
LEMMA RowStep ==
  ASSUME IInv, UNCHANGED runRow, UNCHANGED stopReq, UNCHANGED <<cands, reaping>>,
         \A e \in Engines : decided'[e] \subseteq decided[e],
         \E t \in Tasks : ~Over(status, t) /\ ~stopReq[t],
         TypeOK', ClaimedRuns', CounterExact',
         \A t \in Tasks : Over(status, t) => status'[t] = status[t],
         \A t \in Tasks : status[t] = "pending" /\ status'[t] \notin {"pending", "cancelled"} =>
           \A d \in Deps[t] : Over(status', d)
  PROVE  IInv'
<1>1. StopShape' /\ RunShape' /\ OneCompletionPerEnd'
  BY RunUntouched
<1>2. status' \in [Tasks -> Statuses]
  BY DEF TypeOK
<1>3. DepsOverFirst'
  BY <1>2, DepsKept
<1>4. \A t \in Tasks : Over(status, t) => Over(status', t)
  BY DEF Over
<1>5. ReadsHold'
  BY <1>4, ReadsKept
<1> QED
  BY <1>1, <1>3, <1>5 DEF IInv

\* A task that nobody claimed was not asked to stop either.
LEMMA Unclaimed ==
  ASSUME IInv, NEW t \in Tasks, status[t] # "running"
  PROVE  claimedBy[t] = None /\ ~stopReq[t]
BY DEF IInv, ClaimedRuns

LEMMA AdvanceReadyKeeps ==
  ASSUME IInv, AdvanceDefaultReady
  PROVE  IInv'
<1> USE DEF AdvanceDefaultReady, memory
<1>1. \A t \in ReadyFrontier : t \in Tasks /\ Candidate(t) /\ status[t] = "pending" /\ ~Over(status, t)
  BY DEF ReadyFrontier, Candidate, Over, Terminal
<1>2. TypeOK'
  BY DEF IInv, TypeOK, Statuses, runRow
<1>3. ClaimedRuns'
  BY <1>1, Unclaimed DEF IInv, ClaimedRuns, Over
<1>4. /\ \A t \in Tasks : Over(status', t) <=> Over(status, t)
      /\ \A t \in Tasks : status'[t] = "pending" => status[t] = "pending"
      /\ \A t \in Tasks : Over(status, t) => status'[t] = status[t]
  BY <1>1 DEF Over, Terminal
<1>5. CounterExact'
  BY <1>4, CountSame
<1>6. \A t \in Tasks : status[t] = "pending" /\ status'[t] \notin {"pending", "cancelled"} =>
        \A d \in Deps[t] : Over(status', d)
  BY <1>1, <1>4, ZeroMeansOver, DagAssumption DEF IInv
<1>7. \E t \in Tasks : ~Over(status, t) /\ ~stopReq[t]
  BY <1>1, Unclaimed
<1> QED
  BY <1>2, <1>3, <1>4, <1>5, <1>6, <1>7, RowStep

LEMMA AdvanceSkipKeeps ==
  ASSUME IInv, AdvanceDefaultSkip
  PROVE  IInv'
<1> USE DEF AdvanceDefaultSkip, memory
<1>1. \A t \in SkipFrontier : t \in Tasks /\ Candidate(t) /\ status[t] = "pending" /\ ~Over(status, t)
  BY DEF SkipFrontier, Candidate, Over, Terminal
<1>2. status' \in [Tasks -> Statuses]
  BY DEF IInv, TypeOK, Statuses, Terminal
<1>3. /\ \A t \in SkipFrontier : ~Over(status, t) /\ Over(status', t)
      /\ \A t \in Tasks \ SkipFrontier : Over(status', t) <=> Over(status, t)
      /\ \A t \in Tasks : status'[t] = "pending" => status[t] = "pending"
      /\ \A t \in Tasks : Over(status, t) => status'[t] = status[t]
      /\ \A t \in Tasks : Over(status, t) => Over(status', t)
  BY <1>1 DEF Over, Terminal
<1>4. CounterExact' /\ remaining' \in [Tasks -> Nat]
  BY <1>1, <1>2, <1>3, CountKept
<1>5. TypeOK'
  BY <1>2, <1>4 DEF IInv, TypeOK, runRow
<1>6. ClaimedRuns'
  BY <1>1, <1>3, Unclaimed DEF IInv, ClaimedRuns
<1>7. \A t \in Tasks : status[t] = "pending" /\ status'[t] \notin {"pending", "cancelled"} =>
        \A d \in Deps[t] : Over(status', d)
  BY <1>1, <1>3, ZeroMeansOver, DagAssumption DEF IInv
<1>8. \E t \in Tasks : ~Over(status, t) /\ ~stopReq[t]
  BY <1>1, Unclaimed
<1> QED
  BY <1>3, <1>4, <1>5, <1>6, <1>7, <1>8, RowStep

\* One task ends, and is counted off.
LEMMA OneEnds ==
  ASSUME IInv, NEW t \in Tasks, ~Over(status, t), NEW end \in Terminal,
         status' = [status EXCEPT ![t] = end], remaining' = Decremented(status', {t})
  PROVE  /\ CounterExact' /\ remaining' \in [Tasks -> Nat]
         /\ status' \in [Tasks -> Statuses]
         /\ \A u \in Tasks : Over(status, u) => status'[u] = status[u]
<1>1. status' \in [Tasks -> Statuses]
  BY DEF IInv, TypeOK, Statuses
<1> DEFINE over == {t}
<1>2. /\ over \in SUBSET Tasks /\ remaining' = Decremented(status', over)
      /\ \A u \in over : ~Over(status, u) /\ Over(status', u)
      /\ \A u \in Tasks \ over : Over(status', u) <=> Over(status, u)
      /\ \A u \in Tasks : status'[u] = "pending" => status[u] = "pending"
      /\ \A u \in Tasks : Over(status, u) => status'[u] = status[u]
  BY DEF IInv, TypeOK, Over, Terminal
<1> HIDE DEF over
<1>3. CounterExact' /\ remaining' \in [Tasks -> Nat]
  BY <1>1, <1>2, CountKept
<1> QED
  BY <1>1, <1>2, <1>3

\* One task moves on without ending.
LEMMA OneMoves ==
  ASSUME IInv, NEW t \in Tasks, ~Over(status, t), NEW to \in Statuses \ Terminal, to # "pending",
         status' = [status EXCEPT ![t] = to], remaining' = remaining
  PROVE  /\ CounterExact'
         /\ status' \in [Tasks -> Statuses]
         /\ \A u \in Tasks : Over(status, u) => status'[u] = status[u]
         /\ \A u \in Tasks : Over(status', u) <=> Over(status, u)
<1>1. /\ status' \in [Tasks -> Statuses]
      /\ \A u \in Tasks : Over(status', u) <=> Over(status, u)
      /\ \A u \in Tasks : status'[u] = "pending" => status[u] = "pending"
      /\ \A u \in Tasks : Over(status, u) => status'[u] = status[u]
  BY DEF IInv, TypeOK, Over
<1>2. CounterExact'
  BY <1>1, CountSame
<1> QED
  BY <1>1, <1>2

LEMMA AdvanceApplyKeeps ==
  ASSUME IInv, NEW e \in Engines, AdvanceApply(e)
  PROVE  IInv'
<1>1. PICK c \in decided[e] :
        IF status[c.task] = "pending"
          THEN /\ status' = [status EXCEPT ![c.task] = c.to]
               /\ remaining' = IF c.to \in Terminal
                                 THEN Decremented(status', {c.task}) ELSE remaining
          ELSE UNCHANGED <<status, remaining>>
  BY DEF AdvanceApply
<1>2. c.task \in Tasks /\ c.to \in {"ready", "awaiting_approval", "skipped", "failed"}
  BY DEF IInv, TypeOK, Decision
<1>3. /\ UNCHANGED <<version, attempt, claimedBy, lease, stopReq, waking,
                     runRow, work, cands, reaping, faults>>
      /\ decided' = [decided EXCEPT ![e] = {}]
  BY DEF AdvanceApply
<1>4. decided' \in [Engines -> SUBSET Decision] /\ \A f \in Engines : decided'[f] \subseteq decided[f]
  BY <1>3 DEF IInv, TypeOK
<1>5. CASE status[c.task] # "pending"
  <2>1. UNCHANGED taskRows
    BY <1>1, <1>3, <1>5 DEF taskRows
  <2>2. ReadsHold'
    BY <1>3, <1>4, <2>1, ReadsKept DEF taskRows, Over
  <2> QED
    BY <1>3, <1>4, <2>1, <2>2, MemoryStep DEF IInv, TypeOK
<1>6. CASE status[c.task] = "pending"
  <2>1. ~Over(status, c.task) /\ ~stopReq[c.task]
    BY <1>2, <1>6, Unclaimed DEF Over, Terminal
  <2>2. /\ CounterExact' /\ remaining' \in [Tasks -> Nat]
        /\ status' \in [Tasks -> Statuses]
        /\ \A u \in Tasks : Over(status, u) => status'[u] = status[u]
    <3>1. CASE c.to \in Terminal
      BY <1>1, <1>2, <1>6, <2>1, <3>1, OneEnds
    <3>2. CASE c.to \notin Terminal
      <4>1. c.to \in Statuses \ Terminal /\ c.to # "pending"
        BY <1>2, <3>2 DEF Statuses, Terminal
      <4> QED
        BY <1>1, <1>2, <1>6, <2>1, <3>2, <4>1, OneMoves DEF IInv, TypeOK
    <3> QED
      BY <3>1, <3>2
  <2>3. TypeOK'
    BY <1>3, <1>4, <2>2 DEF IInv, TypeOK, runRow
  <2>4. ClaimedRuns'
    BY <1>1, <1>2, <1>3, <1>6, <2>2 DEF IInv, ClaimedRuns, Over, Terminal, TypeOK
  <2>5. \A t \in Tasks : status[t] = "pending" /\ status'[t] \notin {"pending", "cancelled"} =>
          \A d \in Deps[t] : Over(status', d)
    <3>1. \A d \in Deps[c.task] : d \in Tasks /\ Over(status, d)
      BY <1>2, DagAssumption DEF IInv, ReadsHold
    <3> QED
      BY <1>1, <1>2, <1>6, <2>2, <3>1 DEF Over, IInv, TypeOK
  <2> QED
    BY <1>2, <1>3, <1>4, <2>1, <2>2, <2>3, <2>4, <2>5, RowStep
<1> QED
  BY <1>5, <1>6

LEMMA ResolveApprovalKeeps ==
  ASSUME IInv, NEW t \in Tasks, NEW verdict \in {"succeeded", "failed"}, ResolveApproval(t, verdict)
  PROVE  IInv'
<1> USE DEF ResolveApproval, memory
<1>1. ~Over(status, t) /\ ~stopReq[t] /\ verdict \in Terminal
  BY Unclaimed DEF Over, Terminal
<1>2. /\ CounterExact' /\ remaining' \in [Tasks -> Nat]
      /\ status' \in [Tasks -> Statuses]
      /\ \A u \in Tasks : Over(status, u) => status'[u] = status[u]
  BY <1>1, OneEnds
<1>3. TypeOK'
  BY <1>2 DEF IInv, TypeOK, runRow
<1>4. ClaimedRuns'
  BY <1>2 DEF IInv, ClaimedRuns, TypeOK, Over, Terminal
<1>5. \A u \in Tasks : ~(status[u] = "pending" /\ status'[u] \notin {"pending", "cancelled"})
  BY DEF IInv, TypeOK
<1> QED
  BY <1>1, <1>2, <1>3, <1>4, <1>5, RowStep

LEMMA ReconcileWaitKeeps ==
  ASSUME IInv, NEW t \in Tasks, ReconcileWait(t)
  PROVE  IInv'
<1> USE DEF ReconcileWait, memory
<1>1. ~Over(status, t) /\ ~stopReq[t] /\ claimedBy[t] = None
  BY DEF Over, Terminal, IInv, ClaimedRuns
<1>2. /\ CounterExact' /\ remaining' \in [Tasks -> Nat]
      /\ status' \in [Tasks -> Statuses]
      /\ \A u \in Tasks : Over(status, u) => status'[u] = status[u]
  BY <1>1, OneEnds DEF Terminal
<1>3. TypeOK'
  BY <1>2 DEF IInv, TypeOK, runRow
<1>4. ClaimedRuns'
  BY <1>1, <1>2 DEF IInv, ClaimedRuns, TypeOK, Over, Terminal
<1>5. \A u \in Tasks : ~(status[u] = "pending" /\ status'[u] \notin {"pending", "cancelled"})
  BY DEF IInv, TypeOK
<1> QED
  BY <1>1, <1>2, <1>3, <1>4, <1>5, RowStep

-----------------------------------------------------------------------------
(* Claims, leases and stops *)

LEMMA DispatchedType ==
  ASSUME IInv, NEW e \in Engines, NEW t \in Tasks, NEW kind \in {"held", "teardown"}
  PROVE  Dispatched(e, {t}, kind) \in SUBSET Exec
<1>1. version[t] + 1 \in Nat /\ attempt[t] + 1 \in Nat
  BY DEF IInv, TypeOK
<1>2. \A x \in work : x \in Exec /\ [x EXCEPT !.kind = "loose"] \in Exec
  BY DEF IInv, TypeOK, Exec
<1>3. \A y \in Dispatched(e, {t}, kind) :
        \/ \E x \in work : y = x \/ y = [x EXCEPT !.kind = "loose"]
        \/ y = [task |-> t, fence |-> version[t] + 1, eng |-> e,
                attempt |-> attempt[t] + 1, kind |-> kind, told |-> FALSE]
  BY DEF Dispatched, NextFence
<1>4. [task |-> t, fence |-> version[t] + 1, eng |-> e,
       attempt |-> attempt[t] + 1, kind |-> kind, told |-> FALSE] \in Exec
  BY <1>1 DEF Exec
<1> QED
  BY <1>2, <1>3, <1>4

LEMMA ClaimReadyKeeps ==
  ASSUME IInv, NEW e \in Engines, NEW t \in Tasks, ClaimReady(e, t)
  PROVE  IInv'
<1> USE DEF ClaimReady
<1>1. ~Over(status, t) /\ ~stopReq[t] /\ claimedBy[t] = None /\ t \notin waking
  BY Unclaimed DEF Over, Terminal, IInv, ClaimedRuns
<1>2. /\ CounterExact'
      /\ status' \in [Tasks -> Statuses]
      /\ \A u \in Tasks : Over(status, u) => status'[u] = status[u]
  BY <1>1, OneMoves DEF Statuses, Terminal
<1>3. TypeOK'
  <2>1. work' \in SUBSET Exec
    BY DispatchedType
  <2>2. version[t] + 1 \in Nat /\ attempt[t] + 1 \in Nat
    BY DEF IInv, TypeOK
  <2> QED
    BY <1>2, <2>1, <2>2 DEF IInv, TypeOK, runRow, NextFence
<1>4. ClaimedRuns'
  BY <1>1, <1>2, EngineAssumption DEF IInv, ClaimedRuns, TypeOK, Over, Terminal
<1>5. \A u \in Tasks : ~(status[u] = "pending" /\ status'[u] \notin {"pending", "cancelled"})
  BY DEF IInv, TypeOK
<1> QED
  BY <1>1, <1>2, <1>3, <1>4, <1>5, RowStep

LEMMA ClaimTeardownKeeps ==
  ASSUME IInv, NEW e \in Engines, NEW t \in Tasks, ClaimTeardown(e, t)
  PROVE  IInv'
<1> USE DEF ClaimTeardown
<1>1. TypeOK'
  <2>1. work' \in SUBSET Exec
    BY DispatchedType
  <2>2. version[t] + 1 \in Nat
    BY DEF IInv, TypeOK
  <2> QED
    BY <2>1, <2>2 DEF IInv, TypeOK, runRow, NextFence
<1>2. t \notin waking
  BY DEF IInv, ClaimedRuns, Over, Terminal
<1>3. ClaimedRuns'
  BY <1>2, EngineAssumption DEF IInv, ClaimedRuns, TypeOK, Over, Terminal
<1>4. StopShape' /\ RunShape' /\ DepsOverFirst' /\ OneCompletionPerEnd' /\ ReadsHold'
  BY DEF IInv, StopShape, RunShape, DepsOverFirst, OneCompletionPerEnd, ReadsHold, Over, runRow
<1>5. CounterExact'
  BY DEF IInv, CounterExact, Over
<1> QED
  BY <1>1, <1>3, <1>4, <1>5 DEF IInv

LEMMA RecoverKeeps ==
  ASSUME IInv, RecoverExpiredLeases
  PROVE  IInv'
<1> USE DEF RecoverExpiredLeases, memory
<1>1. \A t \in Expired : t \in Tasks /\ status[t] = "running" /\ ~Over(status, t) /\ ~stopReq[t]
                         /\ t \notin waking
  BY DEF Expired, Over, Terminal, IInv, ClaimedRuns
<1>2. TypeOK'
  BY EngineAssumption DEF IInv, TypeOK, Statuses, runRow
<1>3. ClaimedRuns'
  BY <1>1 DEF IInv, ClaimedRuns, Over, TypeOK
<1>4. /\ \A t \in Tasks : Over(status', t) <=> Over(status, t)
      /\ \A t \in Tasks : status'[t] = "pending" => status[t] = "pending"
      /\ \A t \in Tasks : Over(status, t) => status'[t] = status[t]
      /\ \A t \in Tasks : ~(status[t] = "pending" /\ status'[t] \notin {"pending", "cancelled"})
  BY <1>1 DEF Over, Terminal
<1>5. CounterExact'
  BY <1>4, CountSame
<1>6. \E t \in Tasks : ~Over(status, t) /\ ~stopReq[t]
  BY <1>1
<1> QED
  BY <1>2, <1>3, <1>4, <1>5, <1>6, RowStep

\* What finish_stopped_run comes to, of a run that is stopping.
LEMMA FinishOutcome ==
  ASSUME IInv, runStatus = "running", NEW as \in {"cancelled", "failed"},
         FinishStoppedRun(as, status', stopReq')
  PROVE  /\ \/ /\ runStatus' = as /\ stoppingAs' = None /\ completed' = 1
               /\ ~ \E t \in Tasks : status'[t] = "running" /\ stopReq'[t]
            \/ /\ runStatus' = "running" /\ stoppingAs' = as /\ completed' = 0
               /\ \E t \in Tasks : status'[t] = "running" /\ stopReq'[t]
         /\ OneCompletionPerEnd'
         /\ runStatus' \in {"running", "succeeded", "failed", "cancelled"}
         /\ stoppingAs' \in {None, "cancelled", "failed"} /\ completed' \in Nat
<1>1. completed = 0 /\ as # None /\ as # "running"
  BY EngineAssumption DEF IInv, OneCompletionPerEnd
<1>2. CASE \E t \in Tasks : status'[t] = "running" /\ stopReq'[t]
  <2>1. runStatus' = "running" /\ stoppingAs' = as /\ completed' = 0
    BY <1>1, <1>2, Zenon DEF FinishStoppedRun
  <2> QED
    BY <1>2, <2>1 DEF OneCompletionPerEnd
<1>3. CASE ~ \E t \in Tasks : status'[t] = "running" /\ stopReq'[t]
  <2>1. runStatus' = as /\ stoppingAs' = None /\ completed' = completed + 1
    BY <1>1, <1>3, Zenon DEF FinishStoppedRun
  <2>2. completed' = 1 /\ completed' \in Nat
    BY <1>1, <2>1
  <2>3. OneCompletionPerEnd'
    BY <1>1, <2>1, <2>2 DEF OneCompletionPerEnd
  <2>4. /\ runStatus' \in {"running", "succeeded", "failed", "cancelled"}
        /\ stoppingAs' \in {None, "cancelled", "failed"}
    BY <2>1
  <2> QED
    BY <1>3, <2>1, <2>2, <2>3, <2>4, Zenon
<1> QED
  BY <1>2, <1>3

LEMMA StopKeeps ==
  ASSUME IInv, StopRunTasks, runStatus = "running", NEW as \in {"cancelled", "failed"},
         FinishStoppedRun(as, status', stopReq'), UNCHANGED <<memory, faults>>
  PROVE  IInv'
<1> USE DEF StopRunTasks, memory
<1>1. \A t \in Tasks : /\ Over(status, t) => status'[t] = status[t]
                       /\ \/ Over(status', t)
                          \/ status'[t] = "running" /\ stopReq'[t]
                       /\ stopReq'[t] => status'[t] = "running" /\ claimedBy'[t] # None
                       /\ status[t] # "cancelled" => status'[t] \in {status[t], "cancelled"}
                       /\ status'[t] # "pending"
  BY DEF IInv, TypeOK, ClaimedRuns, Statuses, Terminal, Over, Idle, Dispatch
<1>2. status' \in [Tasks -> Statuses]
  BY DEF IInv, TypeOK, Statuses, Terminal
<1>3. TypeOK'
  <2>1. stopReq' \in [Tasks -> BOOLEAN]
    BY Zenon
  <2>2. claimedBy' \in [Tasks -> Engines \cup {None}] /\ lease' \in [Tasks -> {"none", "live", "lapsed"}]
    BY DEF IInv, TypeOK
  <2>3. /\ runStatus' \in {"running", "succeeded", "failed", "cancelled"}
        /\ stoppingAs' \in {None, "cancelled", "failed"} /\ completed' \in Nat
    BY FinishOutcome
  <2> QED
    BY <1>2, <2>1, <2>2, <2>3 DEF IInv, TypeOK
<1>4. ClaimedRuns'
  BY <1>1 DEF IInv, TypeOK, ClaimedRuns, Over, Terminal, Idle, Dispatch
<1>5. StopShape'
  BY <1>1 DEF StopShape
<1>6. RunShape'
  BY <1>1, FinishOutcome, EngineAssumption DEF RunShape
<1>7. OneCompletionPerEnd'
  BY FinishOutcome
<1>8. CounterExact'
  BY <1>1 DEF CounterExact
<1>9. DepsOverFirst'
  BY <1>1, <1>2, DepsKept
<1>10. ReadsHold'
  BY <1>1, ReadsKept DEF Over
<1> QED
  BY <1>3, <1>4, <1>5, <1>6, <1>7, <1>8, <1>9, <1>10 DEF IInv

-----------------------------------------------------------------------------
(* Results, each of an execution that its engine takes back *)

\* The rows an execution may write to: its own, while its claim stands.
LEMMA MarkedRow ==
  ASSUME IInv, NEW x \in work, MayMark(x)
  PROVE  /\ x.task \in Tasks /\ status[x.task] = "running" /\ ~stopReq[x.task]
         /\ ~Over(status, x.task) /\ claimedBy[x.task] # None /\ x.task \notin waking
<1>1. x.task \in Tasks /\ x.eng \in Engines
  BY DEF IInv, TypeOK, Exec
<1>2. claimedBy[x.task] # None
  BY <1>1, EngineAssumption DEF MayMark, Owns
<1> QED
  BY <1>1, <1>2 DEF IInv, ClaimedRuns, MayMark, Over, Terminal

LEMMA MarkTaskSucceededKeeps ==
  ASSUME IInv, NEW x \in work, MarkTaskSucceeded(x), Collected(x), faults' \in Nat
  PROVE  IInv'
<1> DEFINE t == x.task
           st == [status EXCEPT ![t] = "succeeded"]
           over == {t}
           rem == Decremented(st, over)
<1>1. /\ t \in Tasks /\ status[t] = "running" /\ ~stopReq[t]
      /\ ~Over(status, t) /\ claimedBy[t] # None /\ t \notin waking
  BY MarkedRow DEF MarkTaskSucceeded
<1>2. /\ status' = [u \in Tasks |-> IF u \in Promoted(st, rem, t) THEN "ready" ELSE st[u]]
      /\ remaining' = rem
      /\ claimedBy' = [claimedBy EXCEPT ![t] = None]
      /\ UNCHANGED <<version, attempt, lease, stopReq, waking, runRow, cands, decided, reaping>>
      /\ work' = work \ {x}
  BY DEF MarkTaskSucceeded, Collected
<1>3. /\ st \in [Tasks -> Statuses] /\ over \in SUBSET Tasks /\ TypeOK /\ CounterExact
      /\ \A u \in over : ~Over(status, u) /\ Over(st, u)
      /\ \A u \in Tasks \ over : Over(st, u) <=> Over(status, u)
      /\ \A u \in Tasks : st[u] = "pending" => status[u] = "pending"
  BY <1>1 DEF IInv, TypeOK, Statuses, Terminal, Over
<1>4. /\ \A u \in Promoted(st, rem, t) : u \in Tasks /\ st[u] = "pending" /\ AllDepsSucceeded(st, u)
      /\ \A u \in Tasks \ {t} : st[u] = status[u]
      /\ st[t] = "succeeded"
  BY <1>1 DEF Promoted, IInv, TypeOK
<1> HIDE DEF st, over, rem
<1>5. /\ rem \in [Tasks -> Nat]
      /\ \A u \in Tasks : st[u] = "pending" => rem[u] = Cardinality({d \in Deps[u] : ~Over(st, d)})
  BY <1>3, CountedOff DEF rem
<1>6. /\ status' \in [Tasks -> Statuses]
      /\ \A u \in Tasks : Over(status', u) <=> Over(st, u)
      /\ \A u \in Tasks : status'[u] = "pending" => st[u] = "pending"
      /\ \A u \in Tasks : Over(status, u) => status'[u] = status[u]
  BY <1>1, <1>2, <1>3, <1>4 DEF Statuses, Over, Terminal
<1>7. CounterExact'
  <2> SUFFICES ASSUME NEW u \in Tasks, status'[u] = "pending"
               PROVE  rem[u] = Cardinality({d \in Deps[u] : ~Over(status', d)})
    BY <1>2 DEF CounterExact
  <2>1. {d \in Deps[u] : ~Over(status', d)} = {d \in Deps[u] : ~Over(st, d)}
    BY <1>6, DagAssumption
  <2> QED
    BY <1>5, <1>6, <2>1
<1>8. TypeOK'
  BY <1>2, <1>5, <1>6 DEF IInv, TypeOK, runRow
<1>9. ClaimedRuns'
  BY <1>1, <1>2, <1>4, <1>6 DEF IInv, ClaimedRuns, TypeOK, Over, Terminal
<1>10. \A u \in Tasks : status[u] = "pending" /\ status'[u] \notin {"pending", "cancelled"} =>
         \A d \in Deps[u] : Over(status', d)
  <2> SUFFICES ASSUME NEW u \in Tasks, status[u] = "pending", status'[u] \notin {"pending", "cancelled"},
                      NEW d \in Deps[u]
               PROVE  Over(status', d)
    OBVIOUS
  <2>1. u \in Promoted(st, rem, t) /\ d \in Tasks
    BY <1>1, <1>2, <1>4, DagAssumption
  <2>2. st[d] = "succeeded"
    BY <1>4, <2>1 DEF AllDepsSucceeded
  <2> QED
    BY <1>6, <2>1, <2>2 DEF Over, Terminal
<1> QED
  BY <1>1, <1>2, <1>6, <1>7, <1>8, <1>9, <1>10, RowStep

LEMMA MarkTaskFailedKeeps ==
  ASSUME IInv, NEW x \in work, MarkTaskFailed(x), Collected(x), faults' \in Nat
  PROVE  IInv'
<1> USE DEF MarkTaskFailed, Collected
<1>1. /\ x.task \in Tasks /\ status[x.task] = "running" /\ ~stopReq[x.task]
      /\ ~Over(status, x.task) /\ claimedBy[x.task] # None /\ x.task \notin waking
  BY MarkedRow
<1>2. /\ CounterExact' /\ remaining' \in [Tasks -> Nat]
      /\ status' \in [Tasks -> Statuses]
      /\ \A u \in Tasks : Over(status, u) => status'[u] = status[u]
  BY <1>1, OneEnds DEF Terminal
<1>3. TypeOK'
  BY <1>2 DEF IInv, TypeOK, runRow
<1>4. ClaimedRuns'
  BY <1>1, <1>2 DEF IInv, ClaimedRuns, TypeOK, Over, Terminal
<1>5. \A u \in Tasks : ~(status[u] = "pending" /\ status'[u] \notin {"pending", "cancelled"})
  BY <1>1 DEF IInv, TypeOK
<1> QED
  BY <1>1, <1>2, <1>3, <1>4, <1>5, RowStep

\* retry_task and requeue_quota_wait differ in the attempt alone.
LEMMA BackToReadyKeeps ==
  ASSUME IInv, NEW x \in work, MayMark(x), Collected(x), faults' \in Nat,
         status' = [status EXCEPT ![x.task] = "ready"],
         claimedBy' = [claimedBy EXCEPT ![x.task] = None],
         lease' = [lease EXCEPT ![x.task] = "none"],
         attempt' \in [Tasks -> Nat],
         UNCHANGED <<remaining, version, stopReq, waking, runRow>>
  PROVE  IInv'
<1> USE DEF Collected
<1>1. /\ x.task \in Tasks /\ status[x.task] = "running" /\ ~stopReq[x.task]
      /\ ~Over(status, x.task) /\ claimedBy[x.task] # None /\ x.task \notin waking
  BY MarkedRow
<1>2. /\ CounterExact'
      /\ status' \in [Tasks -> Statuses]
      /\ \A u \in Tasks : Over(status, u) => status'[u] = status[u]
  BY <1>1, OneMoves DEF Statuses, Terminal
<1>3. TypeOK'
  BY <1>2 DEF IInv, TypeOK, runRow
<1>4. ClaimedRuns'
  BY <1>1, <1>2 DEF IInv, ClaimedRuns, TypeOK, Over, Terminal
<1>5. \A u \in Tasks : ~(status[u] = "pending" /\ status'[u] \notin {"pending", "cancelled"})
  BY <1>1 DEF IInv, TypeOK
<1> QED
  BY <1>1, <1>2, <1>3, <1>4, <1>5, RowStep

LEMMA ParkWaitKeeps ==
  ASSUME IInv, NEW x \in work, ParkWait(x), Collected(x), faults' \in Nat
  PROVE  IInv'
<1> USE DEF ParkWait, Collected
<1>1. x.task \in Tasks /\ ~stopReq[x.task] /\ ~Over(status, x.task)
  BY DEF IInv, TypeOK, Exec, Over, Terminal
<1>2. TypeOK'
  BY <1>1 DEF IInv, TypeOK, runRow
<1>3. ClaimedRuns'
  BY <1>1 DEF IInv, ClaimedRuns, TypeOK, Over, Terminal
<1>4. CounterExact'
  BY CountSame DEF Over
<1> QED
  BY <1>1, <1>2, <1>3, <1>4, RowStep

LEMMA SettleStoppingKeeps ==
  ASSUME IInv, NEW x \in work, SettleStopping(x), Collected(x), faults' \in Nat
  PROVE  IInv'
<1> USE DEF SettleStopping, Collected
<1>1. x.task \in Tasks /\ status[x.task] = "running" /\ stopReq[x.task] /\ x.task \notin waking
  BY DEF IInv, TypeOK, Exec, MaySettle, ClaimedRuns, Over, Terminal
<1>2. \A u \in Tasks : Over(status, u) \/ (stopReq[u] /\ status[u] = "running")
  BY <1>1 DEF IInv, StopShape, ClaimedRuns
<1>3. runStatus = "running"
  BY <1>1 DEF IInv, RunShape, Over, Terminal
<1>4. status' \in [Tasks -> Statuses] /\ stopReq' \in [Tasks -> BOOLEAN]
  BY <1>1 DEF IInv, TypeOK, Statuses, Terminal
<1>5. \A u \in Tasks : /\ Over(status, u) => status'[u] = status[u]
                       /\ Over(status', u) \/ (stopReq'[u] /\ status'[u] = "running")
                       /\ stopReq'[u] => status'[u] = "running" /\ stopReq[u] /\ u # x.task
                       /\ status'[u] # "pending" /\ status[u] # "pending"
  <2>1. /\ status'[x.task] = "cancelled" /\ ~stopReq'[x.task]
        /\ \A u \in Tasks \ {x.task} : status'[u] = status[u] /\ (stopReq'[u] <=> stopReq[u])
    BY <1>1 DEF IInv, TypeOK
  <2>2. \A u \in Tasks : status[u] # "pending" /\ (stopReq[u] => status[u] = "running")
    BY <1>2 DEF Over, Terminal, IInv, ClaimedRuns
  <2> QED
    BY <1>1, <1>2, <2>1, <2>2 DEF Over, Terminal
<1>6. /\ OneCompletionPerEnd' /\ RunShape' /\ completed' \in Nat
      /\ runStatus' \in {"running", "succeeded", "failed", "cancelled"}
      /\ stoppingAs' \in {None, "cancelled", "failed"}
  <2>1. CASE stoppingAs = None
    <3>1. UNCHANGED runRow
      BY <2>1, <1>3, Zenon DEF FinishStoppedRun, runRow
    <3> QED
      BY <2>1, <3>1, <1>3 DEF IInv, TypeOK, OneCompletionPerEnd, RunShape, runRow
  <2>2. CASE stoppingAs # None
    <3>1. stoppingAs \in {"cancelled", "failed"}
      BY <2>2 DEF IInv, TypeOK
    <3> QED
      BY <3>1, <1>3, <1>5, FinishOutcome, EngineAssumption DEF RunShape
  <2> QED
    BY <2>1, <2>2
<1>7. TypeOK'
  BY <1>1, <1>4, <1>6 DEF IInv, TypeOK
<1>8. ClaimedRuns'
  BY <1>1, <1>5 DEF IInv, ClaimedRuns, TypeOK, Over, Terminal
<1>9. StopShape'
  BY <1>5 DEF StopShape
<1>10. CounterExact'
  BY <1>5 DEF CounterExact
<1>11. DepsOverFirst'
  BY <1>4, <1>5, DepsKept
<1>12. ReadsHold'
  BY <1>5, ReadsKept DEF Over
<1> QED
  BY <1>6, <1>7, <1>8, <1>9, <1>10, <1>11, <1>12 DEF IInv

LEMMA ReapApplyKeeps ==
  ASSUME IInv, NEW e \in Engines, ReapApply(e)
  PROVE  IInv'
<1> USE DEF ReapApply
<1>1. PICK end \in reaping[e] :
        IF runStatus = "running"
          THEN runStatus' = end /\ completed' = completed + 1
          ELSE UNCHANGED <<runStatus, completed>>
  OBVIOUS
<1>2. end \in {"succeeded", "failed"}
  BY DEF IInv, TypeOK
<1>3. \A t \in Tasks : Over(status, t) /\ ~stopReq[t]
  BY DEF IInv, ReadsHold, ClaimedRuns, Over, Terminal
<1>4. stoppingAs = None
  BY <1>3 DEF IInv, RunShape
<1>5. reaping' \in [Engines -> SUBSET {"succeeded", "failed"}]
      /\ \A f \in Engines : reaping'[f] \subseteq reaping[f]
  BY DEF IInv, TypeOK
<1>6. TypeOK'
  BY <1>1, <1>2, <1>5 DEF IInv, TypeOK, taskRows
<1>7. ClaimedRuns' /\ StopShape' /\ DepsOverFirst' /\ CounterExact'
  BY DEF IInv, ClaimedRuns, StopShape, DepsOverFirst, CounterExact, Over, taskRows
<1>8. RunShape'
  BY <1>3, <1>4 DEF RunShape, Over, taskRows
<1>9. OneCompletionPerEnd'
  BY <1>1, <1>2 DEF IInv, OneCompletionPerEnd
<1>10. ReadsHold'
  BY <1>5, ReadsKept DEF Over, taskRows
<1> QED
  BY <1>6, <1>7, <1>8, <1>9, <1>10 DEF IInv

-----------------------------------------------------------------------------
(* The steps that write no row, or a lease alone *)

\* A result that finds its claim gone.
LEMMA NothingWritten ==
  ASSUME IInv, NEW x \in work, UNCHANGED taskRows, UNCHANGED runRow, Collected(x), faults' \in Nat
  PROVE  IInv'
<1> USE DEF Collected
<1>1. ReadsHold'
  BY ReadsKept DEF taskRows, Over
<1> QED
  BY <1>1, MemoryStep DEF IInv, TypeOK

LEMMA FaultCounts ==
  ASSUME IInv, Fault
  PROVE  faults' \in Nat
BY DEF IInv, TypeOK, Fault

LEMMA AdvanceKeeps ==
  ASSUME IInv, Advance
  PROVE  IInv'
<1>1. ASSUME NEW e \in Engines, AdvanceCandidates(e) PROVE IInv'
  <2> USE <1>1 DEF AdvanceCandidates
  <2>1. /\ cands' = [cands EXCEPT ![e] = {t \in Tasks : Candidate(t)}]
        /\ cands' \in [Engines -> SUBSET Tasks]
    BY DEF IInv, TypeOK
  <2>2. \A t \in Tasks : Candidate(t) => \A d \in Deps[t] : Over(status, d)
    BY ZeroMeansOver DEF IInv
  <2>3. ReadsHold'
    BY <2>1, <2>2 DEF IInv, TypeOK, ReadsHold, taskRows, Over
  <2> QED
    BY <2>1, <2>3, MemoryStep DEF IInv, TypeOK
<1>2. ASSUME NEW e \in Engines, NEW t \in Tasks, AdvanceEvaluate(e, t) PROVE IInv'
  <2> USE <1>2 DEF AdvanceEvaluate
  <2>1. PICK to \in {"ready", "awaiting_approval", "skipped", "failed"} :
          decided' = [decided EXCEPT ![e] = {[task |-> t, to |-> to]}]
    OBVIOUS
  <2>2. /\ cands' \in [Engines -> SUBSET Tasks]
        /\ cands'[e] \subseteq cands[e]
        /\ \A f \in Engines \ {e} : cands'[f] = cands[f]
    BY DEF IInv, TypeOK
  <2>3. /\ decided' \in [Engines -> SUBSET Decision]
        /\ decided'[e] = {[task |-> t, to |-> to]}
        /\ \A f \in Engines \ {e} : decided'[f] = decided[f]
    BY <2>1 DEF IInv, TypeOK, Decision
  <2>4. \A d \in Deps[t] : Over(status, d)
    BY DEF IInv, ReadsHold
  <2>5. ReadsHold'
    BY <2>2, <2>3, <2>4 DEF IInv, ReadsHold, taskRows, Over
  <2> QED
    BY <2>2, <2>3, <2>5, MemoryStep DEF IInv, TypeOK
<1> QED
  BY <1>1, <1>2, AdvanceReadyKeeps, AdvanceSkipKeeps, AdvanceApplyKeeps,
     ResolveApprovalKeeps, ReconcileWaitKeeps DEF Advance

LEMMA LeasesKeep ==
  ASSUME IInv, Leases
  PROVE  IInv'
<1>1. ASSUME NEW t \in Tasks, LeaseLapses(t) PROVE IInv'
  <2>1. faults' \in Nat
    BY <1>1, FaultCounts DEF LeaseLapses, IInv, TypeOK
  <2> QED
    BY <1>1, <2>1, LeaseStep DEF LeaseLapses, memory
<1>2. ASSUME NEW x \in work, RenewTaskLease(x) PROVE IInv'
  <2>1. x.task \in Tasks /\ x.eng \in Engines /\ faults \in Nat
    BY DEF IInv, TypeOK, Exec
  <2>2. claimedBy[x.task] # None
    BY <1>2, <2>1, EngineAssumption DEF RenewTaskLease, Owns
  <2> QED
    BY <1>2, <2>1, <2>2, LeaseStep DEF RenewTaskLease, memory
<1> QED
  BY <1>1, <1>2, RecoverKeeps DEF Leases

LEMMA ResultKeeps ==
  ASSUME IInv, NEW x \in work,
         \/ ResultSucceeds(x) \/ ResultFails(x) \/ ResultRefused(x)
         \/ ResultGone(x) \/ ResultUnseen(x) \/ DispatchSensor(x)
  PROVE  IInv'
<1>1. Collected(x) /\ faults' \in Nat
  BY FaultCounts DEF ResultSucceeds, ResultFails, ResultRefused, ResultGone, ResultUnseen,
                     DispatchSensor, IInv, TypeOK
<1>2. attempt \in [Tasks -> Nat] /\ x.task \in Tasks /\ x.eng \in Engines
  BY DEF IInv, TypeOK, Exec
<1>3. ASSUME RetryTask(x) PROVE IInv'
  BY <1>1, <1>2, <1>3, BackToReadyKeeps DEF RetryTask
<1>4. ASSUME RequeueQuotaWait(x) PROVE IInv'
  <2>1. attempt' \in [Tasks -> Nat]
    BY <1>2, <1>4 DEF RequeueQuotaWait
  <2> QED
    BY <1>1, <1>4, <2>1, BackToReadyKeeps DEF RequeueQuotaWait
<1>5. ASSUME UNCHANGED taskRows, UNCHANGED runRow PROVE IInv'
  BY <1>1, <1>5, NothingWritten
<1>6. ASSUME ResultUnseen(x) PROVE IInv'
  <2>1. CASE MaySettle(x)
    <3>1. claimedBy[x.task] # None
      BY <1>2, <2>1, EngineAssumption DEF MaySettle, Owns
    <3> QED
      BY <1>1, <1>2, <1>6, <2>1, <3>1, LeaseStep DEF ResultUnseen, Collected
  <2>2. CASE ~MaySettle(x)
    BY <1>5, <1>6, <2>2 DEF ResultUnseen, taskRows
  <2> QED
    BY <2>1, <2>2
<1>7. ASSUME ResultSucceeds(x) PROVE IInv'
  BY <1>1, <1>3, <1>5, <1>7, MarkTaskSucceededKeeps, MarkTaskFailedKeeps, SettleStoppingKeeps
     DEF ResultSucceeds, StaleResult
<1>8. ASSUME ResultFails(x) PROVE IInv'
  BY <1>1, <1>3, <1>5, <1>8, MarkTaskFailedKeeps, SettleStoppingKeeps DEF ResultFails, StaleResult
<1>9. ASSUME ResultRefused(x) PROVE IInv'
  BY <1>1, <1>4, <1>5, <1>9, MarkTaskFailedKeeps, SettleStoppingKeeps DEF ResultRefused, StaleResult
<1>10. ASSUME ResultGone(x) PROVE IInv'
  BY <1>1, <1>5, <1>10, SettleStoppingKeeps DEF ResultGone
<1>11. ASSUME DispatchSensor(x) PROVE IInv'
  BY <1>1, <1>5, <1>11, ParkWaitKeeps, MarkTaskSucceededKeeps, MarkTaskFailedKeeps,
     SettleStoppingKeeps DEF DispatchSensor
<1> QED
  BY <1>6, <1>7, <1>8, <1>9, <1>10, <1>11

LEMMA StopStepKeeps ==
  ASSUME IInv, Stop
  PROVE  IInv'
<1>1. ASSUME CancelRun PROVE IInv'
  <2>1. (IF stoppingAs = None THEN "cancelled" ELSE stoppingAs) \in {"cancelled", "failed"}
    BY DEF IInv, TypeOK
  <2> QED
    BY <1>1, <2>1, StopKeeps DEF CancelRun
<1>2. ASSUME CancelOverdueRun PROVE IInv'
  BY <1>2, StopKeeps DEF CancelOverdueRun
<1>3. ASSUME NEW x \in work, TellToStop(x) PROVE IInv'
  <2> USE <1>3 DEF TellToStop
  <2>1. [x EXCEPT !.told = TRUE] \in Exec
    BY DEF IInv, TypeOK, Exec
  <2>2. work' \in SUBSET Exec
    BY <2>1 DEF IInv, TypeOK
  <2>3. ReadsHold'
    BY DEF IInv, ReadsHold, Over, taskRows
  <2> QED
    BY <2>2, <2>3, MemoryStep DEF IInv, TypeOK
<1> QED
  BY <1>1, <1>2, <1>3 DEF Stop

LEMMA ReapKeeps ==
  ASSUME IInv, Reap
  PROVE  IInv'
<1>1. ASSUME NEW e \in Engines, ReapRead(e) PROVE IInv'
  <2> USE <1>1 DEF ReapRead
  <2>1. reaping' \in [Engines -> SUBSET {"succeeded", "failed"}]
    BY DEF IInv, TypeOK, FinalStatus
  <2>2. ReadsHold'
    BY DEF IInv, ReadsHold, Over, taskRows
  <2> QED
    BY <2>1, <2>2, MemoryStep DEF IInv, TypeOK
<1> QED
  BY <1>1, ReapApplyKeeps DEF Reap

LEMMA CrashKeeps ==
  ASSUME IInv, NEW e \in Engines, Crash(e)
  PROVE  IInv'
<1> USE DEF Crash
<1>1. /\ work' \in SUBSET Exec /\ cands' \in [Engines -> SUBSET Tasks]
      /\ decided' \in [Engines -> SUBSET Decision]
      /\ reaping' \in [Engines -> SUBSET {"succeeded", "failed"}]
      /\ \A f \in Engines : /\ cands'[f] \subseteq cands[f] /\ decided'[f] \subseteq decided[f]
                            /\ reaping'[f] \subseteq reaping[f]
  BY DEF IInv, TypeOK
<1>2. ReadsHold'
  BY <1>1, ReadsKept DEF Over, taskRows
<1> QED
  BY <1>1, <1>2, FaultCounts, MemoryStep

\* Every step of every engine keeps the inductive invariant.
LEMMA NextIInv ==
  ASSUME IInv, [Next]_vars
  PROVE  IInv'
<1>1. CASE UNCHANGED vars
  <2>1. ReadsHold'
    BY <1>1, ReadsKept DEF vars, taskRows, memory, Over
  <2> QED
    BY <1>1, <2>1, MemoryStep DEF vars, memory, IInv, TypeOK
<1>2. CASE Claim
  BY <1>2, ClaimReadyKeeps, ClaimTeardownKeeps DEF Claim
<1>3. CASE Result
  BY <1>3, ResultKeeps DEF Result
<1> QED
  BY <1>1, <1>2, <1>3, AdvanceKeeps, LeasesKeep, StopStepKeeps, ReapKeeps, CrashKeeps DEF Next

-----------------------------------------------------------------------------
(* Theorems *)

\* The inductive invariant holds of every reachable state: counters, claims,
\* stops, reads and completions together, since each needs the others.
THEOREM Invariance == Spec => []IInv
<1>1. Init => IInv
  BY InitIInv
<1>2. IInv /\ [Next]_vars => IInv'
  BY NextIInv
<1> QED
  BY <1>1, <1>2, PTL DEF Spec

\* Every column keeps a value of its type; in particular no remaining_deps
\* ever falls below zero.
THEOREM TypeCorrect == Spec => []TypeOK
<1>1. IInv => TypeOK
  BY DEF IInv
<1> QED
  BY <1>1, Invariance, PTL

\* remaining_deps is exact: mark_task_succeeded, mark_task_failed, the skips of
\* advance_ready_tasks, resolve_approval and reconcile_waits between them count
\* every ended dependency off once, in any interleaving and through any crash.
THEOREM CountersAreExact == Spec => []CounterExact
<1>1. IInv => CounterExact
  BY DEF IInv
<1> QED
  BY <1>1, Invariance, PTL

\* No engine starts, skips or opens a task before all its dependencies are
\* over, though advance_exotic_once writes on what it read earlier.
THEOREM DependenciesComeFirst == Spec => []DepsOverFirst
<1>1. IInv => DepsOverFirst
  BY DEF IInv
<1> QED
  BY <1>1, Invariance, PTL

\* Neither reap nor finish_stopped_run ends a run that has a task left.
THEOREM EndedRunsAreOver == Spec => []EndedRunIsOver
<1>1. IInv => EndedRunIsOver
  BY DEF IInv, EndedRunIsOver, RunShape, ClaimedRuns, Over, Terminal
<1> QED
  BY <1>1, Invariance, PTL

\* However many engines reap the run or settle its tasks, its end is announced
\* by one run.completed event.
THEOREM OneCompletion == Spec => []OneCompletionPerEnd
<1>1. IInv => OneCompletionPerEnd
  BY DEF IInv
<1> QED
  BY <1>1, Invariance, PTL

-----------------------------------------------------------------------------
(* What a step may never do *)

\* The statuses and the requests a step leaves, row by row.
LEMMA RowsKeepTheirEnd ==
  ASSUME IInv, Next, NEW t \in Tasks
  PROVE  /\ Over(status, t) => status'[t] = status[t]
         /\ status[t] = "running" /\ stopReq[t] =>
              \/ status'[t] = "running" /\ stopReq'[t]
              \/ status'[t] = "cancelled"
<1> DEFINE Kept == /\ Over(status, t) => status'[t] = status[t]
                   /\ status[t] = "running" /\ stopReq[t] =>
                        \/ status'[t] = "running" /\ stopReq'[t]
                        \/ status'[t] = "cancelled"
<1>1. status \in [Tasks -> Statuses] /\ (stopReq[t] => claimedBy[t] # None)
  BY DEF IInv, TypeOK, ClaimedRuns
<1>2. ASSUME UNCHANGED <<status, stopReq>> PROVE Kept
  BY <1>2
<1>3. ASSUME NEW u \in Tasks, NEW to \in Statuses, status' = [status EXCEPT ![u] = to],
             UNCHANGED stopReq, ~Over(status, u), ~stopReq[u]
      PROVE  Kept
  BY <1>1, <1>3
<1>4. ASSUME NEW x \in work, MayMark(x),
             MarkTaskSucceeded(x) \/ MarkTaskFailed(x) \/ RetryTask(x) \/ RequeueQuotaWait(x)
      PROVE  Kept
  <2>1. x.task \in Tasks /\ ~Over(status, x.task) /\ ~stopReq[x.task]
    BY <1>4, MarkedRow
  <2>2. CASE MarkTaskSucceeded(x)
    <3> DEFINE st == [status EXCEPT ![x.task] = "succeeded"]
               pro == Promoted(st, Decremented(st, {x.task}), x.task)
    <3>1. status' = [u \in Tasks |-> IF u \in pro THEN "ready" ELSE st[u]] /\ UNCHANGED stopReq
      BY <2>2 DEF MarkTaskSucceeded
    <3>2. \A u \in pro : st[u] = "pending"
      BY DEF Promoted
    <3>3. t = x.task => st[t] = "succeeded"
      BY <1>1
    <3>4. t # x.task => st[t] = status[t]
      BY <1>1
    <3> HIDE DEF st, pro
    <3> QED
      BY <2>1, <3>1, <3>2, <3>3, <3>4 DEF Over, Terminal
  <2>3. CASE MarkTaskFailed(x)
    BY <1>3, <2>1, <2>3 DEF MarkTaskFailed, Statuses, Terminal
  <2>4. CASE RetryTask(x) \/ RequeueQuotaWait(x)
    BY <1>3, <2>1, <2>4 DEF RetryTask, RequeueQuotaWait, Statuses
  <2> QED
    BY <1>4, <2>2, <2>3, <2>4
<1>5. ASSUME NEW x \in work, SettleStopping(x) PROVE Kept
  <2>1. x.task \in Tasks /\ status[x.task] = "running"
    BY <1>5 DEF IInv, TypeOK, Exec, SettleStopping, MaySettle
  <2>2. CASE t = x.task
    BY <1>1, <1>5, <2>1, <2>2 DEF SettleStopping, Over, Terminal
  <2>3. CASE t # x.task
    BY <1>1, <1>5, <2>1, <2>3 DEF SettleStopping
  <2> QED
    BY <2>2, <2>3
<1>6. CASE Advance
  <2>1. CASE AdvanceDefaultReady
    BY <2>1 DEF AdvanceDefaultReady, ReadyFrontier, Candidate, Over, Terminal
  <2>2. CASE AdvanceDefaultSkip
    BY <2>2 DEF AdvanceDefaultSkip, SkipFrontier, Candidate, Over, Terminal
  <2>3. ASSUME NEW e \in Engines, AdvanceApply(e) PROVE Kept
    <3>1. PICK c \in decided[e] :
            IF status[c.task] = "pending"
              THEN status' = [status EXCEPT ![c.task] = c.to]
              ELSE UNCHANGED status
      BY <2>3 DEF AdvanceApply
    <3>2. c.task \in Tasks /\ c.to \in Statuses
      BY DEF IInv, TypeOK, Decision, Statuses, Terminal
    <3>3. UNCHANGED stopReq
      BY <2>3 DEF AdvanceApply
    <3>4. CASE status[c.task] = "pending"
      BY <1>3, <3>1, <3>2, <3>3, <3>4, Unclaimed DEF Over, Terminal
    <3> QED
      BY <1>2, <3>1, <3>3, <3>4
  <2>4. ASSUME NEW u \in Tasks, NEW verdict \in {"succeeded", "failed"}, ResolveApproval(u, verdict)
        PROVE  Kept
    BY <1>3, <2>4, Unclaimed DEF ResolveApproval, Statuses, Over, Terminal
  <2>5. ASSUME NEW u \in Tasks, ReconcileWait(u) PROVE Kept
    <3>1. ~stopReq[u]
      BY <2>5 DEF ReconcileWait, IInv, ClaimedRuns, Over, Terminal
    <3> QED
      BY <1>3, <2>5, <3>1 DEF ReconcileWait, Statuses, Over, Terminal
  <2>6. ASSUME NEW e \in Engines, AdvanceCandidates(e) \/ \E u \in Tasks : AdvanceEvaluate(e, u)
        PROVE  Kept
    BY <1>2, <2>6 DEF AdvanceCandidates, AdvanceEvaluate, taskRows
  <2> QED
    BY <1>6, <2>1, <2>2, <2>3, <2>4, <2>5, <2>6 DEF Advance
<1>7. CASE Claim
  <2>1. ASSUME NEW e \in Engines, NEW u \in Tasks, ClaimReady(e, u) PROVE Kept
    BY <1>3, <2>1, Unclaimed DEF ClaimReady, Statuses, Over, Terminal
  <2>2. ASSUME NEW e \in Engines, NEW u \in Tasks, ClaimTeardown(e, u) PROVE Kept
    BY <1>2, <2>2 DEF ClaimTeardown
  <2> QED
    BY <1>7, <2>1, <2>2 DEF Claim
<1>8. CASE Leases
  <2>1. CASE RecoverExpiredLeases
    BY <2>1 DEF RecoverExpiredLeases, Expired, Over, Terminal
  <2> QED
    BY <1>2, <1>8, <2>1 DEF Leases, LeaseLapses, RenewTaskLease
<1>9. ASSUME NEW x \in work,
             \/ ResultSucceeds(x) \/ ResultFails(x) \/ ResultRefused(x)
             \/ ResultGone(x) \/ ResultUnseen(x) \/ DispatchSensor(x)
      PROVE  Kept
  <2>1. \/ MarkTaskSucceeded(x) \/ MarkTaskFailed(x) \/ RetryTask(x) \/ RequeueQuotaWait(x)
        \/ SettleStopping(x) \/ UNCHANGED <<status, stopReq>>
    BY <1>9 DEF ResultSucceeds, ResultFails, ResultRefused, ResultGone, ResultUnseen,
                DispatchSensor, StaleResult, ParkWait, taskRows
  <2>2. MarkTaskSucceeded(x) \/ MarkTaskFailed(x) \/ RetryTask(x) \/ RequeueQuotaWait(x) => MayMark(x)
    BY DEF MarkTaskSucceeded, MarkTaskFailed, RetryTask, RequeueQuotaWait
  <2> QED
    BY <1>2, <1>4, <1>5, <2>1, <2>2
<1>10. CASE Stop
  <2>1. ASSUME StopRunTasks PROVE Kept
    BY <1>1, <2>1 DEF StopRunTasks, Idle, Dispatch, Over, Terminal
  <2> QED
    BY <1>2, <1>10, <2>1 DEF Stop, CancelRun, CancelOverdueRun, TellToStop, taskRows
<1>11. CASE Reap \/ \E e \in Engines : Crash(e)
  BY <1>2, <1>11 DEF Reap, ReapRead, ReapApply, Crash, taskRows
<1> QED
  BY <1>6, <1>7, <1>8, <1>9, <1>10, <1>11 DEF Next, Result

\* The row of a task that is over is never rewritten by the engines: not by a
\* late result, a stale advance, a recovered lease or a stop.
THEOREM TerminalStays == Spec => TerminalIsFinal
<1>1. IInv /\ [Next]_vars => [\A t \in Tasks : Over(status, t) => status'[t] = status[t]]_vars
  BY RowsKeepTheirEnd
<1> QED
  BY <1>1, Invariance, PTL DEF Spec, TerminalIsFinal

\* A stop holds: from the request on, the task is cancelled or still asked.
THEOREM StopHolds == Spec => StopIsFinal
<1>1. IInv /\ [Next]_vars =>
        [\A t \in Tasks : status[t] = "running" /\ stopReq[t] =>
           \/ status'[t] = "running" /\ stopReq'[t]
           \/ status'[t] = "cancelled"]_vars
  BY RowsKeepTheirEnd
<1> QED
  BY <1>1, Invariance, PTL DEF Spec, StopIsFinal

-----------------------------------------------------------------------------
(* What holds of the rows however the run is run *)

\* The columns' types, but for the counters: a clear in a stopping run may
\* leave one that is decremented below zero.
Columns ==
  /\ status \in [Tasks -> Statuses]
  /\ version \in [Tasks -> Nat]
  /\ attempt \in [Tasks -> Nat]
  /\ claimedBy \in [Tasks -> Engines \cup {None}]
  /\ lease \in [Tasks -> {"none", "live", "lapsed"}]
  /\ stopReq \in [Tasks -> BOOLEAN]
  /\ waking \in SUBSET Tasks

MemoryTyped ==
  /\ work \in SUBSET Exec
  /\ cands \in [Engines -> SUBSET Tasks]
  /\ decided \in [Engines -> SUBSET Decision]

RowsInv == Columns /\ MemoryTyped /\ ClaimedRuns

LEMMA IInvRows == IInv => RowsInv
BY DEF IInv, TypeOK, RowsInv, Columns, MemoryTyped

\* The memory of the engines only ever holds executions and reads of tasks.
LEMMA SetDispatchedType ==
  ASSUME RowsInv, NEW e \in Engines, NEW ts \in SUBSET Tasks, NEW kind \in {"held", "teardown"}
  PROVE  Dispatched(e, ts, kind) \in SUBSET Exec
<1>1. \A t \in ts : version[t] + 1 \in Nat /\ attempt[t] + 1 \in Nat
  BY DEF RowsInv, Columns
<1>2. \A x \in work : x \in Exec /\ [x EXCEPT !.kind = "loose"] \in Exec
  BY DEF RowsInv, MemoryTyped, Exec
<1>3. \A t \in ts : [task |-> t, fence |-> version[t] + 1, eng |-> e,
                     attempt |-> attempt[t] + 1, kind |-> kind, told |-> FALSE] \in Exec
  BY <1>1 DEF Exec
<1>4. ASSUME NEW y \in Dispatched(e, ts, kind)
      PROVE  \/ \E x \in work : y = x \/ y = [x EXCEPT !.kind = "loose"]
             \/ \E t \in ts : y = [task |-> t, fence |-> version[t] + 1, eng |-> e,
                attempt |-> attempt[t] + 1, kind |-> kind, told |-> FALSE]
  BY DEF Dispatched, NextFence
<1> QED
  BY <1>2, <1>3, <1>4

LEMMA MemoryKept ==
  ASSUME RowsInv, Next
  PROVE  MemoryTyped'
<1> USE DEF RowsInv, MemoryTyped
<1>1. ASSUME NEW e \in Engines, NEW t \in Tasks, AdvanceEvaluate(e, t)
      PROVE  /\ cands' \in [Engines -> SUBSET Tasks]
             /\ decided' \in [Engines -> SUBSET Decision]
  <2>1. PICK when \in WhenOutcomes(t) :
          decided' = [decided EXCEPT ![e] =
            {[task |-> t,
              to |-> IF when = "error" THEN "failed"
                     ELSE IF when = "pass" /\ TriggerRuleReady(Rule[t], DepStatuses(status, t))
                       THEN IF t \in Gate THEN "awaiting_approval" ELSE "ready"
                       ELSE "skipped"]}]
    BY <1>1 DEF AdvanceEvaluate
  <2> QED
    BY <1>1, <2>1 DEF AdvanceEvaluate, Decision
<1>2. CASE Advance
  <2>1. UNCHANGED work
    BY <1>2 DEF Advance, AdvanceDefaultReady, AdvanceDefaultSkip, AdvanceCandidates,
                AdvanceEvaluate, AdvanceApply, ResolveApproval, ReconcileWait, memory
  <2>2. ASSUME NEW e \in Engines, AdvanceCandidates(e) \/ AdvanceApply(e)
        PROVE  /\ cands' \in [Engines -> SUBSET Tasks]
               /\ decided' \in [Engines -> SUBSET Decision]
    BY <2>2 DEF AdvanceCandidates, AdvanceApply
  <2>3. CASE UNCHANGED memory
    BY <2>3 DEF memory
  <2> QED
    BY <1>1, <1>2, <2>1, <2>2, <2>3
       DEF Advance, AdvanceDefaultReady, AdvanceDefaultSkip, ResolveApproval, ReconcileWait
<1>3. CASE Claim
  <2>1. PICK e \in Engines, t \in Tasks : ClaimReady(e, t) \/ ClaimTeardown(e, t)
    BY <1>3 DEF Claim
  <2>2. UNCHANGED <<cands, decided>> /\ \E kind \in {"held", "teardown"} : work' = Dispatched(e, {t}, kind)
    BY <2>1 DEF ClaimReady, ClaimTeardown
  <2> QED
    BY <2>2, SetDispatchedType
<1>4. CASE Leases
  BY <1>4 DEF Leases, LeaseLapses, RenewTaskLease, RecoverExpiredLeases, memory
<1>5. CASE Result
  <2>1. \E x \in work : Collected(x)
    BY <1>5 DEF Result, ResultSucceeds, ResultFails, ResultRefused, ResultGone, ResultUnseen,
                DispatchSensor
  <2> QED
    BY <2>1 DEF Collected
<1>6. CASE Stop
  <2>1. ASSUME NEW x \in work, TellToStop(x) PROVE work' \in SUBSET Exec
    BY <2>1 DEF TellToStop, Exec
  <2> QED
    BY <1>6, <2>1 DEF Stop, CancelRun, CancelOverdueRun, TellToStop, memory
<1>7. CASE Reap
  BY <1>7 DEF Reap, ReapRead, ReapApply
<1>8. CASE \E e \in Engines : Crash(e)
  BY <1>8 DEF Crash
<1> QED
  BY <1>2, <1>3, <1>4, <1>5, <1>6, <1>7, <1>8 DEF Next

\* What the result of an execution does to the rows, whatever sent it.
ResultWrites(x) ==
  \/ MarkTaskSucceeded(x) \/ MarkTaskFailed(x) \/ RetryTask(x) \/ RequeueQuotaWait(x)
  \/ SettleStopping(x) \/ ParkWait(x)
  \/ /\ UNCHANGED <<status, remaining, version, attempt, claimedBy, stopReq, waking, runRow>>
     /\ lease' = IF MaySettle(x) THEN [lease EXCEPT ![x.task] = "live"] ELSE lease
  \/ UNCHANGED <<taskRows, runRow>>

LEMMA ResultKinds ==
  ASSUME NEW x, \/ ResultSucceeds(x) \/ ResultFails(x) \/ ResultRefused(x)
                \/ ResultGone(x) \/ ResultUnseen(x) \/ DispatchSensor(x)
  PROVE  ResultWrites(x) /\ Collected(x)
BY DEF ResultWrites, ResultSucceeds, ResultFails, ResultRefused, ResultGone, ResultUnseen,
       DispatchSensor, StaleResult

\* The row a result may be marked on is one that runs under a claim.
LEMMA MarkableRow ==
  ASSUME RowsInv, NEW x \in work
  PROVE  /\ x.task \in Tasks /\ x.eng \in Engines /\ x.fence \in Nat
         /\ Owns(x) => /\ status[x.task] = "running" /\ claimedBy[x.task] # None
                       /\ x.task \notin waking
<1>1. x.task \in Tasks /\ x.eng \in Engines /\ x.fence \in Nat
  BY DEF RowsInv, MemoryTyped, Exec
<1>2. Owns(x) => claimedBy[x.task] # None
  BY <1>1, EngineAssumption DEF Owns
<1> QED
  BY <1>1, <1>2 DEF RowsInv, ClaimedRuns, Over, Terminal

LEMMA ResultRows ==
  ASSUME RowsInv, NEW x \in work, ResultWrites(x)
  PROVE  Columns' /\ ClaimedRuns'
<1>1. /\ x.task \in Tasks
      /\ Owns(x) => /\ status[x.task] = "running" /\ claimedBy[x.task] # None
                    /\ x.task \notin waking
  BY MarkableRow
<1>2. CASE MarkTaskSucceeded(x)
  <2> DEFINE st == [status EXCEPT ![x.task] = "succeeded"]
             pro == Promoted(st, Decremented(st, {x.task}), x.task)
  <2>1. /\ status' = [u \in Tasks |-> IF u \in pro THEN "ready" ELSE st[u]]
        /\ Owns(x) /\ ~stopReq[x.task] /\ claimedBy' = [claimedBy EXCEPT ![x.task] = None]
        /\ UNCHANGED <<version, attempt, lease, stopReq, waking>>
    BY <1>2 DEF MarkTaskSucceeded, MayMark
  <2>2. \A u \in pro : st[u] = "pending"
    BY DEF Promoted
  <2>3. st \in [Tasks -> Statuses] /\ st[x.task] = "succeeded" /\ \A u \in Tasks \ {x.task} : st[u] = status[u]
    BY <1>1 DEF RowsInv, Columns, Statuses, Terminal
  <2> HIDE DEF st, pro
  <2>4. Columns'
    BY <1>1, <2>1, <2>3 DEF RowsInv, Columns, Statuses
  <2>5. ASSUME NEW u \in Tasks, u # x.task, status'[u] # status[u]
        PROVE  status[u] = "pending" /\ claimedBy[u] = None /\ ~stopReq[u] /\ u \notin waking
    BY <2>1, <2>2, <2>3, <2>5 DEF RowsInv, ClaimedRuns, Over, Terminal
  <2>6. status'[x.task] = "succeeded"
    BY <1>1, <2>1, <2>2, <2>3
  <2> QED
    BY <1>1, <2>1, <2>4, <2>5, <2>6 DEF RowsInv, Columns, ClaimedRuns, Over, Terminal
<1>3. CASE MarkTaskFailed(x)
  BY <1>1, <1>3 DEF MarkTaskFailed, MayMark, RowsInv, Columns, ClaimedRuns, Statuses, Over, Terminal
<1>4. CASE RetryTask(x)
  BY <1>1, <1>4 DEF RetryTask, MayMark, RowsInv, Columns, ClaimedRuns, Statuses, Over, Terminal
<1>5. CASE RequeueQuotaWait(x)
  BY <1>1, <1>5 DEF RequeueQuotaWait, MayMark, RowsInv, Columns, ClaimedRuns, Statuses, Over, Terminal
<1>6. CASE SettleStopping(x)
  BY <1>1, <1>6 DEF SettleStopping, MaySettle, RowsInv, Columns, ClaimedRuns, Statuses, Over, Terminal
<1>7. CASE ParkWait(x)
  BY <1>1, <1>7 DEF ParkWait, RowsInv, Columns, ClaimedRuns, Over, Terminal
<1>8. CASE \/ /\ UNCHANGED <<status, remaining, version, attempt, claimedBy, stopReq, waking, runRow>>
              /\ lease' = IF MaySettle(x) THEN [lease EXCEPT ![x.task] = "live"] ELSE lease
           \/ UNCHANGED <<taskRows, runRow>>
  BY <1>1, <1>8 DEF MaySettle, taskRows, RowsInv, Columns, ClaimedRuns, Over, Terminal
<1> QED
  BY <1>2, <1>3, <1>4, <1>5, <1>6, <1>7, <1>8 DEF ResultWrites

LEMMA RowsKept ==
  ASSUME RowsInv, Next
  PROVE  RowsInv'
<1>1. SUFFICES Columns' /\ ClaimedRuns'
  BY MemoryKept DEF RowsInv
<1>2. ASSUME UNCHANGED taskRows PROVE Columns' /\ ClaimedRuns'
  BY <1>2 DEF taskRows, RowsInv, Columns, ClaimedRuns, Over
<1>3. ASSUME status' \in [Tasks -> Statuses],
             \A t \in Tasks : \/ status'[t] = status[t]
                              \/ status[t] \in {"pending", "awaiting_approval"}
                              \/ status[t] = "running" /\ t \in waking /\ status'[t] = "succeeded",
             UNCHANGED <<version, attempt, claimedBy, lease, stopReq, waking>>
      PROVE  Columns' /\ ClaimedRuns'
  BY <1>3 DEF RowsInv, Columns, ClaimedRuns, Over, Terminal
<1>4. CASE Advance
  <2> DEFINE Typed == status' \in [Tasks -> Statuses]
             Leave == \A t \in Tasks :
                        \/ status'[t] = status[t]
                        \/ status[t] \in {"pending", "awaiting_approval"}
                        \/ status[t] = "running" /\ t \in waking /\ status'[t] = "succeeded"
             Rest == UNCHANGED <<version, attempt, claimedBy, lease, stopReq, waking>>
  <2>0. status \in [Tasks -> Statuses]
    BY DEF RowsInv, Columns
  <2>1. CASE AdvanceDefaultReady
    <3>1. Typed /\ Leave /\ Rest
      BY <2>0, <2>1 DEF AdvanceDefaultReady, ReadyFrontier, Candidate, Statuses
    <3> QED
      BY <1>3, <3>1
  <2>2. CASE AdvanceDefaultSkip
    <3>1. Typed /\ Leave /\ Rest
      BY <2>0, <2>2 DEF AdvanceDefaultSkip, SkipFrontier, Candidate, Statuses, Terminal
    <3> QED
      BY <1>3, <3>1
  <2>3. ASSUME NEW e \in Engines, AdvanceApply(e) PROVE Columns' /\ ClaimedRuns'
    <3>1. PICK c \in decided[e] : IF status[c.task] = "pending"
                                    THEN status' = [status EXCEPT ![c.task] = c.to]
                                    ELSE UNCHANGED status
      BY <2>3 DEF AdvanceApply
    <3>2. c.task \in Tasks /\ c.to \in {"ready", "awaiting_approval", "skipped", "failed"}
      BY DEF RowsInv, MemoryTyped, Decision
    <3>3. Typed /\ Leave
      BY <2>0, <3>1, <3>2 DEF Statuses, Terminal
    <3>4. Rest
      BY <2>3 DEF AdvanceApply
    <3> QED
      BY <1>3, <3>3, <3>4
  <2>4. ASSUME NEW t \in Tasks, NEW verdict \in {"succeeded", "failed"}, ResolveApproval(t, verdict)
        PROVE  Columns' /\ ClaimedRuns'
    <3>1. Typed /\ Leave /\ Rest
      BY <2>0, <2>4 DEF ResolveApproval, Statuses, Terminal
    <3> QED
      BY <1>3, <3>1
  <2>5. ASSUME NEW t \in Tasks, ReconcileWait(t) PROVE Columns' /\ ClaimedRuns'
    <3>1. Typed /\ Leave /\ Rest
      BY <2>0, <2>5 DEF ReconcileWait, Statuses, Terminal
    <3> QED
      BY <1>3, <3>1
  <2>6. CASE UNCHANGED taskRows
    BY <1>2, <2>6
  <2> QED
    BY <1>4, <2>1, <2>2, <2>3, <2>4, <2>5, <2>6 DEF Advance, AdvanceCandidates, AdvanceEvaluate
<1>5. CASE Claim
  <2>1. PICK e \in Engines, t \in Tasks : ClaimReady(e, t) \/ ClaimTeardown(e, t)
    BY <1>5 DEF Claim
  <2>2. version[t] + 1 \in Nat /\ attempt[t] + 1 \in Nat
    BY DEF RowsInv, Columns
  <2>3. CASE ClaimReady(e, t)
    BY <2>2, <2>3, EngineAssumption
       DEF ClaimReady, NextFence, RowsInv, Columns, ClaimedRuns, Statuses, Over, Terminal
  <2>4. CASE ClaimTeardown(e, t)
    BY <2>2, <2>4, EngineAssumption
       DEF ClaimTeardown, NextFence, RowsInv, Columns, ClaimedRuns, Over, Terminal
  <2> QED
    BY <2>1, <2>3, <2>4
<1>6. CASE Leases
  <2>1. ASSUME NEW t \in Tasks, LeaseLapses(t) PROVE Columns' /\ ClaimedRuns'
    BY <2>1 DEF LeaseLapses, RowsInv, Columns, ClaimedRuns, Over, Terminal
  <2>2. ASSUME NEW x \in work, RenewTaskLease(x) PROVE Columns' /\ ClaimedRuns'
    BY <2>2, MarkableRow DEF RenewTaskLease, RowsInv, Columns, ClaimedRuns, Over
  <2>3. CASE RecoverExpiredLeases
    BY <2>3 DEF RecoverExpiredLeases, Expired, RowsInv, Columns, ClaimedRuns, Statuses, Over, Terminal
  <2> QED
    BY <1>6, <2>1, <2>2, <2>3 DEF Leases
<1>7. CASE Result
  BY <1>7, ResultKinds, ResultRows DEF Result
<1>8. CASE Stop
  <2>1. ASSUME StopRunTasks PROVE Columns' /\ ClaimedRuns'
    BY <2>1 DEF StopRunTasks, Idle, Dispatch, RowsInv, Columns, ClaimedRuns, Statuses, Over, Terminal
  <2> QED
    BY <1>2, <1>8, <2>1 DEF Stop, CancelRun, CancelOverdueRun, TellToStop
<1>9. CASE Reap \/ \E e \in Engines : Crash(e)
  BY <1>2, <1>9 DEF Reap, ReapRead, ReapApply, Crash
<1> QED
  BY <1>4, <1>5, <1>6, <1>7, <1>8, <1>9 DEF Next

-----------------------------------------------------------------------------
(* The fencing token: what the steps do to `version` and to the executions   *)
(* that are out.                                                             *)

\* What becomes of a row that keeps its version: it is claimed afterwards, and
\* not asked to stop, only if it was before, by the same engine.
ClaimKept(t) ==
  /\ version'[t] = version[t]
  /\ status'[t] = "running" /\ claimedBy'[t] # None /\ ~stopReq'[t] =>
       status[t] = "running" /\ claimedBy[t] = claimedBy'[t] /\ ~stopReq[t]

\* A result gives up the claim it was made under, or leaves it.
LEMMA ResultClaims ==
  ASSUME RowsInv, NEW x \in work, ResultWrites(x)
  PROVE  \A u \in Tasks : ClaimKept(u)
<1>1. /\ status \in [Tasks -> Statuses] /\ claimedBy \in [Tasks -> Engines \cup {None}]
      /\ stopReq \in [Tasks -> BOOLEAN] /\ x.task \in Tasks
  BY MarkableRow DEF RowsInv, Columns
<1>2. UNCHANGED version
  BY DEF ResultWrites, MarkTaskSucceeded, MarkTaskFailed, RetryTask, RequeueQuotaWait,
         SettleStopping, ParkWait, taskRows
<1>3. \/ claimedBy' = [claimedBy EXCEPT ![x.task] = None]
      \/ UNCHANGED <<claimedBy, stopReq>>
  BY DEF ResultWrites, MarkTaskSucceeded, MarkTaskFailed, RetryTask, RequeueQuotaWait,
         SettleStopping, ParkWait, taskRows
<1>4. \/ UNCHANGED stopReq
      \/ stopReq' = [stopReq EXCEPT ![x.task] = FALSE]
  BY DEF ResultWrites, MarkTaskSucceeded, MarkTaskFailed, RetryTask, RequeueQuotaWait,
         SettleStopping, ParkWait, taskRows
<1>5. \A u \in Tasks : claimedBy'[u] # None =>
        claimedBy'[u] = claimedBy[u] /\ (stopReq'[u] <=> stopReq[u])
  <2>1. CASE UNCHANGED <<claimedBy, stopReq>>
    BY <2>1
  <2>2. CASE claimedBy' = [claimedBy EXCEPT ![x.task] = None]
    BY <1>1, <1>4, <2>2
  <2> QED
    BY <1>3, <2>1, <2>2
<1>6. \A u \in Tasks : claimedBy[u] # None => status[u] = "running"
  BY DEF RowsInv, ClaimedRuns
<1> QED
  BY <1>2, <1>5, <1>6 DEF ClaimKept

\* Three things a step does to the executions that are out: dispatch one, under
\* a version of its own; tell one to stop; or take some back.
LEMMA StepKinds ==
  ASSUME RowsInv, Next
  PROVE  \/ \E e \in Engines, t \in Tasks, kind \in {"held", "teardown"} :
              /\ ClaimReady(e, t) \/ ClaimTeardown(e, t)
              /\ version' = [version EXCEPT ![t] = @ + 1]
              /\ work' = Dispatched(e, {t}, kind)
              /\ \A u \in Tasks \ {t} : ClaimKept(u)
         \/ \E x \in work :
              /\ TellToStop(x)
              /\ \A u \in Tasks : ClaimKept(u)
         \/ /\ work' \subseteq work
            /\ \A u \in Tasks : ClaimKept(u)
<1> DEFINE Taken == work' \subseteq work /\ \A u \in Tasks : ClaimKept(u)
<1> USE DEF ClaimKept
<1>1. /\ status \in [Tasks -> Statuses] /\ claimedBy \in [Tasks -> Engines \cup {None}]
      /\ stopReq \in [Tasks -> BOOLEAN] /\ version \in [Tasks -> Nat]
  BY DEF RowsInv, Columns
<1>2. CASE Advance
  <2>1. UNCHANGED <<claimedBy, version, stopReq, work>>
    BY <1>2 DEF Advance, AdvanceDefaultReady, AdvanceDefaultSkip, AdvanceCandidates,
                AdvanceEvaluate, AdvanceApply, ResolveApproval, ReconcileWait, taskRows, memory
  <2>2. \A u \in Tasks : claimedBy[u] # None => status[u] = "running"
    BY DEF RowsInv, ClaimedRuns
  <2> QED
    BY <2>1, <2>2
<1>3. ASSUME NEW e \in Engines, NEW t \in Tasks, ClaimReady(e, t) \/ ClaimTeardown(e, t)
      PROVE  \E kind \in {"held", "teardown"} :
               /\ version' = [version EXCEPT ![t] = @ + 1]
               /\ work' = Dispatched(e, {t}, kind)
               /\ \A u \in Tasks \ {t} : ClaimKept(u)
  BY <1>1, <1>3 DEF ClaimReady, ClaimTeardown, NextFence
<1>4. CASE Leases
  <2>1. CASE RecoverExpiredLeases
    BY <2>1 DEF RecoverExpiredLeases, memory
  <2> QED
    BY <1>4, <2>1 DEF Leases, LeaseLapses, RenewTaskLease, memory
<1>5. ASSUME NEW x \in work,
             \/ ResultSucceeds(x) \/ ResultFails(x) \/ ResultRefused(x)
             \/ ResultGone(x) \/ ResultUnseen(x) \/ DispatchSensor(x)
      PROVE  Taken
  BY <1>5, ResultKinds, ResultClaims DEF Collected
<1>6. CASE CancelRun \/ CancelOverdueRun
  <2>1. StopRunTasks /\ UNCHANGED work
    BY <1>6 DEF CancelRun, CancelOverdueRun, memory
  <2>2. UNCHANGED version
    BY <2>1 DEF StopRunTasks
  <2>3. ASSUME NEW u \in Tasks, status'[u] = "running", claimedBy'[u] # None, ~stopReq'[u]
        PROVE  status[u] = "running" /\ claimedBy[u] = claimedBy'[u] /\ ~stopReq[u]
    BY <2>1, <2>3 DEF StopRunTasks, Idle, Dispatch
  <2> QED
    BY <2>1, <2>2, <2>3
<1>7. ASSUME NEW x \in work, TellToStop(x)
      PROVE  \A u \in Tasks : ClaimKept(u)
  BY <1>7 DEF TellToStop, taskRows
<1>8. CASE Reap \/ \E e \in Engines : Crash(e)
  <2>1. UNCHANGED taskRows /\ work' \subseteq work
    BY <1>8 DEF Reap, ReapRead, ReapApply, Crash
  <2> QED
    BY <2>1 DEF taskRows
<1> HIDE DEF ClaimKept
<1> QED
  BY <1>2, <1>3, <1>4, <1>5, <1>6, <1>7, <1>8 DEF Next, Claim, Result, Stop

\* The rows of `ts` are claimed together by e, and none of the others.
Claims(e, ts, kind) ==
  /\ version' = [t \in Tasks |-> IF t \in ts THEN version[t] + 1 ELSE version[t]]
  /\ work' = Dispatched(e, ts, kind)
  /\ \A u \in Tasks \ ts : ClaimKept(u)

Tells(x) ==
  /\ ~(status[x.task] = "running" /\ Owns(x) /\ ~stopReq[x.task])
  /\ work' = (work \ {x}) \cup {[x EXCEPT !.told = TRUE]}
  /\ UNCHANGED <<status, version, claimedBy, stopReq>>

\* Executions are taken back, and rows put under a version nobody holds.
Takes ==
  /\ work' \subseteq work
  /\ \A u \in Tasks : ClaimKept(u) \/ version'[u] = version[u] + 1

FenceStep ==
  \/ \E e \in Engines, ts \in SUBSET Tasks, kind \in {"held", "teardown"} : Claims(e, ts, kind)
  \/ \E x \in work : Tells(x)
  \/ Takes

\* The steps of the engines are such steps.
LEMMA NextIsFenceStep ==
  ASSUME RowsInv, Next
  PROVE  FenceStep
<1>1. ASSUME NEW e \in Engines, NEW t \in Tasks, NEW kind \in {"held", "teardown"},
             version' = [version EXCEPT ![t] = @ + 1], work' = Dispatched(e, {t}, kind),
             \A u \in Tasks \ {t} : ClaimKept(u)
      PROVE  FenceStep
  <2>1. Claims(e, {t}, kind)
    BY <1>1 DEF Claims, RowsInv, Columns
  <2> QED
    BY <2>1 DEF FenceStep
<1>2. ASSUME NEW x \in work, TellToStop(x) PROVE FenceStep
  <2>1. Tells(x)
    BY <1>2 DEF TellToStop, Tells, taskRows
  <2> QED
    BY <2>1 DEF FenceStep
<1> QED
  BY <1>1, <1>2, StepKinds DEF FenceStep, Takes

\* An execution is from a version its row has reached, and no two share one.
LEMMA FencesKept ==
  ASSUME RowsInv, FenceNamesExecution, FenceStep
  PROVE  FenceNamesExecution'
<1>1. \A x \in work : x \in Exec /\ x.task \in Tasks /\ x.fence \in Nat /\ x.fence <= version[x.task]
  BY DEF RowsInv, MemoryTyped, Exec, FenceNamesExecution
<1>2. version \in [Tasks -> Nat]
  BY DEF RowsInv, Columns
<1>3. ASSUME NEW e \in Engines, NEW ts \in SUBSET Tasks, NEW kind \in {"held", "teardown"},
             Claims(e, ts, kind)
      PROVE  FenceNamesExecution'
  <2> DEFINE new(t) == [task |-> t, fence |-> version[t] + 1, eng |-> e,
                        attempt |-> attempt[t] + 1, kind |-> kind, told |-> FALSE]
             aged(x) == IF x.eng = e /\ x.task \in ts /\ x.kind = "held" /\ kind = "held"
                          THEN [x EXCEPT !.kind = "loose"] ELSE x
  <2>1. \A y \in work' : (\E t \in ts : y = new(t)) \/ \E x \in work : y = aged(x)
    BY <1>3 DEF Claims, Dispatched, NextFence
  <2>2. \A x \in work : aged(x).task = x.task /\ aged(x).fence = x.fence
    BY <1>1 DEF Exec
  <2>3. \A t \in ts : new(t).task = t /\ new(t).fence = version[t] + 1
    OBVIOUS
  <2>4. \A u \in Tasks : version'[u] \in Nat /\ version[u] \in Nat /\ version[u] <= version'[u]
    BY <1>2, <1>3 DEF Claims
  <2>5. \A t \in ts : version'[t] = version[t] + 1 /\ version[t] \in Nat
    BY <1>2, <1>3 DEF Claims
  <2> HIDE DEF new, aged
  <2>6. ASSUME NEW y \in work' PROVE y.fence <= version'[y.task]
    <3>1. ASSUME NEW t \in ts, y = new(t) PROVE y.fence <= version'[y.task]
      BY <2>3, <2>5, <3>1
    <3>2. ASSUME NEW x \in work, y = aged(x) PROVE y.fence <= version'[y.task]
      <4>1. y.task = x.task /\ y.fence = x.fence /\ x.task \in Tasks
        BY <1>1, <2>2, <3>2
      <4>2. version[x.task] <= version'[x.task] /\ version[x.task] \in Nat /\ version'[x.task] \in Nat
        BY <2>4, <4>1
      <4> QED
        BY <1>1, <4>1, <4>2
    <3> QED
      BY <2>1, <3>1, <3>2
  <2>7. \A x \in work, t \in ts : x.task = t => x.fence # version[t] + 1
    BY <1>1, <2>5
  <2>8. ASSUME NEW y \in work', NEW z \in work', y.task = z.task, y.fence = z.fence
        PROVE  y = z
    <3>1. ASSUME NEW t \in ts, NEW u \in ts, y = new(t), z = new(u) PROVE y = z
      <4>1. t = u
        BY <2>3, <2>8, <3>1
      <4> QED
        BY <3>1, <4>1
    <3>2. ASSUME NEW x \in work, NEW t \in ts, \/ y = new(t) /\ z = aged(x)
                                               \/ z = new(t) /\ y = aged(x)
          PROVE  FALSE
      BY <2>2, <2>3, <2>7, <2>8, <3>2
    <3>3. ASSUME NEW x \in work, y = aged(x), NEW w \in work, z = aged(w) PROVE y = z
      <4>1. x = w
        BY <2>2, <2>8, <3>3 DEF FenceNamesExecution
      <4> QED
        BY <3>3, <4>1
    <3> QED
      BY <2>1, <3>1, <3>2, <3>3
  <2> QED
    BY <2>6, <2>8 DEF FenceNamesExecution
<1>4. ASSUME NEW x \in work, Tells(x)
      PROVE  FenceNamesExecution'
  <2> DEFINE gone == [x EXCEPT !.told = TRUE]
  <2>1. work' = (work \ {x}) \cup {gone} /\ version' = version
    BY <1>4 DEF Tells
  <2>2. gone.task = x.task /\ gone.fence = x.fence
    BY <1>1 DEF Exec
  <2> HIDE DEF gone
  <2> QED
    BY <2>1, <2>2 DEF FenceNamesExecution
<1>5. ASSUME Takes
      PROVE  FenceNamesExecution'
  <2>1. \A u \in Tasks : version[u] \in Nat /\ (version'[u] = version[u] \/ version'[u] = version[u] + 1)
    BY <1>2, <1>5 DEF Takes, ClaimKept
  <2>2. ASSUME NEW x \in work PROVE x.fence <= version'[x.task]
    BY <1>1, <2>1
  <2> QED
    BY <1>5, <2>2 DEF FenceNamesExecution, Takes
<1> QED
  BY <1>3, <1>4, <1>5 DEF FenceStep

\* An execution that is told to stop has lost its row for good.
LEMMA ToldKept ==
  ASSUME RowsInv, FenceNamesExecution, ToldOnlyWhenLost, FenceStep
  PROVE  ToldOnlyWhenLost'
<1> DEFINE Lost(x) == ~(status[x.task] = "running" /\ Owns(x) /\ ~stopReq[x.task])
<1>1. \A x \in work : /\ x \in Exec /\ x.task \in Tasks /\ x.fence \in Nat /\ x.eng \in Engines
                      /\ x.eng # None /\ x.fence <= version[x.task]
  BY EngineAssumption DEF RowsInv, MemoryTyped, Exec, FenceNamesExecution
<1>2. ASSUME NEW x \in work, ClaimKept(x.task), Lost(x)
      PROVE  Lost(x)'
  BY <1>1, <1>2 DEF Owns, ClaimKept
<1>3. ASSUME NEW x \in work, version'[x.task] = version[x.task] + 1
      PROVE  Lost(x)'
  <2>1. version[x.task] \in Nat
    BY <1>1 DEF RowsInv, Columns
  <2> QED
    BY <1>1, <1>3, <2>1 DEF Owns
<1>4. ASSUME NEW e \in Engines, NEW ts \in SUBSET Tasks, NEW kind \in {"held", "teardown"},
             Claims(e, ts, kind)
      PROVE  ToldOnlyWhenLost'
  <2> DEFINE aged(x) == IF x.eng = e /\ x.task \in ts /\ x.kind = "held" /\ kind = "held"
                          THEN [x EXCEPT !.kind = "loose"] ELSE x
  <2>1. \A y \in work' : y.told => \E x \in work : y = aged(x)
    BY <1>4 DEF Claims, Dispatched
  <2>2. \A x \in work : /\ aged(x).task = x.task /\ aged(x).fence = x.fence
                        /\ aged(x).eng = x.eng /\ aged(x).told = x.told
    BY <1>1 DEF Exec
  <2> HIDE DEF aged
  <2> SUFFICES ASSUME NEW y \in work', y.told PROVE Lost(y)'
    BY DEF ToldOnlyWhenLost
  <2>3. PICK x \in work : y = aged(x)
    BY <2>1
  <2>4. y.task = x.task /\ y.fence = x.fence /\ y.eng = x.eng /\ x.told
    BY <2>2, <2>3
  <2>5. ASSUME x.task \in ts PROVE Lost(x)'
    BY <1>1, <1>3, <1>4, <2>5 DEF Claims
  <2>6. ASSUME x.task \notin ts PROVE Lost(x)'
    BY <1>1, <1>2, <1>4, <2>4, <2>6 DEF ToldOnlyWhenLost, Claims
  <2>7. Lost(x)'
    BY <2>5, <2>6
  <2> QED
    BY <2>4, <2>7 DEF Owns
<1>5. ASSUME NEW x \in work, Tells(x)
      PROVE  ToldOnlyWhenLost'
  <2> DEFINE gone == [x EXCEPT !.told = TRUE]
  <2>1. /\ work' = (work \ {x}) \cup {gone} /\ Lost(x)
        /\ UNCHANGED <<status, claimedBy, version, stopReq>>
    BY <1>5 DEF Tells
  <2>2. gone.task = x.task /\ gone.fence = x.fence /\ gone.eng = x.eng
    BY <1>1 DEF Exec
  <2> HIDE DEF gone
  <2> QED
    BY <2>1, <2>2 DEF ToldOnlyWhenLost, Owns
<1>6. ASSUME Takes
      PROVE  ToldOnlyWhenLost'
  <2>1. ASSUME NEW x \in work, x.told PROVE Lost(x)'
    BY <1>1, <1>2, <1>3, <1>6, <2>1 DEF ToldOnlyWhenLost, Takes
  <2> QED
    BY <1>6, <2>1 DEF ToldOnlyWhenLost, Takes
<1> QED
  BY <1>4, <1>5, <1>6 DEF FenceStep

\* No two executions of a task ever run under the same fencing token, across
\* claims, teardowns, recovered leases, refusals and crashes: the version alone
\* tells a result of the present claim from a late one.
THEOREM FencesAreUnique == Spec => []FenceNamesExecution
<1>1. Init => FenceNamesExecution
  BY DEF Init, FenceNamesExecution
<1>2. IInv /\ FenceNamesExecution /\ [Next]_vars => FenceNamesExecution'
  BY IInvRows, NextIsFenceStep, FencesKept DEF FenceNamesExecution, vars, taskRows, memory
<1> QED
  BY <1>1, <1>2, Invariance, PTL DEF Spec

\* The stop sweep and the heartbeat never tell an execution to stop whose row
\* is still its own to run, and no later step gives such a row back to it.
THEOREM ToldHasLost == Spec => []ToldOnlyWhenLost
<1>1. Init => ToldOnlyWhenLost
  BY DEF Init, ToldOnlyWhenLost
<1>2. IInv /\ FenceNamesExecution /\ ToldOnlyWhenLost /\ [Next]_vars => ToldOnlyWhenLost'
  BY IInvRows, NextIsFenceStep, ToldKept DEF ToldOnlyWhenLost, Owns, vars, taskRows, memory
<1> QED
  BY <1>1, <1>2, Invariance, FencesAreUnique, PTL DEF Spec

-----------------------------------------------------------------------------
(* The verdict on a run *)

\* What a final status says of the tasks.
Verdict(end) ==
  IF end = "succeeded"
    THEN \A t \in Tasks : \/ status[t] \in {"succeeded", "skipped"}
                          \/ status[t] = "failed" /\ t \in AllowFailure
    ELSE \E t \in Tasks \ AllowFailure : status[t] = "failed"

\* A task is cancelled only in a run that is stopping or ended as stopped, so
\* a reap never reads one; and what a reap has read is still so when it writes.
VerdictInv ==
  /\ VerdictMatchesTasks
  /\ \A t \in Tasks : stopReq[t] \/ status[t] = "cancelled" =>
       stoppingAs # None \/ runStatus \in {"cancelled", "failed"}
  /\ stoppingAs = "failed" => Deadline
  /\ \A e \in Engines : \A end \in reaping[e] : Verdict(end)

\* A step that neither stops nor reaps: no task is cancelled by it, and no
\* verdict is read.
GoesOn ==
  /\ UNCHANGED runRow /\ UNCHANGED stopReq
  /\ \A t \in Tasks : status'[t] = "cancelled" => status[t] = "cancelled"
  /\ \A e \in Engines : reaping'[e] \subseteq reaping[e]

LEMMA VerdictSteps ==
  ASSUME IInv, Next
  PROVE  \/ GoesOn
         \/ \E e \in Engines : ReapRead(e) \/ ReapApply(e)
         \/ CancelRun \/ CancelOverdueRun
         \/ \E x \in work : SettleStopping(x) /\ UNCHANGED reaping
<1>1. /\ status \in [Tasks -> Statuses] /\ decided \in [Engines -> SUBSET Decision]
      /\ reaping \in [Engines -> SUBSET {"succeeded", "failed"}]
  BY DEF IInv, TypeOK
<1>2. ASSUME UNCHANGED <<status, stopReq, reaping>>, UNCHANGED runRow PROVE GoesOn
  BY <1>2 DEF GoesOn
<1>3. ASSUME NEW t \in Tasks, NEW to, to # "cancelled", status' = [status EXCEPT ![t] = to],
             UNCHANGED <<stopReq, reaping>>, UNCHANGED runRow
      PROVE  GoesOn
  BY <1>1, <1>3 DEF GoesOn
<1>4. CASE Advance
  <2>1. CASE AdvanceDefaultReady
    BY <2>1 DEF AdvanceDefaultReady, GoesOn, memory
  <2>2. CASE AdvanceDefaultSkip
    BY <2>2 DEF AdvanceDefaultSkip, GoesOn, memory
  <2>3. ASSUME NEW e \in Engines, AdvanceApply(e) PROVE GoesOn
    <3>1. PICK c \in decided[e] : status' = [status EXCEPT ![c.task] = c.to] \/ UNCHANGED status
      BY <2>3 DEF AdvanceApply
    <3>2. c.task \in Tasks /\ c.to # "cancelled"
      BY <1>1 DEF Decision
    <3>3. UNCHANGED <<stopReq, reaping>> /\ UNCHANGED runRow
      BY <2>3 DEF AdvanceApply
    <3> QED
      BY <1>2, <1>3, <3>1, <3>2, <3>3
  <2>4. ASSUME NEW t \in Tasks, NEW verdict \in {"succeeded", "failed"}, ResolveApproval(t, verdict)
        PROVE  GoesOn
    BY <1>3, <2>4 DEF ResolveApproval, memory
  <2>5. ASSUME NEW t \in Tasks, ReconcileWait(t) PROVE GoesOn
    BY <1>3, <2>5 DEF ReconcileWait, memory
  <2>6. ASSUME NEW e \in Engines, AdvanceCandidates(e) \/ \E t \in Tasks : AdvanceEvaluate(e, t)
        PROVE  GoesOn
    BY <1>2, <2>6 DEF AdvanceCandidates, AdvanceEvaluate, taskRows
  <2> QED
    BY <1>4, <2>1, <2>2, <2>3, <2>4, <2>5, <2>6 DEF Advance
<1>5. CASE Claim
  <2>1. ASSUME NEW e \in Engines, NEW t \in Tasks, ClaimReady(e, t) PROVE GoesOn
    BY <1>3, <2>1 DEF ClaimReady
  <2>2. ASSUME NEW e \in Engines, NEW t \in Tasks, ClaimTeardown(e, t) PROVE GoesOn
    BY <1>2, <2>2 DEF ClaimTeardown
  <2> QED
    BY <1>5, <2>1, <2>2 DEF Claim
<1>6. CASE Leases
  <2>1. CASE RecoverExpiredLeases
    BY <2>1 DEF RecoverExpiredLeases, GoesOn, memory
  <2> QED
    BY <1>2, <1>6, <2>1 DEF Leases, LeaseLapses, RenewTaskLease, memory
<1>7. ASSUME NEW x \in work,
             \/ ResultSucceeds(x) \/ ResultFails(x) \/ ResultRefused(x)
             \/ ResultGone(x) \/ ResultUnseen(x) \/ DispatchSensor(x)
      PROVE  GoesOn \/ (SettleStopping(x) /\ UNCHANGED reaping)
  <2>1. x.task \in Tasks
    BY DEF IInv, TypeOK, Exec
  <2>2. UNCHANGED reaping
    BY <1>7 DEF ResultSucceeds, ResultFails, ResultRefused, ResultGone, ResultUnseen,
                DispatchSensor, Collected
  <2>3. \/ MarkTaskSucceeded(x) \/ MarkTaskFailed(x) \/ RetryTask(x) \/ RequeueQuotaWait(x)
        \/ SettleStopping(x) \/ (UNCHANGED <<status, stopReq>> /\ UNCHANGED runRow)
    BY <1>7 DEF ResultSucceeds, ResultFails, ResultRefused, ResultGone, ResultUnseen,
                DispatchSensor, StaleResult, ParkWait, taskRows
  <2>4. ASSUME MarkTaskSucceeded(x) PROVE GoesOn
    <3> DEFINE st == [status EXCEPT ![x.task] = "succeeded"]
               pro == Promoted(st, Decremented(st, {x.task}), x.task)
    <3>1. /\ status' = [u \in Tasks |-> IF u \in pro THEN "ready" ELSE st[u]]
          /\ UNCHANGED stopReq /\ UNCHANGED runRow
      BY <2>4 DEF MarkTaskSucceeded
    <3>2. \A u \in Tasks : st[u] = "cancelled" => status[u] = "cancelled"
      BY <1>1
    <3> HIDE DEF st, pro
    <3> QED
      BY <2>2, <3>1, <3>2 DEF GoesOn
  <2>5. ASSUME MarkTaskFailed(x) \/ RetryTask(x) \/ RequeueQuotaWait(x) PROVE GoesOn
    BY <1>3, <2>1, <2>2, <2>5 DEF MarkTaskFailed, RetryTask, RequeueQuotaWait
  <2> QED
    BY <1>2, <2>2, <2>3, <2>4, <2>5
<1>8. ASSUME NEW x \in work, TellToStop(x) PROVE GoesOn
  BY <1>2, <1>8 DEF TellToStop, taskRows
<1>9. ASSUME NEW e \in Engines, Crash(e) PROVE GoesOn
  BY <1>1, <1>9 DEF Crash, GoesOn, taskRows
<1> QED
  BY <1>4, <1>5, <1>6, <1>7, <1>8, <1>9 DEF Next, Result, Stop, Reap

\* Where every task is over, a verdict on them stands.
LEMMA VerdictStands ==
  ASSUME NEW end, \A t \in Tasks : status'[t] = status[t], Verdict(end)
  PROVE  Verdict(end)'
BY DEF Verdict

LEMMA VerdictKept ==
  ASSUME IInv, VerdictInv, Next
  PROVE  VerdictInv'
<1> USE DEF VerdictInv
<1>1. \A t \in Tasks : Over(status, t) => status'[t] = status[t]
  BY RowsKeepTheirEnd
<1>2. runStatus # "running" => \A t \in Tasks : status'[t] = status[t]
  BY <1>1 DEF IInv, RunShape
<1>3. \A e \in Engines : \A end \in reaping[e] : (\A t \in Tasks : status'[t] = status[t]) /\ Verdict(end)'
  BY <1>1, VerdictStands DEF IInv, ReadsHold
<1>4. stoppingAs \in {None, "cancelled", "failed"} /\ runStatus \in {"running", "succeeded", "failed", "cancelled"}
  BY DEF IInv, TypeOK
<1>5. \A t \in Tasks : stopReq[t] => status[t] = "running"
  BY DEF IInv, ClaimedRuns
<1>6. CASE GoesOn
  <2>1. VerdictMatchesTasks'
    BY <1>2, <1>6 DEF GoesOn, runRow, VerdictMatchesTasks
  <2>2. \A e \in Engines : \A end \in reaping'[e] : Verdict(end)'
    BY <1>3, <1>6 DEF GoesOn
  <2> QED
    BY <1>6, <2>1, <2>2 DEF GoesOn, runRow
<1>7. ASSUME NEW e \in Engines, ReapRead(e) PROVE VerdictInv'
  <2>1. UNCHANGED <<status, stopReq, runStatus, stoppingAs>> /\ reaping' = [reaping EXCEPT ![e] = {FinalStatus}]
    BY <1>7 DEF ReapRead, taskRows, runRow
  <2>2. \A t \in Tasks : status[t] \in {"succeeded", "skipped", "failed"}
    BY <1>7 DEF ReapRead, Over, Terminal
  <2>3. Verdict(FinalStatus)
    BY <2>2 DEF Verdict, FinalStatus
  <2>4. \A f \in Engines : \A end \in reaping'[f] : Verdict(end)
    BY <2>1, <2>3 DEF IInv, TypeOK
  <2>5. \A f \in Engines : \A end \in reaping'[f] : Verdict(end)'
    BY <2>1, <2>4, VerdictStands
  <2> QED
    BY <2>1, <2>5 DEF VerdictMatchesTasks
<1>8. ASSUME NEW e \in Engines, ReapApply(e) PROVE VerdictInv'
  <2>1. PICK end \in reaping[e] :
          IF runStatus = "running" THEN runStatus' = end ELSE UNCHANGED runStatus
    BY <1>8 DEF ReapApply
  <2>2. UNCHANGED <<status, stopReq, stoppingAs>> /\ reaping' = [reaping EXCEPT ![e] = {}]
    BY <1>8 DEF ReapApply, taskRows
  <2>3. Verdict(end) /\ end \in {"succeeded", "failed"}
    BY DEF IInv, TypeOK
  <2>4. \A f \in Engines : \A o \in reaping'[f] : Verdict(o)'
    BY <1>3, <2>2 DEF IInv, TypeOK
  <2>5. VerdictMatchesTasks'
    BY <2>1, <2>2, <2>3 DEF VerdictMatchesTasks, Verdict
  <2>6. CASE runStatus = "running"
    <3>1. \A t \in Tasks : ~stopReq[t]
      BY <1>5 DEF IInv, ReadsHold, Over, Terminal
    <3>2. end = "succeeded" => \A t \in Tasks : status[t] # "cancelled"
      BY <2>3 DEF Verdict
    <3> QED
      BY <2>1, <2>2, <2>3, <2>4, <2>5, <2>6, <3>1, <3>2
  <2> QED
    BY <2>1, <2>2, <2>4, <2>5, <2>6
<1>9. ASSUME NEW as \in {"cancelled", "failed"}, as = "failed" => Deadline,
             FinishStoppedRun(as, status', stopReq'), runStatus = "running", UNCHANGED reaping
      PROVE  VerdictInv'
  <2>1. \/ runStatus' = as /\ stoppingAs' = None
        \/ runStatus' = "running" /\ stoppingAs' = as
    BY <1>9 DEF FinishStoppedRun
  <2>2. as # None
    BY EngineAssumption
  <2>3. VerdictMatchesTasks'
    BY <1>9, <2>1 DEF VerdictMatchesTasks
  <2>4. \A e \in Engines : \A end \in reaping'[e] : Verdict(end)'
    BY <1>3, <1>9
  <2> QED
    BY <1>9, <2>1, <2>2, <2>3, <2>4, EngineAssumption
<1>10. CASE CancelRun
  BY <1>4, <1>9, <1>10 DEF CancelRun, memory
<1>11. CASE CancelOverdueRun
  BY <1>9, <1>11 DEF CancelOverdueRun, memory
<1>12. ASSUME NEW x \in work, SettleStopping(x), UNCHANGED reaping PROVE VerdictInv'
  <2>1. x.task \in Tasks /\ status[x.task] = "running" /\ stopReq[x.task]
    BY <1>12 DEF IInv, TypeOK, Exec, SettleStopping, MaySettle
  <2>2. runStatus = "running"
    BY <2>1 DEF IInv, RunShape, Over, Terminal
  <2>3. stoppingAs # None
    BY <2>1, <2>2
  <2> QED
    BY <1>4, <1>9, <1>12, <2>2, <2>3 DEF SettleStopping
<1> QED
  BY <1>6, <1>7, <1>8, <1>10, <1>11, <1>12, VerdictSteps

\* A run is called succeeded only where no task of it was cancelled or failed
\* without leave, and failed only where one did or its time ran out: the reap
\* decides in one transaction and writes in another, and a stop may come
\* between the two.
THEOREM VerdictsMatch == Spec => []VerdictMatchesTasks
<1>1. Init => VerdictInv
  BY EngineAssumption DEF Init, VerdictInv, VerdictMatchesTasks
<1>2. IInv /\ VerdictInv /\ [Next]_vars => VerdictInv'
  <2>1. ASSUME VerdictInv, UNCHANGED vars PROVE VerdictInv'
    BY <2>1 DEF VerdictInv, VerdictMatchesTasks, Verdict, vars, taskRows, runRow, memory
  <2> QED
    BY <2>1, VerdictKept
<1>3. VerdictInv => VerdictMatchesTasks
  BY DEF VerdictInv
<1> QED
  BY <1>1, <1>2, <1>3, Invariance, PTL DEF Spec

-----------------------------------------------------------------------------
(* The trigger rules *)

\* The rule of a task as the engines evaluate it.
Met(t) == TriggerRuleReady(Rule[t], DepStatuses(status, t))

\* What a status, or a decision to take one, says of the rule.
RightFor(t, to) ==
  /\ to \in {"ready", "running", "awaiting_approval", "succeeded"} => Met(t)
  /\ to = "skipped" /\ t \notin Conditional => ~Met(t)

\* The rows, and the decisions the engines have not written yet, keep to the
\* rules.
RulesInv ==
  /\ \A t \in Tasks : RightFor(t, status[t])
  /\ \A e \in Engines : \A c \in decided[e] : RightFor(c.task, c.to)

\* Some, all or none of a finite set, counted.
LEMMA Counting ==
  ASSUME NEW S, IsFiniteSet(S), NEW T \in SUBSET S
  PROVE  /\ Cardinality(T) = Cardinality(S) <=> T = S
         /\ Cardinality(T) > 0 <=> T # {}
         /\ Cardinality(T) = 0 <=> T = {}
<1>1. IsFiniteSet(T) /\ (Cardinality(T) = Cardinality(S) => T = S)
  BY FS_Subset
<1>2. Cardinality(T) \in Nat /\ (Cardinality(T) = 0 <=> T = {})
  BY <1>1, FS_CardinalityType, FS_EmptySet
<1> QED
  BY <1>1, <1>2

\* Once the dependencies are over, the rule the engines evaluate over the set
\* of their statuses is the one that counts them.
LEMMA RuleCounted ==
  ASSUME IInv, NEW t \in Tasks, \A d \in Deps[t] : Over(status, d)
  PROVE  RuleAsks(t) <=> Met(t)
<1> DEFINE of(sts) == {d \in Deps[t] : status[d] \in sts}
           bad == {"failed", "cancelled"}
<1>1. IsFiniteSet(Deps[t]) /\ Rule[t] \in TriggerRules
  BY DagAssumption, FS_Subset
<1>2. Cardinality(Deps[t]) = 0 <=> Deps[t] = {}
  BY <1>1, FS_EmptySet
<1>3. \A sts : /\ Cardinality(of(sts)) = Cardinality(Deps[t]) <=> of(sts) = Deps[t]
               /\ Cardinality(of(sts)) > 0 <=> of(sts) # {}
               /\ Cardinality(of(sts)) = 0 <=> of(sts) = {}
  BY <1>1, Counting
<1>4. \A sts : /\ of(sts) = Deps[t] <=> DepStatuses(status, t) \subseteq sts
               /\ of(sts) # {} <=> DepStatuses(status, t) \cap sts # {}
  BY DEF DepStatuses
<1>5. DepStatuses(status, t) \subseteq Terminal /\ (DepStatuses(status, t) = {} <=> Deps[t] = {})
  BY DEF DepStatuses, Over
<1>6. RuleAsks(t) <=>
        \/ Deps[t] = {}
        \/ Rule[t] = "all_success" /\ of({"succeeded"}) = Deps[t]
        \/ Rule[t] = "all_done" /\ of(Terminal) = Deps[t]
        \/ Rule[t] = "one_failed" /\ of(bad) # {}
        \/ Rule[t] = "all_failed" /\ of(bad) = Deps[t]
        \/ Rule[t] = "none_failed" /\ of(bad) = {}
  <2>1. CASE Rule[t] = "all_success"
    BY <1>2, <1>3, <2>1 DEF RuleAsks
  <2>2. CASE Rule[t] = "all_done"
    BY <1>2, <1>3, <2>2 DEF RuleAsks
  <2>3. CASE Rule[t] = "one_failed"
    <3>1. Cardinality(of(bad)) > 0 <=> of(bad) # {}
      BY <1>3
    <3>2. RuleAsks(t) <=> Cardinality(Deps[t]) = 0 \/ Cardinality(of(bad)) > 0
      BY <2>3 DEF RuleAsks
    <3> HIDE DEF of
    <3> QED
      BY <1>2, <2>3, <3>1, <3>2
  <2>4. CASE Rule[t] = "all_failed"
    BY <1>2, <1>3, <2>4 DEF RuleAsks
  <2>5. CASE Rule[t] = "none_failed"
    <3>1. Cardinality(of(bad)) = 0 <=> of(bad) = {}
      <4> HIDE DEF of
      <4> QED
        BY <1>3
    <3>2. RuleAsks(t) <=> Cardinality(Deps[t]) = 0 \/ Cardinality(of(bad)) = 0
      BY <2>5 DEF RuleAsks
    <3> HIDE DEF of
    <3> QED
      BY <1>2, <2>5, <3>1, <3>2
  <2> QED
    BY <1>1, <2>1, <2>2, <2>3, <2>4, <2>5 DEF TriggerRules
<1> HIDE DEF of
<1>7. of(bad) = {} <=> DepStatuses(status, t) \subseteq {"succeeded", "skipped"}
  BY <1>4, <1>5 DEF Terminal
<1> QED
  BY <1>1, <1>4, <1>5, <1>6, <1>7 DEF Met, TriggerRuleReady, TriggerRules

\* Dependencies that are over stay as they are, and with them the rule.
LEMMA RuleStands ==
  ASSUME IInv, Next, NEW t \in Tasks, \A d \in Deps[t] : Over(status, d)
  PROVE  Met(t)' <=> Met(t)
<1>1. \A d \in Deps[t] : status'[d] = status[d]
  BY DagAssumption, RowsKeepTheirEnd
<1>2. DepStatuses(status', t) = DepStatuses(status, t)
  BY <1>1 DEF DepStatuses
<1> QED
  BY <1>2 DEF Met

\* All dependencies having succeeded meets every rule a default task has.
LEMMA DefaultRule ==
  ASSUME NEW t \in Tasks, DefaultShaped(t), NEW st
  PROVE  TriggerRuleReady(Rule[t], DepStatuses(st, t)) <=> AllDepsSucceeded(st, t)
BY DEF DefaultShaped, TriggerRuleReady, DepStatuses, AllDepsSucceeded

\* How the status of one task may change: as it was; from one that asked for
\* the rule to another that asks no more; or out of `pending`, with the rule
\* looked at by the set-based statements or in a decision of an engine.
Moves(t) ==
  \/ status'[t] = status[t]
  \/ status'[t] \in {"pending", "failed", "cancelled"}
  \/ /\ status[t] \in {"ready", "running", "awaiting_approval"}
     /\ status'[t] \in {"ready", "running", "awaiting_approval", "succeeded"}
  \/ status'[t] = "ready" /\ DefaultShaped(t) /\ AllDepsSucceeded(status', t)
  \/ /\ status'[t] = "skipped" /\ DefaultShaped(t) /\ ~AllDepsSucceeded(status, t)
     /\ \A d \in Deps[t] : Over(status, d)
  \/ \E e \in Engines : \E c \in decided[e] : c.task = t /\ status'[t] = c.to

LEMMA RowsMove ==
  ASSUME IInv, Next, NEW t \in Tasks
  PROVE  Moves(t)
<1>1. status \in [Tasks -> Statuses] /\ Deps[t] \subseteq Tasks
  BY DagAssumption DEF IInv, TypeOK
<1>2. ASSUME UNCHANGED status PROVE Moves(t)
  BY <1>2 DEF Moves
<1>3. ASSUME NEW u \in Tasks, NEW to, status' = [status EXCEPT ![u] = to],
             \/ to \in {"failed", "cancelled"}
             \/ /\ status[u] \in {"ready", "running", "awaiting_approval"}
                /\ to \in {"ready", "running", "succeeded"}
      PROVE  Moves(t)
  BY <1>1, <1>3 DEF Moves
<1>4. CASE Advance
  <2>1. CASE AdvanceDefaultReady
    <3>1. \A d \in Tasks : status[d] = "succeeded" => status'[d] = "succeeded"
      BY <2>1 DEF AdvanceDefaultReady, ReadyFrontier, Candidate
    <3>2. CASE t \in ReadyFrontier
      <4>1. DefaultShaped(t) /\ AllDepsSucceeded(status', t)
        BY <1>1, <3>1, <3>2 DEF ReadyFrontier, AllDepsSucceeded
      <4> QED
        BY <2>1, <3>2, <4>1 DEF AdvanceDefaultReady, Moves
    <3> QED
      BY <2>1, <3>2 DEF AdvanceDefaultReady, Moves
  <2>2. CASE AdvanceDefaultSkip
    <3>1. CASE t \in SkipFrontier
      <4>1. DefaultShaped(t) /\ ~AllDepsSucceeded(status, t) /\ \A d \in Deps[t] : Over(status, d)
        BY <3>1, ZeroMeansOver DEF SkipFrontier, IInv
      <4> QED
        BY <2>2, <3>1, <4>1 DEF AdvanceDefaultSkip, Moves
    <3> QED
      BY <2>2, <3>1 DEF AdvanceDefaultSkip, Moves
  <2>3. ASSUME NEW e \in Engines, AdvanceApply(e) PROVE Moves(t)
    <3>1. PICK c \in decided[e] : status' = [status EXCEPT ![c.task] = c.to] \/ UNCHANGED status
      BY <2>3 DEF AdvanceApply
    <3> QED
      BY <1>1, <3>1 DEF Moves
  <2>4. ASSUME NEW u \in Tasks, NEW verdict \in {"succeeded", "failed"}, ResolveApproval(u, verdict)
        PROVE  Moves(t)
    BY <1>3, <2>4 DEF ResolveApproval
  <2>5. ASSUME NEW u \in Tasks, ReconcileWait(u) PROVE Moves(t)
    BY <1>3, <2>5 DEF ReconcileWait
  <2>6. ASSUME NEW e \in Engines, AdvanceCandidates(e) \/ \E u \in Tasks : AdvanceEvaluate(e, u)
        PROVE  Moves(t)
    BY <1>2, <2>6 DEF AdvanceCandidates, AdvanceEvaluate, taskRows
  <2> QED
    BY <1>4, <2>1, <2>2, <2>3, <2>4, <2>5, <2>6 DEF Advance
<1>5. CASE Claim
  BY <1>2, <1>3, <1>5 DEF Claim, ClaimReady, ClaimTeardown
<1>6. CASE Leases
  <2>1. CASE RecoverExpiredLeases
    BY <2>1 DEF RecoverExpiredLeases, Expired, Moves
  <2> QED
    BY <1>2, <1>6, <2>1 DEF Leases, LeaseLapses, RenewTaskLease
<1>7. ASSUME NEW x \in work,
             \/ ResultSucceeds(x) \/ ResultFails(x) \/ ResultRefused(x)
             \/ ResultGone(x) \/ ResultUnseen(x) \/ DispatchSensor(x)
      PROVE  Moves(t)
  <2>1. x.task \in Tasks
    BY DEF IInv, TypeOK, Exec
  <2>2. \/ MarkTaskSucceeded(x) \/ MarkTaskFailed(x) \/ RetryTask(x) \/ RequeueQuotaWait(x)
        \/ SettleStopping(x) \/ UNCHANGED status
    BY <1>7 DEF ResultSucceeds, ResultFails, ResultRefused, ResultGone, ResultUnseen,
                DispatchSensor, StaleResult, ParkWait, taskRows
  <2>3. MayMark(x) => status[x.task] = "running"
    BY EngineAssumption DEF MayMark, Owns, IInv, TypeOK, Exec, ClaimedRuns
  <2>4. ASSUME MarkTaskSucceeded(x) PROVE Moves(t)
    <3> DEFINE st == [status EXCEPT ![x.task] = "succeeded"]
               pro == Promoted(st, Decremented(st, {x.task}), x.task)
    <3>1. status' = [u \in Tasks |-> IF u \in pro THEN "ready" ELSE st[u]] /\ MayMark(x)
      BY <2>4 DEF MarkTaskSucceeded
    <3>2. \A u \in pro : st[u] = "pending" /\ DefaultShaped(u) /\ AllDepsSucceeded(st, u)
      BY DEF Promoted
    <3>3. st[x.task] = "succeeded" /\ \A u \in Tasks : u # x.task => st[u] = status[u]
      BY <1>1, <2>1
    <3> HIDE DEF st, pro
    <3>4. \A d \in Tasks : st[d] = "succeeded" => status'[d] = "succeeded"
      BY <3>1, <3>2
    <3>5. CASE t \in pro
      <4>1. AllDepsSucceeded(status', t)
        BY <1>1, <3>2, <3>4, <3>5 DEF AllDepsSucceeded
      <4> QED
        BY <3>1, <3>2, <3>5, <4>1 DEF Moves
    <3>6. CASE t \notin pro /\ t = x.task
      BY <2>3, <3>1, <3>3, <3>6 DEF Moves
    <3>7. CASE t \notin pro /\ t # x.task
      BY <3>1, <3>3, <3>7 DEF Moves
    <3> QED
      BY <3>5, <3>6, <3>7
  <2>5. ASSUME MarkTaskFailed(x) \/ RetryTask(x) \/ RequeueQuotaWait(x) PROVE Moves(t)
    BY <1>3, <2>1, <2>3, <2>5 DEF MarkTaskFailed, RetryTask, RequeueQuotaWait
  <2>6. ASSUME SettleStopping(x) PROVE Moves(t)
    BY <1>3, <2>1, <2>6 DEF SettleStopping
  <2> QED
    BY <1>2, <2>2, <2>4, <2>5, <2>6
<1>8. CASE Stop
  <2>1. ASSUME StopRunTasks PROVE Moves(t)
    BY <2>1 DEF StopRunTasks, Moves
  <2> QED
    BY <1>2, <1>8, <2>1 DEF Stop, CancelRun, CancelOverdueRun, TellToStop, taskRows
<1>9. CASE Reap \/ \E e \in Engines : Crash(e)
  BY <1>2, <1>9 DEF Reap, ReapRead, ReapApply, Crash, taskRows
<1> QED
  BY <1>4, <1>5, <1>6, <1>7, <1>8, <1>9 DEF Next, Result

\* A step keeps the rows to the rules.
LEMMA RowsRight ==
  ASSUME IInv, RulesInv, Next, NEW t \in Tasks
  PROVE  RightFor(t, status[t])'
<1>1. (\A d \in Deps[t] : Over(status, d)) => (Met(t)' <=> Met(t))
  BY RuleStands
<1>2. status[t] \notin {"pending", "cancelled"} => \A d \in Deps[t] : Over(status, d)
  BY DEF IInv, DepsOverFirst
<1>3. RightFor(t, status[t])
  BY DEF RulesInv
<1>4. CASE status'[t] = status[t]
  BY <1>1, <1>2, <1>3, <1>4 DEF RightFor
<1>5. CASE status'[t] \in {"pending", "failed", "cancelled"}
  BY <1>5 DEF RightFor
<1>6. CASE /\ status[t] \in {"ready", "running", "awaiting_approval"}
           /\ status'[t] \in {"ready", "running", "awaiting_approval", "succeeded"}
  BY <1>1, <1>2, <1>3, <1>6 DEF RightFor
<1>7. CASE status'[t] = "ready" /\ DefaultShaped(t) /\ AllDepsSucceeded(status', t)
  BY <1>7, DefaultRule DEF RightFor, Met
<1>8. CASE /\ status'[t] = "skipped" /\ DefaultShaped(t) /\ ~AllDepsSucceeded(status, t)
           /\ \A d \in Deps[t] : Over(status, d)
  BY <1>1, <1>8, DefaultRule DEF RightFor, Met
<1>9. ASSUME NEW e \in Engines, NEW c \in decided[e], c.task = t, status'[t] = c.to
      PROVE  RightFor(t, status[t])'
  <2>1. \A d \in Deps[t] : Over(status, d)
    BY <1>9 DEF IInv, ReadsHold
  <2> QED
    BY <1>1, <1>9, <2>1 DEF RulesInv, RightFor
<1> QED
  BY <1>4, <1>5, <1>6, <1>7, <1>8, <1>9, RowsMove DEF Moves

LEMMA RulesKept ==
  ASSUME IInv, RulesInv, Next
  PROVE  RulesInv'
<1>1. \A t \in Tasks : RightFor(t, status[t])'
  BY RowsRight
<1>2. ASSUME NEW e \in Engines, NEW c \in decided[e]
      PROVE  RightFor(c.task, c.to)'
  <2>1. c.task \in Tasks /\ \A d \in Deps[c.task] : Over(status, d)
    BY DEF IInv, TypeOK, Decision, ReadsHold
  <2>2. Met(c.task)' <=> Met(c.task)
    BY <2>1, RuleStands
  <2> QED
    BY <2>2 DEF RulesInv, RightFor
<1>3. ASSUME NEW f \in Engines, NEW t \in Tasks, AdvanceEvaluate(f, t)
      PROVE  RulesInv'
  <2>1. PICK when \in WhenOutcomes(t) :
          decided' = [decided EXCEPT ![f] =
            {[task |-> t,
              to |-> IF when = "error" THEN "failed"
                     ELSE IF when = "pass" /\ Met(t)
                       THEN IF t \in Gate THEN "awaiting_approval" ELSE "ready"
                       ELSE "skipped"]}]
    BY <1>3 DEF AdvanceEvaluate, Met
  <2> DEFINE to == IF when = "error" THEN "failed"
                   ELSE IF when = "pass" /\ Met(t)
                     THEN IF t \in Gate THEN "awaiting_approval" ELSE "ready"
                     ELSE "skipped"
             new == [task |-> t, to |-> to]
  <2>2. t \notin Conditional => when = "pass"
    BY DEF WhenOutcomes
  <2>3. RightFor(t, to)
    BY <2>2 DEF RightFor
  <2>4. \A d \in Deps[t] : Over(status, d)
    BY <1>3 DEF AdvanceEvaluate, IInv, ReadsHold
  <2>5. Met(t)' <=> Met(t)
    BY <2>4, RuleStands
  <2>6. new.task = t /\ new.to = to
    OBVIOUS
  <2>7. decided' = [decided EXCEPT ![f] = {new}]
    BY <2>1
  <2> HIDE DEF to, new
  <2>8. ASSUME NEW e \in Engines, NEW c \in decided'[e] PROVE RightFor(c.task, c.to)'
    <3>1. c = new \/ c \in decided[e]
      BY <2>7, <2>8 DEF IInv, TypeOK
    <3>2. CASE c = new
      BY <2>3, <2>5, <2>6, <3>2 DEF RightFor
    <3> QED
      BY <1>2, <3>1, <3>2
  <2> QED
    BY <1>1, <2>8 DEF RulesInv
<1>4. ASSUME \A e \in Engines : decided'[e] \subseteq decided[e] PROVE RulesInv'
  BY <1>1, <1>2, <1>4 DEF RulesInv
<1>5. \/ \E e \in Engines, t \in Tasks : AdvanceEvaluate(e, t)
      \/ \A e \in Engines : decided'[e] \subseteq decided[e]
  <2>1. decided \in [Engines -> SUBSET Decision]
    BY DEF IInv, TypeOK
  <2>2. UNCHANGED decided => \A e \in Engines : decided'[e] \subseteq decided[e]
    OBVIOUS
  <2>3. ASSUME NEW e \in Engines, decided' = [decided EXCEPT ![e] = {}]
        PROVE  \A f \in Engines : decided'[f] \subseteq decided[f]
    BY <2>1, <2>3
  <2>4. CASE Advance
    BY <2>2, <2>3, <2>4 DEF Advance, AdvanceDefaultReady, AdvanceDefaultSkip, AdvanceCandidates,
                            AdvanceApply, ResolveApproval, ReconcileWait, memory
  <2>5. CASE Claim \/ Leases \/ Stop \/ Reap
    BY <2>2, <2>5 DEF Claim, ClaimReady, ClaimTeardown, Leases, LeaseLapses, RenewTaskLease,
                      RecoverExpiredLeases, Stop, CancelRun, CancelOverdueRun, TellToStop,
                      Reap, ReapRead, ReapApply, memory
  <2>6. CASE Result
    BY <2>2, <2>6 DEF Result, ResultSucceeds, ResultFails, ResultRefused, ResultGone,
                      ResultUnseen, DispatchSensor, Collected
  <2>7. ASSUME NEW e \in Engines, Crash(e) PROVE \A f \in Engines : decided'[f] \subseteq decided[f]
    BY <2>3, <2>7 DEF Crash
  <2> QED
    BY <2>4, <2>5, <2>6, <2>7 DEF Next
<1> QED
  BY <1>3, <1>4, <1>5

\* Whichever of the three statements gets to a task first (the promotion of a
\* success, the set-based sweep, an engine's own evaluation, written in a later
\* transaction), it runs only when its trigger rule is met and is skipped only
\* when it is not.
THEOREM RulesAreHonoured == Spec => []TriggerRuleHonoured
<1>1. Init => RulesInv
  BY DEF Init, RulesInv, RightFor
<1>2. IInv /\ RulesInv /\ [Next]_vars => RulesInv'
  <2>1. ASSUME RulesInv, UNCHANGED vars PROVE RulesInv'
    BY <2>1 DEF RulesInv, RightFor, Met, vars, taskRows, memory
  <2> QED
    BY <2>1, RulesKept
<1>3. ASSUME IInv, RulesInv PROVE TriggerRuleHonoured
  <2> SUFFICES ASSUME NEW t \in Tasks
               PROVE  /\ status[t] \in {"ready", "running", "awaiting_approval", "succeeded"} => RuleAsks(t)
                      /\ status[t] = "skipped" /\ t \notin Conditional => ~RuleAsks(t)
    BY DEF TriggerRuleHonoured
  <2>1. CASE status[t] \in {"pending", "cancelled"}
    BY <2>1
  <2>2. CASE status[t] \notin {"pending", "cancelled"}
    <3>1. \A d \in Deps[t] : Over(status, d)
      BY <1>3, <2>2 DEF IInv, DepsOverFirst
    <3>2. RuleAsks(t) <=> Met(t)
      BY <1>3, <3>1, RuleCounted
    <3> QED
      BY <1>3, <3>2 DEF RulesInv, RightFor
  <2> QED
    BY <2>1, <2>2
<1> QED
  BY <1>1, <1>2, <1>3, Invariance, PTL DEF Spec

-----------------------------------------------------------------------------
(* The attempts *)

\* n attempts of t are within one of its budgets after f faults.
Affords(t, n, f) == \E b \in Budgets[t] \cup {1, Iterations[t]} : n <= b + f

\* What a row has spent.  One that may be claimed again without a fault, being
\* `ready` or under a claim that has lapsed or that nobody watches, has room for
\* one more: a retry asked for it, or the fault that lost the claim paid for it.
Spent(t) ==
  /\ Affords(t, attempt[t], faults)
  /\ status[t] \in {"pending", "awaiting_approval"} => attempt[t] = 0
  /\ status[t] = "ready" => Affords(t, attempt[t] + 1, faults)
  /\ status[t] = "running" /\ ~stopReq[t] =>
       \/ lease[t] = "none"
       \/ lease[t] = "live" /\ ~Orphaned(t)
       \/ Affords(t, attempt[t] + 1, faults)

\* The execution that owns a row nobody asked to stop counts the row's attempts,
\* and does not tear down.
OwnersCount ==
  \A x \in work : Owns(x) /\ ~stopReq[x.task] =>
    x.kind # "teardown" /\ x.attempt = attempt[x.task]

BudgetInv == OwnersCount /\ \A t \in Tasks : Spent(t)

LEMMA AffordsMore ==
  ASSUME NEW t \in Tasks, NEW n \in Nat, NEW f \in Nat, Affords(t, n, f)
  PROVE  /\ Affords(t, n + 1, f + 1)
         /\ \A m \in Nat, g \in Nat : m <= n /\ f <= g => Affords(t, m, g)
<1>1. PICK b \in Budgets[t] \cup {1, Iterations[t]} : n <= b + f
  BY DEF Affords
<1>2. b \in Nat
  BY EngineAssumption
<1> QED
  BY <1>1, <1>2 DEF Affords

\* Any task has a first attempt.
LEMMA AffordsFirst ==
  ASSUME NEW t \in Tasks, NEW f \in Nat
  PROVE  Affords(t, 0, f) /\ Affords(t, 1, f)
BY DEF Affords

\* Fault or not, nothing is unspent.
LEMMA FaultsGrow ==
  ASSUME IInv, Fault \/ UNCHANGED faults
  PROVE  faults \in Nat /\ faults' \in Nat /\ faults <= faults'
BY DEF IInv, TypeOK, Fault

\* The execution that owns a row is still out.
LEMMA StillWatched ==
  ASSUME NEW t \in Tasks, claimedBy'[t] = claimedBy[t], version'[t] = version[t],
         \A x \in work : x.task = t /\ Owns(x) =>
           \E y \in work' : y.task = t /\ y.eng = x.eng /\ y.fence = x.fence
  PROVE  Orphaned(t)' => Orphaned(t)
BY DEF Orphaned, Owns

\* A row that the step leaves alone.
LEMMA SpentSame ==
  ASSUME IInv, NEW t \in Tasks, Spent(t), Fault \/ UNCHANGED faults,
         status'[t] = status[t], attempt'[t] = attempt[t],
         \/ /\ stopReq'[t] = stopReq[t] /\ lease'[t] = lease[t]
            /\ Orphaned(t)' => Orphaned(t)
         \/ status[t] # "running"
         \/ stopReq'[t]
         \/ lease'[t] = "none"
         \/ Fault
  PROVE  Spent(t)'
<1>1. faults \in Nat /\ faults' \in Nat /\ faults <= faults' /\ attempt[t] \in Nat
  BY FaultsGrow DEF IInv, TypeOK
<1>2. \A n \in Nat : Affords(t, n, faults) => Affords(t, n, faults')
  BY <1>1, AffordsMore
<1>3. Fault => Affords(t, attempt[t] + 1, faults')
  BY <1>1, AffordsMore DEF Fault, Spent
<1>4. Affords(t, attempt[t] + 1, faults) => Affords(t, attempt[t] + 1, faults')
  BY <1>1, <1>2
<1>5. Affords(t, attempt'[t], faults')
  BY <1>1, <1>2 DEF Spent
<1>6. status'[t] = "ready" => Affords(t, attempt'[t] + 1, faults')
  BY <1>4 DEF Spent
<1>7. status'[t] = "running" /\ ~stopReq'[t] =>
        \/ lease'[t] = "none"
        \/ lease'[t] = "live" /\ ~Orphaned(t)'
        \/ Affords(t, attempt'[t] + 1, faults')
  BY <1>3, <1>4 DEF Spent
<1> QED
  BY <1>5, <1>6, <1>7 DEF Spent

\* A row that ends, or that becomes `ready` for the first time.
LEMMA SpentMoves ==
  ASSUME IInv, NEW t \in Tasks, Spent(t), Fault \/ UNCHANGED faults, attempt'[t] = attempt[t],
         \/ status'[t] \in Terminal
         \/ status[t] = "pending" /\ status'[t] \in {"ready", "awaiting_approval"}
  PROVE  Spent(t)'
<1>1. faults \in Nat /\ faults' \in Nat /\ faults <= faults' /\ attempt[t] \in Nat
  BY FaultsGrow DEF IInv, TypeOK
<1>2. Affords(t, attempt'[t], faults')
  BY <1>1, AffordsMore DEF Spent
<1>3. status[t] = "pending" => attempt'[t] = 0 /\ Affords(t, attempt'[t] + 1, faults')
  BY <1>1, AffordsFirst DEF Spent
<1> QED
  BY <1>2, <1>3 DEF Spent, Terminal

\* A row that goes back to `ready`.
LEMMA SpentAgain ==
  ASSUME IInv, NEW t \in Tasks, Fault \/ UNCHANGED faults, status'[t] = "ready",
         attempt'[t] \in Nat, Affords(t, attempt'[t] + 1, faults')
  PROVE  Spent(t)'
<1>1. faults' \in Nat
  BY FaultsGrow
<1>2. Affords(t, attempt'[t], faults')
  BY <1>1, AffordsMore
<1> QED
  BY <1>2 DEF Spent

LEMMA AdvanceSpent ==
  ASSUME IInv, BudgetInv, Advance, NEW t \in Tasks
  PROVE  Spent(t)'
<1>1. UNCHANGED <<version, attempt, claimedBy, lease, stopReq, work, faults>>
  BY DEF Advance, AdvanceDefaultReady, AdvanceDefaultSkip, AdvanceCandidates,
         AdvanceEvaluate, AdvanceApply, ResolveApproval, ReconcileWait, taskRows, memory
<1>2. Spent(t) /\ (Orphaned(t)' <=> Orphaned(t))
  BY <1>1 DEF BudgetInv, Orphaned, Owns
<1>3. \/ status'[t] = status[t] \/ status'[t] \in Terminal
      \/ status[t] = "pending" /\ status'[t] \in {"ready", "awaiting_approval"}
  <2>1. status \in [Tasks -> Statuses] /\ decided \in [Engines -> SUBSET Decision]
    BY DEF IInv, TypeOK
  <2>2. CASE AdvanceDefaultReady
    BY <2>2 DEF AdvanceDefaultReady, ReadyFrontier, Candidate
  <2>3. CASE AdvanceDefaultSkip
    BY <2>3 DEF AdvanceDefaultSkip, Terminal
  <2>4. ASSUME NEW e \in Engines, AdvanceApply(e)
        PROVE  \/ status'[t] = status[t] \/ status'[t] \in Terminal
               \/ status[t] = "pending" /\ status'[t] \in {"ready", "awaiting_approval"}
    <3>1. PICK c \in decided[e] : IF status[c.task] = "pending"
                                    THEN status' = [status EXCEPT ![c.task] = c.to]
                                    ELSE UNCHANGED status
      BY <2>4 DEF AdvanceApply
    <3>2. c.to \in {"ready", "awaiting_approval", "skipped", "failed"}
      BY <2>1 DEF Decision
    <3> QED
      BY <2>1, <3>1, <3>2 DEF Terminal
  <2>5. ASSUME NEW u \in Tasks, NEW end \in {"succeeded", "failed"},
               status' = [status EXCEPT ![u] = end]
        PROVE  status'[t] = status[t] \/ status'[t] \in Terminal
    BY <2>1, <2>5 DEF Terminal
  <2>6. ASSUME NEW e \in Engines, AdvanceCandidates(e) \/ \E u \in Tasks : AdvanceEvaluate(e, u)
        PROVE  status'[t] = status[t]
    BY <2>6 DEF AdvanceCandidates, AdvanceEvaluate, taskRows
  <2> QED
    BY <2>2, <2>3, <2>4, <2>5, <2>6 DEF Advance, ResolveApproval, ReconcileWait
<1> QED
  BY <1>1, <1>2, <1>3, SpentSame, SpentMoves

\* A dispatch leaves the executions of the other tasks where they are.
LEMMA OthersWatched ==
  ASSUME IInv, NEW e, NEW u \in Tasks, NEW kind, work' = Dispatched(e, {u}, kind),
         NEW t \in Tasks, claimedBy'[t] = claimedBy[t], version'[t] = version[t]
  PROVE  Orphaned(t)' => Orphaned(t)
<1> DEFINE aged(x) == IF x.eng = e /\ x.task \in {u} /\ x.kind = "held" /\ kind = "held"
                        THEN [x EXCEPT !.kind = "loose"] ELSE x
<1>1. \A x \in work : aged(x) \in work'
  BY DEF Dispatched
<1>2. \A x \in work : aged(x).task = x.task /\ aged(x).eng = x.eng /\ aged(x).fence = x.fence
  BY DEF IInv, TypeOK, Exec
<1> HIDE DEF aged
<1> QED
  BY <1>1, <1>2, StillWatched

LEMMA ClaimSpent ==
  ASSUME IInv, BudgetInv, NEW e \in Engines, NEW u \in Tasks, NEW t \in Tasks,
         ClaimReady(e, u) \/ ClaimTeardown(e, u)
  PROVE  Spent(t)'
<1>1. Spent(t) /\ attempt[t] \in Nat /\ faults \in Nat
  BY DEF BudgetInv, IInv, TypeOK
<1>2. /\ status \in [Tasks -> Statuses] /\ version \in [Tasks -> Nat] /\ attempt \in [Tasks -> Nat]
      /\ claimedBy \in [Tasks -> Engines \cup {None}]
      /\ lease \in [Tasks -> {"none", "live", "lapsed"}]
  BY DEF IInv, TypeOK
<1>3. CASE t # u
  <2>1. /\ UNCHANGED <<stopReq, faults>> /\ status'[t] = status[t] /\ attempt'[t] = attempt[t]
        /\ lease'[t] = lease[t] /\ claimedBy'[t] = claimedBy[t] /\ version'[t] = version[t]
    BY <1>2, <1>3 DEF ClaimReady, ClaimTeardown
  <2>2. Orphaned(t)' => Orphaned(t)
    BY <2>1, OthersWatched DEF ClaimReady, ClaimTeardown
  <2> QED
    BY <1>1, <2>1, <2>2, SpentSame
<1>4. CASE t = u /\ ClaimTeardown(e, u)
  BY <1>1, <1>4, SpentSame DEF ClaimTeardown
<1>5. CASE t = u /\ ClaimReady(e, u)
  <2> DEFINE new == [task |-> u, fence |-> NextFence(u), eng |-> e,
                     attempt |-> attempt[u] + 1, kind |-> "held", told |-> FALSE]
  <2>1. /\ status'[u] = "running" /\ attempt'[u] = attempt[u] + 1 /\ lease'[u] = "live"
        /\ claimedBy'[u] = e /\ version'[u] = NextFence(u) /\ UNCHANGED faults /\ status[u] = "ready"
    BY <1>2, <1>5 DEF ClaimReady
  <2>2. new \in work'
    BY <1>5 DEF ClaimReady, Dispatched
  <2>3. ~Orphaned(u)'
    BY <2>1, <2>2 DEF Orphaned, Owns
  <2> HIDE DEF new
  <2> QED
    BY <1>1, <1>5, <2>1, <2>3 DEF Spent
<1> QED
  BY <1>3, <1>4, <1>5

LEMMA LeasesSpent ==
  ASSUME IInv, BudgetInv, Leases, NEW t \in Tasks
  PROVE  Spent(t)'
<1>1. Spent(t) /\ attempt[t] \in Nat /\ faults \in Nat
  BY DEF BudgetInv, IInv, TypeOK
<1>2. lease \in [Tasks -> {"none", "live", "lapsed"}]
  BY DEF IInv, TypeOK
<1>3. ASSUME NEW u \in Tasks, LeaseLapses(u) PROVE Spent(t)'
  <2>1. /\ UNCHANGED <<status, version, attempt, claimedBy, stopReq, work>>
        /\ lease' = [lease EXCEPT ![u] = "lapsed"] /\ status[u] = "running" /\ lease[u] = "live"
        /\ IF Orphaned(u) THEN UNCHANGED faults ELSE Fault
    BY <1>3 DEF LeaseLapses, memory, Orphaned
  <2>2. Orphaned(t)' <=> Orphaned(t)
    BY <2>1 DEF Orphaned, Owns
  <2>3. CASE t # u
    BY <1>1, <1>2, <2>1, <2>2, <2>3, SpentSame
  <2>4. CASE t = u /\ ~Orphaned(u)
    BY <1>1, <2>1, <2>4, SpentSame
  <2>5. CASE t = u /\ Orphaned(u)
    BY <1>1, <2>1, <2>5 DEF Spent
  <2> QED
    BY <2>3, <2>4, <2>5
<1>4. ASSUME NEW x \in work, RenewTaskLease(x) PROVE Spent(t)'
  <2>1. /\ UNCHANGED <<status, version, attempt, claimedBy, stopReq, work, faults>>
        /\ lease' = [lease EXCEPT ![x.task] = "live"] /\ Owns(x) /\ x.task \in Tasks
    BY <1>4 DEF RenewTaskLease, memory, IInv, TypeOK, Exec
  <2>2. Orphaned(t)' <=> Orphaned(t)
    BY <2>1 DEF Orphaned, Owns
  <2>3. CASE t # x.task
    BY <1>1, <1>2, <2>1, <2>2, <2>3, SpentSame
  <2>4. CASE t = x.task
    <3>1. ~Orphaned(t)' /\ lease'[t] = "live"
      BY <1>2, <2>1, <2>2, <2>4 DEF Orphaned
    <3> QED
      BY <1>1, <2>1, <3>1 DEF Spent
  <2> QED
    BY <2>3, <2>4
<1>5. CASE RecoverExpiredLeases
  <2>1. UNCHANGED <<version, attempt, stopReq, work, faults>>
    BY <1>5 DEF RecoverExpiredLeases, memory
  <2>2. CASE t \in Expired
    <3>1. status'[t] = "ready" /\ Affords(t, attempt[t] + 1, faults)
      BY <1>1, <1>5, <2>2 DEF RecoverExpiredLeases, Expired, Spent
    <3> QED
      BY <1>1, <2>1, <3>1, SpentAgain
  <2>3. CASE t \notin Expired
    <3>1. status'[t] = status[t] /\ claimedBy'[t] = claimedBy[t] /\ lease'[t] = lease[t]
      BY <1>5, <2>3 DEF RecoverExpiredLeases
    <3>2. Orphaned(t)' => Orphaned(t)
      BY <2>1, <3>1 DEF Orphaned, Owns
    <3> QED
      BY <1>1, <2>1, <3>1, <3>2, SpentSame
  <2> QED
    BY <2>2, <2>3
<1> QED
  BY <1>3, <1>4, <1>5 DEF Leases

\* The row of another task, when the result of x is applied.
LEMMA OtherResultSpent ==
  ASSUME IInv, BudgetInv, NEW x \in work, NEW t \in Tasks, t # x.task,
         work' = work \ {x}, Fault \/ UNCHANGED faults,
         attempt'[t] = attempt[t], lease'[t] = lease[t], claimedBy'[t] = claimedBy[t],
         stopReq'[t] = stopReq[t], version' = version,
         status'[t] = status[t] \/ (status[t] = "pending" /\ status'[t] = "ready")
  PROVE  Spent(t)'
<1>1. Spent(t)
  BY DEF BudgetInv
<1>2. Orphaned(t)' => Orphaned(t)
  BY StillWatched
<1> QED
  BY <1>1, <1>2, SpentSame, SpentMoves

\* The result of an execution that may not mark its row.
LEMMA NothingSpent ==
  ASSUME IInv, BudgetInv, NEW x \in work, NEW t \in Tasks,
         work' = work \ {x}, Fault \/ UNCHANGED faults, ~MayMark(x),
         UNCHANGED <<status, version, attempt, claimedBy, stopReq>>,
         lease'[t] = lease[t] \/ stopReq[t]
  PROVE  Spent(t)'
<1>1. Spent(t)
  BY DEF BudgetInv
<1>2. CASE stopReq[t]
  BY <1>1, <1>2, SpentSame
<1>3. CASE ~stopReq[t]
  <2>1. Orphaned(t)' => Orphaned(t)
    BY <1>3, StillWatched DEF MayMark
  <2> QED
    BY <1>1, <1>3, <2>1, SpentSame
<1> QED
  BY <1>2, <1>3

\* An execution that tears down, or was told to stop, has no row to mark.
LEMMA StoppedMayNotMark ==
  ASSUME IInv, BudgetInv, ToldOnlyWhenLost, NEW x \in work, x.told \/ x.kind = "teardown"
  PROVE  ~MayMark(x)
<1>1. x.task \in Tasks /\ x.eng \in Engines
  BY DEF IInv, TypeOK, Exec
<1>2. Owns(x) => status[x.task] = "running"
  BY <1>1, EngineAssumption DEF Owns, IInv, ClaimedRuns
<1> QED
  BY <1>2 DEF BudgetInv, OwnersCount, ToldOnlyWhenLost, MayMark

LEMMA ResultSpent ==
  ASSUME IInv, BudgetInv, ToldOnlyWhenLost, NEW x \in work, NEW t \in Tasks,
         \/ ResultSucceeds(x) \/ ResultFails(x) \/ ResultRefused(x)
         \/ ResultGone(x) \/ ResultUnseen(x) \/ DispatchSensor(x)
  PROVE  Spent(t)'
<1>1. x.task \in Tasks /\ x.attempt \in Nat /\ work' = work \ {x} /\ (Fault \/ UNCHANGED faults)
  BY DEF ResultSucceeds, ResultFails, ResultRefused, ResultGone, ResultUnseen,
         DispatchSensor, Collected, IInv, TypeOK, Exec
<1>2. /\ Spent(t) /\ attempt \in [Tasks -> Nat] /\ status \in [Tasks -> Statuses]
      /\ claimedBy \in [Tasks -> Engines \cup {None}] /\ faults \in Nat /\ faults' \in Nat
      /\ lease \in [Tasks -> {"none", "live", "lapsed"}]
  BY <1>1, FaultsGrow DEF BudgetInv, IInv, TypeOK
<1>3. ASSUME MarkTaskSucceeded(x) PROVE Spent(t)'
  <2> DEFINE st == [status EXCEPT ![x.task] = "succeeded"]
             pro == Promoted(st, Decremented(st, {x.task}), x.task)
  <2>1. /\ status' = [u \in Tasks |-> IF u \in pro THEN "ready" ELSE st[u]]
        /\ claimedBy' = [claimedBy EXCEPT ![x.task] = None]
        /\ UNCHANGED <<version, attempt, lease, stopReq>>
    BY <1>3 DEF MarkTaskSucceeded
  <2>2. \A u \in pro : st[u] = "pending"
    BY DEF Promoted
  <2>3. st[x.task] = "succeeded" /\ \A u \in Tasks : u # x.task => st[u] = status[u]
    BY <1>1, <1>2
  <2> HIDE DEF st, pro
  <2>4. CASE t = x.task
    <3>1. status'[t] \in Terminal
      BY <2>1, <2>2, <2>3, <2>4 DEF Terminal
    <3> QED
      BY <1>1, <1>2, <2>1, <3>1, SpentMoves
  <2>5. CASE t # x.task
    <3>1. status'[t] = status[t] \/ (status[t] = "pending" /\ status'[t] = "ready")
      BY <2>1, <2>2, <2>3, <2>5
    <3> QED
      BY <1>1, <1>2, <2>1, <2>5, <3>1, OtherResultSpent
  <2> QED
    BY <2>4, <2>5
<1>4. ASSUME MarkTaskFailed(x) PROVE Spent(t)'
  <2>1. CASE t = x.task
    <3>1. status'[t] \in Terminal /\ attempt'[t] = attempt[t]
      BY <1>2, <1>4, <2>1 DEF MarkTaskFailed, Terminal
    <3> QED
      BY <1>1, <1>2, <3>1, SpentMoves
  <2>2. CASE t # x.task
    BY <1>1, <1>2, <1>4, <2>2, OtherResultSpent DEF MarkTaskFailed
  <2> QED
    BY <2>1, <2>2
<1>5. ASSUME SettleStopping(x) PROVE Spent(t)'
  <2>1. stopReq \in [Tasks -> BOOLEAN]
    BY DEF IInv, TypeOK
  <2>2. CASE t = x.task
    <3>1. status'[t] \in Terminal /\ attempt'[t] = attempt[t]
      BY <1>2, <1>5, <2>2 DEF SettleStopping, Terminal
    <3> QED
      BY <1>1, <1>2, <3>1, SpentMoves
  <2>3. CASE t # x.task
    BY <1>1, <1>2, <1>5, <2>1, <2>3, OtherResultSpent DEF SettleStopping
  <2> QED
    BY <2>2, <2>3
<1>6. ASSUME RetryTask(x), NEW b \in Budgets[x.task] \cup {1, Iterations[x.task]}, x.attempt < b
      PROVE  Spent(t)'
  <2>1. CASE t = x.task
    <3>1. x.attempt = attempt[t]
      BY <1>6, <2>1 DEF RetryTask, MayMark, BudgetInv, OwnersCount
    <3>2. b \in Nat
      BY <1>1, EngineAssumption
    <3>3. Affords(t, attempt[t] + 1, faults')
      <4>1. attempt[t] + 1 <= b + faults'
        BY <1>1, <1>2, <1>6, <3>1, <3>2
      <4> QED
        BY <1>6, <2>1, <4>1 DEF Affords
    <3>4. status'[t] = "ready" /\ attempt'[t] = attempt[t]
      BY <1>2, <1>6, <2>1 DEF RetryTask
    <3> QED
      BY <1>1, <1>2, <3>3, <3>4, SpentAgain
  <2>2. CASE t # x.task
    BY <1>1, <1>2, <1>6, <2>2, OtherResultSpent DEF RetryTask
  <2> QED
    BY <2>1, <2>2
<1>7. ASSUME RequeueQuotaWait(x), Fault PROVE Spent(t)'
  <2>1. CASE t = x.task
    <3>1. status'[t] = "ready" /\ attempt'[t] = (IF attempt[t] > 0 THEN attempt[t] - 1 ELSE 0)
      BY <1>2, <1>7, <2>1 DEF RequeueQuotaWait
    <3>2. attempt[t] \in Nat /\ Affords(t, attempt[t], faults')
      BY <1>2, <1>1, AffordsMore, FaultsGrow DEF Spent
    <3>3. attempt'[t] \in Nat /\ (attempt'[t] + 1 = attempt[t] \/ attempt'[t] + 1 = 1)
      BY <3>1, <3>2
    <3>4. Affords(t, attempt'[t] + 1, faults')
      BY <1>2, <3>2, <3>3, AffordsFirst
    <3> QED
      BY <1>1, <3>1, <3>3, <3>4, SpentAgain
  <2>2. CASE t # x.task
    BY <1>1, <1>2, <1>7, <2>2, OtherResultSpent DEF RequeueQuotaWait
  <2> QED
    BY <2>1, <2>2
<1>8. ASSUME ParkWait(x) PROVE Spent(t)'
  <2>1. CASE t = x.task
    <3>1. lease'[t] = "none" /\ UNCHANGED <<status, attempt>>
      BY <1>2, <1>8, <2>1 DEF ParkWait
    <3> QED
      BY <1>1, <1>2, <3>1, SpentSame
  <2>2. CASE t # x.task
    BY <1>1, <1>2, <1>8, <2>2, OtherResultSpent DEF ParkWait
  <2> QED
    BY <2>1, <2>2
<1>9. ASSUME ~MayMark(x), UNCHANGED taskRows PROVE Spent(t)'
  BY <1>1, <1>9, NothingSpent DEF taskRows
<1>10. CASE ResultSucceeds(x)
  <2>1. Iterations[x.task] > x.attempt => x.attempt < Iterations[x.task]
    BY <1>1, EngineAssumption
  <2> QED
    BY <1>3, <1>4, <1>5, <1>6, <1>9, <1>10, <2>1 DEF ResultSucceeds, StaleResult
<1>11. CASE ResultFails(x)
  BY <1>4, <1>5, <1>6, <1>9, <1>11 DEF ResultFails, StaleResult, ShouldRetryFailed
<1>12. CASE ResultRefused(x)
  BY <1>4, <1>5, <1>7, <1>9, <1>12 DEF ResultRefused, StaleResult
<1>13. CASE ResultGone(x)
  BY <1>5, <1>9, <1>13, StoppedMayNotMark DEF ResultGone
<1>14. CASE ResultUnseen(x)
  <2>1. ~MayMark(x)
    BY <1>14, StoppedMayNotMark DEF ResultUnseen
  <2>2. UNCHANGED <<status, version, attempt, claimedBy, stopReq>>
    BY <1>14 DEF ResultUnseen
  <2>3. lease'[t] = lease[t] \/ stopReq[t]
    BY <1>2, <1>14 DEF ResultUnseen, MaySettle
  <2> QED
    BY <1>1, <2>1, <2>2, <2>3, NothingSpent
<1>15. CASE DispatchSensor(x)
  BY <1>3, <1>4, <1>5, <1>8, <1>9, <1>15 DEF DispatchSensor
<1> QED
  BY <1>10, <1>11, <1>12, <1>13, <1>14, <1>15

LEMMA RowsSpent ==
  ASSUME IInv, BudgetInv, ToldOnlyWhenLost, Next, NEW t \in Tasks
  PROVE  Spent(t)'
<1>1. Spent(t)
  BY DEF BudgetInv
<1>2. ASSUME StopRunTasks, UNCHANGED faults PROVE Spent(t)'
  <2>1. status[t] \in Statuses /\ attempt'[t] = attempt[t]
    BY <1>2 DEF StopRunTasks, IInv, TypeOK
  <2>2. CASE Idle(t)
    <3>1. status'[t] \in Terminal
      BY <1>2, <2>2 DEF StopRunTasks, Terminal
    <3> QED
      BY <1>1, <1>2, <2>1, <3>1, SpentMoves
  <2>3. CASE ~Idle(t)
    <3>1. status'[t] = status[t] /\ (status[t] = "running" => stopReq'[t])
      BY <1>2, <2>1, <2>3 DEF StopRunTasks, Idle, Dispatch
    <3> QED
      BY <1>1, <1>2, <2>1, <3>1, SpentSame
  <2> QED
    BY <2>2, <2>3
<1>3. ASSUME NEW x \in work, TellToStop(x) PROVE Spent(t)'
  <2>1. /\ UNCHANGED <<status, version, attempt, claimedBy, lease, stopReq, faults>>
        /\ work' = (work \ {x}) \cup {[x EXCEPT !.told = TRUE]}
    BY <1>3 DEF TellToStop, taskRows
  <2> DEFINE gone == [x EXCEPT !.told = TRUE]
  <2>2. gone.task = x.task /\ gone.eng = x.eng /\ gone.fence = x.fence /\ gone \in work'
    BY <2>1 DEF IInv, TypeOK, Exec
  <2> HIDE DEF gone
  <2>3. Orphaned(t)' => Orphaned(t)
    BY <2>1, <2>2, StillWatched
  <2> QED
    BY <1>1, <2>1, <2>3, SpentSame
<1>4. CASE Stop
  BY <1>2, <1>3, <1>4 DEF Stop, CancelRun, CancelOverdueRun
<1>5. CASE Reap
  <2>1. UNCHANGED <<status, version, attempt, claimedBy, lease, stopReq, work, faults>>
    BY <1>5 DEF Reap, ReapRead, ReapApply, taskRows
  <2>2. Orphaned(t)' => Orphaned(t)
    BY <2>1 DEF Orphaned, Owns
  <2> QED
    BY <1>1, <2>1, <2>2, SpentSame
<1>6. ASSUME NEW e \in Engines, Crash(e) PROVE Spent(t)'
  BY <1>1, <1>6, SpentSame DEF Crash, taskRows
<1> QED
  BY <1>4, <1>5, <1>6, AdvanceSpent, ClaimSpent, LeasesSpent, ResultSpent DEF Next, Claim, Result

\* The attempts of a row change with a claim, under a version of its own, or
\* where the claim is given up.
LEMMA AttemptsKept ==
  ASSUME IInv, Next, NEW t \in Tasks
  PROVE  \/ attempt'[t] = attempt[t] \/ claimedBy'[t] = None
         \/ \E e \in Engines : ClaimReady(e, t)
<1>1. attempt \in [Tasks -> Nat] /\ claimedBy \in [Tasks -> Engines \cup {None}]
  BY DEF IInv, TypeOK
<1>2. CASE Advance
  BY <1>2 DEF Advance, AdvanceDefaultReady, AdvanceDefaultSkip, AdvanceCandidates,
              AdvanceEvaluate, AdvanceApply, ResolveApproval, ReconcileWait, taskRows
<1>3. CASE Claim
  BY <1>1, <1>3 DEF Claim, ClaimReady, ClaimTeardown
<1>4. CASE Leases \/ Stop \/ Reap \/ \E e \in Engines : Crash(e)
  BY <1>4 DEF Leases, LeaseLapses, RenewTaskLease, RecoverExpiredLeases, Stop, CancelRun,
              CancelOverdueRun, StopRunTasks, TellToStop, Reap, ReapRead, ReapApply, Crash, taskRows
<1>5. CASE Result
  <2>1. PICK x \in work : \/ ResultSucceeds(x) \/ ResultFails(x) \/ ResultRefused(x)
                          \/ ResultGone(x) \/ ResultUnseen(x) \/ DispatchSensor(x)
    BY <1>5 DEF Result
  <2>2. \/ UNCHANGED attempt
        \/ RequeueQuotaWait(x)
    BY <2>1 DEF ResultSucceeds, ResultFails, ResultRefused, ResultGone, ResultUnseen,
                DispatchSensor, StaleResult, MarkTaskSucceeded, MarkTaskFailed, RetryTask,
                SettleStopping, ParkWait, taskRows
  <2> QED
    BY <1>1, <2>2 DEF RequeueQuotaWait
<1> QED
  BY <1>2, <1>3, <1>4, <1>5 DEF Next

LEMMA OwnersKept ==
  ASSUME IInv, FenceNamesExecution, OwnersCount, Next
  PROVE  OwnersCount'
<1>1. \A x \in work : /\ x \in Exec /\ x.task \in Tasks /\ x.fence \in Nat /\ x.eng \in Engines
                      /\ x.eng # None /\ x.fence <= version[x.task]
  BY EngineAssumption DEF IInv, TypeOK, Exec, FenceNamesExecution
<1>2. /\ version \in [Tasks -> Nat] /\ attempt \in [Tasks -> Nat]
  BY DEF IInv, TypeOK
<1>3. \A t \in Tasks : claimedBy'[t] # None => status'[t] = "running"
  BY NextIInv DEF IInv, ClaimedRuns
<1>4. ASSUME NEW x \in work, ClaimKept(x.task), Owns(x)', ~stopReq'[x.task]
      PROVE  x.kind # "teardown" /\ x.attempt = attempt'[x.task]
  <2>1. claimedBy'[x.task] # None /\ version'[x.task] = x.fence
    BY <1>1, <1>4 DEF Owns
  <2>2. Owns(x) /\ ~stopReq[x.task]
    BY <1>1, <1>3, <1>4, <2>1 DEF ClaimKept, Owns
  <2>3. attempt'[x.task] = attempt[x.task]
    <3>1. ASSUME NEW e \in Engines, ClaimReady(e, x.task) PROVE version'[x.task] # version[x.task]
      BY <1>1, <1>2, <3>1 DEF ClaimReady, NextFence
    <3> QED
      BY <1>1, <1>4, <2>1, <3>1, AttemptsKept DEF ClaimKept
  <2> QED
    BY <2>2, <2>3 DEF OwnersCount
<1>5. ASSUME NEW e \in Engines, NEW t \in Tasks, ClaimReady(e, t) \/ ClaimTeardown(e, t),
             \A u \in Tasks \ {t} : ClaimKept(u)
      PROVE  OwnersCount'
  <2>1. PICK kind \in {"held", "teardown"} :
          /\ work' = Dispatched(e, {t}, kind)
          /\ kind = "teardown" => stopReq'[t]
          /\ kind = "held" => attempt'[t] = attempt[t] + 1
    BY <1>2, <1>5 DEF ClaimReady, ClaimTeardown
  <2> DEFINE new == [task |-> t, fence |-> version[t] + 1, eng |-> e,
                     attempt |-> attempt[t] + 1, kind |-> kind, told |-> FALSE]
             aged(x) == IF x.eng = e /\ x.task \in {t} /\ x.kind = "held" /\ kind = "held"
                          THEN [x EXCEPT !.kind = "loose"] ELSE x
  <2>2. \A y \in work' : y = new \/ \E x \in work : y = aged(x)
    BY <2>1 DEF Dispatched, NextFence
  <2>3. \A x \in work : /\ aged(x).task = x.task /\ aged(x).fence = x.fence
                        /\ aged(x).eng = x.eng /\ aged(x).attempt = x.attempt
                        /\ x.kind # "teardown" => aged(x).kind # "teardown"
    BY <1>1 DEF Exec
  <2>4. new.task = t /\ new.attempt = attempt[t] + 1 /\ new.kind = kind
    OBVIOUS
  <2>5. version'[t] = version[t] + 1 /\ version[t] \in Nat
    BY <1>2, <1>5 DEF ClaimReady, ClaimTeardown, NextFence
  <2> HIDE DEF new, aged
  <2> SUFFICES ASSUME NEW y \in work', Owns(y)', ~stopReq'[y.task]
               PROVE  y.kind # "teardown" /\ y.attempt = attempt'[y.task]
    BY DEF OwnersCount
  <2>6. CASE y = new
    BY <2>1, <2>4, <2>6
  <2>7. ASSUME NEW x \in work, y = aged(x)
        PROVE  y.kind # "teardown" /\ y.attempt = attempt'[y.task]
    <3>1. y.task = x.task /\ y.fence = x.fence /\ y.eng = x.eng /\ y.attempt = x.attempt
      BY <2>3, <2>7
    <3>2. Owns(x)'
      BY <3>1 DEF Owns
    <3>3. x.task # t
      BY <1>1, <2>5, <3>2 DEF Owns
    <3>4. x.kind # "teardown" /\ x.attempt = attempt'[x.task]
      BY <1>1, <1>4, <1>5, <3>1, <3>2, <3>3
    <3> QED
      BY <2>3, <2>7, <3>1, <3>4
  <2> QED
    BY <2>2, <2>6, <2>7
<1>6. ASSUME NEW x \in work, TellToStop(x), \A u \in Tasks : ClaimKept(u)
      PROVE  OwnersCount'
  <2> DEFINE gone == [x EXCEPT !.told = TRUE]
  <2>1. work' = (work \ {x}) \cup {gone} /\ UNCHANGED <<status, claimedBy, version, attempt, stopReq>>
    BY <1>6 DEF TellToStop, taskRows
  <2>2. /\ gone.task = x.task /\ gone.fence = x.fence /\ gone.eng = x.eng
        /\ gone.kind = x.kind /\ gone.attempt = x.attempt
    BY <1>1 DEF Exec
  <2> HIDE DEF gone
  <2> QED
    BY <2>1, <2>2 DEF OwnersCount, Owns
<1>7. ASSUME work' \subseteq work, \A u \in Tasks : ClaimKept(u)
      PROVE  OwnersCount'
  BY <1>1, <1>4, <1>7 DEF OwnersCount
<1> QED
  BY <1>5, <1>6, <1>7, IInvRows, StepKinds

\* The attempts of a task stay within its largest budget and the faults that
\* cost it a claim: a lease that lapses, a refusal and a late result give out
\* no attempt for free.
THEOREM AttemptsAreBounded == Spec => []AttemptsWithinBudget
<1>1. ASSUME Init PROVE BudgetInv
  <2>1. \A t \in Tasks : attempt[t] = 0 /\ status[t] = "pending" /\ faults = 0 /\ work = {}
    BY <1>1 DEF Init
  <2>2. \A t \in Tasks : Spent(t)
    BY <2>1, AffordsFirst DEF Spent
  <2> QED
    BY <1>1, <2>2 DEF Init, BudgetInv, OwnersCount
<1>2. IInv /\ FenceNamesExecution /\ ToldOnlyWhenLost /\ BudgetInv /\ [Next]_vars => BudgetInv'
  <2>1. ASSUME BudgetInv, UNCHANGED vars PROVE BudgetInv'
    BY <2>1 DEF BudgetInv, OwnersCount, Spent, Orphaned, Owns, vars, taskRows, memory
  <2>2. ASSUME IInv, FenceNamesExecution, ToldOnlyWhenLost, BudgetInv, Next PROVE BudgetInv'
    BY <2>2, RowsSpent, OwnersKept DEF BudgetInv
  <2> QED
    BY <2>1, <2>2
<1>3. BudgetInv => AttemptsWithinBudget
  BY DEF BudgetInv, Spent, Affords, AttemptsWithinBudget
<1> QED
  BY <1>1, <1>2, <1>3, Invariance, FencesAreUnique, ToldHasLost, PTL DEF Spec

-----------------------------------------------------------------------------
(* Running again: the rows and the fences *)

\* Rows that were over are put back, under a version of their own.
LEMMA PutBackRows ==
  ASSUME RowsInv, NEW reset, \A t \in Tasks : t \in reset => Over(status, t),
         NEW settled, PutBack(reset, settled), UNCHANGED memory
  PROVE  RowsInv' /\ Takes
<1> USE DEF PutBack
<1>1. \A t \in Tasks : t \in reset => claimedBy[t] = None /\ ~stopReq[t] /\ version[t] + 1 \in Nat
  BY DEF RowsInv, Columns, ClaimedRuns, Over, Terminal
<1>2. Columns'
  BY <1>1 DEF RowsInv, Columns, Statuses
<1>3. MemoryTyped'
  BY DEF RowsInv, MemoryTyped, memory
<1>4. ClaimedRuns'
  BY <1>1 DEF RowsInv, Columns, ClaimedRuns, Over
<1>5. Takes
  <2>1. ASSUME NEW u \in Tasks, u \in reset PROVE version'[u] = version[u] + 1
    BY <2>1
  <2>2. ASSUME NEW u \in Tasks, u \notin reset PROVE ClaimKept(u)
    BY <2>2 DEF ClaimKept
  <2> QED
    BY <2>1, <2>2 DEF Takes, memory
<1> QED
  BY <1>2, <1>3, <1>4, <1>5 DEF RowsInv

LEMMA RetryRows ==
  ASSUME RowsInv, NEW t \in Tasks, RetryTaskFromUi(t)
  PROVE  RowsInv' /\ Takes
<1> USE DEF RetryTaskFromUi
<1>1. claimedBy[t] = None /\ ~stopReq[t] /\ version[t] + 1 \in Nat
  BY DEF RowsInv, Columns, ClaimedRuns
<1>2. Columns'
  BY <1>1 DEF RowsInv, Columns, Statuses
<1>3. MemoryTyped'
  BY DEF RowsInv, MemoryTyped, memory
<1>4. ClaimedRuns'
  BY <1>1 DEF RowsInv, Columns, ClaimedRuns, Over
<1>5. Takes
  BY DEF Takes, ClaimKept, RowsInv, Columns, memory
<1> QED
  BY <1>2, <1>3, <1>4, <1>5 DEF RowsInv

\* A rerun and a clear put back only what was over.
LEMMA ResetWasOver ==
  /\ \A t \in Tasks : t \in BrokenCone => Over(status, t)
  /\ \A t, v \in Tasks : t \in {u \in Cone(v) : Over(status, u)} => Over(status, t)
BY DEF BrokenCone, Over, Terminal

LEMMA RunsAgainRows ==
  ASSUME RowsInv, RunsAgain
  PROVE  RowsInv' /\ Takes
<1> DEFINE settled == {"succeeded", "skipped"}
           ended == {t \in Tasks : Over(status, t)}
<1>1. CASE RerunFromFailed
  <2>1. PutBack(BrokenCone, settled)
    BY <1>1, Zenon DEF RerunFromFailed
  <2>2. UNCHANGED memory
    BY <1>1 DEF RerunFromFailed
  <2> HIDE DEF settled
  <2> QED
    BY <2>1, <2>2, ResetWasOver, PutBackRows
<1>2. CASE RerunAll
  <2>1. PutBack(ended, settled)
    BY <1>2, Zenon DEF RerunAll
  <2>2. UNCHANGED memory
    BY <1>2 DEF RerunAll
  <2>3. \A t \in Tasks : t \in ended => Over(status, t)
    OBVIOUS
  <2> HIDE DEF settled, ended
  <2> QED
    BY <2>1, <2>2, <2>3, PutBackRows
<1>3. ASSUME NEW t \in Tasks, ClearTaskWithDownstream(t) PROVE RowsInv' /\ Takes
  BY <1>3, ResetWasOver, PutBackRows DEF ClearTaskWithDownstream
<1> QED
  BY <1>1, <1>2, <1>3, RetryRows DEF RunsAgain

-----------------------------------------------------------------------------
(* Running again: the counters *)

\* A stop request is answered for by the run: it is stopping, or has ended
\* while it was.
StopsNamed ==
  /\ stoppingAs \in {None, "cancelled", "failed"}
  /\ \A t \in Tasks : stopReq[t] => stoppingAs # None

AgainInv ==
  /\ RowsInv
  /\ StopsNamed
  /\ again \in Seq(Operations)
  /\ RunningCounterExact

\* The tasks of `over` end and are counted off, of counters that were exact.
LEMMA ExactAfterEnds ==
  ASSUME CounterExact, status' \in [Tasks -> Statuses], NEW over \in SUBSET Tasks,
         \A t \in over : ~Over(status, t) /\ Over(status', t),
         \A t \in Tasks \ over : Over(status', t) <=> Over(status, t),
         \A t \in Tasks : status'[t] = "pending" => status[t] = "pending",
         remaining' = Decremented(status', over)
  PROVE  CounterExact'
<1>1. \A u \in Tasks : status'[u] = "pending" =>
        Decremented(status', over)[u] = Cardinality({d \in Deps[u] : ~Over(status', d)})
  BY CountedDown DEF Decremented
<1> QED
  BY <1>1 DEF CounterExact

LEMMA OneEndsExact ==
  ASSUME RowsInv, CounterExact, NEW t \in Tasks, ~Over(status, t), NEW end \in Terminal,
         status' = [status EXCEPT ![t] = end], remaining' = Decremented(status', {t})
  PROVE  CounterExact'
<1> DEFINE over == {t}
<1>1. /\ over \in SUBSET Tasks /\ remaining' = Decremented(status', over)
      /\ status' \in [Tasks -> Statuses]
      /\ \A u \in over : ~Over(status, u) /\ Over(status', u)
      /\ \A u \in Tasks \ over : Over(status', u) <=> Over(status, u)
      /\ \A u \in Tasks : status'[u] = "pending" => status[u] = "pending"
  BY DEF RowsInv, Columns, Over, Statuses, Terminal
<1> HIDE DEF over
<1> QED
  BY <1>1, ExactAfterEnds

\* What results do to the counters, a settled stop aside.
LEMMA ResultCounts ==
  ASSUME RowsInv, CounterExact, NEW x \in work, ResultWrites(x), ~SettleStopping(x)
  PROVE  CounterExact'
<1>1. /\ x.task \in Tasks
      /\ Owns(x) => status[x.task] = "running"
  BY MarkableRow
<1>2. CASE MarkTaskSucceeded(x)
  <2> DEFINE t == x.task
             st == [status EXCEPT ![t] = "succeeded"]
             over == {t}
             rem == Decremented(st, over)
  <2>1. /\ status' = [u \in Tasks |-> IF u \in Promoted(st, rem, t) THEN "ready" ELSE st[u]]
        /\ remaining' = rem /\ status[t] = "running"
    BY <1>1, <1>2 DEF MarkTaskSucceeded, MayMark
  <2>2. /\ st \in [Tasks -> Statuses] /\ over \in SUBSET Tasks
        /\ \A u \in over : ~Over(status, u) /\ Over(st, u)
        /\ \A u \in Tasks \ over : Over(st, u) <=> Over(status, u)
        /\ \A u \in Tasks : st[u] = "pending" => status[u] = "pending"
    BY <1>1, <2>1 DEF RowsInv, Columns, Statuses, Terminal, Over
  <2>3. \A u \in Promoted(st, rem, t) : st[u] = "pending"
    BY DEF Promoted
  <2> HIDE DEF st, over
  <2>4. \A u \in Tasks : st[u] = "pending" => rem[u] = Cardinality({d \in Deps[u] : ~Over(st, d)})
    BY <2>2, CountedDown DEF Decremented
  <2> HIDE DEF rem
  <2>5. /\ \A u \in Tasks : Over(status', u) <=> Over(st, u)
        /\ \A u \in Tasks : status'[u] = "pending" => st[u] = "pending"
    BY <2>1, <2>2, <2>3 DEF Over, Terminal
  <2> SUFFICES ASSUME NEW u \in Tasks, status'[u] = "pending"
               PROVE  rem[u] = Cardinality({d \in Deps[u] : ~Over(status', d)})
    BY <2>1 DEF CounterExact
  <2>6. {d \in Deps[u] : ~Over(status', d)} = {d \in Deps[u] : ~Over(st, d)}
    BY <2>5, DagAssumption
  <2> QED
    BY <2>4, <2>5, <2>6
<1>3. CASE MarkTaskFailed(x)
  BY <1>1, <1>3, OneEndsExact DEF MarkTaskFailed, MayMark, Over, Terminal
<1>4. CASE RetryTask(x) \/ RequeueQuotaWait(x)
  <2>1. /\ status' = [status EXCEPT ![x.task] = "ready"] /\ remaining' = remaining
        /\ status[x.task] = "running" /\ status \in [Tasks -> Statuses]
    BY <1>1, <1>4 DEF RetryTask, RequeueQuotaWait, MayMark, RowsInv, Columns
  <2>2. /\ \A u \in Tasks : Over(status', u) <=> Over(status, u)
        /\ \A u \in Tasks : status'[u] = "pending" => status[u] = "pending"
    BY <1>1, <2>1 DEF Over, Terminal
  <2> QED
    BY <2>1, <2>2, SameCount
<1>5. CASE UNCHANGED <<status, remaining>>
  BY <1>5, SameCount DEF Over
<1> QED
  BY <1>2, <1>3, <1>4, <1>5 DEF ResultWrites, ParkWait, taskRows

\* The steps of the engines count every end off, once.
LEMMA StepCounts ==
  ASSUME RowsInv, CounterExact,
         \/ Advance \/ Claim \/ Leases \/ Reap
         \/ \E x \in work : ResultWrites(x) /\ ~SettleStopping(x)
         \/ \E x \in work : TellToStop(x)
         \/ \E e \in Engines : Crash(e)
  PROVE  CounterExact'
<1>1. status \in [Tasks -> Statuses]
  BY DEF RowsInv, Columns
<1>2. CASE UNCHANGED <<status, remaining>>
  BY <1>2, SameCount DEF Over
<1>3. CASE Advance
  <2>1. CASE AdvanceDefaultReady
    <3>1. /\ \A u \in Tasks : Over(status', u) <=> Over(status, u)
          /\ \A u \in Tasks : status'[u] = "pending" => status[u] = "pending"
          /\ remaining' = remaining
      BY <2>1 DEF AdvanceDefaultReady, ReadyFrontier, Candidate, Over, Terminal
    <3> QED
      BY <3>1, SameCount
  <2>2. CASE AdvanceDefaultSkip
    <3>1. /\ status' \in [Tasks -> Statuses] /\ SkipFrontier \in SUBSET Tasks
          /\ \A t \in SkipFrontier : ~Over(status, t) /\ Over(status', t)
          /\ \A t \in Tasks \ SkipFrontier : Over(status', t) <=> Over(status, t)
          /\ \A t \in Tasks : status'[t] = "pending" => status[t] = "pending"
          /\ remaining' = Decremented(status', SkipFrontier)
      BY <1>1, <2>2 DEF AdvanceDefaultSkip, SkipFrontier, Candidate, Over, Statuses, Terminal
    <3> QED
      BY <3>1, ExactAfterEnds
  <2>3. ASSUME NEW e \in Engines, AdvanceApply(e) PROVE CounterExact'
    <3>1. PICK c \in decided[e] :
            IF status[c.task] = "pending"
              THEN /\ status' = [status EXCEPT ![c.task] = c.to]
                   /\ remaining' = IF c.to \in Terminal
                                     THEN Decremented(status', {c.task}) ELSE remaining
              ELSE UNCHANGED <<status, remaining>>
      BY <2>3 DEF AdvanceApply
    <3>2. c.task \in Tasks /\ c.to \in {"ready", "awaiting_approval", "skipped", "failed"}
      BY DEF RowsInv, MemoryTyped, Decision
    <3>3. CASE status[c.task] = "pending" /\ c.to \in Terminal
      <4>1. ~Over(status, c.task)
        BY <3>3 DEF Over, Terminal
      <4> QED
        BY <3>1, <3>2, <3>3, <4>1, OneEndsExact
    <3>4. CASE status[c.task] = "pending" /\ c.to \notin Terminal
      <4>1. /\ \A u \in Tasks : Over(status', u) <=> Over(status, u)
            /\ \A u \in Tasks : status'[u] = "pending" => status[u] = "pending"
            /\ remaining' = remaining
        BY <1>1, <3>1, <3>2, <3>4 DEF Over, Terminal
      <4> QED
        BY <4>1, SameCount
    <3> QED
      BY <1>2, <3>1, <3>3, <3>4
  <2>4. ASSUME NEW t \in Tasks, NEW verdict \in {"succeeded", "failed"}, ResolveApproval(t, verdict)
        PROVE  CounterExact'
    BY <2>4, OneEndsExact DEF ResolveApproval, Over, Terminal
  <2>5. ASSUME NEW t \in Tasks, ReconcileWait(t) PROVE CounterExact'
    BY <2>5, OneEndsExact DEF ReconcileWait, Over, Terminal
  <2> QED
    BY <1>2, <1>3, <2>1, <2>2, <2>3, <2>4, <2>5
       DEF Advance, AdvanceCandidates, AdvanceEvaluate, taskRows
<1>4. CASE Claim
  <2>1. PICK e \in Engines, t \in Tasks : ClaimReady(e, t) \/ ClaimTeardown(e, t)
    BY <1>4 DEF Claim
  <2>2. CASE ClaimReady(e, t)
    <3>1. /\ \A u \in Tasks : Over(status', u) <=> Over(status, u)
          /\ \A u \in Tasks : status'[u] = "pending" => status[u] = "pending"
          /\ remaining' = remaining
      BY <1>1, <2>2 DEF ClaimReady, Over, Terminal
    <3> QED
      BY <3>1, SameCount
  <2> QED
    BY <1>2, <2>1, <2>2 DEF ClaimTeardown
<1>5. CASE Leases
  <2>1. CASE RecoverExpiredLeases
    <3>1. /\ \A u \in Tasks : Over(status', u) <=> Over(status, u)
          /\ \A u \in Tasks : status'[u] = "pending" => status[u] = "pending"
          /\ remaining' = remaining
      BY <2>1 DEF RecoverExpiredLeases, Expired, Over, Terminal
    <3> QED
      BY <3>1, SameCount
  <2> QED
    BY <1>2, <1>5, <2>1 DEF Leases, LeaseLapses, RenewTaskLease
<1>6. CASE Reap \/ (\E x \in work : TellToStop(x)) \/ \E e \in Engines : Crash(e)
  BY <1>2, <1>6 DEF Reap, ReapRead, ReapApply, TellToStop, Crash, taskRows
<1>7. CASE \E x \in work : ResultWrites(x) /\ ~SettleStopping(x)
  BY <1>7, ResultCounts
<1> QED
  BY <1>3, <1>4, <1>5, <1>6, <1>7

\* The reset counts again what is pending afterwards.
LEMMA PutBackCounts ==
  ASSUME RowsInv, NEW reset, NEW settled, PutBack(reset, settled),
         \A t \in Tasks : status'[t] \in settled <=> Over(status', t)
  PROVE  CounterExact'
<1> SUFFICES ASSUME NEW u \in Tasks, status'[u] = "pending"
             PROVE  remaining'[u] = Cardinality({d \in Deps[u] : ~Over(status', d)})
  BY DEF CounterExact
<1>1. remaining'[u] = Cardinality({d \in Deps[u] : status'[d] \notin settled})
  BY DEF PutBack, Recounted
<1>2. {d \in Deps[u] : status'[d] \notin settled} = {d \in Deps[u] : ~Over(status', d)}
  BY DagAssumption
<1> QED
  BY <1>1, <1>2

\* So the counters are exact after every operation but the retry.
LEMMA RunsAgainCounts ==
  ASSUME RowsInv, again \in Seq(Operations), RunsAgain
  PROVE  again' \in Seq(Operations) /\ (CounterExact' \/ ~NeverRetried')
<1>1. ASSUME NEW op \in Operations, Asked(op) PROVE again' \in Seq(Operations)
  BY <1>1 DEF Asked
<1>2. CASE RerunFromFailed
  <2> DEFINE settled == {"succeeded", "skipped"}
  <2>1. PutBack(BrokenCone, settled)
    BY <1>2, Zenon DEF RerunFromFailed
  <2>2. \A t \in Tasks : status'[t] \in settled <=> Over(status', t)
    BY <2>1 DEF PutBack, BrokenCone, Over, Terminal
  <2>3. again' \in Seq(Operations)
    BY <1>1, <1>2 DEF RerunFromFailed, Operations
  <2> HIDE DEF settled
  <2> QED
    BY <2>1, <2>2, <2>3, PutBackCounts
<1>3. CASE RerunAll
  <2> DEFINE settled == {"succeeded", "skipped"}
             ended == {t \in Tasks : Over(status, t)}
  <2>1. PutBack(ended, settled)
    BY <1>3, Zenon DEF RerunAll
  <2>2. \A t \in Tasks : status'[t] \in settled <=> Over(status', t)
    BY <2>1 DEF PutBack, Over, Terminal
  <2>3. again' \in Seq(Operations)
    BY <1>1, <1>3 DEF RerunAll, Operations
  <2> HIDE DEF settled, ended
  <2> QED
    BY <2>1, <2>2, <2>3, PutBackCounts
<1>4. ASSUME NEW t \in Tasks, ClearTaskWithDownstream(t)
      PROVE  again' \in Seq(Operations) /\ CounterExact'
  <2>1. \A u \in Tasks : status'[u] \in Terminal <=> Over(status', u)
    BY DEF Over
  <2>2. again' \in Seq(Operations)
    BY <1>1, <1>4 DEF ClearTaskWithDownstream, Operations
  <2>3. CounterExact'
    BY <1>4, <2>1, PutBackCounts DEF ClearTaskWithDownstream
  <2> QED
    BY <2>2, <2>3
<1>5. ASSUME NEW t \in Tasks, RetryTaskFromUi(t)
      PROVE  again' \in Seq(Operations) /\ ~NeverRetried'
  <2>1. Asked("retry")
    BY <1>5, Zenon DEF RetryTaskFromUi
  <2>2. again' = Append(again, "retry") /\ "retry" \in Operations
    BY <2>1 DEF Asked, Operations
  <2>3. Len(again) + 1 \in DOMAIN again' /\ again'[Len(again) + 1] = "retry"
    BY <2>2
  <2> QED
    BY <2>2, <2>3 DEF NeverRetried
<1> QED
  BY <1>2, <1>3, <1>4, <1>5 DEF RunsAgain

\* The transaction that asks or settles a stop leaves the run stopping, or
\* ends it.
LEMMA FinishStops ==
  ASSUME RowsInv', NEW as \in {"cancelled", "failed"},
         FinishStoppedRun(as, status', stopReq')
  PROVE  StopsNamed' /\ ~(runStatus' = "running" /\ stoppingAs' = None)
<1>1. \A t \in Tasks : stopReq'[t] => status'[t] = "running"
  BY DEF RowsInv, ClaimedRuns
<1>2. as # None
  BY EngineAssumption
<1> QED
  BY <1>1, <1>2 DEF FinishStoppedRun, StopsNamed

\* A step of the engines, in a run that was set running again any number of
\* times.
LEMMA AgainNextKept ==
  ASSUME AgainInv, Next, UNCHANGED again
  PROVE  AgainInv'
<1>1. RowsInv'
  BY RowsKept DEF AgainInv
<1>2. SUFFICES StopsNamed' /\ RunningCounterExact'
  BY <1>1 DEF AgainInv
<1>3. ASSUME NEW as \in {"cancelled", "failed"}, FinishStoppedRun(as, status', stopReq')
      PROVE  StopsNamed' /\ RunningCounterExact'
  <2>1. StopsNamed' /\ ~(runStatus' = "running" /\ stoppingAs' = None)
    BY <1>1, <1>3, FinishStops
  <2> QED
    BY <2>1 DEF RunningCounterExact
<1>4. CASE Stop
  <2>1. CASE CancelRun
    <3>1. FinishStoppedRun(IF stoppingAs = None THEN "cancelled" ELSE stoppingAs, status', stopReq')
      BY <2>1 DEF CancelRun
    <3>2. (IF stoppingAs = None THEN "cancelled" ELSE stoppingAs) \in {"cancelled", "failed"}
      BY DEF AgainInv, StopsNamed
    <3> QED
      BY <1>3, <3>1, <3>2
  <2>2. CASE CancelOverdueRun
    BY <1>3, <2>2 DEF CancelOverdueRun
  <2>3. ASSUME NEW x \in work, TellToStop(x) PROVE StopsNamed' /\ RunningCounterExact'
    <3>1. CounterExact => CounterExact'
      BY <2>3, StepCounts DEF AgainInv
    <3> QED
      BY <2>3, <3>1 DEF TellToStop, taskRows, runRow, AgainInv, StopsNamed, RunningCounterExact, NeverRetried
  <2> QED
    BY <1>4, <2>1, <2>2, <2>3 DEF Stop
<1>5. ASSUME NEW x \in work, SettleStopping(x) PROVE StopsNamed' /\ RunningCounterExact'
  <2>1. stoppingAs \in {"cancelled", "failed"}
    BY <1>5, MarkableRow DEF SettleStopping, MaySettle, AgainInv, StopsNamed
  <2> QED
    BY <1>3, <1>5, <2>1 DEF SettleStopping
<1>6. ASSUME CounterExact => CounterExact', UNCHANGED <<stoppingAs, stopReq>>,
             runStatus' = "running" => runStatus = "running"
      PROVE  StopsNamed' /\ RunningCounterExact'
  BY <1>6 DEF AgainInv, StopsNamed, RunningCounterExact, NeverRetried
<1>7. CASE Advance
  <2>1. UNCHANGED <<runRow, stopReq>>
    BY <1>7 DEF Advance, AdvanceDefaultReady, AdvanceDefaultSkip, AdvanceCandidates,
                AdvanceEvaluate, AdvanceApply, ResolveApproval, ReconcileWait, taskRows
  <2> QED
    BY <1>6, <1>7, <2>1, StepCounts DEF AgainInv, runRow
<1>8. CASE Claim
  <2>1. UNCHANGED <<runRow, stopReq>>
    BY <1>8 DEF Claim, ClaimReady, ClaimTeardown
  <2> QED
    BY <1>6, <1>8, <2>1, StepCounts DEF AgainInv, runRow
<1>9. CASE Leases
  <2>1. UNCHANGED <<runRow, stopReq>>
    BY <1>9 DEF Leases, LeaseLapses, RenewTaskLease, RecoverExpiredLeases
  <2> QED
    BY <1>6, <1>9, <2>1, StepCounts DEF AgainInv, runRow
<1>10. CASE Reap
  <2>1. UNCHANGED <<stoppingAs, stopReq>> /\ (runStatus' = "running" => runStatus = "running")
    BY <1>10 DEF Reap, ReapRead, ReapApply, taskRows, runRow
  <2> QED
    BY <1>6, <1>10, <2>1, StepCounts DEF AgainInv
<1>11. CASE \E e \in Engines : Crash(e)
  <2>1. UNCHANGED <<runRow, stopReq>>
    BY <1>11 DEF Crash, taskRows
  <2> QED
    BY <1>6, <1>11, <2>1, StepCounts DEF AgainInv, runRow
<1>12. CASE Result
  <2>1. PICK x \in work : ResultWrites(x)
    BY <1>12, ResultKinds DEF Result
  <2>2. CASE ~SettleStopping(x)
    <3>1. UNCHANGED <<runRow, stopReq>>
      BY <2>1, <2>2 DEF ResultWrites, MarkTaskSucceeded, MarkTaskFailed, RetryTask,
                        RequeueQuotaWait, ParkWait, taskRows
    <3> QED
      BY <1>6, <2>1, <2>2, <3>1, StepCounts DEF AgainInv, runRow
  <2> QED
    BY <1>5, <2>2
<1> QED
  BY <1>4, <1>7, <1>8, <1>9, <1>10, <1>11, <1>12 DEF Next

LEMMA AgainKept ==
  ASSUME AgainInv, AgainNext
  PROVE  AgainInv'
<1>1. CASE RunsAgain
  <2>1. RowsInv'
    BY <1>1, RunsAgainRows DEF AgainInv
  <2>2. UNCHANGED <<stoppingAs, stopReq>>
    <3>1. ASSUME NEW reset, NEW settled, PutBack(reset, settled), NEW ended, Rearmed(ended)
          PROVE  UNCHANGED <<stoppingAs, stopReq>>
      BY <3>1 DEF PutBack, Rearmed
    <3> QED
      BY <1>1, <3>1 DEF RunsAgain, RerunFromFailed, RerunAll, ClearTaskWithDownstream,
                        RetryTaskFromUi, Rearmed
  <2>3. StopsNamed'
    BY <2>2 DEF AgainInv, StopsNamed
  <2>4. again' \in Seq(Operations) /\ RunningCounterExact'
    BY <1>1, RunsAgainCounts DEF AgainInv, RunningCounterExact
  <2> QED
    BY <2>1, <2>3, <2>4 DEF AgainInv
<1> QED
  BY <1>1, AgainNextKept DEF AgainNext

LEMMA InitAgainInv ==
  ASSUME AgainInit
  PROVE  AgainInv /\ FenceNamesExecution /\ ToldOnlyWhenLost
<1>1. IInv
  BY InitIInv DEF AgainInit
<1>2. RowsInv /\ CounterExact
  BY <1>1, IInvRows DEF IInv
<1>3. StopsNamed /\ again \in Seq(Operations)
  BY DEF AgainInit, Init, StopsNamed
<1>4. FenceNamesExecution /\ ToldOnlyWhenLost
  BY DEF AgainInit, Init, FenceNamesExecution, ToldOnlyWhenLost
<1> QED
  BY <1>2, <1>3, <1>4 DEF AgainInv, RunningCounterExact

LEMMA AgainStutters ==
  ASSUME AgainInv, UNCHANGED againVars
  PROVE  AgainInv'
BY DEF AgainInv, againVars, vars, taskRows, runRow, memory, RowsInv, Columns, MemoryTyped,
       ClaimedRuns, Over, StopsNamed, RunningCounterExact, NeverRetried, CounterExact

\* What holds of a run however often it is set running again.
THEOREM AgainInvariance == AgainSpec => []AgainInv
<1>1. AgainInit => AgainInv
  BY InitAgainInv
<1>2. AgainInv /\ [AgainNext]_againVars => AgainInv'
  BY AgainKept, AgainStutters
<1> QED
  BY <1>1, <1>2, PTL DEF AgainSpec

\* However often a run is rerun or cleared, and whatever an engine had read
\* before, the counters of a run that goes on are exact.
THEOREM CountersSurviveReruns == AgainSpec => []RunningCounterExact
<1>1. AgainInv => RunningCounterExact
  BY DEF AgainInv
<1> QED
  BY <1>1, AgainInvariance, PTL

\* The same of MCRunAgain, whose workflow has a gang or none from the start.
THEOREM CountersOfTheFanIn == FanInSpec => []CountersRunAgain
<1> DEFINE Inv == ~ganged => AgainInv
<1>1. FanInInit => Inv
  BY InitAgainInv DEF FanInInit, GangInit
<1>2. Inv /\ [FanInNext]_allVars => Inv'
  <2>1. ASSUME AgainInv, UNCHANGED allVars PROVE AgainInv'
    BY <2>1, AgainStutters DEF allVars, gangVars
  <2>2. ASSUME Inv, PlainStep PROVE Inv'
    BY <2>2, AgainKept DEF PlainStep
  <2>3. ASSUME TrainStep PROVE Inv'
    BY <2>3 DEF TrainStep
  <2>4. ASSUME Inv, UNCHANGED allVars PROVE Inv'
    BY <2>1, <2>4 DEF allVars
  <2> QED
    BY <2>2, <2>3, <2>4 DEF FanInNext
<1>3. Inv => CountersRunAgain
  BY DEF AgainInv, CountersRunAgain
<1> QED
  BY <1>1, <1>2, <1>3, PTL DEF FanInSpec

\* No rerun, clear or retry puts a row back under a version that an execution
\* of an earlier round still holds, and none gives a row back to an execution
\* that was told to stop.
THEOREM FencesSurviveReruns == AgainSpec => [](FenceNamesExecution /\ ToldOnlyWhenLost)
<1> DEFINE Fences == FenceNamesExecution /\ ToldOnlyWhenLost
<1>1. AgainInit => Fences
  BY InitAgainInv
<1>2. AgainInv /\ Fences /\ [AgainNext]_againVars => Fences'
  <2>1. ASSUME Fences, UNCHANGED againVars PROVE Fences'
    BY <2>1 DEF againVars, vars, taskRows, memory, FenceNamesExecution, ToldOnlyWhenLost, Owns
  <2>2. ASSUME AgainInv, Fences, AgainNext PROVE Fences'
    <3>1. RowsInv
      BY <2>2 DEF AgainInv
    <3>2. FenceStep
      BY <2>2, <3>1, NextIsFenceStep, RunsAgainRows DEF AgainNext, FenceStep
    <3> QED
      BY <2>2, <3>1, <3>2, FencesKept, ToldKept
  <2> QED
    BY <2>1, <2>2
<1> QED
  BY <1>1, <1>2, AgainInvariance, PTL DEF AgainSpec

-----------------------------------------------------------------------------
(* Gangs *)

\* Between the steps that a gang adds, the engines' are those of TaskRuns.
LEMMA EnginesStepIsNext ==
  ASSUME Sweep \/ Outside \/ \E e \in Engines : Step(e) \/ GangCrash(e)
  PROVE  Next
<1>1. CASE Sweep
  BY <1>1 DEF Sweep, Next, Advance, Leases, Stop
<1>2. CASE Outside
  BY <1>2 DEF Outside, Next, Leases, Stop
<1>3. ASSUME NEW e \in Engines, Step(e) PROVE Next
  BY <1>3 DEF Step, Next, Advance, Claim, Result, Reap
<1> QED
  BY <1>1, <1>2, <1>3 DEF GangCrash, Next

\* The three steps that a gang adds.
LEMMA GangClaimRows ==
  ASSUME RowsInv, NEW e \in Engines, ClaimReadyGang(e)
  PROVE  RowsInv' /\ Claims(e, Ganged, "held")
<1> USE DEF ClaimReadyGang, NextFence
<1>1. Ganged \in SUBSET Tasks
  BY DagAssumption
<1>2. \A t \in Ganged : /\ version[t] + 1 \in Nat /\ attempt[t] + 1 \in Nat
                        /\ claimedBy[t] = None /\ ~stopReq[t] /\ t \notin waking
  BY <1>1 DEF RowsInv, Columns, ClaimedRuns, Over, Terminal
<1>3. Columns'
  BY <1>1, <1>2 DEF RowsInv, Columns, Statuses
<1>4. MemoryTyped'
  BY <1>1, SetDispatchedType DEF RowsInv, MemoryTyped
<1>5. ClaimedRuns'
  BY <1>1, <1>2, EngineAssumption DEF RowsInv, Columns, ClaimedRuns, Over
<1>6. Claims(e, Ganged, "held")
  BY DEF Claims, ClaimKept
<1> QED
  BY <1>3, <1>4, <1>5, <1>6 DEF RowsInv

LEMMA GangFailRows ==
  ASSUME RowsInv, NEW x \in work, GangResultFails(x)
  PROVE  RowsInv' /\ Takes
<1>1. ResultWrites(x) /\ Collected(x)
  BY DEF GangResultFails, ResultWrites, StaleResult
<1>2. Columns' /\ ClaimedRuns' /\ \A u \in Tasks : ClaimKept(u)
  BY <1>1, ResultRows, ResultClaims
<1>3. MemoryTyped'
  BY <1>1 DEF Collected, RowsInv, MemoryTyped
<1> QED
  BY <1>1, <1>2, <1>3 DEF RowsInv, Takes, Collected

LEMMA SiblingRows ==
  ASSUME RowsInv, NEW e \in Engines, CancelGangSiblings(e)
  PROVE  RowsInv' /\ Takes
<1>1. PICK m \in dying[e] :
        LET sibling(t) == t \in Ganged \ {m}
            idle(t) == sibling(t) /\ Idle(t) /\ status[t] # "awaiting_approval"
            held(t) == sibling(t) /\ Dispatch(t)
        IN  /\ status' = [t \in Tasks |-> IF idle(t) THEN "cancelled" ELSE status[t]]
            /\ claimedBy' = [t \in Tasks |-> IF idle(t) THEN None ELSE claimedBy[t]]
            /\ version' = [t \in Tasks |-> IF idle(t) THEN version[t] + 1 ELSE version[t]]
            /\ lease' = [t \in Tasks |-> IF idle(t) THEN "none"
                                         ELSE IF held(t) /\ ~stopReq[t] THEN "live"
                                         ELSE lease[t]]
            /\ stopReq' = [t \in Tasks |-> stopReq[t] \/ held(t)]
  BY DEF CancelGangSiblings
<1>2. UNCHANGED <<attempt, waking, memory>>
  BY DEF CancelGangSiblings
<1>3. Columns'
  BY <1>1, <1>2 DEF RowsInv, Columns, Statuses, Terminal
<1>4. MemoryTyped'
  BY <1>2 DEF RowsInv, MemoryTyped, memory
<1>5. ClaimedRuns'
  BY <1>1, <1>2 DEF RowsInv, Columns, ClaimedRuns, Idle, Dispatch, Over, Terminal
<1>6. ASSUME NEW u \in Tasks PROVE ClaimKept(u) \/ version'[u] = version[u] + 1
  BY <1>1 DEF ClaimKept, Dispatch, RowsInv, Columns
<1> QED
  BY <1>2, <1>3, <1>4, <1>5, <1>6 DEF RowsInv, Takes, memory

LEMMA GangRows ==
  ASSUME RowsInv, GangNext
  PROVE  RowsInv' /\ FenceStep
<1>1. CASE Next
  BY <1>1, RowsKept, NextIsFenceStep
<1>2. CASE RunsAgain
  BY <1>2, RunsAgainRows DEF FenceStep
<1>3. ASSUME NEW e \in Engines, ClaimReadyGang(e) PROVE RowsInv' /\ FenceStep
  BY <1>3, GangClaimRows, DagAssumption DEF FenceStep
<1>4. ASSUME NEW e \in Engines, GangStep(e) PROVE RowsInv' /\ FenceStep
  BY <1>3, <1>4, GangFailRows, SiblingRows DEF GangStep, FenceStep
<1> QED
  BY <1>1, <1>2, <1>4, EnginesStepIsNext DEF GangNext

LEMMA GangRowsHold == GangSpec => []RowsInv
<1>1. GangInit => RowsInv
  BY InitAgainInv DEF GangInit, AgainInv
<1>2. RowsInv /\ [GangNext]_gangVars => RowsInv'
  <2>1. ASSUME RowsInv, UNCHANGED gangVars PROVE RowsInv'
    BY <2>1 DEF RowsInv, Columns, MemoryTyped, ClaimedRuns, Over, gangVars, againVars, vars,
                taskRows, memory
  <2> QED
    BY <2>1, GangRows
<1> QED
  BY <1>1, <1>2, PTL DEF GangSpec

\* The fences hold where gangs are claimed, cancelled and rerun too: a gang
\* takes a version for each member in one step, and a sibling cancelled for
\* another's failure is put under a version nobody holds.
THEOREM FencesHoldInGangs == GangSpec => [](FenceNamesExecution /\ ToldOnlyWhenLost)
<1> DEFINE Fences == FenceNamesExecution /\ ToldOnlyWhenLost
<1>1. GangInit => Fences
  BY InitAgainInv DEF GangInit
<1>2. RowsInv /\ Fences /\ [GangNext]_gangVars => Fences'
  <2>1. ASSUME Fences, UNCHANGED gangVars PROVE Fences'
    BY <2>1 DEF gangVars, againVars, vars, taskRows, memory, FenceNamesExecution,
                ToldOnlyWhenLost, Owns
  <2>2. ASSUME RowsInv, Fences, GangNext PROVE Fences'
    BY <2>2, GangRows, FencesKept, ToldKept
  <2> QED
    BY <2>1, <2>2
<1> QED
  BY <1>1, <1>2, GangRowsHold, PTL DEF GangSpec

\* No result starts a task.
LEMMA ResultStartsNone ==
  ASSUME RowsInv, NEW x \in work, ResultWrites(x), NEW t \in Tasks, status[t] = "ready"
  PROVE  status'[t] # "running"
<1>1. status \in [Tasks -> Statuses] /\ x.task \in Tasks
  BY MarkableRow DEF RowsInv, Columns
<1>2. CASE MarkTaskSucceeded(x)
  BY <1>1, <1>2 DEF MarkTaskSucceeded
<1>3. CASE MarkTaskFailed(x) \/ RetryTask(x) \/ RequeueQuotaWait(x) \/ SettleStopping(x)
  BY <1>1, <1>3 DEF MarkTaskFailed, RetryTask, RequeueQuotaWait, SettleStopping
<1> QED
  BY <1>2, <1>3 DEF ResultWrites, ParkWait, taskRows

\* No other step starts a member of the gang.
LEMMA NextStartsNoMember ==
  ASSUME RowsInv, Next, NEW t \in Ganged, status[t] = "ready"
  PROVE  status'[t] # "running"
<1>1. status \in [Tasks -> Statuses] /\ t \in Tasks
  BY DagAssumption DEF RowsInv, Columns
<1>2. CASE UNCHANGED status
  BY <1>2
<1>3. CASE Advance
  <2>1. ASSUME NEW e \in Engines, AdvanceApply(e) PROVE status'[t] # "running"
    <3>1. PICK c \in decided[e] : status' = [status EXCEPT ![c.task] = c.to] \/ UNCHANGED status
      BY <2>1 DEF AdvanceApply
    <3>2. c.to # "running"
      BY DEF RowsInv, MemoryTyped, Decision
    <3> QED
      BY <1>1, <3>1, <3>2
  <2>2. CASE AdvanceDefaultReady \/ AdvanceDefaultSkip
    BY <1>1, <2>2 DEF AdvanceDefaultReady, AdvanceDefaultSkip
  <2>3. ASSUME NEW u \in Tasks, \/ ReconcileWait(u)
                                \/ \E verdict \in {"succeeded", "failed"} : ResolveApproval(u, verdict)
        PROVE  status'[t] # "running"
    BY <1>1, <2>3 DEF ReconcileWait, ResolveApproval
  <2> QED
    BY <1>2, <1>3, <2>1, <2>2, <2>3 DEF Advance, AdvanceCandidates, AdvanceEvaluate, taskRows
<1>4. CASE Claim
  <2>1. ASSUME NEW e \in Engines, NEW u \in Tasks, ClaimReady(e, u) PROVE status'[t] # "running"
    BY <1>1, <2>1 DEF ClaimReady
  <2> QED
    BY <1>2, <1>4, <2>1 DEF Claim, ClaimTeardown
<1>5. CASE Leases
  BY <1>1, <1>2, <1>5 DEF Leases, LeaseLapses, RenewTaskLease, RecoverExpiredLeases
<1>6. ASSUME NEW x \in work, ResultWrites(x) PROVE status'[t] # "running"
  BY <1>1, <1>6, ResultStartsNone
<1>7. CASE Stop
  BY <1>1, <1>2, <1>7 DEF Stop, CancelRun, CancelOverdueRun, StopRunTasks, TellToStop, taskRows
<1>8. CASE Reap \/ \E e \in Engines : Crash(e)
  BY <1>2, <1>8 DEF Reap, ReapRead, ReapApply, Crash, taskRows
<1> QED
  BY <1>3, <1>4, <1>5, <1>6, <1>7, <1>8, ResultKinds DEF Next, Result

\* "N ranks together or none", after a reclaim, a rank's retry or a rerun as at
\* first: a member starts only in the step in which all of them do.
THEOREM GangsStartWhole == GangSpec => [][ClaimsWhole]_gangVars
<1>1. ASSUME RowsInv, GangNext PROVE ClaimsWhole
  <2> SUFFICES ASSUME NEW t \in Ganged, status[t] = "ready", status'[t] = "running"
               PROVE  \A u \in Ganged : version'[u] = version[u] + 1 /\ claimedBy'[u] = claimedBy'[t]
    BY DEF ClaimsWhole
  <2>1. Ganged \subseteq Tasks /\ t \in Tasks
    BY DagAssumption
  <2>2. ~Next
    BY <1>1, NextStartsNoMember
  <2>3. ~RunsAgain
    <3>1. ASSUME NEW reset, NEW settled, PutBack(reset, settled) PROVE FALSE
      BY <2>1, <3>1 DEF PutBack
    <3>2. ASSUME NEW u \in Tasks, RetryTaskFromUi(u) PROVE FALSE
      BY <1>1, <2>1, <3>2 DEF RetryTaskFromUi, RowsInv, Columns
    <3> QED
      BY <3>1, <3>2, Zenon DEF RunsAgain, RerunFromFailed, RerunAll, ClearTaskWithDownstream
  <2>4. PICK e \in Engines : GangStep(e)
    BY <1>1, <2>2, <2>3, EnginesStepIsNext DEF GangNext
  <2>5. ASSUME NEW x \in work, GangResultFails(x) PROVE FALSE
    <3>1. ResultWrites(x)
      BY <2>5 DEF GangResultFails, ResultWrites, StaleResult
    <3> QED
      BY <1>1, <2>1, <3>1, ResultStartsNone
  <2>6. ~CancelGangSiblings(e)
    BY <2>1 DEF CancelGangSiblings
  <2>7. ClaimReadyGang(e)
    BY <2>4, <2>5, <2>6 DEF GangStep
  <2> QED
    BY <2>1, <2>7 DEF ClaimReadyGang, NextFence
<1>2. UNCHANGED gangVars => ClaimsWhole
  BY DEF gangVars, againVars, vars, taskRows, ClaimsWhole
<1> QED
  BY <1>1, <1>2, GangRowsHold, PTL DEF GangSpec
=============================================================================
