-------------------------- MODULE CiEvents_proofs --------------------------
(***************************************************************************)
(* Proofs about CiEvents and the keyed submit below it, for any number of  *)
(* events, workers, requests, attempts and faults.                         *)
(***************************************************************************)
EXTENDS CiEvents, FiniteSetTheorems, TLAPS

USE CiAssumption

\* The row of the key names the run that was made under it, the only one.
KeyNamesTheRun == runs = IF names = Nil THEN {} ELSE {names}

\* A request that is answered with a run is answered with that one.
AnswersNameIt == \A r \in Requests : answer[r] = "run" => names # Nil /\ gives[r] = names

ApiInv == ApiTypeOK /\ KeyNamesTheRun /\ AnswersNameIt

\* What ci_runs has is that run.
RecordNamesIt == recorded # Nil => recorded = names

\* Where a worker is says what it has in hand.
WorkerShape(w) ==
  /\ pc[w] = "idle" => finish[w] = "skipped"
  /\ pc[w] # "idle" => on[w] \in Events
  /\ pc[w] \in {"group", "withdraw", "cancel"} => on[w] = LetGo
  /\ pc[w] \in {"answer", "record"} => asked[w] \in Requests
  /\ pc[w] = "record" => req[asked[w]] = "answered" /\ answer[asked[w]] = "run"
  /\ finish[w] = "done" /\ on[w] \in Asks => recorded # Nil

\* A claim counts an attempt, a row that is not there has no time, and an event
\* is done with a run on record.
RowShape(e) ==
  /\ state[e] = "claimed" => attempts[e] >= 1
  /\ state[e] = "none" => arrived[e] = 0
  /\ state[e] = "done" /\ e \in Asks => recorded # Nil

CInv ==
  /\ TypeOK /\ KeyNamesTheRun /\ AnswersNameIt /\ RecordNamesIt
  /\ \A w \in Workers : WorkerShape(w)
  /\ \A e \in Events : RowShape(e)

LEMMA NilIsNoRequest == Nil \notin Requests /\ LetGo \in Events /\ Asks \subseteq Events
  BY DEF Nil, Requests, Events

LEMMA EventsFinite == IsFiniteSet(Events) /\ Cardinality(Events) \in Nat
<1>1. IsFiniteSet(Events)
  BY FS_AddElement DEF Events
<1> QED
  BY <1>1, FS_CardinalityType

-----------------------------------------------------------------------------
(* dagron-api *)

\* A run that is named stays so, and an answer that was given.
ApiKept ==
  /\ names # Nil => names' = names
  /\ \A q \in Requests : req[q] = "answered" => req'[q] = "answered" /\ answer'[q] = answer[q]

LEMMA ClaimKeyKeeps ==
  ASSUME ApiInv, NEW r \in Requests, ClaimIdempotencyKey(r)
  PROVE  ApiInv' /\ ApiKept
  BY NilIsNoRequest DEF ApiInv, ApiTypeOK, KeyNamesTheRun, AnswersNameIt, ApiKept,
                        ClaimIdempotencyKey, Goes, Refusals

LEMMA KeyHolderKeeps ==
  ASSUME ApiInv, NEW r \in Requests, KeyHolder(r)
  PROVE  ApiInv' /\ ApiKept
  BY NilIsNoRequest DEF ApiInv, ApiTypeOK, KeyNamesTheRun, AnswersNameIt, ApiKept,
                        KeyHolder, Answers, Goes, Refusals, keyVars

LEMMA CreateRunKeeps ==
  ASSUME ApiInv, NEW r \in Requests, CreateRunClaimed(r)
  PROVE  ApiInv' /\ ApiKept
<1> USE NilIsNoRequest DEF ApiInv, ApiTypeOK, KeyNamesTheRun, AnswersNameIt, ApiKept,
                           CreateRunClaimed, Answers, Goes, Refusals, Ours
<1>1. CASE Ours(r)
  BY <1>1
<1>2. CASE ~Ours(r)
  BY <1>2
<1> QED
  BY <1>1, <1>2

LEMMA ReleaseKeeps ==
  ASSUME ApiInv, NEW r \in Requests, ReleaseIdempotencyClaim(r)
  PROVE  ApiInv' /\ ApiKept
<1>1. old' \in BOOLEAN
  BY DEF ReleaseIdempotencyClaim
<1> QED
  BY <1>1, NilIsNoRequest DEF ApiInv, ApiTypeOK, KeyNamesTheRun, AnswersNameIt, ApiKept,
                              ReleaseIdempotencyClaim, Goes, Refusals

LEMMA RefuseKeeps ==
  ASSUME ApiInv, NEW r \in Requests, NEW why \in Refusals, Refuse(r, why)
  PROVE  ApiInv' /\ ApiKept
  BY NilIsNoRequest DEF ApiInv, ApiTypeOK, KeyNamesTheRun, AnswersNameIt, ApiKept,
                        Refuse, Goes, Refusals, keyVars

LEMMA DiesKeeps ==
  ASSUME ApiInv, NEW r \in Requests, RequestDies(r)
  PROVE  ApiInv' /\ ApiKept
  BY NilIsNoRequest DEF ApiInv, ApiTypeOK, KeyNamesTheRun, AnswersNameIt, ApiKept,
                        RequestDies, Goes, Refusals, keyVars

LEMMA ReleaseFailsKeeps ==
  ASSUME ApiInv, NEW r \in Requests, ReleaseFails(r)
  PROVE  ApiInv' /\ ApiKept
  BY NilIsNoRequest DEF ApiInv, ApiTypeOK, KeyNamesTheRun, AnswersNameIt, ApiKept,
                        ReleaseFails, Goes, Refusals, keyVars

LEMMA AgesKeeps ==
  ASSUME ApiInv, ClaimAges
  PROVE  ApiInv' /\ ApiKept
  BY DEF ApiInv, ApiTypeOK, KeyNamesTheRun, AnswersNameIt, ApiKept, ClaimAges

\* A step of dagron-api takes nothing from a worker or a row.
LEMMA ApiStep ==
  ASSUME CInv, ApiInv', ApiKept,
         UNCHANGED <<connected, rowVars, recorded, stopped, workVars>>,
         waits' \in 0 .. MaxWaits, faults' \in 0 .. MaxFaults
  PROVE  CInv'
<1> USE DEF rowVars, claimVars, workVars
<1>1. TypeOK'
  BY DEF CInv, TypeOK, ApiInv
<1>2. RecordNamesIt'
  BY DEF CInv, RecordNamesIt, ApiKept
<1>3. ASSUME NEW w \in Workers PROVE WorkerShape(w)'
  BY <1>3 DEF CInv, WorkerShape, ApiKept
<1>4. ASSUME NEW e \in Events PROVE RowShape(e)'
  BY <1>4 DEF CInv, RowShape
<1> QED
  BY <1>1, <1>2, <1>3, <1>4 DEF CInv, ApiInv

-----------------------------------------------------------------------------
(* The receiver and the rows *)

\* What a step that leaves dagron-api and ci_runs alone has to see to.
LEMMA RowsStep ==
  ASSUME CInv, UNCHANGED <<apiVars, recorded>>, TypeOK',
         \A w \in Workers : WorkerShape(w)', \A e \in Events : RowShape(e)'
  PROVE  CInv'
  BY DEF CInv, KeyNamesTheRun, AnswersNameIt, RecordNamesIt, apiVars, keyVars

\* A delivery takes its place behind the ones that have come.
LEMMA RecordDeliveryKeeps ==
  ASSUME CInv, NEW e \in Events, RecordDelivery(e)
  PROVE  CInv'
<1> DEFINE come == {f \in Events : arrived[f] # 0}
<1> USE DEF RecordDelivery, workVars, claimVars
<1>1. 1 + Cardinality(come) \in 0 .. Cardinality(Events)
  <2>1. e \notin come /\ come \subseteq Events
    BY DEF CInv, RowShape
  <2>2. IsFiniteSet(come) /\ Cardinality(come) \in Nat
    BY <2>1, EventsFinite, FS_Subset, FS_CardinalityType
  <2>3. Cardinality(come \cup {e}) = Cardinality(come) + 1
    BY <2>1, <2>2, FS_AddElement
  <2>4. Cardinality(come \cup {e}) <= Cardinality(Events)
    BY <2>1, EventsFinite, FS_Subset
  <2> HIDE DEF come
  <2> QED
    BY <2>2, <2>3, <2>4, EventsFinite
<1>2. TypeOK'
  <2>1. arrived' = [arrived EXCEPT ![e] = 1 + Cardinality(come)]
    OBVIOUS
  <2>2. arrived' \in [Events -> 0 .. Cardinality(Events)]
    BY <1>1, <2>1 DEF CInv, TypeOK
  <2> QED
    BY <2>2 DEF CInv, TypeOK, ApiTypeOK, apiVars, keyVars
<1>3. ASSUME NEW w \in Workers PROVE WorkerShape(w)'
  BY <1>3 DEF CInv, WorkerShape, apiVars
<1>4. ASSUME NEW f \in Events PROVE RowShape(f)'
  BY <1>4 DEF CInv, TypeOK, RowShape
<1> QED
  BY <1>2, <1>3, <1>4, RowsStep DEF apiVars

LEMMA ReceiverKeeps ==
  ASSUME CInv, DisconnectRepo \/ \E e \in Events : Lapse(e) \/ ComesDue(e)
  PROVE  CInv'
<1> USE DEF DisconnectRepo, Lapse, ComesDue, workVars, claimVars
<1>1. TypeOK'
  <2>1. CASE DisconnectRepo
    <3>1. state' \in [Events -> {"none", "new", "claimed"} \cup Settled]
      BY <2>1 DEF CInv, TypeOK, Settled
    <3> QED
      BY <2>1, <3>1 DEF CInv, TypeOK, ApiTypeOK, apiVars, keyVars
  <2>2. ASSUME NEW e \in Events, Lapse(e) PROVE TypeOK'
    <3>1. faults' \in 0 .. MaxFaults /\ lapsed' \in [Events -> BOOLEAN]
      BY <2>2 DEF CInv, TypeOK
    <3> QED
      BY <2>2, <3>1 DEF CInv, TypeOK, ApiTypeOK, apiVars, keyVars
  <2>3. ASSUME NEW e \in Events, ComesDue(e) PROVE TypeOK'
    BY <2>3 DEF CInv, TypeOK, ApiTypeOK, apiVars, keyVars
  <2> QED
    BY <2>1, <2>2, <2>3
<1>2. ASSUME NEW w \in Workers PROVE WorkerShape(w)'
  BY <1>2 DEF CInv, WorkerShape, apiVars
<1>3. ASSUME NEW f \in Events PROVE RowShape(f)'
  BY <1>3 DEF CInv, TypeOK, RowShape
<1> QED
  BY <1>1, <1>2, <1>3, RowsStep DEF apiVars

-----------------------------------------------------------------------------
(* The workers *)

\* The workers that do not take the step.
LEMMA OthersKept ==
  ASSUME CInv, NEW w \in Workers, NEW v \in Workers, v # w,
         pc'[v] = pc[v], on'[v] = on[v], asked'[v] = asked[v], finish'[v] = finish[v],
         \A q \in Requests : req[q] = "answered" => req'[q] = "answered" /\ answer'[q] = answer[q],
         recorded # Nil => recorded' # Nil
  PROVE  WorkerShape(v)'
  BY DEF CInv, WorkerShape

LEMMA ClaimEventKeeps ==
  ASSUME CInv, NEW w \in Workers, NEW e \in Events, ClaimEvent(w, e)
  PROVE  CInv'
<1> USE DEF ClaimEvent, To
<1>1. TypeOK'
  BY DEF CInv, TypeOK, ApiTypeOK, apiVars, keyVars
<1>2. ASSUME NEW v \in Workers PROVE WorkerShape(v)'
  <2>1. CASE v = w
    BY <2>1 DEF CInv, TypeOK, WorkerShape
  <2>2. CASE v # w
    BY <2>2, <1>2, OthersKept DEF CInv, TypeOK, apiVars
  <2> QED
    BY <2>1, <2>2
<1>3. ASSUME NEW f \in Events PROVE RowShape(f)'
  BY <1>3 DEF CInv, TypeOK, RowShape, Due
<1> QED
  BY <1>1, <1>2, <1>3, RowsStep

\* A step of the handler that only moves the worker on.
LEMMA HandlerStep ==
  ASSUME CInv, NEW w \in Workers, UNCHANGED <<apiVars, recorded, connected, rowVars, on, tries>>,
         TypeOK', WorkerShape(w)',
         \A v \in Workers \ {w} :
           pc'[v] = pc[v] /\ asked'[v] = asked[v] /\ finish'[v] = finish[v]
  PROVE  CInv'
<1>1. ASSUME NEW v \in Workers \ {w} PROVE WorkerShape(v)'
  BY <1>1, OthersKept DEF apiVars
<1>2. ASSUME NEW f \in Events PROVE RowShape(f)'
  BY <1>2 DEF CInv, RowShape, rowVars, claimVars
<1> QED
  BY <1>1, <1>2, RowsStep

LEMMA ReadRepoKeeps ==
  ASSUME CInv, NEW w \in Workers, ReadRepo(w)
  PROVE  CInv'
<1> USE DEF ReadRepo, To, Leaves
<1>1. TypeOK'
  BY DEF CInv, TypeOK, ApiTypeOK, apiVars, keyVars, rowVars, claimVars, Settled
<1>2. WorkerShape(w)'
  BY DEF CInv, TypeOK, WorkerShape, Settled
<1> QED
  BY <1>1, <1>2, HandlerStep DEF CInv, TypeOK

LEMMA FindRunKeeps ==
  ASSUME CInv, NEW w \in Workers, FindRun(w)
  PROVE  CInv'
<1> USE DEF FindRun, To, Leaves
<1>1. TypeOK'
  BY DEF CInv, TypeOK, ApiTypeOK, apiVars, keyVars, rowVars, claimVars, Settled
<1>2. WorkerShape(w)'
  BY DEF CInv, TypeOK, WorkerShape, Settled
<1> QED
  BY <1>1, <1>2, HandlerStep DEF CInv, TypeOK

LEMMA ReadAnswerKeeps ==
  ASSUME CInv, NEW w \in Workers, ReadAnswer(w)
  PROVE  CInv'
<1> USE DEF ReadAnswer, To, Leaves
<1>1. TypeOK'
  BY DEF CInv, TypeOK, ApiTypeOK, apiVars, keyVars, rowVars, claimVars, Settled
<1>2. WorkerShape(w)'
  BY DEF CInv, TypeOK, WorkerShape, Settled, apiVars
<1> QED
  BY <1>1, <1>2, HandlerStep DEF CInv, TypeOK

LEMMA CallFailsKeeps ==
  ASSUME CInv, NEW w \in Workers, CallFails(w)
  PROVE  CInv'
<1> USE DEF CallFails, To, Leaves, Fault
<1>1. TypeOK'
  BY DEF CInv, TypeOK, ApiTypeOK, apiVars, keyVars, rowVars, claimVars, Settled
<1>2. WorkerShape(w)'
  BY DEF CInv, TypeOK, WorkerShape, Settled
<1> QED
  BY <1>1, <1>2, HandlerStep DEF CInv, TypeOK

LEMMA GroupKeeps ==
  ASSUME CInv, NEW w \in Workers, GroupEvents(w) \/ GroupRuns(w) \/ GroupIsDropped(w)
  PROVE  CInv'
<1> USE NilIsNoRequest DEF GroupEvents, GroupRuns, GroupIsDropped, To, Leaves
<1>1. TypeOK'
  <2>1. {recorded} \ {Nil} \subseteq Events \cup Requests
    BY DEF CInv, TypeOK
  <2>2. {a \in Asks : state[a] = "new"} \subseteq Events \cup Requests
    OBVIOUS
  <2>3. todo' \in [Workers -> SUBSET (Events \cup Requests)]
    BY <2>1, <2>2 DEF CInv, TypeOK
  <2> QED
    BY <2>3 DEF CInv, TypeOK, ApiTypeOK, apiVars, keyVars, rowVars, claimVars, Settled
<1>2. WorkerShape(w)'
  BY DEF CInv, TypeOK, WorkerShape, Settled, Events
<1> QED
  BY <1>1, <1>2, HandlerStep DEF CInv, TypeOK

LEMMA CancelRunKeeps ==
  ASSUME CInv, NEW w \in Workers, NEW r \in Requests, CancelRun(w, r)
  PROVE  CInv'
<1> USE DEF CancelRun
<1>1. TypeOK'
  BY DEF CInv, TypeOK, ApiTypeOK, apiVars, keyVars, rowVars, claimVars, Settled
<1>2. WorkerShape(w)'
  BY DEF CInv, TypeOK, WorkerShape
<1> QED
  BY <1>1, <1>2, HandlerStep DEF CInv, TypeOK

LEMMA WithdrawEventKeeps ==
  ASSUME CInv, NEW w \in Workers, NEW a \in Asks, WithdrawEvent(w, a)
  PROVE  CInv'
<1> USE NilIsNoRequest DEF WithdrawEvent
<1>1. TypeOK'
  BY DEF CInv, TypeOK, ApiTypeOK, apiVars, keyVars, claimVars, Settled
<1>2. ASSUME NEW v \in Workers PROVE WorkerShape(v)'
  <2>1. CASE v = w
    BY <2>1 DEF CInv, TypeOK, WorkerShape
  <2>2. CASE v # w
    BY <2>2, <1>2, OthersKept DEF CInv, TypeOK, apiVars
  <2> QED
    BY <2>1, <2>2
<1>3. ASSUME NEW f \in Events PROVE RowShape(f)'
  BY <1>3 DEF CInv, TypeOK, RowShape, claimVars
<1> QED
  BY <1>1, <1>2, <1>3, RowsStep

\* A request is sent: dagron-api has it in hand.
LEMMA SubmitKeeps ==
  ASSUME CInv, NEW w \in Workers, Submit(w)
  PROVE  CInv'
<1>1. PICK r \in Requests :
        req[r] = "unsent" /\ req' = [req EXCEPT ![r] = "claim"] /\ asked' = [asked EXCEPT ![w] = r]
  BY DEF Submit, Goes
<1> USE DEF Submit, To, keyVars
<1>2. TypeOK'
  BY <1>1 DEF CInv, TypeOK, ApiTypeOK, rowVars, claimVars
<1>3. ASSUME NEW v \in Workers PROVE WorkerShape(v)'
  <2>1. CASE v = w
    BY <1>1, <2>1 DEF CInv, TypeOK, WorkerShape
  <2>2. CASE v # w
    BY <1>1, <2>2, <1>3, OthersKept DEF CInv, TypeOK, ApiTypeOK
  <2> QED
    BY <2>1, <2>2
<1>4. ASSUME NEW f \in Events PROVE RowShape(f)'
  BY <1>4 DEF CInv, RowShape, rowVars, claimVars
<1> QED
  BY <1>2, <1>3, <1>4 DEF CInv, KeyNamesTheRun, AnswersNameIt, RecordNamesIt

LEMMA RecordRunKeeps ==
  ASSUME CInv, NEW w \in Workers, RecordRun(w)
  PROVE  CInv'
<1> USE NilIsNoRequest DEF RecordRun, To, Leaves
<1>1. names # Nil /\ gives[asked[w]] = names
  BY DEF CInv, WorkerShape, AnswersNameIt
<1>2. recorded' # Nil /\ recorded' = names /\ UNCHANGED apiVars
  BY <1>1 DEF CInv, RecordNamesIt
<1>3. TypeOK'
  BY <1>2 DEF CInv, TypeOK, ApiTypeOK, apiVars, keyVars, rowVars, claimVars, Settled
<1>4. ASSUME NEW v \in Workers PROVE WorkerShape(v)'
  <2>1. CASE v = w
    BY <1>2, <2>1 DEF CInv, TypeOK, WorkerShape
  <2>2. CASE v # w
    BY <1>2, <2>2, <1>4, OthersKept DEF CInv, TypeOK, apiVars
  <2> QED
    BY <2>1, <2>2
<1>5. ASSUME NEW f \in Events PROVE RowShape(f)'
  BY <1>2, <1>5 DEF CInv, RowShape, rowVars, claimVars
<1> QED
  BY <1>2, <1>3, <1>4, <1>5
  DEF CInv, KeyNamesTheRun, AnswersNameIt, RecordNamesIt, apiVars, keyVars

\* finish_event leaves an event done only with a run on record.
LEMMA FinishEventKeeps ==
  ASSUME CInv, NEW w \in Workers, FinishEvent(w)
  PROVE  CInv'
<1> DEFINE e == on[w]
           how == IF finish[w] = "retry" /\ tries[w] >= MaxAttempts THEN "failed" ELSE finish[w]
<1> USE DEF FinishEvent, To
<1>1. e \in Events /\ how \in Settled \cup {"retry", "wait"}
      /\ (how = "done" => finish[w] = "done")
  BY DEF CInv, TypeOK, WorkerShape, Settled
<1>2. \/ /\ Holds(w)
         /\ state' = [state EXCEPT ![e] = IF how \in Settled THEN how ELSE "new"]
         /\ claimedBy' = [claimedBy EXCEPT ![e] = None]
         /\ lapsed' = [lapsed EXCEPT ![e] = FALSE]
         /\ later' = [later EXCEPT ![e] = how \notin Settled]
         /\ attempts' = [attempts EXCEPT ![e] = IF how = "wait" THEN @ - 1 ELSE @]
      \/ UNCHANGED <<state, claimVars>>
  OBVIOUS
<1>3. Holds(w) => attempts[e] >= 1
  BY <1>1 DEF CInv, RowShape, Holds
<1>4. /\ state' \in [Events -> {"none", "new", "claimed"} \cup Settled]
      /\ claimedBy' \in [Events -> Workers \cup {None}] /\ lapsed' \in [Events -> BOOLEAN]
      /\ later' \in [Events -> BOOLEAN] /\ attempts' \in [Events -> Nat]
  <2> HIDE DEF how, e
  <2>1. CASE UNCHANGED <<state, claimVars>>
    BY <2>1 DEF CInv, TypeOK, claimVars
  <2>2. CASE Holds(w) /\ ~UNCHANGED <<state, claimVars>>
    <3>1. state' \in [Events -> {"none", "new", "claimed"} \cup Settled]
      BY <1>1, <1>2, <2>2 DEF CInv, TypeOK
    <3>2. claimedBy' \in [Events -> Workers \cup {None}] /\ lapsed' \in [Events -> BOOLEAN]
      BY <1>1, <1>2, <2>2 DEF CInv, TypeOK
    <3>3. later' \in [Events -> BOOLEAN]
      <4>1. PICK b \in BOOLEAN : later' = [later EXCEPT ![e] = b]
        BY <1>2, <2>2
      <4> QED
        BY <1>1, <4>1 DEF CInv, TypeOK
    <3>4. attempts' \in [Events -> Nat]
      BY <1>1, <1>2, <1>3, <2>2 DEF CInv, TypeOK
    <3> QED
      BY <3>1, <3>2, <3>3, <3>4
  <2> QED
    BY <1>2, <2>1, <2>2
<1>5. TypeOK'
  BY <1>4 DEF CInv, TypeOK, ApiTypeOK, apiVars, keyVars, Settled
<1>6. ASSUME NEW v \in Workers PROVE WorkerShape(v)'
  <2>1. CASE v = w
    BY <2>1 DEF CInv, TypeOK, WorkerShape
  <2>2. CASE v # w
    BY <2>2, <1>6, OthersKept DEF CInv, TypeOK, apiVars
  <2> QED
    BY <2>1, <2>2
<1>7. ASSUME NEW f \in Events PROVE RowShape(f)'
  <2>1. RowShape(f) /\ WorkerShape(w) /\ UNCHANGED <<arrived, recorded>>
    BY <1>7 DEF CInv
  <2>2. CASE UNCHANGED <<state, claimVars>>
    BY <2>1, <2>2 DEF RowShape, claimVars
  <2>3. CASE Holds(w)
    <3> HIDE DEF how
    <3>1. CASE f # e
      BY <1>2, <2>1, <3>1, <1>7 DEF CInv, TypeOK, RowShape, claimVars
    <3>2. CASE f = e
      BY <1>1, <1>2, <2>1, <3>2 DEF CInv, TypeOK, RowShape, WorkerShape, Settled, claimVars
    <3> QED
      BY <3>1, <3>2
  <2> QED
    BY <1>2, <2>2, <2>3
<1> QED
  BY <1>5, <1>6, <1>7, RowsStep

LEMMA CrashKeeps ==
  ASSUME CInv, NEW w \in Workers, Crash(w)
  PROVE  CInv'
<1> USE DEF Crash, To, Fault
<1>1. TypeOK'
  <2>1. claimedBy' \in [Events -> Workers \cup {None}]
    BY DEF CInv, TypeOK
  <2> QED
    BY <2>1 DEF CInv, TypeOK, ApiTypeOK, apiVars, keyVars, Settled
<1>2. ASSUME NEW v \in Workers PROVE WorkerShape(v)'
  <2>1. CASE v = w
    BY <2>1 DEF CInv, TypeOK, WorkerShape
  <2>2. CASE v # w
    BY <2>2, <1>2, OthersKept DEF CInv, TypeOK, apiVars
  <2> QED
    BY <2>1, <2>2
<1>3. ASSUME NEW f \in Events PROVE RowShape(f)'
  BY <1>3 DEF CInv, RowShape
<1> QED
  BY <1>1, <1>2, <1>3, RowsStep
-----------------------------------------------------------------------------
(* The specification *)

LEMMA InitEstablishes ==
  ASSUME Init
  PROVE  CInv
<1> USE NilIsNoRequest DEF Init, ApiInit
<1>1. ApiTypeOK
  BY DEF ApiTypeOK, Requests, Refusals, Nil
<1>2. /\ state \in [Events -> {"none", "new", "claimed"} \cup Settled]
      /\ claimedBy \in [Events -> Workers \cup {None}]
      /\ lapsed \in [Events -> BOOLEAN] /\ later \in [Events -> BOOLEAN]
  OBVIOUS
<1>3. arrived \in [Events -> 0 .. Cardinality(Events)] /\ attempts \in [Events -> Nat]
  BY EventsFinite
<1>4. /\ on \in [Workers -> Events \cup {None}] /\ tries \in [Workers -> Nat]
      /\ asked \in [Workers -> Requests \cup {Nil}]
      /\ finish \in [Workers -> Settled \cup {"retry", "wait"}]
  BY DEF Settled
<1>5. todo \in [Workers -> SUBSET (Events \cup Requests)]
  OBVIOUS
<1>6. pc \in [Workers -> {"idle", "repo", "find", "submit", "answer", "record",
                         "group", "withdraw", "cancel", "finish"}]
  OBVIOUS
<1>7. TypeOK
  BY <1>1, <1>2, <1>3, <1>4, <1>5, <1>6 DEF TypeOK
<1>8. KeyNamesTheRun /\ AnswersNameIt /\ RecordNamesIt
  BY DEF KeyNamesTheRun, AnswersNameIt, RecordNamesIt
<1>9. (\A w \in Workers : WorkerShape(w)) /\ \A e \in Events : RowShape(e)
  BY DEF WorkerShape, RowShape
<1> QED
  BY <1>7, <1>8, <1>9 DEF CInv

LEMMA NextKeeps ==
  ASSUME CInv, [Next]_vars
  PROVE  CInv'
<1> USE DEF apiVars, keyVars, ciVars, rowVars, claimVars, workVars
<1>0. ApiInv /\ waits \in 0 .. MaxWaits /\ faults \in 0 .. MaxFaults
  BY DEF CInv, ApiInv, TypeOK
<1>1. CASE DisconnectRepo \/ \E e \in Events : Lapse(e) \/ ComesDue(e)
  BY <1>1, ReceiverKeeps
<1>2. CASE \E e \in Events : RecordDelivery(e)
  BY <1>2, RecordDeliveryKeeps
<1>3. CASE AgeClaim
  BY <1>0, <1>3, AgesKeeps, ApiStep DEF AgeClaim
<1>4. ASSUME NEW w \in Workers, Work(w) \/ Crash(w) \/ CallFails(w) PROVE CInv'
  BY <1>4, ClaimEventKeeps, ReadRepoKeeps, FindRunKeeps, SubmitKeeps, ReadAnswerKeeps,
     RecordRunKeeps, GroupKeeps, WithdrawEventKeeps, CancelRunKeeps, FinishEventKeeps,
     CrashKeeps, CallFailsKeeps DEF Work, Handle
<1>5. ASSUME NEW r \in Requests, ServeRequest(r) PROVE CInv'
  <2>1. ApiInv' /\ ApiKept
    BY <1>0, <1>5, ClaimKeyKeeps, KeyHolderKeeps, CreateRunKeeps, ReleaseKeeps
    DEF ServeRequest, Serve
  <2> QED
    BY <1>0, <1>5, <2>1, ApiStep DEF ServeRequest
<1>6. ASSUME NEW r \in Requests, RefuseRequest(r) PROVE CInv'
  <2>1. ApiInv' /\ ApiKept
    BY <1>0, <1>6, RefuseKeeps DEF RefuseRequest, Refusals
  <2>2. waits' \in 0 .. MaxWaits /\ faults' \in 0 .. MaxFaults
    BY <1>0, <1>6 DEF RefuseRequest, Fault
  <2> QED
    BY <1>6, <2>1, <2>2, ApiStep DEF RefuseRequest
<1>7. ASSUME NEW r \in Requests, LoseRequest(r) PROVE CInv'
  <2>1. ApiInv' /\ ApiKept
    BY <1>0, <1>7, DiesKeeps, ReleaseFailsKeeps DEF LoseRequest
  <2>2. waits' \in 0 .. MaxWaits /\ faults' \in 0 .. MaxFaults
    BY <1>0, <1>7 DEF LoseRequest, Fault
  <2> QED
    BY <1>7, <2>1, <2>2, ApiStep DEF LoseRequest
<1>8. CASE UNCHANGED vars
  <2>1. ApiInv' /\ ApiKept
    BY <1>0, <1>8 DEF vars, ApiInv, ApiTypeOK, KeyNamesTheRun, AnswersNameIt, ApiKept
  <2> QED
    BY <1>0, <1>8, <2>1, ApiStep DEF vars
<1> QED
  BY <1>1, <1>2, <1>3, <1>4, <1>5, <1>6, <1>7, <1>8 DEF Next

\* The inductive invariant of the queue and the key: type correctness, the key's
\* row naming the only run, and what a worker and a row have in hand.
THEOREM CiInvariance == Spec => []CInv
<1>1. Init => CInv
  BY InitEstablishes
<1>2. CInv /\ [Next]_vars => CInv'
  BY NextKeeps
<1> QED
  BY <1>1, <1>2, PTL DEF Spec

\* However many deliveries of a commit there are and however many workers are at
\* them, through crashes, lapsed leases, lost answers and taken-over claims, one
\* run is made, and an event that is done has it on record.
THEOREM CommitHasOneRun == Spec => []OneRunPerCommit
<1>1. CInv => OneRunPerCommit
  <2> SUFFICES ASSUME CInv PROVE OneRunPerCommit
    OBVIOUS
  <2>1. Cardinality(runs) <= 1
    <3>1. CASE names = Nil
      BY <3>1, FS_EmptySet DEF CInv, KeyNamesTheRun
    <3>2. CASE names # Nil
      <4>1. runs = {names}
        BY <3>2 DEF CInv, KeyNamesTheRun
      <4>2. Cardinality({names}) = 1
        BY FS_Singleton
      <4> QED
        BY <4>1, <4>2
    <3> QED
      BY <3>1, <3>2
  <2>2. ASSUME NEW a \in Asks, state[a] = "done" PROVE recorded \in runs
    BY <2>2, NilIsNoRequest DEF CInv, RowShape, RecordNamesIt, KeyNamesTheRun
  <2> QED
    BY <2>1, <2>2 DEF OneRunPerCommit
<1> QED
  BY <1>1, CiInvariance, PTL

\* The fence of finish_event and withdraw_event holds: no step, of a worker whose
\* lease has lapsed or of any other, takes an event out of a settled state.
THEOREM SettledStays == Spec => SettledIsFinal
<1>1. CInv /\ [Next]_vars
        => [\A e \in Events : state[e] \in Settled => state'[e] = state[e]]_vars
  <2> SUFFICES ASSUME CInv, Next, NEW e \in Events, state[e] \in Settled
               PROVE  state'[e] = state[e]
    BY DEF vars
  <2> USE DEF Settled
  <2>1. state \in [Events -> {"none", "new", "claimed"} \cup Settled]
    BY DEF CInv, TypeOK
  <2>2. CASE DisconnectRepo
    BY <2>1, <2>2 DEF DisconnectRepo
  <2>3. ASSUME NEW f \in Events, RecordDelivery(f) \/ Lapse(f) \/ ComesDue(f)
        PROVE  state'[e] = state[e]
    BY <2>1, <2>3 DEF RecordDelivery, Lapse, ComesDue
  <2>4. ASSUME NEW w \in Workers, Work(w) PROVE state'[e] = state[e]
    <3>1. ASSUME NEW f \in Events, ClaimEvent(w, f) PROVE state'[e] = state[e]
      BY <2>1, <3>1 DEF ClaimEvent, Due
    <3>2. ASSUME NEW a \in Asks, WithdrawEvent(w, a) PROVE state'[e] = state[e]
      BY <2>1, <3>2 DEF WithdrawEvent
    <3>3. CASE FinishEvent(w)
      <4>1. CASE Holds(w)
        BY <2>1, <3>3, <4>1 DEF FinishEvent, Holds
      <4>2. CASE ~Holds(w)
        BY <3>3, <4>2 DEF FinishEvent
      <4> QED
        BY <4>1, <4>2
    <3> QED
      BY <2>4, <3>1, <3>2, <3>3 DEF Work, Handle, ReadRepo, FindRun, Submit, ReadAnswer, RecordRun,
         GroupEvents, GroupRuns, GroupIsDropped, CancelRun, rowVars
  <2>5. ASSUME NEW w \in Workers, Crash(w) \/ CallFails(w) PROVE state'[e] = state[e]
    BY <2>5 DEF Crash, CallFails, rowVars
  <2>6. CASE AgeClaim \/ \E r \in Requests : ServeRequest(r) \/ RefuseRequest(r) \/ LoseRequest(r)
    BY <2>6 DEF AgeClaim, ServeRequest, RefuseRequest, LoseRequest, ciVars, rowVars
  <2> QED
    BY <2>2, <2>3, <2>4, <2>5, <2>6 DEF Next
<1> QED
  BY <1>1, CiInvariance, PTL DEF Spec, SettledIsFinal
=============================================================================
