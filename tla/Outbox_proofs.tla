--------------------------- MODULE Outbox_proofs ---------------------------
(***************************************************************************)
(* Proofs about Outbox, for any number of events, replicas and crashes,    *)
(* any batch size and any allowance for late commits.                      *)
(***************************************************************************)
EXTENDS Outbox, TLAPS

USE OutboxAssumption

LEMMA InitIInv == OutboxInit => IInv
<1> SUFFICES ASSUME OutboxInit PROVE IInv
  OBVIOUS
<1>1. OutboxTypeOK
  <2>1. 0 \in Times
    BY DEF Times
  <2>2. written \in [OutboxEvents -> {"none", "open", "committed"}] /\ created \in [OutboxEvents -> Times]
    BY <2>1 DEF OutboxInit
  <2>3. /\ phase \in [Replicas -> {"idle", "select", "insert", "cursor"}]
        /\ seenNow \in [Replicas -> Times] /\ seenCursor \in [Replicas -> Times]
    BY <2>1 DEF OutboxInit
  <2>4. found \in [Replicas -> SUBSET OutboxEvents] /\ handed \subseteq OutboxEvents
    BY DEF OutboxInit
  <2>5. setbacks \in 0 .. MaxSetbacks
    BY DEF OutboxInit
  <2> QED
    BY <2>1, <2>2, <2>3, <2>4, <2>5 DEF OutboxInit, OutboxTypeOK
<1>2. ClockAhead /\ SeenIsPast /\ OpenIsRecent /\ FoundIsWritten /\ FoundIsAllBefore
  BY DEF OutboxInit, ClockAhead, SeenIsPast, OpenIsRecent, FoundIsWritten, FoundIsAllBefore
<1>3. NoneLeftBehind
  BY DEF OutboxInit, NoneLeftBehind, Owed
<1> QED
  BY <1>1, <1>2, <1>3 DEF IInv

\* Where an enrolment may move the cursor to is not ahead of the clock.
LEMMA NextIsPast ==
  ASSUME IInv, NEW w \in Replicas, NEW t \in NextCursors(w)
  PROVE  t \in Int /\ t <= now
  BY DEF IInv, OutboxTypeOK, Times, ClockAhead, NextCursors

\* Enrolment looks no further back as the cursor moves on.
LEMMA EnrollFromGrows ==
  ASSUME IInv, NEW c \in Times, NEW d \in Times, c <= d
  PROVE  EnrollFrom(c) \in Int /\ EnrollFrom(c) <= EnrollFrom(d)
  BY DEF IInv, OutboxTypeOK, Times, EnrollFrom

LEMMA TickKeeps == IInv /\ Tick => IInv'
<1> SUFFICES ASSUME IInv, Tick PROVE IInv'
  OBVIOUS
<1> USE DEF Tick, eventVars, sinkVars, enrollVars
<1>1. OutboxTypeOK' /\ ClockAhead' /\ SeenIsPast' /\ FoundIsWritten'
  BY DEF IInv, OutboxTypeOK, Times, ClockAhead, SeenIsPast, FoundIsWritten
<1>2. OpenIsRecent'
  BY DEF IInv, OutboxTypeOK, Times, OpenIsRecent
<1>3. FoundIsAllBefore' /\ NoneLeftBehind'
  BY DEF IInv, FoundIsAllBefore, NoneLeftBehind, Owed, NextCursors, EnrollFrom
<1> QED
  BY <1>1, <1>2, <1>3 DEF IInv

LEMMA BeginEventKeeps ==
  ASSUME IInv, NEW e \in OutboxEvents, BeginEvent(e)
  PROVE  IInv'
<1> USE DEF BeginEvent, sinkVars, enrollVars
<1>1. OutboxTypeOK' /\ ClockAhead' /\ SeenIsPast' /\ OpenIsRecent'
  BY DEF IInv, OutboxTypeOK, Times, ClockAhead, SeenIsPast, OpenIsRecent
<1>2. FoundIsWritten'
  BY DEF IInv, OutboxTypeOK, FoundIsWritten
<1>3. Owed' = Owed /\ \A f \in Owed : created'[f] = created[f]
  BY DEF IInv, OutboxTypeOK, Owed
<1>4. \A w \in Replicas : NextCursors(w)' = NextCursors(w)
  <2> TAKE w \in Replicas
  <2>1. \A f \in found[w] : created'[f] = created[f]
    BY DEF IInv, OutboxTypeOK, FoundIsWritten
  <2> QED
    BY <2>1 DEF NextCursors
<1>5. FoundIsAllBefore' /\ NoneLeftBehind'
  BY <1>3, <1>4 DEF IInv, FoundIsAllBefore, NoneLeftBehind, EnrollFrom
<1> QED
  BY <1>1, <1>2, <1>5 DEF IInv

\* An event that commits is within Late of its stamp, and so of every cursor.
LEMMA EndEventKeeps ==
  ASSUME IInv, NEW e \in OutboxEvents, EndEvent(e)
  PROVE  IInv'
<1> USE DEF EndEvent, sinkVars, enrollVars
<1>1. OutboxTypeOK' /\ ClockAhead' /\ SeenIsPast' /\ OpenIsRecent'
  BY DEF IInv, OutboxTypeOK, Times, ClockAhead, SeenIsPast, OpenIsRecent
<1>2. FoundIsWritten'
  BY DEF IInv, OutboxTypeOK, FoundIsWritten
<1>3. now <= created[e] + Late
  BY DEF IInv, OpenIsRecent
<1>4. Owed' \subseteq Owed \cup {e}
  BY DEF IInv, OutboxTypeOK, Owed
<1>5. \A f \in Owed' : created[f] >= since
  BY DEF Owed
<1>6. NoneLeftBehind'
  <2> SUFFICES ASSUME NEW f \in Owed' \ handed PROVE created[f] >= EnrollFrom(cursor)
    BY DEF NoneLeftBehind, EnrollFrom
  <2>1. CASE f \in Owed
    BY <2>1 DEF IInv, NoneLeftBehind
  <2>2. CASE f = e
    BY <2>2, <1>3, <1>5 DEF IInv, ClockAhead, OutboxTypeOK, Times, EnrollFrom
  <2> QED
    BY <2>1, <2>2, <1>4
<1>7. FoundIsAllBefore'
  <2> SUFFICES ASSUME NEW w \in Replicas, phase[w] \in {"insert", "cursor"},
                      NEW f \in Owed' \ (handed \cup found[w]), NEW t \in NextCursors(w)
               PROVE  created[f] >= t - Late
    BY DEF FoundIsAllBefore, NextCursors
  <2>1. CASE f \in Owed
    BY <2>1 DEF IInv, FoundIsAllBefore
  <2>2. CASE f = e
    BY <2>2, <1>3, NextIsPast DEF IInv, OutboxTypeOK, Times
  <2> QED
    BY <2>1, <2>2, <1>4
<1> QED
  BY <1>1, <1>2, <1>6, <1>7 DEF IInv

LEMMA RegisterKeeps == IInv /\ Register => IInv'
<1> SUFFICES ASSUME IInv, Register PROVE IInv'
  OBVIOUS
<1> USE DEF Register, eventVars, enrollVars
<1>1. OutboxTypeOK' /\ ClockAhead' /\ SeenIsPast' /\ OpenIsRecent' /\ FoundIsWritten'
  BY DEF IInv, OutboxTypeOK, Times, ClockAhead, SeenIsPast, OpenIsRecent, FoundIsWritten
<1>2. \A w \in Replicas : phase[w] = "idle"
  BY DEF IInv, FoundIsWritten
<1>3. FoundIsAllBefore'
  BY <1>2 DEF FoundIsAllBefore
<1>4. NoneLeftBehind'
  BY DEF IInv, OutboxTypeOK, Times, NoneLeftBehind, Owed, EnrollFrom
<1> QED
  BY <1>1, <1>3, <1>4 DEF IInv

LEMMA EnrollReadKeeps ==
  ASSUME IInv, NEW w \in Replicas, EnrollRead(w)
  PROVE  IInv'
<1> USE DEF EnrollRead, eventVars, sinkVars
<1>1. OutboxTypeOK' /\ ClockAhead' /\ SeenIsPast' /\ OpenIsRecent' /\ FoundIsWritten'
  BY DEF IInv, OutboxTypeOK, Times, ClockAhead, SeenIsPast, OpenIsRecent, FoundIsWritten
<1>2. NoneLeftBehind'
  BY DEF IInv, NoneLeftBehind, Owed, EnrollFrom
<1>3. FoundIsAllBefore'
  <2> SUFFICES ASSUME NEW v \in Replicas, phase'[v] \in {"insert", "cursor"}
               PROVE  \A e \in Owed \ (handed \cup found[v]) :
                        \A t \in NextCursors(v)' : created[e] >= t - Late
    BY DEF FoundIsAllBefore, Owed
  <2>1. v # w /\ phase[v] = phase'[v] /\ NextCursors(v)' = NextCursors(v)
    BY DEF IInv, OutboxTypeOK, NextCursors
  <2> QED
    BY <2>1 DEF IInv, FoundIsAllBefore
<1> QED
  BY <1>1, <1>2, <1>3 DEF IInv

\* The SELECT passes over what lies after the events it found, and over nothing
\* before them: what lies before its window is handed already.
LEMMA EnrollSelectKeeps ==
  ASSUME IInv, NEW w \in Replicas, EnrollSelect(w)
  PROVE  IInv'
<1> DEFINE all == NotHanded(seenCursor[w])
<1>1. PICK S \in SUBSET all :
        /\ S = all \/ Cardinality(S) = EnrollRows
        /\ \A e \in S, f \in all \ S : created[e] <= created[f]
        /\ found' = [found EXCEPT ![w] = S]
  BY DEF EnrollSelect
<1>2. /\ phase[w] = "select" /\ phase' = [phase EXCEPT ![w] = "insert"]
      /\ UNCHANGED <<now, eventVars, sinkVars, handed, seenNow, seenCursor, setbacks>>
  BY DEF EnrollSelect
<1> USE <1>2 DEF eventVars, sinkVars
<1>3. S \subseteq OutboxEvents /\ \A e \in S : written[e] = "committed"
  BY DEF NotHanded
<1>4. OutboxTypeOK'
  BY <1>1, <1>3 DEF IInv, OutboxTypeOK
<1>5. ClockAhead' /\ SeenIsPast' /\ OpenIsRecent'
  BY DEF IInv, ClockAhead, SeenIsPast, OpenIsRecent
<1>6. FoundIsWritten'
  BY <1>1, <1>3 DEF IInv, OutboxTypeOK, FoundIsWritten
<1>7. NoneLeftBehind'
  BY DEF IInv, NoneLeftBehind, Owed, EnrollFrom
<1>8. Owed \ handed \subseteq all
  <2> SUFFICES ASSUME NEW e \in Owed \ handed PROVE e \in all
    OBVIOUS
  <2>1. created[e] >= EnrollFrom(cursor)
    BY DEF IInv, NoneLeftBehind
  <2>2. seenCursor[w] \in Times /\ cursor \in Times /\ seenCursor[w] <= cursor
    BY DEF IInv, OutboxTypeOK, SeenIsPast
  <2>3. EnrollFrom(seenCursor[w]) <= EnrollFrom(cursor) /\ EnrollFrom(cursor) \in Int
        /\ EnrollFrom(seenCursor[w]) \in Int
    BY <2>2, EnrollFromGrows DEF Times
  <2>4. created[e] \in Int
    BY DEF IInv, OutboxTypeOK, Owed, Times
  <2>5. created[e] >= EnrollFrom(seenCursor[w])
    BY <2>1, <2>3, <2>4
  <2> QED
    BY <2>5 DEF Owed, NotHanded
<1>9. FoundIsAllBefore'
  <2> SUFFICES ASSUME NEW v \in Replicas, phase'[v] \in {"insert", "cursor"},
                      NEW e \in Owed \ (handed \cup found'[v]), NEW t \in NextCursors(v)'
               PROVE  created[e] >= t - Late
    BY DEF FoundIsAllBefore, Owed
  <2>1. CASE v # w
    <3>1. phase[v] = phase'[v] /\ NextCursors(v)' = NextCursors(v) /\ found'[v] = found[v]
      BY <1>1, <2>1 DEF IInv, OutboxTypeOK, NextCursors
    <3> QED
      BY <3>1 DEF IInv, FoundIsAllBefore
  <2>2. CASE v = w
    <3>1. found'[w] = S
      BY <1>1 DEF IInv, OutboxTypeOK
    <3>2. e \in all \ S
      BY <1>8, <3>1, <2>2
    <3>3. EnrollRows \in Nat /\ ~(Cardinality(S) < EnrollRows)
      BY <1>1, <3>2
    <3>4. PICK f \in S : t = created[f]
      BY <3>1, <3>3, <2>2 DEF NextCursors
    <3>5. created[f] <= created[e]
      BY <1>1, <3>2, <3>4
    <3>6. created[f] \in Int /\ created[e] \in Int
      BY <1>3, <3>4 DEF IInv, OutboxTypeOK, Times, Owed
    <3> QED
      BY <3>4, <3>5, <3>6
  <2> QED
    BY <2>1, <2>2
<1> QED
  BY <1>4, <1>5, <1>6, <1>7, <1>9 DEF IInv

LEMMA EnrollInsertKeeps ==
  ASSUME IInv, NEW w \in Replicas, EnrollInsert(w)
  PROVE  IInv'
<1> USE DEF EnrollInsert, eventVars, sinkVars
<1>1. OutboxTypeOK'
  BY DEF IInv, OutboxTypeOK
<1>2. ClockAhead' /\ SeenIsPast' /\ OpenIsRecent'
  BY DEF IInv, ClockAhead, SeenIsPast, OpenIsRecent
<1>3. FoundIsWritten'
  BY DEF IInv, OutboxTypeOK, FoundIsWritten
<1>4. NoneLeftBehind'
  BY DEF IInv, NoneLeftBehind, Owed, EnrollFrom
<1>5. FoundIsAllBefore'
  <2> SUFFICES ASSUME NEW v \in Replicas, phase'[v] \in {"insert", "cursor"}
               PROVE  \A e \in Owed \ (handed \cup found[v]) :
                        \A t \in NextCursors(v) : created[e] >= t - Late
    BY DEF FoundIsAllBefore, Owed, NextCursors
  <2>1. phase[v] \in {"insert", "cursor"}
    BY DEF IInv, OutboxTypeOK
  <2> QED
    BY <2>1 DEF IInv, FoundIsAllBefore
<1> QED
  BY <1>1, <1>2, <1>3, <1>4, <1>5 DEF IInv

\* A replica that is through with an enrolment, or loses it, has none found.
LEMMA RestKeeps ==
  ASSUME IInv, NEW w \in Replicas,
         phase' = [phase EXCEPT ![w] = "idle"], found' = [found EXCEPT ![w] = {}],
         seenNow' = [seenNow EXCEPT ![w] = 0], seenCursor' = [seenCursor EXCEPT ![w] = 0],
         UNCHANGED <<now, eventVars, registered, since, handed>>,
         cursor' \in Times, cursor <= cursor', cursor' <= now, setbacks' \in 0 .. MaxSetbacks,
         NoneLeftBehind'
  PROVE  IInv'
<1> USE DEF eventVars
<1>1. OutboxTypeOK'
  BY DEF IInv, OutboxTypeOK, Times
<1>2. ClockAhead' /\ SeenIsPast' /\ OpenIsRecent'
  BY DEF IInv, OutboxTypeOK, Times, ClockAhead, SeenIsPast, OpenIsRecent
<1>3. FoundIsWritten'
  BY DEF IInv, OutboxTypeOK, FoundIsWritten
<1>4. FoundIsAllBefore'
  <2> SUFFICES ASSUME NEW v \in Replicas, phase'[v] \in {"insert", "cursor"}
               PROVE  \A e \in Owed \ (handed \cup found'[v]) :
                        \A t \in NextCursors(v)' : created[e] >= t - Late
    BY DEF FoundIsAllBefore, Owed
  <2>1. v # w /\ phase[v] = phase'[v] /\ found'[v] = found[v] /\ NextCursors(v)' = NextCursors(v)
    BY DEF IInv, OutboxTypeOK, NextCursors
  <2> QED
    BY <2>1 DEF IInv, FoundIsAllBefore
<1> QED
  BY <1>1, <1>2, <1>3, <1>4 DEF IInv

LEMMA EnrollCursorKeeps ==
  ASSUME IInv, NEW w \in Replicas, EnrollCursor(w)
  PROVE  IInv'
<1> USE DEF EnrollCursor
<1>1. PICK next \in NextCursors(w) :
        cursor' = IF CursorMoves(w, next) /\ next > cursor THEN next ELSE cursor
  OBVIOUS
<1>2. next \in Int /\ next <= now
  BY NextIsPast
<1>3. cursor' \in Times /\ cursor <= cursor' /\ cursor' <= now
  BY <1>1, <1>2 DEF IInv, OutboxTypeOK, Times, ClockAhead
<1>4. NoneLeftBehind'
  <2> SUFFICES ASSUME NEW e \in Owed \ handed PROVE created[e] >= EnrollFrom(cursor')
    BY DEF NoneLeftBehind, Owed, EnrollFrom, eventVars
  <2>1. created[e] >= EnrollFrom(cursor) /\ created[e] >= since
    BY DEF IInv, NoneLeftBehind, Owed
  <2>2. created[e] >= next - Late
    BY DEF IInv, FoundIsWritten, FoundIsAllBefore
  <2> QED
    BY <1>1, <2>1, <2>2 DEF EnrollFrom
<1>5. setbacks' \in 0 .. MaxSetbacks
  BY DEF IInv, OutboxTypeOK
<1> QED
  BY <1>3, <1>4, <1>5, RestKeeps

LEMMA CrashKeeps ==
  ASSUME IInv, NEW w \in Replicas, ReplicaDies(w)
  PROVE  IInv'
<1> USE DEF ReplicaDies, sinkVars, eventVars
<1>1. NoneLeftBehind'
  BY DEF IInv, NoneLeftBehind, Owed, EnrollFrom
<1>2. /\ setbacks' \in 0 .. MaxSetbacks
      /\ cursor' \in Times /\ cursor <= cursor' /\ cursor' <= now
  BY DEF IInv, OutboxTypeOK, Times, ClockAhead
<1> QED
  BY <1>1, <1>2, RestKeeps

LEMMA NextIInv == IInv /\ [OutboxNext]_outboxVars => IInv'
<1>1. ASSUME IInv, UNCHANGED outboxVars PROVE IInv'
  BY <1>1 DEF IInv, OutboxTypeOK, ClockAhead, OpenIsRecent, SeenIsPast, FoundIsWritten, FoundIsAllBefore,
              NoneLeftBehind, Owed, NextCursors, EnrollFrom, outboxVars, eventVars, sinkVars, enrollVars
<1> QED
  BY <1>1, TickKeeps, RegisterKeeps, BeginEventKeeps, EndEventKeeps, EnrollReadKeeps,
     EnrollSelectKeeps, EnrollInsertKeeps, EnrollCursorKeeps, CrashKeeps DEF OutboxNext, Enroll

\* The argument of the outbox is inductive: what a replica has found, and hands
\* over before it moves the cursor, is all that lies before where it moves it to,
\* but for what committed within Late of its stamp.
THEOREM OutboxInvariance == OutboxSpec => []IInv
  BY InitIInv, NextIInv, PTL DEF OutboxSpec

\* outbox_enroll never moves the cursor past an event the sink is owed and was
\* not handed, in whatever order transactions commit and replicas enrol.
THEOREM NoEventIsLeftBehind == OutboxSpec => []NoneLeftBehind
<1>1. IInv => NoneLeftBehind
  BY DEF IInv
<1> QED
  BY <1>1, OutboxInvariance, PTL
=============================================================================
