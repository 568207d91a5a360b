------------------------------- MODULE Outbox -------------------------------
(***************************************************************************)
(* The transactional outbox, up to the rows it hands a sink.  The          *)
(* transaction that ends a run writes an event, stamped with the time the  *)
(* transaction began; it commits later, out of order with others.  Each    *)
(* replica of a sink enrols it in the events from a little behind its      *)
(* cursor, and moves the cursor on.  What becomes of a row is RunEnd's.    *)
(*                                                                         *)
(* One sink: every statement of the outbox names its sink, and no sink     *)
(* reads another's rows.                                                   *)
(***************************************************************************)
EXTENDS Integers, FiniteSets

CONSTANTS
  OutboxEvents,  \* the events that may be written, of the sink's types
  Replicas,      \* one process per replica, each draining this sink
  Late,          \* OUTBOX_LATE_COMMIT_SECS
  LeastMove,     \* the minute by which outbox_cursor_moves spares a write
  EnrollRows,    \* OUTBOX_ENROLL_ROWS
  MaxTime,       \* bound on the clock
  MaxSetbacks    \* bound on crashes

ASSUME OutboxAssumption ==
  /\ IsFiniteSet(OutboxEvents)
  /\ Late \in Nat /\ LeastMove \in Nat /\ MaxTime \in Nat /\ MaxSetbacks \in Nat
  /\ EnrollRows \in Nat \ {0}

VARIABLES
  now,                  \* the clock
  written,              \* event_outbox: "none", "open" in a transaction, or "committed"
  created,              \* created_at
  registered,           \* outbox_sinks has the sink
  since, cursor,
  handed,               \* the events outbox_deliveries has a row of, for the sink
  phase,                \* where a replica is in outbox_enroll
  seenNow, seenCursor,  \* what its enrolment read
  found,                \* what its enrolment found
  setbacks

eventVars == <<written, created>>
sinkVars == <<registered, since, cursor>>
enrollVars == <<phase, seenNow, seenCursor, found>>
outboxVars == <<now, eventVars, sinkVars, handed, enrollVars, setbacks>>

Times == 0 .. MaxTime

\* The rows and the replicas' variables hold values of their types.
OutboxTypeOK ==
  /\ now \in Times
  /\ written \in [OutboxEvents -> {"none", "open", "committed"}]
  /\ created \in [OutboxEvents -> Times]
  /\ registered \in BOOLEAN /\ since \in Times /\ cursor \in Times
  /\ handed \subseteq OutboxEvents
  /\ phase \in [Replicas -> {"idle", "select", "insert", "cursor"}]
  /\ seenNow \in [Replicas -> Times] /\ seenCursor \in [Replicas -> Times]
  /\ found \in [Replicas -> SUBSET OutboxEvents]
  /\ setbacks \in 0 .. MaxSetbacks

OutboxInit ==
  /\ now = 0
  /\ written = [e \in OutboxEvents |-> "none"] /\ created = [e \in OutboxEvents |-> 0]
  /\ registered = FALSE /\ since = 0 /\ cursor = 0
  /\ handed = {}
  /\ phase = [w \in Replicas |-> "idle"]
  /\ seenNow = [w \in Replicas |-> 0] /\ seenCursor = [w \in Replicas |-> 0]
  /\ found = [w \in Replicas |-> {}]
  /\ setbacks = 0

-----------------------------------------------------------------------------
(* The clock and the writers *)

\* A transaction that writes an event commits within Late of its stamp: what
\* OUTBOX_LATE_COMMIT_SECS takes for granted of the database and the clocks.
Tick ==
  /\ now < MaxTime
  /\ \A e \in OutboxEvents : written[e] = "open" => now < created[e] + Late
  /\ now' = now + 1
  /\ UNCHANGED <<eventVars, sinkVars, handed, enrollVars, setbacks>>

\* A transaction that is to write the event takes its time (`now` of reap,
\* cancel_run and the others).
BeginEvent(e) ==
  /\ written[e] = "none"
  /\ written' = [written EXCEPT ![e] = "open"]
  /\ created' = [created EXCEPT ![e] = now]
  /\ UNCHANGED <<now, sinkVars, handed, enrollVars, setbacks>>

\* It commits with the event it wrote (insert_run_completed), or rolls back.
EndEvent(e) ==
  /\ written[e] = "open"
  /\ \E s \in {"committed", "none"} : written' = [written EXCEPT ![e] = s]
  /\ UNCHANGED <<now, created, sinkVars, handed, enrollVars, setbacks>>

-----------------------------------------------------------------------------
(* Enrolment *)

\* register_outbox_sink: by the engine as it starts, or by a first enrolment.
Register ==
  /\ ~registered
  /\ registered' = TRUE /\ since' = now /\ cursor' = now
  /\ UNCHANGED <<now, eventVars, handed, enrollVars, setbacks>>

\* outbox_enroll reads the clock, then outbox_sink_position.
EnrollRead(w) ==
  /\ registered /\ phase[w] = "idle"
  /\ phase' = [phase EXCEPT ![w] = "select"]
  /\ seenNow' = [seenNow EXCEPT ![w] = now]
  /\ seenCursor' = [seenCursor EXCEPT ![w] = cursor]
  /\ UNCHANGED <<now, eventVars, sinkVars, handed, found, setbacks>>

\* outbox_enrol_from.
EnrollFrom(c) == IF c - Late < since THEN since ELSE c - Late

\* What an enrolment that read the cursor c has to find.
NotHanded(c) ==
  {e \in OutboxEvents \ handed : written[e] = "committed" /\ created[e] >= EnrollFrom(c)}

EnrollSelect_bug(w) ==
  LET all == NotHanded(seenCursor[w])
  IN  /\ phase[w] = "select"
      /\ \E S \in SUBSET all :
           /\ S = all \/ Cardinality(S) = EnrollRows
           /\ Cardinality(S) <= EnrollRows
           /\ found' = [found EXCEPT ![w] = S]
      /\ phase' = [phase EXCEPT ![w] = "insert"]
      /\ UNCHANGED <<now, eventVars, sinkVars, handed, seenNow, seenCursor, setbacks>>

\* The SELECT: the oldest of them, up to a batch.
EnrollSelect(w) ==
  LET all == NotHanded(seenCursor[w])
  IN  /\ phase[w] = "select"
      /\ \E S \in SUBSET all :
           /\ S = all \/ Cardinality(S) = EnrollRows
           /\ Cardinality(S) <= EnrollRows
           /\ \A e \in S, f \in all \ S : created[e] <= created[f]
           /\ found' = [found EXCEPT ![w] = S]
      /\ phase' = [phase EXCEPT ![w] = "insert"]
      /\ UNCHANGED <<now, eventVars, sinkVars, handed, seenNow, seenCursor, setbacks>>

EnrollInsert_bug(w) ==
  /\ phase[w] = "insert"
  /\ phase' = [phase EXCEPT ![w] = "cursor"]
  /\ UNCHANGED <<now, eventVars, sinkVars, handed, seenNow, seenCursor, found, setbacks>>

\* INSERT OR IGNORE: another replica may have enrolled some of them first.
EnrollInsert(w) ==
  /\ phase[w] = "insert"
  /\ phase' = [phase EXCEPT ![w] = "cursor"]
  /\ handed' = handed \cup found[w]
  /\ UNCHANGED <<now, eventVars, sinkVars, seenNow, seenCursor, found, setbacks>>

\* outbox_next_cursor is the latest of these: the events found and, where they
\* are less than a batch, the time before which every event has committed.
NextCursors(w) ==
  {created[e] : e \in found[w]}
    \cup {t \in {seenNow[w] - Late} : Cardinality(found[w]) < EnrollRows}

\* outbox_cursor_moves.
CursorMoves(w, next) ==
  next > seenCursor[w] /\ (found[w] # {} \/ next - seenCursor[w] >= LeastMove)

\* The UPDATE, WHERE cursor < next.  The claim that follows is RunEnd's.
EnrollCursor(w) ==
  /\ phase[w] = "cursor"
  /\ \E next \in NextCursors(w) :
       /\ \A t \in NextCursors(w) : t <= next
       /\ cursor' = IF CursorMoves(w, next) /\ next > cursor THEN next ELSE cursor
  /\ phase' = [phase EXCEPT ![w] = "idle"]
  /\ found' = [found EXCEPT ![w] = {}]
  /\ seenNow' = [seenNow EXCEPT ![w] = 0] /\ seenCursor' = [seenCursor EXCEPT ![w] = 0]
  /\ UNCHANGED <<now, eventVars, registered, since, handed, setbacks>>

\* A statement fails, or the process dies and another takes its place.
ReplicaDies(w) ==
  /\ phase[w] # "idle" /\ setbacks < MaxSetbacks /\ setbacks' = setbacks + 1
  /\ phase' = [phase EXCEPT ![w] = "idle"]
  /\ found' = [found EXCEPT ![w] = {}]
  /\ seenNow' = [seenNow EXCEPT ![w] = 0] /\ seenCursor' = [seenCursor EXCEPT ![w] = 0]
  /\ UNCHANGED <<now, eventVars, sinkVars, handed>>

-----------------------------------------------------------------------------
Enroll(w) == EnrollRead(w) \/ EnrollSelect(w) \/ EnrollInsert(w) \/ EnrollCursor(w)

OutboxNext ==
  \/ Tick \/ Register
  \/ \E e \in OutboxEvents : BeginEvent(e) \/ EndEvent(e)
  \/ \E w \in Replicas : Enroll(w) \/ ReplicaDies(w)

OutboxSpec == OutboxInit /\ [][OutboxNext]_outboxVars

\* A replica goes on with its loop.  No event has to be written.
OutboxFairness == \A w \in Replicas : WF_outboxVars(Enroll(w))

OutboxFairSpec == OutboxSpec /\ OutboxFairness

-----------------------------------------------------------------------------
(* Properties *)

\* The events the sink is owed.
Owed == {e \in OutboxEvents : written[e] = "committed" /\ registered /\ created[e] >= since}

\* Enrolment never moves past an event: one that is owed and not handed yet is
\* still within what outbox_enroll looks at, whatever order events committed in
\* and however replicas enrol side by side and crash.
NoneLeftBehind ==
  \A e \in Owed \ handed : created[e] >= EnrollFrom(cursor)

\* Every event the sink is owed is handed to it.
EveryEventIsHanded == \A e \in OutboxEvents : e \in Owed ~> e \in handed

-----------------------------------------------------------------------------
(* Why enrolment leaves nothing behind: what a replica has found, and will    *)
(* have handed by the time it moves the cursor, is all that lies before it.   *)

\* The clock is ahead of all that was stamped, read or written from it.
ClockAhead ==
  /\ cursor <= now /\ since <= now
  /\ \A e \in OutboxEvents : created[e] <= now
  /\ \A w \in Replicas : seenNow[w] <= now

\* No transaction is open for longer than Late.
OpenIsRecent == \A e \in OutboxEvents : written[e] = "open" => now <= created[e] + Late

\* The cursor a replica read is one the sink had.
SeenIsPast == \A w \in Replicas : seenCursor[w] <= cursor

\* An event that a replica's enrolment has passed over lies within Late of
\* where that enrolment is to move the cursor.
FoundIsAllBefore ==
  \A w \in Replicas : phase[w] \in {"insert", "cursor"} =>
    \A e \in Owed \ (handed \cup found[w]) : \A t \in NextCursors(w) : created[e] >= t - Late

\* What was found is there, and at the cursor it is handed.
FoundIsWritten ==
  \A w \in Replicas :
    /\ phase[w] # "idle" => registered
    /\ \A e \in found[w] : written[e] = "committed"
    /\ phase[w] = "cursor" => found[w] \subseteq handed

IInv ==
  /\ OutboxTypeOK /\ ClockAhead /\ OpenIsRecent /\ SeenIsPast
  /\ FoundIsWritten /\ FoundIsAllBefore /\ NoneLeftBehind
=============================================================================
