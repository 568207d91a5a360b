------------------------------- MODULE Ingest -------------------------------
(***************************************************************************)
(* Consumers of a sharded stream: a directory of append-only files, split  *)
(* among engines by leases in source_partitions, each line of which        *)
(* becomes a run, or a dead letter, in the transaction that moves the      *)
(* shard's cursor in source_offsets.                                       *)
(*                                                                         *)
(* Positions count half lines: a producer may be in the middle of a line   *)
(* when it is read.  Line i ends at position 2 * i.                        *)
(***************************************************************************)
EXTENDS Integers, FiniteSets

CONSTANTS
  Shards,
  Consumers,      \* the engines, each with one ShardedStreamSource
  NoOne,          \* no shard; NULL, or the id of a consumer that has died
  Lines,          \* bound on the lines of a shard
  Poison,         \* the lines that are no workflow, as <<shard, line>>
  MaxPartitions,  \* STREAM_MAX_PARTITIONS
  MaxAttempts,    \* DEAD_LETTER_MAX_ATTEMPTS
  MaxMishaps,     \* bound on crashes and failed writes
  MaxLapses       \* bound on leases that lapse under a live consumer

ASSUME IngestAssumption ==
  /\ IsFiniteSet(Shards) /\ NoOne \notin Shards
  /\ IsFiniteSet(Consumers) /\ NoOne \notin Consumers
  /\ Lines \in Nat /\ Poison \subseteq Shards \X (1 .. Lines)
  /\ MaxPartitions \in Nat \ {0} /\ MaxAttempts \in Nat \ {0}
  /\ MaxMishaps \in Nat /\ MaxLapses \in Nat

Units == 1 .. 2 * Lines
Positions == 0 .. 2 * Lines
NoChild == -1

VARIABLES
  len,       \* how much each shard holds
  owner,     \* source_partitions.claimed_by
  leased,    \* its lease_expires_at is to come
  offset,    \* source_offsets.position
  taken,     \* how many runs and dead letters each half line is part of
  acked,     \* a consumer's child of a shard: the position past what it has acked
  reading,   \* the same, past the line it has in flight
  stage,     \* where a consumer is in recv and handle
  cur,       \* the shard whose message it handles
  failures,  \* IngestState::failures: failed tries of each payload
  mishaps, lapses

leaseVars == <<owner, leased>>
dbVars == <<offset, taken>>
childVars == <<acked, reading>>
handleVars == <<stage, cur, failures>>
ingestVars == <<len, leaseVars, dbVars, childVars, handleVars, mishaps, lapses>>

\* The rows and the consumers' variables hold values of their types.
IngestTypeOK ==
  /\ len \in [Shards -> Positions]
  /\ owner \in [Shards -> Consumers \cup {NoOne}] /\ leased \in [Shards -> BOOLEAN]
  /\ offset \in [Shards -> Positions] /\ taken \in [Shards -> [Units -> Nat]]
  /\ acked \in [Consumers -> [Shards -> Positions \cup {NoChild}]]
  /\ reading \in [Consumers -> [Shards -> Positions \cup {NoChild}]]
  /\ stage \in [Consumers -> {"poll", "sync", "recv", "handle", "park", "ack"}]
  /\ cur \in [Consumers -> Shards \cup {NoOne}]
  /\ failures \in [Consumers -> [Shards \X Positions \X Positions -> Nat]]
  /\ mishaps \in 0 .. MaxMishaps /\ lapses \in 0 .. MaxLapses

IngestInit ==
  /\ len = [s \in Shards |-> 0]
  /\ owner = [s \in Shards |-> NoOne] /\ leased = [s \in Shards |-> FALSE]
  /\ offset = [s \in Shards |-> 0] /\ taken = [s \in Shards |-> [u \in Units |-> 0]]
  /\ acked = [c \in Consumers |-> [s \in Shards |-> NoChild]]
  /\ reading = acked
  /\ stage = [c \in Consumers |-> "poll"] /\ cur = [c \in Consumers |-> NoOne]
  /\ failures = [c \in Consumers |-> [p \in Shards \X Positions \X Positions |-> 0]]
  /\ mishaps = 0 /\ lapses = 0

Children(c) == {s \in Shards : acked[c][s] # NoChild}
Held(c) == {s \in Shards : owner[s] = c}

\* A producer writes half a line.
Append(s) ==
  /\ len[s] < 2 * Lines
  /\ len' = [len EXCEPT ![s] = @ + 1]
  /\ UNCHANGED <<leaseVars, dbVars, childVars, handleVars, mishaps, lapses>>

-----------------------------------------------------------------------------
(* upkeep *)

\* renew_source_partitions, of a lease that has lapsed too if it is still the
\* consumer's.
Renew(c) ==
  /\ stage[c] = "poll" /\ Children(c) # {}
  /\ leased' = [s \in Shards |-> leased[s] \/ s \in Held(c)]
  /\ stage' = [stage EXCEPT ![c] = "sync"]
  /\ UNCHANGED <<len, owner, dbVars, childVars, cur, failures, mishaps, lapses>>

\* The partitions claim_source_partitions may take.
Claimable(c) == {s \in Shards : ~leased[s] /\ owner[s] # c}

\* The scan: claim_source_partitions, up to what the consumer has room for.
\* It follows Renew where both are due.
Claim(c) ==
  LET room == MaxPartitions - Cardinality(Children(c))
  IN  \E S \in SUBSET Claimable(c) :
        /\ stage[c] \in {"poll", "sync"}
        /\ S = Claimable(c) \/ Cardinality(S) = room
        /\ Cardinality(S) <= room \/ S = {}
        /\ stage[c] = "sync" => S # {}
        /\ owner' = [s \in Shards |-> IF s \in S THEN c ELSE owner[s]]
        /\ leased' = [s \in Shards |-> leased[s] \/ s \in S]
        /\ stage' = [stage EXCEPT ![c] = "sync"]
        /\ UNCHANGED <<len, dbVars, childVars, cur, failures, mishaps, lapses>>

\* Where the child of a shard that is held goes on: a new one from the cursor,
\* one that there is from where it was.
Resumed(c, s, place) ==
  IF s \notin Held(c) THEN NoChild ELSE IF s \in Children(c) THEN place[c][s] ELSE offset[s]

\* Children are reconciled with what the datastore says is held.
Reconcile(c) ==
  /\ stage[c] = "sync"
  /\ acked' = [acked EXCEPT ![c] = [s \in Shards |-> Resumed(c, s, acked)]]
  /\ reading' = [reading EXCEPT ![c] = [s \in Shards |-> Resumed(c, s, reading)]]
  /\ stage' = [stage EXCEPT ![c] = "recv"]
  /\ UNCHANGED <<len, leaseVars, dbVars, cur, failures, mishaps, lapses>>

-----------------------------------------------------------------------------
(* recv and handle *)

\* Where the line read from position p ends.  A child does not follow its file,
\* so the end of the file ends a line that is still being written.
LineEnd(s, p) ==
  LET whole == IF p % 2 = 0 THEN p + 2 ELSE p + 1
  IN  IF whole <= len[s] THEN whole ELSE len[s]

\* A child has a line in flight, or its shard one more.
Ready(c, s) == s \in Children(c) /\ (reading[c][s] > acked[c][s] \/ len[s] > acked[c][s])

\* recv: the line in flight again, or the next of the shard, after the upkeep or
\* without it: it is not due while the leases are fresh (a third of their term).
Recv(c, s) ==
  /\ \/ stage[c] = "recv"
     \/ stage[c] = "poll" /\ \A k \in Children(c) : owner[k] = c /\ leased[k]
  /\ Ready(c, s)
  /\ reading' = [reading EXCEPT ![c][s] = IF @ > acked[c][s] THEN @ ELSE LineEnd(s, @)]
  /\ stage' = [stage EXCEPT ![c] = "handle"]
  /\ cur' = [cur EXCEPT ![c] = s]
  /\ UNCHANGED <<len, leaseVars, dbVars, acked, failures, mishaps, lapses>>

\* Every shard is dry: once more, after a while.
Dry(c) ==
  /\ stage[c] = "recv" /\ \A s \in Shards : ~Ready(c, s)
  /\ stage' = [stage EXCEPT ![c] = "poll"]
  /\ UNCHANGED <<len, leaseVars, dbVars, childVars, cur, failures, mishaps, lapses>>

\* What a consumer handles: the shard and both ends of the line.
Payload(c) == <<cur[c], acked[c][cur[c]], reading[c][cur[c]]>>

\* A line is parsed, and half of one perhaps (from_yaml).
Parses(c) == LET p == Payload(c) IN <<p[1], (p[3] + 1) \div 2>> \notin Poison
Torn(c) == LET p == Payload(c) IN p[2] % 2 = 1 \/ p[3] % 2 = 1

Record_bug(c) ==
  LET p == Payload(c)
  IN  /\ taken' = [taken EXCEPT ![p[1]] =
                     [u \in Units |-> IF p[2] < u /\ u <= p[3] THEN @[u] + 1 ELSE @[u]]]
      /\ failures' = [failures EXCEPT ![c][p] = 0]
      /\ stage' = [stage EXCEPT ![c] = "ack"]
      /\ UNCHANGED offset

\* The transaction that makes the line durable and moves the cursor past it.
Record(c) ==
  LET p == Payload(c)
  IN  /\ taken' = [taken EXCEPT ![p[1]] =
                     [u \in Units |-> IF p[2] < u /\ u <= p[3] THEN @[u] + 1 ELSE @[u]]]
      /\ offset' = [offset EXCEPT ![p[1]] = p[3]]
      /\ failures' = [failures EXCEPT ![c][p] = 0]
      /\ stage' = [stage EXCEPT ![c] = "ack"]

\* create_run_with_offset.
CreateRunWithOffset(c) ==
  /\ stage[c] = "handle" /\ Parses(c)
  /\ Record(c)
  /\ UNCHANGED <<len, leaseVars, childVars, cur, mishaps, lapses>>

Nack_bug(c) ==
  /\ stage' = [stage EXCEPT ![c] = "poll"] /\ cur' = [cur EXCEPT ![c] = NoOne]
  /\ acked' = [acked EXCEPT ![c][cur[c]] = reading[c][cur[c]]]
  /\ UNCHANGED reading

\* nack: the line stays in flight, and the next recv of the shard has it again.
Nack(c) ==
  /\ stage' = [stage EXCEPT ![c] = "poll"] /\ cur' = [cur EXCEPT ![c] = NoOne]
  /\ UNCHANGED childVars

\* The run is refused for want of room: later, and not counted as a failure.
Refused(c) ==
  /\ stage[c] = "handle" /\ Parses(c)
  /\ Nack(c)
  /\ UNCHANGED <<len, leaseVars, dbVars, failures, mishaps, lapses>>

\* The run could not be made: once more, or for the last time.
CreateFails(c) ==
  LET count == failures[c][Payload(c)] + 1
  IN  /\ stage[c] = "handle" /\ Parses(c)
      /\ mishaps < MaxMishaps /\ mishaps' = mishaps + 1
      /\ IF count >= MaxAttempts
         THEN /\ failures' = [failures EXCEPT ![c][Payload(c)] = 0]
              /\ stage' = [stage EXCEPT ![c] = "park"]
              /\ UNCHANGED <<cur, childVars>>
         ELSE /\ failures' = [failures EXCEPT ![c][Payload(c)] = count]
              /\ Nack(c)
      /\ UNCHANGED <<len, leaseVars, dbVars, lapses>>

\* record_dead_letter_with_offset, of a line that does not parse or was tried
\* for the last time.
DeadLetter(c) ==
  /\ stage[c] = "park" \/ (stage[c] = "handle" /\ (~Parses(c) \/ Torn(c)))
  /\ Record(c)
  /\ UNCHANGED <<len, leaseVars, childVars, cur, mishaps, lapses>>

\* It could not be parked: it is nacked, and tried from the first again.
DeadLetterFails(c) ==
  /\ stage[c] = "park" \/ (stage[c] = "handle" /\ ~Parses(c))
  /\ mishaps < MaxMishaps /\ mishaps' = mishaps + 1
  /\ Nack(c)
  /\ UNCHANGED <<len, leaseVars, dbVars, failures, lapses>>

\* ack.
Ack(c) ==
  /\ stage[c] = "ack"
  /\ acked' = [acked EXCEPT ![c][cur[c]] = reading[c][cur[c]]]
  /\ stage' = [stage EXCEPT ![c] = "poll"] /\ cur' = [cur EXCEPT ![c] = NoOne]
  /\ UNCHANGED <<len, leaseVars, dbVars, reading, failures, mishaps, lapses>>

-----------------------------------------------------------------------------
(* What goes wrong *)

\* The engine dies.  The one that takes its place has an id of its own, so its
\* shards are free once their leases have lapsed.
EngineDies(c) ==
  /\ Children(c) # {} \/ Held(c) # {}
  /\ mishaps < MaxMishaps /\ mishaps' = mishaps + 1
  /\ owner' = [s \in Shards |-> IF owner[s] = c THEN NoOne ELSE owner[s]]
  /\ acked' = [acked EXCEPT ![c] = [s \in Shards |-> NoChild]]
  /\ reading' = [reading EXCEPT ![c] = [s \in Shards |-> NoChild]]
  /\ stage' = [stage EXCEPT ![c] = "poll"] /\ cur' = [cur EXCEPT ![c] = NoOne]
  /\ failures' = [failures EXCEPT ![c] = [p \in DOMAIN @ |-> 0]]
  /\ UNCHANGED <<len, leased, dbVars, lapses>>

\* A lease lapses: of a dead consumer, of one that waits at the in-flight cap,
\* where handle returns before recv and nothing renews it, or of one that
\* stalls.
LeaseLapses(s) ==
  /\ leased[s]
  /\ owner[s] # NoOne => lapses < MaxLapses
  /\ lapses' = IF owner[s] = NoOne THEN lapses ELSE lapses + 1
  /\ leased' = [leased EXCEPT ![s] = FALSE]
  /\ UNCHANGED <<len, owner, dbVars, childVars, handleVars, mishaps>>

-----------------------------------------------------------------------------
Handle(c) == CreateRunWithOffset(c) \/ DeadLetter(c)

Step(c) ==
  \/ Renew(c) \/ Claim(c) \/ Reconcile(c) \/ Dry(c) \/ (\E s \in Shards : Recv(c, s))
  \/ Handle(c) \/ Refused(c) \/ Ack(c)

IngestNext ==
  \/ \E s \in Shards : Append(s) \/ LeaseLapses(s)
  \/ \E c \in Consumers : Step(c) \/ CreateFails(c) \/ DeadLetterFails(c) \/ EngineDies(c)

IngestSpec == IngestInit /\ [][IngestNext]_ingestVars

\* A consumer goes on with its loop, and a submission that is refused for room
\* gets it in the end.  Leases of the dead lapse.  Nothing has to be written, and
\* no live lease has to lapse.
IngestFairness ==
  /\ \A s \in Shards : WF_ingestVars(owner[s] = NoOne /\ LeaseLapses(s))
  /\ \A c \in Consumers : WF_ingestVars(Step(c)) /\ SF_ingestVars(Handle(c))

IngestFairSpec == IngestSpec /\ IngestFairness

-----------------------------------------------------------------------------
(* Properties *)

\* A cursor accounts for all that lies before it: no line is passed over that
\* is not a run or a dead letter, whoever moved the cursor, with a lease or
\* after it had lapsed.
NoneSkipped == \A s \in Shards : \A u \in 1 .. offset[s] : taken[s][u] >= 1

\* It takes a lease that lapses under a live consumer to have a part of a shard
\* again, as nothing fences the commit with the lease: once as the cursor it
\* moves back is gone on from, and once as it comes by the shard anew and goes on
\* from where it was.
OnceUnlessLapsed == \A s \in Shards : \A u \in Units : taken[s][u] <= 1 + 2 * lapses

\* What a shard holds, counted in half lines, is neither passed over nor taken
\* twice through crashes, failed writes and refusals, unless a lease lapsed.
\* That a line is taken as a whole is no part of it: see ExactlyOnce.
BytesTakenOnce == NoneSkipped /\ OnceUnlessLapsed

\* The halves of line i.
Halves(i) == {2 * i - 1, 2 * i}

\* "Every line still commits exactly-once" (ShardedStreamSource), and a partial
\* line is waited for "rather than delivering torn JSON" (next_line): a step that
\* takes any of a line takes the whole of it, and for the first time.
ExactlyOnce ==
  [][\A s \in Shards, i \in 1 .. Lines :
       (\E u \in Halves(i) : taken'[s][u] # taken[s][u])
         => \A u \in Halves(i) : taken[s][u] = 0 /\ taken'[s][u] = 1]_ingestVars

\* A shard with a line that no one has taken is caught up with, though its
\* consumers crash and lose it to each other.
Behind(s) == \E u \in Units : u <= len[s] /\ taken[s][u] = 0
EveryLineIsTaken == \A s \in Shards : Behind(s) ~> ~Behind(s)
=============================================================================
