---------------------------- MODULE Ingest_proofs ----------------------------
(***************************************************************************)
(* Proofs about Ingest, for any number of shards, consumers, lines,        *)
(* crashes, failed writes and lapsed leases: no line is passed over, and   *)
(* how often one is taken.                                                 *)
(***************************************************************************)
EXTENDS Ingest, FiniteSetTheorems, TLAPS

USE IngestAssumption

\* Past what a consumer's child of a shard has made durable, acked or not.
Past(c, s) == IF stage[c] = "ack" /\ cur[c] = s THEN reading[c][s] ELSE acked[c][s]

\* The consumers that have lost a shard and not found out, and would take u
\* once more if they came by it again; and those that may commit before that.
Stale(c, s) == owner[s] # c /\ acked[c][s] # NoChild
Commits(c, s) == stage[c] = "recv" \/ (stage[c] \in {"handle", "park"} /\ cur[c] = s)
May(s, u) == {c \in Consumers : Stale(c, s) /\ Past(c, s) < u}
Will(s, u) == {c \in May(s, u) : Commits(c, s)}

\* u is to be taken by the one that holds the shard, or by the next to.
OpenFor(s, u) ==
  \/ offset[s] < u
  \/ owner[s] # NoOne /\ acked[owner[s]][s] # NoChild /\ Past(owner[s], s) < u

\* A lapse that no one has taken the shard after.
Unspent(s) == IF owner[s] # NoOne /\ ~leased[s] THEN 1 ELSE 0

\* Every unit is taken, or can yet be, once, and twice more for each lapse.
TakenBound(s, u) ==
  taken[s][u] + (IF OpenFor(s, u) THEN 1 ELSE 0) + Cardinality(May(s, u)) + Cardinality(Will(s, u))
    <= 1 + 2 * (lapses - Unspent(s))

Types ==
  /\ len \in [Shards -> Positions]
  /\ owner \in [Shards -> Consumers \cup {NoOne}] /\ leased \in [Shards -> BOOLEAN]
  /\ offset \in [Shards -> Positions] /\ taken \in [Shards -> [Units -> Nat]]
  /\ acked \in [Consumers -> [Shards -> Positions \cup {NoChild}]]
  /\ reading \in [Consumers -> [Shards -> Positions \cup {NoChild}]]
  /\ stage \in [Consumers -> {"poll", "sync", "recv", "handle", "park", "ack"}]
  /\ cur \in [Consumers -> Shards \cup {NoOne}]
  /\ lapses \in Nat

\* A child is at most as far as the line it has in flight, and what a consumer
\* handles is of a child.
ChildShape(c) ==
  /\ \A s \in Shards :
       acked[c][s] # NoChild => reading[c][s] \in Positions /\ acked[c][s] <= reading[c][s]
  /\ stage[c] \in {"handle", "park", "ack"} => cur[c] \in Shards /\ acked[c][cur[c]] # NoChild

\* What lies before a cursor, and before what a child goes on from, is taken.
Accounted(s, u) ==
  /\ u <= offset[s] => taken[s][u] >= 1
  /\ \A c \in Consumers : acked[c][s] # NoChild /\ u <= Past(c, s) => taken[s][u] >= 1

\* The inductive invariant.
IngestInv ==
  /\ Types
  /\ \A c \in Consumers : ChildShape(c)
  /\ \A s \in Shards : \A u \in Units : Accounted(s, u) /\ TakenBound(s, u)

LEMMA Numbers ==
  /\ Positions \subseteq Nat /\ Units \subseteq Nat \ {0} /\ NoChild \notin Positions /\ NoChild = -1
  /\ 0 \in Positions
  BY DEF Positions, Units, NoChild

LEMMA Counts ==
  ASSUME NEW s, NEW u
  PROVE  /\ IsFiniteSet(May(s, u)) /\ IsFiniteSet(Will(s, u))
         /\ Cardinality(May(s, u)) \in Nat /\ Cardinality(Will(s, u)) \in Nat
         /\ IsFiniteSet(May(s, u)') /\ IsFiniteSet(Will(s, u)')
         /\ Cardinality(May(s, u)') \in Nat /\ Cardinality(Will(s, u)') \in Nat
<1>1. /\ May(s, u) \subseteq Consumers /\ Will(s, u) \subseteq Consumers
      /\ May(s, u)' \subseteq Consumers /\ Will(s, u)' \subseteq Consumers
  BY DEF May, Will
<1> QED
  BY <1>1, FS_Subset, FS_CardinalityType

\* A step by which nobody comes to have more to take.
LEMMA QuietBound ==
  ASSUME IngestInv, NEW s \in Shards, NEW u \in Units, taken'[s][u] = taken[s][u],
         May(s, u)' \subseteq May(s, u), Will(s, u)' \subseteq Will(s, u),
         OpenFor(s, u)' => OpenFor(s, u),
         lapses' \in Nat, lapses' - Unspent(s)' >= lapses - Unspent(s)
  PROVE  TakenBound(s, u)'
<1>1. /\ Cardinality(May(s, u)') <= Cardinality(May(s, u))
      /\ Cardinality(Will(s, u)') <= Cardinality(Will(s, u))
  BY Counts, FS_Subset
<1>2. /\ TakenBound(s, u) /\ taken[s][u] \in Nat /\ lapses \in Nat
      /\ Unspent(s) \in {0, 1} /\ Unspent(s)' \in {0, 1}
  BY DEF IngestInv, Types, Unspent
<1> HIDE DEF May, Will, OpenFor, Unspent
<1> QED
  BY <1>1, <1>2, Counts DEF TakenBound

-----------------------------------------------------------------------------
(* Steps that commit nothing *)

\* A step of a consumer that leaves the datastore alone.  Its child of a shard goes
\* on from where it was, or anew from the cursor of a shard it holds.
LEMMA LocalStep ==
  ASSUME IngestInv, NEW c \in Consumers, UNCHANGED <<len, owner, dbVars, lapses>>, Types', ChildShape(c)',
         \A s \in Shards : leased[s] => leased'[s],
         \A d \in Consumers \ {c} : /\ acked'[d] = acked[d] /\ reading'[d] = reading[d]
                                    /\ stage'[d] = stage[d] /\ cur'[d] = cur[d],
         \A s \in Shards : acked'[c][s] # NoChild =>
            \/ acked[c][s] # NoChild /\ Past(c, s)' = Past(c, s)
            \/ acked[c][s] = NoChild /\ owner[s] = c /\ Past(c, s)' = offset[s],
         \A s \in Shards : Stale(c, s)' /\ Commits(c, s)' => Commits(c, s)
  PROVE  IngestInv'
<1> USE DEF dbVars
<1>1. ASSUME NEW d \in Consumers PROVE ChildShape(d)'
  <2>1. CASE d # c
    BY <1>1, <2>1 DEF IngestInv, ChildShape
  <2> QED
    BY <2>1
<1>2. ASSUME NEW s \in Shards, NEW u \in Units PROVE Accounted(s, u)' /\ TakenBound(s, u)'
  <2>1. ASSUME NEW d \in Consumers, d # c
        PROVE  /\ Stale(d, s)' <=> Stale(d, s)
               /\ Past(d, s)' = Past(d, s) /\ (Commits(d, s)' <=> Commits(d, s))
    BY <2>1 DEF Stale, Past, Commits
  <2>2. Stale(c, s)' => Stale(c, s) /\ Past(c, s)' = Past(c, s)
    BY <1>2 DEF Stale
  <2>3. Accounted(s, u)'
    <3>1. ASSUME NEW d \in Consumers, acked'[d][s] # NoChild, u <= Past(d, s)' PROVE taken[s][u] >= 1
      <4>1. CASE d # c
        BY <1>2, <2>1, <3>1, <4>1 DEF IngestInv, Accounted
      <4>2. CASE d = c
        BY <1>2, <3>1, <4>2 DEF IngestInv, Accounted
      <4> QED
        BY <4>1, <4>2
    <3> QED
      BY <1>2, <3>1 DEF IngestInv, Accounted
  <2>4. May(s, u)' \subseteq May(s, u) /\ Will(s, u)' \subseteq Will(s, u)
    BY <1>2, <2>1, <2>2 DEF May, Will
  <2>5. OpenFor(s, u)' => OpenFor(s, u)
    <3>1. CASE owner[s] = NoOne
      BY <3>1 DEF OpenFor
    <3>2. CASE owner[s] = c
      BY <1>2, <3>2 DEF OpenFor
    <3>3. CASE owner[s] \in Consumers \ {c}
      BY <2>1, <3>3 DEF OpenFor
    <3> QED
      BY <1>2, <3>1, <3>2, <3>3 DEF IngestInv, Types
  <2>6. lapses' - Unspent(s)' >= lapses - Unspent(s) /\ lapses' \in Nat
    BY <1>2 DEF Unspent, IngestInv, Types
  <2> QED
    BY <1>2, <2>3, <2>4, <2>5, <2>6, QuietBound
<1> QED
  BY <1>1, <1>2 DEF IngestInv

LEMMA RenewOK ==
  ASSUME IngestInv, NEW c \in Consumers, Renew(c)
  PROVE  IngestInv'
<1> USE DEF Renew, dbVars, childVars
<1>1. leased' \in [Shards -> BOOLEAN] /\ \A s \in Shards : leased[s] => leased'[s]
  BY DEF IngestInv, Types
<1>2. Types' /\ ChildShape(c)'
  BY <1>1 DEF IngestInv, Types, ChildShape
<1>3. \A s \in Shards : Past(c, s)' = Past(c, s) /\ ~Commits(c, s)'
  BY DEF IngestInv, Types, Past, Commits
<1> QED
  BY <1>1, <1>2, <1>3, LocalStep DEF IngestInv, Types

LEMMA ReconcileOK ==
  ASSUME IngestInv, NEW c \in Consumers, Reconcile(c)
  PROVE  IngestInv'
<1> USE DEF Reconcile, dbVars, leaseVars
<1>1. ASSUME NEW s \in Shards
      PROVE  /\ acked'[c][s] = Resumed(c, s, acked) /\ reading'[c][s] = Resumed(c, s, reading)
             /\ Resumed(c, s, acked) \in Positions \cup {NoChild}
             /\ Resumed(c, s, reading) \in Positions \cup {NoChild}
             /\ acked'[c][s] # NoChild => /\ owner[s] = c /\ reading'[c][s] \in Positions
                                          /\ acked'[c][s] <= reading'[c][s]
             /\ acked'[c][s] # NoChild => \/ acked[c][s] # NoChild /\ acked'[c][s] = acked[c][s]
                                          \/ acked[c][s] = NoChild /\ acked'[c][s] = offset[s]
  <2>0. acked'[c][s] = Resumed(c, s, acked) /\ reading'[c][s] = Resumed(c, s, reading)
    BY <1>1 DEF IngestInv, Types
  <2>1. /\ acked[c][s] \in Positions \cup {NoChild} /\ reading[c][s] \in Positions \cup {NoChild}
        /\ acked[c][s] # NoChild => reading[c][s] \in Positions /\ acked[c][s] <= reading[c][s]
    BY <1>1 DEF IngestInv, Types, ChildShape
  <2>5. offset[s] \in Positions /\ offset[s] <= offset[s]
    <3>1. offset[s] \in Positions
      BY <1>1 DEF IngestInv, Types
    <3>2. offset[s] \in Nat
      BY <3>1, Numbers
    <3> QED
      BY <3>1, <3>2
  <2>2. CASE owner[s] # c
    BY <1>1, <2>0, <2>1, <2>2, <2>5 DEF Resumed, Held
  <2>3. CASE owner[s] = c /\ acked[c][s] = NoChild
    BY <1>1, <2>0, <2>1, <2>3, <2>5 DEF Resumed, Held, Children
  <2>4. CASE owner[s] = c /\ acked[c][s] # NoChild
    BY <1>1, <2>0, <2>1, <2>4, <2>5 DEF Resumed, Held, Children
  <2> QED
    BY <2>2, <2>3, <2>4
<1>2. acked' \in [Consumers -> [Shards -> Positions \cup {NoChild}]]
  BY <1>1 DEF IngestInv, Types
<1>3. reading' \in [Consumers -> [Shards -> Positions \cup {NoChild}]]
  BY <1>1 DEF IngestInv, Types
<1>4. Types' /\ ChildShape(c)'
  BY <1>1, <1>2, <1>3 DEF IngestInv, Types, ChildShape
<1>5. \A s \in Shards : Past(c, s)' = acked'[c][s] /\ Past(c, s) = acked[c][s]
  BY DEF IngestInv, Types, Past
<1>6. \A s \in Shards : ~Stale(c, s)'
  BY <1>1 DEF Stale
<1>7. \A d \in Consumers \ {c} : /\ acked'[d] = acked[d] /\ reading'[d] = reading[d]
                                  /\ stage'[d] = stage[d] /\ cur'[d] = cur[d]
  BY DEF IngestInv, Types
<1>8. \A s \in Shards : acked'[c][s] # NoChild =>
        \/ acked[c][s] # NoChild /\ Past(c, s)' = Past(c, s)
        \/ acked[c][s] = NoChild /\ owner[s] = c /\ Past(c, s)' = offset[s]
  BY <1>1, <1>5
<1> QED
  BY <1>4, <1>6, <1>7, <1>8, LocalStep

\* The line a child reads next ends behind where it starts.
LEMMA LineEndBehind ==
  ASSUME IngestInv, NEW s \in Shards, NEW p \in Positions, len[s] > p
  PROVE  LineEnd(s, p) \in Positions /\ LineEnd(s, p) >= p
  BY Numbers DEF LineEnd, IngestInv, Types, Positions

LEMMA RecvOK ==
  ASSUME IngestInv, NEW c \in Consumers, NEW s \in Shards, Recv(c, s)
  PROVE  IngestInv'
<1> USE DEF Recv, dbVars, leaseVars
<1>1. acked[c][s] \in Positions /\ reading[c][s] \in Positions /\ acked[c][s] <= reading[c][s]
  BY DEF IngestInv, Types, ChildShape, Ready, Children
<1>2. PICK q \in Positions : reading' = [reading EXCEPT ![c][s] = q] /\ acked[c][s] <= q
  <2>1. CASE reading[c][s] > acked[c][s]
    BY <1>1, <2>1
  <2>2. CASE ~(reading[c][s] > acked[c][s])
    <3>1. reading[c][s] = acked[c][s] /\ len[s] > reading[c][s]
      <4>1. acked[c][s] \in Nat /\ reading[c][s] \in Nat /\ len[s] \in Nat
        BY <1>1, Numbers DEF IngestInv, Types
      <4>2. reading[c][s] > acked[c][s] \/ len[s] > acked[c][s]
        BY DEF Ready
      <4> QED
        BY <1>1, <2>2, <4>1, <4>2
    <3> QED
      BY <1>1, <2>2, <3>1, LineEndBehind
  <2> QED
    BY <2>1, <2>2
<1>3. /\ reading' \in [Consumers -> [Shards -> Positions \cup {NoChild}]]
      /\ reading'[c][s] = q /\ \A t \in Shards : t # s => reading'[c][t] = reading[c][t]
  BY <1>2 DEF IngestInv, Types
<1>4. Types'
  BY <1>3 DEF IngestInv, Types
<1>5. ChildShape(c)'
  BY <1>1, <1>2, <1>3, Numbers DEF IngestInv, Types, ChildShape
<1>6. \A t \in Shards : Past(c, t)' = Past(c, t)
  BY DEF IngestInv, Types, Past
<1>7. \A t \in Shards : Stale(c, t)' => Commits(c, t)
  BY DEF IngestInv, Types, Stale, Commits, Children
<1> QED
  BY <1>2, <1>4, <1>5, <1>6, <1>7, LocalStep DEF IngestInv, Types

\* The consumer goes back to its loop with what it has.
LEMMA BackOK ==
  ASSUME IngestInv, NEW c \in Consumers,
         stage[c] \in {"recv", "handle", "park"}, stage' = [stage EXCEPT ![c] = "poll"],
         cur' = cur \/ cur' = [cur EXCEPT ![c] = NoOne],
         UNCHANGED <<len, leaseVars, dbVars, childVars, lapses>>
  PROVE  IngestInv'
<1> USE DEF leaseVars, dbVars, childVars
<1>1. Types' /\ ChildShape(c)'
  BY DEF IngestInv, Types, ChildShape
<1>2. \A s \in Shards : Past(c, s)' = Past(c, s) /\ ~Commits(c, s)'
  BY DEF IngestInv, Types, Past, Commits
<1> QED
  BY <1>1, <1>2, LocalStep DEF IngestInv, Types

LEMMA CreateFailsOK ==
  ASSUME IngestInv, NEW c \in Consumers, CreateFails(c)
  PROVE  IngestInv'
<1> USE DEF CreateFails
<1>1. CASE stage' = [stage EXCEPT ![c] = "park"] /\ UNCHANGED <<cur, childVars>>
  <2> USE DEF leaseVars, dbVars, childVars
  <2>1. Types' /\ ChildShape(c)'
    BY <1>1 DEF IngestInv, Types, ChildShape
  <2>2. \A s \in Shards : Past(c, s)' = Past(c, s) /\ (Commits(c, s)' => Commits(c, s))
    BY <1>1 DEF IngestInv, Types, Past, Commits
  <2> QED
    BY <1>1, <2>1, <2>2, LocalStep DEF IngestInv, Types
<1>2. CASE Nack(c)
  BY <1>2, BackOK DEF Nack
<1> QED
  BY <1>1, <1>2

LEMMA AckOK ==
  ASSUME IngestInv, NEW c \in Consumers, Ack(c)
  PROVE  IngestInv'
<1> USE DEF Ack, leaseVars, dbVars
<1>1. cur[c] \in Shards /\ acked[c][cur[c]] # NoChild /\ reading[c][cur[c]] \in Positions
  BY DEF IngestInv, ChildShape
<1>2. /\ acked' \in [Consumers -> [Shards -> Positions \cup {NoChild}]]
      /\ \A s \in Shards : acked'[c][s] = IF s = cur[c] THEN reading[c][s] ELSE acked[c][s]
  BY <1>1 DEF IngestInv, Types
<1>3. Types'
  BY <1>2 DEF IngestInv, Types
<1>4. ChildShape(c)'
  <2>1. stage'[c] = "poll" /\ UNCHANGED reading
    BY DEF IngestInv, Types
  <2>2. ASSUME NEW s \in Shards, acked'[c][s] # NoChild
        PROVE  reading[c][s] \in Positions /\ acked'[c][s] <= reading[c][s]
    <3>1. CASE s = cur[c]
      <4>1. acked'[c][s] = reading[c][s] /\ reading[c][s] \in Positions
        BY <1>1, <1>2, <3>1
      <4>2. reading[c][s] \in Nat
        BY <4>1, Numbers
      <4> QED
        BY <4>1, <4>2
    <3>2. CASE s # cur[c]
      BY <1>2, <2>2, <3>2 DEF IngestInv, ChildShape
    <3> QED
      BY <3>1, <3>2
  <2> QED
    BY <2>1, <2>2 DEF ChildShape
<1>5. \A s \in Shards : Past(c, s)' = Past(c, s) /\ ~Commits(c, s)'
  BY <1>2 DEF IngestInv, Types, Past, Commits
<1>6. \A s \in Shards : acked'[c][s] # NoChild => acked[c][s] # NoChild
  BY <1>1, <1>2
<1> QED
  BY <1>3, <1>4, <1>5, <1>6, LocalStep DEF IngestInv, Types

LEMMA AppendOK ==
  ASSUME IngestInv, NEW s \in Shards, Append(s)
  PROVE  IngestInv'
<1> USE DEF Append, leaseVars, dbVars, childVars, handleVars
<1>1. len' \in [Shards -> Positions]
  BY DEF IngestInv, Types, Positions
<1>2. Types' /\ \A c \in Consumers : ChildShape(c)'
  BY <1>1 DEF IngestInv, Types, ChildShape
<1>3. ASSUME NEW t \in Shards, NEW u \in Units PROVE Accounted(t, u)' /\ TakenBound(t, u)'
  <2>1. Accounted(t, u) /\ TakenBound(t, u)
    BY <1>3 DEF IngestInv
  <2>2. Accounted(t, u)'
    BY <2>1 DEF Accounted, Past
  <2>3. /\ May(t, u)' = May(t, u) /\ Will(t, u)' = Will(t, u)
        /\ OpenFor(t, u)' = OpenFor(t, u) /\ Unspent(t)' = Unspent(t)
    BY DEF May, Will, Commits, Stale, Past, OpenFor, Unspent
  <2>4. TakenBound(t, u)'
    BY <2>1, <2>3 DEF TakenBound
  <2> QED
    BY <2>2, <2>4
<1> QED
  BY <1>2, <1>3 DEF IngestInv

LEMMA LapseOK ==
  ASSUME IngestInv, NEW s \in Shards, LeaseLapses(s)
  PROVE  IngestInv'
<1> USE DEF LeaseLapses, dbVars, childVars, handleVars
<1>1. Types'
  BY DEF IngestInv, Types
<1>2. \A c \in Consumers : ChildShape(c)'
  BY DEF IngestInv, ChildShape
<1>3. ASSUME NEW t \in Shards, NEW u \in Units PROVE Accounted(t, u)' /\ TakenBound(t, u)'
  <2>1. Accounted(t, u)'
    BY <1>3 DEF IngestInv, Accounted, Past
  <2>2. /\ May(t, u)' \subseteq May(t, u) /\ Will(t, u)' \subseteq Will(t, u)
        /\ OpenFor(t, u)' => OpenFor(t, u)
    BY <1>3 DEF May, Will, Commits, Stale, Past, OpenFor
  <2>3. lapses' \in Nat /\ lapses' - Unspent(t)' >= lapses - Unspent(t)
    BY <1>3 DEF IngestInv, Types, Unspent
  <2> QED
    BY <1>3, <2>1, <2>2, <2>3, QuietBound
<1> QED
  BY <1>1, <1>2, <1>3 DEF IngestInv

LEMMA CrashOK ==
  ASSUME IngestInv, NEW c \in Consumers, EngineDies(c)
  PROVE  IngestInv'
<1> USE DEF EngineDies, dbVars
<1>1. /\ owner' \in [Shards -> Consumers \cup {NoOne}]
      /\ \A s \in Shards : owner'[s] = IF owner[s] = c THEN NoOne ELSE owner[s]
  BY DEF IngestInv, Types
<1>2. /\ acked' \in [Consumers -> [Shards -> Positions \cup {NoChild}]]
      /\ reading' \in [Consumers -> [Shards -> Positions \cup {NoChild}]]
      /\ \A s \in Shards : acked'[c][s] = NoChild
  BY DEF IngestInv, Types
<1>3. \A d \in Consumers \ {c} : /\ acked'[d] = acked[d] /\ reading'[d] = reading[d]
                                  /\ stage'[d] = stage[d] /\ cur'[d] = cur[d]
  BY DEF IngestInv, Types
<1>4. Types'
  BY <1>1, <1>2 DEF IngestInv, Types
<1>5. ASSUME NEW d \in Consumers PROVE ChildShape(d)'
  <2>1. CASE d = c
    BY <1>2, <2>1 DEF IngestInv, Types, ChildShape
  <2>2. CASE d # c
    BY <1>3, <1>5, <2>2 DEF IngestInv, ChildShape
  <2> QED
    BY <2>1, <2>2
<1>6. ASSUME NEW s \in Shards, NEW u \in Units PROVE Accounted(s, u)' /\ TakenBound(s, u)'
  <2>1. ASSUME NEW d \in Consumers, d # c
        PROVE  /\ Stale(d, s)' <=> Stale(d, s)
               /\ Past(d, s)' = Past(d, s) /\ (Commits(d, s)' <=> Commits(d, s))
    BY <1>1, <1>3, <1>6, <2>1 DEF Stale, Past, Commits
  <2>2. ~Stale(c, s)'
    BY <1>2, <1>6 DEF Stale
  <2>3. Accounted(s, u)'
    BY <1>2, <1>3, <1>6, <2>1 DEF IngestInv, Accounted
  <2>4. May(s, u)' \subseteq May(s, u) /\ Will(s, u)' \subseteq Will(s, u)
    BY <2>1, <2>2 DEF May, Will
  <2>5. OpenFor(s, u)' => OpenFor(s, u)
    BY <1>1, <1>3, <1>6, <2>1 DEF OpenFor, IngestInv, Types
  <2>6. lapses' \in Nat /\ lapses' - Unspent(s)' >= lapses - Unspent(s)
    BY <1>1, <1>6 DEF IngestInv, Types, Unspent
  <2> QED
    BY <1>6, <2>3, <2>4, <2>5, <2>6, QuietBound
<1> QED
  BY <1>4, <1>5, <1>6 DEF IngestInv

-----------------------------------------------------------------------------
(* A shard is claimed *)

\* A set with one element more, or one less.
LEMMA OneMore ==
  ASSUME NEW S, NEW T, NEW x, IsFiniteSet(S), IsFiniteSet(T), T \subseteq S \cup {x}
  PROVE  Cardinality(T) <= Cardinality(S) + 1
<1> DEFINE R == S \cup {x}
<1>1. /\ IsFiniteSet(R) /\ Cardinality(R) = IF x \in S THEN Cardinality(S) ELSE Cardinality(S) + 1
      /\ Cardinality(S) \in Nat /\ T \subseteq R
  BY FS_AddElement, FS_CardinalityType
<1> HIDE DEF R
<1>2. Cardinality(T) <= Cardinality(R) /\ Cardinality(T) \in Nat
  BY <1>1, FS_Subset, FS_CardinalityType
<1> QED
  BY <1>1, <1>2

LEMMA OneLess ==
  ASSUME NEW S, NEW T, NEW x \in S, IsFiniteSet(S), T \subseteq S \ {x}
  PROVE  Cardinality(T) <= Cardinality(S) - 1
<1>1. IsFiniteSet(S \ {x}) /\ Cardinality(S \ {x}) = Cardinality(S) - 1
  BY FS_RemoveElement
<1> QED
  BY <1>1, FS_Subset

\* The claim of a shard: of one that nobody has, the consumer has what anyone
\* would, or what its own stale child has; of another's, a lapse pays for it.
LEMMA ClaimedBound ==
  ASSUME IngestInv, NEW c \in Consumers, NEW s \in Shards, NEW u \in Units,
         stage[c] \in {"poll", "sync"}, stage' = [stage EXCEPT ![c] = "sync"],
         owner[s] # c, ~leased[s], owner'[s] = c, leased'[s],
         UNCHANGED <<dbVars, childVars, cur, lapses>>
  PROVE  TakenBound(s, u)'
<1> USE DEF dbVars, childVars
<1>1. /\ \A d \in Consumers : Past(d, s)' = Past(d, s) /\ (Commits(d, s)' <=> Commits(d, s))
      /\ ~Commits(c, s)
  BY DEF Past, Commits, IngestInv, Types
<1>2. TakenBound(s, u) /\ taken[s][u] \in Nat /\ lapses \in Nat /\ UNCHANGED <<taken, lapses>>
  BY DEF IngestInv, Types
<1>3. Unspent(s)' = 0
  BY DEF Unspent
<1>4. CASE owner[s] = NoOne
  <2>1. Unspent(s) = 0
    BY <1>4 DEF Unspent
  <2>2. May(s, u)' \subseteq May(s, u) \ {c} /\ Will(s, u)' \subseteq Will(s, u)
    BY <1>1, <1>4 DEF May, Will, Stale
  <2>3. Cardinality(Will(s, u)') <= Cardinality(Will(s, u))
    BY <2>2, Counts, FS_Subset
  <2>4. OpenFor(s, u)' => OpenFor(s, u) \/ c \in May(s, u)
    BY <1>1 DEF OpenFor, May, Stale
  <2>5. CASE c \in May(s, u)
    <3>1. Cardinality(May(s, u)') <= Cardinality(May(s, u)) - 1
      BY <2>2, <2>5, Counts, OneLess
    <3> HIDE DEF May, Will, OpenFor, Unspent
    <3> QED
      BY <1>2, <1>3, <2>1, <2>3, <3>1, Counts DEF TakenBound
  <2>6. CASE c \notin May(s, u)
    <3>1. Cardinality(May(s, u)') <= Cardinality(May(s, u))
      BY <2>2, Counts, FS_Subset
    <3> HIDE DEF May, Will, OpenFor, Unspent
    <3> QED
      BY <1>2, <1>3, <2>1, <2>3, <2>4, <2>6, <3>1, Counts DEF TakenBound
  <2> QED
    BY <2>5, <2>6
<1>5. CASE owner[s] # NoOne
  <2> DEFINE o == owner[s]
  <2>1. Unspent(s) = 1 /\ o \in Consumers
    BY <1>5 DEF Unspent, IngestInv, Types
  <2>2. May(s, u)' \subseteq May(s, u) \cup {o} /\ Will(s, u)' \subseteq Will(s, u) \cup {o}
    BY <1>1 DEF May, Will, Stale
  <2>3. CASE o \in May(s, u)'
    <3>1. OpenFor(s, u)
      BY <1>1, <1>5, <2>3 DEF OpenFor, May, Stale
    <3>2. /\ Cardinality(May(s, u)') <= Cardinality(May(s, u)) + 1
          /\ Cardinality(Will(s, u)') <= Cardinality(Will(s, u)) + 1
      BY <2>2, Counts, OneMore
    <3> HIDE DEF May, Will, OpenFor, Unspent
    <3> QED
      BY <1>2, <1>3, <2>1, <3>1, <3>2, Counts DEF TakenBound
  <2>4. CASE o \notin May(s, u)'
    <3>1. May(s, u)' \subseteq May(s, u) /\ Will(s, u)' \subseteq Will(s, u)
      BY <2>2, <2>4 DEF Will
    <3>2. /\ Cardinality(May(s, u)') <= Cardinality(May(s, u))
          /\ Cardinality(Will(s, u)') <= Cardinality(Will(s, u))
      BY <3>1, Counts, FS_Subset
    <3> HIDE DEF May, Will, OpenFor, Unspent
    <3> QED
      BY <1>2, <1>3, <2>1, <3>2, Counts DEF TakenBound
  <2> QED
    BY <2>3, <2>4
<1> QED
  BY <1>4, <1>5

LEMMA ClaimOK ==
  ASSUME IngestInv, NEW c \in Consumers, Claim(c)
  PROVE  IngestInv'
<1> USE DEF dbVars, childVars
<1>1. PICK S \in SUBSET Claimable(c) :
        /\ stage[c] \in {"poll", "sync"} /\ stage' = [stage EXCEPT ![c] = "sync"]
        /\ owner' = [s \in Shards |-> IF s \in S THEN c ELSE owner[s]]
        /\ leased' = [s \in Shards |-> leased[s] \/ s \in S]
        /\ UNCHANGED <<len, dbVars, childVars, cur, lapses>>
  BY DEF Claim
<1>2. owner' \in [Shards -> Consumers \cup {NoOne}] /\ leased' \in [Shards -> BOOLEAN]
  BY <1>1 DEF IngestInv, Types
<1>3. Types'
  BY <1>1, <1>2 DEF IngestInv, Types
<1>4. \A d \in Consumers : ChildShape(d)'
  BY <1>1 DEF IngestInv, Types, ChildShape
<1>5. ASSUME NEW s \in Shards
      PROVE  \A d \in Consumers : Past(d, s)' = Past(d, s) /\ (Commits(d, s)' <=> Commits(d, s))
  BY <1>1 DEF Past, Commits, IngestInv, Types
<1>6. ASSUME NEW s \in Shards, NEW u \in Units PROVE Accounted(s, u)' /\ TakenBound(s, u)'
  <2>1. Accounted(s, u)'
    BY <1>1, <1>5, <1>6 DEF IngestInv, Accounted
  <2>2. CASE s \in S
    <3>1. owner[s] # c /\ ~leased[s] /\ owner'[s] = c /\ leased'[s]
      BY <1>1, <1>6, <2>2 DEF Claimable
    <3> QED
      BY <1>1, <1>6, <2>1, <3>1, ClaimedBound
  <2>3. CASE s \notin S
    <3>1. owner'[s] = owner[s] /\ (leased'[s] <=> leased[s])
      BY <1>1, <1>6, <2>3
    <3>2. May(s, u)' \subseteq May(s, u) /\ Will(s, u)' \subseteq Will(s, u)
      BY <1>1, <1>5, <3>1 DEF May, Will, Stale
    <3>3. OpenFor(s, u)' => OpenFor(s, u)
      BY <1>1, <1>5, <3>1 DEF OpenFor, IngestInv, Types
    <3>4. lapses' \in Nat /\ lapses' - Unspent(s)' >= lapses - Unspent(s)
      BY <1>1, <3>1 DEF IngestInv, Types, Unspent
    <3> QED
      BY <1>1, <1>6, <2>1, <3>2, <3>3, <3>4, QuietBound
  <2> QED
    BY <2>2, <2>3
<1> QED
  BY <1>3, <1>4, <1>6 DEF IngestInv

-----------------------------------------------------------------------------
(* A line is made durable *)

\* What Record does to the shard of the line, for its units before the line, of
\* the line and behind it.
LEMMA RecordedBound ==
  ASSUME IngestInv, NEW c \in Consumers, NEW s \in Shards, NEW u \in Units,
         stage[c] \in {"handle", "park"}, cur[c] = s, stage' = [stage EXCEPT ![c] = "ack"],
         offset'[s] = reading[c][s],
         taken'[s][u] = IF acked[c][s] < u /\ u <= reading[c][s] THEN taken[s][u] + 1 ELSE taken[s][u],
         UNCHANGED <<leaseVars, childVars, cur, lapses>>
  PROVE  Accounted(s, u)' /\ TakenBound(s, u)'
<1> USE DEF leaseVars, childVars
<1> DEFINE p == acked[c][s]
           q == reading[c][s]
<1>1. /\ p # NoChild /\ p \in Nat /\ q \in Nat /\ p <= q /\ u \in Nat
      /\ Past(c, s) = p /\ Past(c, s)' = q /\ Commits(c, s) /\ ~Commits(c, s)'
  <2>1. p # NoChild /\ p \in Positions /\ q \in Positions /\ p <= q
    BY DEF IngestInv, Types, ChildShape
  <2>2. Past(c, s) = p /\ Past(c, s)' = q /\ Commits(c, s) /\ ~Commits(c, s)'
    BY DEF IngestInv, Types, Past, Commits
  <2> QED
    BY <2>1, <2>2, Numbers
<1>2. ASSUME NEW d \in Consumers, d # c
      PROVE  Past(d, s)' = Past(d, s) /\ (Commits(d, s)' <=> Commits(d, s))
  BY <1>2 DEF IngestInv, Types, Past, Commits
<1>3. /\ TakenBound(s, u) /\ taken[s][u] \in Nat /\ lapses \in Nat /\ UNCHANGED lapses
      /\ Unspent(s)' = Unspent(s) /\ Unspent(s) \in {0, 1}
      /\ owner[s] \in Consumers \cup {NoOne}
  BY DEF IngestInv, Types, Unspent
<1>4. Accounted(s, u)'
  <2>1. u <= q => taken'[s][u] >= 1
    BY <1>1, <1>3 DEF IngestInv, Accounted
  <2>2. taken[s][u] >= 1 => taken'[s][u] >= 1
    BY <1>3
  <2>3. ASSUME NEW d \in Consumers, d # c, acked[d][s] # NoChild, u <= Past(d, s) PROVE taken[s][u] >= 1
    BY <2>3 DEF IngestInv, Accounted
  <2> QED
    BY <1>1, <1>2, <2>1, <2>2, <2>3 DEF Accounted
<1>5. \A d \in Consumers : d # c =>
        (d \in May(s, u)' <=> d \in May(s, u)) /\ (d \in Will(s, u)' <=> d \in Will(s, u))
  BY <1>2 DEF May, Will, Stale
<1>6. May(s, u)' \subseteq Consumers /\ Will(s, u)' \subseteq Consumers
  BY DEF May, Will
<1>7. c \notin Will(s, u)'
  BY <1>1 DEF Will
<1>8. TakenBound(s, u)'
  <2>1. CASE owner[s] = c
    <3>1. c \notin May(s, u)' /\ c \notin May(s, u)
      BY <2>1 DEF May, Stale
    <3>2. May(s, u)' \subseteq May(s, u) /\ Will(s, u)' \subseteq Will(s, u)
      BY <1>5, <1>6, <1>7, <3>1
    <3>3. /\ Cardinality(May(s, u)') <= Cardinality(May(s, u))
          /\ Cardinality(Will(s, u)') <= Cardinality(Will(s, u))
      BY <3>2, Counts, FS_Subset
    <3>4. (u > p => OpenFor(s, u)) /\ (u <= q => ~OpenFor(s, u)')
      BY <1>1, <2>1 DEF OpenFor
    <3> HIDE DEF May, Will, OpenFor, Unspent
    <3> QED
      BY <1>1, <1>3, <3>3, <3>4, Counts DEF TakenBound
  <2>2. CASE owner[s] # c
    <3>1. u <= q => (OpenFor(s, u)' => OpenFor(s, u))
      BY <1>1, <1>2, <1>3, <2>2 DEF OpenFor
    <3>2. CASE u <= p
      <4>1. c \notin May(s, u)'
        BY <1>1, <3>2 DEF May
      <4>2. May(s, u)' \subseteq May(s, u) /\ Will(s, u)' \subseteq Will(s, u)
        BY <1>5, <1>6, <1>7, <4>1
      <4>3. /\ Cardinality(May(s, u)') <= Cardinality(May(s, u))
            /\ Cardinality(Will(s, u)') <= Cardinality(Will(s, u))
        BY <4>2, Counts, FS_Subset
      <4> HIDE DEF May, Will, OpenFor, Unspent
      <4> QED
        BY <1>1, <1>3, <3>1, <3>2, <4>3, Counts DEF TakenBound
    <3>3. CASE u > p
      <4>1. c \in May(s, u) /\ c \in Will(s, u)
        BY <1>1, <2>2, <3>3 DEF May, Will, Stale
      <4>2. Will(s, u)' \subseteq Will(s, u) \ {c}
        BY <1>5, <1>6, <1>7
      <4>3. Cardinality(Will(s, u)') <= Cardinality(Will(s, u)) - 1
        BY <4>1, <4>2, Counts, OneLess
      <4>4. CASE u <= q
        <5>1. c \notin May(s, u)'
          BY <1>1, <4>4 DEF May
        <5>2. May(s, u)' \subseteq May(s, u) \ {c}
          BY <1>5, <1>6, <5>1
        <5>3. Cardinality(May(s, u)') <= Cardinality(May(s, u)) - 1
          BY <4>1, <5>2, Counts, OneLess
        <5> HIDE DEF May, Will, OpenFor, Unspent
        <5> QED
          BY <1>1, <1>3, <3>1, <3>3, <4>3, <4>4, <5>3, Counts DEF TakenBound
      <4>5. CASE u > q
        <5>1. May(s, u)' \subseteq May(s, u)
          BY <1>5, <1>6, <4>1
        <5>2. Cardinality(May(s, u)') <= Cardinality(May(s, u))
          BY <5>1, Counts, FS_Subset
        <5> HIDE DEF May, Will, OpenFor, Unspent
        <5> QED
          BY <1>1, <1>3, <4>3, <4>5, <5>2, Counts DEF TakenBound
      <4> QED
        BY <1>1, <4>4, <4>5
    <3> QED
      BY <1>1, <3>2, <3>3
  <2> QED
    BY <2>1, <2>2
<1> QED
  BY <1>4, <1>8

LEMMA RecordOK ==
  ASSUME IngestInv, NEW c \in Consumers, stage[c] \in {"handle", "park"}, Record(c),
         UNCHANGED <<len, leaseVars, childVars, cur, lapses>>
  PROVE  IngestInv'
<1> DEFINE s == cur[c]
<1> USE DEF leaseVars, childVars
<1>1. s \in Shards /\ acked[c][s] # NoChild /\ reading[c][s] \in Positions
  BY DEF IngestInv, ChildShape
<1>2. /\ offset' = [offset EXCEPT ![s] = reading[c][s]] /\ stage' = [stage EXCEPT ![c] = "ack"]
      /\ taken' = [taken EXCEPT ![s] =
           [u \in Units |-> IF acked[c][s] < u /\ u <= reading[c][s] THEN @[u] + 1 ELSE @[u]]]
  BY DEF Record, Payload
<1> HIDE DEF s
<1>3. taken' \in [Shards -> [Units -> Nat]]
  BY <1>1, <1>2 DEF IngestInv, Types
<1>4. offset' \in [Shards -> Positions]
  BY <1>1, <1>2 DEF IngestInv, Types
<1>5. Types'
  BY <1>2, <1>3, <1>4 DEF IngestInv, Types
<1>6. \A d \in Consumers : ChildShape(d)'
  BY <1>2 DEF IngestInv, Types, ChildShape
<1>7. ASSUME NEW t \in Shards, NEW u \in Units PROVE Accounted(t, u)' /\ TakenBound(t, u)'
  <2>1. CASE t = s
    <3>1. /\ offset'[t] = reading[c][t]
          /\ taken'[t][u] = IF acked[c][t] < u /\ u <= reading[c][t] THEN taken[t][u] + 1 ELSE taken[t][u]
      BY <1>2, <1>7, <2>1 DEF IngestInv, Types
    <3> QED
      BY <1>2, <1>7, <2>1, <3>1, RecordedBound DEF s
  <2>2. CASE t # s
    <3>1. offset'[t] = offset[t] /\ taken'[t] = taken[t]
      BY <1>2, <1>7, <2>2 DEF IngestInv, Types
    <3>2. \A d \in Consumers : Past(d, t)' = Past(d, t) /\ (Commits(d, t)' => Commits(d, t))
      BY <1>2, <2>2 DEF IngestInv, Types, Past, Commits, s
    <3>3. Accounted(t, u)'
      BY <1>7, <3>1, <3>2 DEF IngestInv, Accounted
    <3>4. May(t, u)' \subseteq May(t, u) /\ Will(t, u)' \subseteq Will(t, u)
      BY <3>2 DEF May, Will, Stale
    <3>5. OpenFor(t, u)' => OpenFor(t, u)
      BY <1>7, <3>1, <3>2 DEF OpenFor, IngestInv, Types
    <3>6. lapses' \in Nat /\ lapses' - Unspent(t)' >= lapses - Unspent(t)
      BY <1>7 DEF IngestInv, Types, Unspent
    <3> QED
      BY <1>7, <3>1, <3>3, <3>4, <3>5, <3>6, QuietBound
  <2> QED
    BY <2>1, <2>2
<1> QED
  BY <1>5, <1>6, <1>7 DEF IngestInv

-----------------------------------------------------------------------------
(* The specification *)

LEMMA IngestStarts ==
  ASSUME IngestInit
  PROVE  IngestInv
<1> USE Numbers DEF IngestInit
<1>1. /\ len \in [Shards -> Positions] /\ offset \in [Shards -> Positions]
      /\ taken \in [Shards -> [Units -> Nat]]
  OBVIOUS
<1>2. /\ acked \in [Consumers -> [Shards -> Positions \cup {NoChild}]]
      /\ reading \in [Consumers -> [Shards -> Positions \cup {NoChild}]]
  OBVIOUS
<1>3. /\ owner \in [Shards -> Consumers \cup {NoOne}] /\ leased \in [Shards -> BOOLEAN]
      /\ stage \in [Consumers -> {"poll", "sync", "recv", "handle", "park", "ack"}]
      /\ cur \in [Consumers -> Shards \cup {NoOne}] /\ lapses \in Nat
  OBVIOUS
<1>4. Types /\ \A c \in Consumers : ChildShape(c)
  BY <1>1, <1>2, <1>3 DEF Types, ChildShape
<1>5. ASSUME NEW s \in Shards, NEW u \in Units PROVE Accounted(s, u) /\ TakenBound(s, u)
  <2>1. Accounted(s, u)
    BY <1>5 DEF Accounted
  <2>2. May(s, u) = {} /\ Will(s, u) = {} /\ Unspent(s) = 0 /\ taken[s][u] = 0
    BY <1>5 DEF May, Will, Stale, Unspent
  <2>3. Cardinality({}) = 0
    BY FS_EmptySet
  <2> HIDE DEF May, Will, Unspent, OpenFor
  <2>4. Cardinality(May(s, u)) = 0 /\ Cardinality(Will(s, u)) = 0
    BY <2>2, <2>3
  <2> QED
    BY <2>1, <2>2, <2>4 DEF TakenBound
<1> QED
  BY <1>4, <1>5 DEF IngestInv

LEMMA IngestSteps ==
  ASSUME IngestInv, [IngestNext]_ingestVars
  PROVE  IngestInv'
<1>1. ASSUME NEW c \in Consumers, Step(c) PROVE IngestInv'
  <2>1. CASE Dry(c) \/ Refused(c)
    BY <2>1, BackOK DEF Dry, Refused, Nack
  <2>2. CASE Handle(c)
    BY <2>2, RecordOK DEF Handle, CreateRunWithOffset, DeadLetter
  <2> QED
    BY <1>1, <2>1, <2>2, RenewOK, ClaimOK, ReconcileOK, RecvOK, AckOK DEF Step
<1>2. ASSUME NEW c \in Consumers, DeadLetterFails(c) PROVE IngestInv'
  BY <1>2, BackOK DEF DeadLetterFails, Nack
<1>3. CASE UNCHANGED ingestVars
  <2> USE <1>3 DEF ingestVars, leaseVars, dbVars, childVars, handleVars
  <2>1. Types' /\ \A c \in Consumers : ChildShape(c)'
    BY DEF IngestInv, Types, ChildShape
  <2>2. ASSUME NEW s \in Shards, NEW u \in Units PROVE Accounted(s, u)' /\ TakenBound(s, u)'
    <3>1. Accounted(s, u) /\ TakenBound(s, u)
      BY <2>2 DEF IngestInv
    <3>2. Accounted(s, u)'
      BY <3>1 DEF Accounted, Past
    <3>3. /\ May(s, u)' = May(s, u) /\ Will(s, u)' = Will(s, u)
          /\ OpenFor(s, u)' = OpenFor(s, u) /\ Unspent(s)' = Unspent(s)
      BY DEF May, Will, Commits, Stale, Past, OpenFor, Unspent
    <3>4. TakenBound(s, u)'
      BY <3>1, <3>3 DEF TakenBound
    <3> QED
      BY <3>2, <3>4
  <2> QED
    BY <2>1, <2>2 DEF IngestInv
<1> QED
  BY <1>1, <1>2, <1>3, AppendOK, LapseOK, CrashOK, CreateFailsOK DEF IngestNext

\* The inductive invariant: what lies before a cursor is accounted for, and a
\* unit's takings, with those that may yet come, are paid for by lapses.
THEOREM IngestInvariance == IngestSpec => []IngestInv
<1>1. IngestInit => IngestInv
  BY IngestStarts
<1>2. IngestInv /\ [IngestNext]_ingestVars => IngestInv'
  BY IngestSteps
<1> QED
  BY <1>1, <1>2, PTL DEF IngestSpec

\* All of a shard before its cursor is in a run or a dead letter, and it is so
\* once, unless a lease lapses under a consumer that is alive: each lapse may
\* have it taken twice more, and crashes, failed writes and refusals never.  It
\* is about the bytes: a line may still be taken in two pieces.
THEOREM BytesAreTakenOnce == IngestSpec => []BytesTakenOnce
<1>1. IngestInv => BytesTakenOnce
  <2> SUFFICES ASSUME IngestInv PROVE BytesTakenOnce
    OBVIOUS
  <2>1. ASSUME NEW s \in Shards, NEW u \in 1 .. offset[s] PROVE taken[s][u] >= 1
    <3>1. u \in Units /\ u <= offset[s]
      BY <2>1 DEF IngestInv, Types, Positions, Units
    <3> QED
      BY <2>1, <3>1 DEF IngestInv, Accounted
  <2>2. ASSUME NEW s \in Shards, NEW u \in Units PROVE taken[s][u] <= 1 + 2 * lapses
    <3>1. /\ TakenBound(s, u) /\ taken[s][u] \in Nat /\ lapses \in Nat /\ Unspent(s) \in {0, 1}
      BY <2>2 DEF IngestInv, Types, Unspent
    <3> HIDE DEF May, Will, OpenFor, Unspent
    <3> QED
      BY <3>1, Counts DEF TakenBound
  <2> QED
    BY <2>1, <2>2 DEF BytesTakenOnce, NoneSkipped, OnceUnlessLapsed
<1> QED
  BY <1>1, IngestInvariance, PTL
=============================================================================
