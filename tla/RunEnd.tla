------------------------------- MODULE RunEnd -------------------------------
(***************************************************************************)
(* A run's end-of-run work: from the rows the outbox hands a sink, each    *)
(* replica's worker claims what is due under a lease, and tells the        *)
(* outside (a forge, a webhook, a lineage backend) of each end that is     *)
(* still its run's.  The part that tells may fail, the worker may crash    *)
(* between telling and recording it, and a lease may lapse under a worker  *)
(* that stalls.                                                            *)
(*                                                                         *)
(* That every end is handed to the sink is Outbox's.  Leases and backoffs  *)
(* are the one bit, whether next_attempt_at has come.                      *)
(***************************************************************************)
EXTENDS Integers, FiniteSets

CONSTANTS
  Ends,         \* the ends of one run, numbered in the order it may have them
  EndAs,        \* the status each names in its payload
  Workers,      \* the sink's worker in each replica
  MaxAttempts,  \* MAX_ATTEMPTS
  MaxFaults     \* bound on crashes and stalls

ASSUME RunEndAssumption ==
  /\ IsFiniteSet(Ends) /\ Ends \subseteq Nat
  /\ IsFiniteSet(Workers)
  /\ EndAs \in [Ends -> {"succeeded", "failed", "cancelled"}]
  /\ MaxAttempts \in Nat \ {0} /\ MaxFaults \in Nat

VARIABLES
  runStatus,     \* workflow_runs.status, "gone" once it is collected
  written,       \* event_outbox has the end
  stale,         \* it is older than STALE_SECS
  row,           \* outbox_deliveries.status, "none" where there is no row
  due,           \* next_attempt_at <= now
  attempts,
  hold,          \* what a worker is at with each end it has claimed
  seenAttempts,  \* attempts, as its claim read it
  told,          \* the ends whose part has answered that it is done
  victims,       \* what shed_outbox has picked to shed
  faults

runVars == <<runStatus, written, stale>>
rowVars == <<row, due, attempts>>
workVars == <<hold, seenAttempts>>
vars == <<runVars, rowVars, workVars, told, victims, faults>>

Settled == {"delivered", "dead", "shed"}
Stages == {"none", "claimed", "owed", "done", "failed"}

\* The rows and the workers' variables hold values of their types.
TypeOK ==
  /\ runStatus \in {"running", "succeeded", "failed", "cancelled", "gone"}
  /\ written \subseteq Ends /\ stale \subseteq Ends
  /\ row \in [Ends -> {"none", "pending"} \cup Settled]
  /\ due \in [Ends -> BOOLEAN] /\ attempts \in [Ends -> Nat]
  /\ hold \in [Workers -> [Ends -> Stages]]
  /\ seenAttempts \in [Workers -> [Ends -> Nat]]
  /\ told \subseteq Ends /\ victims \subseteq Ends
  /\ faults \in 0 .. MaxFaults

Init ==
  /\ runStatus = "running" /\ written = {} /\ stale = {}
  /\ row = [e \in Ends |-> "none"]
  /\ due = [e \in Ends |-> FALSE] /\ attempts = [e \in Ends |-> 0]
  /\ hold = [w \in Workers |-> [e \in Ends |-> "none"]]
  /\ seenAttempts = [w \in Workers |-> [e \in Ends |-> 0]]
  /\ told = {} /\ victims = {} /\ faults = 0

-----------------------------------------------------------------------------
(* The run *)

\* The run ends, and its event is written with it (insert_run_completed).
EndRun(e) ==
  /\ runStatus = "running" /\ e \notin written
  /\ \A f \in Ends : f < e => f \in written
  /\ runStatus' = EndAs[e]
  /\ written' = written \cup {e}
  /\ UNCHANGED <<stale, rowVars, workVars, told, victims, faults>>

\* It is set running again (RunAgain), or collected.
RunAgain ==
  /\ runStatus \in {EndAs[e] : e \in Ends}
  /\ runStatus' \in {"running", "gone"}
  /\ UNCHANGED <<written, stale, rowVars, workVars, told, victims, faults>>

\* A day goes by.
GrowsStale(e) ==
  /\ e \in written \ stale
  /\ stale' = stale \cup {e}
  /\ UNCHANGED <<runStatus, written, rowVars, workVars, told, victims, faults>>

-----------------------------------------------------------------------------
(* Claim and delivery *)

\* outbox_enroll hands the sink the end, due at once (Outbox).
Enroll(e) ==
  /\ e \in written /\ row[e] = "none"
  /\ row' = [row EXCEPT ![e] = "pending"] /\ due' = [due EXCEPT ![e] = TRUE]
  /\ UNCHANGED <<runVars, attempts, workVars, told, victims, faults>>

Claimable == {e \in Ends : row[e] = "pending" /\ due[e]}

Claim(w, deferred) ==
  /\ \A e \in Ends : hold[w][e] = "none"
  /\ Claimable # {}
  /\ hold' = [hold EXCEPT ![w] = [e \in Ends |-> IF e \in Claimable THEN "claimed" ELSE "none"]]
  /\ seenAttempts' =
       [seenAttempts EXCEPT ![w] = [e \in Ends |-> IF e \in Claimable THEN attempts[e] ELSE 0]]
  /\ due' = [e \in Ends |-> due[e] /\ e \notin deferred]
  /\ UNCHANGED <<runVars, row, attempts, told, victims, faults>>

\* claim_deliveries, once the last batch is through: all that is due (BATCH is
\* larger than Ends), each deferred by the lease.
ClaimDeliveries(w) == Claim(w, Claimable)

Owed_bug(e) == e \notin stale /\ runStatus = "succeeded"

\* owed: the run is in the status it ended in, and the end is not too old.
Owed(e) == e \notin stale /\ runStatus = EndAs[e]

\* The worker is done with its claim of e.
LetGo(w, e) ==
  /\ hold' = [hold EXCEPT ![w][e] = "none"]
  /\ seenAttempts' = [seenAttempts EXCEPT ![w][e] = 0]

\* mark_outbox_delivered.
MarkDelivered(e) == row' = [row EXCEPT ![e] = IF @ = "pending" THEN "delivered" ELSE @]

\* deliver reads the run and, of an end that is not owed, is done with it.
CheckOwed(w, e) ==
  /\ hold[w][e] = "claimed"
  /\ IF Owed(e)
     THEN hold' = [hold EXCEPT ![w][e] = "owed"] /\ UNCHANGED <<seenAttempts, row>>
     ELSE LetGo(w, e) /\ MarkDelivered(e)
  /\ UNCHANGED <<runVars, due, attempts, told, victims, faults>>

\* Reading the run failed: as a failed try.
ReadFails(w, e) ==
  /\ hold[w][e] = "claimed"
  /\ hold' = [hold EXCEPT ![w][e] = "failed"]
  /\ UNCHANGED <<runVars, rowVars, seenAttempts, told, victims, faults>>

\* The part runs, to an answer, an error or the timeout.
RunPart(w, e) ==
  /\ hold[w][e] = "owed"
  /\ \/ hold' = [hold EXCEPT ![w][e] = "done"] /\ told' = told \cup {e}
     \/ hold' = [hold EXCEPT ![w][e] = "failed"] /\ UNCHANGED told
  /\ UNCHANGED <<runVars, rowVars, seenAttempts, victims, faults>>

RecordDelivered(w, e) ==
  /\ hold[w][e] = "done"
  /\ LetGo(w, e) /\ MarkDelivered(e)
  /\ UNCHANGED <<runVars, due, attempts, told, victims, faults>>

FailTries(w, e, settles, last, tries) ==
  /\ hold[w][e] = "failed"
  /\ LetGo(w, e)
  /\ attempts' = [attempts EXCEPT ![e] = IF row[e] = "pending" THEN tries ELSE @]
  /\ row' = [row EXCEPT ![e] = IF settles /\ last THEN "dead" ELSE @]
  /\ due' = [due EXCEPT ![e] = @ /\ (last \/ row[e] # "pending")]
  /\ UNCHANGED <<runVars, told, victims, faults>>

FailEarly_bug(w, e) ==
  FailTries(w, e, row[e] = "pending", seenAttempts[w][e] + 2 >= MaxAttempts, attempts[e] + 1)
FailUncounted_bug(w, e) ==
  FailTries(w, e, row[e] = "pending", seenAttempts[w][e] + 1 >= MaxAttempts, attempts[e])

\* fail: mark_outbox_dead at the last try, else mark_outbox_failed, which puts
\* the row off by a backoff; both only while the row is pending.
Fail(w, e) ==
  FailTries(w, e, row[e] = "pending", seenAttempts[w][e] + 1 >= MaxAttempts, attempts[e] + 1)

\* next_attempt_at comes: of a backoff, of a lease whose worker crashed, or of
\* one whose worker stalls past its timeout (PART_TIMEOUT < LEASE_SECS).
ComesDue(e) ==
  LET held == \E w \in Workers : hold[w][e] # "none"
  IN  /\ row[e] = "pending" /\ ~due[e]
      /\ held => faults < MaxFaults
      /\ faults' = IF held THEN faults + 1 ELSE faults
      /\ due' = [due EXCEPT ![e] = TRUE]
      /\ UNCHANGED <<runVars, row, attempts, workVars, told, victims>>

\* The process dies, and another takes its place.
Crash(w) ==
  /\ \E e \in Ends : hold[w][e] # "none"
  /\ faults < MaxFaults /\ faults' = faults + 1
  /\ hold' = [hold EXCEPT ![w] = [e \in Ends |-> "none"]]
  /\ seenAttempts' = [seenAttempts EXCEPT ![w] = [e \in Ends |-> 0]]
  /\ UNCHANGED <<runVars, rowVars, told, victims>>

-----------------------------------------------------------------------------
(* Shedding *)

\* shed_outbox over its byte budget: the rows that are due are read, and each
\* then shed if it is pending still, due or not.
ShedRead ==
  /\ victims = {} /\ Claimable # {}
  /\ victims' \in SUBSET Claimable \ {{}}
  /\ UNCHANGED <<runVars, rowVars, workVars, told, faults>>

ShedApply(e) ==
  /\ e \in victims
  /\ victims' = victims \ {e}
  /\ row' = [row EXCEPT ![e] = IF @ = "pending" THEN "shed" ELSE @]
  /\ UNCHANGED <<runVars, due, attempts, workVars, told, faults>>

-----------------------------------------------------------------------------
Deliver(w, e) ==
  CheckOwed(w, e) \/ ReadFails(w, e) \/ RunPart(w, e) \/ RecordDelivered(w, e) \/ Fail(w, e)

Drain(w) == ClaimDeliveries(w) \/ \E e \in Ends : Deliver(w, e)

Next ==
  \/ RunAgain \/ ShedRead
  \/ \E e \in Ends : \/ EndRun(e) \/ GrowsStale(e) \/ Enroll(e) \/ ComesDue(e)
                     \/ ShedApply(e)
  \/ \E w \in Workers : Drain(w) \/ Crash(w)

Spec == Init /\ [][Next]_vars

\* A worker goes on with its loop, and backoffs and leases run out; that an end
\* is handed is Outbox's EveryEventIsHanded.  No run has to end, and nothing
\* has to be shed.
Fairness ==
  /\ \A w \in Workers : WF_vars(Drain(w))
  /\ \A e \in Ends : WF_vars(Enroll(e)) /\ WF_vars(ComesDue(e))

FairSpec == Spec /\ Fairness

-----------------------------------------------------------------------------
(* Properties *)

\* An end that is still its run's is told before its row is done with: what is
\* let go untold is an end the run has had another since, or one too old.
CurrentEndIsTold ==
  \A e \in written :
    /\ row[e] = "delivered" /\ (\A f \in written : f <= e)
    /\ runStatus = EndAs[e] /\ e \notin stale
    => e \in told

\* A part is given up only when it has failed as often as MAX_ATTEMPTS says,
\* though workers that overlap each go by the count their own claim read.
GivenUpAfterEveryTry == \A e \in Ends : row[e] = "dead" => attempts[e] >= MaxAttempts

\* Delivery is at least once: the end of a run is done, given up or shed for
\* good, not left between a lease and a retry, through crashes and stalls, and
\* no worker or shed that finds out late brings it back.
EveryEndIsSettled == \A e \in Ends : e \in written ~> [](row[e] \in Settled)
=============================================================================
