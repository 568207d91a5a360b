----------------------------- MODULE CiEvents ------------------------------
(***************************************************************************)
(* The webhook queue of dagron-ci, down to the runs it makes.  A delivery  *)
(* is an event; workers in every replica claim the events that are due     *)
(* under a lease, submit a run to dagron-api under a key of the commit,    *)
(* record it and settle the event.  A worker may crash or stall between    *)
(* any two of these, and the event is then another's as well.              *)
(*                                                                         *)
(* The events are of one commit, a merge queue's group at one head: the    *)
(* ones that ask for its checks, all under one key (KeyedSubmit), and the  *)
(* one by which the queue lets go of it.  They are trusted, of a           *)
(* repository that is bound to a workflow; no admission limits the build.  *)
(* No run ends by itself.                                                  *)
(***************************************************************************)
EXTENDS KeyedSubmit

CONSTANTS
  Asks,         \* the events of kind merge_group
  LetGo,        \* the event of kind merge_group_destroyed
  Workers,
  None,         \* NULL, or the name of a worker that has died
  MaxAttempts,  \* settings.max_attempts
  MaxWaits,     \* bound on the times dagron-api has no room
  MaxFaults     \* bound on crashes, lapses, timeouts and failed calls

ASSUME CiAssumption ==
  /\ IsFiniteSet(Asks) /\ LetGo \notin Asks
  /\ IsFiniteSet(Workers) /\ None \notin Workers
  /\ MaxAttempts \in Nat \ {0} /\ MaxWaits \in Nat /\ MaxFaults \in Nat
  \* Every claim that is not given back makes a request at most.
  /\ MaxRequests \in Nat /\ MaxRequests >= Cardinality(Asks) * MaxAttempts + MaxWaits

Events == Asks \cup {LetGo}

VARIABLES
  connected,                        \* ci_repos: disconnected_at IS NULL
  arrived,                          \* ci_events: received_at, 0 where there is no row
  state, claimedBy, attempts,
  lapsed, later,                    \* claim_expires_at < now, next_attempt_at > now
  recorded,                         \* ci_runs: the run of the key
  stopped,                          \* the runs dagron-api was asked to cancel
  pc, on, tries,                    \* a worker: where it is, its event, the attempts it read
  asked,                            \* the request it waits for
  todo,                             \* the events it is to withdraw, or the runs to cancel
  finish,                           \* how it is to leave the event
  waits, faults

claimVars == <<claimedBy, lapsed, later, attempts>>
rowVars == <<arrived, state, claimVars>>
workVars == <<pc, on, tries, asked, todo, finish>>
ciVars == <<connected, rowVars, recorded, stopped, workVars, waits, faults>>
vars == <<apiVars, ciVars>>

Settled == {"done", "skipped", "failed"}

\* The rows, the requests and the workers' variables hold values of their types.
TypeOK ==
  /\ ApiTypeOK
  /\ connected \in BOOLEAN
  /\ state \in [Events -> {"none", "new", "claimed"} \cup Settled]
  /\ arrived \in [Events -> 0 .. Cardinality(Events)]
  /\ claimedBy \in [Events -> Workers \cup {None}]
  /\ lapsed \in [Events -> BOOLEAN] /\ later \in [Events -> BOOLEAN]
  /\ attempts \in [Events -> Nat]
  /\ recorded \in Requests \cup {Nil} /\ stopped \subseteq Requests
  /\ pc \in [Workers -> {"idle", "repo", "find", "submit", "answer", "record",
                         "group", "withdraw", "cancel", "finish"}]
  /\ on \in [Workers -> Events \cup {None}] /\ tries \in [Workers -> Nat]
  /\ asked \in [Workers -> Requests \cup {Nil}]
  /\ todo \in [Workers -> SUBSET (Events \cup Requests)]
  /\ finish \in [Workers -> Settled \cup {"retry", "wait"}]
  /\ waits \in 0 .. MaxWaits /\ faults \in 0 .. MaxFaults

Init ==
  /\ ApiInit
  /\ connected = TRUE
  /\ state = [e \in Events |-> "none"] /\ claimedBy = [e \in Events |-> None]
  /\ arrived = [e \in Events |-> 0] /\ attempts = [e \in Events |-> 0]
  /\ lapsed = [e \in Events |-> FALSE] /\ later = [e \in Events |-> FALSE]
  /\ recorded = Nil /\ stopped = {}
  /\ pc = [w \in Workers |-> "idle"] /\ on = [w \in Workers |-> None]
  /\ tries = [w \in Workers |-> 0] /\ asked = [w \in Workers |-> Nil]
  /\ todo = [w \in Workers |-> {}] /\ finish = [w \in Workers |-> "skipped"]
  /\ waits = 0 /\ faults = 0

Fault == faults < MaxFaults /\ faults' = faults + 1

\* The worker goes on in the handler, or leaves it with an outcome.
To(w, step) == pc' = [pc EXCEPT ![w] = step]
Leaves(w, how) == To(w, "finish") /\ finish' = [finish EXCEPT ![w] = how]

-----------------------------------------------------------------------------
(* The receiver and the repository *)

\* record_delivered: a delivery that was seen before writes nothing.  A queue
\* lets go of what has asked.
RecordDelivery(e) ==
  /\ connected /\ state[e] = "none"
  /\ e = LetGo => \E a \in Asks : state[a] # "none"
  /\ state' = [state EXCEPT ![e] = "new"]
  /\ arrived' = [arrived EXCEPT ![e] = 1 + Cardinality({f \in Events : arrived[f] # 0})]
  /\ UNCHANGED <<apiVars, connected, claimVars, recorded, stopped, workVars,
                 waits, faults>>

\* disconnect_repo.
DisconnectRepo ==
  /\ connected /\ connected' = FALSE
  /\ state' = [e \in Events |-> IF state[e] = "new" THEN "skipped" ELSE state[e]]
  /\ UNCHANGED <<apiVars, arrived, claimVars, recorded, stopped, workVars, waits, faults>>

\* A lease runs out: of a worker that has died, or of one that stalls.
Lapse(e) ==
  /\ state[e] = "claimed" /\ ~lapsed[e]
  /\ claimedBy[e] # None => faults < MaxFaults
  /\ faults' = IF claimedBy[e] = None THEN faults ELSE faults + 1
  /\ lapsed' = [lapsed EXCEPT ![e] = TRUE]
  /\ UNCHANGED <<apiVars, connected, arrived, state, claimedBy, later, attempts, recorded, stopped,
                 workVars, waits>>

\* A backoff or a wait is over.
ComesDue(e) ==
  /\ state[e] = "new" /\ later[e]
  /\ later' = [later EXCEPT ![e] = FALSE]
  /\ UNCHANGED <<apiVars, connected, arrived, state, claimedBy, lapsed, attempts, recorded, stopped,
                 workVars, waits, faults>>

-----------------------------------------------------------------------------
(* The worker's loop *)

Due_bug(e) == state[e] = "new" /\ ~later[e]

\* What CLAIM may take.
Due(e) == (state[e] = "new" /\ ~later[e]) \/ (state[e] = "claimed" /\ lapsed[e])

\* The UPDATE of claim_event: the oldest of them.
ClaimEvent(w, e) ==
  /\ pc[w] = "idle" /\ Due(e) /\ \A f \in Events : Due(f) => arrived[e] <= arrived[f]
  /\ state' = [state EXCEPT ![e] = "claimed"] /\ claimedBy' = [claimedBy EXCEPT ![e] = w]
  /\ lapsed' = [lapsed EXCEPT ![e] = FALSE]
  /\ attempts' = [attempts EXCEPT ![e] = @ + 1]
  /\ on' = [on EXCEPT ![w] = e] /\ tries' = [tries EXCEPT ![w] = attempts[e] + 1]
  /\ To(w, "repo")
  /\ UNCHANGED <<apiVars, connected, arrived, later, recorded, stopped, asked, todo, finish, waits,
                 faults>>

\* The repository of what was claimed, and what work hands the handler.
ReadRepo(w) ==
  /\ pc[w] = "repo"
  /\ \/ ~connected /\ Leaves(w, "skipped")
     \/ connected /\ tries[w] > MaxAttempts /\ Leaves(w, "failed")
     \/ /\ connected /\ tries[w] <= MaxAttempts
        /\ To(w, IF on[w] = LetGo THEN "group" ELSE "find")
        /\ UNCHANGED finish
  /\ UNCHANGED <<apiVars, connected, rowVars, recorded, stopped, on, tries, asked, todo, waits, faults>>

Holds_bug(w) == on[w] \in Events

\* The fence of FINISH and RETRY.
Holds(w) == state[on[w]] = "claimed" /\ claimedBy[on[w]] = w

\* work turns the last retry into a failure; finish_event writes it.
FinishEvent(w) ==
  LET e == on[w]
      how == IF finish[w] = "retry" /\ tries[w] >= MaxAttempts THEN "failed" ELSE finish[w]
  IN  /\ pc[w] = "finish"
      /\ IF Holds(w)
         THEN /\ state' = [state EXCEPT ![e] = IF how \in Settled THEN how ELSE "new"]
              /\ claimedBy' = [claimedBy EXCEPT ![e] = None]
              /\ lapsed' = [lapsed EXCEPT ![e] = FALSE]
              /\ later' = [later EXCEPT ![e] = how \notin Settled]
              /\ attempts' = [attempts EXCEPT ![e] = IF how = "wait" THEN @ - 1 ELSE @]
         ELSE UNCHANGED <<state, claimVars>>
      /\ To(w, "idle") /\ on' = [on EXCEPT ![w] = None] /\ tries' = [tries EXCEPT ![w] = 0]
      /\ asked' = [asked EXCEPT ![w] = Nil] /\ todo' = [todo EXCEPT ![w] = {}]
      /\ finish' = [finish EXCEPT ![w] = "skipped"]
      /\ UNCHANGED <<apiVars, connected, arrived, recorded, stopped, waits, faults>>

\* The process dies and another takes its place under a new name, or
\* finish_event fails and leaves the event as it is.
Crash(w) ==
  /\ pc[w] # "idle" /\ Fault
  /\ claimedBy' = [e \in Events |-> IF claimedBy[e] = w THEN None ELSE claimedBy[e]]
  /\ To(w, "idle") /\ on' = [on EXCEPT ![w] = None] /\ tries' = [tries EXCEPT ![w] = 0]
  /\ asked' = [asked EXCEPT ![w] = Nil] /\ todo' = [todo EXCEPT ![w] = {}]
  /\ finish' = [finish EXCEPT ![w] = "skipped"]
  /\ UNCHANGED <<apiVars, connected, arrived, state, lapsed, later, attempts, recorded, stopped,
                 waits>>

-----------------------------------------------------------------------------
(* run_workflow *)

\* find_run.
FindRun(w) ==
  /\ pc[w] = "find"
  /\ \/ recorded # Nil /\ Leaves(w, "done")
     \/ recorded = Nil /\ To(w, "submit") /\ UNCHANGED finish
  /\ UNCHANGED <<apiVars, connected, rowVars, recorded, stopped, on, tries, asked, todo, waits, faults>>

\* submit_as sends its request.
Submit(w) ==
  /\ pc[w] = "submit"
  /\ \E r \in Requests :
       /\ req[r] = "unsent" /\ \A q \in Requests : req[q] = "unsent" => r <= q
       /\ Goes(r, "claim") /\ asked' = [asked EXCEPT ![w] = r]
  /\ To(w, "answer")
  /\ UNCHANGED <<keyVars, answer, gives, runs, connected, rowVars, recorded, stopped, on, tries, todo,
                 finish, waits, faults>>

\* It reads what dagron-api answers: a run, or how to leave the event.
ReadAnswer(w) ==
  LET r == asked[w]
      says == IF req[r] = "dead" THEN "retry" ELSE answer[r]
  IN  /\ pc[w] = "answer" /\ req[r] \in {"answered", "dead"}
      /\ \/ says = "run" /\ To(w, "record") /\ UNCHANGED finish
         \/ says = "refused" /\ Leaves(w, "failed")
         \/ says = "waiting" /\ Leaves(w, "wait")
         \/ says = "retry" /\ Leaves(w, "retry")
      /\ UNCHANGED <<apiVars, connected, rowVars, recorded, stopped, on, tries, asked, todo, waits,
                     faults>>

\* record_run: ON CONFLICT DO NOTHING.
RecordRun(w) ==
  /\ pc[w] = "record"
  /\ recorded' = IF recorded = Nil THEN gives[asked[w]] ELSE recorded
  /\ Leaves(w, "done")
  /\ UNCHANGED <<apiVars, connected, rowVars, stopped, on, tries, asked, todo, waits, faults>>

\* A call of the handler fails, to be tried again: of the database or of
\* dagron-api, whose answer does not come within REQUEST_TIMEOUT and which
\* goes on with the request.
CallFails(w) ==
  /\ pc[w] \in {"find", "answer", "record", "group", "withdraw", "cancel"} /\ Fault
  /\ Leaves(w, "retry")
  /\ UNCHANGED <<apiVars, connected, rowVars, recorded, stopped, on, tries, asked, todo, waits>>

-----------------------------------------------------------------------------
(* drop_group *)

\* group_events.
GroupEvents(w) ==
  /\ pc[w] = "group"
  /\ IF \E a \in Asks : state[a] = "claimed"
     THEN Leaves(w, "retry") /\ UNCHANGED todo
     ELSE /\ To(w, "withdraw") /\ UNCHANGED finish
          /\ todo' = [todo EXCEPT ![w] = {a \in Asks : state[a] = "new"}]
  /\ UNCHANGED <<apiVars, connected, rowVars, recorded, stopped, on, tries, asked, waits, faults>>

\* withdraw_event, of each of them in turn.  What is no longer new is left.
WithdrawEvent(w, a) ==
  /\ pc[w] = "withdraw" /\ a \in todo[w]
  /\ todo' = [todo EXCEPT ![w] = @ \ {a}]
  /\ IF state[a] = "new"
     THEN /\ state' = [state EXCEPT ![a] = "skipped"]
          /\ finish' = [finish EXCEPT ![w] = "done"]
     ELSE UNCHANGED <<state, finish>>
  /\ UNCHANGED <<apiVars, connected, arrived, claimVars, recorded, stopped, pc, on, tries, asked,
                 waits, faults>>

\* group_runs.
GroupRuns(w) ==
  /\ pc[w] = "withdraw" /\ todo[w] = {}
  /\ todo' = [todo EXCEPT ![w] = {recorded} \ {Nil}]
  /\ To(w, "cancel")
  /\ UNCHANGED <<apiVars, connected, rowVars, recorded, stopped, on, tries, asked, finish, waits, faults>>

\* cancel::ask, of each run: it is stopped, or was before, or the token is
\* refused and the event fails.
CancelRun(w, r) ==
  /\ pc[w] = "cancel" /\ r \in todo[w]
  /\ todo' = [todo EXCEPT ![w] = @ \ {r}]
  /\ \/ /\ stopped' = stopped \cup {r}
        /\ finish' = [finish EXCEPT ![w] = IF r \in stopped \/ @ = "failed" THEN @ ELSE "done"]
     \/ finish' = [finish EXCEPT ![w] = "failed"] /\ UNCHANGED stopped
  /\ UNCHANGED <<apiVars, connected, rowVars, recorded, pc, on, tries, asked, waits, faults>>

GroupIsDropped(w) ==
  /\ pc[w] = "cancel" /\ todo[w] = {}
  /\ To(w, "finish")
  /\ UNCHANGED <<apiVars, connected, rowVars, recorded, stopped, on, tries, asked, todo, finish,
                 waits, faults>>

-----------------------------------------------------------------------------
(* dagron-api *)

ServeRequest(r) == Serve(r) /\ UNCHANGED ciVars

RefuseRequest(r) ==
  /\ \/ Refuse(r, "refused") /\ UNCHANGED <<waits, faults>>
     \/ Refuse(r, "waiting") /\ waits < MaxWaits /\ waits' = waits + 1 /\ UNCHANGED faults
     \/ Refuse(r, "retry") /\ Fault /\ UNCHANGED waits
  /\ UNCHANGED <<connected, rowVars, recorded, stopped, workVars>>

LoseRequest(r) ==
  /\ RequestDies(r) \/ ReleaseFails(r)
  /\ Fault
  /\ UNCHANGED <<connected, rowVars, recorded, stopped, workVars, waits>>

AgeClaim == ClaimAges /\ UNCHANGED ciVars

-----------------------------------------------------------------------------
Handle(w) ==
  \/ FindRun(w) \/ Submit(w) \/ ReadAnswer(w) \/ RecordRun(w)
  \/ GroupEvents(w) \/ GroupRuns(w) \/ GroupIsDropped(w)
  \/ (\E a \in Asks : WithdrawEvent(w, a)) \/ (\E r \in Requests : CancelRun(w, r))

Work(w) == (\E e \in Events : ClaimEvent(w, e)) \/ ReadRepo(w) \/ Handle(w) \/ FinishEvent(w)

Next ==
  \/ DisconnectRepo \/ AgeClaim
  \/ \E e \in Events : RecordDelivery(e) \/ Lapse(e) \/ ComesDue(e)
  \/ \E w \in Workers : Work(w) \/ Crash(w) \/ CallFails(w)
  \/ \E r \in Requests : ServeRequest(r) \/ RefuseRequest(r) \/ LoseRequest(r)

Spec == Init /\ [][Next]_vars

\* A worker goes on with its loop and dagron-api with what it serves, and
\* the lease of a worker that has died runs out, as a backoff does.
Fairness ==
  /\ \A w \in Workers : WF_vars(Work(w))
  /\ \A r \in Requests : WF_vars(ServeRequest(r))
  /\ \A e \in Events : WF_vars(claimedBy[e] = None /\ Lapse(e)) /\ WF_vars(ComesDue(e))

FairSpec == Spec /\ Fairness

-----------------------------------------------------------------------------
(* Properties *)

\* "Between them they produce one run": the events of a commit, and every worker
\* that is at one of them after a crash, a lapse, a lost answer or a claim of the
\* key that was taken over, make one run, and one that is done has it on record.
OneRunPerCommit ==
  /\ Cardinality(runs) <= 1
  /\ \A a \in Asks : state[a] = "done" => recorded \in runs

\* An event that is settled stays as it is: a worker whose lease has lapsed does
\* not put it back, or end it another way, when it is through with it.
SettledIsFinal ==
  [][\A e \in Events : state[e] \in Settled => state'[e] = state[e]]_vars

\* A worker that stops in the middle of an event loses nothing: every event that
\* waits comes to be settled.
EveryEventSettles == \A e \in Events : state[e] = "new" ~> state[e] \in Settled

\* "A group the queue lets go of without merging it has its runs cancelled": once
\* drop_group is through, no run of the group is left going.
GroupIsLetGo == connected /\ state[LetGo] \in {"done", "skipped"} => runs \subseteq stopped
=============================================================================
