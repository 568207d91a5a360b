---------------------------- MODULE KeyedSubmit ----------------------------
(***************************************************************************)
(* A run submitted to dagron-api under an Idempotency-Key: one key of one  *)
(* caller, the row run_idempotency has of it, and the requests made with   *)
(* it.  The key is claimed before the run exists, and the transaction that *)
(* creates the run resolves the claim.  A claim that is not resolved in    *)
(* IN_FLIGHT_CLAIM_SECS may be taken over, and its request may be slow and *)
(* not dead.                                                               *)
(*                                                                         *)
(* Requests carry one body, so that fingerprints agree.  A run is named by *)
(* the request that made it.                                               *)
(***************************************************************************)
EXTENDS Integers, FiniteSets

CONSTANT MaxRequests  \* bound on the requests

Requests == 1 .. MaxRequests
Nil == 0  \* NULL, or no row

VARIABLES
  holder,  \* the request whose claim the row is, by its created_at
  names,   \* run_id of the row
  old,     \* created_at is IN_FLIGHT_CLAIM_SECS ago
  req,     \* where each request is
  answer,  \* what it is answered: a run, or how it is refused
  gives,   \* the run
  runs     \* the runs that were made

keyVars == <<holder, names, old>>
apiVars == <<keyVars, req, answer, gives, runs>>

Refusals == {"refused", "waiting", "retry"}

ApiTypeOK ==
  /\ holder \in Requests \cup {Nil} /\ names \in Requests \cup {Nil} /\ old \in BOOLEAN
  /\ req \in [Requests -> {"unsent", "claim", "build", "release", "lookup", "answered", "dead"}]
  /\ answer \in [Requests -> {"none", "run"} \cup Refusals]
  /\ gives \in [Requests -> Requests \cup {Nil}]
  /\ runs \subseteq Requests

ApiInit ==
  /\ holder = Nil /\ names = Nil /\ old = FALSE
  /\ req = [r \in Requests |-> "unsent"]
  /\ answer = [r \in Requests |-> "none"] /\ gives = [r \in Requests |-> Nil]
  /\ runs = {}

Goes(r, to) == req' = [req EXCEPT ![r] = to]

Answers(r, a, run) ==
  /\ Goes(r, "answered")
  /\ answer' = [answer EXCEPT ![r] = a] /\ gives' = [gives EXCEPT ![r] = run]

-----------------------------------------------------------------------------
\* Time passes over a claim.
ClaimAges ==
  /\ holder # Nil /\ names = Nil /\ ~old
  /\ old' = TRUE
  /\ UNCHANGED <<holder, names, req, answer, gives, runs>>

\* The INSERT .. ON CONFLICT DO UPDATE of claim_idempotency_key.
ClaimIdempotencyKey(r) ==
  /\ req[r] = "claim"
  /\ IF holder = Nil \/ (names = Nil /\ old)
     THEN holder' = r /\ old' = FALSE /\ Goes(r, "build")
     ELSE Goes(r, "lookup") /\ UNCHANGED <<holder, old>>
  /\ UNCHANGED <<names, answer, gives, runs>>

\* key_holder: a 409 to try again unless the row names a run.
KeyHolder(r) ==
  /\ req[r] = "lookup"
  /\ Answers(r, IF names # Nil THEN "run" ELSE "retry", names)
  /\ UNCHANGED <<keyVars, runs>>

\* That the claim is still the request's.
Ours(r) == holder = r /\ names = Nil

CreateRunClaimed_bug(r) ==
  /\ req[r] = "build"
  /\ runs' = runs \cup {r} /\ names' = r /\ Answers(r, "run", r)
  /\ UNCHANGED <<holder, old>>

\* The transaction of create_run_claimed.
CreateRunClaimed(r) ==
  /\ req[r] = "build"
  /\ IF Ours(r)
     THEN runs' = runs \cup {r} /\ names' = r /\ Answers(r, "run", r)
     ELSE Goes(r, "lookup") /\ UNCHANGED <<names, answer, gives, runs>>
  /\ UNCHANGED <<holder, old>>

\* build_dag or the transaction refuses: the spec or a parameter (400), or the
\* place its concurrency key has no room for (429); or it fails (500).
Refuse(r, why) ==
  /\ req[r] = "build"
  /\ Goes(r, "release") /\ answer' = [answer EXCEPT ![r] = why]
  /\ UNCHANGED <<keyVars, gives, runs>>

\* release_idempotency_claim, and the answer.
ReleaseIdempotencyClaim(r) ==
  /\ req[r] = "release"
  /\ Goes(r, "answered")
  /\ holder' = IF Ours(r) THEN Nil ELSE holder
  /\ old' = (old /\ ~Ours(r))
  /\ UNCHANGED <<names, answer, gives, runs>>

\* The DELETE fails, which is only logged: the claim is left to age out, and the
\* answer is the same.
ReleaseFails(r) ==
  /\ req[r] = "release"
  /\ Goes(r, "answered")
  /\ UNCHANGED <<keyVars, answer, gives, runs>>

\* dagron-api dies with the request, or fails it between two statements.
RequestDies(r) ==
  /\ req[r] \notin {"unsent", "answered", "dead"}
  /\ Goes(r, "dead")
  /\ UNCHANGED <<keyVars, answer, gives, runs>>

Serve(r) ==
  ClaimIdempotencyKey(r) \/ KeyHolder(r) \/ CreateRunClaimed(r) \/ ReleaseIdempotencyClaim(r)
=============================================================================
