------------------------------ MODULE MCEvents ------------------------------
(***************************************************************************)
(* Two workers for TLC to run Outbox and CiEvents on, the events that go   *)
(* out and those that come in: neither touches the other's rows.           *)
(***************************************************************************)
EXTENDS Outbox, CiEvents

CONSTANTS e1, e2, a1, d1, w1, w2

VARIABLE way   \* which way the events go

eventsVars == <<way, outboxVars, vars>>

EventsInit == way \in {"out", "in"} /\ OutboxInit /\ Init

OutStep == way = "out" /\ OutboxNext /\ UNCHANGED <<way, vars>>

InStep == way = "in" /\ Next /\ UNCHANGED <<way, outboxVars>>

EventsSpec == EventsInit /\ [][OutStep \/ InStep]_eventsVars

\* OutboxFairness, and Fairness of CiEvents.
EventsFairSpec ==
  /\ EventsSpec
  /\ \A w \in Replicas : WF_outboxVars(way = "out" /\ Enroll(w))
  /\ \A w \in Workers : WF_vars(way = "in" /\ Work(w))
  /\ \A r \in Requests : WF_vars(way = "in" /\ ServeRequest(r))
  /\ \A e \in Events : /\ WF_vars(way = "in" /\ claimedBy[e] = None /\ Lapse(e))
                       /\ WF_vars(way = "in" /\ ComesDue(e))
=============================================================================
