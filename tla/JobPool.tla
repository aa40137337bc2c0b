------------------------------ MODULE JobPool ------------------------------
(***************************************************************************)
(* What class Parallel (helper/parallel.py) promises to its callers: every *)
(* job is run once, at most Cores of them at a time, and wait() returns    *)
(* when no job is running and all have been run.                           *)
(***************************************************************************)
EXTENDS Naturals, FiniteSets

CONSTANTS Tasks,   \* the parameters run() is called with, one call each
          Cores    \* capacity of the pool

VARIABLES status,  \* of each job: not submitted, alive, or how it ended
          state    \* of the pool: "open", "closed" after wait(), "aborted"

vars == <<status, state>>

Alive == {t \in Tasks : status[t] = "alive"}

Init == status = [t \in Tasks |-> "new"] /\ state = "open"

Submit(t) ==
  /\ state = "open" /\ status[t] = "new"
  /\ Cardinality(Alive) < Cores
  /\ status' = [status EXCEPT ![t] = "alive"]
  /\ UNCHANGED state

Finish(t) ==
  /\ status[t] = "alive"
  /\ \E outcome \in {"ok", "failed"} :
       status' = [status EXCEPT ![t] = outcome]
  /\ UNCHANGED state

Close ==
  /\ state = "open"
  /\ \A t \in Tasks : status[t] \in {"ok", "failed"}
  /\ state' = "closed"
  /\ UNCHANGED status

(* Only a failed job makes the pool abort.                                 *)
GiveUp ==
  /\ state = "open"
  /\ \E t \in Tasks : status[t] = "failed"
  /\ state' = "aborted"
  /\ UNCHANGED status

Next == Close \/ GiveUp \/ \E t \in Tasks : Submit(t) \/ Finish(t)

Spec == Init /\ [][Next]_vars
=============================================================================
