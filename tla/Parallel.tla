------------------------------ MODULE Parallel ------------------------------
(***************************************************************************)
(* Class Parallel (helper/parallel.py): a pool of processes.  Its callers  *)
(* (collect_results, _terminate_testcase, the minimizers) call run() once  *)
(* for each piece of work and then wait().                                 *)
(*                                                                         *)
(* run() polls alive_cnt() as long as the pool is full.  alive_cnt() asks  *)
(* the processes of pobjs one after the other whether they are alive, so a *)
(* process it has counted may end before it has asked the last one; it     *)
(* drops the ended ones from pobjs, and with FAILURE_EXIT it aborts at the *)
(* first that failed.  wait() only polls is_alive().                       *)
(*                                                                         *)
(* The list pobjs is a set here: the order in which it is asked is left    *)
(* open.                                                                   *)
(***************************************************************************)
EXTENDS Naturals, FiniteSets

CONSTANTS Tasks,      \* the parameters run() is called with, one call each
          Cores,      \* capacity of the pool
          FailureMode \* "exit" or "cont"

(* The constructor aborts when there is no core.                           *)
ASSUME PoolAssumption ==
  /\ IsFiniteSet(Tasks)
  /\ Cores \in Nat \ {0}
  /\ FailureMode \in {"exit", "cont"}

VARIABLES
  proc,    \* the process of each task: "new", "alive", "ok" or "failed"
  pobjs,   \* the tasks whose process object the pool holds
  pc,      \* "call" (between calls), "count" (in run), "wait", "done", "aborted"
  unasked, \* processes alive_cnt, or alive, has still to ask
  cnt,     \* alive_cnt: processes found alive
  ended    \* alive_cnt: idx_to_delete

vars == <<proc, pobjs, pc, unasked, cnt, ended>>

Unstarted == {t \in Tasks : proc[t] = "new"}
Alive     == {t \in Tasks : proc[t] = "alive"}
Failed    == {t \in Tasks : proc[t] = "failed"}

Init ==
  /\ proc = [t \in Tasks |-> "new"]
  /\ pobjs = {} /\ pc = "call"
  /\ unasked = {} /\ cnt = 0 /\ ended = {}

(* run() begins, or polls again: alive_cnt starts over.                    *)
Count ==
  /\ pc' = "count"
  /\ unasked' = pobjs /\ cnt' = 0 /\ ended' = {}
  /\ UNCHANGED <<proc, pobjs>>

Run == pc = "call" /\ Unstarted # {} /\ Count

AskAlive(t) ==
  /\ pc = "count" /\ t \in unasked /\ proc[t] = "alive"
  /\ cnt' = cnt + 1
  /\ unasked' = unasked \ {t}
  /\ UNCHANGED <<proc, pobjs, pc, ended>>

(* The failures alive_cnt does not put up with.  Its mutant: none.         *)
FailureIgnored(t) == FALSE
FailureIsFatal(t) == FailureMode = "exit" /\ proc[t] = "failed"

AskEnded(t) ==
  /\ pc = "count" /\ t \in unasked /\ proc[t] # "alive"
  /\ ~FailureIsFatal(t)
  /\ ended' = ended \cup {t}
  /\ unasked' = unasked \ {t}
  /\ UNCHANGED <<proc, pobjs, pc, cnt>>

AskFailed(t) ==
  /\ pc = "count" /\ t \in unasked /\ FailureIsFatal(t)
  /\ pc' = "aborted"
  /\ UNCHANGED <<proc, pobjs, unasked, cnt, ended>>

(* alive_cnt deletes the ended processes and returns cnt.                  *)
AllKept == pobjs
Kept    == pobjs \ ended

OverFull == cnt = Cores + 1
Full     == cnt = Cores

Poll ==
  /\ pc = "count" /\ unasked = {} /\ Full
  /\ pobjs' = Kept
  /\ unasked' = Kept /\ cnt' = 0 /\ ended' = {}
  /\ UNCHANGED <<proc, pc>>

(* There is room: the next task gets a process.                            *)
Begin(t) ==
  /\ pc = "count" /\ unasked = {} /\ ~Full
  /\ t \in Unstarted
  /\ proc' = [proc EXCEPT ![t] = "alive"]
  /\ pobjs' = Kept \cup {t}
  /\ pc' = "call"
  /\ ended' = {} /\ cnt' = 0
  /\ UNCHANGED unasked

(* The caller has no more work: wait().                                    *)
Wait ==
  /\ pc = "call" /\ Unstarted = {}
  /\ pc' = "wait" /\ unasked' = pobjs
  /\ UNCHANGED <<proc, pobjs, cnt, ended>>

(* Property alive goes through pobjs up to the first live process; wait()  *)
(* asks again from the start as long as there is one.                      *)
PollAlive(t) ==
  /\ pc = "wait" /\ t \in unasked
  /\ unasked' = IF proc[t] = "alive" THEN pobjs ELSE unasked \ {t}
  /\ UNCHANGED <<proc, pobjs, pc, cnt, ended>>

(* Mutants of the test: none at all, and waiting for an empty list (wait() *)
(* drops nothing from pobjs).                                              *)
NothingAsked == TRUE
NoneHeld     == pobjs = {}
NoneAlive    == unasked = {}

Return ==
  /\ pc = "wait" /\ NoneAlive
  /\ pc' = "done"
  /\ UNCHANGED <<proc, pobjs, unasked, cnt, ended>>

(* A process ends, with exit code 0 or another.                            *)
End(t) ==
  /\ proc[t] = "alive"
  /\ \E code \in {"ok", "failed"} : proc' = [proc EXCEPT ![t] = code]
  /\ UNCHANGED <<pobjs, pc, unasked, cnt, ended>>

Caller ==
  \/ Run \/ Poll \/ Wait \/ Return
  \/ \E t \in Tasks : AskAlive(t) \/ AskEnded(t) \/ AskFailed(t) \/ Begin(t)
                        \/ PollAlive(t)

Next == Caller \/ \E t \in Tasks : End(t)

Spec == Init /\ [][Next]_vars

(* The caller's thread runs, and what is run in the pool terminates.       *)
FairSpec ==
  /\ Spec
  /\ WF_vars(Caller)
  /\ \A t \in Tasks : WF_vars(End(t))
-----------------------------------------------------------------------------
TypeOK ==
  /\ proc \in [Tasks -> {"new", "alive", "ok", "failed"}]
  /\ pobjs \subseteq Tasks
  /\ pc \in {"call", "count", "wait", "done", "aborted"}
  /\ unasked \subseteq pobjs /\ ended \subseteq pobjs
  /\ cnt \in Nat

(* "while alive_cnt() == cores" would never stop a pool that once held     *)
(* more processes than cores; it never does, though processes end while    *)
(* they are counted.                                                       *)
WithinCores == Cardinality(pobjs) <= Cores

(* With FAILURE_EXIT a failure that goes unnoticed is one of the last: the *)
(* pool returns with no more failed processes than it has cores.           *)
FewFailuresMissed ==
  pc = "done" /\ FailureMode = "exit" => Cardinality(Failed) <= Cores

(* wait() returns, unless the pool aborts.                                 *)
Returns == <>(pc \in {"done", "aborted"})

(* The pool implements JobPool.                                            *)
Pool == INSTANCE JobPool WITH
  status <- proc,
  state  <- CASE pc = "done" -> "closed"
              [] pc = "aborted" -> "aborted"
              [] OTHER -> "open"

PoolSpec == Pool!Spec
-----------------------------------------------------------------------------
(* The inductive invariant: what the processes of pobjs are, and what the  *)
(* count so far says of them.                                              *)

(* Processes are dropped only after they have ended, and with FAILURE_EXIT *)
(* only after they have succeeded.                                         *)
HeldInv ==
  /\ Alive \subseteq pobjs
  /\ FailureMode = "exit" => Failed \subseteq pobjs
  /\ pobjs \cap Unstarted = {}

CountInv ==
  pc = "count" =>
       /\ ended \cap unasked = {}
       /\ \A t \in ended : \/ proc[t] = "ok"
                           \/ proc[t] = "failed" /\ FailureMode = "cont"
       /\ cnt = Cardinality(pobjs \ (unasked \cup ended))
       /\ Unstarted # {}

WaitInv ==
  /\ pc = "wait" => /\ Unstarted = {}
                    /\ \A t \in pobjs \ unasked : proc[t] # "alive"
  /\ pc = "done" => Unstarted = {} /\ Alive = {}

IndInv == TypeOK /\ WithinCores /\ HeldInv /\ CountInv /\ WaitInv
-----------------------------------------------------------------------------
(* Parallel.__init__: FAILURE_EXIT is "Exit on failure (exit code != 0)".  *)
FailureExits == FailureMode = "exit" /\ pc = "done" => Failed = {}
=============================================================================
