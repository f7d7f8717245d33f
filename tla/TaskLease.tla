------------------------------ MODULE TaskLease ------------------------------
(***************************************************************************)
(* What a Cohort's Command Board promises its workers, without tokens,     *)
(* versions, clocks, files or crashes: at any moment a task is held by at  *)
(* most one worker, only the worker that holds it can settle it, and a     *)
(* settled task stays settled.  CohortBoard implements this specification. *)
(***************************************************************************)
CONSTANTS
  Task,     \* task identifiers
  Worker    \* actors that claim tasks

VARIABLES
  holders,  \* holders[t]: the workers whose lease on t the board would honour
  outcome   \* outcome[t]: what became of t

vars == <<holders, outcome>>

Outcome == {"open", "done", "failed", "removed"}

Init ==
  /\ holders = [t \in Task |-> {}]
  /\ outcome = [t \in Task |-> "open"]

\* An open task nobody holds is leased to one worker.
Grant(t, w) ==
  /\ outcome[t] = "open"
  /\ holders[t] = {}
  /\ holders' = [holders EXCEPT ![t] = {w}]
  /\ UNCHANGED outcome

\* The holder settles the task and loses the lease with it.
Settle(t, w, o) ==
  /\ outcome[t] = "open"
  /\ holders[t] = {w}
  /\ holders' = [holders EXCEPT ![t] = {}]
  /\ outcome' = [outcome EXCEPT ![t] = o]

\* Leases lapse: by expiry (several at once when time passes) or release.
Lapse(T) ==
  /\ holders' = [t \in Task |-> IF t \in T THEN {} ELSE holders[t]]
  /\ UNCHANGED outcome

\* The whole Cohort is killed.
Remove ==
  /\ holders' = [t \in Task |-> {}]
  /\ outcome' = [t \in Task |-> "removed"]

Next ==
  \/ \E T \in SUBSET Task : Lapse(T)
  \/ \E t \in Task, w \in Worker : Grant(t, w)
  \/ \E t \in Task, w \in Worker, o \in {"done", "failed"} : Settle(t, w, o)
  \/ Remove

Spec == Init /\ [][Next]_vars
=============================================================================
