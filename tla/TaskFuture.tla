----------------------------- MODULE TaskFuture -----------------------------
(***************************************************************************)
(* What a Styio program is promised by a task handle (||> and ?|): a       *)
(* one-shot future.  A launched task completes exactly once, with a value  *)
(* or a failure that never changes afterwards; its value is handed out at  *)
(* most once; and the future is dropped only when it has completed, so     *)
(* nothing is left that could still write to it.                           *)
(* The scheduler of TaskScheduler.tla implements this specification.       *)
(***************************************************************************)
CONSTANTS Tasks,      \* every task the program may launch
          Outcomes,   \* "ok" or the subcode of the failure
          Pending     \* the outcome of a task that has not completed

VARIABLES phase,      \* Tasks -> {"unborn", "pending", "complete", "taken", "dropped"}
          outcome     \* Tasks -> Outcomes \cup {Pending}

futureVars == <<phase, outcome>>

FutureInit ==
  /\ phase = [t \in Tasks |-> "unborn"]
  /\ outcome = [t \in Tasks |-> Pending]

\* ||> { ... }
Launch(t) ==
  /\ phase[t] = "unborn"
  /\ phase' = [phase EXCEPT ![t] = "pending"]
  /\ UNCHANGED outcome

\* A task that is made ready at once (styio_task_*_ready).
LaunchReady(t) ==
  /\ phase[t] = "unborn"
  /\ phase' = [phase EXCEPT ![t] = "complete"]
  /\ outcome' = [outcome EXCEPT ![t] = "ok"]

Complete(t, o) ==
  /\ phase[t] = "pending"
  /\ phase' = [phase EXCEPT ![t] = "complete"]
  /\ outcome' = [outcome EXCEPT ![t] = o]

\* ?| t -> v : only a task that completed with a value is taken, and only once.
Take(t) ==
  /\ phase[t] = "complete"
  /\ outcome[t] = "ok"
  /\ phase' = [phase EXCEPT ![t] = "taken"]
  /\ UNCHANGED outcome

Drop(t) ==
  /\ phase[t] \in {"complete", "taken"}
  /\ phase' = [phase EXCEPT ![t] = "dropped"]
  /\ UNCHANGED outcome

FutureNext ==
  \E t \in Tasks :
    Launch(t) \/ LaunchReady(t) \/ (\E o \in Outcomes : Complete(t, o)) \/ Take(t) \/ Drop(t)

FutureSpec == FutureInit /\ [][FutureNext]_futureVars
=============================================================================
