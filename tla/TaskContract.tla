---------------------------- MODULE TaskContract ----------------------------
(***************************************************************************)
(* What the PostgreSQL task queue promises to whoever enqueues a task,     *)
(* with workers, leases and statements left out.                           *)
(*                                                                         *)
(* A task is accepted once, gets at most budget[t] tries, and ends in one  *)
(* of two final states: succeeded, and then its effect is there, or        *)
(* failed, and then no try was left.  The effect of a task may be there    *)
(* without its success: a try that acted can still fail to report it.      *)
(***************************************************************************)
EXTENDS Naturals

CONSTANTS
  Tasks,           \* the idempotency keys a caller may enqueue
  AttemptLimits    \* the values of max_attempts callers pass

VARIABLES
  outcome,   \* "absent", "accepted", "succeeded" or "failed", per task
  tries,     \* how many times the task was reserved by a worker
  budget,    \* max_attempts, fixed when the task is accepted
  effects    \* the tasks whose effect is committed

vars == <<outcome, tries, budget, effects>>

Init ==
  /\ outcome = [t \in Tasks |-> "absent"]
  /\ tries   = [t \in Tasks |-> 0]
  /\ budget  = [t \in Tasks |-> 0]
  /\ effects = {}

Accept(t, m) ==
  /\ outcome[t] = "absent"
  /\ outcome' = [outcome EXCEPT ![t] = "accepted"]
  /\ budget'  = [budget EXCEPT ![t] = m]
  /\ UNCHANGED <<tries, effects>>

Try(t) ==
  /\ outcome[t] = "accepted"
  /\ tries[t] < budget[t]
  /\ tries' = [tries EXCEPT ![t] = @ + 1]
  /\ UNCHANGED <<outcome, budget, effects>>

\* A try acts, possibly after the task was settled without it.
Act(t) ==
  /\ tries[t] > 0
  /\ effects' = effects \cup {t}
  /\ UNCHANGED <<outcome, tries, budget>>

Succeed(t) ==
  /\ outcome[t] = "accepted"
  /\ t \in effects
  /\ outcome' = [outcome EXCEPT ![t] = "succeeded"]
  /\ UNCHANGED <<tries, budget, effects>>

\* One sweep may give up several tasks at a time.
GiveUp(S) ==
  /\ \A t \in S : outcome[t] = "accepted" /\ tries[t] = budget[t]
  /\ outcome' = [t \in Tasks |-> IF t \in S THEN "failed" ELSE outcome[t]]
  /\ UNCHANGED <<tries, budget, effects>>

Next ==
  \/ \E t \in Tasks, m \in AttemptLimits : Accept(t, m)
  \/ \E t \in Tasks : Try(t) \/ Act(t) \/ Succeed(t)
  \/ \E S \in SUBSET Tasks : GiveUp(S)

Spec == Init /\ [][Next]_vars
=============================================================================
