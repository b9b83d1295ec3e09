---------------------------- MODULE JobLifecycle ----------------------------
(***************************************************************************)
(* What pipeline jobs promise to those who look at them.  The thread of a   *)
(* job takes it through the lifecycle one stage at a time; the status shown *)
(* is that stage, except that the job may be failed as expired at any time. *)
(* An expiry does not stop the thread: its next stage is shown again.       *)
(***************************************************************************)
CONSTANT Jobs

VARIABLES
  stage,   \* where the thread of each job has taken it
  status   \* what the job document shows

vars == <<stage, status>>

Successors(s) ==
  CASE s = "queued"               -> {"running", "failed"}
    [] s = "running"              -> {"policy_generating", "context_task_running"}
    [] s = "policy_generating"    -> {"completed", "failed"}
    [] s = "context_task_running" -> {"context_task_running", "completed", "failed"}
    [] OTHER                      -> {}

Init ==
  /\ stage = [j \in Jobs |-> "absent"]
  /\ status = [j \in Jobs |-> "absent"]

Create(j) ==
  /\ stage[j] = "absent"
  /\ stage' = [stage EXCEPT ![j] = "queued"]
  /\ status' = [status EXCEPT ![j] = "queued"]

Advance(j) ==
  \E s \in Successors(stage[j]) :
    /\ stage' = [stage EXCEPT ![j] = s]
    /\ status' = [status EXCEPT ![j] = s]

Expire(j) ==
  /\ status[j] # "absent"
  /\ status' = [status EXCEPT ![j] = "failed"]
  /\ UNCHANGED stage

Next == \E j \in Jobs : Create(j) \/ Advance(j) \/ Expire(j)

Spec == Init /\ [][Next]_vars
=============================================================================
