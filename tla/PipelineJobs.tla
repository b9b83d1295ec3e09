---------------------------- MODULE PipelineJobs ----------------------------
(***************************************************************************)
(* The pipeline jobs of context-agent: the routes that create them, the    *)
(* daemon thread that executes each one, and the readers that expire the   *)
(* jobs nobody has touched for PIPELINE_JOB_STALE_AFTER_SECONDS.           *)
(*                                                                         *)
(* Every actor is a thread of one Flask process; they share the Mongo      *)
(* collections pipeline_jobs and pipeline_events and nothing else.  One    *)
(* action is one database call (or the start of a thread), because that is *)
(* where the threads interleave.  A job is named by the request that       *)
(* creates it (a fresh uuid4 per request).                                 *)
(*                                                                         *)
(* Time is abstracted to one bit per job, `aged': more than the threshold  *)
(* has passed since the last write of updated_at.                          *)
(***************************************************************************)
EXTENDS Naturals, Sequences, FiniteSets

CONSTANTS
  Requests,    \* POST requests that ask for a job; also the names of the jobs
  Readers,     \* threads that serve the status, detail and dashboard pages
  Contexts,    \* context ids of the organization
  Scopes,      \* the <<context, command>> pairs that are asked for
  MaxSweeps,   \* find_active_pipeline_job looks at most this often (10)
  MaxLost,     \* bound: actors that die
  MaxAges,     \* bound: times a job is left alone for the threshold
  MaxReports,  \* bound: progress callbacks of one plan execution
  NoJob        \* the job of an idle call

Commands == {"generate_policy", "execute_context_plan"}

ASSUME ScopesAssumption  == Scopes \subseteq Contexts \X Commands
ASSUME SweepsAssumption  == MaxSweeps \in Nat \ {0}
ASSUME ReportsAssumption == MaxReports \in Nat
ASSUME BoundsAssumption  == MaxLost \in Nat /\ MaxAges \in Nat
ASSUME NoJobAssumption   == NoJob \notin Requests

VARIABLES
  contexts,   \* documents of the contexts collection
  jobs,       \* documents of pipeline_jobs
  events,     \* documents of pipeline_events, per job, in insertion order
  call,       \* per actor: its call of update_pipeline_job_state/_progress
  handler,    \* per request: where the route handler stands
  worker,     \* per job: where its thread stands
  lost,       \* actors that died between two steps
  ages,       \* how often a threshold has passed, up to MaxAges
  checked,    \* history: the jobs a request saw, none active, before creating
  written     \* history: the last status the job's own thread wrote

vars == <<contexts, jobs, events, call, handler, worker, lost, ages, checked, written>>

-----------------------------------------------------------------------------
(* The vocabulary of pipeline_jobs.py. *)

ActiveStatuses ==
  {"queued", "running", "policy_generating", "policy_generated", "validating",
   "context_task_running"}
TerminalStatuses == {"completed", "context_task_completed", "failed", "cancelled"}
Statuses == ActiveStatuses \cup TerminalStatuses

Errors     == {"none", "stale", "failure"}
EventTypes == {"job_created", "job_status_changed", "context_task_progress"}

RequestActor(r) == <<"request", r>>
WorkerOf(j)     == <<"worker", j>>
ReaderActor(d)  == <<"reader", d>>
Actors == ({"request", "worker"} \X Requests) \cup ({"reader"} \X Readers)

Job == [scope : Scopes, status : Statuses \cup {"absent"}, error : Errors,
        ended : BOOLEAN, aged : BOOLEAN]
Event == [type : EventTypes, status : Statuses, error : Errors]
Call  == [step : {"idle", "update", "event"}, job : Requests \cup {NoJob},
          status : Statuses \cup {"none"}, type : EventTypes \cup {"none"},
          error : Errors]
HandlerPlaces == {"idle", "find", "create", "event", "start", "done"}
Handler == [at : HandlerPlaces, scope : Scopes, sweeps : 0..MaxSweeps]
ThreadPlaces == {"none", "load", "context", "dispatch", "pipeline", "tasks", "end"}
Thread == [at : ThreadPlaces, reports : 0..MaxReports]

Idle == [step |-> "idle", job |-> NoJob, status |-> "none", type |-> "none",
         error |-> "none"]

Transition(j, status, error) ==
  [step |-> "update", job |-> j, status |-> status,
   type |-> "job_status_changed", error |-> error]

ProgressAsRunning(j) ==   \* mutant: reports the status of the caller before
  [step |-> "update", job |-> j, status |-> "running",
   type |-> "context_task_progress", error |-> "none"]

Progress(j) ==
  [step |-> "update", job |-> j, status |-> "context_task_running",
   type |-> "context_task_progress", error |-> "none"]

MarkStale(j) == Transition(j, "failed", "stale")

EventWithoutError(c) ==   \* mutant: the error is not passed on
  [type |-> c.type, status |-> c.status, error |-> "none"]

EventOf(c) == [type |-> c.type, status |-> c.status, error |-> c.error]

Exists(j)   == jobs[j].status # "absent"
Active(j)   == jobs[j].status \in ActiveStatuses
Terminal(j) == jobs[j].status \in TerminalStatuses
IsStaleBeforeWork(j) ==   \* mutant: forgets the statuses of a job at work
  jobs[j].status \in {"queued", "running"} /\ jobs[j].aged
IsStale(j)  == Active(j) /\ jobs[j].aged
JobsIn(scope)   == {j \in Requests : Exists(j) /\ jobs[j].scope = scope}
ActiveInEarly(scope) ==   \* mutant: forgets the statuses of a job at work
  {j \in JobsIn(scope) : jobs[j].status \in {"queued", "running"}}
ActiveIn(scope) == {j \in JobsIn(scope) : Active(j)}

\* An actor takes its next step of its own only between two calls.
Free(a) == a \notin lost /\ call[a].step = "idle"

TypeOK ==
  /\ contexts \subseteq Contexts
  /\ jobs \in [Requests -> Job]
  /\ events \in [Requests -> Seq(Event)]
  /\ call \in [Actors -> Call]
  /\ handler \in [Requests -> Handler]
  /\ worker \in [Requests -> Thread]
  /\ lost \subseteq Actors
  /\ ages \in 0..MaxAges
  /\ checked \in [Requests -> SUBSET Requests]
  /\ written \in [Requests -> Statuses \cup {"absent"}]

\* The scope of a request is fixed when it arrives; which request asks for
\* which scope is arbitrary.
Init ==
  /\ contexts = Contexts
  /\ \E scope \in [Requests -> Scopes] :
       /\ jobs = [r \in Requests |-> [scope |-> scope[r], status |-> "absent",
                                      error |-> "none", ended |-> FALSE, aged |-> FALSE]]
       /\ handler = [r \in Requests |-> [at |-> "idle", scope |-> scope[r], sweeps |-> 0]]
  /\ events = [r \in Requests |-> <<>>]
  /\ call = [a \in Actors |-> Idle]
  /\ worker = [j \in Requests |-> [at |-> "none", reports |-> 0]]
  /\ lost = {}
  /\ ages = 0
  /\ checked = [r \in Requests |-> {}]
  /\ written = [j \in Requests |-> "absent"]

-----------------------------------------------------------------------------
(* update_pipeline_job_state and update_pipeline_job_progress.  Each reads  *)
(* the job (for its immutable ids), $sets the fields with no condition on   *)
(* the status it finds, appends the event, and reads the job back, which    *)
(* may start a stale mark of its own.                                       *)

StoredWithoutError(job, c) ==   \* mutant: last_error is not stored
  [job EXCEPT !.status = c.status, !.aged = FALSE,
              !.ended = @ \/ c.status \in TerminalStatuses]

\* The job document after the $set of call c.
Stored(job, c) ==
  [scope  |-> job.scope,
   status |-> c.status,
   error  |-> IF c.error = "none" THEN job.error ELSE c.error,
   ended  |-> IF c.status \in TerminalStatuses THEN TRUE ELSE job.ended,
   aged   |-> FALSE]

WriteUpdate(a) ==
  LET c == call[a]  IN
  /\ a \notin lost
  /\ c.step = "update"
  /\ jobs' = [jobs EXCEPT ![c.job] = Stored(@, c)]
  /\ call' = [call EXCEPT ![a].step = "event"]
  /\ written' = IF a = WorkerOf(c.job) /\ c.error # "stale"
                  THEN [written EXCEPT ![c.job] = c.status]
                  ELSE written
  /\ UNCHANGED <<contexts, events, handler, worker, lost, ages, checked>>

\* The read-back follows the append at once; an actor that finds the job
\* stale again goes on to mark it.
WriteEvent(a) ==
  LET c == call[a]  IN
  /\ a \notin lost
  /\ c.step = "event"
  /\ events' = [events EXCEPT ![c.job] = Append(@, EventOf(c))]
  /\ call' = [call EXCEPT ![a] = IF IsStale(c.job) THEN MarkStale(c.job) ELSE Idle]
  /\ UNCHANGED <<contexts, jobs, handler, worker, lost, ages, checked, written>>

-----------------------------------------------------------------------------
(* The routes trigger_policy_generation and trigger_context_plan_execution, *)
(* with find_active_pipeline_job and create_pipeline_job.  Whether the      *)
(* blocker and readiness checks let a request through is up to the          *)
(* environment here; a request they stop never arrives.                     *)

Arrive(r) ==
  /\ Free(RequestActor(r))
  /\ handler[r].at = "idle"
  /\ handler[r].scope[1] \in contexts
  /\ handler' = [handler EXCEPT ![r].at = "find"]
  /\ UNCHANGED <<contexts, jobs, events, call, worker, lost, ages, checked, written>>

Finding(r) ==
  /\ Free(RequestActor(r))
  /\ handler[r].at = "find"

\* find_one matches no active job: the request will create one.
FindNone(r) ==
  /\ Finding(r)
  /\ handler[r].sweeps < MaxSweeps
  /\ ActiveIn(handler[r].scope) = {}
  /\ handler' = [handler EXCEPT ![r].at = "create"]
  /\ checked' = [checked EXCEPT ![r] = JobsIn(handler[r].scope)]
  /\ UNCHANGED <<contexts, jobs, events, call, worker, lost, ages, written>>

\* An active job that is not stale: answer "already running" with it.
FindFresh(r) ==
  /\ Finding(r)
  /\ handler[r].sweeps < MaxSweeps
  /\ \E j \in ActiveIn(handler[r].scope) : ~IsStale(j)
  /\ handler' = [handler EXCEPT ![r].at = "done"]
  /\ UNCHANGED <<contexts, jobs, events, call, worker, lost, ages, checked, written>>

\* A stale one: mark it failed, then look again.
FindStale(r) ==
  /\ Finding(r)
  /\ handler[r].sweeps < MaxSweeps
  /\ \E j \in ActiveIn(handler[r].scope) :
       /\ IsStale(j)
       /\ call' = [call EXCEPT ![RequestActor(r)] = MarkStale(j)]
  /\ handler' = [handler EXCEPT ![r].sweeps = @ + 1]
  /\ UNCHANGED <<contexts, jobs, events, worker, lost, ages, checked, written>>

\* The loop runs out: None is returned although nobody looked again.
FindGivesUp(r) ==
  /\ Finding(r)
  /\ handler[r].sweeps = MaxSweeps
  /\ handler' = [handler EXCEPT ![r].at = "create"]
  /\ UNCHANGED <<contexts, jobs, events, call, worker, lost, ages, checked, written>>

CreateInsert(r) ==
  /\ Free(RequestActor(r))
  /\ handler[r].at = "create"
  /\ jobs' = [jobs EXCEPT ![r].status = "queued"]
  /\ written' = [written EXCEPT ![r] = "queued"]
  /\ handler' = [handler EXCEPT ![r].at = "event"]
  /\ UNCHANGED <<contexts, events, call, worker, lost, ages, checked>>

CreateEvent(r) ==
  /\ Free(RequestActor(r))
  /\ handler[r].at = "event"
  /\ events' = [events EXCEPT ![r] =
                  Append(@, [type |-> "job_created", status |-> "queued", error |-> "none"])]
  /\ handler' = [handler EXCEPT ![r].at = "start"]
  /\ UNCHANGED <<contexts, jobs, call, worker, lost, ages, checked, written>>

StartWorker(r) ==
  /\ Free(RequestActor(r))
  /\ handler[r].at = "start"
  /\ worker' = [worker EXCEPT ![r].at = "load"]
  /\ handler' = [handler EXCEPT ![r].at = "done"]
  /\ UNCHANGED <<contexts, jobs, events, call, lost, ages, checked, written>>

-----------------------------------------------------------------------------
(* run_pipeline_job, the body of the daemon thread of job j.                *)

WorkerAt(j, where) ==
  /\ Free(WorkerOf(j))
  /\ worker[j].at = where

\* get_pipeline_job: a stale queued job is marked failed, and the thread
\* goes on all the same.
WorkerLoad(j) ==
  /\ WorkerAt(j, "load")
  /\ worker' = [worker EXCEPT ![j].at = "context"]
  /\ call' = IF IsStale(j) THEN [call EXCEPT ![WorkerOf(j)] = MarkStale(j)] ELSE call
  /\ UNCHANGED <<contexts, jobs, events, handler, lost, ages, checked, written>>

WorkerContextMissingSilent(j) ==   \* mutant: returns without failing the job
  /\ WorkerAt(j, "context")
  /\ jobs[j].scope[1] \notin contexts
  /\ worker' = [worker EXCEPT ![j].at = "end"]
  /\ UNCHANGED <<contexts, jobs, events, call, handler, lost, ages, checked, written>>

WorkerContextMissing(j) ==
  /\ WorkerAt(j, "context")
  /\ jobs[j].scope[1] \notin contexts
  /\ worker' = [worker EXCEPT ![j].at = "end"]
  /\ call' = [call EXCEPT ![WorkerOf(j)] = Transition(j, "failed", "failure")]
  /\ UNCHANGED <<contexts, jobs, events, handler, lost, ages, checked, written>>

WorkerRun(j) ==
  /\ WorkerAt(j, "context")
  /\ jobs[j].scope[1] \in contexts
  /\ worker' = [worker EXCEPT ![j].at = "dispatch"]
  /\ call' = [call EXCEPT ![WorkerOf(j)] = Transition(j, "running", "none")]
  /\ UNCHANGED <<contexts, jobs, events, handler, lost, ages, checked, written>>

WorkerGenerate(j) ==
  /\ WorkerAt(j, "dispatch")
  /\ jobs[j].scope[2] = "generate_policy"
  /\ worker' = [worker EXCEPT ![j].at = "pipeline"]
  /\ call' = [call EXCEPT ![WorkerOf(j)] = Transition(j, "policy_generating", "none")]
  /\ UNCHANGED <<contexts, jobs, events, handler, lost, ages, checked, written>>

WorkerExecutePlan(j) ==
  /\ WorkerAt(j, "dispatch")
  /\ jobs[j].scope[2] = "execute_context_plan"
  /\ worker' = [worker EXCEPT ![j].at = "tasks"]
  /\ call' = [call EXCEPT ![WorkerOf(j)] = Transition(j, "context_task_running", "none")]
  /\ UNCHANGED <<contexts, jobs, events, handler, lost, ages, checked, written>>

\* execute_context_plan calls back before and after every task.
WorkerReport(j) ==
  /\ WorkerAt(j, "tasks")
  /\ worker[j].reports < MaxReports
  /\ worker' = [worker EXCEPT ![j].reports = @ + 1]
  /\ call' = [call EXCEPT ![WorkerOf(j)] = Progress(j)]
  /\ UNCHANGED <<contexts, jobs, events, handler, lost, ages, checked, written>>

WorkerSucceed(j) ==
  /\ WorkerAt(j, "pipeline") \/ WorkerAt(j, "tasks")
  /\ worker' = [worker EXCEPT ![j].at = "end"]
  /\ call' = [call EXCEPT ![WorkerOf(j)] = Transition(j, "completed", "none")]
  /\ UNCHANGED <<contexts, jobs, events, handler, lost, ages, checked, written>>

WorkerFail(j) ==
  /\ WorkerAt(j, "pipeline") \/ WorkerAt(j, "tasks")
  /\ worker' = [worker EXCEPT ![j].at = "end"]
  /\ call' = [call EXCEPT ![WorkerOf(j)] = Transition(j, "failed", "failure")]
  /\ UNCHANGED <<contexts, jobs, events, handler, lost, ages, checked, written>>

-----------------------------------------------------------------------------
(* Readers, the clock, deletion and loss. *)

\* get_pipeline_job, find_latest_pipeline_job and the active-job route all
\* come down to this: the job read is stale, so the reader starts to mark it.
\* A read that finds nothing stale changes nothing and is not a step.
ReadStale(d, j) ==
  /\ Free(ReaderActor(d))
  /\ IsStale(j)
  /\ call' = [call EXCEPT ![ReaderActor(d)] = MarkStale(j)]
  /\ UNCHANGED <<contexts, jobs, events, handler, worker, lost, ages, checked, written>>

Age(j) ==
  /\ Active(j)
  /\ ~jobs[j].aged
  /\ ages < MaxAges
  /\ ages' = ages + 1
  /\ jobs' = [jobs EXCEPT ![j].aged = TRUE]
  /\ UNCHANGED <<contexts, events, call, handler, worker, lost, checked, written>>

\* delete_context removes the context and its interactions, not its jobs.
DeleteContext(c) ==
  /\ c \in contexts
  /\ contexts' = contexts \ {c}
  /\ UNCHANGED <<jobs, events, call, handler, worker, lost, ages, checked, written>>

\* An exception out of a database call ends the handler or the thread where
\* it stands; a process that stops ends all of them, one after the other.
Busy(a) ==
  \/ call[a].step # "idle"
  \/ \E r \in Requests : a = RequestActor(r) /\ handler[r].at \notin {"idle", "done"}
  \/ \E j \in Requests : a = WorkerOf(j) /\ worker[j].at \notin {"none", "end"}

Lose(a) ==
  /\ a \notin lost
  /\ Busy(a)
  /\ Cardinality(lost) < MaxLost
  /\ lost' = lost \cup {a}
  /\ UNCHANGED <<contexts, jobs, events, call, handler, worker, ages, checked, written>>

RequestStep(r) ==
  \/ Arrive(r) \/ FindNone(r) \/ FindFresh(r) \/ FindStale(r) \/ FindGivesUp(r)
  \/ CreateInsert(r) \/ CreateEvent(r) \/ StartWorker(r)

WorkerStep(j) ==
  \/ WorkerLoad(j) \/ WorkerContextMissing(j) \/ WorkerRun(j) \/ WorkerGenerate(j)
  \/ WorkerExecutePlan(j) \/ WorkerReport(j) \/ WorkerSucceed(j) \/ WorkerFail(j)

WriteStep(a) == WriteUpdate(a) \/ WriteEvent(a)

Next ==
  \/ \E r \in Requests : RequestStep(r) \/ WorkerStep(r) \/ Age(r)
  \/ \E a \in Actors : WriteStep(a) \/ Lose(a)
  \/ \E d \in Readers, j \in Requests : ReadStale(d, j)
  \/ \E c \in Contexts : DeleteContext(c)

Spec == Init /\ [][Next]_vars

-----------------------------------------------------------------------------
(* The abstract lifecycle: its stage is the last status the thread wrote.   *)

Lifecycle == INSTANCE JobLifecycle WITH
  Jobs <- Requests, stage <- written, status <- [j \in Requests |-> jobs[j].status]

\* The database calls of all threads, interleaved, amount to the lifecycle:
\* a job moves along its edges, or is failed as expired.
ImplementsLifecycle == Lifecycle!Spec

-----------------------------------------------------------------------------
(* Properties. *)

\* The status and the error a job shows are always explained by its event
\* log, or by an actor that stands (or died) between the write of the job and
\* the append of the event: the two collections are written one after the
\* other, and this gap is the only one.
Explains(a, j) ==
  /\ call[a].job = j
  /\ call[a].step = "event"

EventLogExplainsJob ==
  \A j \in Requests : Exists(j) =>
    /\ \/ \E i \in DOMAIN events[j] : events[j][i].status = jobs[j].status
       \/ \E a \in Actors : Explains(a, j) /\ call[a].status = jobs[j].status
       \/ handler[j].at = "event"
    /\ jobs[j].error # "none" =>
         \/ \E i \in DOMAIN events[j] : events[j][i].error = jobs[j].error
         \/ \E a \in Actors : Explains(a, j) /\ call[a].error = jobs[j].error

\* The routes look for an active job before they create one, without a lock.
\* Two active jobs of one context and command, neither of which has ever been
\* terminal, can only come from requests that overlapped: neither job was
\* there when the other's request looked for the last time.
DuplicatesOnlyByOverlap ==
  \A j, k \in Requests :
    /\ j # k
    /\ Active(j) /\ Active(k)
    /\ jobs[j].scope = jobs[k].scope
    /\ ~jobs[j].ended /\ ~jobs[k].ended
    => j \notin checked[k]

\* A terminal status is only ever replaced where staleness is involved: a job
\* that was failed as stale is overwritten by its thread, which was late and
\* not dead, or a finished job is overwritten by a stale mark that was
\* already under way.  Nothing else reopens or rewrites a finished job.
TerminalRewritten(j) ==
  /\ Terminal(j)
  /\ jobs'[j].status # jobs[j].status

OnlyStalenessRewritesTerminal ==
  [][\A j \in Requests : TerminalRewritten(j) =>
       jobs[j].error = "stale" \/ jobs'[j].error = "stale"]_vars

-----------------------------------------------------------------------------
(* The inductive invariant behind these properties.                         *)

\* The thread of j has called update_pipeline_job_state or _progress for a
\* status of its own and the write is still to come.
Pending(j) ==
  call[WorkerOf(j)].step = "update" /\ call[WorkerOf(j)].error # "stale"

\* How far the thread of j is, how far the job was taken, and the pending
\* write between the two.
Position(j) ==
  /\ handler[j].at \in {"idle", "find", "create"} => written[j] = "absent"
  /\ written[j] = "absent" <=> jobs[j].status = "absent"
  /\ written[j] = "absent" => worker[j].at = "none"
  /\ handler[j].at \in {"event", "start"} => worker[j].at = "none" /\ written[j] = "queued"
  /\ worker[j].at = "none" => ~Pending(j) /\ written[j] \in {"absent", "queued"}
  /\ worker[j].at \in {"load", "context"} => ~Pending(j) /\ written[j] = "queued"
  /\ worker[j].at = "dispatch" =>
       IF Pending(j) THEN written[j] = "queued" /\ call[WorkerOf(j)].status = "running"
                     ELSE written[j] = "running"
  /\ worker[j].at = "pipeline" =>
       IF Pending(j)
         THEN written[j] = "running" /\ call[WorkerOf(j)].status = "policy_generating"
         ELSE written[j] = "policy_generating"
  /\ worker[j].at = "tasks" =>
       IF Pending(j)
         THEN /\ written[j] \in {"running", "context_task_running"}
              /\ call[WorkerOf(j)].status = "context_task_running"
         ELSE written[j] = "context_task_running"
  /\ worker[j].at = "end" =>
       IF Pending(j)
         THEN /\ call[WorkerOf(j)].status \in {"completed", "failed"}
              /\ call[WorkerOf(j)].status \in Lifecycle!Successors(written[j])
         ELSE written[j] \in {"completed", "failed"}

\* What a call under way may write: a thread only writes to its own job, and
\* everybody else only marks jobs stale.
CallShape(a) ==
  call[a].step # "idle" =>
    /\ call[a].job \in Requests
    /\ jobs[call[a].job].status # "absent"
    /\ call[a].status \in Statuses
    /\ call[a].type \in EventTypes
    /\ call[a].error = "stale" => call[a].status = "failed"
    /\ call[a].error # "stale" => a = WorkerOf(call[a].job)

\* The status shown is the thread's, or the job was failed as stale.
Shown(j) ==
  jobs[j].status = written[j] \/ (jobs[j].status = "failed" /\ jobs[j].error = "stale")

IInv ==
  /\ TypeOK
  /\ \A j \in Requests : Terminal(j) => jobs[j].ended
  /\ \A r \in Requests : \A j \in checked[r] : jobs[j].ended
  /\ \A j \in Requests : Position(j)
  /\ \A a \in Actors : CallShape(a)
  /\ \A j \in Requests : Shown(j)

-----------------------------------------------------------------------------
(* Fairness and liveness.  A handler or thread that has started goes on     *)
(* until it is lost: the calls it makes return, or time out.  Nothing       *)
(* forces a request to arrive, a thread to be lost or a job to age.         *)

ThreadsProceed ==
  /\ \A r \in Requests : WF_vars(handler[r].at # "idle" /\ RequestStep(r))
  /\ \A j \in Requests : WF_vars(WorkerStep(j))
  /\ \A a \in Actors : WF_vars(WriteStep(a))

FairSpec == Spec /\ ThreadsProceed

\* Somebody keeps a page open that polls the job, and time passes.
PagesPoll ==
  /\ \A j \in Requests : WF_vars(Age(j))
  /\ \A d \in Readers : WF_vars(\E j \in Requests : ReadStale(d, j))

Abandoned(j) == RequestActor(j) \in lost \/ WorkerOf(j) \in lost

\* A created job ends up terminal for good, whatever expires it meanwhile,
\* unless the handler or the thread that carries it died.
JobSettles ==
  \A j \in Requests : Exists(j) ~> [](Terminal(j) \/ Abandoned(j))

\* With somebody polling, even an abandoned job ends up terminal: the lazy
\* expiry is the only recovery there is.
PolledJobSettles ==
  PagesPoll => \A j \in Requests : Exists(j) ~> []Terminal(j)
=============================================================================
