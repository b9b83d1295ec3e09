------------------------ MODULE PipelineJobs_proofs -------------------------
(***************************************************************************)
(* Proofs about PipelineJobs: for any number of requests, readers, losses   *)
(* and expiries, the interleaved database calls implement JobLifecycle,     *)
(* finished jobs are only rewritten by staleness, and duplicate jobs come   *)
(* from overlapping requests only.                                          *)
(***************************************************************************)
EXTENDS PipelineJobs, TLAPS

USE ScopesAssumption, SweepsAssumption, ReportsAssumption, BoundsAssumption, NoJobAssumption

-----------------------------------------------------------------------------
\* Requests, threads and pages are actors, and no two of them are one.
LEMMA ActorNames ==
  /\ \A r \in Requests : RequestActor(r) \in Actors /\ WorkerOf(r) \in Actors
  /\ \A d \in Readers : ReaderActor(d) \in Actors
  /\ \A r, j \in Requests : RequestActor(r) # WorkerOf(j)
  /\ \A d \in Readers, j \in Requests : ReaderActor(d) # WorkerOf(j)
  /\ \A j, k \in Requests : WorkerOf(j) = WorkerOf(k) => j = k
BY DEF Actors, RequestActor, WorkerOf, ReaderActor

\* The initial states are typed.
LEMMA InitTypeOK == Init => TypeOK
BY ActorNames DEF Init, TypeOK, Handler, HandlerPlaces, Thread, ThreadPlaces, Job, Event, Call, Idle, Statuses, ActiveStatuses,
   TerminalStatuses, Errors, EventTypes

\* The calls the code makes are well-formed.
LEMMA CallsTyped ==
  /\ Idle \in Call
  /\ \A j \in Requests : MarkStale(j) \in Call /\ Progress(j) \in Call
  /\ \A j \in Requests, s \in Statuses, e \in Errors : Transition(j, s, e) \in Call
BY DEF Idle, MarkStale, Progress, Transition, Call, Statuses, ActiveStatuses,
   TerminalStatuses, Errors, EventTypes

\* The inductive invariant holds initially.
LEMMA InitIInv == Init => IInv
<1> SUFFICES ASSUME Init PROVE IInv
  OBVIOUS
<1>1. TypeOK
  BY InitTypeOK
<1>2. \A j \in Requests : jobs[j].status = "absent" /\ ~Terminal(j)
  BY DEF Init, Terminal, TerminalStatuses
<1>3. \A a \in Actors : CallShape(a)
  BY DEF Init, CallShape, Idle
<1>4. \A j \in Requests : Position(j)
  BY ActorNames DEF Init, Position, Pending, Idle
<1>5. \A j \in Requests : Shown(j)
  BY DEF Init, Shown
<1> QED
  BY <1>1, <1>2, <1>3, <1>4, <1>5 DEF IInv, Init

\* Moving a handler or a thread to another place keeps its record well-formed.
LEMMA HandlerMoves ==
  ASSUME TypeOK, NEW r \in Requests, NEW p \in HandlerPlaces
  PROVE  [handler EXCEPT ![r].at = p] \in [Requests -> Handler]
<1>1. handler[r] \in Handler
  BY DEF TypeOK
<1>2. [handler[r] EXCEPT !.at = p] \in Handler
  BY <1>1 DEF Handler
<1> QED
  BY <1>2 DEF TypeOK

\* A thread that moves on keeps the types of the threads.
LEMMA ThreadMoves ==
  ASSUME TypeOK, NEW j \in Requests, NEW p \in ThreadPlaces
  PROVE  [worker EXCEPT ![j].at = p] \in [Requests -> Thread]
<1>1. worker[j] \in Thread
  BY DEF TypeOK
<1>2. [worker[j] EXCEPT !.at = p] \in Thread
  BY <1>1 DEF Thread
<1> QED
  BY <1>2 DEF TypeOK

\* A call that is replaced keeps the types of the calls.
LEMMA CallReplaced ==
  ASSUME TypeOK, NEW a \in Actors, NEW c \in Call
  PROVE  [call EXCEPT ![a] = c] \in [Actors -> Call]
BY DEF TypeOK

\* Every step keeps the types.
LEMMA StepTypeOK ==
  ASSUME TypeOK, \A a \in Actors : CallShape(a), [Next]_vars
  PROVE  TypeOK'
<1> USE DEF TypeOK
<1>0. /\ HandlerPlaces = {"idle", "find", "create", "event", "start", "done"}
      /\ ThreadPlaces = {"none", "load", "context", "dispatch", "pipeline", "tasks", "end"}
      /\ {"queued", "running", "policy_generating", "context_task_running", "completed",
           "failed"} \subseteq Statuses
      /\ {"none", "failure"} \subseteq Errors
  BY DEF HandlerPlaces, ThreadPlaces, Statuses, ActiveStatuses, TerminalStatuses, Errors
<1>1. CASE UNCHANGED vars
  BY <1>1 DEF vars
<1>2. ASSUME NEW a \in Actors, WriteUpdate(a) PROVE TypeOK'
  <2>1. /\ call[a].job \in Requests
        /\ call[a].status \in Statuses
        /\ call[a].error \in Errors
    BY <1>2 DEF WriteUpdate, CallShape, Call
  <2>2. jobs' \in [Requests -> Job]
    <3>1. jobs[call[a].job] \in Job
      BY <2>1
    <3>2. Stored(jobs[call[a].job], call[a]) \in Job
      BY <2>1, <3>1 DEF Stored, Job
    <3> QED
      BY <1>2, <2>1, <3>2 DEF WriteUpdate
  <2>3. call' \in [Actors -> Call]
    <3>0. call[a] \in Call
      OBVIOUS
    <3>1. [call[a] EXCEPT !.step = "event"] \in Call
      BY <3>0 DEF Call
    <3> QED
      BY <1>2, <3>1 DEF WriteUpdate
  <2>4. written' \in [Requests -> Statuses \cup {"absent"}]
    BY <1>2, <2>1 DEF WriteUpdate
  <2> QED
    BY <1>2, <2>2, <2>3, <2>4 DEF WriteUpdate
<1>3. ASSUME NEW a \in Actors, WriteEvent(a) PROVE TypeOK'
  <2>1. /\ call[a].job \in Requests
        /\ EventOf(call[a]) \in Event
    BY <1>3 DEF WriteEvent, CallShape, Call, Event, EventOf
  <2>2. events' \in [Requests -> Seq(Event)]
    BY <1>3, <2>1 DEF WriteEvent
  <2>3. call' \in [Actors -> Call]
    BY <1>3, <2>1, CallsTyped DEF WriteEvent
  <2> QED
    BY <1>3, <2>2, <2>3 DEF WriteEvent
<1>4. ASSUME NEW r \in Requests, RequestStep(r) PROVE TypeOK'
  <2>1. CASE Arrive(r)
    <3>1. handler' \in [Requests -> Handler]
      BY <1>0, <2>1, HandlerMoves DEF Arrive
    <3> QED
      BY <2>1, <3>1 DEF Arrive
  <2>2. CASE FindNone(r)
    <3>1. handler' \in [Requests -> Handler]
      BY <1>0, <2>2, HandlerMoves DEF FindNone
    <3>2. checked' \in [Requests -> SUBSET Requests]
      BY <2>2 DEF FindNone, JobsIn
    <3> QED
      BY <2>2, <3>1, <3>2 DEF FindNone
  <2>3. CASE FindFresh(r)
    <3>1. handler' \in [Requests -> Handler]
      BY <1>0, <2>3, HandlerMoves DEF FindFresh
    <3> QED
      BY <2>3, <3>1 DEF FindFresh
  <2>4. CASE FindStale(r)
    <3>1. handler[r] \in Handler /\ handler[r].sweeps < MaxSweeps
      BY <2>4 DEF FindStale
    <3>0. handler[r].sweeps + 1 \in 0..MaxSweeps
      BY <3>1 DEF Handler
    <3>2. [handler[r] EXCEPT !.sweeps = @ + 1] \in Handler
      BY <3>0, <3>1 DEF Handler
    <3>3. handler' \in [Requests -> Handler]
      BY <2>4, <3>2 DEF FindStale
    <3>4. call' \in [Actors -> Call]
      BY <2>4, CallsTyped, CallReplaced, ActorNames DEF FindStale, ActiveIn, JobsIn
    <3> QED
      BY <2>4, <3>3, <3>4 DEF FindStale
  <2>5. CASE FindGivesUp(r)
    <3>1. handler' \in [Requests -> Handler]
      BY <1>0, <2>5, HandlerMoves DEF FindGivesUp
    <3> QED
      BY <2>5, <3>1 DEF FindGivesUp
  <2>6. CASE CreateInsert(r)
    <3>1. handler' \in [Requests -> Handler]
      BY <1>0, <2>6, HandlerMoves DEF CreateInsert
    <3>2. jobs[r] \in Job
      OBVIOUS
    <3>3. [jobs[r] EXCEPT !.status = "queued"] \in Job
      BY <1>0, <3>2 DEF Job
    <3>4. jobs' \in [Requests -> Job]
      BY <2>6, <3>3 DEF CreateInsert
    <3>5. written' \in [Requests -> Statuses \cup {"absent"}]
      BY <1>0, <2>6 DEF CreateInsert
    <3> QED
      BY <2>6, <3>1, <3>4, <3>5 DEF CreateInsert
  <2>7. CASE CreateEvent(r)
    <3>1. handler' \in [Requests -> Handler]
      BY <1>0, <2>7, HandlerMoves DEF CreateEvent
    <3>2. [type |-> "job_created", status |-> "queued", error |-> "none"] \in Event
      BY <1>0 DEF Event, EventTypes
    <3>3. events' \in [Requests -> Seq(Event)]
      BY <2>7, <3>2 DEF CreateEvent
    <3> QED
      BY <2>7, <3>1, <3>3 DEF CreateEvent
  <2>8. CASE StartWorker(r)
    <3>1. handler' \in [Requests -> Handler]
      BY <1>0, <2>8, HandlerMoves DEF StartWorker
    <3>2. worker' \in [Requests -> Thread]
      BY <1>0, <2>8, ThreadMoves DEF StartWorker
    <3> QED
      BY <2>8, <3>1, <3>2 DEF StartWorker
  <2> QED
    BY <1>4, <2>1, <2>2, <2>3, <2>4, <2>5, <2>6, <2>7, <2>8 DEF RequestStep
<1>5. ASSUME NEW j \in Requests, WorkerStep(j) PROVE TypeOK'
  <2>0. WorkerOf(j) \in Actors
    BY ActorNames
  <2>a. UNCHANGED <<contexts, jobs, events, handler, lost, ages, checked, written>>
    BY <1>5 DEF WorkerStep, WorkerLoad, WorkerContextMissing, WorkerRun, WorkerGenerate,
       WorkerExecutePlan, WorkerReport, WorkerSucceed, WorkerFail
  <2>b. call' \in [Actors -> Call]
    <3>1. \E c \in Call : call' = [call EXCEPT ![WorkerOf(j)] = c] \/ call' = call
      BY <1>0, <1>5, CallsTyped DEF WorkerStep, WorkerLoad, WorkerContextMissing, WorkerRun,
         WorkerGenerate, WorkerExecutePlan, WorkerReport, WorkerSucceed, WorkerFail
    <3> QED
      BY <2>0, <3>1, CallReplaced
  <2>c. worker' \in [Requests -> Thread]
    <3>1. CASE \E p \in ThreadPlaces : worker' = [worker EXCEPT ![j].at = p]
      BY <3>1, ThreadMoves
    <3>2. CASE WorkerReport(j)
      <4>1. worker[j] \in Thread /\ worker[j].reports < MaxReports
        BY <3>2 DEF WorkerReport
      <4>2. worker[j].reports + 1 \in 0..MaxReports
        BY <4>1 DEF Thread
      <4>3. [worker[j] EXCEPT !.reports = @ + 1] \in Thread
        BY <4>1, <4>2 DEF Thread
      <4> QED
        BY <3>2, <4>3 DEF WorkerReport
    <3> QED
      BY <1>0, <1>5, <3>1, <3>2 DEF WorkerStep, WorkerLoad, WorkerContextMissing, WorkerRun,
         WorkerGenerate, WorkerExecutePlan, WorkerSucceed, WorkerFail
  <2> QED
    BY <2>a, <2>b, <2>c
<1>6. ASSUME NEW j \in Requests, Age(j) PROVE TypeOK'
  <2>1. jobs[j] \in Job
    OBVIOUS
  <2>2. [jobs[j] EXCEPT !.aged = TRUE] \in Job
    BY <2>1 DEF Job
  <2>3. jobs' \in [Requests -> Job]
    BY <1>6, <2>2 DEF Age
  <2>4. ages' \in 0..MaxAges
    BY <1>6 DEF Age
  <2> QED
    BY <1>6, <2>3, <2>4 DEF Age
<1>7. ASSUME NEW a \in Actors, Lose(a) PROVE TypeOK'
  BY <1>7 DEF Lose
<1>8. ASSUME NEW d \in Readers, NEW j \in Requests, ReadStale(d, j) PROVE TypeOK'
  <2>1. call' \in [Actors -> Call]
    BY <1>8, CallsTyped, CallReplaced, ActorNames DEF ReadStale
  <2> QED
    BY <1>8, <2>1 DEF ReadStale
<1>9. ASSUME NEW c \in Contexts, DeleteContext(c) PROVE TypeOK'
  BY <1>9 DEF DeleteContext
<1> QED
  BY <1>1, <1>2, <1>3, <1>4, <1>5, <1>6, <1>7, <1>8, <1>9 DEF Next, WriteStep

-----------------------------------------------------------------------------
\* Terminal jobs carry completed_at, and so do the jobs a request has seen
\* inactive.  Only three actions touch the jobs collection.
LEMMA StepEnded ==
  ASSUME IInv, [Next]_vars
  PROVE  /\ \A j \in Requests : (Terminal(j) => jobs[j].ended)'
         /\ \A r \in Requests : \A j \in checked'[r] : jobs'[j].ended
<1> DEFINE Kept == \A j \in Requests : jobs[j].ended => jobs'[j].ended
           Goal == \A j \in Requests : Terminal(j)' => jobs'[j].ended
<1> USE DEF IInv, TypeOK
<1>1. CASE UNCHANGED vars
  BY <1>1 DEF vars, Terminal
<1>2. ASSUME NEW a \in Actors, WriteUpdate(a) PROVE Kept /\ Goal /\ checked' = checked
  <2>1. call[a].job \in Requests
    BY <1>2 DEF WriteUpdate, CallShape
  <2> QED
    BY <1>2, <2>1 DEF WriteUpdate, Stored, Terminal
<1>3. ASSUME NEW r \in Requests, CreateInsert(r) PROVE Kept /\ Goal /\ checked' = checked
  BY <1>3 DEF CreateInsert, Terminal, TerminalStatuses, Job
<1>4. ASSUME NEW j \in Requests, Age(j) PROVE Kept /\ Goal /\ checked' = checked
  BY <1>4 DEF Age, Terminal, Job
<1>5. ASSUME NEW r \in Requests, FindNone(r)
      PROVE  jobs' = jobs /\ \A k \in Requests : \A j \in checked'[k] : jobs[j].ended
  <2>1. \A j \in JobsIn(handler[r].scope) : jobs[j].ended
    BY <1>5 DEF FindNone, ActiveIn, JobsIn, Active, Terminal, Exists, Statuses, Job
  <2> QED
    BY <1>5, <2>1 DEF FindNone
<1>6. ASSUME NEW r \in Requests, RequestStep(r), ~CreateInsert(r), ~FindNone(r)
      PROVE  jobs' = jobs /\ checked' = checked
  BY <1>6 DEF RequestStep, Arrive, FindFresh, FindStale, FindGivesUp, CreateEvent,
     StartWorker
<1>7. ASSUME NEW j \in Requests, WorkerStep(j) PROVE jobs' = jobs /\ checked' = checked
  BY <1>7 DEF WorkerStep, WorkerLoad, WorkerContextMissing, WorkerRun, WorkerGenerate,
     WorkerExecutePlan, WorkerReport, WorkerSucceed, WorkerFail
<1>8. ASSUME \/ \E a \in Actors : WriteEvent(a) \/ Lose(a)
             \/ \E d \in Readers, j \in Requests : ReadStale(d, j)
             \/ \E c \in Contexts : DeleteContext(c)
      PROVE  jobs' = jobs /\ checked' = checked
  BY <1>8 DEF WriteEvent, Lose, ReadStale, DeleteContext
<1>9. CASE jobs' = jobs /\ checked' = checked
  BY <1>9 DEF Terminal
<1>10. CASE Kept /\ Goal /\ checked' = checked
  BY <1>10
<1> QED
  BY <1>1, <1>2, <1>3, <1>4, <1>5, <1>6, <1>7, <1>8, <1>9, <1>10 DEF Next, WriteStep, Terminal

\* Calls keep their shape.
LEMMA StepCallShape ==
  ASSUME IInv, [Next]_vars
  PROVE  \A a \in Actors : CallShape(a)'
<1> USE DEF IInv, TypeOK
<1> DEFINE Kept == \A j \in Requests : jobs[j].status # "absent" => jobs'[j].status # "absent"
<1>1. CASE UNCHANGED vars
  BY <1>1 DEF vars, CallShape
<1>0. ASSUME call' = call, Kept PROVE \A a \in Actors : CallShape(a)'
  BY <1>0 DEF CallShape
<1>2. ASSUME NEW b \in Actors, WriteUpdate(b) PROVE \A a \in Actors : CallShape(a)'
  <2>1. CallShape(b) /\ call[b].step # "idle"
    BY <1>2 DEF WriteUpdate
  <2>2. Kept
    BY <1>2, <2>1 DEF WriteUpdate, Stored, CallShape, Statuses, ActiveStatuses, TerminalStatuses
  <2>3. \A a \in Actors : /\ call'[a].job = call[a].job /\ call'[a].status = call[a].status
                          /\ call'[a].type = call[a].type /\ call'[a].error = call[a].error
                          /\ call'[a].step # "idle" => call[a].step # "idle"
    BY <1>2, <2>1 DEF WriteUpdate
  <2>4. ASSUME NEW a \in Actors PROVE CallShape(a)'
    <3>1. CallShape(a)
      OBVIOUS
    <3> QED
      BY <2>2, <2>3, <3>1 DEF CallShape
  <2> QED
    BY <2>4
\* Every other call is made by one actor for an existing job.
<1>3. ASSUME NEW b \in Actors, jobs' = jobs, NEW c, call' = [call EXCEPT ![b] = c],
             \/ c = Idle
             \/ \E j \in Requests : Exists(j) /\ c = MarkStale(j)
             \/ \E j \in Requests : /\ Exists(j) /\ b = WorkerOf(j)
                                   /\ \/ c = Progress(j)
                                      \/ \E s \in Statuses, e \in Errors : c = Transition(j, s, e) /\ e # "stale"
      PROVE  \A a \in Actors : CallShape(a)'
  <2>1. \A a \in Actors : a # b => CallShape(a)'
    BY <1>3 DEF CallShape
  <2>2. call'[b] = c
    BY <1>3
  <2>3. CallShape(b)'
    BY <1>3, <2>2 DEF CallShape, Idle, MarkStale, Progress, Transition, Exists, Statuses,
       ActiveStatuses, TerminalStatuses, EventTypes
  <2> QED
    BY <2>1, <2>3
<1>4. ASSUME NEW b \in Actors, WriteEvent(b) PROVE \A a \in Actors : CallShape(a)'
  <2>1. call[b].job \in Requests /\ Exists(call[b].job)
    BY <1>4 DEF WriteEvent, CallShape, Exists
  <2> QED
    BY <1>3, <1>4, <2>1 DEF WriteEvent
<1>5. ASSUME NEW r \in Requests, RequestStep(r) PROVE \A a \in Actors : CallShape(a)'
  <2>1. CASE FindStale(r)
    BY <1>3, <2>1, ActorNames DEF FindStale, ActiveIn, JobsIn
  <2>2. CASE CreateInsert(r)
    <3>1. call' = call /\ Kept
      BY <2>2 DEF CreateInsert
    <3> QED
      BY <1>0, <3>1
  <2>3. CASE ~FindStale(r) /\ ~CreateInsert(r)
    <3>1. call' = call /\ Kept
      BY <1>5, <2>3 DEF RequestStep, Arrive, FindNone, FindFresh, FindGivesUp, CreateEvent,
         StartWorker
    <3> QED
      BY <1>0, <3>1
  <2> QED
    BY <2>1, <2>2, <2>3
<1>6. ASSUME NEW j \in Requests, WorkerStep(j) PROVE \A a \in Actors : CallShape(a)'
  <2>0. /\ {"running", "policy_generating", "context_task_running", "completed", "failed"}
             \subseteq Statuses
        /\ {"none", "failure"} \subseteq Errors
        /\ WorkerOf(j) \in Actors
    BY ActorNames DEF Statuses, ActiveStatuses, TerminalStatuses, Errors
  <2>1. Exists(j) /\ jobs' = jobs
    BY <1>6 DEF WorkerStep, WorkerLoad, WorkerContextMissing, WorkerRun, WorkerGenerate,
       WorkerExecutePlan, WorkerReport, WorkerSucceed, WorkerFail, WorkerAt, Position, Exists
  <2>2. CASE call' = call
    BY <1>0, <2>1, <2>2
  <2>3. CASE WorkerLoad(j)
    BY <1>3, <2>0, <2>1, <2>2, <2>3 DEF WorkerLoad
  <2>4. CASE WorkerContextMissing(j)
    BY <1>3, <2>0, <2>1, <2>4 DEF WorkerContextMissing
  <2>5. CASE WorkerRun(j)
    BY <1>3, <2>0, <2>1, <2>5 DEF WorkerRun
  <2>6. CASE WorkerGenerate(j)
    BY <1>3, <2>0, <2>1, <2>6 DEF WorkerGenerate
  <2>7. CASE WorkerExecutePlan(j)
    BY <1>3, <2>0, <2>1, <2>7 DEF WorkerExecutePlan
  <2>8. CASE WorkerReport(j)
    BY <1>3, <2>0, <2>1, <2>8 DEF WorkerReport
  <2>9. CASE WorkerSucceed(j)
    BY <1>3, <2>0, <2>1, <2>9 DEF WorkerSucceed
  <2>10. CASE WorkerFail(j)
    BY <1>3, <2>0, <2>1, <2>10 DEF WorkerFail
  <2> QED
    BY <1>6, <2>3, <2>4, <2>5, <2>6, <2>7, <2>8, <2>9, <2>10 DEF WorkerStep
<1>7. ASSUME NEW j \in Requests, Age(j) PROVE \A a \in Actors : CallShape(a)'
  <2>1. call' = call /\ Kept
    BY <1>7 DEF Age
  <2> QED
    BY <1>0, <2>1
<1>8. ASSUME NEW d \in Readers, NEW j \in Requests, ReadStale(d, j)
      PROVE  \A a \in Actors : CallShape(a)'
  <2>1. Exists(j)
    BY <1>8 DEF ReadStale, IsStale, Active, ActiveStatuses, Exists
  <2> QED
    BY <1>3, <1>8, <2>1, ActorNames DEF ReadStale
<1>9. ASSUME \/ \E a \in Actors : Lose(a)
             \/ \E c \in Contexts : DeleteContext(c)
      PROVE  \A a \in Actors : CallShape(a)'
  BY <1>0, <1>9 DEF Lose, DeleteContext
<1> QED
  BY <1>1, <1>2, <1>4, <1>5, <1>6, <1>7, <1>8, <1>9 DEF Next, WriteStep

\* The thread, the job it takes along and the write in between stay in step.
LEMMA StepPosition ==
  ASSUME IInv, [Next]_vars
  PROVE  \A j \in Requests : Position(j)'
<1> USE DEF IInv
\* Position(j) reads four things only.
<1>0. ASSUME NEW j \in Requests,
             handler'[j].at = handler[j].at, worker'[j].at = worker[j].at,
             written'[j] = written[j], jobs'[j].status = jobs[j].status,
             Pending(j)' <=> Pending(j),
             Pending(j) => call'[WorkerOf(j)].status = call[WorkerOf(j)].status
      PROVE  Position(j)'
  BY <1>0 DEF Position
<1>1. CASE UNCHANGED vars
  BY <1>1 DEF vars, Position, Pending
<1>2. ASSUME NEW b \in Actors, WriteUpdate(b) PROVE \A j \in Requests : Position(j)'
  <2>1. CallShape(b) /\ call[b].job \in Requests /\ call[b].step = "update"
    BY <1>2 DEF WriteUpdate, CallShape
  <2>2. ASSUME NEW j \in Requests PROVE Position(j)'
    <3>1. CASE b = WorkerOf(j) /\ call[b].error # "stale"
      <4>1. call[b].job = j /\ Pending(j)
        BY <2>1, <3>1, ActorNames DEF CallShape, Pending
      <4>2. written'[j] = call[b].status /\ jobs'[j].status = call[b].status
        BY <1>2, <3>1, <4>1 DEF WriteUpdate, Stored, TypeOK
      <4>3. ~Pending(j)'
        BY <1>2, <3>1 DEF WriteUpdate, Pending, TypeOK
      <4>4. handler' = handler /\ worker' = worker
        BY <1>2 DEF WriteUpdate
      <4>5. call[b].status \in Statuses
        BY <2>1 DEF CallShape
      <4>6. Position(j)
        OBVIOUS
      <4>7. worker[j] \in Thread
        BY DEF TypeOK
      <4>8. call[b].status # "absent" /\ worker[j].at \in ThreadPlaces
        BY <4>5, <4>7 DEF Statuses, ActiveStatuses, TerminalStatuses, Thread
      <4>9. /\ worker[j].at \in {"dispatch", "pipeline", "tasks", "end"}
            /\ written[j] # "absent"
        BY <4>1, <4>6, <4>8 DEF Position, ThreadPlaces, Lifecycle!Successors
      <4>10. CASE worker[j].at # "end"
        BY <3>1, <4>1, <4>2, <4>3, <4>4, <4>6, <4>8, <4>9, <4>10 DEF Position
      <4>11. CASE worker[j].at = "end"
        BY <3>1, <4>1, <4>2, <4>3, <4>4, <4>6, <4>8, <4>9, <4>11 DEF Position
      <4> QED
        BY <4>10, <4>11
    <3>2. CASE ~(b = WorkerOf(j) /\ call[b].error # "stale")
      <4>1. written'[j] = written[j]
        BY <1>2, <2>1, <3>2, ActorNames DEF WriteUpdate, TypeOK
      <4>2. Pending(j)' <=> Pending(j)
        BY <1>2, <3>2, ActorNames DEF WriteUpdate, Pending, TypeOK
      <4>3. Pending(j) => call'[WorkerOf(j)].status = call[WorkerOf(j)].status
        BY <1>2, <3>2, ActorNames DEF WriteUpdate, Pending, TypeOK
      <4>4. jobs'[j].status = "absent" <=> jobs[j].status = "absent"
        BY <1>2, <2>1 DEF WriteUpdate, Stored, TypeOK, CallShape, Statuses, ActiveStatuses,
           TerminalStatuses
      <4>5. handler' = handler /\ worker' = worker
        BY <1>2 DEF WriteUpdate
      <4>6. Position(j)
        OBVIOUS
      <4> QED
        BY <4>1, <4>2, <4>3, <4>4, <4>5, <4>6 DEF Position
    <3> QED
      BY <3>1, <3>2
  <2> QED
    BY <2>2
<1>3. ASSUME NEW b \in Actors, WriteEvent(b) PROVE \A j \in Requests : Position(j)'
  <2>1. ASSUME NEW j \in Requests PROVE ~Pending(j)' <=> ~Pending(j)
    BY <1>3, ActorNames DEF WriteEvent, Pending, Idle, MarkStale, Transition, TypeOK
  <2>2. ASSUME NEW j \in Requests, Pending(j)
        PROVE  call'[WorkerOf(j)].status = call[WorkerOf(j)].status
    BY <1>3, <2>2, ActorNames DEF WriteEvent, Pending, TypeOK
  <2> QED
    BY <1>0, <1>3, <2>1, <2>2 DEF WriteEvent
<1>4. ASSUME NEW r \in Requests, RequestStep(r) PROVE \A j \in Requests : Position(j)'
  <2>1. \A j \in Requests : call'[WorkerOf(j)] = call[WorkerOf(j)]
    BY <1>4, ActorNames DEF RequestStep, Arrive, FindNone, FindFresh, FindStale, FindGivesUp,
       CreateInsert, CreateEvent, StartWorker, TypeOK
  <2>2. \A j \in Requests : j # r => /\ handler'[j] = handler[j] /\ worker'[j] = worker[j]
                                   /\ written'[j] = written[j] /\ jobs'[j] = jobs[j]
    BY <1>4 DEF RequestStep, Arrive, FindNone, FindFresh, FindStale, FindGivesUp,
       CreateInsert, CreateEvent, StartWorker, TypeOK
  <2>3. \A j \in Requests : j # r => Position(j)'
    BY <2>1, <2>2 DEF Position, Pending
  <2>4. Position(r) /\ handler[r] \in Handler
    BY DEF TypeOK
  <2>5. CASE CreateInsert(r)
    BY <2>1, <2>3, <2>4, <2>5 DEF CreateInsert, Position, Pending, TypeOK
  <2>6. CASE StartWorker(r)
    BY <2>1, <2>3, <2>4, <2>6 DEF StartWorker, Position, Pending, TypeOK
  <2>7. CASE ~CreateInsert(r) /\ ~StartWorker(r)
    <3>1. worker' = worker /\ written' = written /\ jobs' = jobs
      BY <1>4, <2>7 DEF RequestStep, Arrive, FindNone, FindFresh, FindStale, FindGivesUp,
         CreateEvent
    <3>2. \/ handler'[r].at \in {"find", "create", "done"} /\ handler[r].at \in {"idle", "find"}
          \/ handler'[r].at = "start" /\ handler[r].at = "event"
      BY <1>4, <2>7 DEF RequestStep, Arrive, Finding, FindNone, FindFresh, FindStale,
         FindGivesUp, CreateEvent, TypeOK, Handler
    <3> QED
      BY <2>1, <2>3, <2>4, <3>1, <3>2 DEF Position, Pending
  <2> QED
    BY <2>5, <2>6, <2>7
<1>5. ASSUME NEW k \in Requests, WorkerStep(k) PROVE \A j \in Requests : Position(j)'
  <2>1. \A j \in Requests : j # k => /\ call'[WorkerOf(j)] = call[WorkerOf(j)]
                                   /\ worker'[j] = worker[j]
    BY <1>5, ActorNames DEF WorkerStep, WorkerLoad, WorkerContextMissing, WorkerRun,
       WorkerGenerate, WorkerExecutePlan, WorkerReport, WorkerSucceed, WorkerFail, TypeOK
  <2>2. handler' = handler /\ written' = written /\ jobs' = jobs
    BY <1>5 DEF WorkerStep, WorkerLoad, WorkerContextMissing, WorkerRun,
       WorkerGenerate, WorkerExecutePlan, WorkerReport, WorkerSucceed, WorkerFail
  <2>3. \A j \in Requests : j # k => Position(j)'
    BY <2>1, <2>2 DEF Position, Pending
  <2>4. Position(k) /\ ~Pending(k) /\ WorkerOf(k) \in Actors
    BY <1>5, ActorNames DEF WorkerStep, WorkerLoad, WorkerContextMissing, WorkerRun,
       WorkerGenerate, WorkerExecutePlan, WorkerReport, WorkerSucceed, WorkerFail, WorkerAt,
       Free, Pending
  <2>5. CASE WorkerLoad(k)
    <3>1. ~Pending(k)' /\ worker[k].at = "load" /\ worker'[k].at = "context"
      BY <2>4, <2>5 DEF WorkerLoad, WorkerAt, Pending, MarkStale, Transition, TypeOK
    <3> QED
      BY <2>2, <2>3, <2>4, <3>1 DEF Position
  <2>6. ASSUME NEW s \in Statuses, NEW e \in {"none", "failure"}, NEW p \in ThreadPlaces,
               worker'[k].at = p,
               call' = [call EXCEPT ![WorkerOf(k)] = Transition(k, s, e)]
        PROVE  Pending(k)' /\ call'[WorkerOf(k)].status = s
    BY <2>4, <2>6 DEF Pending, Transition, TypeOK
  <2>7. CASE ~WorkerLoad(k)
    <3>1. Pending(k)'
      BY <1>5, <2>4, <2>7 DEF WorkerStep, WorkerContextMissing, WorkerRun, WorkerGenerate,
         WorkerExecutePlan, WorkerReport, WorkerSucceed, WorkerFail, Pending, Transition,
         Progress, TypeOK
    <3>2. LET s == call'[WorkerOf(k)].status  IN
          \/ worker[k].at = "context" /\ worker'[k].at = "end" /\ s = "failed"
          \/ worker[k].at = "context" /\ worker'[k].at = "dispatch" /\ s = "running"
          \/ worker[k].at = "dispatch" /\ worker'[k].at = "pipeline" /\ s = "policy_generating"
          \/ worker[k].at = "dispatch" /\ worker'[k].at = "tasks" /\ s = "context_task_running"
          \/ worker[k].at = "tasks" /\ worker'[k].at = "tasks" /\ s = "context_task_running"
          \/ /\ worker[k].at \in {"pipeline", "tasks"} /\ worker'[k].at = "end"
             /\ s \in {"completed", "failed"}
      <4>1. CASE WorkerContextMissing(k)
        BY <2>4, <4>1 DEF WorkerContextMissing, WorkerAt, Transition, TypeOK, Thread
      <4>2. CASE WorkerRun(k)
        BY <2>4, <4>2 DEF WorkerRun, WorkerAt, Transition, TypeOK, Thread
      <4>3. CASE WorkerGenerate(k)
        BY <2>4, <4>3 DEF WorkerGenerate, WorkerAt, Transition, TypeOK, Thread
      <4>4. CASE WorkerExecutePlan(k)
        BY <2>4, <4>4 DEF WorkerExecutePlan, WorkerAt, Transition, TypeOK, Thread
      <4>5. CASE WorkerReport(k)
        BY <2>4, <4>5 DEF WorkerReport, WorkerAt, Progress, TypeOK, Thread
      <4>6. CASE WorkerSucceed(k)
        BY <2>4, <4>6 DEF WorkerSucceed, WorkerAt, Transition, TypeOK, Thread
      <4>7. CASE WorkerFail(k)
        BY <2>4, <4>7 DEF WorkerFail, WorkerAt, Transition, TypeOK, Thread
      <4> QED
        BY <1>5, <2>7, <4>1, <4>2, <4>3, <4>4, <4>5, <4>6, <4>7 DEF WorkerStep
    <3> QED
      BY <2>2, <2>3, <2>4, <3>1, <3>2 DEF Position, Lifecycle!Successors
  <2> QED
    BY <2>5, <2>7
<1>6. ASSUME NEW k \in Requests, Age(k) PROVE \A j \in Requests : Position(j)'
  <2>1. \A j \in Requests : jobs'[j].status = jobs[j].status
    BY <1>6 DEF Age, TypeOK, Job
  <2> QED
    BY <1>0, <1>6, <2>1 DEF Age, Pending
<1>7. ASSUME NEW d \in Readers, NEW k \in Requests, ReadStale(d, k)
      PROVE  \A j \in Requests : Position(j)'
  <2>1. \A j \in Requests : call'[WorkerOf(j)] = call[WorkerOf(j)]
    BY <1>7, ActorNames DEF ReadStale, TypeOK
  <2> QED
    BY <1>7, <2>1 DEF ReadStale, Position, Pending
<1>8. ASSUME \/ \E a \in Actors : Lose(a)
             \/ \E c \in Contexts : DeleteContext(c)
      PROVE  \A j \in Requests : Position(j)'
  BY <1>8 DEF Lose, DeleteContext, Position, Pending
<1> QED
  BY <1>1, <1>2, <1>3, <1>4, <1>5, <1>6, <1>7, <1>8 DEF Next, WriteStep

\* A status that is not the thread's comes with the stale error.
LEMMA StepShown ==
  ASSUME IInv, [Next]_vars
  PROVE  \A j \in Requests : Shown(j)'
<1> USE DEF IInv
<1>0. ASSUME UNCHANGED <<jobs, written>> PROVE \A j \in Requests : Shown(j)'
  BY <1>0 DEF Shown
<1>1. CASE UNCHANGED vars
  BY <1>0, <1>1 DEF vars
<1>2. ASSUME NEW a \in Actors, WriteUpdate(a) PROVE \A j \in Requests : Shown(j)'
  <2>1. CallShape(a) /\ call[a].step # "idle" /\ call[a].job \in Requests
    BY <1>2 DEF WriteUpdate, CallShape
  <2>2. CASE call[a].error = "stale"
    BY <1>2, <2>1, <2>2 DEF WriteUpdate, Stored, CallShape, Shown, TypeOK
  <2>3. CASE call[a].error # "stale"
    <3>1. a = WorkerOf(call[a].job)
      BY <2>1, <2>3 DEF CallShape
    <3> QED
      BY <1>2, <2>1, <2>3, <3>1 DEF WriteUpdate, Stored, Shown, TypeOK
  <2> QED
    BY <2>2, <2>3
<1>3. ASSUME NEW r \in Requests, CreateInsert(r) PROVE \A j \in Requests : Shown(j)'
  BY <1>3 DEF CreateInsert, Shown, TypeOK, Job
<1>4. ASSUME NEW k \in Requests, Age(k) PROVE \A j \in Requests : Shown(j)'
  BY <1>4 DEF Age, Shown, TypeOK, Job
<1>5. ASSUME NEW r \in Requests, RequestStep(r), ~CreateInsert(r)
      PROVE  UNCHANGED <<jobs, written>>
  BY <1>5 DEF RequestStep, Arrive, FindNone, FindFresh, FindStale, FindGivesUp,
     CreateEvent, StartWorker
<1>6. ASSUME NEW k \in Requests, WorkerStep(k) PROVE UNCHANGED <<jobs, written>>
  BY <1>6 DEF WorkerStep, WorkerLoad, WorkerContextMissing, WorkerRun, WorkerGenerate,
     WorkerExecutePlan, WorkerReport, WorkerSucceed, WorkerFail
<1>7. ASSUME \/ \E a \in Actors : WriteEvent(a) \/ Lose(a)
             \/ \E d \in Readers, k \in Requests : ReadStale(d, k)
             \/ \E c \in Contexts : DeleteContext(c)
      PROVE  UNCHANGED <<jobs, written>>
  BY <1>7 DEF WriteEvent, Lose, ReadStale, DeleteContext
<1> QED
  BY <1>0, <1>1, <1>2, <1>3, <1>4, <1>5, <1>6, <1>7 DEF Next, WriteStep

\* Every step keeps the inductive invariant.
LEMMA StepIInv == IInv /\ [Next]_vars => IInv'
<1> SUFFICES ASSUME IInv, [Next]_vars PROVE IInv'
  OBVIOUS
<1>1. TypeOK'
  BY StepTypeOK DEF IInv
<1> QED
  BY <1>1, StepEnded, StepCallShape, StepPosition, StepShown DEF IInv

\* The inductive invariant holds in every reachable state, for any number of
\* requests, readers, losses and expiries; TypeOK is one of its parts.
THEOREM Invariance == Spec => []IInv
<1>1. Init => IInv
  BY InitIInv
<1>2. IInv /\ [Next]_vars => IInv'
  BY StepIInv
<1> QED
  BY <1>1, <1>2, PTL DEF Spec

\* Every variable keeps its type.
THEOREM TypeCorrect == Spec => []TypeOK
<1>1. IInv => TypeOK
  BY DEF IInv
<1> QED
  BY <1>1, Invariance, PTL

\* Two never-finished active jobs of one context and command come from
\* requests that overlapped: a job its creator could see is not active.
THEOREM NoDuplicateSeen == Spec => []DuplicatesOnlyByOverlap
<1>1. IInv => DuplicatesOnlyByOverlap
  BY DEF IInv, DuplicatesOnlyByOverlap
<1> QED
  BY <1>1, Invariance, PTL

-----------------------------------------------------------------------------
\* The writes that change what a job shows, as steps of the lifecycle.
LEMMA WriteMapsToLifecycle ==
  ASSUME IInv, NEW a \in Actors, WriteUpdate(a), NEW j \in Requests, call[a].job = j
  PROVE  \/ Lifecycle!Advance(j) /\ call[a].error # "stale"
         \/ Lifecycle!Expire(j) /\ call[a].error = "stale"
<1> USE DEF IInv
<1>1. /\ CallShape(a) /\ jobs[j].status # "absent"
      /\ call[a].step = "update"
  BY DEF WriteUpdate, CallShape
<1>2. [k \in Requests |-> jobs'[k].status]
        = [[k \in Requests |-> jobs[k].status] EXCEPT ![j] = call[a].status]
  BY <1>1 DEF WriteUpdate, Stored, TypeOK
<1>3. CASE call[a].error = "stale"
  <2>1. written' = written
    BY <1>3 DEF WriteUpdate
  <2> QED
    BY <1>1, <1>2, <1>3, <2>1 DEF CallShape, Lifecycle!Expire
<1>4. CASE call[a].error # "stale"
  <2>1. a = WorkerOf(j)
    BY <1>1, <1>4 DEF CallShape
  <2>2. written' = [written EXCEPT ![j] = call[a].status]
    BY <1>4, <2>1 DEF WriteUpdate
  <2>3. Pending(j) /\ Position(j) /\ worker[j].at \in ThreadPlaces
    BY <1>1, <1>4, <2>1 DEF Pending, TypeOK, Thread
  <2>4. call[a].status \in Lifecycle!Successors(written[j])
    BY <2>1, <2>3 DEF Position, ThreadPlaces, Lifecycle!Successors
  <2> QED
    BY <1>2, <1>4, <2>2, <2>4 DEF Lifecycle!Advance
<1> QED
  BY <1>3, <1>4

\* The database calls of all the threads implement the lifecycle.
THEOREM Refinement == Spec => ImplementsLifecycle
<1>1. Init => Lifecycle!Init
  BY DEF Init, Lifecycle!Init
<1>2. IInv /\ [Next]_vars => [Lifecycle!Next]_(Lifecycle!vars)
  <2> SUFFICES ASSUME IInv, [Next]_vars PROVE [Lifecycle!Next]_(Lifecycle!vars)
    OBVIOUS
  <2>a. ASSUME NEW a \in Actors, WriteUpdate(a), NEW j \in Requests, call[a].job = j
        PROVE  Lifecycle!Advance(j) \/ Lifecycle!Expire(j)
    BY <2>a, WriteMapsToLifecycle
  <2> USE DEF IInv
  <2>0. ASSUME UNCHANGED <<jobs, written>> PROVE [Lifecycle!Next]_(Lifecycle!vars)
    BY <2>0 DEF Lifecycle!vars
  <2>1. CASE UNCHANGED vars
    BY <2>0, <2>1 DEF vars
  <2>2. ASSUME NEW a \in Actors, WriteUpdate(a) PROVE Lifecycle!Next
    <3>1. call[a].job \in Requests
      BY <2>2 DEF WriteUpdate, CallShape
    <3> QED
      BY <2>2, <2>a, <3>1 DEF Lifecycle!Next
  <2>3. ASSUME NEW r \in Requests, CreateInsert(r) PROVE Lifecycle!Next
    <3>1. written[r] = "absent"
      BY <2>3 DEF CreateInsert, Position
    <3>2. [k \in Requests |-> jobs'[k].status]
            = [[k \in Requests |-> jobs[k].status] EXCEPT ![r] = "queued"]
      BY <2>3 DEF CreateInsert, TypeOK, Job
    <3>3. Lifecycle!Create(r)
      BY <2>3, <3>1, <3>2 DEF CreateInsert, Lifecycle!Create
    <3> QED
      BY <3>3 DEF Lifecycle!Next
  <2>4. ASSUME NEW k \in Requests, Age(k) PROVE UNCHANGED Lifecycle!vars
    <3>1. \A j \in Requests : jobs'[j].status = jobs[j].status
      BY <2>4 DEF Age, TypeOK, Job
    <3> QED
      BY <2>4, <3>1 DEF Age, Lifecycle!vars
  <2>5. ASSUME NEW r \in Requests, RequestStep(r), ~CreateInsert(r)
        PROVE  UNCHANGED <<jobs, written>>
    BY <2>5 DEF RequestStep, Arrive, FindNone, FindFresh, FindStale, FindGivesUp,
       CreateEvent, StartWorker
  <2>6. ASSUME NEW k \in Requests, WorkerStep(k) PROVE UNCHANGED <<jobs, written>>
    BY <2>6 DEF WorkerStep, WorkerLoad, WorkerContextMissing, WorkerRun, WorkerGenerate,
       WorkerExecutePlan, WorkerReport, WorkerSucceed, WorkerFail
  <2>7. ASSUME \/ \E a \in Actors : WriteEvent(a) \/ Lose(a)
               \/ \E d \in Readers, k \in Requests : ReadStale(d, k)
               \/ \E c \in Contexts : DeleteContext(c)
        PROVE  UNCHANGED <<jobs, written>>
    BY <2>7 DEF WriteEvent, Lose, ReadStale, DeleteContext
  <2> QED
    BY <2>0, <2>1, <2>2, <2>3, <2>4, <2>5, <2>6, <2>7 DEF Next, WriteStep
<1> QED
  BY <1>1, <1>2, Invariance, PTL DEF Spec, Lifecycle!Spec, ImplementsLifecycle

-----------------------------------------------------------------------------
\* A finished job is rewritten only where staleness is involved.
THEOREM TerminalFinality == Spec => OnlyStalenessRewritesTerminal
<1> DEFINE Kept == \A j \in Requests : TerminalRewritten(j) =>
                     jobs[j].error = "stale" \/ jobs'[j].error = "stale"
<1>1. IInv /\ [Next]_vars => [Kept]_vars
  <2> SUFFICES ASSUME IInv, Next, NEW j \in Requests, TerminalRewritten(j)
               PROVE  jobs[j].error = "stale" \/ jobs'[j].error = "stale"
    OBVIOUS
  <2>a. ASSUME NEW a \in Actors, WriteUpdate(a), call[a].job = j, call[a].error # "stale"
        PROVE  Lifecycle!Advance(j)
    BY <2>a, WriteMapsToLifecycle
  <2> USE DEF IInv
  <2>1. ASSUME NEW a \in Actors, WriteUpdate(a)
        PROVE  jobs[j].error = "stale" \/ jobs'[j].error = "stale"
    <3>1. call[a].job = j /\ j \in Requests
      BY <2>1 DEF WriteUpdate, TerminalRewritten, TypeOK
    <3>2. CASE call[a].error = "stale"
      BY <2>1, <3>1, <3>2 DEF WriteUpdate, Stored, TypeOK
    <3>3. CASE call[a].error # "stale"
      <4>1. Lifecycle!Advance(j)
        BY <2>1, <2>a, <3>1, <3>3
      <4>2. written[j] \notin TerminalStatuses
        BY <4>1 DEF Lifecycle!Advance, Lifecycle!Successors, TerminalStatuses
      <4> QED
        BY <4>2 DEF Shown, TerminalRewritten, Terminal
    <3> QED
      BY <3>2, <3>3
  <2>2. ASSUME NEW r \in Requests, CreateInsert(r) PROVE FALSE
    <3>1. written[r] = "absent" /\ jobs[r].status = "absent"
      BY <2>2 DEF CreateInsert, Position
    <3> QED
      BY <2>2, <3>1 DEF CreateInsert, TerminalRewritten, Terminal, TerminalStatuses, TypeOK, Job
  <2>3. ASSUME NEW k \in Requests, Age(k) PROVE FALSE
    BY <2>3 DEF Age, TerminalRewritten, TypeOK, Job
  <2>4. ASSUME jobs' = jobs PROVE FALSE
    BY <2>4 DEF TerminalRewritten
  <2>5. ASSUME NEW r \in Requests, RequestStep(r), ~CreateInsert(r) PROVE jobs' = jobs
    BY <2>5 DEF RequestStep, Arrive, FindNone, FindFresh, FindStale, FindGivesUp,
       CreateEvent, StartWorker
  <2>6. ASSUME NEW k \in Requests, WorkerStep(k) PROVE jobs' = jobs
    BY <2>6 DEF WorkerStep, WorkerLoad, WorkerContextMissing, WorkerRun, WorkerGenerate,
       WorkerExecutePlan, WorkerReport, WorkerSucceed, WorkerFail
  <2>7. ASSUME \/ \E a \in Actors : WriteEvent(a) \/ Lose(a)
               \/ \E d \in Readers, k \in Requests : ReadStale(d, k)
               \/ \E c \in Contexts : DeleteContext(c)
        PROVE  jobs' = jobs
    BY <2>7 DEF WriteEvent, Lose, ReadStale, DeleteContext
  <2> QED
    BY <2>1, <2>2, <2>3, <2>4, <2>5, <2>6, <2>7 DEF Next, WriteStep
<1> QED
  BY <1>1, Invariance, PTL DEF Spec, OnlyStalenessRewritesTerminal
-----------------------------------------------------------------------------
(* The event log.  The property alone is not inductive: a handler that is   *)
(* about to append its event explains whatever the job shows, also after    *)
(* it has appended it.  What it explains is the status it created the job   *)
(* with, and a job that does not exist yet has no error to explain.         *)

StatusLogged(j) == \E i \in DOMAIN events[j] : events[j][i].status = jobs[j].status
ErrorLogged(j)  == \E i \in DOMAIN events[j] : events[j][i].error = jobs[j].error

StatusAnnounced(j) == \E a \in Actors : Explains(a, j) /\ call[a].status = jobs[j].status
ErrorAnnounced(j)  == \E a \in Actors : Explains(a, j) /\ call[a].error = jobs[j].error

JustCreated(j) == handler[j].at = "event" /\ jobs[j].status = "queued"

Recorded(j) ==
  /\ Exists(j) => StatusLogged(j) \/ StatusAnnounced(j) \/ JustCreated(j)
  /\ jobs[j].error # "none" => Exists(j) /\ (ErrorLogged(j) \/ ErrorAnnounced(j))

\* A job whose document shows what it showed stays recorded, if its log only
\* grows, nobody who explains it is done, and its handler stands where it was
\* or has logged the creation.
LEMMA StillRecorded ==
  ASSUME NEW j \in Requests, Recorded(j),
         jobs'[j].status = jobs[j].status, jobs'[j].error = jobs[j].error,
         \A i \in DOMAIN events[j] : i \in DOMAIN events'[j] /\ events'[j][i] = events[j][i],
         \A a \in Actors : Explains(a, j) =>
           \/ call'[a] = call[a]
           \/ \E i \in DOMAIN events'[j] : /\ events'[j][i].status = call[a].status
                                          /\ events'[j][i].error = call[a].error,
         JustCreated(j) =>
           \/ handler'[j].at = "event"
           \/ \E i \in DOMAIN events'[j] : events'[j][i].status = "queued"
  PROVE  Recorded(j)'
<1>1. StatusLogged(j) => StatusLogged(j)'
  BY DEF StatusLogged
<1>2. ErrorLogged(j) => ErrorLogged(j)'
  BY DEF ErrorLogged
<1>3. StatusAnnounced(j) => StatusAnnounced(j)' \/ StatusLogged(j)'
  BY DEF StatusAnnounced, StatusLogged, Explains
<1>4. ErrorAnnounced(j) => ErrorAnnounced(j)' \/ ErrorLogged(j)'
  BY DEF ErrorAnnounced, ErrorLogged, Explains
<1>5. JustCreated(j) => JustCreated(j)' \/ StatusLogged(j)'
  BY DEF JustCreated, StatusLogged
<1> QED
  BY <1>1, <1>2, <1>3, <1>4, <1>5 DEF Recorded, Exists

\* An event that is appended is in the log, and those before it stay there.
LEMMA LogGrows ==
  ASSUME TypeOK, NEW j \in Requests, NEW e \in Event,
         events' = [events EXCEPT ![j] = Append(@, e)]
  PROVE  /\ \A k \in Requests : \A i \in DOMAIN events[k] :
              i \in DOMAIN events'[k] /\ events'[k][i] = events[k][i]
         /\ \E i \in DOMAIN events'[j] : events'[j][i] = e
<1>1. events \in [Requests -> Seq(Event)] /\ events[j] \in Seq(Event)
  BY DEF TypeOK
<1>2. /\ events'[j] = Append(events[j], e)
      /\ \A k \in Requests : k # j => events'[k] = events[k]
  BY <1>1
<1>3. /\ \A i \in DOMAIN events[j] : i \in DOMAIN events'[j] /\ events'[j][i] = events[j][i]
      /\ Len(events[j]) + 1 \in DOMAIN events'[j] /\ events'[j][Len(events[j]) + 1] = e
  BY <1>1, <1>2
<1> QED
  BY <1>2, <1>3

\* A step that calls something leaves the calls under way alone: only an
\* idle actor begins a call.
LEMMA CallsStay ==
  ASSUME TypeOK, NEW b \in Actors, Free(b), NEW c, call' = [call EXCEPT ![b] = c]
  PROVE  \A a \in Actors, j \in Requests : Explains(a, j) => call'[a] = call[a]
BY DEF TypeOK, Free, Explains

\* Every step keeps every job recorded.
LEMMA StepRecorded ==
  ASSUME IInv, \A j \in Requests : Recorded(j), [Next]_vars
  PROVE  \A j \in Requests : Recorded(j)'
<1>0. TypeOK /\ \A a \in Actors : CallShape(a)
  BY DEF IInv
<1>a. ASSUME jobs' = jobs, events' = events, handler' = handler,
             \A a \in Actors, j \in Requests : Explains(a, j) => call'[a] = call[a]
      PROVE  \A j \in Requests : Recorded(j)'
  BY <1>a, StillRecorded DEF JustCreated
<1>1. CASE UNCHANGED vars
  BY <1>1, <1>a DEF vars
<1>2. ASSUME NEW b \in Actors, WriteUpdate(b) PROVE \A j \in Requests : Recorded(j)'
  <2>1. PICK k \in Requests : /\ k = call[b].job /\ jobs[k].status # "absent"
                              /\ call[b].step = "update" /\ call[b].status \in Statuses
    BY <1>0, <1>2 DEF WriteUpdate, CallShape
  <2>2. /\ events' = events /\ handler' = handler
        /\ jobs' = [jobs EXCEPT ![k] = Stored(@, call[b])]
        /\ call' = [call EXCEPT ![b].step = "event"]
    BY <1>2, <2>1 DEF WriteUpdate
  <2>3. ASSUME NEW a \in Actors, NEW j \in Requests, Explains(a, j) PROVE call'[a] = call[a]
    BY <1>0, <2>1, <2>2, <2>3 DEF Explains, TypeOK
  <2>4. ASSUME NEW j \in Requests, j # k PROVE Recorded(j)'
    <3>1. jobs'[j] = jobs[j]
      BY <1>0, <2>2, <2>4 DEF TypeOK
    <3> QED
      BY <2>2, <2>3, <3>1, StillRecorded DEF JustCreated
  <2>5. Recorded(k)'
    <3>1. /\ jobs'[k].status = call[b].status
          /\ jobs'[k].error = IF call[b].error = "none" THEN jobs[k].error ELSE call[b].error
      BY <1>0, <2>1, <2>2 DEF Stored, TypeOK
    <3>2. /\ call'[b].step = "event" /\ call'[b].job = k
          /\ call'[b].status = call[b].status /\ call'[b].error = call[b].error
      BY <1>0, <2>1, <2>2 DEF TypeOK, Call
    <3>3. StatusAnnounced(k)'
      BY <3>1, <3>2 DEF StatusAnnounced, Explains
    <3>4. Exists(k)'
      BY <2>1, <3>1 DEF Exists, Statuses, ActiveStatuses, TerminalStatuses
    <3>5. CASE call[b].error # "none"
      BY <3>1, <3>2, <3>3, <3>4, <3>5 DEF Recorded, ErrorAnnounced, Explains
    <3>6. CASE call[b].error = "none"
      <4>1. jobs'[k].error = jobs[k].error
        BY <3>1, <3>6
      <4>2. ErrorLogged(k) => ErrorLogged(k)'
        BY <2>2, <4>1 DEF ErrorLogged
      <4>3. ErrorAnnounced(k) => ErrorAnnounced(k)'
        BY <2>1, <2>3, <4>1 DEF ErrorAnnounced, Explains
      <4> QED
        BY <2>1, <3>3, <3>4, <4>1, <4>2, <4>3 DEF Recorded
    <3> QED
      BY <3>5, <3>6
  <2> QED
    BY <2>4, <2>5
<1>3. ASSUME NEW b \in Actors, WriteEvent(b) PROVE \A j \in Requests : Recorded(j)'
  <2>1. /\ call[b].job \in Requests
        /\ EventOf(call[b]) \in Event
    BY <1>0, <1>3 DEF WriteEvent, CallShape, TypeOK, Call, Event, EventOf
  <2>2. /\ events' = [events EXCEPT ![call[b].job] = Append(@, EventOf(call[b]))]
        /\ jobs' = jobs /\ handler' = handler
        /\ \A a \in Actors : a # b => call'[a] = call[a]
    BY <1>0, <1>3 DEF WriteEvent, TypeOK
  <2>3. /\ \A j \in Requests : \A i \in DOMAIN events[j] :
             i \in DOMAIN events'[j] /\ events'[j][i] = events[j][i]
        /\ \E i \in DOMAIN events'[call[b].job] : events'[call[b].job][i] = EventOf(call[b])
    BY <1>0, <2>1, <2>2, LogGrows
  <2>4. ASSUME NEW j \in Requests, Explains(b, j)
        PROVE  \E i \in DOMAIN events'[j] : /\ events'[j][i].status = call[b].status
                                            /\ events'[j][i].error = call[b].error
    BY <2>3, <2>4 DEF Explains, EventOf
  <2> QED
    BY <2>2, <2>3, <2>4, StillRecorded DEF JustCreated
<1>4. ASSUME NEW r \in Requests, RequestStep(r) PROVE \A j \in Requests : Recorded(j)'
  <2>0. RequestActor(r) \in Actors
    BY ActorNames
  <2>1. CASE CreateInsert(r)
    <3>1. jobs[r].status = "absent"
      BY <2>1 DEF CreateInsert, IInv, Position
    <3>2. /\ jobs'[r].status = "queued" /\ jobs'[r].error = jobs[r].error
          /\ handler'[r].at = "event"
          /\ \A j \in Requests : j # r => jobs'[j] = jobs[j] /\ handler'[j] = handler[j]
      BY <1>0, <2>1 DEF CreateInsert, TypeOK, Job, Handler
    <3>3. Recorded(r)'
      BY <3>1, <3>2 DEF Recorded, Exists, JustCreated
    <3>4. ASSUME NEW j \in Requests, j # r PROVE Recorded(j)'
      BY <2>1, <3>2, <3>4, StillRecorded DEF CreateInsert, JustCreated
    <3> QED
      BY <3>3, <3>4
  <2>2. CASE CreateEvent(r)
    <3> DEFINE e == [type |-> "job_created", status |-> "queued", error |-> "none"]
    <3>1. e \in Event
      BY DEF Event, EventTypes, Statuses, ActiveStatuses, Errors
    <3>2. events' = [events EXCEPT ![r] = Append(@, e)] /\ jobs' = jobs /\ call' = call
          /\ \A j \in Requests : j # r => handler'[j] = handler[j]
      BY <1>0, <2>2 DEF CreateEvent, TypeOK
    <3>3. /\ \A j \in Requests : \A i \in DOMAIN events[j] :
               i \in DOMAIN events'[j] /\ events'[j][i] = events[j][i]
          /\ \E i \in DOMAIN events'[r] : events'[r][i] = e
      BY <1>0, <3>1, <3>2, LogGrows
    <3>4. \E i \in DOMAIN events'[r] : events'[r][i].status = "queued"
      BY <3>3
    <3> QED
      BY <3>2, <3>3, <3>4, StillRecorded DEF JustCreated
  <2>3. CASE ~CreateInsert(r) /\ ~CreateEvent(r)
    <3>1. jobs' = jobs /\ events' = events /\ \A j \in Requests : j # r => handler'[j] = handler[j]
      BY <1>0, <1>4, <2>3 DEF RequestStep, Arrive, FindNone, FindFresh, FindStale, FindGivesUp,
         StartWorker, TypeOK
    <3>2. handler[r].at # "event"
      BY <1>4, <2>3 DEF RequestStep, Arrive, Finding, FindNone, FindFresh, FindStale,
         FindGivesUp, StartWorker
    <3>3. \A a \in Actors, j \in Requests : Explains(a, j) => call'[a] = call[a]
      BY <1>0, <1>4, <2>0, <2>3, CallsStay DEF RequestStep, Arrive, Finding, FindNone, FindFresh,
         FindStale, FindGivesUp, StartWorker
    <3> QED
      BY <3>1, <3>2, <3>3, StillRecorded DEF JustCreated
  <2> QED
    BY <2>1, <2>2, <2>3
<1>5. ASSUME NEW k \in Requests, WorkerStep(k) PROVE \A j \in Requests : Recorded(j)'
  <2>1. jobs' = jobs /\ events' = events /\ handler' = handler /\ Free(WorkerOf(k))
    BY <1>5 DEF WorkerStep, WorkerLoad, WorkerContextMissing, WorkerRun, WorkerGenerate,
       WorkerExecutePlan, WorkerReport, WorkerSucceed, WorkerFail, WorkerAt
  <2>2. call' = call \/ \E c : call' = [call EXCEPT ![WorkerOf(k)] = c]
    BY <1>5 DEF WorkerStep, WorkerLoad, WorkerContextMissing, WorkerRun, WorkerGenerate,
       WorkerExecutePlan, WorkerReport, WorkerSucceed, WorkerFail
  <2>3. \A a \in Actors, j \in Requests : Explains(a, j) => call'[a] = call[a]
    BY <1>0, <2>1, <2>2, ActorNames, CallsStay
  <2> QED
    BY <1>a, <2>1, <2>3
<1>6. ASSUME NEW k \in Requests, Age(k) PROVE \A j \in Requests : Recorded(j)'
  <2>1. \A j \in Requests : jobs'[j].status = jobs[j].status /\ jobs'[j].error = jobs[j].error
    BY <1>0, <1>6 DEF Age, TypeOK, Job
  <2> QED
    BY <1>6, <2>1, StillRecorded DEF Age, JustCreated
<1>7. ASSUME NEW d \in Readers, NEW k \in Requests, ReadStale(d, k)
      PROVE  \A j \in Requests : Recorded(j)'
  BY <1>0, <1>7, <1>a, ActorNames, CallsStay DEF ReadStale
<1>8. ASSUME \/ \E a \in Actors : Lose(a)
             \/ \E c \in Contexts : DeleteContext(c)
      PROVE  \A j \in Requests : Recorded(j)'
  BY <1>8, <1>a DEF Lose, DeleteContext
<1> QED
  BY <1>1, <1>2, <1>3, <1>4, <1>5, <1>6, <1>7, <1>8 DEF Next, WriteStep

\* The status and the error a job shows are explained by its event log, or by
\* an actor that stands between the write of the job and that of the event.
THEOREM Explained == Spec => []EventLogExplainsJob
<1> DEFINE Log == IInv /\ \A j \in Requests : Recorded(j)
<1>1. Init => Log
  <2> SUFFICES ASSUME Init, NEW j \in Requests PROVE IInv /\ Recorded(j)
    BY InitIInv
  <2>1. jobs[j].status = "absent" /\ jobs[j].error = "none"
    BY DEF Init
  <2> QED
    BY <2>1, InitIInv DEF Recorded, Exists
<1>2. Log /\ [Next]_vars => Log'
  BY StepIInv, StepRecorded
<1>3. Log => EventLogExplainsJob
  BY DEF Recorded, EventLogExplainsJob, StatusLogged, StatusAnnounced, ErrorLogged,
     ErrorAnnounced, JustCreated
<1> QED
  BY <1>1, <1>2, <1>3, PTL DEF Spec
=============================================================================
