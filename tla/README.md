# SecPolicy_Gen: TLA+ models, checks and proofs

SecPolicy_Gen turns what a user tells about an organisation into a security
policy. Three Flask services do it: context-agent (the user's side: contexts,
plans, jobs, approvals, pipeline), policy-agent (writes and revises policies from
what it retrieves) and validator-agent (reviews them in rounds). They keep their
state in MongoDB and Chroma, call each other over HTTP with timeouts, and run long
work in daemon threads and processes. Scripts beside them compare a new runtime
with the services, and contracts say what may pass between all of these.

The modules here model the code under `src/`. Each module is translated from the
source; `PROJECT.json` has, for every definition, the lines it stands for.

## 1. Inventory

### 1.1 Pipeline jobs (context-agent)

*State.* The collections `pipeline_jobs` and `pipeline_events`; one daemon thread
per job. *Operations.* `create_pipeline_job`, `find_active_pipeline_job`,
`update_pipeline_job_state`, `update_pipeline_job_progress`,
`_mark_pipeline_job_stale` (`services/pipeline_jobs.py`), `run_pipeline_job`
(`services/pipeline_worker.py`), the routes that start a job, poll it, and
delete a context. *Hard.* Each operation is several database calls; the look for
an active job and the insert are not one step; a `$set` has no condition on the
status that was read; expiry is lazy, done by whoever reads a job that has not
been touched for a while, dead or merely slow. *Correct when* a terminal job
stays as it is unless staleness is involved, the event log tells what the job
document does not, duplicates have only the one cause, every job settles.

### 1.2 Context workflow (context-agent)

*State.* The context document: answers and the security context derived from
them, building questions, the plan and its approved revisions, task results, the
final context, the lessons learnt from improving it, the workflow status.
*Operations.* Answering and deferring questions, continuing a context, approving a
plan, executing it in a thread, synthesizing, improving and regenerating the final
context, reviewing a lesson, and the gates of execution and generation
(`services/logic.py`, `routes/routes.py`). *Hard.* Every handler reads the whole
document, computes, and writes some members back unconditionally; the execution
thread writes for minutes from a snapshot it took at its start. *Correct when* a
context that is offered for generation is one the hand-over accepts, with a
current prompt and usable answers, drawn from a revision the user approved.

### 1.3 Policy store (policy-agent)

*State.* The `policies` collection with a partial unique index on the generation
guard. *Operations.* `generate_policy_payload` (look, run the agent, insert) and
`update_policy_payload` (read, run the agent, conditional update)
(`services/logic.py`, `policy_persistence.py`). *Hard.* The agent runs for
a minute between the look and the write; a write may take effect although its
reply is lost; rows older than the index may be duplicated. *Correct when*
a context has one generated policy, no revision is lost and answers are true.

### 1.4 Policy pipeline and validation (all three services)

*State.* A run's place and answer, its diagnostic, the snapshot
(`interactions` of kind `validated_policy`), the `validations` log, the
validator's round and text, the policy. *Operations.*
`generate_full_policy_pipeline` and the calls it makes (context-agent
`services/logic.py`), `validate_policy_payload` and `Coordinator.validate_policy`
(validator-agent), generation and update (policy-agent). *Hard.* Every call can
time out while its handler goes on, so that what a caller believes failed may
still happen; diagnostics and logs may fail to be written. *Correct when* the
stored snapshot is the policy that policy-agent keeps, there is one at most,
what a run says is true, revisions are bounded and a validation ends.

### 1.5 Policy input approval (context-agent, policy-agent)

*State.* The member `policy_input` of the context: answers, their revisions, the
approvals given and the current one. *Operations.* `update_policy_input_answers`
and `approve_policy_input` (`routes/routes.py`), the rules they apply
(`context_analysis/policy_input.py`, `app/policy_handoff_contract.py`,
`contracts/policy_request_v1.py`), the two reads of a run that sends the approved
request (`services/logic.py`), and policy-agent's validation of what arrives.
*Hard.* Between the read of a handler and its conditional update others store
theirs, and the condition names a revision only; a run prepares its payload from
one read and signs the call after another; rules are stated three times, in two
services. *Correct when* whatever is sent is approved as it stands now,
each decision names the revision it came in, and what nothing is asked about can
be approved.

### 1.6 RAG refresh, readiness and retrieval (policy-agent)

*State.* The one job in memory under a lock; the collections of Chroma; the cached
model; the files of the sources. *Operations.* Starting a refresh, its thread and
its indexing process (`services/logic.py`, `scripts/index_pdfs_to_chroma.py`), the
readiness answer, and the loading and searching of collections by a generation
(`agents/vector/chroma/client.py`, `rag.py`). *Hard.* Deleting, creating and
filling a collection are separate calls, each of which may fail or be cut off by
the timeout; a failed deletion or batch is only logged; readiness is read in two
steps; generations search what a refresh is rebuilding; a restart forgets the job.
*Correct when* one process indexes at a time, a completed refresh left what it
read, and *ready* means whole and at rest.

### 1.7 Shadow runs (scripts)

*State.* The runner's place, the candidate summary and its errors, the process
group of the agent being asked, the evidence of invocations, the parity report.
*Operations.* `run_init25_shadow_mode.py` (one agent after the other under one
deadline), `init25_runtime_adapter.py` (start a process group, pump prompt and
outputs, end the group, leave evidence), `build_init25_parity_report.py` (build and
validate). *Hard.* Processes fork, keep outputs open, exit or talk as they like;
errors are collected at many places; the report's rules are stated twice.
*Correct when* nobody is left running, *continue* is earned and a report that is
built is a report that is accepted.

### 1.8 Structured proposals (contracts)

*State.* Four documents: profile, coverage plan, package, quote. *Operations.* The
validators of `contracts/policy_package_v1.py`, each of which checks some
directions of some links. *Hard.* That together they leave nothing out.
*Correct when* a bundle that is accepted backs every mandatory unit with evidence
of its own and reserves enough money.

### 1.9 How they interact

The page posts a command; the route creates a **job** (1.1) and starts its thread;
the thread runs either the **execution** of the approved plan (1.2) or the
**pipeline** (1.4). The pipeline sends the **approved request** (1.5), which is of
the final context (1.2), to policy-agent, which generates from what it **retrieves**
(1.6) and **stores** the policy (1.3); validator-agent reviews it and calls
policy-agent for revisions. The job is the only thing the page sees of all that,
by polling. Shadow runs (1.7) and proposals (1.8) stand beside the services.

### 1.10 Other parts

The context agents, security context and enrichment, workload tokens, access
control, web pages and observability are listed in `PROJECT.json` with the
reason they are not modelled.

## 2. Modules

| module | models | composes |
|---|---|---|
| `PipelineJobs` | 1.1, one action per database call | `JobLifecycle` as what it implements |
| `JobLifecycle` | abstract: which status may follow which, and what staleness may do | |
| `ContextWorkflow` | 1.2, a read-and-compute step and a write step per handler | |
| `PolicyStore` | 1.3, one action per database call or agent run | `VersionedPolicy` as what it implements |
| `VersionedPolicy` | abstract: one history per policy, every revision derived from the one it replaces | |
| `PolicyPipeline` | 1.4, one action per call, answer, timeout and write | policy-agent as `VersionedPolicy` promises it |
| `PolicyAnswers` | the rules of 1.5, as operators over answers and handoffs | |
| `PolicyInput` | 1.5, a read-and-compute step and a conditional update per handler | `PolicyAnswers`; `ApprovedDocument` as what it implements |
| `ApprovedDocument` | abstract: a document amended and approved only by who saw its last revision | |
| `RagRefresh` | 1.6, one action per call of Chroma, of the lock and of the thread | |
| `ShadowRuntime` | 1.7, runner, adapter and process group | |
| `PolicyPackage` | 1.8, the rules, and edits of an accepted bundle | |
| `MC*` | instances for TLC: scopes, initial documents, patches, symmetry | |
| `*_proofs` | theorems, one module for each of the eight above that is no abstract or pure one | |

### PipelineJobs

`jobs` and `events` are the two collections; `call[a]` is an actor inside
`update_pipeline_job_state` (between `update_one` and the insert of the event);
`handler` and `worker` are where a request handler and a job's thread stand.
`FindNone`, `FindFresh`, `FindStale` and `FindGivesUp` are the ends of the loop of
`find_active_pipeline_job`, which expires what it finds stale and looks again, at
most ten times (`MaxSweeps`). Time is one bit per job, `aged`, set by `Age` and
cleared by every write of `updated_at`. `Lose` kills a handler or thread between
two steps. `checked` and `written` are history variables for the properties.

### ContextWorkflow

`context` is the document, a function on the names of its members. A request is
two steps: one reads the document and computes `set`, the members to write;
`Save` writes them over whatever the document has become (`Written`, a `$set`, which
of the facts sets those the handler touched). `read` keeps the revisions and lessons
the request has read, for the properties about what a late save may lose.
The thread writes the members `execute_context_plan` writes, from the snapshot in
`worker[w]`. Its agent is the configured one (OpenAI with structured output).
`Fields` are the required answers but the need, and `ListFields` those stored as a
list, whose answer may hold no term (","). A revision is the snapshot it was
approved with; its id is its place. `MarkSections` is the improvement of a
final context, `RegenerateSections` rewrites the marked sections and appends a
lesson for each, numbered on from the lessons that were read; `ReviewLesson` sets
the status of one.

### PolicyStore

A generated row is named by the request that inserts it; legacy rows are there
from the start, without a guard. `history` is a history variable: what was stored
in each row, and from which text. `IndexAdmits` is the partial unique index,
`UpdMatches` the filter of the conditional update on `revision_count`. A write
takes effect or not, and its answer is lost or not, independently.

### PolicyPipeline

`caller[r]` is a run in context-agent, `generation[r]`, `validator[r]` and
`revision[r]` are the handlers it causes in the other services. `GiveUp` and
`GiveUpRevision` are the timeouts and connection errors of the three calls: the
caller goes on, the handler too. `Upsert` and `Log` may fail without anybody noticing,
as the code swallows those errors. `VoteResults` is what `Coordinator.vote` may
return, the most common status with the first one seen among equals. Statuses
are whatever word an agent writes: `OtherVerdicts` holds words the coordinator
does not know, among them `reject`, which the configured prompt asks for.

### PolicyInput and PolicyAnswers

`input` is `context["policy_input"]`, `doc` the members beside it that the handlers
read: the approved plan, the final and the security context. `TakeAnswers` and
`TakeApproval` are the handlers up to their update, `StoreAnswers` and
`StoreApproval` the update under the condition each asks for; a condition that does
not match is the answer 409. `served[r]` keeps what was read and will be stored.
`Prepare`, `Send` and `Receive` are a run: payload from the first read, token from
the second, policy-agent's validation of what arrives, of its envelope
(`EnvelopeAccepted`: language, prompt, business context) and by the contract. `Rework` is everybody else
who writes the context. `PolicyAnswers` has the rules: `IsPatch`,
`MaterialQuestions`, `HandoffOf` and `HandoffIsValid`, `Agrees` (facts against
answers), and `ContractAccepts`, `HandoffAccepted` of the contract. A name is what
case-folding leaves of it and how it was spelled, because the three statements of
the rules differ in just that; a list of texts is a set in which `Blank` stands for
texts of which stripping leaves nothing. `HashOf` is what the hash is taken over.
Sizes are what a limit tells apart: `TooLong` is a text that an answer may be and an
evidence family, a size band or the language of an envelope may not; `MaxFamilies`
stands for the 32 families of the contract; a handoff is `"long"` when a prompt cannot
carry it and `"large"` when a request cannot, and a business context `"fits"` or not.

### RagRefresh

`job` is `_RAG_REFRESH_JOB`; `worker[r]` the thread of the job that request `r`
started and the process it waits for, with the source it is at, the files left to
read, the collection's handle, what it has `read` and what it marked as logged and
passed over. `chroma[c]` is a collection with the one who created it (a handle to a
collection that was deleted is stale) and its chunks by source and file.
`ListCollections` and `Answer` are the two halves of the readiness answer; the
thread asks Chroma the same when its process has exited (`ChromaAnswers`), without a
timeout. `Textless` files have no text to extract and add no chunk.
`Break` is every way a process is lost to its thread, `Restart` that of
policy-agent itself. A generation loads the configured collections, then searches
one for each step of its retrieval plan. Chunks that are already there under their
id are not overwritten (`Added`), as `collection.add` does.

### ShadowRuntime

`setup` is how the run was started, `run` the runner's place with the summary so
far, `group` the process group of the agent being asked and the streams the adapter
still has open, `late` the deadline. The adapter's `pump` loop is `FeedPrompt`,
`BrokenPipe`, `ReadEnd`, `TimeOut` and `Overflow`; `Collect` waits for the leader
and ends the rest of its group. `GroupStep` is what processes do: fork, let go of
an output, speak, exit. `Built` is `build_report` and `Accepts` is `validate`.

### PolicyPackage

The four documents are the variables; `Accepted` is
`validate_package_bundle_v1`, of one predicate per validator. The validators are
pure, so what moves is the proposer, who replaces or removes one record after
another; the properties are about every bundle that is still accepted.

## 3. Runs

| run | instance | shows |
|---|---|---|
| `jobs_race` | two requests, no page, one lost actor, two ageings | two active jobs that never ended come from overlapping requests only; the calls implement `JobLifecycle` |
| `jobs_poll` | one request, one page that polls, six ageings | the log explains the job; a terminal status is rewritten only where staleness is involved; jobs settle, a lost one as long as somebody polls |
| `policy_store` | two generations, three updates, two legacy rows, two texts | one generated row per context, true answers, no lost revision (`VersionedPolicy`) |
| `workflow_session` | one user at a time and one execution thread, two tasks, a detail a task asks for | gates, questions, whole results, results traced to recorded approvals |
| `workflow_race` | two overlapping requests from an executed plan, two approvals, two lessons | offered contexts are accepted, prompts are current, and a save loses no revision or lesson that its request had read |
| `workflow_overlap` | the same, one lesson | violated: an approved revision can be lost from the plan (section 6) |
| `policy_pipeline` | two runs, two texts, one worker role, two rounds | the six safety properties of 1.4 and the end of validations |
| `policy_input` | two requests of the handlers, one run, three states of the rest of the context, four patches | true origins; what nothing is asked about can be approved; what is sent is approved and turned away only for its language; `ApprovedDocument` |
| `policy_input_audit` | two requests, no run | violated: an approval can be lost from the record (section 6) |
| `rag_refresh` | two refreshes, one viewer, one generation, one collection fed by two sources | one indexer, fresh and whole collections, current evidence, true readiness, jobs that end as long as Chroma answers |
| `shadow_runtime` | four agents, four kinds of answers and garbage, five ways to start a run | nobody left running, *continue* earned, reports accepted, the deadline's effect |
| `policy_package` | an accepted bundle of two coverage items, two edits | accepted bundles back their coverage, agree in their links and reserve enough |

The type invariants are not among the properties of the runs: they are proved.

**Bounds.** `MaxSweeps` stands for ten: the loop's body does the same each time,
one turn shows giving up. `MaxLost`, `MaxAges` and `MaxReports` bound how often
an actor dies, a threshold passes, and a plan reports progress; `jobs_poll` allows
six ageings so that liveness is not an effect of the bound: each of the writes a
job still has to get is followed by at most one expiry. `MaxRevisions`,
`MaxEditions` and `MaxLessons` bound approvals, regenerations and lessons: with two
approvals an id can be lost and given again, with one edition a final context can
be stale, with two lessons a second can take the place of a first. `workflow_race`
keeps one review status, as the product with another is too large for TLC: that
overlapping reviews lose only what they had not read is left to the proof, which has
any number of requests, threads and statuses. Two
updates of the same revision and a third of the next are enough for a lost
update and for a text that comes back (ABA). In `policy_pipeline` the second
round is the last one, so that asking, revising, deciding and giving up all happen;
`RoleCount` 1 lets the vote give every status, and ties and majorities of more roles
give no other statuses. `MaxRevision` stands for 64: three revisions allow to answer,
take back and answer again, which is what origins are about, and to reach the last.
`InputDocs` has a first approved plan; the same with its tasks done again, which name
more families than the contract takes; and a second plan with another spelling of
the country, which is too long for a prompt, with a context that is too large for the
legacy payload. `InputPatches` has everything material, with a left-out instrument;
its contradiction with a language that is too long; and two that are refused. In `rag_refresh` the two sources
share a collection and the folders change once each way, a file without text among
them, so that only the first deletion may happen and old chunks can survive; a second refresh follows a
first that completed, failed or was forgotten. In `shadow_runtime` a group is a
leader and one more process: what holds an output open or survives is then already
there. `policy_package` takes amounts around a whole cent, and two edits, because
the rules check links from both ends: one edit of an accepted bundle breaks a
link, a second can repair its other end.

**Deadlock** is not checked: the systems rest when every request was served, a run
has ended, a bundle has got its edits.

**Fairness.** `ThreadsProceed` of `PipelineJobs`: a handler or thread that has
started takes its next step unless it is lost, as database calls return or fail. It
is weak, and nothing makes requests arrive. `PagesPoll`, assumed only in
`PolledJobSettles`: somebody keeps a status page open (the page polls,
`templates/context_detail.html`) and time passes. It is needed: the expiry is lazy
and nothing else recovers an abandoned job. `PolicyPipeline` assumes weak fairness
of `ValidatorStep` only: a validation has a thread of its own and every call it
makes has a timeout. Nothing is assumed of policy-agent, so `ValidationEnds` holds
even when it never answers. `RagRefresh` assumes weak fairness of each job's
`ThreadStep`, which is waiting for the process with a timeout and writing the job;
nothing is assumed of the indexing process, so `StartedJobEnds` holds when it
hangs. Nothing is assumed of Chroma either: its client has no timeout, and
`StartedJobEnds` says of a thread that it ends its job if Chroma does not leave it
for ever without the answer it asks for after the process has exited. `ShadowRuntime` assumes weak fairness of the runner and nothing of the
processes it starts. The other specifications assume no fairness.

## 4. Proofs

Proved for every value of the constants, from the ASSUMEs of the modules (disjoint
names, bounds that are naturals, statuses that are not each other, a manifest that
names no source twice, which `sources.py:88` refuses), with tlapm. Every safety
property that a passing run checks is a theorem; two of them, `Traceability` and
`OfferedAnswered`, have a hypothesis.

* **`PipelineJobs_proofs`**: `Invariance` (the inductive `IInv`), `TypeCorrect`,
  `NoDuplicateSeen`, `Refinement` (every database call is a step of
  `JobLifecycle` or none), `TerminalFinality` and `Explained`. `TypeOK` is not
  inductive enough: what a pending write may be follows from where its thread
  stands (`Position`) and from who may write at all (`CallShape`); the document shows the thread's
  last status or a stale failure (`Shown`), which gives the refinement. A log that
  is written after its document is no inductive fact about the two alone: `Recorded`
  says of the status and the error a document shows that an entry has it, that the
  call that will append one is still under way, or that the job was just created.
* **`PolicyStore_proofs`**: `Invariance`, `TypeCorrect`, `OneGeneratedPolicy`, `TrueAnswers`,
  `Refinement` to `VersionedPolicy`. The strengthening: nothing but guarded rows
  joins a context that was empty when a generator looked (`Generating`); the
  history ends with the stored text and the revision counts it (`Recorded`); while
  the revision an updater read is current, so is the text it read (`Reading`),
  which is why a filter on the number alone suffices.
* **`PolicyPipeline_proofs`**: `Invariance`, `TypeCorrect`, `ReviewsAreCurrent`,
  `SnapshotsArePolicies`, `SnapshotIsUnique`, `Truthfulness`, `Traceability`,
  `BoundedRevisions`. The argument: policy-agent creates one policy, so one run at
  most is ever validated (`Ownership`); that run's handlers are the only ones
  that write the policy, and a validation that stops waiting for an update ends
  without a verdict (`Freshness`); what it judged, and `Storing` stored, is the policy.
  `Reporting`, `Counting` and `Tracing` carry the rest.
* **`ContextWorkflow_proofs`**: `Invariance`, `TypeCorrect`, `OpenQuestions`,
  `Completed`, `PromptCurrent`, `Offered`. What is written over the document was
  computed from a document that is gone, so the invariant has to be about
  whatever waits to be written: `Sound` says of a document, and of any set of
  members alike, that its parts agree and that none is written without those it
  must agree with. That holds for any number of overlapping requests and threads.
  So do `RecallInvariance`, `RevisionsRecalled` and `LessonsRecalled`: what will be
  written keeps, entry by entry, the revisions and lessons that its request has read
  (`Recalls`), and a new entry is numbered on from those; so a revision or lesson
  that a save drops or replaces was recorded after that request's read, and stored
  lessons keep distinct ids (`Remembering`).
  `AloneInvariance`, `Traceability` and `OfferedAnswered`
  have the hypothesis `[]OneInFlight`: at most one request stands between its read and
  its write, beside any number of executions. `Alone` then says that what the request
  will write extends the document as it is (`Extended`, `Fits`), though executions
  went on writing results since it was read, and that results and findings
  point into the revisions (`Traced`). The hypothesis is needed: section 6 has what
  two overlapping requests do.
* **`PolicyInput_proofs`**: `TypeCorrect`, `Provenance`, `SentApproved`,
  `QuestionsMatchContract`, `Refinement` to `ApprovedDocument`. `Recorded` says of
  the stored input and of every one about to be stored that its history is numbered,
  its approvals are traced and its decision is the last approval; `Follows` ties
  what a request would store to the revision it read, so that the condition on the
  number alone keeps the history; `Acceptable` says that what is under way passes
  policy-agent's validation but for a language that is too long (`Enveloped`),
  whatever the context becomes.
* **`RagRefresh_proofs`**: `Invariance`, `TypeCorrect`, `SingleIndexer`,
  `Readiness`, `Fresh`, `Evidence`, `PlanIsWhole`. Whoever works on the
  index owns the job, which is running (`Owned`); so a viewer that listed the collections and finds the same job ended knows that
  nobody touched them in between (`Informed`). `Placed` keeps the process within
  the manifest. For `Fresh` the invariant follows the indexing file by file
  (`Filling`): of a source, or a file, whose turn has not come nothing was read
  (`Unread`); a collection begun with holds what was read for its sources and
  nothing else, if the old one is gone (`Filled`, `Deleted`); something was read of
  every source that is done, unless a mark says why not (`Bearing`). It needs that a
  manifest names no source twice, for a second turn would find chunks under the ids
  it wants. `Evidence` is about generations that begin after a completed refresh, as
  long as no newer one starts; it adds what a generation found and the handles
  it holds (`Based`): a handle to a collection that was deleted finds nothing, and
  one opened after the refresh is of the collection the refresh filled.
  `PlanIsWhole` is about the nested lists `Plan` is flattened from. Flattening is
  recursive; what it gives at every length is proved with `LeastNumber` (a set of
  naturals that is not empty has a least element): the least length at which the
  claim fails is neither zero nor a successor.
* **`ShadowRuntime_proofs`**: `Invariance`, `TypeCorrect`, `NoneIsLeft`,
  `ReportAccepted`, `ContinueEarned`. The books of the runner (`Booked`): an
  invocation is begun with as many verified logs as agents have answered, and a run
  without an error has skipped nothing; hence *continue* is earned.
* **`PolicyPackage_proofs`**: `Backed`, `Agreed`, `QuoteBounded`. There is no
  induction over edits in them except that amounts stay numbers: the rules imply
  the properties of every bundle whatsoever, and the proofs show which rules.

Only model-checked: liveness, that is `JobSettles`, `PolledJobSettles`,
`ValidationEnds`, `StartedJobEnds` and `DeadlineEndsRun`. The prover does not reason
about fairness and ENABLED.

## 5. Not modelled

`PolicyPipeline` takes policy-agent's two handlers as one step each, what
`PolicyStore` shows of them in pieces; the two modules are not composed for TLC.
The callback route that stores a policy, deletion of a context during a run and
the read-only validation of candidates are left out. `ContextWorkflow` leaves out
the interactions collection, deletion and the mock agents, and takes
`policy_input` as `PolicyInput`'s. `PolicyInput` takes the rest of the context as
something that changes at any moment. `PolicyAnswers` keeps the fields that a rule
treats on its own; of the sizes it keeps those that one of the three statements of the
rules limits and another does not, and formats are left out. `RagRefresh` leaves out
the mock mode, the live probes of Chroma (off by default), hashes and chunking, and the
reload of a debug server, whose indexing process would outlive the policy-agent that
started it: `Restart` ends both. A batch that Chroma applies although its reply is
lost is taken as one that failed.
`PolicyPackage` leaves out texts, hashes and the records made of them alone.

Language models, prompts, ranking, parsing beyond a status word, the derivation of
the security context, signed tokens, pages, metrics and deployment are not
modelled: they keep no state of their own or do pure text processing. Nor are the
guards of routes (identity, tenant, token); the models run inside one organisation,
whose id every query carries.

## 6. Where the code and its texts disagree

Two disagreements have a run whose counterexample shows them:

* `policy_input_audit`: the answers handler writes back the approvals it read, under
  a condition on the revision alone (`routes.py:855`). An approval stored between its
  read and its update leaves the revision as it is, and is dropped from the record;
  `docs/contracts/context-policy-input-v1-1.md:40` says that it is kept for audit.
* `workflow_overlap`: the handlers that answer, continue and approve write back the
  plan they computed from what they had read (`routes.py:952`, `1157`, `1200`). A
  revision approved between read and write is dropped, and its id is given again;
  `services/logic.py:1153` calls an approved revision immutable.

What else the models show of the code, without a run of its own here:

* Two overlapping requests create two active jobs; a stale mark decided earlier
  fails a job that has completed meanwhile.
* With two overlapping requests lessons and reviews are lost like the revisions
  above; and generation is offered though an answer was emptied meanwhile.
* After an improvement and a regeneration, generation is offered with findings of
  a revision that is no longer the approved one.
* `consensus_threshold` is only logged: the evaluator alone accepts a policy.
* A pipeline run that fails after its policy was created (a timeout is enough)
  leaves a context whose later runs policy-agent refuses, as the policy exists.
* The answers handler takes spellings and a size that the contract refuses: nothing
  is asked any more, and yet approval fails.
* A language of more than 16 characters can be answered and approved
  (`policy_input.py:104`, `policy_request_v1.py:119`), and policy-agent refuses every
  request that carries it (policy-agent `logic.py:48`, `945`). The legacy payload of a
  context without a policy input may also be refused for the size of its business context.
* A Chroma that accepts the query a refresh makes when its process has exited, and
  never answers it, leaves the job running and every later refresh refused: the
  client has no timeout (policy-agent `logic.py:675`, `http_client.py:17`).
* A refresh whose thread cannot be started stays running until policy-agent
  restarts; a refresh completes although a deletion or a batch failed.
* The deadline of a shadow run does not end an agent that has closed its
  outputs and goes on: the leader is waited for without a timeout
  (`init25_runtime_adapter.py:241`). A runner that is stopped leaves the group
  running, and an exception that is raised leaves no report. `provider_attempted`
  is that of the last agent only.
* An action may be listed by two requirements; the units of a plan's conflicts are
  checked and those of a package's are not. Only tests use the package contract so far.

## 7. Plan

Done: all modules of section 2 with their runs and proofs. Next, most important
first:

1. Deletion of a context during a pipeline run, and the callback route, in
   `PolicyPipeline`: what snapshot is left behind.
2. `PolicyStore` under `PolicyPipeline`: the pipeline over the database calls of
   policy-agent, by substituting one refinement for the other.
3. Workload tokens, missing information and enrichment as pure operators against
   reference definitions.
4. The read-only validation of candidates in the coordinator.
