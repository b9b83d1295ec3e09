-------------------------- MODULE ContextWorkflow --------------------------
(***************************************************************************)
(* The life of one context document (context-agent): its building          *)
(* questions, its context-intelligence plan and the plan's revisions, the  *)
(* execution of the approved revision in a background worker, the final    *)
(* context, and the gate in front of policy generation.                    *)
(*                                                                         *)
(* Every handler of routes.py reads the whole document, computes from the  *)
(* copy it read, and writes some of its members back with an unconditional *)
(* $set.  A handler is therefore two steps here: the one that reads and    *)
(* computes `set`, the members it will write, and Save, which writes them  *)
(* over whatever the document has become.  The worker does the same once   *)
(* per write of execute_context_plan.                                      *)
(*                                                                         *)
(* Left out: wording, timestamps, the interactions collection, the copy of *)
(* the previous completed results, policy_input.                           *)
(***************************************************************************)
EXTENDS Naturals, Sequences, SequencesExt

CONSTANTS
    Fields,        \* the required answers but the need: sector, country, assets
    ListFields,    \* those of Fields stored as a list of terms
    Need,          \* the question about the security need
    Details,       \* what a task may report missing, one question each
    Answers,       \* the usable answers to one of Fields
    Blank,         \* a field no usable answer was given to
    TaskCount,     \* tasks of a plan
    Sections,      \* sections of the final context
    Requests,      \* the requests served at once
    Workers,       \* the background threads that execute a plan
    MaxRevisions,  \* bound: approvals of the plan
    MaxEditions,   \* bound: regenerations of one final context
    Reviews,       \* the statuses a review may give a lesson
    MaxLessons     \* bound: lessons of the context

ASSUME WorkflowAssumption ==
    /\ ListFields \subseteq Fields
    /\ Blank \notin Answers
    /\ TaskCount \in Nat \ {0}
    /\ Details \cap (Fields \cup {Need}) = {}
    /\ IsFiniteSet(Sections)
    /\ MaxRevisions \in Nat /\ MaxEditions \in Nat /\ MaxLessons \in Nat
    /\ Reviews \subseteq {"pending_review", "approved_for_export"}

VARIABLES
    context,  \* the document in mongo.db.contexts
    request,  \* what each request is about to write
    worker    \* where each execution of the plan stands

vars == <<context, request, worker>>

Required == Fields \cup {Need}
Questions == Required \cup Details

(* The members of one, and those of the other that it leaves alone. *)
Over(set, doc) ==
    [part \in DOMAIN set \cup DOMAIN doc |-> IF part \in DOMAIN set THEN set[part] ELSE doc[part]]

(* An update_one with these members under $set.  The answers are members of *)
(* the document each, so those that are not set stay what they have become. *)
Written(set, doc) ==
    Over(IF "facts" \in DOMAIN set THEN [set EXCEPT !.facts = Over(@, doc.facts)] ELSE set, doc)

(* The need is free text that only ever grows: told, or Blank. *)
Told == "told"
Usable(field) == IF field = Need THEN {Told} ELSE Answers

(* What a submitted, non-empty answer leaves in a field: a list of terms    *)
(* may hold none ("," has no term).                                         *)
Submitted(field) == Usable(field) \cup (IF field \in ListFields THEN {Blank} ELSE {})

(* _missing_information of a security context built from these facts. *)
Missing(facts) == {field \in Required : facts[field] = Blank}

IsOpen(status) == status \in {"pending", "deferred"}

(* build_context_building_state: a missing field keeps its question's       *)
(* status, and gets a pending question when it has none; of the others the  *)
(* answered questions and the ones a task asked are kept.                   *)
BuildQuestions(missing, questions) ==
    [q \in Questions |->
        IF q \in missing
        THEN IF questions[q] = "none" THEN "pending" ELSE questions[q]
        ELSE IF q \in Details \/ questions[q] = "answered" THEN questions[q] ELSE "none"]

BuildingPending(questions) ==   \* mutant: a deferred question no longer counts
    [status |-> IF \E q \in Questions : questions[q] = "pending"
                THEN "needs_information" ELSE "sufficient",
     questions |-> questions]

Building(questions) ==
    [status |-> IF \E q \in Questions : IsOpen(questions[q])
                THEN "needs_information" ELSE "sufficient",
     questions |-> questions]

NoFacts == [field \in Required |-> Blank]

NoQuestions == [q \in Questions |-> "none"]

(* build_context_intelligence_plan: a draft over the facts, its snapshot,   *)
(* which keeps the revisions of the plan it replaces.  A revision is the    *)
(* snapshot it was approved with; its id is its place.                      *)
DraftAfresh(facts, revisions) ==   \* mutant: the plan's revisions are forgotten
    [status |-> "draft", approved |-> 0, snapshot |-> facts, revisions |-> <<>>]

Draft(facts, revisions) ==
    [status |-> "draft", approved |-> 0, snapshot |-> facts, revisions |-> revisions]

(* approve_context_intelligence_plan. *)
Approved(plan) ==
    [plan EXCEPT !.status = "approved",
                 !.approved = Len(plan.revisions) + 1,
                 !.revisions = Append(plan.revisions, plan.snapshot)]

(* context_plan_revision finds the approved id among the revisions. *)
HasActiveRevision(plan) == plan.approved \in 1 .. Len(plan.revisions)

NoResults == [status |-> "none", revision |-> 0, snapshot |-> NoFacts, tasks |-> <<>>]

NoFinal == [status |-> "none", revision |-> 0, snapshot |-> NoFacts,
            findings |-> <<>>, marked |-> {}, edition |-> 0]

(* build_final_context: the findings of the results, under the revision and *)
(* the snapshot the results carry.                                          *)
FinalFrom(results) ==
    [status |-> "ready", revision |-> results.revision, snapshot |-> results.snapshot,
     findings |-> results.tasks, marked |-> {}, edition |-> 0]

(* The marked sections rewritten and accepted again: another edition. *)
Regenerated(final) ==
    [final EXCEPT !.status = "ready", !.marked = {}, !.edition = @ + 1]

(* render_final_context_prompt, named by what it was rendered from. *)
Rendered(final) ==
    [revision |-> final.revision, snapshot |-> final.snapshot, edition |-> final.edition]

(* The orders in which a document may hold these sections. *)
Orders(sections) == {order \in [1 .. Cardinality(sections) -> sections] : IsInjective(order)}

(* _build_context_lesson_candidate for each marked section, numbered on from *)
(* the lessons that were read.                                               *)
Candidates(order, lessons) ==
    [n \in DOMAIN order |->
        [lesson |-> Len(lessons) + n, section |-> order[n], status |-> "pending_review"]]

(* Everything a change of the facts rebuilds from all of them as read: the  *)
(* stored missing information, the questions, a fresh draft and the workflow *)
(* status.  Of the facts themselves it sets those that were touched.        *)
RebuiltFromQuestions(revisions, facts, questions, touched) ==   \* mutant: answered, so not missing
    LET missing == {q \in Missing(facts) : questions[q] # "answered"}
        building == Building(BuildQuestions(missing, questions)) IN
    [facts |-> [field \in touched |-> facts[field]], missing |-> missing, building |-> building,
     plan |-> Draft(facts, revisions),
     status |-> IF building.status = "needs_information"
                THEN "context_building_needs_input" ELSE "awaiting_task_validation"]

Rebuilt(revisions, facts, questions, touched) ==
    LET building == Building(BuildQuestions(Missing(facts), questions)) IN
    [facts |-> [field \in touched |-> facts[field]],
     missing |-> Missing(facts),
     building |-> building,
     plan |-> Draft(facts, revisions),
     status |-> IF building.status = "needs_information"
                THEN "context_building_needs_input" ELSE "awaiting_task_validation"]

(***************************************************************************)
(* The gates.                                                              *)
(***************************************************************************)

(* _context_plan_execution_blocker finds nothing. *)
MayExecute(doc) ==
    /\ doc.building.status # "needs_information"
    /\ doc.plan.status = "approved"
    /\ doc.plan.approved # 0

(* _policy_generation_blocker finds nothing. *)
MayGenerate(doc) ==
    /\ doc.building.status # "needs_information"
    /\ doc.plan.status = "approved"
    /\ doc.status = "context_ready_for_policy"
    /\ doc.final.status = "ready"
    /\ doc.missing = {}

(* validate_policy_handoff_context accepts what is handed over. *)
HandoffIsValid(doc) ==
    /\ doc.final.status = "ready"
    /\ doc.final.revision # 0
    /\ doc.final.marked = {}
    /\ doc.final.findings # <<>>
    /\ \A n \in DOMAIN doc.final.findings : doc.final.findings[n] = "completed"
    /\ doc.missing = {}

(* get_context_and_prompt hands the context over to the policy agent. *)
HandsOver(doc) ==
    /\ doc.status = "context_ready_for_policy"
    /\ doc.prompt # Rendered(NoFinal)
    /\ HandoffIsValid(doc)

(***************************************************************************)
(* The document as `create` inserts it, with any of the answers given.     *)
(***************************************************************************)
Created(facts) ==
    Written(Rebuilt(<<>>, facts, NoQuestions, {}),
        [facts |-> facts, results |-> NoResults, final |-> NoFinal, prompt |-> Rendered(NoFinal),
         lessons |-> <<>>])

Nothing == [at |-> "idle", set |-> <<>>, read |-> [revisions |-> <<>>, lessons |-> <<>>]]

Resting == [at |-> "idle", results |-> NoResults, questions |-> NoQuestions]

Init ==
    /\ \E facts \in [Required -> Answers \cup {Told, Blank}] :
          /\ \A field \in Required : facts[field] \in Usable(field) \cup {Blank}
          /\ context = Created(facts)
    /\ request = [r \in Requests |-> Nothing]
    /\ worker = [w \in Workers |-> Resting]

(***************************************************************************)
(* The requests.  Compute(r, step, set) is the end of a handler's reading   *)
(* part: what it will set, and, of the copy of the document it keeps, the   *)
(* revisions and the lessons.                                               *)
(***************************************************************************)
Compute(r, step, set) ==
    /\ request[r].at = "idle"
    /\ request' = [request EXCEPT ![r] =
         [at |-> step, set |-> set,
          read |-> [revisions |-> context.plan.revisions, lessons |-> context.lessons]]]
    /\ UNCHANGED <<context, worker>>

(* The questions a form or a JSON body holds an answer to: one, several, or *)
(* none when all it holds is blank.                                         *)
AnswersFromRequest == SUBSET Questions

(* answer_context_building_questions, apply_context_building_answers: the   *)
(* questions answered must be among the document's; the answer to a task's  *)
(* question is added to the need.  Blank answers rebuild the draft as well. *)
AnswerQuestions(r) ==
    LET questions == context.building.questions
        answered(S) == [q \in Questions |-> IF q \in S THEN "answered" ELSE questions[q]]
        touched(S) == {IF q \in Details THEN Need ELSE q : q \in S}
    IN
    /\ \E q \in Questions : questions[q] # "none"
    /\ \E S \in AnswersFromRequest :
        /\ \A q \in S : questions[q] # "none"
        /\ \E facts \in [Required -> Answers \cup {Told, Blank}] :
              /\ \A field \in Required :
                    facts[field] \in IF field \in touched(S) THEN Submitted(field)
                                    ELSE {context.facts[field]}
              /\ Compute(r, "save",
                     Rebuilt(context.plan.revisions, facts, answered(S), touched(S)))

(* defer_context_building_question: whatever the question was, answered or  *)
(* not, it is deferred and the building needs information.                  *)
Deferred(building, q) ==
    [status |-> "needs_information", questions |-> [building.questions EXCEPT ![q] = "deferred"]]

(* defer_context_building_question_route. *)
DeferQuestion(r) ==
    \E q \in {q \in Questions : context.building.questions[q] # "none"} :
        Compute(r, "save", [building |-> Deferred(context.building, q),
                            status |-> "context_building_needs_input"])

(* continue_context up to the call of the agent.  What it will write, should *)
(* the agent answer, follows from the document read before the call.         *)
ContinueContext(r) ==
    Compute(r, "asking",
        Rebuilt(context.plan.revisions,
                [context.facts EXCEPT ![Need] = Told],
                context.building.questions, {Need}))

(* The agent answers, answers nothing (the document becomes pending), or the *)
(* call fails and nothing is written.                                        *)
AgentAnswers(r) ==
    /\ request[r].at = "asking"
    /\ \/ request' = [request EXCEPT ![r].at = "save"]
       \/ request' = [request EXCEPT ![r].at = "save", ![r].set = [status |-> "pending"]]
       \/ request' = [request EXCEPT ![r] = Nothing]
    /\ UNCHANGED <<context, worker>>

(* approve_context_plan. *)
ApprovePlan(r) ==
    /\ context.building.status # "needs_information"
    /\ Len(context.plan.revisions) < MaxRevisions
    /\ Compute(r, "save", [plan |-> Approved(context.plan), status |-> "context_plan_approved"])

SynthesizeUnmatched(r) ==   \* mutant: the results' revision is not compared
    LET final == [FinalFrom(context.results) EXCEPT !.revision = context.plan.approved] IN
    /\ context.results.status = "completed"
    /\ context.plan.status = "approved" /\ HasActiveRevision(context.plan)
    /\ context.missing = {}
    /\ Compute(r, "save", [status |-> "context_ready_for_policy", final |-> final,
                           prompt |-> Rendered(final)])

(* synthesize_final_context: completed results of the active revision, and   *)
(* nothing missing in the stored security context, which is written back.    *)
SynthesizeFinalContext(r) ==
    LET results == context.results
        final == FinalFrom(results)
    IN
    /\ results.status = "completed"
    /\ \A n \in DOMAIN results.tasks : results.tasks[n] = "completed"
    /\ context.plan.status = "approved"
    /\ HasActiveRevision(context.plan)
    /\ results.revision = context.plan.approved
    /\ context.missing = {}
    /\ Compute(r, "save",
         [status |-> "context_ready_for_policy", final |-> final,
          prompt |-> Rendered(final), missing |-> context.missing])

(* mark_final_context_sections_for_improvement. *)
MarkSectionsQuietly(r) ==   \* mutant: the final context stays ready
    /\ context.final.status # "none"
    /\ \E S \in SUBSET Sections \ {{}} :
         Compute(r, "save", [final |-> [context.final EXCEPT !.marked = @ \cup S]])

MarkSections(r) ==
    /\ context.final.status # "none"
    /\ \E S \in SUBSET Sections \ {{}} :
         Compute(r, "save",
             [status |-> "final_context_needs_improvement",
              final |-> [context.final EXCEPT !.status = "needs_improvement",
                                              !.marked = @ \cup S]])

(* regenerate_final_context_sections, which appends a lesson for each of    *)
(* them to the lessons it read.                                             *)
RegenerateWithoutPrompt(r) ==   \* mutant: the prompt is not rendered again
    /\ context.final.marked # {}
    /\ context.final.edition < MaxEditions
    /\ Compute(r, "save", [status |-> "context_ready_for_policy",
                           final |-> Regenerated(context.final)])

RegenerateForgetting(r) ==   \* mutant: only the new lessons are stored
    /\ context.final.marked # {}
    /\ context.final.edition < MaxEditions
    /\ Len(context.lessons) + Cardinality(context.final.marked) <= MaxLessons
    /\ \E order \in Orders(context.final.marked) :
         Compute(r, "save",
             [status |-> "context_ready_for_policy", final |-> Regenerated(context.final),
              prompt |-> Rendered(Regenerated(context.final)),
              lessons |-> Candidates(order, context.lessons)])

RegenerateSections(r) ==
    LET final == Regenerated(context.final)
        lessons == context.lessons
    IN
    /\ context.final.marked # {}
    /\ context.final.edition < MaxEditions
    /\ Len(lessons) + Cardinality(context.final.marked) <= MaxLessons
    /\ \E order \in Orders(context.final.marked) :
         Compute(r, "save",
             [status |-> "context_ready_for_policy", final |-> final, prompt |-> Rendered(final),
              lessons |-> lessons \o Candidates(order, lessons)])

(* export_context_lessons: what may be taken into the retrieval corpus. *)
Exported(lessons) == {n \in DOMAIN lessons : lessons[n].status = "approved_for_export"}

(* update_context_lesson_status: every lesson of that id, in the list that   *)
(* was read, and the whole list is written back.                             *)
ReviewLesson(r) ==
    \E lesson \in 1 .. MaxLessons, status \in Reviews :
        /\ \E n \in DOMAIN context.lessons : context.lessons[n].lesson = lesson
        /\ Compute(r, "save",
             [lessons |-> [n \in DOMAIN context.lessons |->
                 IF context.lessons[n].lesson = lesson
                 THEN [context.lessons[n] EXCEPT !.status = status]
                 ELSE context.lessons[n]]])

(* The update_one that ends every one of these handlers. *)
Save(r) ==
    /\ request[r].at = "save"
    /\ context' = Written(request[r].set, context)
    /\ request' = [request EXCEPT ![r] = Nothing]
    /\ UNCHANGED worker

(***************************************************************************)
(* The execution of the approved revision, one step per database write.    *)
(***************************************************************************)

(* trigger_context_plan_execution creates a job and starts its thread. *)
TriggerExecution(w) ==
    /\ worker[w].at = "idle"
    /\ MayExecute(context)
    /\ worker' = [worker EXCEPT ![w].at = "queued"]
    /\ UNCHANGED <<context, request>>

(* execute_context_plan reads the document; the results it will report and  *)
(* the questions it may extend come from this copy.                         *)
StartExecution(w) ==
    /\ worker[w].at = "queued"
    /\ worker' = [worker EXCEPT ![w] =
         IF context.plan.status = "approved" /\ HasActiveRevision(context.plan)
         THEN [at |-> "announce",
               results |-> [status |-> "running", revision |-> context.plan.approved,
                            snapshot |-> context.plan.revisions[context.plan.approved],
                            tasks |-> <<>>],
               questions |-> context.building.questions]
         ELSE Resting]
    /\ UNCHANGED <<context, request>>

AnnounceRunning(w) ==
    /\ worker[w].at = "announce"
    /\ context' = [context EXCEPT !.status = "context_plan_executing",
                                  !.results = worker[w].results]
    /\ worker' = [worker EXCEPT ![w].at = "tasks"]
    /\ UNCHANGED request

(* _execute_context_plan_task: the agent's call completes, fails, or needs  *)
(* more context.                                                            *)
Outcomes == {"completed", "failed", "needs_more_context"}

RunTaskRegardless(w) ==   \* mutant: a failed task does not end the execution
    /\ worker[w].at = "tasks"
    /\ Len(worker[w].results.tasks) < TaskCount
    /\ \E outcome \in Outcomes :
         LET results == [worker[w].results EXCEPT !.tasks = Append(@, outcome)] IN
         /\ context' = [context EXCEPT !.results = results]
         /\ worker' = [worker EXCEPT ![w].results = results]
    /\ UNCHANGED request

(* One round of the loop over the tasks, with the write of its result: the *)
(* first task that does not complete is the last.                          *)
RunTask(w) ==
    /\ worker[w].at = "tasks"
    /\ Len(worker[w].results.tasks) < TaskCount
    /\ \E outcome \in Outcomes :
         LET results == [worker[w].results EXCEPT !.tasks = Append(@, outcome)] IN
         /\ context' = [context EXCEPT !.results = results]
         /\ worker' = [worker EXCEPT ![w].results = results,
                                     ![w].at = IF outcome = "completed" THEN @ ELSE outcome]
    /\ UNCHANGED request

Close(w, ending, set) ==
    /\ context' = Written(set, [context EXCEPT !.results = [worker[w].results EXCEPT !.status = ending]])
    /\ worker' = [worker EXCEPT ![w] = Resting]
    /\ UNCHANGED request

FailExecution(w) ==
    /\ worker[w].at = "failed"
    /\ Close(w, "failed", [status |-> "context_plan_failed"])

(* add_context_task_missing_questions: a detail asked before keeps the       *)
(* status of its question, and the building needs information whatever was   *)
(* missing, nothing named included.                                          *)
AskForDetails(w) ==
    LET asked(D) == [q \in Questions |->
            IF q \in D /\ worker[w].questions[q] = "none" THEN "pending"
            ELSE worker[w].questions[q]]
    IN
    /\ worker[w].at = "needs_more_context"
    /\ \E D \in SUBSET Details :
         Close(w, "needs_more_context",
             [status |-> "context_plan_needs_input",
              building |-> [status |-> "needs_information", questions |-> asked(D)]])

CompleteExecution(w) ==
    /\ worker[w].at = "tasks"
    /\ Len(worker[w].results.tasks) = TaskCount
    /\ Close(w, "completed", [status |-> "context_plan_executed"])

(* The process, or a write, fails: the thread is gone and the document stays *)
(* as its last write left it.                                                *)
LoseWorker(w) ==
    /\ worker[w].at # "idle"
    /\ worker' = [worker EXCEPT ![w] = Resting]
    /\ UNCHANGED <<context, request>>

RequestStep(r) ==
    \/ AnswerQuestions(r) \/ DeferQuestion(r) \/ ContinueContext(r) \/ AgentAnswers(r)
    \/ ApprovePlan(r) \/ SynthesizeFinalContext(r)
    \/ MarkSections(r) \/ RegenerateSections(r) \/ ReviewLesson(r)
    \/ Save(r)

WorkerStep(w) ==
    \/ TriggerExecution(w) \/ StartExecution(w) \/ AnnounceRunning(w) \/ RunTask(w)
    \/ FailExecution(w) \/ AskForDetails(w) \/ CompleteExecution(w) \/ LoseWorker(w)

Next == (\E r \in Requests : RequestStep(r)) \/ (\E w \in Workers : WorkerStep(w))

Spec == Init /\ [][Next]_vars

(***************************************************************************)
(* Properties                                                              *)
(***************************************************************************)

Facts == {facts \in [Required -> Answers \cup {Told, Blank}] :
             \A field \in Required : facts[field] \in Usable(field) \cup {Blank}}

QuestionStates == [Questions -> {"none", "pending", "deferred", "answered"}]

Buildings == [status : {"needs_information", "sufficient"}, questions : QuestionStates]

Plans ==
    [status : {"draft", "approved"}, approved : 0 .. MaxRevisions,
     snapshot : Facts, revisions : Seq(Facts)]

Results ==
    [status : {"none", "running", "failed", "needs_more_context", "completed"},
     revision : 0 .. MaxRevisions, snapshot : Facts, tasks : Seq(Outcomes)]

Finals ==
    [status : {"none", "ready", "needs_improvement"}, revision : 0 .. MaxRevisions,
     snapshot : Facts, findings : Seq(Outcomes), marked : SUBSET Sections,
     edition : 0 .. MaxEditions]

Prompts == [revision : 0 .. MaxRevisions, snapshot : Facts, edition : 0 .. MaxEditions]

Lessons ==
    Seq([lesson : 1 .. MaxLessons, section : Sections, status : Reviews \cup {"pending_review"}])

Parts == {"facts", "missing", "building", "plan", "status", "results", "final", "prompt", "lessons"}

(* The members of a document, or of what is set in it. *)
Shape(doc) ==
    /\ DOMAIN doc \subseteq Parts
    /\ "facts" \in DOMAIN doc =>
          /\ DOMAIN doc.facts \subseteq Required
          /\ \A field \in DOMAIN doc.facts : doc.facts[field] \in Usable(field) \cup {Blank}
    /\ "missing" \in DOMAIN doc => doc.missing \subseteq Required
    /\ "building" \in DOMAIN doc => doc.building \in Buildings
    /\ "plan" \in DOMAIN doc => doc.plan \in Plans
    /\ "results" \in DOMAIN doc => doc.results \in Results
    /\ "final" \in DOMAIN doc => doc.final \in Finals
    /\ "prompt" \in DOMAIN doc => doc.prompt \in Prompts
    /\ "lessons" \in DOMAIN doc => doc.lessons \in Lessons

Executions ==
    [at : {"idle", "queued", "announce", "tasks", "failed", "needs_more_context"},
     results : Results, questions : QuestionStates]

(* The shape of the document, of what each request will write and of what   *)
(* each worker carries.                                                     *)
TypeOK ==
    /\ Shape(context) /\ DOMAIN context = Parts /\ context.facts \in Facts
    /\ DOMAIN request = Requests
    /\ \A r \in Requests :
          /\ DOMAIN request[r] = {"at", "set", "read"}
          /\ request[r].at \in {"idle", "asking", "save"}
          /\ Shape(request[r].set)
          /\ request[r].read \in [revisions : Seq(Facts), lessons : Lessons]
    /\ worker \in [Workers -> Executions]

(* Policy generation is never offered for a context the hand-over then      *)
(* refuses: whatever requests and workers overlapped, the route's gate and  *)
(* the checks of get_context_and_prompt agree on an offered context.        *)
OfferedIsAccepted == MayGenerate(context) => HandsOver(context)

(* A context ready for policy generation carries the prompt of the final    *)
(* context it holds, not of an edition before an improvement.               *)
PromptIsCurrent ==
    context.status = "context_ready_for_policy" =>
        context.prompt = Rendered(context.final)

(* Policy generation is offered only when every required field of the       *)
(* document really holds a usable answer.                                   *)
OfferedIsAnswered == MayGenerate(context) => Missing(context.facts) = {}

(* A pending or deferred question keeps planning, execution and generation  *)
(* blocked.                                                                 *)
OpenQuestionBlocks ==
    (\E q \in Questions : IsOpen(context.building.questions[q])) =>
        context.building.status = "needs_information"

(* The results and the final context carry the id and the snapshot of a     *)
(* revision the user approved, and that the plan still records.             *)
TracedToApproval ==
    \A derived \in {context.results, context.final} :
        derived.revision # 0 =>
            /\ derived.revision \in 1 .. Len(context.plan.revisions)
            /\ derived.snapshot = context.plan.revisions[derived.revision]

(* Completed results hold one completed result for every task, and so does  *)
(* every final context.                                                     *)
CompletedIsWhole ==
    LET whole == [n \in 1 .. TaskCount |-> "completed"] IN
    /\ context.results.status = "completed" => context.results.tasks = whole
    /\ context.final.status # "none" => context.final.findings = whole

(* An entry of a list that a later list, or an earlier copy, holds as it is. *)
Keeps(old, new, n) == n \in DOMAIN new /\ new[n] = old[n]

Saves(r) == request[r].at = "save" /\ request'[r] # request[r]

(* All that is set is the list that was read, with this lesson reviewed. *)
IsReview(set, read, n) ==
    \E status \in Reviews : set = [lessons |-> [read.lessons EXCEPT ![n].status = status]]

(* An approved revision is dropped from the plan, or replaced by another of *)
(* its id, only by a request that read the document before it was recorded: *)
(* no handler loses a revision it has read, in how many saves so ever, and  *)
(* no execution loses one at all.                                           *)
OnlyUnreadRevisionsAreLost ==
    [][\A n \in DOMAIN context.plan.revisions :
          ~Keeps(context.plan.revisions, context'.plan.revisions, n) =>
              \E r \in Requests :
                  Saves(r) /\ ~Keeps(context.plan.revisions, request[r].read.revisions, n)]_vars

(* A lesson, with the status of its review, is lost or changed only by its  *)
(* own review or by a request that had not read it as it is; and whatever   *)
(* requests overlap, no two of the lessons stored share an id.              *)
OnlyUnreadLessonsAreLost ==
    [][/\ \A n \in DOMAIN context.lessons :
             ~Keeps(context.lessons, context'.lessons, n) =>
                 \E r \in Requests :
                     /\ Saves(r)
                     /\ \/ ~Keeps(context.lessons, request[r].read.lessons, n)
                        \/ IsReview(request[r].set, request[r].read, n)
       /\ IsInjective([n \in DOMAIN context'.lessons |-> context'.lessons[n].lesson])]_vars

(* An approved revision is immutable: it is never dropped from the plan or  *)
(* replaced by another of the same id.                                      *)
RevisionsAreImmutable == [][IsPrefix(context.plan.revisions, context'.plan.revisions)]_vars
=============================================================================
