----------------------- MODULE ContextWorkflow_proofs -----------------------
(***************************************************************************)
(* What holds of the document however many requests and executions overlap. *)
(*                                                                         *)
(* Requests save what they computed from documents that are gone, so an    *)
(* invariant of the document must be one of everything that waits to be    *)
(* written: Sound says of a document, and of a set of members alike, that  *)
(* its parts agree with each other, and that no set holds a part without   *)
(* those it must agree with.                                               *)
(*                                                                         *)
(* What relates the document to what it was before, its revisions, lessons *)
(* and missing information, a request that overlaps another may overwrite. *)
(* The second part bounds the damage: what waits to be written Recalls all *)
(* that its request had read, so that a revision or a lesson is lost only  *)
(* to a request that had not read it.  The third shows that executions, of *)
(* which there may be any number, do no harm: as long as no two requests   *)
(* overlap (OneInFlight), what waits to be written Fits the document as it *)
(* is.                                                                     *)
(***************************************************************************)
EXTENDS ContextWorkflow, FiniteSetTheorems, SequenceTheorems, TLAPS

Whole == [n \in 1 .. TaskCount |-> "completed"]

(* An open question keeps the building waiting. *)
Blocks(building) ==
    (\E q \in Questions : IsOpen(building.questions[q])) => building.status = "needs_information"

ResultsWhole(results) == results.status = "completed" => results.tasks = Whole

FinalWhole(final) ==
    /\ final.status # "none" => final.revision # 0 /\ final.findings = Whole
    /\ final.status # "needs_improvement" => final.marked = {}

Sound(doc) ==
    /\ "building" \in DOMAIN doc => Blocks(doc.building)
    /\ "results" \in DOMAIN doc => ResultsWhole(doc.results)
    /\ "final" \in DOMAIN doc => FinalWhole(doc.final) /\ "status" \in DOMAIN doc
    /\ "prompt" \in DOMAIN doc => "final" \in DOMAIN doc
    /\ "status" \in DOMAIN doc /\ doc.status = "context_ready_for_policy" =>
          /\ "final" \in DOMAIN doc /\ "prompt" \in DOMAIN doc
          /\ doc.prompt = Rendered(doc.final)

(* An execution has completed all of its tasks but the one it stopped at. *)
Runs(execution) ==
    /\ execution.at \notin {"idle", "queued"} => execution.results.status = "running"
    /\ execution.at \in {"announce", "tasks"} =>
          \A n \in DOMAIN execution.results.tasks : execution.results.tasks[n] = "completed"

IInv ==
    /\ TypeOK
    /\ Sound(context)
    /\ \A r \in Requests : Sound(request[r].set)
    /\ \A w \in Workers : Runs(worker[w])

-----------------------------------------------------------------------------

(* The answers that are set, over those of the document. *)
LEMMA MergedFacts ==
    ASSUME NEW set, NEW facts \in Facts, DOMAIN set \subseteq Required,
           \A field \in DOMAIN set : set[field] \in Usable(field) \cup {Blank}
    PROVE  Over(set, facts) \in Facts
<1> DEFINE new == Over(set, facts)
<1>1. DOMAIN facts = Required /\ \A field \in Required : facts[field] \in Usable(field) \cup {Blank}
  BY DEF Facts
<1>2. new = [field \in Required |-> IF field \in DOMAIN set THEN set[field] ELSE facts[field]]
  BY <1>1 DEF Over
<1> HIDE DEF new
<1>3. \A field \in Required : new[field] \in Usable(field) \cup {Blank}
  BY <1>1, <1>2
<1>4. \A field \in Required : Usable(field) \cup {Blank} \subseteq Answers \cup {Told, Blank}
  BY DEF Usable
<1>5. new \in [Required -> Answers \cup {Told, Blank}]
  BY <1>2, <1>3, <1>4
<1> QED BY <1>3, <1>5 DEF Facts, new

(* What a $set leaves has the shape of a document. *)
LEMMA WrittenShape ==
    ASSUME NEW set, NEW doc, Shape(set), Shape(doc), DOMAIN doc = Parts, doc.facts \in Facts
    PROVE  /\ Shape(Written(set, doc)) /\ DOMAIN Written(set, doc) = Parts
           /\ Written(set, doc).facts \in Facts
<1> DEFINE new == Written(set, doc)
<1>1. DOMAIN new = Parts
  BY DEF Written, Over, Shape
<1>2. \A part \in Parts \ {"facts"} :
          new[part] = IF part \in DOMAIN set THEN set[part] ELSE doc[part]
  BY DEF Written, Over, Shape
<1>4. new.facts = IF "facts" \in DOMAIN set THEN Over(set.facts, doc.facts) ELSE doc.facts
  BY DEF Written, Over, Shape, Parts
<1> HIDE DEF new
<1>5. new.facts \in Facts
  <2>1. CASE "facts" \in DOMAIN set
    <3>1. /\ DOMAIN set.facts \subseteq Required
          /\ \A field \in DOMAIN set.facts : set.facts[field] \in Usable(field) \cup {Blank}
      BY <2>1 DEF Shape
    <3> QED BY <1>4, <2>1, <3>1, MergedFacts
  <2>2. CASE "facts" \notin DOMAIN set
    BY <1>4, <2>2
  <2> QED BY <2>1, <2>2
<1>3. Shape(new)
  <2>1. /\ DOMAIN new.facts \subseteq Required
        /\ \A field \in DOMAIN new.facts : new.facts[field] \in Usable(field) \cup {Blank}
    BY <1>5 DEF Facts
  <2>2. new.missing \subseteq Required
    BY <1>2 DEF Shape, Parts
  <2>3. new.building \in Buildings
    BY <1>2 DEF Shape, Parts
  <2>4. new.plan \in Plans
    BY <1>2 DEF Shape, Parts
  <2>5. new.results \in Results
    BY <1>2 DEF Shape, Parts
  <2>6. new.final \in Finals
    BY <1>2 DEF Shape, Parts
  <2>7. new.prompt \in Prompts
    BY <1>2 DEF Shape, Parts
  <2>8. new.lessons \in Lessons
    BY <1>2 DEF Shape, Parts
  <2> QED BY <1>1, <2>1, <2>2, <2>3, <2>4, <2>5, <2>6, <2>7, <2>8 DEF Shape
<1> QED BY <1>1, <1>3, <1>5 DEF new

(* A sound set written over a sound document leaves a sound document. *)
LEMMA WrittenSound ==
    ASSUME NEW set, NEW doc, Sound(set), Sound(doc), DOMAIN doc = Parts, DOMAIN set \subseteq Parts
    PROVE  Sound(Written(set, doc))
<1> DEFINE new == Written(set, doc)
<1>1. DOMAIN new = Parts
  BY DEF Written, Over
<1>2. \A part \in Parts \ {"facts"} :
          new[part] = IF part \in DOMAIN set THEN set[part] ELSE doc[part]
  BY DEF Written, Over
<1> HIDE DEF new
<1>3. Blocks(new.building)
  BY <1>2 DEF Sound, Parts
<1>4. ResultsWhole(new.results)
  BY <1>2 DEF Sound, Parts
<1>5. FinalWhole(new.final)
  BY <1>2 DEF Sound, Parts
<1>6. ASSUME new.status = "context_ready_for_policy"
      PROVE  new.prompt = Rendered(new.final)
  <2>1. CASE "status" \in DOMAIN set
    <3>1. /\ "final" \in DOMAIN set /\ "prompt" \in DOMAIN set
          /\ set.prompt = Rendered(set.final)
      BY <1>2, <1>6, <2>1 DEF Sound, Parts
    <3> QED BY <1>2, <3>1 DEF Parts
  <2>2. CASE "status" \notin DOMAIN set
    <3>1. "final" \notin DOMAIN set /\ "prompt" \notin DOMAIN set
      BY <2>2 DEF Sound
    <3>2. doc.prompt = Rendered(doc.final)
      BY <1>2, <1>6, <2>2 DEF Sound, Parts
    <3> QED BY <1>2, <3>1, <3>2 DEF Parts
  <2> QED BY <2>1, <2>2
<1> QED BY <1>1, <1>3, <1>4, <1>5, <1>6 DEF Sound, Parts, new

(* The building a set of questions gives is well formed and blocks. *)
LEMMA BuildingFacts ==
    ASSUME NEW questions \in QuestionStates, NEW missing
    PROVE  /\ BuildQuestions(missing, questions) \in QuestionStates
           /\ Building(questions) \in Buildings
           /\ Blocks(Building(questions))
<1>1. BuildQuestions(missing, questions) \in QuestionStates
  BY DEF BuildQuestions, QuestionStates
<1>2. Building(questions) \in Buildings
  BY DEF Building, Buildings
<1>3. Blocks(Building(questions))
  BY DEF Building, Blocks
<1> QED BY <1>1, <1>2, <1>3

(* Whatever rebuilds the draft writes a sound set. *)
LEMMA RebuiltGood ==
    ASSUME NEW revisions \in Seq(Facts), NEW facts \in Facts, NEW questions \in QuestionStates,
           NEW touched \in SUBSET Required
    PROVE  LET set == Rebuilt(revisions, facts, questions, touched) IN
           /\ Shape(set) /\ Sound(set)
           /\ DOMAIN set = {"facts", "missing", "building", "plan", "status"}
           /\ set.status # "context_ready_for_policy"
<1> DEFINE set == Rebuilt(revisions, facts, questions, touched)
           kept == BuildQuestions(Missing(facts), questions)
           given == [field \in touched |-> facts[field]]
<1>1. kept \in QuestionStates
  BY BuildingFacts
<1>2. Building(kept) \in Buildings /\ Blocks(Building(kept))
  BY <1>1, BuildingFacts
<1>3. /\ DOMAIN set = {"facts", "missing", "building", "plan", "status"}
      /\ set.facts = given /\ set.missing = Missing(facts) /\ set.building = Building(kept)
      /\ set.plan = Draft(facts, revisions)
      /\ set.status # "context_ready_for_policy"
  BY DEF Rebuilt
<1>4. Draft(facts, revisions) \in Plans
  BY WorkflowAssumption DEF Draft, Plans
<1>5. Missing(facts) \subseteq Required
  BY DEF Missing
<1>8. /\ DOMAIN given \subseteq Required
      /\ \A field \in DOMAIN given : given[field] \in Usable(field) \cup {Blank}
  BY DEF Facts
<1> HIDE DEF set, kept, given
<1>6. Shape(set)
  BY <1>2, <1>3, <1>4, <1>5, <1>8 DEF Shape, Parts
<1>7. Sound(set)
  BY <1>2, <1>3 DEF Sound
<1> QED BY <1>3, <1>6, <1>7 DEF set

(* A document as it is created is sound. *)
LEMMA CreatedGood ==
    ASSUME NEW facts \in Facts
    PROVE  /\ Shape(Created(facts)) /\ Sound(Created(facts)) /\ DOMAIN Created(facts) = Parts
           /\ Created(facts).facts \in Facts
<1> DEFINE set == Rebuilt(<<>>, facts, NoQuestions, {})
           rest == [facts |-> facts, results |-> NoResults, final |-> NoFinal, prompt |-> Rendered(NoFinal),
                    lessons |-> <<>>]
           new == Created(facts)
<1>1. NoQuestions \in QuestionStates /\ <<>> \in Seq(Facts)
  BY DEF NoQuestions, QuestionStates
<1>2. /\ Shape(set) /\ Sound(set)
      /\ DOMAIN set = {"facts", "missing", "building", "plan", "status"}
      /\ set.status # "context_ready_for_policy"
  BY <1>1, RebuiltGood
<1>3. NoFacts \in Facts
  BY DEF NoFacts, Facts, Usable
<1>4. /\ NoResults \in Results /\ NoFinal \in Finals /\ Rendered(NoFinal) \in Prompts
      /\ <<>> \in Lessons
  BY <1>3, WorkflowAssumption DEF NoResults, NoFinal, Rendered, Results, Finals, Prompts, Lessons
<1>5. new = Written(set, rest)
  BY DEF Created
<1>9. set.facts = [field \in {} |-> facts[field]]
  BY DEF Rebuilt
<1> HIDE DEF set
<1>6. /\ DOMAIN new = Parts
      /\ \A part \in DOMAIN set \ {"facts"} : new[part] = set[part]
      /\ new.results = NoResults /\ new.final = NoFinal /\ new.prompt = Rendered(NoFinal)
      /\ new.lessons = <<>>
  BY <1>2, <1>5 DEF Written, Over, Parts
<1>10. new.facts \in Facts
  <2>1. DOMAIN set.facts = {}
    BY <1>9
  <2>2. new.facts = Over(set.facts, facts)
    BY <1>2, <1>5 DEF Written, Over
  <2> QED BY <2>1, <2>2, MergedFacts
<1> HIDE DEF rest, new
<1>7. Shape(new)
  <2>1. /\ DOMAIN new.facts \subseteq Required
        /\ \A field \in DOMAIN new.facts : new.facts[field] \in Usable(field) \cup {Blank}
    BY <1>10 DEF Facts
  <2> QED BY <1>2, <1>4, <1>6, <2>1 DEF Shape, Parts
<1>8. Sound(new)
  <2>1. new.building = set.building /\ new.status = set.status
    BY <1>2, <1>6
  <2>2. Blocks(new.building) /\ new.status # "context_ready_for_policy"
    BY <1>2, <2>1 DEF Sound
  <2>3. ResultsWhole(new.results) /\ FinalWhole(new.final)
    BY <1>6 DEF ResultsWhole, FinalWhole, NoResults, NoFinal
  <2> QED BY <1>6, <2>2, <2>3 DEF Sound, Parts
<1> QED BY <1>6, <1>7, <1>8, <1>10 DEF new

(* A request that has computed a sound set keeps the invariant. *)
LEMMA ComputeKeeps ==
    ASSUME IInv, NEW r \in Requests, NEW step \in {"asking", "save"}, NEW set,
           Shape(set), Sound(set), Compute(r, step, set)
    PROVE  IInv'
<1> DEFINE read == [revisions |-> context.plan.revisions, lessons |-> context.lessons]
<1>1. /\ request' = [request EXCEPT ![r] = [at |-> step, set |-> set, read |-> read]]
      /\ UNCHANGED <<context, worker>>
  BY DEF Compute
<1>9. read \in [revisions : Seq(Facts), lessons : Lessons]
  BY DEF IInv, TypeOK, Shape, Parts, Plans
<1> HIDE DEF read
<1>2. \A other \in Requests :
          request'[other] = IF other = r THEN [at |-> step, set |-> set, read |-> read]
                            ELSE request[other]
  BY <1>1 DEF IInv, TypeOK
<1>3. DOMAIN request' = Requests
  BY <1>1 DEF IInv, TypeOK
<1>4. \A other \in Requests :
          /\ DOMAIN request'[other] = {"at", "set", "read"}
          /\ request'[other].at \in {"idle", "asking", "save"}
          /\ Shape(request'[other].set) /\ Sound(request'[other].set)
          /\ request'[other].read \in [revisions : Seq(Facts), lessons : Lessons]
  <2> TAKE other \in Requests
  <2>1. CASE other = r
    BY <1>2, <1>9, <2>1
  <2>2. CASE other # r
    BY <1>2, <2>2 DEF IInv, TypeOK
  <2> QED BY <2>1, <2>2
<1>5. Shape(context') /\ DOMAIN context' = Parts /\ Sound(context') /\ context'.facts \in Facts
  BY <1>1 DEF IInv, TypeOK
<1>6. worker' \in [Workers -> Executions] /\ \A w \in Workers : Runs(worker'[w])
  BY <1>1 DEF IInv, TypeOK
<1>7. TypeOK'
  BY <1>3, <1>4, <1>5, <1>6 DEF TypeOK
<1>8. Sound(context)' /\ (\A other \in Requests : Sound(request[other].set))'
          /\ (\A w \in Workers : Runs(worker[w]))'
  BY <1>4, <1>5, <1>6
<1> QED BY <1>7, <1>8 DEF IInv

(* An approval within the bound makes a plan. *)
LEMMA ApprovedType ==
    ASSUME NEW plan \in Plans, Len(plan.revisions) < MaxRevisions
    PROVE  Approved(plan) \in Plans
<1> DEFINE revisions == Append(plan.revisions, plan.snapshot)
           approved == Len(plan.revisions) + 1
<1>1. plan.revisions \in Seq(Facts) /\ plan.snapshot \in Facts
  BY DEF Plans
<1>2. revisions \in Seq(Facts)
  BY <1>1
<1>3. approved \in 0 .. MaxRevisions
  <2>1. Len(plan.revisions) \in Nat
    BY <1>1
  <2> QED BY <2>1, WorkflowAssumption
<1>4. Approved(plan) = [plan EXCEPT !.status = "approved", !.approved = approved,
                                    !.revisions = revisions]
  BY DEF Approved
<1> HIDE DEF revisions, approved
<1> QED BY <1>2, <1>3, <1>4 DEF Plans

(* A regeneration within the bound makes a final context, ready and whole. *)
LEMMA RegeneratedGood ==
    ASSUME NEW final \in Finals, FinalWhole(final), final.status = "needs_improvement",
           final.edition < MaxEditions
    PROVE  /\ Regenerated(final) \in Finals
           /\ FinalWhole(Regenerated(final))
           /\ Rendered(Regenerated(final)) \in Prompts
<1> DEFINE edition == final.edition + 1
           new == Regenerated(final)
<1>1. edition \in 0 .. MaxEditions
  BY WorkflowAssumption DEF Finals
<1>2. new = [final EXCEPT !.status = "ready", !.marked = {}, !.edition = edition]
  BY DEF Regenerated
<1> HIDE DEF edition, new
<1>3. new \in Finals
  BY <1>1, <1>2 DEF Finals
<1>4. new.revision = final.revision /\ new.findings = final.findings /\ new.marked = {}
  BY <1>2 DEF Finals
<1>5. FinalWhole(new)
  BY <1>4 DEF FinalWhole
<1>6. Rendered(new) \in Prompts
  BY <1>3 DEF Rendered, Finals, Prompts
<1> QED BY <1>3, <1>5, <1>6 DEF new

(* The lessons of marked sections, within the bound. *)
LEMMA CandidatesType ==
    ASSUME NEW marked \in SUBSET Sections, NEW lessons \in Lessons, NEW order \in Orders(marked),
           Len(lessons) + Cardinality(marked) <= MaxLessons
    PROVE  Candidates(order, lessons) \in Lessons
<1>1. Cardinality(marked) \in Nat
  BY WorkflowAssumption, FS_Subset, FS_CardinalityType
<1>2. Len(lessons) \in Nat
  BY DEF Lessons
<1>3. order \in [1 .. Cardinality(marked) -> marked]
  BY DEF Orders
<1> DEFINE Record == [lesson : 1 .. MaxLessons, section : Sections,
                      status : Reviews \cup {"pending_review"}]
           size == Cardinality(marked)
<1> HIDE DEF size
<1>4. \A n \in 1 .. size : Len(lessons) + n \in 1 .. MaxLessons
  BY <1>1, <1>2, WorkflowAssumption DEF size
<1>5. \A n \in 1 .. size :
          [lesson |-> Len(lessons) + n, section |-> order[n], status |-> "pending_review"] \in Record
  BY <1>3, <1>4 DEF size
<1> HIDE DEF Record
<1>6. Candidates(order, lessons) \in [1 .. size -> Record]
  BY <1>3, <1>5 DEF Candidates, size
<1>7. Candidates(order, lessons) \in Seq(Record)
  BY <1>1, <1>6 DEF size
<1> QED BY <1>7 DEF Lessons, Record

(* A review changes the status of lessons and nothing else. *)
LEMMA ReviewedType ==
    ASSUME NEW lessons \in Lessons, NEW lesson, NEW status \in Reviews
    PROVE  [n \in DOMAIN lessons |->
               IF lessons[n].lesson = lesson THEN [lessons[n] EXCEPT !.status = status]
               ELSE lessons[n]] \in Lessons
<1> DEFINE Record == [lesson : 1 .. MaxLessons, section : Sections,
                      status : Reviews \cup {"pending_review"}]
           new == [n \in DOMAIN lessons |->
                      IF lessons[n].lesson = lesson THEN [lessons[n] EXCEPT !.status = status]
                      ELSE lessons[n]]
<1>1. \A record \in Record : [record EXCEPT !.status = status] \in Record
  OBVIOUS
<1>2. lessons \in Seq(Record)
  BY DEF Lessons
<1> HIDE DEF Record
<1>3. \A n \in 1 .. Len(lessons) : lessons[n] \in Record
  BY <1>2
<1>4. DOMAIN lessons = 1 .. Len(lessons) /\ Len(lessons) \in Nat
  BY <1>2
<1>5. new \in [1 .. Len(lessons) -> Record]
  BY <1>1, <1>3, <1>4
<1>6. new \in Seq(Record)
  BY <1>4, <1>5
<1> QED BY <1>6 DEF Lessons, Record

(* The requests that read the document and compute.                         *)
LEMMA RequestKeeps ==
    ASSUME IInv, NEW r \in Requests,
           \/ AnswerQuestions(r) \/ DeferQuestion(r) \/ ContinueContext(r) \/ ApprovePlan(r)
           \/ SynthesizeFinalContext(r) \/ MarkSections(r) \/ RegenerateSections(r)
           \/ ReviewLesson(r)
    PROVE  IInv'
<1>1. /\ context.facts \in Facts /\ context.missing \subseteq Required
      /\ context.building \in Buildings /\ context.plan \in Plans
      /\ context.results \in Results /\ context.final \in Finals
      /\ context.lessons \in Lessons
  BY DEF IInv, TypeOK, Shape, Parts
<1>2. ResultsWhole(context.results) /\ FinalWhole(context.final)
  BY DEF IInv, TypeOK, Sound, Parts
<1>3. context.plan.revisions \in Seq(Facts) /\ context.building.questions \in QuestionStates
  BY <1>1 DEF Plans, Buildings
<1>4. CASE AnswerQuestions(r)
  <2>1. PICK S \in AnswersFromRequest, facts \in [Required -> Answers \cup {Told, Blank}] :
            /\ \A field \in Required :
                  facts[field] \in IF field \in {IF q \in Details THEN Need ELSE q : q \in S}
                                  THEN Submitted(field) ELSE {context.facts[field]}
            /\ Compute(r, "save",
                  Rebuilt(context.plan.revisions, facts,
                      [q \in Questions |-> IF q \in S THEN "answered"
                                           ELSE context.building.questions[q]],
                      {IF q \in Details THEN Need ELSE q : q \in S}))
    BY <1>4 DEF AnswerQuestions
  <2>2. \A field \in Required : facts[field] \in Usable(field) \cup {Blank}
    BY <1>1, <2>1 DEF Submitted, Facts
  <2>3. facts \in Facts
    BY <2>1, <2>2 DEF Facts
  <2>4. [q \in Questions |-> IF q \in S THEN "answered" ELSE context.building.questions[q]]
            \in QuestionStates
    BY <1>3 DEF QuestionStates
  <2>5. {IF q \in Details THEN Need ELSE q : q \in S} \in SUBSET Required
    BY DEF AnswersFromRequest, Questions, Required
  <2> QED BY <1>3, <2>1, <2>3, <2>4, <2>5, RebuiltGood, ComputeKeeps
<1>5. CASE DeferQuestion(r)
  <2>1. PICK q \in Questions :
            Compute(r, "save", [building |-> Deferred(context.building, q),
                                status |-> "context_building_needs_input"])
    BY <1>5 DEF DeferQuestion
  <2> DEFINE set == [building |-> Deferred(context.building, q),
                     status |-> "context_building_needs_input"]
  <2>2. Deferred(context.building, q) \in Buildings /\ Blocks(Deferred(context.building, q))
    BY <1>3 DEF Deferred, Buildings, QuestionStates, Blocks
  <2>3. Shape(set) /\ Sound(set)
    BY <2>2 DEF Shape, Sound, Parts
  <2> HIDE DEF set
  <2> QED BY <2>1, <2>3, ComputeKeeps DEF set
<1>6. CASE ContinueContext(r)
  <2> DEFINE facts == [context.facts EXCEPT ![Need] = Told]
  <2>1. facts \in Facts
    BY <1>1 DEF Facts, Usable, Required
  <2> HIDE DEF facts
  <2>2. Compute(r, "asking",
                Rebuilt(context.plan.revisions, facts, context.building.questions, {Need}))
    BY <1>6 DEF ContinueContext, facts
  <2>3. {Need} \in SUBSET Required
    BY DEF Required
  <2> QED BY <1>3, <2>1, <2>2, <2>3, RebuiltGood, ComputeKeeps
<1>7. CASE ApprovePlan(r)
  <2> DEFINE set == [plan |-> Approved(context.plan), status |-> "context_plan_approved"]
  <2>3. Approved(context.plan) \in Plans
    BY <1>1, <1>7, ApprovedType DEF ApprovePlan
  <2>4. Shape(set) /\ Sound(set)
    BY <2>3 DEF Shape, Sound, Parts
  <2>5. Compute(r, "save", set)
    BY <1>7 DEF ApprovePlan
  <2> HIDE DEF set
  <2> QED BY <2>4, <2>5, ComputeKeeps
<1>8. CASE SynthesizeFinalContext(r)
  <2> DEFINE final == FinalFrom(context.results)
             set == [status |-> "context_ready_for_policy", final |-> final,
                     prompt |-> Rendered(final), missing |-> context.missing]
  <2>1. /\ context.results.status = "completed"
        /\ context.results.revision = context.plan.approved
        /\ context.plan.approved \in 1 .. Len(context.plan.revisions)
        /\ Compute(r, "save", set)
    BY <1>8 DEF SynthesizeFinalContext, HasActiveRevision
  <2>2. context.results.tasks = Whole /\ context.results.revision # 0
    BY <1>2, <1>3, <2>1 DEF ResultsWhole
  <2>3. final \in Finals /\ Rendered(final) \in Prompts /\ FinalWhole(final)
    BY <1>1, <2>2, WorkflowAssumption DEF FinalFrom, Finals, Results, Rendered, Prompts, FinalWhole
  <2> HIDE DEF final
  <2>4. Shape(set) /\ Sound(set)
    BY <1>1, <2>3 DEF Shape, Sound, Parts
  <2> HIDE DEF set
  <2> QED BY <2>1, <2>4, ComputeKeeps
<1>9. CASE MarkSections(r)
  <2>1. PICK S \in SUBSET Sections :
            Compute(r, "save", [status |-> "final_context_needs_improvement",
                                final |-> [context.final EXCEPT !.status = "needs_improvement",
                                                                !.marked = @ \cup S]])
    BY <1>9 DEF MarkSections
  <2> DEFINE final == [context.final EXCEPT !.status = "needs_improvement", !.marked = @ \cup S]
             set == [status |-> "final_context_needs_improvement", final |-> final]
  <2>2. context.final.status # "none"
    BY <1>9 DEF MarkSections
  <2>3. final \in Finals /\ FinalWhole(final)
    BY <1>1, <1>2, <2>2 DEF Finals, FinalWhole
  <2> HIDE DEF final
  <2>4. Shape(set) /\ Sound(set)
    BY <2>3 DEF Shape, Sound, Parts
  <2>5. Compute(r, "save", set)
    BY <2>1 DEF final
  <2> HIDE DEF set
  <2> QED BY <2>4, <2>5, ComputeKeeps
<1>10. CASE RegenerateSections(r)
  <2> DEFINE final == Regenerated(context.final)
  <2>1. PICK order \in Orders(context.final.marked) :
            Compute(r, "save",
                [status |-> "context_ready_for_policy", final |-> final, prompt |-> Rendered(final),
                 lessons |-> context.lessons \o Candidates(order, context.lessons)])
    BY <1>10 DEF RegenerateSections
  <2> DEFINE lessons == context.lessons \o Candidates(order, context.lessons)
             set == [status |-> "context_ready_for_policy", final |-> final,
                     prompt |-> Rendered(final), lessons |-> lessons]
  <2>2. /\ context.final.marked # {} /\ context.final.edition < MaxEditions
        /\ Len(context.lessons) + Cardinality(context.final.marked) <= MaxLessons
    BY <1>10 DEF RegenerateSections
  <2>3. context.final.status = "needs_improvement"
    BY <1>2, <2>2 DEF FinalWhole
  <2>4. final \in Finals /\ FinalWhole(final) /\ Rendered(final) \in Prompts
    BY <1>1, <1>2, <2>2, <2>3, RegeneratedGood
  <2>5. context.final.marked \in SUBSET Sections
    BY <1>1 DEF Finals
  <2>6. Candidates(order, context.lessons) \in Lessons
    BY <1>1, <2>1, <2>2, <2>5, CandidatesType
  <2>7. lessons \in Lessons
    BY <1>1, <2>6 DEF Lessons
  <2> HIDE DEF final, lessons
  <2>8. Shape(set) /\ Sound(set)
    BY <2>4, <2>7 DEF Shape, Sound, Parts
  <2>9. Compute(r, "save", set)
    BY <2>1 DEF lessons
  <2> HIDE DEF set
  <2> QED BY <2>8, <2>9, ComputeKeeps
<1>11. CASE ReviewLesson(r)
  <2>1. PICK lesson \in 1 .. MaxLessons, status \in Reviews :
            Compute(r, "save",
                [lessons |-> [n \in DOMAIN context.lessons |->
                    IF context.lessons[n].lesson = lesson
                    THEN [context.lessons[n] EXCEPT !.status = status]
                    ELSE context.lessons[n]]])
    BY <1>11 DEF ReviewLesson
  <2> DEFINE lessons == [n \in DOMAIN context.lessons |->
                            IF context.lessons[n].lesson = lesson
                            THEN [context.lessons[n] EXCEPT !.status = status]
                            ELSE context.lessons[n]]
             set == [lessons |-> lessons]
  <2>2. lessons \in Lessons
    BY <1>1, ReviewedType
  <2> HIDE DEF lessons
  <2>3. Shape(set) /\ Sound(set)
    BY <2>2 DEF Shape, Sound, Parts
  <2>4. Compute(r, "save", set)
    BY <2>1 DEF lessons
  <2> HIDE DEF set
  <2> QED BY <2>3, <2>4, ComputeKeeps
<1> QED BY <1>4, <1>5, <1>6, <1>7, <1>8, <1>9, <1>10, <1>11

(* The agent's answer, and the write of what a request has computed.        *)
LEMMA SaveKeeps ==
    ASSUME IInv, NEW r \in Requests, AgentAnswers(r) \/ Save(r)
    PROVE  IInv'
<1>1. UNCHANGED worker
  BY DEF AgentAnswers, Save
<1>2. worker' \in [Workers -> Executions] /\ \A w \in Workers : Runs(worker'[w])
  BY <1>1 DEF IInv, TypeOK
<1>3. /\ DOMAIN request[r] = {"at", "set", "read"}
      /\ Shape(request[r].set) /\ Sound(request[r].set)
      /\ request[r].read \in [revisions : Seq(Facts), lessons : Lessons]
      /\ Shape(context) /\ Sound(context) /\ DOMAIN context = Parts /\ context.facts \in Facts
  BY DEF IInv, TypeOK
<1>4. /\ DOMAIN request' = Requests
      /\ \A other \in Requests \ {r} : request'[other] = request[other]
  BY DEF AgentAnswers, Save, IInv, TypeOK
<1>5. Shape(Nothing.set) /\ Sound(Nothing.set)
      /\ Nothing.read \in [revisions : Seq(Facts), lessons : Lessons]
  BY DEF Nothing, Shape, Sound, Lessons
<1>6. /\ DOMAIN request'[r] = {"at", "set", "read"}
      /\ request'[r].at \in {"idle", "asking", "save"}
      /\ Shape(request'[r].set) /\ Sound(request'[r].set)
      /\ request'[r].read \in [revisions : Seq(Facts), lessons : Lessons]
  <2>1. r \in DOMAIN request
    BY DEF IInv, TypeOK
  <2>2. CASE request' = [request EXCEPT ![r].at = "save"]
    <3>1. request'[r] = [request[r] EXCEPT !.at = "save"]
      BY <2>1, <2>2
    <3>2. /\ DOMAIN request'[r] = {"at", "set", "read"} /\ request'[r].at = "save"
          /\ request'[r].set = request[r].set /\ request'[r].read = request[r].read
      BY <1>3, <3>1
    <3> QED BY <1>3, <3>2
  <2>3. CASE request' = [request EXCEPT ![r].at = "save", ![r].set = [status |-> "pending"]]
    <3> DEFINE set == [status |-> "pending"]
    <3>1. request'[r] = [request[r] EXCEPT !.at = "save", !.set = set]
      BY <2>1, <2>3
    <3>2. Shape(set) /\ Sound(set)
      BY DEF Shape, Sound, Parts
    <3> HIDE DEF set
    <3>3. /\ DOMAIN request'[r] = {"at", "set", "read"} /\ request'[r].at = "save"
          /\ request'[r].set = set /\ request'[r].read = request[r].read
      BY <1>3, <3>1
    <3> QED BY <1>3, <3>2, <3>3
  <2>4. CASE request' = [request EXCEPT ![r] = Nothing]
    <3>1. request'[r] = Nothing
      BY <2>1, <2>4
    <3>2. DOMAIN Nothing = {"at", "set", "read"} /\ Nothing.at = "idle"
      BY DEF Nothing
    <3> QED BY <1>5, <3>1, <3>2
  <2> QED BY <2>2, <2>3, <2>4 DEF AgentAnswers, Save
<1>7. Shape(context') /\ DOMAIN context' = Parts /\ Sound(context') /\ context'.facts \in Facts
  <2>1. CASE AgentAnswers(r)
    <3>1. context' = context
      BY <2>1 DEF AgentAnswers
    <3> QED BY <1>3, <3>1
  <2>2. CASE Save(r)
    <3>1. context' = Written(request[r].set, context)
      BY <2>2 DEF Save
    <3>2. DOMAIN request[r].set \subseteq Parts
      BY <1>3 DEF Shape
    <3> QED BY <1>3, <3>1, <3>2, WrittenShape, WrittenSound
  <2> QED BY <2>1, <2>2
<1>8. \A other \in Requests :
          /\ DOMAIN request'[other] = {"at", "set", "read"}
          /\ request'[other].at \in {"idle", "asking", "save"}
          /\ Shape(request'[other].set) /\ Sound(request'[other].set)
          /\ request'[other].read \in [revisions : Seq(Facts), lessons : Lessons]
  <2> TAKE other \in Requests
  <2>1. CASE other = r
    BY <1>6, <2>1
  <2>2. CASE other # r
    BY <1>4, <2>2 DEF IInv, TypeOK
  <2> QED BY <2>1, <2>2
<1>9. TypeOK'
  BY <1>2, <1>4, <1>7, <1>8 DEF TypeOK
<1>10. Sound(context)' /\ (\A other \in Requests : Sound(request[other].set))'
          /\ (\A w \in Workers : Runs(worker[w]))'
  BY <1>2, <1>7, <1>8
<1> QED BY <1>9, <1>10 DEF IInv

(* A step of a worker leaves a sound document and an execution that runs as  *)
(* executions do.                                                           *)
LEMMA WorkerWrites ==
    ASSUME IInv, NEW w \in Workers, NEW doc, NEW execution \in Executions,
           Shape(doc), Sound(doc), DOMAIN doc = Parts, doc.facts \in Facts, Runs(execution),
           context' = doc, worker' = [worker EXCEPT ![w] = execution], UNCHANGED request
    PROVE  IInv'
<1>1. worker' \in [Workers -> Executions]
  BY DEF IInv, TypeOK
<1>2. \A other \in Workers : Runs(worker'[other])
  <2> TAKE other \in Workers
  <2>1. CASE other = w
    <3>1. worker'[other] = execution
      BY <2>1 DEF IInv, TypeOK
    <3> QED BY <3>1
  <2>2. CASE other # w
    <3>1. worker'[other] = worker[other]
      BY <2>2 DEF IInv, TypeOK
    <3> QED BY <3>1 DEF IInv
  <2> QED BY <2>1, <2>2
<1>3. TypeOK'
  BY <1>1 DEF IInv, TypeOK
<1>4. Sound(context)' /\ (\A r \in Requests : Sound(request[r].set))'
          /\ (\A other \in Workers : Runs(worker[other]))'
  BY <1>2 DEF IInv
<1> QED BY <1>3, <1>4 DEF IInv

(* Nothing runs in a worker at rest. *)
LEMMA RestingGood == Resting \in Executions /\ Runs(Resting)
<1>1. NoFacts \in Facts /\ NoQuestions \in QuestionStates
  BY DEF NoFacts, Facts, Usable, NoQuestions, QuestionStates
<1>2. NoResults \in Results
  BY <1>1, WorkflowAssumption DEF NoResults, Results
<1>3. Resting \in Executions
  BY <1>1, <1>2 DEF Resting, Executions
<1> QED BY <1>3 DEF Resting, Runs

(* Results a worker writes over a sound document leave it sound, unless they *)
(* complete what is not whole.                                               *)
LEMMA ResultsWritten ==
    ASSUME NEW doc, Shape(doc), Sound(doc), DOMAIN doc = Parts, doc.facts \in Facts,
           NEW results \in Results, ResultsWhole(results)
    PROVE  /\ Shape([doc EXCEPT !.results = results])
           /\ Sound([doc EXCEPT !.results = results])
           /\ DOMAIN [doc EXCEPT !.results = results] = Parts
           /\ [doc EXCEPT !.results = results].facts \in Facts
<1> DEFINE new == [doc EXCEPT !.results = results]
<1>1. DOMAIN new = Parts
  OBVIOUS
<1>2. /\ new.results = results
      /\ \A part \in Parts \ {"results"} : new[part] = doc[part]
  BY DEF Parts
<1> HIDE DEF new
<1>3. Shape(new) /\ new.facts \in Facts
  BY <1>1, <1>2 DEF Shape, Parts
<1>4. Sound(new)
  BY <1>1, <1>2 DEF Sound, Parts
<1> QED BY <1>1, <1>3, <1>4 DEF new

(* The steps of an execution up to its last write. *)
LEMMA ExecutionKeeps ==
    ASSUME IInv, NEW w \in Workers,
           \/ TriggerExecution(w) \/ StartExecution(w) \/ AnnounceRunning(w) \/ RunTask(w)
           \/ LoseWorker(w)
    PROVE  IInv'
<1>1. /\ Shape(context) /\ Sound(context) /\ DOMAIN context = Parts /\ context.facts \in Facts
      /\ worker[w] \in Executions /\ Runs(worker[w])
      /\ worker \in [Workers -> Executions]
  BY DEF IInv, TypeOK
<1>2. worker[w].results \in Results /\ worker[w].questions \in QuestionStates
  BY <1>1 DEF Executions
<1>3. CASE TriggerExecution(w)
  <2> DEFINE execution == [worker[w] EXCEPT !.at = "queued"]
  <2>1. execution \in Executions /\ Runs(execution)
    BY <1>1 DEF Executions, Runs
  <2>2. worker' = [worker EXCEPT ![w] = execution] /\ UNCHANGED <<context, request>>
    BY <1>3 DEF TriggerExecution
  <2> HIDE DEF execution
  <2> QED BY <1>1, <2>1, <2>2, WorkerWrites
<1>4. CASE StartExecution(w)
  <2> DEFINE plan == context.plan
             results == [status |-> "running", revision |-> plan.approved,
                         snapshot |-> plan.revisions[plan.approved], tasks |-> <<>>]
             started == [at |-> "announce", results |-> results,
                         questions |-> context.building.questions]
  <2>1. plan \in Plans /\ context.building.questions \in QuestionStates
    BY <1>1 DEF Shape, Parts, Buildings
  <2>2. CASE context.plan.status = "approved" /\ HasActiveRevision(context.plan)
    <3>1. plan.approved \in 1 .. Len(plan.revisions)
      BY <2>2 DEF HasActiveRevision
    <3>2. plan.revisions[plan.approved] \in Facts /\ plan.approved \in 0 .. MaxRevisions
      BY <2>1, <3>1 DEF Plans
    <3>3. results \in Results
      BY <3>2 DEF Results
    <3>4. results.status = "running" /\ results.tasks = <<>>
      OBVIOUS
    <3>5. worker' = [worker EXCEPT ![w] = started] /\ UNCHANGED <<context, request>>
      BY <1>4, <2>2 DEF StartExecution
    <3> HIDE DEF results
    <3>6. started \in Executions /\ Runs(started)
      BY <2>1, <3>3, <3>4 DEF Executions, Runs
    <3> HIDE DEF started
    <3> QED BY <1>1, <3>5, <3>6, WorkerWrites
  <2>3. CASE ~(context.plan.status = "approved" /\ HasActiveRevision(context.plan))
    <3>1. worker' = [worker EXCEPT ![w] = Resting] /\ UNCHANGED <<context, request>>
      BY <1>4, <2>3 DEF StartExecution
    <3> QED BY <1>1, <3>1, RestingGood, WorkerWrites
  <2> QED BY <2>2, <2>3
<1>5. CASE AnnounceRunning(w)
  <2> DEFINE execution == [worker[w] EXCEPT !.at = "tasks"]
             doc == [[context EXCEPT !.status = "context_plan_executing"]
                         EXCEPT !.results = worker[w].results]
             begun == [context EXCEPT !.status = "context_plan_executing"]
  <2>1. /\ worker[w].at = "announce"
        /\ worker' = [worker EXCEPT ![w] = execution] /\ UNCHANGED request
        /\ context' = [context EXCEPT !.status = "context_plan_executing",
                                      !.results = worker[w].results]
    BY <1>5 DEF AnnounceRunning
  <2>2. execution \in Executions /\ Runs(execution)
    BY <1>1, <2>1 DEF Executions, Runs
  <2>3. ResultsWhole(worker[w].results)
    BY <1>1, <2>1 DEF Runs, ResultsWhole
  <2>4. /\ DOMAIN begun = Parts /\ begun.status = "context_plan_executing"
        /\ \A part \in Parts \ {"status"} : begun[part] = context[part]
    BY <1>1 DEF Parts
  <2>5. context' = [begun EXCEPT !.results = worker[w].results]
    BY <1>1, <2>1
  <2> HIDE DEF begun
  <2>6. Shape(begun) /\ Sound(begun) /\ begun.facts \in Facts
    BY <1>1, <2>4 DEF Shape, Sound, Parts
  <2> DEFINE after == [begun EXCEPT !.results = worker[w].results]
  <2>7. Shape(after) /\ Sound(after) /\ DOMAIN after = Parts /\ after.facts \in Facts
    BY <1>2, <2>3, <2>4, <2>6, ResultsWritten
  <2> HIDE DEF after, execution
  <2> QED BY <2>1, <2>2, <2>5, <2>7, WorkerWrites DEF after
<1>6. CASE RunTask(w)
  <2>1. PICK outcome \in Outcomes :
            LET results == [worker[w].results EXCEPT !.tasks = Append(@, outcome)] IN
            /\ context' = [context EXCEPT !.results = results]
            /\ worker' = [worker EXCEPT ![w].results = results,
                                        ![w].at = IF outcome = "completed" THEN @ ELSE outcome]
    BY <1>6 DEF RunTask
  <2> DEFINE tasks == Append(worker[w].results.tasks, outcome)
             results == [worker[w].results EXCEPT !.tasks = tasks]
             at == IF outcome = "completed" THEN worker[w].at ELSE outcome
             execution == [worker[w] EXCEPT !.results = results, !.at = at]
  <2>2. worker[w].at = "tasks" /\ UNCHANGED request
    BY <1>6 DEF RunTask
  <2>3. context' = [context EXCEPT !.results = results]
    BY <2>1
  <2>4. worker' = [worker EXCEPT ![w] = execution]
    BY <1>1, <2>1
  <2>5. worker[w].results.tasks \in Seq(Outcomes)
    BY <1>2 DEF Results
  <2>6. tasks \in Seq(Outcomes)
    BY <2>5
  <2>7. worker[w].results.status = "running"
        /\ \A n \in DOMAIN worker[w].results.tasks : worker[w].results.tasks[n] = "completed"
    BY <1>1, <2>2 DEF Runs
  <2>8. outcome = "completed" => \A n \in DOMAIN tasks : tasks[n] = "completed"
    BY <2>5, <2>7
  <2> HIDE DEF tasks
  <2>9. results \in Results /\ results.status = "running" /\ results.tasks = tasks
    BY <1>2, <2>6, <2>7 DEF Results
  <2> HIDE DEF results
  <2>10. at \in {"tasks", "failed", "needs_more_context"}
         /\ (at = "tasks" => outcome = "completed")
    BY <2>2 DEF Outcomes
  <2> HIDE DEF at
  <2>11. execution \in Executions /\ execution.results = results /\ execution.at = at
    BY <1>1, <2>9, <2>10 DEF Executions
  <2> HIDE DEF execution
  <2>12. Runs(execution)
    BY <2>8, <2>9, <2>10, <2>11 DEF Runs
  <2>13. ResultsWhole(results)
    BY <2>9 DEF ResultsWhole
  <2> DEFINE after == [context EXCEPT !.results = results]
  <2>14. Shape(after) /\ Sound(after) /\ DOMAIN after = Parts /\ after.facts \in Facts
    BY <1>1, <2>9, <2>13, ResultsWritten
  <2> HIDE DEF after
  <2> QED BY <2>2, <2>3, <2>4, <2>11, <2>12, <2>14, WorkerWrites DEF after
<1>7. CASE LoseWorker(w)
  <2>1. worker' = [worker EXCEPT ![w] = Resting] /\ UNCHANGED <<context, request>>
    BY <1>7 DEF LoseWorker
  <2> QED BY <1>1, <2>1, RestingGood, WorkerWrites
<1> QED BY <1>3, <1>4, <1>5, <1>6, <1>7

(* The last write of an execution. *)
LEMMA CloseKeeps ==
    ASSUME IInv, NEW w \in Workers, NEW ending \in {"failed", "needs_more_context", "completed"},
           NEW set, Shape(set), Sound(set), Close(w, ending, set),
           ending = "completed" => worker[w].results.tasks = Whole
    PROVE  IInv'
<1> DEFINE results == [worker[w].results EXCEPT !.status = ending]
           doc == [context EXCEPT !.results = results]
           after == Written(set, doc)
<1>1. /\ Shape(context) /\ Sound(context) /\ DOMAIN context = Parts /\ context.facts \in Facts
      /\ worker[w].results \in Results
  BY DEF IInv, TypeOK, Executions
<1>2. results \in Results
  BY <1>1 DEF Results
<1>3. ResultsWhole(results)
  BY <1>1 DEF Results, ResultsWhole
<1>4. context' = after /\ worker' = [worker EXCEPT ![w] = Resting] /\ UNCHANGED request
  BY DEF Close
<1> HIDE DEF results
<1>5. Shape(doc) /\ Sound(doc) /\ DOMAIN doc = Parts /\ doc.facts \in Facts
  BY <1>1, <1>2, <1>3, ResultsWritten
<1> HIDE DEF doc
<1>6. Shape(after) /\ DOMAIN after = Parts /\ after.facts \in Facts
  BY <1>5, WrittenShape
<1>7. Sound(after)
  BY <1>5, WrittenSound DEF Shape
<1> HIDE DEF after
<1> QED BY <1>4, <1>6, <1>7, RestingGood, WorkerWrites

(* The three ways an execution ends with a write. *)
LEMMA EndingKeeps ==
    ASSUME IInv, NEW w \in Workers,
           FailExecution(w) \/ AskForDetails(w) \/ CompleteExecution(w)
    PROVE  IInv'
<1>1. worker[w] \in Executions /\ Runs(worker[w])
  BY DEF IInv, TypeOK
<1>2. CASE FailExecution(w)
  <2> DEFINE set == [status |-> "context_plan_failed"]
  <2>1. Shape(set) /\ Sound(set)
    BY DEF Shape, Sound, Parts
  <2>2. Close(w, "failed", set)
    BY <1>2 DEF FailExecution
  <2> HIDE DEF set
  <2> QED BY <2>1, <2>2, CloseKeeps
<1>3. CASE AskForDetails(w)
  <2>1. PICK D \in SUBSET Details :
            Close(w, "needs_more_context",
                [status |-> "context_plan_needs_input",
                 building |-> [status |-> "needs_information",
                               questions |-> [q \in Questions |->
                                   IF q \in D /\ worker[w].questions[q] = "none" THEN "pending"
                                   ELSE worker[w].questions[q]]]])
    BY <1>3 DEF AskForDetails
  <2> DEFINE questions == [q \in Questions |->
                 IF q \in D /\ worker[w].questions[q] = "none" THEN "pending"
                 ELSE worker[w].questions[q]]
             building == [status |-> "needs_information", questions |-> questions]
             set == [status |-> "context_plan_needs_input", building |-> building]
  <2>2. questions \in QuestionStates
    BY <1>1 DEF Executions, QuestionStates
  <2>3. Close(w, "needs_more_context", set)
    BY <2>1
  <2> HIDE DEF questions
  <2>4. building \in Buildings /\ Blocks(building)
    BY <2>2 DEF Buildings, Blocks
  <2> HIDE DEF building
  <2>5. Shape(set) /\ Sound(set)
    BY <2>4 DEF Shape, Sound, Parts
  <2> HIDE DEF set
  <2> QED BY <2>3, <2>5, CloseKeeps
<1>4. CASE CompleteExecution(w)
  <2> DEFINE set == [status |-> "context_plan_executed"]
             tasks == worker[w].results.tasks
  <2>1. Shape(set) /\ Sound(set)
    BY DEF Shape, Sound, Parts
  <2>2. worker[w].at = "tasks" /\ Len(tasks) = TaskCount /\ Close(w, "completed", set)
    BY <1>4 DEF CompleteExecution
  <2>3. \A n \in DOMAIN tasks : tasks[n] = "completed"
    BY <1>1, <2>2 DEF Runs
  <2>4. tasks \in Seq(Outcomes)
    BY <1>1 DEF Executions, Results
  <2> HIDE DEF tasks
  <2>5. tasks = Whole
    BY <2>2, <2>3, <2>4 DEF Whole
  <2> HIDE DEF set
  <2> QED BY <2>1, <2>2, <2>5, CloseKeeps DEF tasks
<1> QED BY <1>2, <1>3, <1>4

(* A document that has just been created, with nobody working on it. *)
LEMMA InitKeeps == Init => IInv
<1> SUFFICES ASSUME Init PROVE IInv
  OBVIOUS
<1>1. PICK facts \in Facts : context = Created(facts)
  BY DEF Init, Facts
<1>2. Shape(context) /\ Sound(context) /\ DOMAIN context = Parts /\ context.facts \in Facts
  BY <1>1, CreatedGood
<1>3. request = [r \in Requests |-> Nothing] /\ worker = [w \in Workers |-> Resting]
  BY DEF Init
<1>4. /\ DOMAIN Nothing = {"at", "set", "read"} /\ Nothing.at = "idle"
      /\ Shape(Nothing.set) /\ Sound(Nothing.set)
      /\ Nothing.read \in [revisions : Seq(Facts), lessons : Lessons]
  BY DEF Nothing, Shape, Sound, Lessons
<1>5. TypeOK
  BY <1>2, <1>3, <1>4, RestingGood DEF TypeOK
<1> QED BY <1>2, <1>3, <1>4, <1>5, RestingGood DEF IInv

(* Every step keeps the invariant. *)
LEMMA NextKeeps == IInv /\ [Next]_vars => IInv'
<1> SUFFICES ASSUME IInv, [Next]_vars PROVE IInv'
  OBVIOUS
<1>1. ASSUME NEW r \in Requests, RequestStep(r) PROVE IInv'
  BY <1>1, RequestKeeps, SaveKeeps DEF RequestStep
<1>2. ASSUME NEW w \in Workers, WorkerStep(w) PROVE IInv'
  BY <1>2, ExecutionKeeps, EndingKeeps DEF WorkerStep
<1>3. CASE UNCHANGED vars
  BY <1>3 DEF vars, IInv, TypeOK
<1> QED BY <1>1, <1>2, <1>3 DEF Next

-----------------------------------------------------------------------------

(* The invariant holds of every number of overlapping requests and workers. *)
THEOREM Invariance == Spec => []IInv
<1>1. Init => IInv
  BY InitKeeps
<1>2. IInv /\ [Next]_vars => IInv'
  BY NextKeeps
<1> QED BY <1>1, <1>2, PTL DEF Spec

(* The document, what waits to be written and what the workers carry always  *)
(* have the shape of TypeOK, so the $set of every handler fits the document. *)
THEOREM TypeCorrect == Spec => []TypeOK
<1>1. IInv => TypeOK
  BY DEF IInv
<1> QED BY <1>1, Invariance, PTL

(* Whatever overlaps, a document with an open question says that it needs    *)
(* information, so planning, execution and generation stay blocked.          *)
THEOREM OpenQuestions == Spec => []OpenQuestionBlocks
<1>1. IInv => OpenQuestionBlocks
  BY DEF IInv, TypeOK, Sound, Blocks, OpenQuestionBlocks, Parts
<1> QED BY <1>1, Invariance, PTL

(* Whatever overlaps, completed results and a final context hold a completed *)
(* result of every task.                                                     *)
THEOREM Completed == Spec => []CompletedIsWhole
<1>1. IInv => CompletedIsWhole
  BY DEF IInv, TypeOK, Sound, ResultsWhole, FinalWhole, Whole, CompletedIsWhole, Parts
<1> QED BY <1>1, Invariance, PTL

(* Whatever overlaps, a document ready for generation carries the prompt of  *)
(* the final context it holds.                                               *)
THEOREM PromptCurrent == Spec => []PromptIsCurrent
<1>1. IInv => PromptIsCurrent
  BY DEF IInv, TypeOK, Sound, PromptIsCurrent, Parts
<1> QED BY <1>1, Invariance, PTL

(* Whatever overlaps, what the generation route offers the hand-over of the  *)
(* context accepts.                                                          *)
THEOREM Offered == Spec => []OfferedIsAccepted
<1>1. IInv => OfferedIsAccepted
  <2> SUFFICES ASSUME IInv, MayGenerate(context) PROVE HandsOver(context)
    BY DEF OfferedIsAccepted
  <2>1. /\ context.status = "context_ready_for_policy" /\ context.final.status = "ready"
        /\ context.missing = {}
    BY DEF MayGenerate
  <2>2. FinalWhole(context.final) /\ context.prompt = Rendered(context.final)
    BY <2>1 DEF IInv, TypeOK, Sound, Parts
  <2>3. /\ context.final.revision # 0 /\ context.final.marked = {}
        /\ context.final.findings = Whole
    BY <2>1, <2>2 DEF FinalWhole
  <2>4. Whole # <<>> /\ \A n \in DOMAIN Whole : Whole[n] = "completed"
    <3>1. Whole \in Seq({"completed"}) /\ Len(Whole) = TaskCount
      BY WorkflowAssumption DEF Whole
    <3>2. Whole # <<>>
      BY <3>1, WorkflowAssumption
    <3> QED BY <3>2 DEF Whole
  <2>5. context.prompt # Rendered(NoFinal)
    BY <2>2, <2>3 DEF Rendered, NoFinal
  <2> QED BY <2>1, <2>3, <2>4, <2>5 DEF HandsOver, HandoffIsValid
<1> QED BY <1>1, Invariance, PTL

-----------------------------------------------------------------------------

(* A lesson is found at the place of its id. *)
Numbered(lessons) == \A n \in DOMAIN lessons : lessons[n].lesson = n

(* Revisions with more of them approved. *)
Extended(old, new) == Len(old) <= Len(new) /\ \A n \in 1 .. Len(old) : new[n] = old[n]

(* What waits to be written holds all that was read, but for a lesson that  *)
(* it reviews.                                                              *)
Recalls(set, read) ==
    /\ "plan" \in DOMAIN set => Extended(read.revisions, set.plan.revisions)
    /\ "lessons" \in DOMAIN set =>
          /\ Numbered(set.lessons)
          /\ \A n \in DOMAIN read.lessons :
                Keeps(read.lessons, set.lessons, n) \/ IsReview(set, read, n)

Remembering ==
    /\ Numbered(context.lessons)
    /\ \A r \in Requests : Recalls(request[r].set, request[r].read)

(* The lessons of an improvement are numbered on from those before. *)
LEMMA CandidatesFollow ==
    ASSUME NEW marked \in SUBSET Sections, NEW lessons \in Lessons, NEW order \in Orders(marked),
           Numbered(lessons)
    PROVE  LET new == lessons \o Candidates(order, lessons)
           IN  Numbered(new) /\ \A n \in DOMAIN lessons : Keeps(lessons, new, n)
<1> DEFINE added == Candidates(order, lessons)
           new == lessons \o added
           size == Cardinality(marked)
<1>1. size \in Nat /\ Len(lessons) \in Nat
  BY WorkflowAssumption, FS_Subset, FS_CardinalityType DEF Lessons
<1>2. DOMAIN order = 1 .. size
  BY DEF Orders
<1> HIDE DEF size
<1>3. added = [n \in 1 .. size |->
                  [lesson |-> Len(lessons) + n, section |-> order[n], status |-> "pending_review"]]
  BY <1>2 DEF Candidates
<1> DEFINE Either == {lessons[n] : n \in 1 .. Len(lessons)} \cup {added[n] : n \in 1 .. size}
<1>4. DOMAIN added = 1 .. size /\ added = [n \in 1 .. size |-> added[n]]
  BY <1>3
<1>5. \A n \in 1 .. size : added[n].lesson = Len(lessons) + n
  BY <1>3
<1> HIDE DEF added
<1>6. added \in Seq(Either) /\ Len(added) = size /\ lessons \in Seq(Either)
  <2>1. \A n \in 1 .. size : added[n] \in Either
    OBVIOUS
  <2>2. lessons = [n \in 1 .. Len(lessons) |-> lessons[n]]
        /\ \A n \in 1 .. Len(lessons) : lessons[n] \in Either
    BY DEF Lessons
  <2> HIDE DEF Either
  <2>3. added \in [1 .. size -> Either] /\ lessons \in [1 .. Len(lessons) -> Either]
    BY <1>4, <2>1, <2>2
  <2> QED BY <1>1, <2>3
<1> HIDE DEF Either
<1>7. /\ Len(new) = Len(lessons) + size /\ DOMAIN new = 1 .. Len(new)
      /\ DOMAIN lessons = 1 .. Len(lessons)
      /\ \A n \in 1 .. Len(new) : new[n] = IF n <= Len(lessons) THEN lessons[n]
                                           ELSE added[n - Len(lessons)]
  BY <1>6
<1> HIDE DEF new
<1>8. Numbered(new)
  <2> SUFFICES ASSUME NEW n \in 1 .. Len(new) PROVE new[n].lesson = n
    BY <1>7 DEF Numbered
  <2>1. CASE n <= Len(lessons)
    BY <1>1, <1>7, <2>1 DEF Numbered
  <2>2. CASE ~(n <= Len(lessons))
    BY <1>1, <1>5, <1>7, <2>2
  <2> QED BY <2>1, <2>2
<1>9. \A n \in DOMAIN lessons : Keeps(lessons, new, n)
  BY <1>1, <1>7 DEF Keeps
<1> QED BY <1>8, <1>9 DEF new, added

(* What the workers leave alone. *)
Aside == {"facts", "missing", "plan", "final", "prompt", "lessons"}

(* A worker writes the results, the status and the building, and no more. *)
LEMMA WorkerLeaves ==
    ASSUME IInv, NEW w \in Workers, WorkerStep(w)
    PROVE  UNCHANGED request /\ \A part \in Aside : context'[part] = context[part]
<1>1. DOMAIN context = Parts
  BY DEF IInv, TypeOK
<1>2. ASSUME NEW ending, NEW set, DOMAIN set \subseteq {"status", "building"}, Close(w, ending, set)
      PROVE  UNCHANGED request /\ \A part \in Aside : context'[part] = context[part]
  BY <1>1, <1>2 DEF Close, Written, Over, Aside, Parts
<1>3. CASE TriggerExecution(w) \/ StartExecution(w) \/ LoseWorker(w)
  BY <1>3 DEF TriggerExecution, StartExecution, LoseWorker
<1>4. CASE AnnounceRunning(w) \/ RunTask(w)
  BY <1>1, <1>4 DEF AnnounceRunning, RunTask, Aside, Parts
<1>5. CASE FailExecution(w)
  BY <1>2, <1>5 DEF FailExecution
<1>6. CASE AskForDetails(w)
  <2>1. \E questions :
           Close(w, "needs_more_context",
                 [status |-> "context_plan_needs_input",
                  building |-> [status |-> "needs_information", questions |-> questions]])
    BY <1>6 DEF AskForDetails
  <2> QED BY <1>2, <2>1
<1>7. CASE CompleteExecution(w)
  BY <1>2, <1>7 DEF CompleteExecution
<1> QED BY <1>3, <1>4, <1>5, <1>6, <1>7 DEF WorkerStep

(* A request that has computed a set that recalls what it read. *)
LEMMA ComputeRecalls ==
    ASSUME IInv, Remembering, NEW r \in Requests, NEW step \in {"asking", "save"}, NEW set,
           Compute(r, step, set),
           Recalls(set, [revisions |-> context.plan.revisions, lessons |-> context.lessons])
    PROVE  Remembering'
<1>1. DOMAIN request = Requests
  BY DEF IInv, TypeOK
<1>2. \A q \in Requests : Recalls(request'[q].set, request'[q].read)
  <2> TAKE q \in Requests
  <2>1. CASE q = r
    BY <1>1, <2>1 DEF Compute
  <2>2. CASE q # r
    BY <1>1, <2>2 DEF Compute, Remembering
  <2> QED BY <2>1, <2>2
<1> QED BY <1>2 DEF Compute, Remembering

(* What the requests compute recalls the revisions and the lessons they read. *)
LEMMA RequestRecalls ==
    ASSUME IInv, Remembering, NEW r \in Requests,
           \/ AnswerQuestions(r) \/ DeferQuestion(r) \/ ContinueContext(r) \/ ApprovePlan(r)
           \/ SynthesizeFinalContext(r) \/ MarkSections(r) \/ RegenerateSections(r)
           \/ ReviewLesson(r)
    PROVE  Remembering'
<1> DEFINE read == [revisions |-> context.plan.revisions, lessons |-> context.lessons]
<1>1. /\ context.plan \in Plans /\ context.final \in Finals /\ context.lessons \in Lessons
      /\ Numbered(context.lessons)
  BY DEF IInv, TypeOK, Shape, Parts, Remembering
<1>2. context.plan.revisions \in Seq(Facts) /\ context.plan.snapshot \in Facts
  BY <1>1 DEF Plans
<1>3. read.revisions = context.plan.revisions /\ read.lessons = context.lessons
  OBVIOUS
<1> HIDE DEF read
<1>4. ASSUME NEW step \in {"asking", "save"}, NEW facts, NEW questions, NEW touched,
             Compute(r, step, Rebuilt(context.plan.revisions, facts, questions, touched))
      PROVE  Remembering'
  <2> DEFINE set == Rebuilt(context.plan.revisions, facts, questions, touched)
  <2>1. /\ DOMAIN set = {"facts", "missing", "building", "plan", "status"}
        /\ set.plan.revisions = context.plan.revisions
    BY DEF Rebuilt, Draft
  <2>2. Compute(r, step, set)
    BY <1>4
  <2> HIDE DEF set
  <2>3. Recalls(set, read)
    BY <1>2, <1>3, <2>1 DEF Recalls, Extended
  <2> QED BY <2>2, <2>3, ComputeRecalls DEF read
<1>5. ASSUME NEW set, Compute(r, "save", set), DOMAIN set \cap {"plan", "lessons"} = {}
      PROVE  Remembering'
  <2>1. Recalls(set, read)
    BY <1>5 DEF Recalls
  <2> QED BY <1>5, <2>1, ComputeRecalls DEF read
<1>6. CASE AnswerQuestions(r)
  <2>1. \E facts, questions, touched :
           Compute(r, "save", Rebuilt(context.plan.revisions, facts, questions, touched))
    BY <1>6 DEF AnswerQuestions
  <2> QED BY <1>4, <2>1
<1>7. CASE DeferQuestion(r)
  <2>1. PICK building : Compute(r, "save", [building |-> building,
                                            status |-> "context_building_needs_input"])
    BY <1>7 DEF DeferQuestion
  <2> QED BY <1>5, <2>1
<1>8. CASE ContinueContext(r)
  BY <1>4, <1>8 DEF ContinueContext
<1>9. CASE ApprovePlan(r)
  <2> DEFINE set == [plan |-> Approved(context.plan), status |-> "context_plan_approved"]
  <2>1. Approved(context.plan).revisions = Append(context.plan.revisions, context.plan.snapshot)
    BY <1>1 DEF Approved, Plans
  <2>2. Extended(context.plan.revisions, Approved(context.plan).revisions)
    BY <1>2, <2>1 DEF Extended
  <2>3. Recalls(set, read)
    BY <1>3, <2>2 DEF Recalls
  <2>4. Compute(r, "save", set)
    BY <1>9 DEF ApprovePlan
  <2> HIDE DEF set
  <2> QED BY <2>3, <2>4, ComputeRecalls DEF read
<1>10. CASE SynthesizeFinalContext(r)
  <2>1. PICK final : Compute(r, "save", [status |-> "context_ready_for_policy", final |-> final,
                                         prompt |-> Rendered(final), missing |-> context.missing])
    BY <1>10 DEF SynthesizeFinalContext
  <2> QED BY <1>5, <2>1
<1>11. CASE MarkSections(r)
  <2>1. PICK final : Compute(r, "save", [status |-> "final_context_needs_improvement",
                                         final |-> final])
    BY <1>11 DEF MarkSections
  <2> QED BY <1>5, <2>1
<1>12. CASE RegenerateSections(r)
  <2> DEFINE final == Regenerated(context.final)
  <2>1. PICK order \in Orders(context.final.marked) :
            Compute(r, "save",
                [status |-> "context_ready_for_policy", final |-> final, prompt |-> Rendered(final),
                 lessons |-> context.lessons \o Candidates(order, context.lessons)])
    BY <1>12 DEF RegenerateSections
  <2> DEFINE lessons == context.lessons \o Candidates(order, context.lessons)
             set == [status |-> "context_ready_for_policy", final |-> final,
                     prompt |-> Rendered(final), lessons |-> lessons]
  <2>2. context.final.marked \in SUBSET Sections
    BY <1>1 DEF Finals
  <2>3. Numbered(lessons) /\ \A n \in DOMAIN context.lessons : Keeps(context.lessons, lessons, n)
    BY <1>1, <2>1, <2>2, CandidatesFollow
  <2>4. Compute(r, "save", set)
    BY <2>1
  <2> HIDE DEF final, lessons
  <2>5. Recalls(set, read)
    BY <1>3, <2>3 DEF Recalls
  <2> HIDE DEF set
  <2> QED BY <2>4, <2>5, ComputeRecalls DEF read
<1>13. CASE ReviewLesson(r)
  <2>1. PICK lesson \in 1 .. MaxLessons, status \in Reviews :
            /\ \E n \in DOMAIN context.lessons : context.lessons[n].lesson = lesson
            /\ Compute(r, "save",
                [lessons |-> [n \in DOMAIN context.lessons |->
                    IF context.lessons[n].lesson = lesson
                    THEN [context.lessons[n] EXCEPT !.status = status]
                    ELSE context.lessons[n]]])
    BY <1>13 DEF ReviewLesson
  <2> DEFINE old == context.lessons
             new == [old EXCEPT ![lesson].status = status]
             set == [lessons |-> new]
             Record == [lesson : 1 .. MaxLessons, section : Sections,
                        status : Reviews \cup {"pending_review"}]
  <2>2. lesson \in DOMAIN old /\ old = [n \in DOMAIN old |-> old[n]]
        /\ \A n \in DOMAIN old : old[n] \in Record
    <3>1. old \in Seq(Record)
      BY <1>1 DEF Lessons
    <3> HIDE DEF Record
    <3>2. old = [n \in DOMAIN old |-> old[n]] /\ \A n \in DOMAIN old : old[n] \in Record
      BY <3>1
    <3>3. lesson \in DOMAIN old
      BY <1>1, <2>1 DEF Numbered
    <3> QED BY <3>2, <3>3
  <2>3. new = [n \in DOMAIN old |-> IF old[n].lesson = lesson
                                    THEN [old[n] EXCEPT !.status = status] ELSE old[n]]
    BY <1>1, <2>2 DEF Numbered
  <2>4. Compute(r, "save", set)
    BY <2>1, <2>3
  <2>5. Numbered(new)
    <3>1. \A record \in Record : [record EXCEPT !.status = status].lesson = record.lesson
      OBVIOUS
    <3> HIDE DEF Record
    <3>2. \A n \in DOMAIN new : n \in DOMAIN old /\ new[n].lesson = old[n].lesson
      BY <2>2, <2>3, <3>1
    <3> QED BY <1>1, <3>2 DEF Numbered
  <2>6. \A n \in DOMAIN old \ {lesson} : Keeps(old, new, n)
    BY <2>2 DEF Keeps
  <2>7. IsReview(set, read, lesson)
    BY <1>3 DEF IsReview
  <2> HIDE DEF new
  <2>8. Recalls(set, read)
    BY <1>3, <2>5, <2>6, <2>7 DEF Recalls
  <2> HIDE DEF set
  <2> QED BY <2>4, <2>8, ComputeRecalls DEF read
<1> QED BY <1>6, <1>7, <1>8, <1>9, <1>10, <1>11, <1>12, <1>13

(* The agent's answer, and the write: what is left to be written recalls. *)
LEMMA SaveRecalls ==
    ASSUME IInv, Remembering, NEW r \in Requests, AgentAnswers(r) \/ Save(r)
    PROVE  Remembering'
<1>1. /\ DOMAIN request = Requests /\ DOMAIN request[r] = {"at", "set", "read"}
      /\ DOMAIN context = Parts
      /\ Shape(request[r].set) /\ Recalls(request[r].set, request[r].read)
  BY DEF IInv, TypeOK, Remembering
<1>2. Recalls(request'[r].set, request'[r].read)
  <2>1. CASE request' = [request EXCEPT ![r].at = "save"]
    <3>1. request'[r] = [request[r] EXCEPT !.at = "save"]
      BY <1>1, <2>1
    <3>2. request'[r].set = request[r].set /\ request'[r].read = request[r].read
      BY <1>1, <3>1
    <3> QED BY <1>1, <3>2
  <2>2. CASE request' = [request EXCEPT ![r].at = "save", ![r].set = [status |-> "pending"]]
    <3> DEFINE set == [status |-> "pending"]
    <3>1. request'[r] = [request[r] EXCEPT !.at = "save", !.set = set]
      BY <1>1, <2>2
    <3>2. Recalls(set, request[r].read)
      BY DEF Recalls
    <3> HIDE DEF set
    <3>3. request'[r].set = set /\ request'[r].read = request[r].read
      BY <1>1, <3>1
    <3> QED BY <3>2, <3>3
  <2>3. CASE request' = [request EXCEPT ![r] = Nothing]
    <3>1. Recalls(Nothing.set, Nothing.read)
      BY DEF Nothing, Recalls
    <3> QED BY <1>1, <2>3, <3>1
  <2> QED BY <2>1, <2>2, <2>3 DEF AgentAnswers, Save
<1>3. \A q \in Requests \ {r} : request'[q] = request[q]
  BY <1>1 DEF AgentAnswers, Save
<1>4. Numbered(context'.lessons)
  <2>1. CASE AgentAnswers(r)
    BY <2>1 DEF AgentAnswers, Remembering
  <2>2. CASE Save(r)
    <3>1. context'.lessons = IF "lessons" \in DOMAIN request[r].set THEN request[r].set.lessons
                             ELSE context.lessons
      BY <1>1, <2>2 DEF Save, Written, Over, Shape, Parts
    <3> QED BY <1>1, <3>1 DEF Recalls, Remembering
  <2> QED BY <2>1, <2>2
<1> QED BY <1>2, <1>3, <1>4 DEF Remembering

(* Every step keeps what waits to be written recalling. *)
LEMMA StepRecalls == IInv /\ Remembering /\ [Next]_vars => Remembering'
<1> SUFFICES ASSUME IInv, Remembering, [Next]_vars PROVE Remembering'
  OBVIOUS
<1>1. ASSUME NEW r \in Requests, RequestStep(r) PROVE Remembering'
  BY <1>1, RequestRecalls, SaveRecalls DEF RequestStep
<1>2. ASSUME NEW w \in Workers, WorkerStep(w) PROVE Remembering'
  <2>1. UNCHANGED request /\ context'.lessons = context.lessons
    BY <1>2, WorkerLeaves DEF Aside
  <2> QED BY <2>1 DEF Remembering
<1>3. CASE UNCHANGED vars
  BY <1>3 DEF vars, Remembering
<1> QED BY <1>1, <1>2, <1>3 DEF Next

(* A document that has just been created has nothing to lose. *)
LEMMA InitRecalls == Init => Remembering
<1> SUFFICES ASSUME Init PROVE Remembering
  OBVIOUS
<1>1. PICK facts \in Facts : context = Created(facts)
  BY DEF Init, Facts
<1>2. context.lessons = <<>>
  BY <1>1 DEF Created, Rebuilt, Written, Over
<1>3. \A r \in Requests : request[r] = Nothing
  BY DEF Init
<1>4. Recalls(Nothing.set, Nothing.read)
  BY DEF Nothing, Recalls
<1> QED BY <1>2, <1>3, <1>4 DEF Remembering, Numbered

(* What a step loses of the revisions and of the lessons, a request saves   *)
(* that had not read it, or that reviews it.                                *)
LEMMA StepLoses ==
    ASSUME IInv, Remembering, [Next]_vars
    PROVE  /\ \A n \in DOMAIN context.plan.revisions :
                 ~Keeps(context.plan.revisions, context'.plan.revisions, n) =>
                     \E r \in Requests :
                         Saves(r) /\ ~Keeps(context.plan.revisions, request[r].read.revisions, n)
           /\ \A n \in DOMAIN context.lessons :
                 ~Keeps(context.lessons, context'.lessons, n) =>
                     \E r \in Requests :
                         /\ Saves(r)
                         /\ \/ ~Keeps(context.lessons, request[r].read.lessons, n)
                            \/ IsReview(request[r].set, request[r].read, n)
<1> DEFINE Same == /\ context'.plan.revisions = context.plan.revisions
                   /\ context'.lessons = context.lessons
<1>1. CASE Same
  BY <1>1 DEF Keeps
<1>2. ASSUME NEW r \in Requests, RequestStep(r), ~Save(r) PROVE Same
  BY <1>2 DEF RequestStep, AnswerQuestions, DeferQuestion, ContinueContext, AgentAnswers,
              ApprovePlan, SynthesizeFinalContext, MarkSections, RegenerateSections,
              ReviewLesson, Compute
<1>3. ASSUME NEW w \in Workers, WorkerStep(w) PROVE Same
  BY <1>3, WorkerLeaves DEF Aside
<1>4. ASSUME UNCHANGED vars PROVE Same
  BY <1>4 DEF vars
<1> HIDE DEF Same
<1>5. ASSUME NEW r \in Requests, Save(r)
      PROVE  /\ Saves(r)
             /\ \A n \in DOMAIN context.plan.revisions :
                   Keeps(context.plan.revisions, request[r].read.revisions, n) =>
                       Keeps(context.plan.revisions, context'.plan.revisions, n)
             /\ \A n \in DOMAIN context.lessons :
                   Keeps(context.lessons, request[r].read.lessons, n) =>
                       \/ Keeps(context.lessons, context'.lessons, n)
                       \/ IsReview(request[r].set, request[r].read, n)
  <2> DEFINE set == request[r].set
             read == request[r].read
  <2>1. /\ Shape(set) /\ DOMAIN context = Parts /\ Recalls(set, read)
        /\ read \in [revisions : Seq(Facts), lessons : Lessons]
        /\ DOMAIN request = Requests
    BY DEF IInv, TypeOK, Remembering
  <2>2. Saves(r)
    BY <1>5, <2>1 DEF Saves, Save, Nothing
  <2>3. /\ context'.plan = IF "plan" \in DOMAIN set THEN set.plan ELSE context.plan
        /\ context'.lessons = IF "lessons" \in DOMAIN set THEN set.lessons ELSE context.lessons
    BY <1>5, <2>1 DEF Save, Written, Over, Shape, Parts
  <2> HIDE DEF set, read
  <2>4. ASSUME NEW n \in DOMAIN context.plan.revisions,
               Keeps(context.plan.revisions, read.revisions, n)
        PROVE  Keeps(context.plan.revisions, context'.plan.revisions, n)
    <3>1. CASE "plan" \in DOMAIN set
      <4>1. set.plan.revisions \in Seq(Facts) /\ read.revisions \in Seq(Facts)
        BY <2>1, <3>1 DEF Shape, Plans
      <4>2. Extended(read.revisions, set.plan.revisions)
        BY <2>1, <3>1 DEF Recalls
      <4>3. n \in 1 .. Len(read.revisions) /\ read.revisions[n] = context.plan.revisions[n]
        BY <2>4, <4>1 DEF Keeps
      <4>4. n \in 1 .. Len(set.plan.revisions) /\ set.plan.revisions[n] = read.revisions[n]
        BY <4>1, <4>2, <4>3 DEF Extended
      <4> QED BY <2>3, <3>1, <4>1, <4>3, <4>4 DEF Keeps
    <3>2. CASE "plan" \notin DOMAIN set
      BY <2>3, <3>2 DEF Keeps
    <3> QED BY <3>1, <3>2
  <2>5. ASSUME NEW n \in DOMAIN context.lessons, Keeps(context.lessons, read.lessons, n)
        PROVE  Keeps(context.lessons, context'.lessons, n) \/ IsReview(set, read, n)
    <3>1. CASE "lessons" \in DOMAIN set
      BY <2>1, <2>3, <2>5, <3>1 DEF Recalls, Keeps
    <3>2. CASE "lessons" \notin DOMAIN set
      BY <2>3, <3>2 DEF Keeps
    <3> QED BY <3>1, <3>2
  <2> QED BY <2>2, <2>4, <2>5 DEF set, read
<1>6. CASE \E r \in Requests : Save(r)
  BY <1>5, <1>6
<1>7. Same \/ \E r \in Requests : Save(r)
  BY <1>2, <1>3, <1>4 DEF Next
<1> QED BY <1>1, <1>6, <1>7 DEF Same

(* Whatever overlaps, what waits to be written recalls what was read. *)
THEOREM RecallInvariance == Spec => [](IInv /\ Remembering)
<1>1. Init => IInv /\ Remembering
  BY InitKeeps, InitRecalls
<1>2. IInv /\ Remembering /\ [Next]_vars => IInv' /\ Remembering'
  BY NextKeeps, StepRecalls
<1> QED BY <1>1, <1>2, PTL DEF Spec

(* Of any number of overlapping requests and executions, only a request that *)
(* had not read an approved revision drops it from the plan or replaces it.  *)
THEOREM RevisionsRecalled == Spec => OnlyUnreadRevisionsAreLost
<1> DEFINE Lost ==
      \A n \in DOMAIN context.plan.revisions :
          ~Keeps(context.plan.revisions, context'.plan.revisions, n) =>
              \E r \in Requests :
                  Saves(r) /\ ~Keeps(context.plan.revisions, request[r].read.revisions, n)
<1>1. IInv /\ Remembering /\ [Next]_vars => [Lost]_vars
  BY StepLoses
<1> QED BY <1>1, RecallInvariance, PTL DEF Spec, OnlyUnreadRevisionsAreLost

(* Of any number of overlapping requests and executions, only a request that *)
(* had not read a lesson as it is, or the lesson's own review, changes it;   *)
(* and no two stored lessons ever share an id.                               *)
THEOREM LessonsRecalled == Spec => OnlyUnreadLessonsAreLost
<1> DEFINE Lost ==
      /\ \A n \in DOMAIN context.lessons :
            ~Keeps(context.lessons, context'.lessons, n) =>
                \E r \in Requests :
                    /\ Saves(r)
                    /\ \/ ~Keeps(context.lessons, request[r].read.lessons, n)
                       \/ IsReview(request[r].set, request[r].read, n)
      /\ IsInjective([n \in DOMAIN context'.lessons |-> context'.lessons[n].lesson])
<1>1. IInv /\ Remembering /\ [Next]_vars => [Lost]_vars
  <2> SUFFICES ASSUME IInv, Remembering, [Next]_vars PROVE Lost
    OBVIOUS
  <2>1. Numbered(context'.lessons)
    BY StepRecalls DEF Remembering
  <2>2. IsInjective([n \in DOMAIN context'.lessons |-> context'.lessons[n].lesson])
    BY <2>1 DEF Numbered, IsInjective
  <2> QED BY <2>2, StepLoses
<1> QED BY <1>1, RecallInvariance, PTL DEF Spec, OnlyUnreadLessonsAreLost

-----------------------------------------------------------------------------

(* Of the requests at most one is between its reading and its writing. *)
OneInFlight ==
    \A q, r \in Requests : request[q].at # "idle" /\ request[r].at # "idle" => q = r

(* Results, or a final context, of a recorded revision, if of any. *)
Traced(derived, revisions) ==
    derived.revision # 0 =>
        /\ derived.revision \in 1 .. Len(revisions)
        /\ derived.snapshot = revisions[derived.revision]

Coherent(doc) ==
    /\ Traced(doc.results, doc.plan.revisions)
    /\ Traced(doc.final, doc.plan.revisions)
    /\ doc.missing = Missing(doc.facts)

(* What waits to be written was computed from the document as it still is, *)
(* in the members it must agree with.                                      *)
Fits(set, doc) ==
    /\ "results" \notin DOMAIN set
    /\ "plan" \in DOMAIN set => Extended(doc.plan.revisions, set.plan.revisions)
    /\ "final" \in DOMAIN set => Traced(set.final, doc.plan.revisions)
    /\ "facts" \in DOMAIN set =>
          "missing" \in DOMAIN set /\ set.missing = Missing(Over(set.facts, doc.facts))
    /\ "missing" \in DOMAIN set /\ "facts" \notin DOMAIN set => set.missing = doc.missing

Alone ==
    /\ Coherent(context)
    /\ \A w \in Workers : Traced(worker[w].results, context.plan.revisions)
    /\ \A r \in Requests :
          /\ request[r].at = "idle" => request[r].set = Nothing.set
          /\ Fits(request[r].set, context)

(* What is traced stays so when more is approved. *)
LEMMA TracedStays ==
    ASSUME NEW derived, NEW old \in Seq(Facts), NEW new \in Seq(Facts), Extended(old, new),
           Traced(derived, old)
    PROVE  Traced(derived, new)
BY DEF Traced, Extended

(* What a set that fits leaves of the document. *)
LEMMA WrittenFits ==
    ASSUME NEW set, NEW doc, Shape(set), Shape(doc), DOMAIN doc = Parts, Coherent(doc),
           doc.facts \in Facts, Fits(set, doc)
    PROVE  /\ Coherent(Written(set, doc))
           /\ Extended(doc.plan.revisions, Written(set, doc).plan.revisions)
<1> DEFINE new == Written(set, doc)
<1>1. \A part \in Parts \ {"facts"} :
          new[part] = IF part \in DOMAIN set THEN set[part] ELSE doc[part]
  BY DEF Written, Over, Shape
<1>8. new.facts = IF "facts" \in DOMAIN set THEN Over(set.facts, doc.facts) ELSE doc.facts
  BY DEF Written, Over, Shape, Parts
<1>2. Shape(new) /\ DOMAIN new = Parts
  BY WrittenShape
<1> HIDE DEF new
<1>3. doc.plan.revisions \in Seq(Facts) /\ new.plan.revisions \in Seq(Facts)
  BY <1>2 DEF Shape, Parts, Plans
<1>4. Extended(doc.plan.revisions, new.plan.revisions)
  <2>1. CASE "plan" \in DOMAIN set
    BY <1>1, <2>1 DEF Fits, Parts
  <2>2. CASE "plan" \notin DOMAIN set
    BY <1>1, <1>3, <2>2 DEF Extended, Parts
  <2> QED BY <2>1, <2>2
<1>5. Traced(new.results, new.plan.revisions)
  <2>1. new.results = doc.results
    BY <1>1 DEF Fits, Parts
  <2> QED BY <1>3, <1>4, <2>1, TracedStays DEF Coherent
<1>6. Traced(new.final, new.plan.revisions)
  <2>1. Traced(new.final, doc.plan.revisions)
    BY <1>1 DEF Fits, Coherent, Parts
  <2> QED BY <1>3, <1>4, <2>1, TracedStays
<1>7. new.missing = Missing(new.facts)
  <2>1. CASE "facts" \in DOMAIN set
    BY <1>1, <1>8, <2>1 DEF Fits, Parts
  <2>2. CASE "facts" \notin DOMAIN set
    <3>1. new.facts = doc.facts /\ new.missing = doc.missing
      BY <1>1, <1>8, <2>2 DEF Fits, Parts
    <3> QED BY <3>1 DEF Coherent
  <2> QED BY <2>1, <2>2
<1> QED BY <1>4, <1>5, <1>6, <1>7 DEF Coherent, new

(* A request that has computed a set that fits. *)
LEMMA ComputeFits ==
    ASSUME IInv, Alone, NEW r \in Requests, NEW step \in {"asking", "save"}, NEW set,
           Fits(set, context), Compute(r, step, set)
    PROVE  Alone'
<1>1. DOMAIN request = Requests
  BY DEF IInv, TypeOK
<1>2. \A q \in Requests :
          /\ request'[q].at = "idle" => request'[q].set = Nothing.set
          /\ Fits(request'[q].set, context)
  BY <1>1 DEF Compute, Alone
<1> QED BY <1>2 DEF Compute, Alone

(* What the requests compute fits the document they read. *)
LEMMA RequestFits ==
    ASSUME IInv, Alone, NEW r \in Requests,
           \/ AnswerQuestions(r) \/ DeferQuestion(r) \/ ContinueContext(r) \/ ApprovePlan(r)
           \/ SynthesizeFinalContext(r) \/ MarkSections(r) \/ RegenerateSections(r)
           \/ ReviewLesson(r)
    PROVE  Alone'
<1>1. /\ context.plan \in Plans /\ context.final \in Finals /\ context.facts \in Facts
      /\ Coherent(context)
  BY DEF IInv, TypeOK, Shape, Parts, Alone
<1>2. context.plan.revisions \in Seq(Facts) /\ context.plan.snapshot \in Facts
  BY <1>1 DEF Plans
<1>3. ASSUME NEW facts \in Facts, NEW questions, NEW touched \in SUBSET Required,
             \A field \in Required \ touched : facts[field] = context.facts[field]
      PROVE  Fits(Rebuilt(context.plan.revisions, facts, questions, touched), context)
  <2> DEFINE set == Rebuilt(context.plan.revisions, facts, questions, touched)
             given == [field \in touched |-> facts[field]]
  <2>1. /\ DOMAIN set = {"facts", "missing", "building", "plan", "status"}
        /\ set.facts = given /\ set.missing = Missing(facts)
        /\ set.plan.revisions = context.plan.revisions
    BY DEF Rebuilt, Draft
  <2> HIDE DEF set
  <2>2. Extended(context.plan.revisions, set.plan.revisions)
    BY <1>2, <2>1 DEF Extended
  <2>3. Over(given, context.facts) = facts
    <3>1. DOMAIN facts = Required /\ DOMAIN context.facts = Required
      BY <1>1 DEF Facts
    <3>2. Over(given, context.facts) =
             [field \in Required |-> IF field \in touched THEN facts[field] ELSE context.facts[field]]
      BY <3>1 DEF Over
    <3>3. facts = [field \in Required |-> facts[field]]
      BY DEF Facts
    <3> QED BY <1>3, <3>2, <3>3
  <2> HIDE DEF given
  <2> QED BY <2>1, <2>2, <2>3 DEF Fits, set
<1>4. CASE AnswerQuestions(r)
  <2>1. PICK S \in AnswersFromRequest, facts \in [Required -> Answers \cup {Told, Blank}] :
            /\ \A field \in Required :
                  facts[field] \in IF field \in {IF q \in Details THEN Need ELSE q : q \in S}
                                  THEN Submitted(field) ELSE {context.facts[field]}
            /\ Compute(r, "save",
                  Rebuilt(context.plan.revisions, facts,
                      [q \in Questions |-> IF q \in S THEN "answered"
                                           ELSE context.building.questions[q]],
                      {IF q \in Details THEN Need ELSE q : q \in S}))
    BY <1>4 DEF AnswerQuestions
  <2> DEFINE touched == {IF q \in Details THEN Need ELSE q : q \in S}
             questions == [q \in Questions |-> IF q \in S THEN "answered"
                                               ELSE context.building.questions[q]]
  <2>2. touched \in SUBSET Required
    BY DEF AnswersFromRequest, Questions, Required
  <2>3. \A field \in Required \ touched : facts[field] = context.facts[field]
    BY <2>1
  <2>4. facts \in Facts
    BY <1>1, <2>1 DEF Submitted, Facts
  <2>5. Compute(r, "save", Rebuilt(context.plan.revisions, facts, questions, touched))
    BY <2>1
  <2> HIDE DEF touched, questions
  <2> QED BY <1>3, <2>2, <2>3, <2>4, <2>5, ComputeFits
<1>5. CASE DeferQuestion(r)
  <2>1. PICK q \in Questions :
            Compute(r, "save", [building |-> Deferred(context.building, q),
                                status |-> "context_building_needs_input"])
    BY <1>5 DEF DeferQuestion
  <2> DEFINE set == [building |-> Deferred(context.building, q),
                     status |-> "context_building_needs_input"]
  <2>2. Fits(set, context)
    BY DEF Fits
  <2> HIDE DEF set
  <2> QED BY <2>1, <2>2, ComputeFits DEF set
<1>6. CASE ContinueContext(r)
  <2> DEFINE facts == [context.facts EXCEPT ![Need] = Told]
  <2>1. facts \in Facts /\ \A field \in Required \ {Need} : facts[field] = context.facts[field]
    BY <1>1 DEF Facts, Usable, Required
  <2>2. Compute(r, "asking",
                Rebuilt(context.plan.revisions, facts, context.building.questions, {Need}))
    BY <1>6 DEF ContinueContext
  <2>3. {Need} \in SUBSET Required
    BY DEF Required
  <2> HIDE DEF facts
  <2> QED BY <1>3, <2>1, <2>2, <2>3, ComputeFits
<1>7. CASE ApprovePlan(r)
  <2> DEFINE set == [plan |-> Approved(context.plan), status |-> "context_plan_approved"]
  <2>1. Approved(context.plan).revisions = Append(context.plan.revisions, context.plan.snapshot)
    BY <1>1 DEF Approved, Plans
  <2>2. Extended(context.plan.revisions, Approved(context.plan).revisions)
    BY <1>2, <2>1 DEF Extended
  <2>3. Fits(set, context)
    BY <2>2 DEF Fits
  <2>4. Compute(r, "save", set)
    BY <1>7 DEF ApprovePlan
  <2> HIDE DEF set
  <2> QED BY <2>3, <2>4, ComputeFits
<1>8. CASE SynthesizeFinalContext(r)
  <2> DEFINE final == FinalFrom(context.results)
             set == [status |-> "context_ready_for_policy", final |-> final,
                     prompt |-> Rendered(final), missing |-> context.missing]
  <2>1. Traced(final, context.plan.revisions)
    BY <1>1 DEF FinalFrom, Coherent, Traced
  <2>2. Compute(r, "save", set)
    BY <1>8 DEF SynthesizeFinalContext
  <2> HIDE DEF final
  <2>3. Fits(set, context)
    BY <2>1 DEF Fits
  <2> HIDE DEF set
  <2> QED BY <2>2, <2>3, ComputeFits
<1>9. CASE MarkSections(r)
  <2>1. PICK S \in SUBSET Sections :
            Compute(r, "save", [status |-> "final_context_needs_improvement",
                                final |-> [context.final EXCEPT !.status = "needs_improvement",
                                                                !.marked = @ \cup S]])
    BY <1>9 DEF MarkSections
  <2> DEFINE final == [context.final EXCEPT !.status = "needs_improvement", !.marked = @ \cup S]
             set == [status |-> "final_context_needs_improvement", final |-> final]
  <2>2. Traced(final, context.plan.revisions)
    BY <1>1 DEF Coherent, Traced, Finals
  <2>3. Compute(r, "save", set)
    BY <2>1
  <2> HIDE DEF final
  <2>4. Fits(set, context)
    BY <2>2 DEF Fits
  <2> HIDE DEF set
  <2> QED BY <2>3, <2>4, ComputeFits
<1>10. CASE RegenerateSections(r)
  <2> DEFINE final == Regenerated(context.final)
  <2>1. PICK lessons :
            Compute(r, "save",
                [status |-> "context_ready_for_policy", final |-> final, prompt |-> Rendered(final),
                 lessons |-> lessons])
    BY <1>10 DEF RegenerateSections
  <2> DEFINE set == [status |-> "context_ready_for_policy", final |-> final,
                     prompt |-> Rendered(final), lessons |-> lessons]
  <2>2. Traced(final, context.plan.revisions)
    BY <1>1 DEF Regenerated, Coherent, Traced, Finals
  <2>3. Compute(r, "save", set)
    BY <2>1
  <2> HIDE DEF final
  <2>4. Fits(set, context)
    BY <2>2 DEF Fits
  <2> HIDE DEF set
  <2> QED BY <2>3, <2>4, ComputeFits
<1>11. CASE ReviewLesson(r)
  <2>1. PICK lessons : Compute(r, "save", [lessons |-> lessons])
    BY <1>11 DEF ReviewLesson
  <2> DEFINE set == [lessons |-> lessons]
  <2>2. Fits(set, context)
    BY DEF Fits
  <2> HIDE DEF set
  <2> QED BY <2>1, <2>2, ComputeFits DEF set
<1> QED BY <1>4, <1>5, <1>6, <1>7, <1>8, <1>9, <1>10, <1>11

(* The agent's answer, and the write: nobody else computes meanwhile. *)
LEMMA SaveFits ==
    ASSUME OneInFlight, IInv, Alone, NEW r \in Requests, AgentAnswers(r) \/ Save(r)
    PROVE  Alone'
<1>1. DOMAIN request = Requests /\ \A q \in Requests \ {r} : request[q].set = Nothing.set
  BY DEF IInv, TypeOK, OneInFlight, Alone, AgentAnswers, Save
<1>2. Fits(Nothing.set, context') /\ Fits([status |-> "pending"], context')
  BY DEF Nothing, Fits
<1>3. CASE AgentAnswers(r)
  <2>1. UNCHANGED <<context, worker>>
    BY <1>3 DEF AgentAnswers
  <2>2. request'[r].set \in {request[r].set, Nothing.set, [status |-> "pending"]}
    BY <1>1, <1>3 DEF AgentAnswers, IInv, TypeOK
  <2>3. Fits(request'[r].set, context')
    BY <1>2, <2>1, <2>2 DEF Alone
  <2>4. request'[r].at = "idle" => request'[r].set = Nothing.set
    BY <1>1, <1>3 DEF AgentAnswers, IInv, TypeOK
  <2>5. \A q \in Requests \ {r} : request'[q] = request[q]
    BY <1>1, <1>3 DEF AgentAnswers
  <2> QED BY <2>1, <2>3, <2>4, <2>5 DEF Alone
<1>4. CASE Save(r)
  <2> DEFINE set == request[r].set
  <2>1. context' = Written(set, context) /\ request' = [request EXCEPT ![r] = Nothing] /\ UNCHANGED worker
    BY <1>4 DEF Save
  <2>2. /\ Shape(set) /\ Shape(context) /\ DOMAIN context = Parts /\ context.facts \in Facts
        /\ Coherent(context) /\ Fits(set, context)
    BY DEF IInv, TypeOK, Alone
  <2> HIDE DEF set
  <2>3. Coherent(context') /\ Extended(context.plan.revisions, context'.plan.revisions)
    BY <2>1, <2>2, WrittenFits
  <2>4. Shape(context') /\ DOMAIN context' = Parts
    BY <2>1, <2>2, WrittenShape
  <2>5. context.plan.revisions \in Seq(Facts) /\ context'.plan.revisions \in Seq(Facts)
    BY <2>2, <2>4 DEF Shape, Parts, Plans
  <2>6. \A w \in Workers : Traced(worker'[w].results, context'.plan.revisions)
    BY <2>1, <2>3, <2>5, TracedStays DEF Alone
  <2>7. \A q \in Requests : request'[q].set = Nothing.set
    BY <1>1, <2>1
  <2>8. \A q \in Requests : Fits(request'[q].set, context')
    BY <1>2, <2>7
  <2> QED BY <2>3, <2>6, <2>7, <2>8 DEF Alone
<1> QED BY <1>3, <1>4

(* What a worker writes is traced as the worker's own results are. *)
LEMMA WorkerWritesTraced ==
    ASSUME IInv, Alone, NEW w \in Workers, NEW execution, UNCHANGED request,
           worker' = [worker EXCEPT ![w] = execution],
           Traced(execution.results, context.plan.revisions),
           \A part \in Aside : context'[part] = context[part],
           Traced(context'.results, context.plan.revisions)
    PROVE  Alone'
<1>1. /\ context'.plan = context.plan /\ context'.final = context.final
      /\ context'.facts = context.facts /\ context'.missing = context.missing
  BY DEF Aside
<1>2. \A v \in Workers : Traced(worker'[v].results, context'.plan.revisions)
  BY <1>1 DEF Alone, IInv, TypeOK
<1>3. Coherent(context')
  BY <1>1 DEF Alone, Coherent
<1>4. \A r \in Requests :
          /\ request'[r].at = "idle" => request'[r].set = Nothing.set
          /\ Fits(request'[r].set, context')
  BY <1>1 DEF Alone, Fits
<1> QED BY <1>2, <1>3, <1>4 DEF Alone

(* What a worker does writes results of the revision it has read. *)
LEMMA WorkerTraced ==
    ASSUME IInv, Alone, NEW w \in Workers, WorkerStep(w)
    PROVE  Alone'
<1>1. /\ DOMAIN context = Parts /\ worker \in [Workers -> Executions] /\ worker[w] \in Executions
      /\ worker[w].results \in Results /\ Coherent(context)
      /\ Traced(worker[w].results, context.plan.revisions)
      /\ Traced(context.results, context.plan.revisions)
  BY DEF IInv, TypeOK, Alone, Executions, Coherent
<1>2. Traced(Resting.results, context.plan.revisions)
  BY DEF Resting, NoResults, Traced
<1>3. ASSUME NEW ending, NEW set, DOMAIN set \subseteq {"status", "building"}, Close(w, ending, set)
      PROVE  Alone'
  <2> DEFINE results == [worker[w].results EXCEPT !.status = ending]
  <2>1. context' = Written(set, [context EXCEPT !.results = results])
        /\ worker' = [worker EXCEPT ![w] = Resting] /\ UNCHANGED request
    BY <1>3 DEF Close
  <2>2. Traced(results, context.plan.revisions)
    BY <1>1 DEF Traced, Results
  <2> HIDE DEF results
  <2>3. context'.results = results
    BY <1>1, <1>3, <2>1 DEF Written, Over, Parts
  <2> QED BY <1>2, <2>1, <2>2, <2>3, WorkerWritesTraced, WorkerLeaves
<1>4. CASE TriggerExecution(w)
  <2> DEFINE execution == [worker[w] EXCEPT !.at = "queued"]
  <2>1. worker' = [worker EXCEPT ![w] = execution] /\ UNCHANGED <<context, request>>
    BY <1>4 DEF TriggerExecution
  <2>2. execution.results = worker[w].results
    BY <1>1 DEF Executions
  <2> HIDE DEF execution
  <2> QED BY <1>1, <2>1, <2>2, WorkerWritesTraced
<1>5. CASE StartExecution(w)
  <2>1. CASE context.plan.status = "approved" /\ HasActiveRevision(context.plan)
    <3> DEFINE results == [status |-> "running", revision |-> context.plan.approved,
                           snapshot |-> context.plan.revisions[context.plan.approved],
                           tasks |-> <<>>]
               execution == [at |-> "announce", results |-> results,
                             questions |-> context.building.questions]
    <3>1. worker' = [worker EXCEPT ![w] = execution] /\ UNCHANGED <<context, request>>
      BY <1>5, <2>1 DEF StartExecution
    <3>2. Traced(execution.results, context.plan.revisions)
      BY <2>1 DEF HasActiveRevision, Traced
    <3> HIDE DEF execution
    <3> QED BY <1>1, <3>1, <3>2, WorkerWritesTraced
  <2>2. CASE ~(context.plan.status = "approved" /\ HasActiveRevision(context.plan))
    <3>1. worker' = [worker EXCEPT ![w] = Resting] /\ UNCHANGED <<context, request>>
      BY <1>5, <2>2 DEF StartExecution
    <3> QED BY <1>1, <1>2, <3>1, WorkerWritesTraced
  <2> QED BY <2>1, <2>2
<1>6. CASE AnnounceRunning(w)
  <2> DEFINE execution == [worker[w] EXCEPT !.at = "tasks"]
  <2>1. /\ worker' = [worker EXCEPT ![w] = execution] /\ UNCHANGED request
        /\ context'.results = worker[w].results
    BY <1>1, <1>6 DEF AnnounceRunning, Parts
  <2>2. execution.results = worker[w].results
    BY <1>1 DEF Executions
  <2> HIDE DEF execution
  <2> QED BY <1>1, <2>1, <2>2, WorkerWritesTraced, WorkerLeaves
<1>7. CASE RunTask(w)
  <2>1. PICK outcome \in Outcomes :
            LET results == [worker[w].results EXCEPT !.tasks = Append(@, outcome)] IN
            /\ context' = [context EXCEPT !.results = results]
            /\ worker' = [worker EXCEPT ![w].results = results,
                                        ![w].at = IF outcome = "completed" THEN @ ELSE outcome]
    BY <1>7 DEF RunTask
  <2> DEFINE results == [worker[w].results EXCEPT !.tasks = Append(@, outcome)]
             at == IF outcome = "completed" THEN worker[w].at ELSE outcome
             execution == [worker[w] EXCEPT !.results = results, !.at = at]
  <2>2. Traced(results, context.plan.revisions)
    BY <1>1 DEF Traced, Results
  <2>3. /\ worker' = [worker EXCEPT ![w] = execution]
        /\ context' = [context EXCEPT !.results = results]
    BY <1>1, <2>1
  <2>4. UNCHANGED request
    BY <1>7 DEF RunTask
  <2> HIDE DEF results, at
  <2>5. execution.results = results
    BY <1>1 DEF Executions
  <2>6. context'.results = results
    BY <1>1, <2>3 DEF Parts
  <2> HIDE DEF execution
  <2> QED BY <2>2, <2>3, <2>4, <2>5, <2>6, WorkerWritesTraced, WorkerLeaves
<1>8. CASE FailExecution(w)
  BY <1>3, <1>8 DEF FailExecution
<1>9. CASE AskForDetails(w)
  <2>1. \E questions :
           Close(w, "needs_more_context",
                 [status |-> "context_plan_needs_input",
                  building |-> [status |-> "needs_information", questions |-> questions]])
    BY <1>9 DEF AskForDetails
  <2> QED BY <1>3, <2>1
<1>10. CASE CompleteExecution(w)
  BY <1>3, <1>10 DEF CompleteExecution
<1>11. CASE LoseWorker(w)
  <2>1. worker' = [worker EXCEPT ![w] = Resting] /\ UNCHANGED <<context, request>>
    BY <1>11 DEF LoseWorker
  <2> QED BY <1>1, <1>2, <2>1, WorkerWritesTraced
<1> QED BY <1>4, <1>5, <1>6, <1>7, <1>8, <1>9, <1>10, <1>11 DEF WorkerStep

(* Every step keeps what waits to be written fitting. *)
LEMMA StepAlone == OneInFlight /\ IInv /\ Alone /\ [Next]_vars => Alone'
<1> SUFFICES ASSUME OneInFlight, IInv, Alone, [Next]_vars PROVE Alone'
  OBVIOUS
<1>1. ASSUME NEW r \in Requests, RequestStep(r) PROVE Alone'
  BY <1>1, RequestFits, SaveFits DEF RequestStep
<1>2. ASSUME NEW w \in Workers, WorkerStep(w) PROVE Alone'
  BY <1>2, WorkerTraced
<1>3. CASE UNCHANGED vars
  BY <1>3 DEF vars, Alone
<1> QED BY <1>1, <1>2, <1>3 DEF Next

(* A document that has just been created records nothing. *)
LEMMA InitAlone == Init => Alone
<1> SUFFICES ASSUME Init PROVE Alone
  OBVIOUS
<1>1. PICK facts \in Facts : context = Created(facts)
  BY DEF Init, Facts
<1>2. /\ context.results = NoResults /\ context.final = NoFinal
      /\ context.missing = Missing(facts)
  BY <1>1 DEF Created, Rebuilt, Written, Over
<1>6. context.facts = facts
  <2> DEFINE none == [field \in {} |-> facts[field]]
  <2>1. context.facts = Over(none, facts)
    BY <1>1 DEF Created, Rebuilt, Written, Over
  <2>2. Over(none, facts) = [field \in Required |-> facts[field]]
    BY DEF Over, Facts
  <2>3. facts = [field \in Required |-> facts[field]]
    BY DEF Facts
  <2> QED BY <2>1, <2>2, <2>3
<1>3. Coherent(context)
  BY <1>2, <1>6 DEF Coherent, NoResults, NoFinal, Traced
<1>4. \A r \in Requests : request[r] = Nothing /\ Fits(request[r].set, context)
  BY DEF Init, Nothing, Fits
<1>5. \A w \in Workers : Traced(worker[w].results, context.plan.revisions)
  BY DEF Init, Resting, NoResults, Traced
<1> QED BY <1>3, <1>4, <1>5 DEF Alone

(* As long as no two requests overlap, beside any number of executions,     *)
(* what waits to be written fits the document as it is.                     *)
THEOREM AloneInvariance == Spec /\ []OneInFlight => [](IInv /\ Alone)
<1>1. Init => IInv /\ Alone
  BY InitKeeps, InitAlone
<1>2. OneInFlight /\ IInv /\ Alone /\ [Next]_vars => IInv' /\ Alone'
  BY NextKeeps, StepAlone
<1> QED BY <1>1, <1>2, PTL DEF Spec

(* As long as no two requests overlap, results and final context carry id   *)
(* and snapshot of a revision that the plan still records, however many     *)
(* executions write over each other's results.                              *)
THEOREM Traceability == Spec /\ []OneInFlight => []TracedToApproval
<1>1. Alone => TracedToApproval
  BY DEF Alone, Coherent, Traced, TracedToApproval
<1> QED BY <1>1, AloneInvariance, PTL

(* As long as no two requests overlap, generation is offered only when      *)
(* every required field of the document holds a usable answer.              *)
THEOREM OfferedAnswered == Spec /\ []OneInFlight => []OfferedIsAnswered
<1>1. Alone => OfferedIsAnswered
  BY DEF Alone, Coherent, OfferedIsAnswered, MayGenerate
<1> QED BY <1>1, AloneInvariance, PTL
=============================================================================
