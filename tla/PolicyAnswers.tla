---------------------------- MODULE PolicyAnswers ----------------------------
(***************************************************************************)
(* The rules about the answers a policy is generated from and the context  *)
(* that is handed over with them: what a user may submit                   *)
(* (validate_answer_patch), which questions stay open                      *)
(* (material_questions), what is handed over and when it is valid          *)
(* (policy_handoff_contract), how answers compare with its facts           *)
(* (_reconcile_handoff_facts), and what the request contract accepts of    *)
(* both (policy_request_v1).                                               *)
(*                                                                         *)
(* An answer has a value and a confidence; a field that is not answered    *)
(* has None. A list is the set of its members. A name is                   *)
(* what is left of a string when it is case-folded, and how it is spelled. *)
(* Of the 25 fields those are kept that a rule treats on its own;          *)
(* policy_type stands for the other material texts. Of sizes those are     *)
(* kept that one service allows and another does not: a text of more than  *)
(* 512 characters is an answer, but too long for a size_band, for a family *)
(* and for the language of an envelope; the families are counted; and the  *)
(* context handed over has a size of its own, which stands for that of     *)
(* everything written with it.                                             *)
(***************************************************************************)
EXTENDS Naturals, Sequences, FiniteSets

CONSTANTS
  Words,           \* what names are once case-folded
  RiskBased,       \* a coverage mode
  FullInstrument,  \* the coverage mode with questions of its own
  TooLong,         \* a text of more than 512 and at most 2000 characters
  Blank,           \* a text of blanks, of which stripping leaves nothing
  Empty,           \* the text without a character
  MaxFamilies,     \* as many families as the contract takes: 32
  None             \* no answer, no fact

(* "lower" and "upper" fold alike; "padded" has a blank the folding keeps. *)
Names == [word : Words, spelling : {"lower", "upper", "padded"}]

Folded(name) == <<name.word, name.spelling = "padded">>

FoldedSet(names) == {Folded(name) : name \in names}

(* No two members are the same once case-folded. *)
FoldsApart(names) ==
  \A n, m \in names : Folded(n) = Folded(m) => n = m

ScopeLists == {"legal_entities", "jurisdictions", "sectors", "data_categories"}

AnswerFields ==
  ScopeLists \cup {"policy_type", "coverage_mode", "exclusions", "requested_instruments",
                   "size_band", "language"}

Material ==
  {"policy_type", "coverage_mode", "exclusions", "legal_entities", "jurisdictions", "language"}

(* What full coverage of an instrument asks for besides. *)
Instrumental == {"requested_instruments", "sectors", "data_categories"}

CoverageModes == {RiskBased, FullInstrument}

(* The kinds of exclusion, and the answer each could contradict. *)
Excludes ==
  [entity |-> "legal_entities", jurisdiction |-> "jurisdictions",
   instrument |-> "requested_instruments"]

(***************************************************************************)
(* validate_answer_patch                                                   *)
(***************************************************************************)

(* A value of the field's kind. A text says something. A member of a list  *)
(* has no blank around it, but the name after an exclusion's kind may      *)
(* begin with one; instruments may not repeat an id in another spelling,   *)
(* the other names may.                                                    *)
WellTyped(field, value) ==
  /\ field \in {"policy_type", "size_band", "language"} => value \notin {Blank, Empty}
  /\ field \in ScopeLists \cup {"requested_instruments"} =>
        \A name \in value : name.spelling # "padded"
  /\ field = "coverage_mode" => value \in CoverageModes
  /\ field = "exclusions" => \A e \in value : e.kind \in DOMAIN Excludes
  /\ field = "requested_instruments" => FoldsApart(value)

(* None takes an answer back. *)
IsPatch(patch) ==
  /\ DOMAIN patch # {}
  /\ DOMAIN patch \subseteq AnswerFields
  /\ \A field \in DOMAIN patch : patch[field] # None =>
        /\ patch[field].confidence \in {"confirmed", "qualified"}
        /\ WellTyped(field, patch[field].value)

(* The answers with a patch laid over them. *)
Patched(answers, patch) ==
  [field \in AnswerFields |-> IF field \in DOMAIN patch THEN patch[field] ELSE answers[field]]

NoAnswers == [field \in AnswerFields |-> None]

IsAnswered(answers, field) == answers[field] # None

AreAnswers(answers) ==
  \A field \in AnswerFields : IsAnswered(answers, field) =>
     WellTyped(field, answers[field].value)

(***************************************************************************)
(* material_questions                                                      *)
(***************************************************************************)

(* The members of a list, which may not be answered. *)
Members(answers, field) == IF IsAnswered(answers, field) THEN answers[field].value ELSE {}

IsFullCoverage(answers) ==
  /\ IsAnswered(answers, "coverage_mode")
  /\ answers["coverage_mode"].value = FullInstrument

RequiredFields(answers) ==
  Material \cup (IF IsFullCoverage(answers) THEN Instrumental ELSE {})

IsList(field) == field \in ScopeLists \cup {"exclusions", "requested_instruments"}

(* Only an empty list of exclusions is an answer. *)
IsSettled(answers, field) ==
  /\ IsAnswered(answers, field)
  /\ answers[field].confidence = "confirmed"
  /\ IsList(field) /\ field # "exclusions" => answers[field].value # {}

(* An exclusion names what another answer covers. *)
Contradicted(answers) ==
  \E e \in Members(answers, "exclusions") :
     Folded(e.name) \in FoldedSet(Members(answers, Excludes[e.kind]))

(* Mutant: a contradiction is not asked about. *)
OpenUnlessSettled(answers) ==
  {field \in RequiredFields(answers) : ~IsSettled(answers, field)}

MaterialQuestions(answers) ==
  {field \in RequiredFields(answers) : ~IsSettled(answers, field)}
     \cup (IF Contradicted(answers) THEN {"exclusions"} ELSE {})

(***************************************************************************)
(* The handoff                                                             *)
(***************************************************************************)

Stripped(text) == IF text = Blank THEN Empty ELSE text

(* _string_list: the texts of a list in which something is written. A list *)
(* of texts is the set of its members.                                     *)
Written(texts) == texts \ {Blank, Empty}

SectionOf(section) == [status |-> section.status, content |-> Stripped(section.content)]

(* _policy_handoff_task_item: what the final context says of a task. Its   *)
(* evidence are findings, risks and implications for the policy.           *)
FindingOf(item) ==
  [status |-> item.status, content |-> Stripped(item.content),
   evidence |-> Written(item.evidence)]

(* _merge_retrieval_hints, of the fields the families. *)
MergedFamilies(security, items) ==
  Written(security.families) \cup UNION {Written(item.families) : item \in items}

(* policy_handoff_context_from_context_record: the final context and what  *)
(* the security context adds to it. Its size is "fits", "long" when a      *)
(* prompt cannot carry it and "large" when a request cannot.               *)
HandoffOf(d) ==
  [plan |-> d.final.plan, status |-> d.final.status, ready |-> d.final.ready,
   size |-> d.final.size, sections |-> {SectionOf(section) : section \in d.final.sections},
   findings |-> {FindingOf(item) : item \in d.final.items},
   gaps |-> Written(d.security.gaps),
   families |-> MergedFamilies(d.security, d.final.items), facts |-> d.security.facts]

(* validate_policy_handoff_context. *)
HandoffIsValid(handoff) ==
  /\ handoff.status = "ready" /\ handoff.ready
  /\ handoff.plan # None
  /\ handoff.sections # {}
  /\ \A section \in handoff.sections :
        section.status = "accepted" /\ Stripped(section.content) # Empty
  /\ handoff.findings # {}
  /\ \A finding \in handoff.findings :
        /\ finding.status = "completed"
        /\ Written(finding.evidence) # {} \/ Stripped(finding.content) # Empty
  /\ handoff.gaps = {}
  /\ Written(handoff.families) # {}

(***************************************************************************)
(* _reconcile_handoff_facts                                                *)
(***************************************************************************)

(* The facts of the handoff are among the answers about the same things.   *)
Agrees(answers, facts) ==
  /\ facts.country # None /\ IsAnswered(answers, "jurisdictions") =>
        Folded(facts.country) \in FoldedSet(answers["jurisdictions"].value)
  /\ facts.sector # None /\ IsAnswered(answers, "sectors") =>
        Folded(facts.sector) \in FoldedSet(answers["sectors"].value)
  /\ facts.data_types # None /\ IsAnswered(answers, "data_categories") =>
        FoldedSet(facts.data_types) \subseteq FoldedSet(answers["data_categories"].value)

(***************************************************************************)
(* The request contract                                                    *)
(***************************************************************************)

(* An exclusion's name has no blank around it, and none is repeated.       *)
ExclusionsAccepted(exclusions) ==
  /\ \A e \in exclusions : e.name.spelling # "padded"
  /\ \A e, d \in exclusions : e.kind = d.kind /\ Folded(e.name) = Folded(d.name) => e = d

ValueAccepted(field, value) ==
  /\ field \in ScopeLists => FoldsApart(value)
  /\ field = "exclusions" => ExclusionsAccepted(value)
  /\ field = "size_band" => value # TooLong

ValuesAccepted(answers) ==
  \A field \in AnswerFields : IsAnswered(answers, field) =>
     ValueAccepted(field, answers[field].value)

ContractAccepts(answers) ==
  /\ \A field \in {"policy_type", "coverage_mode", "language"} : IsAnswered(answers, field)
  /\ ValuesAccepted(answers)
  /\ IsFullCoverage(answers) => Members(answers, "requested_instruments") # {}
  /\ ~Contradicted(answers)

(* The limits of the contract on what is handed over: MAX_BYTES, and those *)
(* on the families.                                                        *)
HandoffFits(handoff) ==
  /\ handoff.size # "large"
  /\ Cardinality(handoff.families) <= MaxFamilies
  /\ TooLong \notin handoff.families

(* Of the handoff the contract asks what its own validation asks, of a     *)
(* section only that it have content, of the families that every one be a  *)
(* text, and that it fit.                                                  *)
HandoffAccepted(handoff) ==
  /\ handoff.status = "ready" /\ handoff.ready /\ handoff.gaps = {}
  /\ handoff.sections # {}
  /\ \A section \in handoff.sections :
        section.status = "accepted" /\ section.content # Empty
  /\ handoff.findings # {}
  /\ \A finding \in handoff.findings :
        /\ finding.status = "completed"
        /\ Written(finding.evidence) = {} => Stripped(finding.content) # Empty
  /\ handoff.families # {} /\ handoff.families \cap {Blank, Empty} = {}
  /\ HandoffFits(handoff)

RequestAccepted(request) ==
  /\ request.plan # None /\ request.plan = request.handoff.plan
  /\ HandoffAccepted(request.handoff)
  /\ ContractAccepts(request.answers)
=============================================================================
