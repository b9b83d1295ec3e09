----------------------------- MODULE PolicyInput -----------------------------
(***************************************************************************)
(* The policy input of one context (context-agent): the answers a policy   *)
(* is to be generated from, their revisions, the approval of the last of   *)
(* them, and the request for generation that carries it to policy-agent.   *)
(*                                                                         *)
(* The handlers of routes.py read the context, compute the member          *)
(* policy_input they will store and store it with one conditional update:  *)
(* two steps, between which others store theirs. A run of the pipeline     *)
(* reads the context twice: for its payload, and again when the token of   *)
(* the call is minted. policy-agent validates what arrives once more.      *)
(*                                                                         *)
(* The rest of the context changes at any moment into any of Docs: its     *)
(* approved plan, its final and its security context, whether it is ready, *)
(* its refined prompt and its language. ContextWorkflow is about these     *)
(* changes.                                                                *)
(***************************************************************************)
EXTENDS PolicyAnswers

CONSTANTS
  Requests,    \* the requests of the two handlers served at once
  Runs,        \* runs of the pipeline up to the call of policy-agent
  Patches,     \* the patches submitted
  Docs,        \* what the rest of the context may be
  MaxRevision  \* the revision that cannot be amended: 64

ASSUME RevisionAssumption == MaxRevision \in Nat

VARIABLES
  input,   \* context["policy_input"], of revision 0 while there is none
  doc,     \* the other members of the context
  served,  \* what each request read and is about to store
  run      \* where each run stands, and what it sends

vars == <<input, doc, served, run>>

NoInput ==
  [revision |-> 0, answers |-> NoAnswers, revisions |-> <<>>, approvals |-> <<>>,
   approval |-> None]

Resting == [at |-> "idle", expected |-> 0, next |-> NoInput, doc |-> None]

Init ==
  /\ input = NoInput
  /\ doc \in Docs
  /\ served = [r \in Requests |-> Resting]
  /\ run = [g \in Runs |-> [at |-> "idle", payload |-> None]]

(***************************************************************************)
(* build_approved_request                                                  *)
(***************************************************************************)

(* What a revision says of a field; before the first there is nothing. *)
SaidIn(revisions, n, field) == IF n = 0 THEN None ELSE revisions[n].answers[field]

(* A revision changes a field when it answers it, and otherwise than the   *)
(* revision before.                                                        *)
Changes(revisions, n, field) ==
  /\ SaidIn(revisions, n, field) # None
  /\ SaidIn(revisions, n, field) # SaidIn(revisions, n - 1, field)

(* Mutant: an answer is attributed to the snapshot it was approved in. *)
OriginInSnapshot(revisions, field) == Len(revisions)

(* _answer_revisions: the last revision that changed the field. *)
Origin(revisions, field) ==
  CHOOSE n \in 1 .. Len(revisions) :
     /\ Changes(revisions, n, field)
     /\ \A m \in n + 1 .. Len(revisions) : ~Changes(revisions, m, field)

(* The request a policy would be generated from. *)
RequestOf(in, d) ==
  [plan |-> d.final.plan, handoff |-> HandoffOf(d), answers |-> in.answers,
   origins |-> [field \in AnswerFields |->
                  IF IsAnswered(in.answers, field) THEN Origin(in.revisions, field) ELSE 0]]

(* compute_policy_input_hash_v1_1: a hash stands for what it is taken      *)
(* over, the metadata of the approval excluded.                            *)
HashOf(request) == <<request.plan, request.handoff, request.answers, request.origins>>

(* The history is numbered throughout and ends with the answers. *)
HistoryIsComplete(in) ==
  /\ in.revision >= 1
  /\ Len(in.revisions) >= 1
  /\ in.revisions[Len(in.revisions)].revision = in.revision
  /\ in.revisions[Len(in.revisions)].answers = in.answers
  /\ \A n \in 1 .. Len(in.revisions) : in.revisions[n].revision = n

(* build_approved_request raises nothing. *)
IsApprovable(in, d) ==
  /\ HistoryIsComplete(in)
  /\ d.plan # None /\ d.plan = d.final.plan
  /\ HandoffIsValid(HandoffOf(d))
  /\ MaterialQuestions(in.answers) = {}
  /\ Agrees(in.answers, d.security.facts)
  /\ RequestAccepted(RequestOf(in, d))

(* approved_request_is_current. *)
IsCurrent(in, d) ==
  /\ in.approval # None
  /\ in.approval.revision = in.revision
  /\ in.approval.answers = in.answers
  /\ IsApprovable(in, d)
  /\ RequestOf(in, d) = in.approval.request

(***************************************************************************)
(* The handlers                                                            *)
(***************************************************************************)

(* What the answers handler stores: the approvals it read, none current.   *)
Amended(in, answers) ==
  [revision |-> in.revision + 1, answers |-> answers,
   revisions |-> Append(in.revisions, [revision |-> in.revision + 1, answers |-> answers]),
   approvals |-> in.approvals, approval |-> None]

(* What the approval handler stores. *)
Approved(in, d) ==
  LET approval == [revision |-> in.revision, request |-> RequestOf(in, d),
                   answers |-> in.revisions[Len(in.revisions)].answers]
  IN  [in EXCEPT !.approval = approval, !.approvals = Append(@, approval)]

(* A request keeps what it will store, and what its update will ask for.   *)
Take(r, at, next, read) ==
  /\ served[r].at = "idle"
  /\ served' = [served EXCEPT
                  ![r] = [at |-> at, expected |-> input.revision, next |-> next, doc |-> read]]
  /\ UNCHANGED <<input, doc, run>>

(* update_policy_input_answers up to its update: the revision the user     *)
(* expects is the one that is read.                                        *)
TakeAnswers(r) ==
  /\ input.revision < MaxRevision
  /\ \E patch \in Patches :
        LET answers == Patched(input.answers, patch) IN
        /\ IsPatch(patch)
        /\ AreAnswers(answers)
        /\ Take(r, "amending", Amended(input, answers), None)

(* approve_policy_input up to its update. *)
TakeApproval(r) ==
  /\ input.revision >= 1
  /\ IsApprovable(input, doc)
  /\ Take(r, "approving", Approved(input, doc), doc)

(* An update that matches nothing changes nothing: the answer is 409. *)
StoreIf(r, matches) ==
  /\ input' = IF matches THEN served[r].next ELSE input
  /\ served' = [served EXCEPT ![r] = Resting]
  /\ UNCHANGED <<doc, run>>

(* Mutant: the update does not look for the revision that was read. *)
StoreAnswersBlindly(r) ==
  /\ served[r].at = "amending"
  /\ StoreIf(r, TRUE)

StoreAnswers(r) ==
  /\ served[r].at = "amending"
  /\ StoreIf(r, input.revision = served[r].expected)

(* The update asks for the plan, the final and the security context that   *)
(* were read, and for no approval.                                         *)
StoreApproval(r) ==
  /\ served[r].at = "approving"
  /\ StoreIf(r, /\ input.revision = served[r].expected
                /\ input.approval = None
                /\ doc.plan = served[r].doc.plan
                /\ doc.final = served[r].doc.final
                /\ doc.security = served[r].doc.security)

(* The database or the process fails before the update. *)
Drop(r) ==
  /\ served[r].at # "idle"
  /\ served' = [served EXCEPT ![r] = Resting]
  /\ UNCHANGED <<input, doc, run>>

(***************************************************************************)
(* The request for generation                                              *)
(***************************************************************************)

(* What is sent: the prompt, the language, the business context of a       *)
(* legacy payload, and the approved request of the other.                  *)
LegacyPayload(d) ==
  [prompt |-> d.prompt, language |-> d.language, business |-> d.security.business,
   request |-> None]

CanonicalPayload(d, request) ==
  [prompt |-> d.prompt, language |-> request.answers["language"].value, business |-> None,
   request |-> request]

(* format_policy_request_v1_1_prompt: the prompt with the request written  *)
(* below it has no more than MAX_GENERATION_PROMPT_BYTES.                  *)
FitsPrompt(d, request) == d.prompt # "long" /\ request.handoff.size = "fits"

(* get_context_and_prompt: the approved request, or the legacy payload     *)
(* while the context has no policy input.                                  *)
Prepare(g) ==
  /\ run[g].at = "idle"
  /\ input.revision # 0 => IsCurrent(input, doc)
  /\ doc.ready
  /\ doc.prompt # "missing"
  /\ HandoffIsValid(HandoffOf(doc))
  /\ input.revision # 0 => FitsPrompt(doc, input.approval.request)
  /\ run' = [run EXCEPT ![g] =
               [at |-> "prepared",
                payload |-> IF input.revision # 0
                              THEN CanonicalPayload(doc, input.approval.request)
                              ELSE LegacyPayload(doc)]]
  /\ UNCHANGED <<input, doc, served>>

(* Mutant: the context is not read again for the token. *)
MayMintAsRead(payload) == TRUE

(* _dependency_headers for policy:generate: the payload is the request     *)
(* that is approved now, by its hash and its plan; a legacy payload needs  *)
(* a context without policy input.                                         *)
MayMint(payload) ==
  IF payload.request = None THEN input.revision = 0
  ELSE /\ IsCurrent(input, doc)
       /\ HashOf(input.approval.request) = HashOf(payload.request)
       /\ input.approval.request.plan = payload.request.plan

(* call_policy_agent; without a token nothing leaves. *)
Send(g) ==
  /\ run[g].at = "prepared"
  /\ run' = [run EXCEPT ![g] = IF MayMint(run[g].payload) THEN [@ EXCEPT !.at = "sent"]
                               ELSE [at |-> "refused", payload |-> None]]
  /\ UNCHANGED <<input, doc, served>>

(* policy-agent's own limits on the fields around the request: 20000       *)
(* characters of prompt, 16 of language, and those of                      *)
(* _validate_business_context. The language is the request's.              *)
EnvelopeAccepted(payload) ==
  /\ payload.prompt # "long"
  /\ payload.language # TooLong
  /\ IF payload.request = None THEN payload.business = "fits"
     ELSE payload.language = payload.request.answers["language"].value

(* validate_generation_payload of policy-agent: the envelope, and the      *)
(* contract once more.                                                     *)
IsAdmitted(payload) ==
  /\ EnvelopeAccepted(payload)
  /\ payload.request # None => RequestAccepted(payload.request)

Receive(g) ==
  /\ run[g].at = "sent"
  /\ run' = [run EXCEPT ![g] =
               [at |-> IF IsAdmitted(run[g].payload) THEN "generating" ELSE "turned_away",
                payload |-> None]]
  /\ UNCHANGED <<input, doc, served>>

(* Any handler of the workflow, or the worker of a plan, writes. *)
Rework ==
  /\ doc' \in Docs \ {doc}
  /\ UNCHANGED <<input, served, run>>

RequestStep(r) ==
  TakeAnswers(r) \/ TakeApproval(r) \/ StoreAnswers(r) \/ StoreApproval(r) \/ Drop(r)

Next ==
  \/ \E r \in Requests : RequestStep(r)
  \/ \E g \in Runs : Prepare(g) \/ Send(g) \/ Receive(g)
  \/ Rework

Spec == Init /\ [][Next]_vars

(***************************************************************************)
(* Properties                                                              *)
(***************************************************************************)

Answer == (UNION {{patch[field] : field \in DOMAIN patch} : patch \in Patches}) \ {None}

Answers == [AnswerFields -> Answer \cup {None}]

Request ==
  [plan : {d.final.plan : d \in Docs}, handoff : {HandoffOf(d) : d \in Docs},
   answers : Answers, origins : [AnswerFields -> Nat]]

Entry == [revision : Nat, answers : Answers]

Approval == [revision : Nat, request : Request, answers : Answers]


Input ==
  [revision : Nat, answers : Answers, revisions : Seq(Entry), approvals : Seq(Approval),
   approval : Approval \cup {None}]

Serving ==
  [at : {"idle", "amending", "approving"}, expected : Nat, next : Input, doc : Docs \cup {None}]

Payload ==
  [prompt : {d.prompt : d \in Docs},
   language : {d.language : d \in Docs} \cup {answer.value : answer \in Answer},
   business : {d.security.business : d \in Docs} \cup {None},
   request : Request \cup {None}]

ASSUME NoneAssumption == None \notin Approval \cup Payload

Sending ==
  [at : {"idle", "prepared", "sent", "refused", "generating", "turned_away"},
   payload : Payload \cup {None}]

(* The shape of the policy input, of what the requests hold and of what is *)
(* sent; no revision follows the last.                                     *)
TypeOK ==
  /\ input \in Input
  /\ input.revision <= MaxRevision
  /\ doc \in Docs
  /\ served \in [Requests -> Serving]
  /\ run \in [Runs -> Sending]

(* An approved request names, for every answer, the revision since which   *)
(* it has stood.                                                           *)
IsTraced(revisions, approval) ==
  \A field \in AnswerFields :
     LET answer == approval.request.answers[field]
         origin == approval.request.origins[field]
     IN  answer # None =>
           /\ origin \in 1 .. approval.revision
           /\ \A m \in origin .. approval.revision : SaidIn(revisions, m, field) = answer
           /\ SaidIn(revisions, origin - 1, field) # answer

(* Every decision of every approved request names the revision its answer  *)
(* came in: the answer has stood unchanged since that revision and was     *)
(* another one, or none, before, however often answers were taken back,    *)
(* repeated or raced (policy_input.py:187, routes.py:851).                 *)
OriginsAreTrue ==
  \A n \in 1 .. Len(input.approvals) : IsTraced(input.revisions, input.approvals[n])

(* The questions, the handoff and the contract agree: once nothing         *)
(* material is open, the facts agree and the handoff is valid and fits,    *)
(* answers spelled as the contract wants them can be approved              *)
(* (policy_input.py:137 and policy_handoff_contract.py:27 state rules that *)
(* policy_request_v1.py states again at 253).                              *)
AskedNothingMeansApprovable ==
  LET in == input IN
  /\ MaterialQuestions(in.answers) = {}
  /\ Agrees(in.answers, doc.security.facts)
  /\ doc.plan # None /\ doc.plan = doc.final.plan /\ HandoffIsValid(HandoffOf(doc))
  /\ ValuesAccepted(in.answers) /\ HandoffFits(HandoffOf(doc))
  => IsApprovable(in, doc)

(* What policy-agent is sent is approved at the moment it is signed: the   *)
(* last answers, the plan and the handoff as they are now, in a recorded   *)
(* approval of the last revision; the legacy payload leaves only a context *)
(* that has no policy input. Whatever the context becomes meanwhile,       *)
(* policy-agent turns an approved request away for one reason only: a      *)
(* language of more than 16 characters, which can be answered and approved *)
(* (logic.py:2416, 2635, policy-agent logic.py:48, 945, 979).              *)
SentIsApproved ==
  [][\A g \in Runs :
       LET payload == run[g].payload
           request == payload.request
       IN
       /\ run[g].at = "prepared" /\ run'[g].at = "sent" =>
            IF request = None THEN input.revision = 0
            ELSE /\ request.answers = input.answers
                 /\ request.plan = doc.plan
                 /\ request.handoff = HandoffOf(doc)
                 /\ \E n \in 1 .. Len(input.approvals) :
                       /\ input.approvals[n].revision = input.revision
                       /\ input.approvals[n].request = request
       /\ run[g].at = "sent" /\ run'[g].at = "turned_away" /\ request # None =>
            request.answers["language"].value = TooLong]_vars

(* The policy input as its users see it. *)
Contents == [n \in 1 .. Len(input.revisions) |-> input.revisions[n].answers]
Decision == IF input.approval = None THEN <<>> ELSE <<input.approval.request.answers>>
Seen == [r \in Requests |-> served[r].expected]

Promise == INSTANCE ApprovedDocument WITH
  Users <- Requests, revisions <- Contents, decision <- Decision, seen <- Seen

(* The handlers keep the promise of an approved document: revisions are    *)
(* only added, by requests that saw the last; an approval is of the        *)
(* answers that were seen, ends with the next revision, and is not given   *)
(* twice (routes.py:849, 898).                                             *)
ImplementsPromise == Promise!Spec

(* What docs/contracts/context-policy-input-v1-1.md:40 says: later edits   *)
(* clear the current approval while keeping the old decision for audit.    *)
ApprovalsAreKept ==
  [][/\ Len(input.approvals) <= Len(input'.approvals)
     /\ \A n \in 1 .. Len(input.approvals) : input'.approvals[n] = input.approvals[n]]_vars

(***************************************************************************)
(* The inductive invariant behind these properties                         *)
(***************************************************************************)

(* What is stored, and whatever a request is about to store: the history   *)
(* is numbered and ends with the answers, the approvals are traced, and    *)
(* the current one is the last of them and is of the last revision.        *)
Numbered(in) ==
  /\ in.revision = Len(in.revisions)
  /\ in.revision <= MaxRevision
  /\ \A n \in 1 .. Len(in.revisions) : in.revisions[n].revision = n
  /\ in.answers = IF in.revision = 0 THEN NoAnswers ELSE in.revisions[in.revision].answers

Traced(in) ==
  \A n \in 1 .. Len(in.approvals) :
     /\ in.approvals[n].revision \in 1 .. Len(in.revisions)
     /\ IsTraced(in.revisions, in.approvals[n])

Decided(in) ==
  in.approval # None =>
     /\ in.approval.revision = in.revision
     /\ in.approval.request.answers = in.answers
     /\ Len(in.approvals) >= 1
     /\ in.approvals[Len(in.approvals)] = in.approval

Recorded(in) == Numbered(in) /\ Traced(in) /\ Decided(in)

(* What a request would store follows the revision it read, and while that *)
(* is the last one its history continues the one that is stored.           *)
Follows(r) ==
  LET next == served[r].next
      expected == served[r].expected
  IN
  /\ Recorded(next)
  /\ expected <= input.revision
  /\ served[r].at = "amending" =>
        /\ next.revision = expected + 1
        /\ next.approval = None
        /\ expected = input.revision =>
              next.revisions = Append(input.revisions, next.revisions[expected + 1])
  /\ served[r].at = "approving" =>
        /\ next.revision = expected
        /\ expected >= 1
        /\ next.approval # None
        /\ expected = input.revision => next.revisions = input.revisions

(* A prepared request fits the prompt and carries its language; what is    *)
(* under way to policy-agent has passed the contract.                      *)
Enveloped(payload) ==
  payload.request # None =>
     /\ payload.prompt # "long"
     /\ payload.language = payload.request.answers["language"].value

Acceptable(g) ==
  /\ run[g].at \in {"prepared", "sent"} => run[g].payload # None /\ Enveloped(run[g].payload)
  /\ run[g].at = "sent" /\ run[g].payload.request # None =>
        RequestAccepted(run[g].payload.request)

IInv ==
  /\ TypeOK
  /\ Recorded(input)
  /\ \A r \in Requests : served[r].at # "idle" => Follows(r)
  /\ \A g \in Runs : Acceptable(g)
=============================================================================
