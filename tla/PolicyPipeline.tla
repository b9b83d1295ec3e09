--------------------------- MODULE PolicyPipeline ---------------------------
(***************************************************************************)
(* The policy pipeline of one context across the three services.           *)
(*                                                                         *)
(* A run of context-agent (generate_full_policy_pipeline) asks             *)
(* policy-agent for a policy, validator-agent for a verdict, stores the    *)
(* validated text as a snapshot and keeps a diagnostic of the run.         *)
(* validator-agent (Coordinator.validate_policy) reviews the text in       *)
(* rounds and asks policy-agent for a revision between two rounds.         *)
(*                                                                         *)
(* Every call between services has a timeout: the caller gives up at any   *)
(* moment, and the handler it called goes on. policy-agent is what         *)
(* VersionedPolicy promises of it (PolicyStore implements that): it        *)
(* creates a policy only where there is none, and revises only the text    *)
(* it was sent.                                                            *)
(***************************************************************************)
EXTENDS Naturals, Sequences, FiniteSets

CONSTANTS
  Runs,           \* runs of the pipeline for the context
  Texts,          \* what the agents may write as a policy
  None,           \* no text
  RoleCount,      \* the validator's worker roles, in their configured order
  OtherVerdicts,  \* statuses an agent may state that the coordinator does not know
  MaxRounds       \* validation.rounds

ASSUME NoneAssumption == None \notin Texts
ASSUME RoundsAssumption == MaxRounds \in Nat \ {0}
ASSUME RolesAssumption == RoleCount \in Nat
ASSUME VerdictsAssumption ==
  OtherVerdicts \cap {"accepted", "review", "rejected", "none", "no_verdict"} = {}

VARIABLES
  caller,      \* where each run stands in context-agent, and what it answered
  generation,  \* policy-agent's handler of each run's /generate_policy
  validator,   \* validator-agent's handler of each run's /validate-policy
  revision,    \* policy-agent's handler of the update asked for by that validator
  policy,      \* the revisions of the context's policy, <<>> while it has none
  snapshots,   \* the validated_policy interactions of the context
  trace,       \* the validations collection
  diagnostic   \* the pipeline diagnostic of each run

callerVars == <<caller, snapshots, diagnostic>>
policyVars == <<generation, revision, policy>>
vars == <<caller, generation, validator, revision, policy, snapshots, trace, diagnostic>>

Roles == 1 .. RoleCount

(* A status is whatever word follows STATUS in an agent's answer. *)
Verdicts == {"accepted", "review", "rejected"} \cup OtherVerdicts

(* What a round's workers said: a role whose call fails is left out. *)
Votes == [Roles -> Verdicts \cup {"none"}]

Seen(votes) == {votes[n] : n \in Roles} \ {"none"}

Tally(votes, verdict) == Cardinality({n \in Roles : votes[n] = verdict})

SaidBefore(votes, v, w) ==
  \E n \in Roles : votes[n] = v /\ \A m \in 1 .. n : votes[m] # w

(* The vote takes the most common status, the one seen first among equals. *)
Wins(votes, v) ==
  /\ v \in Seen(votes)
  /\ \A w \in Seen(votes) \ {v} :
        \/ Tally(votes, v) > Tally(votes, w)
        \/ Tally(votes, v) = Tally(votes, w) /\ SaidBefore(votes, v, w)

(* What the last round's vote can give, and how many workers accepted. *)
VoteResults ==
  {result \in [verdict : Verdicts, agreeing : 0 .. RoleCount] :
      \E votes \in Votes :
         Wins(votes, result.verdict) /\ result.agreeing = Tally(votes, "accepted")}

Current == policy[Len(policy)]

Quiet == [state |-> "none", text |-> None]

Init ==
  /\ caller = [r \in Runs |-> [at |-> "idle", answer |-> "none"]]
  /\ generation = [r \in Runs |-> Quiet]
  /\ validator = [r \in Runs |-> [at |-> "idle", round |-> 0, text |-> None,
                                 verdict |-> "none", agreeing |-> 0]]
  /\ revision = [r \in Runs |-> Quiet]
  /\ policy = <<>>
  /\ snapshots = {}
  /\ trace = {}
  /\ diagnostic = [r \in Runs |-> [status |-> "none", closed |-> FALSE]]

(***************************************************************************)
(* policy-agent                                                            *)
(***************************************************************************)

(* Mutant: a policy is created whether or not there is one. *)
ServeGenerationAnyway(r) ==
  /\ generation[r].state = "asked"
  /\ \E text \in Texts :
        /\ policy' = <<text>>
        /\ generation' = [generation EXCEPT ![r] = [state |-> "made", text |-> text]]
  /\ UNCHANGED <<caller, validator, revision, snapshots, trace, diagnostic>>

(* A policy is created where there is none, and the run may still be       *)
(* answered with an error; or the agent or the database fails first.       *)
ServeGeneration(r) ==
  /\ generation[r].state = "asked"
  /\ \/ /\ policy = <<>>
        /\ \E text \in Texts, state \in {"made", "refused"} :
              /\ policy' = <<text>>
              /\ generation' = [generation EXCEPT ![r] = [state |-> state, text |-> text]]
     \/ /\ generation' = [generation EXCEPT ![r].state = "refused"]
        /\ UNCHANGED policy
  /\ UNCHANGED <<caller, validator, revision, snapshots, trace, diagnostic>>

(* The text that was sent must be the policy's current one. *)
Revisable(text) == policy # <<>> /\ text = Current

ServeRevision(r) ==
  /\ revision[r].state = "asked"
  /\ \/ /\ Revisable(revision[r].text)
        /\ \E text \in Texts, state \in {"made", "refused"} :
              /\ policy' = Append(policy, text)
              /\ revision' = [revision EXCEPT ![r] = [state |-> state, text |-> text]]
     \/ /\ revision' = [revision EXCEPT ![r].state = "refused"]
        /\ UNCHANGED policy
  /\ UNCHANGED <<caller, generation, validator, snapshots, trace, diagnostic>>

(***************************************************************************)
(* validator-agent                                                         *)
(***************************************************************************)

(* A round is logged before its verdict leaves; a failing insert is        *)
(* swallowed.                                                              *)
Log(r, decision) ==
  \/ trace' = trace \cup {[run |-> r, round |-> validator[r].round, text |-> validator[r].text,
                           decision |-> decision]}
  \/ UNCHANGED trace

(* Of the workers' results the answer keeps how many of them accepted. *)
Conclude(r, verdict, agreeing) ==
  validator' = [validator EXCEPT ![r].at = "done", ![r].verdict = verdict,
                                 ![r].agreeing = agreeing]

Abort(r) == validator' = [validator EXCEPT ![r].at = "done", ![r].verdict = "no_verdict"]

(* Mutant: one round too many. *)
LastRoundPassed(r) == validator[r].round > MaxRounds

LastRound(r) == validator[r].round = MaxRounds

(* The workers and the evaluator read the text. *)
Reviewing(r) == validator[r].at = "reviewing"

(* The evaluator accepts, whatever the workers said. *)
Accept(r) ==
  /\ Reviewing(r)
  /\ Log(r, "accepted")
  /\ \E agreeing \in 0 .. RoleCount : Conclude(r, "accepted", agreeing)
  /\ UNCHANGED <<callerVars, policyVars>>

(* Mutant: the log has what the evaluator said, the answer what the vote did. *)
DecideByVoteLogEvaluator(r) ==
  /\ Reviewing(r)
  /\ LastRound(r)
  /\ \E result \in VoteResults :
        /\ Log(r, "review")
        /\ Conclude(r, result.verdict, result.agreeing)
  /\ UNCHANGED <<callerVars, policyVars>>

(* In the last round the workers' vote decides when the evaluator did not  *)
(* accept, whatever it said.                                               *)
DecideByVote(r) ==
  /\ Reviewing(r)
  /\ LastRound(r)
  /\ \E result \in VoteResults :
        /\ Log(r, result.verdict)
        /\ Conclude(r, result.verdict, result.agreeing)
  /\ UNCHANGED <<callerVars, policyVars>>

(* Before the last round, review and rejected ask policy-agent for a       *)
(* revision of the text.                                                   *)
AskRevision(r) ==
  /\ Reviewing(r)
  /\ ~LastRound(r)
  /\ \E decision \in {"review", "rejected"} : Log(r, decision)
  /\ validator' = [validator EXCEPT ![r].at = "revising"]
  /\ revision' = [revision EXCEPT ![r] = [state |-> "asked", text |-> validator[r].text]]
  /\ UNCHANGED <<callerVars, generation, policy>>

(* Any other status starts the next round over the same text. *)
AskNothing(r) ==
  /\ Reviewing(r)
  /\ ~LastRound(r)
  /\ \E decision \in OtherVerdicts : Log(r, decision)
  /\ validator' = [validator EXCEPT ![r].round = @ + 1]
  /\ UNCHANGED <<callerVars, policyVars>>

(* The request is malformed, the evaluator's call fails and leaves no      *)
(* result to read, or the last vote has none to count.                     *)
Break(r) ==
  /\ Reviewing(r)
  /\ Abort(r)
  /\ UNCHANGED <<callerVars, policyVars, trace>>

(* Mutant: an update that failed leaves the text as it is and goes on. *)
TakeRevisionOrGoOn(r) ==
  /\ validator[r].at = "revising"
  /\ validator' = [validator EXCEPT ![r].at = "reviewing", ![r].round = @ + 1]
  /\ UNCHANGED <<callerVars, policyVars, trace>>

(* The next round reads the revised text; an error ends the validation. *)
TakeRevision(r) ==
  /\ validator[r].at = "revising"
  /\ \/ /\ revision[r].state = "made"
        /\ validator' = [validator EXCEPT ![r].at = "reviewing", ![r].round = @ + 1,
                                          ![r].text = revision[r].text]
     \/ /\ revision[r].state = "refused"
        /\ Abort(r)
  /\ UNCHANGED <<callerVars, policyVars, trace>>

(* Mutant: the update call has no timeout and waits for an answer. *)
GiveUpRevisionNever(r) ==
  /\ validator[r].at = "revising"
  /\ revision[r].state = "refused"
  /\ Abort(r)
  /\ UNCHANGED <<callerVars, policyVars, trace>>

(* The timeout of the update call, and every error of the connection. *)
GiveUpRevision(r) ==
  /\ validator[r].at = "revising"
  /\ Abort(r)
  /\ UNCHANGED <<callerVars, policyVars, trace>>

ValidatorStep(r) ==
  \/ Accept(r)
  \/ DecideByVote(r)
  \/ AskRevision(r)
  \/ AskNothing(r)
  \/ Break(r)
  \/ TakeRevision(r)
  \/ GiveUpRevision(r)

(***************************************************************************)
(* context-agent                                                           *)
(***************************************************************************)

(* A write of the diagnostic that fails is logged and forgotten. *)
Upsert(r, status, closed) ==
  \/ diagnostic' = [diagnostic EXCEPT ![r] = [status |-> status, closed |-> closed]]
  \/ UNCHANGED diagnostic

Go(r, at) == caller' = [caller EXCEPT ![r].at = at]

Answer(r, answer) == caller' = [caller EXCEPT ![r] = [at |-> "answered", answer |-> answer]]

Start(r) ==
  /\ caller[r].at = "idle"
  /\ Go(r, "asking")
  /\ Upsert(r, "in_progress", FALSE)
  /\ UNCHANGED <<policyVars, validator, snapshots, trace>>

(* get_context_and_prompt refuses a context that is not ready. *)
AskPolicy(r) ==
  /\ caller[r].at = "asking"
  /\ \/ /\ Go(r, "generating")
        /\ generation' = [generation EXCEPT ![r].state = "asked"]
     \/ /\ Go(r, "failing")
        /\ UNCHANGED generation
  /\ UNCHANGED <<revision, policy, validator, snapshots, trace, diagnostic>>

(* A policy is sent on to the validator at once. *)
TakePolicy(r) ==
  /\ caller[r].at = "generating"
  /\ generation[r].state = "made"
  /\ Go(r, "validating")
  /\ Upsert(r, "in_progress", FALSE)
  /\ validator' = [validator EXCEPT ![r] = [at |-> "reviewing", round |-> 1,
                                            text |-> generation[r].text, verdict |-> "none",
                                            agreeing |-> 0]]
  /\ UNCHANGED <<policyVars, snapshots, trace>>

TakeVerdict(r) ==
  /\ caller[r].at = "validating"
  /\ validator[r].at = "done"
  /\ validator[r].verdict # "no_verdict"
  /\ Go(r, "storing")
  /\ Upsert(r, "in_progress", FALSE)
  /\ UNCHANGED <<policyVars, validator, snapshots, trace>>

(* The called service answers with an error. *)
Refused(r) ==
  \/ caller[r].at = "generating" /\ generation[r].state = "refused"
  \/ caller[r].at = "validating" /\ validator[r].at = "done" /\ validator[r].verdict = "no_verdict"

TakeError(r) ==
  /\ Refused(r)
  /\ Go(r, "failing")
  /\ Upsert(r, "failed", FALSE)
  /\ UNCHANGED <<policyVars, validator, snapshots, trace>>

(* The timeout of a call, and every error of its connection. *)
GiveUp(r) ==
  /\ caller[r].at \in {"generating", "validating"}
  /\ Go(r, "failing")
  /\ Upsert(r, "failed", FALSE)
  /\ UNCHANGED <<policyVars, validator, snapshots, trace>>

Insert(r) ==
  snapshots' = snapshots \cup {[run |-> r, text |-> validator[r].text,
                                status |-> validator[r].verdict]}

(* Mutant: a failing insert is answered like any failed step. *)
StoreOrFail(r) ==
  /\ caller[r].at = "storing"
  /\ \/ /\ Insert(r)
        /\ Go(r, "closing")
     \/ /\ Insert(r) \/ UNCHANGED snapshots
        /\ Go(r, "failing")
  /\ UNCHANGED <<policyVars, validator, trace, diagnostic>>

(* The snapshot is stored and the diagnostic told; the context may have    *)
(* gone meanwhile; the insert may fail before or after it takes effect,    *)
(* and that failure reaches no diagnostic.                                 *)
Store(r) ==
  /\ caller[r].at = "storing"
  /\ \/ /\ Insert(r)
        /\ Go(r, "closing")
        /\ Upsert(r, "in_progress", FALSE)
     \/ /\ Go(r, "failing")
        /\ UNCHANGED <<snapshots, diagnostic>>
     \/ /\ Insert(r) \/ UNCHANGED snapshots
        /\ Answer(r, "unexpected")
        /\ UNCHANGED diagnostic
  /\ UNCHANGED <<policyVars, validator, trace>>

Complete(r) ==
  /\ caller[r].at = "closing"
  /\ Answer(r, "success")
  /\ Upsert(r, "completed", TRUE)
  /\ UNCHANGED <<policyVars, validator, snapshots, trace>>

Fail(r) ==
  /\ caller[r].at = "failing"
  /\ Answer(r, "failure")
  /\ Upsert(r, "failed", TRUE)
  /\ UNCHANGED <<policyVars, validator, snapshots, trace>>

CallerStep(r) ==
  \/ AskPolicy(r)
  \/ TakePolicy(r)
  \/ TakeVerdict(r)
  \/ TakeError(r)
  \/ GiveUp(r)
  \/ Store(r)
  \/ Complete(r)
  \/ Fail(r)

Running(r) == caller[r].at \notin {"idle", "answered", "lost"}

(* The run is a daemon thread: it dies with its process. *)
Lose(r) ==
  /\ Running(r)
  /\ Go(r, "lost")
  /\ UNCHANGED <<policyVars, validator, snapshots, trace, diagnostic>>

Next ==
  \E r \in Runs :
     \/ Start(r)
     \/ CallerStep(r)
     \/ ValidatorStep(r)
     \/ ServeGeneration(r)
     \/ ServeRevision(r)
     \/ Lose(r)

(* A validation has a thread of its own and waits for nothing without a    *)
(* timeout. Nothing is assumed of the other services.                      *)
Fairness == \A r \in Runs : WF_vars(ValidatorStep(r))

Spec == Init /\ [][Next]_vars /\ Fairness

(***************************************************************************)
(* Properties                                                              *)
(***************************************************************************)

Handling == [state : {"none", "asked", "made", "refused"}, text : Texts \cup {None}]

Outcomes == Verdicts \cup {"none", "no_verdict"}

CallerStates ==
  [at : {"idle", "asking", "generating", "validating", "storing", "closing", "failing",
         "answered", "lost"},
   answer : {"none", "success", "failure", "unexpected"}]

ValidatorStates ==
  [at : {"idle", "reviewing", "revising", "done"}, round : 0 .. MaxRounds,
   text : Texts \cup {None}, verdict : Outcomes, agreeing : 0 .. RoleCount]

DiagnosticStates ==
  [status : {"none", "in_progress", "failed", "completed"}, closed : BOOLEAN]

(* The shape of what the three services keep. *)
TypeOK ==
  /\ caller \in [Runs -> CallerStates]
  /\ generation \in [Runs -> Handling]
  /\ validator \in [Runs -> ValidatorStates]
  /\ revision \in [Runs -> Handling]
  /\ policy \in Seq(Texts)
  /\ snapshots \subseteq [run : Runs, text : Texts, status : Verdicts]
  /\ trace \subseteq [run : Runs, round : 1 .. MaxRounds, text : Texts, decision : Verdicts]
  /\ diagnostic \in [Runs -> DiagnosticStates]

(* The text the validator reads is the current policy of policy-agent:     *)
(* neither another run nor an update it gave up on changes the policy      *)
(* under it (coordinator.py:83, policy-agent logic.py:1364, 1236).         *)
ReviewReadsPolicy ==
  \A r \in Runs : Reviewing(r) => policy # <<>> /\ validator[r].text = Current

(* The snapshot a user reads in context-agent is the policy policy-agent   *)
(* keeps, and remains so: once a verdict is stored, no late revision       *)
(* lands (context-agent logic.py:3070; its policy_ref names that policy).  *)
SnapshotIsPolicy ==
  \A s \in snapshots : policy # <<>> /\ s.text = Current

(* A context gets one validated snapshot at most, however often the        *)
(* pipeline is run and whichever run's calls are lost.                     *)
OneSnapshot == \A s, t \in snapshots : s = t

(* What a run says of itself is what it did: success and a completed       *)
(* diagnostic mean its snapshot is stored, failure and a failed diagnostic *)
(* that it is not and will not be (context-agent logic.py:3201, 3233).     *)
ReportsAreTrue ==
  \A r \in Runs :
     LET stored == \E s \in snapshots : s.run = r
     IN  /\ caller[r].answer = "success" \/ diagnostic[r].status = "completed" => stored
         /\ caller[r].answer = "failure" \/ diagnostic[r].status = "failed" => ~stored

(* The validations collection tells how a verdict was reached: the entry   *)
(* of a snapshot's last round has its text and its status, and no earlier  *)
(* round accepted (coordinator.py:123, 146, 158).                          *)
TraceExplainsSnapshot ==
  \A s \in snapshots, e \in trace :
     e.run = s.run =>
        /\ e.round <= validator[s.run].round
        /\ IF e.round = validator[s.run].round
             THEN e.text = s.text /\ e.decision = s.status
             ELSE e.decision # "accepted"

(* A validation asks for a revision between two rounds and never after the *)
(* last, and only one validation of a context ever runs: a policy has      *)
(* MaxRounds revisions at most, the first included (coordinator.py:135).   *)
RevisionsAreBudgeted == Len(policy) <= MaxRounds

(* Every validation ends, whatever its agents say and even when            *)
(* policy-agent never answers (coordinator.py:73, validator-agent          *)
(* logic.py:605).                                                          *)
ValidationEnds == \A r \in Runs : Reviewing(r) ~> validator[r].at = "done"
=============================================================================
