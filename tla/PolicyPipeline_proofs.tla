------------------------ MODULE PolicyPipeline_proofs ------------------------
(***************************************************************************)
(* Proofs about PolicyPipeline, for any runs, texts, roles and rounds.     *)
(*                                                                         *)
(* The argument: policy-agent creates one policy, so that one run at most  *)
(* is ever given one and validated (Ownership). That run is the only one   *)
(* whose handlers write the policy, and it reads an update's text before   *)
(* it goes on or ends without a verdict (Freshness): what it judges, and   *)
(* stores, is the policy.                                                  *)
(***************************************************************************)
EXTENDS PolicyPipeline, SequenceTheorems, TLAPS

HasVerdict(r) == validator[r].at = "done" /\ validator[r].verdict # "no_verdict"

IsStored(r) == \E s \in snapshots : s.run = r

(* One run has the policy, and what was asked for it follows from that. *)
Ownership ==
  /\ \A r \in Runs : caller[r].at \in {"idle", "asking"} => generation[r].state = "none"
  /\ \A r \in Runs : caller[r].at \in {"idle", "asking", "generating"} => validator[r].at = "idle"
  /\ \A r \in Runs : generation[r].state = "made" => policy # <<>>
  /\ \A r, q \in Runs :
        generation[r].state = "made" /\ generation[q].state = "made" => r = q
  /\ \A r \in Runs : validator[r].at # "idle" => generation[r].state = "made"
  /\ \A r \in Runs : revision[r].state # "none" => validator[r].at # "idle"
  /\ \A r \in Runs : revision[r].state = "asked" =>
                        validator[r].at \in {"revising", "done"} /\ ~HasVerdict(r)

(* Whoever is to read a text has the policy's current one. *)
Freshness ==
  /\ \A r \in Runs : generation[r].state = "made" /\ validator[r].at = "idle" =>
                        generation[r].text = Current
  /\ ReviewReadsPolicy
  /\ \A r \in Runs : validator[r].at = "revising" /\ revision[r].state = "made" =>
                        revision[r].text = Current
  /\ \A r \in Runs : HasVerdict(r) => validator[r].text = Current

(* A snapshot is a verdict's, and its run has gone past storing it. *)
Storing ==
  /\ \A r \in Runs : HasVerdict(r) => validator[r].verdict \in Verdicts
  /\ \A r \in Runs : caller[r].at \in {"storing", "closing"} => HasVerdict(r)
  /\ \A s \in snapshots :
        /\ HasVerdict(s.run)
        /\ s.text = validator[s.run].text
        /\ s.status = validator[s.run].verdict
        /\ caller[s.run].at \in {"closing", "answered", "lost"}

(* What a run has said, and what it is about to say. *)
Reporting ==
  /\ \A r \in Runs : caller[r].answer # "none" => caller[r].at = "answered"
  /\ \A r \in Runs : caller[r].at = "closing" => IsStored(r)
  /\ \A r \in Runs : caller[r].at = "failing" => ~IsStored(r)
  /\ \A r \in Runs : diagnostic[r].status = "failed" => caller[r].at \in {"failing", "answered", "lost"}
  /\ ReportsAreTrue

(* The revisions are counted by the rounds. *)
Counting ==
  /\ \A r \in Runs : generation[r].state = "made" /\ validator[r].at = "idle" => Len(policy) = 1
  /\ \A r \in Runs : Reviewing(r) => Len(policy) <= validator[r].round
  /\ \A r \in Runs : validator[r].at = "revising" =>
                        validator[r].round < MaxRounds /\ Len(policy) <= validator[r].round + 1
  /\ \A r \in Runs : revision[r].state = "asked" =>
                        Len(policy) < MaxRounds /\ Len(policy) <= validator[r].round
  /\ RevisionsAreBudgeted

(* Every logged round is behind the validator, or its last. *)
Tracing ==
  \A e \in trace :
     /\ validator[e.run].at # "idle"
     /\ e.round <= validator[e.run].round
     /\ Reviewing(e.run) => e.round < validator[e.run].round
     /\ e.decision = "accepted" => HasVerdict(e.run) /\ e.round = validator[e.run].round
     /\ HasVerdict(e.run) /\ e.round = validator[e.run].round =>
           e.text = validator[e.run].text /\ e.decision = validator[e.run].verdict

IInv == TypeOK /\ Ownership /\ Freshness /\ Storing /\ Reporting /\ Counting /\ Tracing

(***************************************************************************)
(* Types and effects of the writes the actions share.                      *)
(***************************************************************************)

\* What is kept of a run, field by field.
LEMMA FieldTypes ==
  ASSUME TypeOK, NEW r \in Runs
  PROVE  /\ caller[r] \in CallerStates
         /\ generation[r] \in Handling /\ generation[r].text \in Texts \cup {None}
         /\ validator[r] \in ValidatorStates
         /\ validator[r].at \in {"idle", "reviewing", "revising", "done"}
         /\ validator[r].round \in 0 .. MaxRounds
         /\ validator[r].text \in Texts \cup {None}
         /\ validator[r].verdict \in Outcomes
         /\ validator[r].agreeing \in 0 .. RoleCount
         /\ revision[r] \in Handling /\ revision[r].text \in Texts \cup {None}
         /\ diagnostic[r] \in DiagnosticStates
<1>1. /\ caller[r] \in CallerStates
      /\ generation[r] \in Handling
      /\ validator[r] \in ValidatorStates
      /\ revision[r] \in Handling
      /\ diagnostic[r] \in DiagnosticStates
  BY DEF TypeOK
<1>2. generation[r].text \in Texts \cup {None} /\ revision[r].text \in Texts \cup {None}
  BY <1>1 DEF Handling
<1>3. /\ validator[r].at \in {"idle", "reviewing", "revising", "done"}
      /\ validator[r].round \in 0 .. MaxRounds
      /\ validator[r].text \in Texts \cup {None}
      /\ validator[r].verdict \in Outcomes
      /\ validator[r].agreeing \in 0 .. RoleCount
  BY <1>1 DEF ValidatorStates
<1> QED  BY <1>1, <1>2, <1>3

\* One entry of a function is written and the others stay.
LEMMA Written ==
  ASSUME NEW D, NEW S, NEW f \in [D -> S], NEW d \in D, NEW v \in S
  PROVE  /\ [f EXCEPT ![d] = v] \in [D -> S]
         /\ [f EXCEPT ![d] = v][d] = v
         /\ \A e \in D \ {d} : [f EXCEPT ![d] = v][e] = f[e]
OBVIOUS

\* A run of context-agent moves on.
LEMMA GoEffect ==
  ASSUME TypeOK, NEW r \in Runs,
         NEW at \in {"idle", "asking", "generating", "validating", "storing", "closing",
                     "failing", "answered", "lost"},
         Go(r, at)
  PROVE  /\ caller' \in [Runs -> CallerStates]
         /\ caller'[r].at = at /\ caller'[r].answer = caller[r].answer
         /\ \A q \in Runs \ {r} : caller'[q] = caller[q]
<1> DEFINE new == [caller[r] EXCEPT !.at = at]
<1>1. new \in CallerStates /\ new.at = at /\ new.answer = caller[r].answer
  BY FieldTypes DEF CallerStates
<1>2. caller' = [caller EXCEPT ![r] = new]  BY DEF Go
<1>3. caller \in [Runs -> CallerStates]  BY DEF TypeOK
<1> HIDE DEF new
<1> QED  BY <1>1, <1>2, <1>3, Written

\* A run of context-agent answers.
LEMMA AnswerEffect ==
  ASSUME TypeOK, NEW r \in Runs, NEW answer \in {"success", "failure", "unexpected"},
         Answer(r, answer)
  PROVE  /\ caller' \in [Runs -> CallerStates]
         /\ caller'[r].at = "answered" /\ caller'[r].answer = answer
         /\ \A q \in Runs \ {r} : caller'[q] = caller[q]
<1> DEFINE new == [at |-> "answered", answer |-> answer]
<1>1. new \in CallerStates /\ new.at = "answered" /\ new.answer = answer
  BY DEF CallerStates
<1>2. caller' = [caller EXCEPT ![r] = new]  BY DEF Answer
<1>3. caller \in [Runs -> CallerStates]  BY DEF TypeOK
<1> HIDE DEF new
<1> QED  BY <1>1, <1>2, <1>3, Written

\* A diagnostic is written, or its write fails.
LEMMA UpsertEffect ==
  ASSUME TypeOK, NEW r \in Runs, NEW status \in {"in_progress", "failed", "completed"},
         NEW closed \in BOOLEAN, Upsert(r, status, closed)
  PROVE  /\ diagnostic' \in [Runs -> DiagnosticStates]
         /\ diagnostic'[r].status \in {status, diagnostic[r].status}
         /\ \A q \in Runs \ {r} : diagnostic'[q] = diagnostic[q]
<1> DEFINE new == [status |-> status, closed |-> closed]
<1>1. new \in DiagnosticStates /\ new.status = status
  BY DEF DiagnosticStates
<1>2. diagnostic' = [diagnostic EXCEPT ![r] = new] \/ diagnostic' = diagnostic
  BY DEF Upsert
<1>3. diagnostic \in [Runs -> DiagnosticStates]  BY DEF TypeOK
<1> HIDE DEF new
<1>4. CASE diagnostic' = [diagnostic EXCEPT ![r] = new]
  BY <1>1, <1>3, <1>4, Written
<1>5. CASE diagnostic' = diagnostic
  BY <1>3, <1>5
<1> QED  BY <1>2, <1>4, <1>5

\* A validation ends with a verdict.
LEMMA ConcludeEffect ==
  ASSUME TypeOK, NEW r \in Runs, NEW verdict \in Verdicts, NEW agreeing \in 0 .. RoleCount,
         Conclude(r, verdict, agreeing)
  PROVE  /\ validator' \in [Runs -> ValidatorStates]
         /\ validator'[r].at = "done" /\ validator'[r].verdict = verdict
         /\ validator'[r].round = validator[r].round /\ validator'[r].text = validator[r].text
         /\ \A q \in Runs \ {r} : validator'[q] = validator[q]
<1> DEFINE new == [validator[r] EXCEPT !.at = "done", !.verdict = verdict, !.agreeing = agreeing]
<1>1. /\ new \in ValidatorStates /\ new.at = "done" /\ new.verdict = verdict
      /\ new.round = validator[r].round /\ new.text = validator[r].text
  <2>1. verdict \in Outcomes  BY DEF Outcomes
  <2> QED  BY <2>1, FieldTypes DEF ValidatorStates
<1>2. validator' = [validator EXCEPT ![r] = new]  BY DEF Conclude
<1>3. validator \in [Runs -> ValidatorStates]  BY DEF TypeOK
<1> HIDE DEF new
<1> QED  BY <1>1, <1>2, <1>3, Written

\* A validation ends without one.
LEMMA AbortEffect ==
  ASSUME TypeOK, NEW r \in Runs, Abort(r)
  PROVE  /\ validator' \in [Runs -> ValidatorStates]
         /\ validator'[r].at = "done" /\ validator'[r].verdict = "no_verdict"
         /\ validator'[r].round = validator[r].round /\ validator'[r].text = validator[r].text
         /\ \A q \in Runs \ {r} : validator'[q] = validator[q]
<1> DEFINE new == [validator[r] EXCEPT !.at = "done", !.verdict = "no_verdict"]
<1>1. /\ new \in ValidatorStates /\ new.at = "done" /\ new.verdict = "no_verdict"
      /\ new.round = validator[r].round /\ new.text = validator[r].text
  <2>1. "no_verdict" \in Outcomes  BY DEF Outcomes
  <2> QED  BY <2>1, FieldTypes DEF ValidatorStates
<1>2. validator' = [validator EXCEPT ![r] = new]  BY DEF Abort
<1>3. validator \in [Runs -> ValidatorStates]  BY DEF TypeOK
<1> HIDE DEF new
<1> QED  BY <1>1, <1>2, <1>3, Written

\* What a log may add to the trace.
LEMMA LogEffect ==
  ASSUME TypeOK, NEW r \in Runs, NEW decision \in Verdicts, Log(r, decision),
         validator[r].round \in 1 .. MaxRounds, validator[r].text \in Texts
  PROVE  /\ trace' \subseteq [run : Runs, round : 1 .. MaxRounds, text : Texts,
                              decision : Verdicts]
         /\ \A e \in trace' :
               \/ e \in trace
               \/ /\ e.run = r /\ e.round = validator[r].round
                  /\ e.text = validator[r].text /\ e.decision = decision
<1> DEFINE new == [run |-> r, round |-> validator[r].round, text |-> validator[r].text,
                   decision |-> decision]
<1>1. /\ new \in [run : Runs, round : 1 .. MaxRounds, text : Texts, decision : Verdicts]
      /\ new.run = r /\ new.round = validator[r].round
      /\ new.text = validator[r].text /\ new.decision = decision
  OBVIOUS
<1>2. trace' = trace \cup {new} \/ trace' = trace  BY DEF Log
<1>3. trace \subseteq [run : Runs, round : 1 .. MaxRounds, text : Texts, decision : Verdicts]
  BY DEF TypeOK
<1> HIDE DEF new
<1> QED  BY <1>1, <1>2, <1>3

(***************************************************************************)
(* The steps of context-agent.                                             *)
(***************************************************************************)

\* A run of context-agent moves on: what its move must respect.
LEMMA MoveStep ==
  ASSUME IInv, NEW r \in Runs,
         caller' \in [Runs -> CallerStates], diagnostic' \in [Runs -> DiagnosticStates],
         \A q \in Runs \ {r} : caller'[q] = caller[q] /\ diagnostic'[q] = diagnostic[q],
         UNCHANGED <<policyVars, validator, snapshots, trace>>,
         caller'[r].at \in {"idle", "asking"} => caller[r].at \in {"idle", "asking"},
         caller'[r].at \in {"idle", "asking", "generating"} =>
            caller[r].at \in {"idle", "asking", "generating"},
         caller'[r].at \in {"storing", "closing"} => HasVerdict(r),
         IsStored(r) => caller'[r].at \in {"closing", "answered", "lost"},
         caller'[r].answer # "none" => caller'[r].at = "answered",
         caller'[r].at = "closing" => IsStored(r),
         caller'[r].at = "failing" => ~IsStored(r),
         diagnostic'[r].status = "failed" => caller'[r].at \in {"failing", "answered", "lost"},
         caller'[r].answer = "success" \/ diagnostic'[r].status = "completed" => IsStored(r),
         caller'[r].answer = "failure" \/ diagnostic'[r].status = "failed" => ~IsStored(r)
  PROVE  IInv'
<1>1. /\ generation' = generation /\ revision' = revision /\ policy' = policy
      /\ validator' = validator /\ snapshots' = snapshots /\ trace' = trace
  BY DEF policyVars
<1>2. TypeOK'  BY <1>1 DEF IInv, TypeOK
<1>3. Ownership'
  <2>1. \A q \in Runs : caller'[q].at \in {"idle", "asking"} => caller[q].at \in {"idle", "asking"}
    OBVIOUS
  <2>2. \A q \in Runs : caller'[q].at \in {"idle", "asking", "generating"} =>
                           caller[q].at \in {"idle", "asking", "generating"}
    OBVIOUS
  <2> QED  BY <1>1, <2>1, <2>2 DEF IInv, Ownership, HasVerdict
<1>4. Freshness'  BY <1>1 DEF IInv, Freshness, ReviewReadsPolicy, Reviewing, HasVerdict, Current
<1>5. Counting'  BY <1>1 DEF IInv, Counting, RevisionsAreBudgeted, Reviewing
<1>6. Tracing'  BY <1>1 DEF IInv, Tracing, Reviewing, HasVerdict
<1>7. Storing'
  <2>1. \A q \in Runs : caller'[q].at \in {"storing", "closing"} => HasVerdict(q)
    BY DEF IInv, Storing
  <2>2. \A s \in snapshots : caller'[s.run].at \in {"closing", "answered", "lost"}
    <3> SUFFICES ASSUME NEW s \in snapshots
                 PROVE  caller'[s.run].at \in {"closing", "answered", "lost"}
      OBVIOUS
    <3>1. s.run \in Runs  BY DEF IInv, TypeOK
    <3>2. CASE s.run = r  BY <3>2 DEF IsStored
    <3>3. CASE s.run # r  BY <3>1, <3>3 DEF IInv, Storing
    <3> QED  BY <3>2, <3>3
  <2> QED  BY <1>1, <2>1, <2>2 DEF IInv, Storing, HasVerdict
<1>8. Reporting'
  <2> SUFFICES ASSUME NEW q \in Runs
               PROVE  /\ caller'[q].answer # "none" => caller'[q].at = "answered"
                      /\ caller'[q].at = "closing" => IsStored(q)
                      /\ caller'[q].at = "failing" => ~IsStored(q)
                      /\ diagnostic'[q].status = "failed" =>
                            caller'[q].at \in {"failing", "answered", "lost"}
                      /\ caller'[q].answer = "success" \/ diagnostic'[q].status = "completed" =>
                            IsStored(q)
                      /\ caller'[q].answer = "failure" \/ diagnostic'[q].status = "failed" =>
                            ~IsStored(q)
    BY <1>1 DEF Reporting, ReportsAreTrue, IsStored
  <2>1. CASE q = r  BY <2>1
  <2>2. CASE q # r
    <3>1. caller'[q] = caller[q] /\ diagnostic'[q] = diagnostic[q]  BY <2>2
    <3> QED  BY <3>1 DEF IInv, Reporting, ReportsAreTrue, IsStored
  <2> QED  BY <2>1, <2>2
<1> QED  BY <1>2, <1>3, <1>4, <1>5, <1>6, <1>7, <1>8 DEF IInv

\* What the invariant says of one run's place.
LEMMA CallerFacts ==
  ASSUME IInv, NEW r \in Runs
  PROVE  /\ caller[r].at # "answered" => caller[r].answer = "none"
         /\ IsStored(r) => caller[r].at \in {"closing", "answered", "lost"}
         /\ caller[r].at \in {"storing", "closing"} => HasVerdict(r)
         /\ caller[r].at = "closing" => IsStored(r)
         /\ caller[r].at = "failing" => ~IsStored(r)
         /\ diagnostic[r].status = "failed" => caller[r].at \in {"failing", "answered", "lost"}
         /\ caller[r].answer = "success" \/ diagnostic[r].status = "completed" => IsStored(r)
         /\ caller[r].answer = "failure" \/ diagnostic[r].status = "failed" => ~IsStored(r)
<1>1. IsStored(r) => caller[r].at \in {"closing", "answered", "lost"}
  BY DEF IInv, Storing, IsStored
<1>2. caller[r].at \in {"storing", "closing"} => HasVerdict(r)
  BY DEF IInv, Storing
<1>3. /\ caller[r].answer = "success" \/ diagnostic[r].status = "completed" => IsStored(r)
      /\ caller[r].answer = "failure" \/ diagnostic[r].status = "failed" => ~IsStored(r)
  BY DEF IInv, Reporting, ReportsAreTrue, IsStored
<1> QED  BY <1>1, <1>2, <1>3 DEF IInv, Reporting

\* A run starts.
LEMMA StartStep ==
  ASSUME IInv, NEW r \in Runs, Start(r)
  PROVE  IInv'
<1>1. /\ caller[r].at = "idle" /\ Go(r, "asking") /\ Upsert(r, "in_progress", FALSE)
      /\ UNCHANGED <<policyVars, validator, snapshots, trace>>
  BY DEF Start
<1>2. TypeOK  BY DEF IInv
<1>3. /\ caller' \in [Runs -> CallerStates] /\ caller'[r].at = "asking"
      /\ caller'[r].answer = caller[r].answer /\ \A q \in Runs \ {r} : caller'[q] = caller[q]
  BY <1>1, <1>2, GoEffect
<1>4. /\ diagnostic' \in [Runs -> DiagnosticStates]
      /\ diagnostic'[r].status \in {"in_progress", diagnostic[r].status}
      /\ \A q \in Runs \ {r} : diagnostic'[q] = diagnostic[q]
  BY <1>1, <1>2, UpsertEffect
<1> QED  BY <1>1, <1>3, <1>4, CallerFacts, MoveStep

\* A call is over: a verdict was given, or an error came or was made of a timeout.
LEMMA CallOverStep ==
  ASSUME IInv, NEW r \in Runs, TakeVerdict(r) \/ TakeError(r) \/ GiveUp(r)
  PROVE  IInv'
<1>1. PICK at \in {"storing", "failing"}, status \in {"in_progress", "failed"} :
        /\ Go(r, at) /\ Upsert(r, status, FALSE)
        /\ at = "storing" => HasVerdict(r)
        /\ at = "storing" <=> status = "in_progress"
  BY DEF TakeVerdict, TakeError, GiveUp, HasVerdict
<1>2. /\ caller[r].at \in {"generating", "validating"}
      /\ UNCHANGED <<policyVars, validator, snapshots, trace>>
  BY DEF TakeVerdict, TakeError, GiveUp, Refused
<1>3. TypeOK  BY DEF IInv
<1>4. /\ caller' \in [Runs -> CallerStates] /\ caller'[r].at = at
      /\ caller'[r].answer = caller[r].answer /\ \A q \in Runs \ {r} : caller'[q] = caller[q]
  BY <1>1, <1>3, GoEffect
<1>5. /\ diagnostic' \in [Runs -> DiagnosticStates]
      /\ diagnostic'[r].status \in {status, diagnostic[r].status}
      /\ \A q \in Runs \ {r} : diagnostic'[q] = diagnostic[q]
  BY <1>1, <1>3, UpsertEffect
<1> QED  BY <1>1, <1>2, <1>4, <1>5, CallerFacts, MoveStep

\* A run answers its command.
LEMMA AnswerStep ==
  ASSUME IInv, NEW r \in Runs, Complete(r) \/ Fail(r)
  PROVE  IInv'
<1>1. PICK answer \in {"success", "failure"}, status \in {"completed", "failed"} :
        /\ Answer(r, answer) /\ Upsert(r, status, TRUE)
        /\ \/ answer = "success" /\ status = "completed" /\ caller[r].at = "closing"
           \/ answer = "failure" /\ status = "failed" /\ caller[r].at = "failing"
  BY DEF Complete, Fail
<1>2. UNCHANGED <<policyVars, validator, snapshots, trace>>
  BY DEF Complete, Fail
<1>3. TypeOK  BY DEF IInv
<1>4. /\ caller' \in [Runs -> CallerStates] /\ caller'[r].at = "answered"
      /\ caller'[r].answer = answer /\ \A q \in Runs \ {r} : caller'[q] = caller[q]
  BY <1>1, <1>3, AnswerEffect
<1>5. /\ diagnostic' \in [Runs -> DiagnosticStates]
      /\ diagnostic'[r].status \in {status, diagnostic[r].status}
      /\ \A q \in Runs \ {r} : diagnostic'[q] = diagnostic[q]
  BY <1>1, <1>3, UpsertEffect
<1> QED  BY <1>1, <1>2, <1>4, <1>5, CallerFacts, MoveStep

\* A run dies with its process.
LEMMA LoseStep ==
  ASSUME IInv, NEW r \in Runs, Lose(r)
  PROVE  IInv'
<1>1. /\ caller[r].at # "answered" /\ Go(r, "lost")
      /\ UNCHANGED <<policyVars, validator, snapshots, trace, diagnostic>>
  BY DEF Lose, Running
<1>2. TypeOK  BY DEF IInv
<1>3. /\ caller' \in [Runs -> CallerStates] /\ caller'[r].at = "lost"
      /\ caller'[r].answer = caller[r].answer /\ \A q \in Runs \ {r} : caller'[q] = caller[q]
  BY <1>1, <1>2, GoEffect
<1>4. diagnostic' \in [Runs -> DiagnosticStates] /\ diagnostic' = diagnostic
  BY <1>1, <1>2 DEF TypeOK
<1>5. caller'[r].answer = "none"  BY <1>1, <1>3, CallerFacts
<1> QED  BY <1>1, <1>3, <1>4, <1>5, CallerFacts, MoveStep

\* Policy-agent is asked for a policy, or the context is not ready.
LEMMA AskPolicyStep ==
  ASSUME IInv, NEW r \in Runs, AskPolicy(r)
  PROVE  IInv'
<1> USE DEF policyVars
<1>1. TypeOK  BY DEF IInv
<1>2. diagnostic' \in [Runs -> DiagnosticStates] /\ diagnostic' = diagnostic
  BY <1>1 DEF AskPolicy, TypeOK
<1>3. CASE Go(r, "failing") /\ UNCHANGED generation
  <2>1. /\ caller' \in [Runs -> CallerStates] /\ caller'[r].at = "failing"
        /\ caller'[r].answer = caller[r].answer
        /\ \A q \in Runs \ {r} : caller'[q] = caller[q]
    BY <1>1, <1>3, GoEffect
  <2>2. caller[r].at = "asking" /\ UNCHANGED <<policyVars, validator, snapshots, trace>>
    BY <1>3 DEF AskPolicy
  <2> QED  BY <1>2, <2>1, <2>2, CallerFacts, MoveStep
<1>4. CASE Go(r, "generating") /\ generation' = [generation EXCEPT ![r].state = "asked"]
  <2>1. /\ caller' \in [Runs -> CallerStates] /\ caller'[r].at = "generating"
        /\ caller'[r].answer = caller[r].answer
        /\ \A q \in Runs \ {r} : caller'[q] = caller[q]
    BY <1>1, <1>4, GoEffect
  <2>2. /\ caller[r].at = "asking" /\ revision' = revision /\ policy' = policy
        /\ validator' = validator /\ snapshots' = snapshots /\ trace' = trace
    BY DEF AskPolicy
  <2>3. /\ generation' \in [Runs -> Handling] /\ generation'[r].state = "asked"
        /\ \A q \in Runs \ {r} : generation'[q] = generation[q]
    <3> DEFINE new == [generation[r] EXCEPT !.state = "asked"]
    <3>1. new \in Handling /\ new.state = "asked"  BY <1>1, FieldTypes DEF Handling
    <3>2. generation' = [generation EXCEPT ![r] = new]  BY <1>4
    <3>3. generation \in [Runs -> Handling]  BY <1>1 DEF TypeOK
    <3> HIDE DEF new
    <3> QED  BY <3>1, <3>2, <3>3, Written
  <2>4. generation[r].state = "none" /\ validator[r].at = "idle"
    BY <2>2 DEF IInv, Ownership
  <2>5. \A q \in Runs : generation'[q].state = "made" =>
                           q # r /\ generation'[q] = generation[q]
    BY <2>3
  <2>6. TypeOK'  BY <1>1, <1>2, <2>1, <2>2, <2>3 DEF TypeOK
  <2>7. Ownership'
    <3>1. \A q \in Runs : caller'[q].at \in {"idle", "asking"} => generation'[q].state = "none"
      BY <2>1, <2>3 DEF IInv, Ownership
    <3>2. \A q \in Runs : caller'[q].at \in {"idle", "asking", "generating"} =>
                             validator[q].at = "idle"
      BY <2>1, <2>4 DEF IInv, Ownership
    <3>3. /\ \A q \in Runs : generation'[q].state = "made" => policy # <<>>
          /\ \A q, p \in Runs :
                generation'[q].state = "made" /\ generation'[p].state = "made" => q = p
      BY <2>5 DEF IInv, Ownership
    <3>4. \A q \in Runs : validator[q].at # "idle" => generation'[q].state = "made"
      BY <2>3, <2>4 DEF IInv, Ownership
    <3>5. /\ \A q \in Runs : revision[q].state # "none" => validator[q].at # "idle"
          /\ \A q \in Runs : revision[q].state = "asked" =>
                validator[q].at \in {"revising", "done"} /\ ~HasVerdict(q)
      BY DEF IInv, Ownership
    <3> QED  BY <2>2, <3>1, <3>2, <3>3, <3>4, <3>5 DEF Ownership, HasVerdict
  <2>8. Freshness'
    BY <2>2, <2>5 DEF IInv, Freshness, ReviewReadsPolicy, Reviewing, HasVerdict, Current
  <2>9. Counting'  BY <2>2, <2>5 DEF IInv, Counting, RevisionsAreBudgeted, Reviewing
  <2>10. Tracing'  BY <2>2 DEF IInv, Tracing, Reviewing, HasVerdict
  <2>11. Storing'
    <3>1. \A q \in Runs : caller'[q].at \in {"storing", "closing"} => HasVerdict(q)
      BY <2>1 DEF IInv, Storing
    <3>2. \A s \in snapshots : s.run # r /\ caller'[s.run] = caller[s.run]
      <4>1. \A s \in snapshots : s.run \in Runs  BY <1>1 DEF TypeOK
      <4> QED  BY <2>1, <2>2, <4>1 DEF IInv, Storing
    <3> QED  BY <2>2, <3>1, <3>2 DEF IInv, Storing, HasVerdict
  <2>12. Reporting'
    <3>1. \A q \in Runs : q # r => caller'[q] = caller[q]  BY <2>1
    <3>2. caller'[r].answer = "none"  BY <2>1, <2>2, CallerFacts
    <3>3. diagnostic[r].status # "failed"  BY <2>2, CallerFacts
    <3> QED  BY <1>2, <2>1, <2>2, <3>1, <3>2, <3>3 DEF IInv, Reporting, ReportsAreTrue, IsStored
  <2> QED  BY <2>6, <2>7, <2>8, <2>9, <2>10, <2>11, <2>12 DEF IInv
<1> QED  BY <1>3, <1>4 DEF AskPolicy

\* The policy is sent on to the validator.
LEMMA TakePolicyStep ==
  ASSUME IInv, NEW r \in Runs, TakePolicy(r)
  PROVE  IInv'
<1>1. TypeOK  BY DEF IInv
<1>2. /\ caller[r].at = "generating" /\ generation[r].state = "made" /\ Go(r, "validating")
      /\ Upsert(r, "in_progress", FALSE)
      /\ generation' = generation /\ revision' = revision /\ policy' = policy
      /\ snapshots' = snapshots /\ trace' = trace
  BY DEF TakePolicy, policyVars
<1>3. /\ caller' \in [Runs -> CallerStates] /\ caller'[r].at = "validating"
      /\ caller'[r].answer = caller[r].answer /\ \A q \in Runs \ {r} : caller'[q] = caller[q]
  BY <1>1, <1>2, GoEffect
<1>4. /\ diagnostic' \in [Runs -> DiagnosticStates]
      /\ diagnostic'[r].status \in {"in_progress", diagnostic[r].status}
      /\ \A q \in Runs \ {r} : diagnostic'[q] = diagnostic[q]
  BY <1>1, <1>2, UpsertEffect
<1>5. validator[r].at = "idle" /\ policy # <<>> /\ generation[r].text = Current /\ Len(policy) = 1
  BY <1>2 DEF IInv, Ownership, Freshness, Counting
<1>6. /\ validator' \in [Runs -> ValidatorStates]
      /\ validator'[r].at = "reviewing" /\ validator'[r].round = 1
      /\ validator'[r].text = generation[r].text
      /\ \A q \in Runs \ {r} : validator'[q] = validator[q]
  <2> DEFINE new == [at |-> "reviewing", round |-> 1, text |-> generation[r].text,
                     verdict |-> "none", agreeing |-> 0]
  <2>1. new \in ValidatorStates
    <3>1. generation[r].text \in Texts \cup {None}  BY <1>1, FieldTypes
    <3>2. 1 \in 0 .. MaxRounds /\ 0 \in 0 .. RoleCount  BY RoundsAssumption, RolesAssumption
    <3>3. "none" \in Outcomes  BY DEF Outcomes
    <3> QED  BY <3>1, <3>2, <3>3 DEF ValidatorStates
  <2>2. new.at = "reviewing" /\ new.round = 1 /\ new.text = generation[r].text
    OBVIOUS
  <2>3. validator' = [validator EXCEPT ![r] = new]  BY DEF TakePolicy
  <2>4. validator \in [Runs -> ValidatorStates]  BY <1>1 DEF TypeOK
  <2> HIDE DEF new
  <2> QED  BY <2>1, <2>2, <2>3, <2>4, Written
<1>7. \A e \in trace : e.run \in Runs /\ e.run # r /\ validator'[e.run] = validator[e.run]
  <2>1. \A e \in trace : e.run \in Runs  BY <1>1 DEF TypeOK
  <2> QED  BY <1>5, <1>6, <2>1 DEF IInv, Tracing
<1>8. \A s \in snapshots : /\ s.run \in Runs /\ s.run # r
                           /\ validator'[s.run] = validator[s.run]
                           /\ caller'[s.run] = caller[s.run]
  <2>1. \A s \in snapshots : s.run \in Runs  BY <1>1 DEF TypeOK
  <2> QED  BY <1>3, <1>5, <1>6, <2>1 DEF IInv, Storing, HasVerdict
<1>9. revision[r].state = "none"
  BY <1>5 DEF IInv, Ownership
<1>10. TypeOK'  BY <1>1, <1>2, <1>3, <1>4, <1>6 DEF TypeOK
<1>11. Ownership'
  BY <1>2, <1>3, <1>6, <1>9 DEF IInv, Ownership, HasVerdict
<1>12. Freshness'
  BY <1>2, <1>5, <1>6 DEF IInv, Freshness, ReviewReadsPolicy, Reviewing, HasVerdict, Current
<1>13. Counting'
  BY <1>2, <1>5, <1>6, <1>9, RoundsAssumption DEF IInv, Counting, RevisionsAreBudgeted, Reviewing
<1>14. Tracing'  BY <1>2, <1>7 DEF IInv, Tracing, Reviewing, HasVerdict
<1>15. Storing'
  BY <1>2, <1>3, <1>6, <1>8 DEF IInv, Storing, HasVerdict
<1>16. Reporting'
  <2>1. \A q \in Runs : q # r => caller'[q] = caller[q]  BY <1>3
  <2>2. caller'[r].answer = "none"  BY <1>2, <1>3, CallerFacts
  <2>3. diagnostic[r].status \notin {"failed", "completed"}
    BY <1>2, CallerFacts
  <2> QED  BY <1>2, <1>3, <1>4, <2>1, <2>2, <2>3
           DEF IInv, Reporting, ReportsAreTrue, IsStored
<1> QED  BY <1>10, <1>11, <1>12, <1>13, <1>14, <1>15, <1>16 DEF IInv

\* What holds of a text that has been judged or is being read.
LEMMA JudgedText ==
  ASSUME IInv, NEW r \in Runs, HasVerdict(r) \/ Reviewing(r)
  PROVE  /\ policy # <<>> /\ Len(policy) \in Nat \ {0}
         /\ validator[r].text \in Texts /\ validator[r].text = Current
<1>1. policy \in Seq(Texts)  BY DEF IInv, TypeOK
<1>2. validator[r].at # "idle"  BY DEF HasVerdict, Reviewing
<1>3. policy # <<>> /\ validator[r].text = Current
  BY <1>2 DEF IInv, Ownership, Freshness, ReviewReadsPolicy
<1>4. Len(policy) \in Nat \ {0} /\ Current \in Texts
  BY <1>1, <1>3 DEF Current
<1> QED  BY <1>3, <1>4

\* The insert of a snapshot, whatever becomes of the run: it goes on, or the
\* error of the insert ends it.
LEMMA InsertStep ==
  ASSUME IInv, NEW r \in Runs, caller[r].at = "storing", Insert(r),
         caller' \in [Runs -> CallerStates], diagnostic' \in [Runs -> DiagnosticStates],
         \A q \in Runs \ {r} : caller'[q] = caller[q] /\ diagnostic'[q] = diagnostic[q],
         UNCHANGED <<policyVars, validator, trace>>,
         \/ caller'[r].at = "closing" /\ caller'[r].answer = "none"
         \/ caller'[r].at = "answered" /\ caller'[r].answer = "unexpected",
         diagnostic'[r].status \in {"in_progress", diagnostic[r].status}
  PROVE  IInv'
<1>1. /\ generation' = generation /\ revision' = revision /\ policy' = policy
      /\ validator' = validator /\ trace' = trace
  BY DEF policyVars
<1>2. HasVerdict(r)  BY CallerFacts
<1>3. diagnostic[r].status \notin {"failed", "completed"} /\ ~IsStored(r)
  BY CallerFacts
<1> DEFINE new == [run |-> r, text |-> validator[r].text, status |-> validator[r].verdict]
<1>4. /\ new \in [run : Runs, text : Texts, status : Verdicts]
      /\ new.run = r /\ new.text = validator[r].text /\ new.status = validator[r].verdict
  <2>1. validator[r].verdict \in Verdicts  BY <1>2 DEF IInv, Storing
  <2> QED  BY <1>2, <2>1, JudgedText
<1>5. snapshots' = snapshots \cup {new}  BY DEF Insert
<1> HIDE DEF new
<1>6. TypeOK'  BY <1>1, <1>4, <1>5 DEF IInv, TypeOK
<1>7. Ownership'  BY <1>1 DEF IInv, Ownership, HasVerdict
<1>8. Freshness'  BY <1>1 DEF IInv, Freshness, ReviewReadsPolicy, Reviewing, HasVerdict, Current
<1>9. Counting'  BY <1>1 DEF IInv, Counting, RevisionsAreBudgeted, Reviewing
<1>10. Tracing'  BY <1>1 DEF IInv, Tracing, Reviewing, HasVerdict
<1>11. Storing'
  <2>1. \A q \in Runs : caller'[q].at \in {"storing", "closing"} => HasVerdict(q)
    BY <1>2 DEF IInv, Storing
  <2>2. \A s \in snapshots : caller'[s.run].at \in {"closing", "answered", "lost"}
    <3>1. \A s \in snapshots : s.run \in Runs /\ s.run # r
      BY <1>3 DEF IInv, TypeOK, IsStored
    <3> QED  BY <3>1 DEF IInv, Storing
  <2> QED  BY <1>1, <1>2, <1>4, <1>5, <2>1, <2>2 DEF IInv, Storing, HasVerdict
<1>12. Reporting'
  <2>1. \A q \in Runs : IsStored(q)' <=> q = r \/ IsStored(q)
    BY <1>4, <1>5 DEF IsStored
  <2> SUFFICES ASSUME NEW q \in Runs
               PROVE  /\ caller'[q].answer # "none" => caller'[q].at = "answered"
                      /\ caller'[q].at = "closing" => IsStored(q)'
                      /\ caller'[q].at = "failing" => ~IsStored(q)'
                      /\ diagnostic'[q].status = "failed" =>
                            caller'[q].at \in {"failing", "answered", "lost"}
                      /\ caller'[q].answer = "success" \/ diagnostic'[q].status = "completed" =>
                            IsStored(q)'
                      /\ caller'[q].answer = "failure" \/ diagnostic'[q].status = "failed" =>
                            ~IsStored(q)'
    BY DEF Reporting, ReportsAreTrue, IsStored
  <2>2. CASE q = r  BY <1>3, <2>1, <2>2
  <2>3. CASE q # r
    <3>1. caller'[q] = caller[q] /\ diagnostic'[q] = diagnostic[q]  BY <2>3
    <3>2. IsStored(q)' <=> IsStored(q)  BY <2>1, <2>3
    <3> QED  BY <3>1, <3>2, CallerFacts DEF IInv, Reporting
  <2> QED  BY <2>2, <2>3
<1> QED  BY <1>6, <1>7, <1>8, <1>9, <1>10, <1>11, <1>12 DEF IInv

\* A run stores its snapshot, or fails to.
LEMMA StoreStep ==
  ASSUME IInv, NEW r \in Runs, Store(r)
  PROVE  IInv'
<1>1. TypeOK  BY DEF IInv
<1>2. caller[r].at = "storing" /\ UNCHANGED <<policyVars, validator, trace>>
  BY DEF Store
<1>3. CASE Insert(r) /\ Go(r, "closing") /\ Upsert(r, "in_progress", FALSE)
  <2>1. /\ caller' \in [Runs -> CallerStates] /\ caller'[r].at = "closing"
        /\ caller'[r].answer = caller[r].answer
        /\ \A q \in Runs \ {r} : caller'[q] = caller[q]
    BY <1>1, <1>3, GoEffect
  <2>2. /\ diagnostic' \in [Runs -> DiagnosticStates]
        /\ diagnostic'[r].status \in {"in_progress", diagnostic[r].status}
        /\ \A q \in Runs \ {r} : diagnostic'[q] = diagnostic[q]
    BY <1>1, <1>3, UpsertEffect
  <2>3. caller[r].answer = "none"  BY <1>2, CallerFacts
  <2> QED  BY <1>2, <1>3, <2>1, <2>2, <2>3, InsertStep
<1>4. CASE Go(r, "failing") /\ UNCHANGED <<snapshots, diagnostic>>
  <2>1. /\ caller' \in [Runs -> CallerStates] /\ caller'[r].at = "failing"
        /\ caller'[r].answer = caller[r].answer
        /\ \A q \in Runs \ {r} : caller'[q] = caller[q]
    BY <1>1, <1>4, GoEffect
  <2>2. diagnostic' \in [Runs -> DiagnosticStates] /\ diagnostic' = diagnostic
    BY <1>1, <1>4 DEF TypeOK
  <2>3. UNCHANGED <<policyVars, validator, snapshots, trace>>  BY <1>2, <1>4
  <2> QED  BY <1>2, <2>1, <2>2, <2>3, CallerFacts, MoveStep
<1>5. CASE (Insert(r) \/ UNCHANGED snapshots) /\ Answer(r, "unexpected") /\ UNCHANGED diagnostic
  <2>1. /\ caller' \in [Runs -> CallerStates] /\ caller'[r].at = "answered"
        /\ caller'[r].answer = "unexpected"
        /\ \A q \in Runs \ {r} : caller'[q] = caller[q]
    BY <1>1, <1>5, AnswerEffect
  <2>2. diagnostic' \in [Runs -> DiagnosticStates] /\ diagnostic' = diagnostic
    BY <1>1, <1>5 DEF TypeOK
  <2>3. CASE Insert(r)  BY <1>2, <2>1, <2>2, <2>3, InsertStep
  <2>4. CASE UNCHANGED snapshots
    <3>1. UNCHANGED <<policyVars, validator, snapshots, trace>>  BY <1>2, <2>4
    <3> QED  BY <1>2, <2>1, <2>2, <3>1, CallerFacts, MoveStep
  <2> QED  BY <1>5, <2>3, <2>4
<1> QED  BY <1>3, <1>4, <1>5 DEF Store

(***************************************************************************)
(* The steps of validator-agent.                                           *)
(***************************************************************************)

\* What context-agent keeps depends on verdicts alone.
LEMMA ValidationQuiet ==
  ASSUME IInv, NEW r \in Runs, UNCHANGED callerVars, ~HasVerdict(r),
         HasVerdict(r)' => validator'[r].verdict \in Verdicts,
         \A q \in Runs \ {r} : validator'[q] = validator[q]
  PROVE  Storing' /\ Reporting'
<1>1. caller' = caller /\ snapshots' = snapshots /\ diagnostic' = diagnostic
  BY DEF callerVars
<1>2. \A s \in snapshots : s.run \in Runs \ {r}
  BY DEF IInv, TypeOK, Storing
<1>3. \A q \in Runs : HasVerdict(q) => q # r /\ validator'[q] = validator[q]
  OBVIOUS
<1>4. Storing'
  <2>1. \A q \in Runs : HasVerdict(q)' => validator'[q].verdict \in Verdicts
    BY DEF IInv, Storing, HasVerdict
  <2>2. \A q \in Runs : caller[q].at \in {"storing", "closing"} => HasVerdict(q)'
    BY <1>3 DEF IInv, Storing, HasVerdict
  <2>3. \A s \in snapshots : validator'[s.run] = validator[s.run]
    BY <1>2
  <2> QED  BY <1>1, <2>1, <2>2, <2>3 DEF IInv, Storing, HasVerdict
<1>5. Reporting'
  BY <1>1 DEF IInv, Reporting, ReportsAreTrue, IsStored
<1> QED  BY <1>4, <1>5

\* What a text under review, or its round, can be.
LEMMA ReviewFacts ==
  ASSUME IInv, NEW r \in Runs, Reviewing(r)
  PROVE  /\ generation[r].state = "made" /\ validator[r].text = Current
         /\ validator[r].text \in Texts /\ validator[r].round \in 1 .. MaxRounds
         /\ Len(policy) \in Nat /\ Len(policy) <= validator[r].round
         /\ revision[r].state # "asked" /\ ~HasVerdict(r)
<1>1. /\ policy # <<>> /\ Len(policy) \in Nat \ {0}
      /\ validator[r].text \in Texts /\ validator[r].text = Current
  BY JudgedText
<1>2. validator[r].round \in 0 .. MaxRounds  BY FieldTypes DEF IInv
<1>3. Len(policy) <= validator[r].round  BY DEF IInv, Counting
<1>4. generation[r].state = "made" /\ revision[r].state # "asked" /\ ~HasVerdict(r)
  BY DEF IInv, Ownership, Reviewing, HasVerdict
<1> QED  BY <1>1, <1>2, <1>3, <1>4, RoundsAssumption

\* The evaluator accepts, or the vote decides.
LEMMA ConcludeStep ==
  ASSUME IInv, NEW r \in Runs, Accept(r) \/ DecideByVote(r)
  PROVE  IInv'
<1>1. TypeOK  BY DEF IInv
<1>2. PICK verdict \in Verdicts, agreeing \in 0 .. RoleCount :
        Log(r, verdict) /\ Conclude(r, verdict, agreeing)
  <2>1. "accepted" \in Verdicts  BY DEF Verdicts
  <2>2. \A result \in VoteResults :
           result.verdict \in Verdicts /\ result.agreeing \in 0 .. RoleCount
    BY DEF VoteResults
  <2> QED  BY <2>1, <2>2 DEF Accept, DecideByVote
<1>3. /\ Reviewing(r) /\ UNCHANGED callerVars
      /\ generation' = generation /\ revision' = revision /\ policy' = policy
  BY DEF Accept, DecideByVote, policyVars
<1>4. /\ validator' \in [Runs -> ValidatorStates]
      /\ validator'[r].at = "done" /\ validator'[r].verdict = verdict
      /\ validator'[r].round = validator[r].round /\ validator'[r].text = validator[r].text
      /\ \A q \in Runs \ {r} : validator'[q] = validator[q]
  BY <1>1, <1>2, ConcludeEffect
<1>5. /\ trace' \subseteq [run : Runs, round : 1 .. MaxRounds, text : Texts, decision : Verdicts]
      /\ \A e \in trace' :
            \/ e \in trace
            \/ /\ e.run = r /\ e.round = validator[r].round
               /\ e.text = validator[r].text /\ e.decision = verdict
  BY <1>1, <1>2, <1>3, ReviewFacts, LogEffect
<1>6. verdict # "no_verdict"  BY VerdictsAssumption DEF Verdicts
<1>7. TypeOK'  BY <1>1, <1>3, <1>4, <1>5 DEF TypeOK, callerVars
<1>8. Ownership'
  BY <1>3, <1>4, <1>6, ReviewFacts DEF IInv, Ownership, Reviewing, HasVerdict, callerVars
<1>9. Freshness'
  BY <1>3, <1>4, ReviewFacts
  DEF IInv, Freshness, ReviewReadsPolicy, Reviewing, HasVerdict, Current
<1>10. Counting'
  BY <1>3, <1>4 DEF IInv, Counting, RevisionsAreBudgeted, Reviewing
<1>11. Tracing'
  <2> SUFFICES ASSUME NEW e \in trace'
               PROVE  /\ validator'[e.run].at # "idle"
                      /\ e.round <= validator'[e.run].round
                      /\ Reviewing(e.run)' => e.round < validator'[e.run].round
                      /\ e.decision = "accepted" =>
                            HasVerdict(e.run)' /\ e.round = validator'[e.run].round
                      /\ HasVerdict(e.run)' /\ e.round = validator'[e.run].round =>
                            e.text = validator'[e.run].text /\ e.decision = validator'[e.run].verdict
    BY DEF Tracing
  <2>1. e.run \in Runs /\ e.round \in 1 .. MaxRounds  BY <1>5
  <2>2. validator[r].round \in 1 .. MaxRounds /\ ~HasVerdict(r)  BY <1>3, ReviewFacts
  <2>3. CASE e.run # r
    <3>1. validator'[e.run] = validator[e.run] /\ e \in trace  BY <1>4, <1>5, <2>1, <2>3
    <3> QED  BY <3>1 DEF IInv, Tracing, Reviewing, HasVerdict
  <2>4. CASE e.run = r /\ e \in trace
    <3>1. e.round < validator[r].round /\ e.decision # "accepted"
      BY <1>3, <2>2, <2>4 DEF IInv, Tracing
    <3> QED  BY <1>4, <2>1, <2>2, <2>4, <3>1 DEF Reviewing
  <2>5. CASE e.run = r /\ e \notin trace
    <3>1. /\ e.round = validator[r].round /\ e.text = validator[r].text
          /\ e.decision = verdict
      BY <1>5, <2>5
    <3> QED  BY <1>4, <1>6, <2>1, <2>5, <3>1 DEF Reviewing, HasVerdict
  <2> QED  BY <2>3, <2>4, <2>5
<1>12. Storing' /\ Reporting'
  BY <1>2, <1>3, <1>4, ReviewFacts, ValidationQuiet
<1> QED  BY <1>7, <1>8, <1>9, <1>10, <1>11, <1>12 DEF IInv

\* A validation ends without a verdict.
LEMMA AbortStep ==
  ASSUME IInv, NEW r \in Runs, Reviewing(r) \/ validator[r].at = "revising", Abort(r),
         UNCHANGED <<callerVars, policyVars, trace>>
  PROVE  IInv'
<1>1. TypeOK  BY DEF IInv
<1>2. /\ UNCHANGED callerVars /\ trace' = trace
      /\ generation' = generation /\ revision' = revision /\ policy' = policy
  BY DEF policyVars
<1>3. /\ validator' \in [Runs -> ValidatorStates]
      /\ validator'[r].at = "done" /\ validator'[r].verdict = "no_verdict"
      /\ validator'[r].round = validator[r].round /\ validator'[r].text = validator[r].text
      /\ \A q \in Runs \ {r} : validator'[q] = validator[q]
  BY <1>1, AbortEffect
<1>4. validator[r].at # "idle" /\ ~HasVerdict(r)  BY DEF Reviewing, HasVerdict
<1>5. TypeOK'  BY <1>1, <1>2, <1>3 DEF TypeOK, callerVars
<1>6. Ownership'
  BY <1>2, <1>3, <1>4 DEF IInv, Ownership, HasVerdict, callerVars
<1>7. Freshness'
  BY <1>2, <1>3, <1>4 DEF IInv, Freshness, ReviewReadsPolicy, Reviewing, HasVerdict, Current
<1>8. Counting'
  BY <1>2, <1>3 DEF IInv, Counting, RevisionsAreBudgeted, Reviewing
<1>9. Tracing'
  <2>1. \A e \in trace : e.run \in Runs  BY <1>1 DEF TypeOK
  <2>2. \A e \in trace : e.run = r => e.decision # "accepted"
    BY <1>4 DEF IInv, Tracing
  <2> QED  BY <1>2, <1>3, <1>4, <2>1, <2>2 DEF IInv, Tracing, Reviewing, HasVerdict
<1>10. Storing' /\ Reporting'
  BY <1>2, <1>3, <1>4, ValidationQuiet DEF HasVerdict
<1> QED  BY <1>5, <1>6, <1>7, <1>8, <1>9, <1>10 DEF IInv

\* A log of a round that does not end the validation, seen after the step:
\* what remains of Tracing once the validator has gone on.
LEMMA LoggedRound ==
  ASSUME IInv, NEW r \in Runs, Reviewing(r),
         NEW decision \in Verdicts \ {"accepted"}, Log(r, decision),
         ~HasVerdict(r)', validator'[r].at # "idle",
         validator'[r].round \in 1 .. MaxRounds, validator[r].round <= validator'[r].round,
         Reviewing(r)' => validator[r].round < validator'[r].round,
         \A q \in Runs \ {r} : validator'[q] = validator[q]
  PROVE  /\ trace' \subseteq [run : Runs, round : 1 .. MaxRounds, text : Texts, decision : Verdicts]
         /\ Tracing'
<1>1. validator[r].round \in 1 .. MaxRounds /\ validator[r].text \in Texts /\ ~HasVerdict(r)
  BY ReviewFacts
<1>2. /\ trace' \subseteq [run : Runs, round : 1 .. MaxRounds, text : Texts, decision : Verdicts]
      /\ \A e \in trace' :
            \/ e \in trace
            \/ e.run = r /\ e.round = validator[r].round /\ e.decision = decision
  BY <1>1, LogEffect DEF IInv
<1>3. SUFFICES ASSUME NEW e \in trace'
               PROVE  /\ validator'[e.run].at # "idle"
                      /\ e.round <= validator'[e.run].round
                      /\ Reviewing(e.run)' => e.round < validator'[e.run].round
                      /\ e.decision = "accepted" =>
                            HasVerdict(e.run)' /\ e.round = validator'[e.run].round
                      /\ HasVerdict(e.run)' /\ e.round = validator'[e.run].round =>
                            e.text = validator'[e.run].text /\ e.decision = validator'[e.run].verdict
  BY <1>2 DEF Tracing
<1>4. e.run \in Runs /\ e.round \in 1 .. MaxRounds  BY <1>2
<1>5. CASE e.run # r
  <2>1. validator'[e.run] = validator[e.run] /\ e \in trace  BY <1>2, <1>4, <1>5
  <2> QED  BY <2>1 DEF IInv, Tracing, Reviewing, HasVerdict
<1>6. CASE e.run = r
  <2>1. e.round <= validator[r].round /\ e.decision # "accepted"
    <3>1. CASE e \in trace  BY <1>1, <1>6, <3>1 DEF IInv, Tracing
    <3>2. CASE e \notin trace  BY <1>1, <1>2, <1>6, <3>2
    <3> QED  BY <3>1, <3>2
  <2> QED  BY <1>1, <1>4, <1>6, <2>1
<1> QED  BY <1>5, <1>6

\* A round ends by asking policy-agent for a revision.
LEMMA AskRevisionStep ==
  ASSUME IInv, NEW r \in Runs, AskRevision(r)
  PROVE  IInv'
<1>1. TypeOK  BY DEF IInv
<1>2. PICK decision \in {"review", "rejected"} : Log(r, decision)
  BY DEF AskRevision
<1>3. /\ Reviewing(r) /\ validator[r].round # MaxRounds /\ UNCHANGED callerVars
      /\ generation' = generation /\ policy' = policy
  BY DEF AskRevision, LastRound
<1>4. /\ validator' \in [Runs -> ValidatorStates]
      /\ validator'[r].at = "revising" /\ validator'[r].round = validator[r].round
      /\ validator'[r].text = validator[r].text
      /\ \A q \in Runs \ {r} : validator'[q] = validator[q]
  <2> DEFINE new == [validator[r] EXCEPT !.at = "revising"]
  <2>1. /\ new \in ValidatorStates /\ new.at = "revising" /\ new.round = validator[r].round
        /\ new.text = validator[r].text
    BY <1>1, FieldTypes DEF ValidatorStates
  <2>2. validator' = [validator EXCEPT ![r] = new]  BY DEF AskRevision
  <2>3. validator \in [Runs -> ValidatorStates]  BY <1>1 DEF TypeOK
  <2> HIDE DEF new
  <2> QED  BY <2>1, <2>2, <2>3, Written
<1>5. /\ revision' \in [Runs -> Handling] /\ revision'[r].state = "asked"
      /\ \A q \in Runs \ {r} : revision'[q] = revision[q]
  <2> DEFINE new == [state |-> "asked", text |-> validator[r].text]
  <2>1. new \in Handling /\ new.state = "asked"  BY <1>1, FieldTypes DEF Handling
  <2>2. revision' = [revision EXCEPT ![r] = new]  BY DEF AskRevision
  <2>3. revision \in [Runs -> Handling]  BY <1>1 DEF TypeOK
  <2> HIDE DEF new
  <2> QED  BY <2>1, <2>2, <2>3, Written
<1>6. /\ generation[r].state = "made" /\ validator[r].round \in 1 .. MaxRounds
      /\ Len(policy) \in Nat /\ Len(policy) <= validator[r].round /\ ~HasVerdict(r)
  BY <1>3, ReviewFacts
<1>7. decision \in Verdicts \ {"accepted"}  BY DEF Verdicts
<1>8. /\ trace' \subseteq [run : Runs, round : 1 .. MaxRounds, text : Texts, decision : Verdicts]
      /\ Tracing'
  BY <1>2, <1>3, <1>4, <1>6, <1>7, LoggedRound DEF Reviewing, HasVerdict
<1>9. TypeOK'  BY <1>1, <1>3, <1>4, <1>5, <1>8 DEF TypeOK, callerVars
<1>10. Ownership'
  BY <1>3, <1>4, <1>5, <1>6 DEF IInv, Ownership, Reviewing, HasVerdict, callerVars
<1>11. Freshness'
  BY <1>3, <1>4, <1>5 DEF IInv, Freshness, ReviewReadsPolicy, Reviewing, HasVerdict, Current
<1>12. Counting'
  BY <1>3, <1>4, <1>5, <1>6, RoundsAssumption DEF IInv, Counting, RevisionsAreBudgeted, Reviewing
<1>13. Storing' /\ Reporting'
  BY <1>3, <1>4, <1>6, ValidationQuiet DEF HasVerdict
<1> QED  BY <1>8, <1>9, <1>10, <1>11, <1>12, <1>13 DEF IInv

\* A round ends with a status that asks for nothing.
LEMMA AskNothingStep ==
  ASSUME IInv, NEW r \in Runs, AskNothing(r)
  PROVE  IInv'
<1>1. TypeOK  BY DEF IInv
<1>2. PICK decision \in OtherVerdicts : Log(r, decision)
  BY DEF AskNothing
<1>3. /\ Reviewing(r) /\ validator[r].round # MaxRounds /\ UNCHANGED callerVars
      /\ generation' = generation /\ revision' = revision /\ policy' = policy
  BY DEF AskNothing, LastRound, policyVars
<1>4. /\ generation[r].state = "made" /\ validator[r].round \in 1 .. MaxRounds
      /\ Len(policy) \in Nat /\ Len(policy) <= validator[r].round /\ ~HasVerdict(r)
      /\ validator[r].text = Current /\ revision[r].state # "asked"
  BY <1>3, ReviewFacts
<1>5. validator[r].round + 1 \in 1 .. MaxRounds  BY <1>3, <1>4, RoundsAssumption
<1>6. /\ validator' \in [Runs -> ValidatorStates]
      /\ validator'[r].at = validator[r].at /\ validator'[r].round = validator[r].round + 1
      /\ validator'[r].text = validator[r].text
      /\ \A q \in Runs \ {r} : validator'[q] = validator[q]
  <2> DEFINE new == [validator[r] EXCEPT !.round = validator[r].round + 1]
  <2>1. /\ new \in ValidatorStates /\ new.at = validator[r].at
        /\ new.round = validator[r].round + 1 /\ new.text = validator[r].text
    BY <1>1, <1>5, FieldTypes DEF ValidatorStates
  <2>2. validator' = [validator EXCEPT ![r] = new]  BY DEF AskNothing
  <2>3. validator \in [Runs -> ValidatorStates]  BY <1>1 DEF TypeOK
  <2> HIDE DEF new
  <2> QED  BY <2>1, <2>2, <2>3, Written
<1>7. decision \in Verdicts \ {"accepted"}  BY VerdictsAssumption DEF Verdicts
<1>8. /\ trace' \subseteq [run : Runs, round : 1 .. MaxRounds, text : Texts, decision : Verdicts]
      /\ Tracing'
  BY <1>2, <1>3, <1>4, <1>5, <1>6, <1>7, LoggedRound DEF Reviewing, HasVerdict
<1>9. TypeOK'  BY <1>1, <1>3, <1>6, <1>8 DEF TypeOK, callerVars
<1>10. Ownership'
  BY <1>3, <1>4, <1>6 DEF IInv, Ownership, Reviewing, HasVerdict, callerVars
<1>11. Freshness'
  BY <1>3, <1>4, <1>6 DEF IInv, Freshness, ReviewReadsPolicy, Reviewing, HasVerdict, Current
<1>12. Counting'
  BY <1>3, <1>4, <1>6 DEF IInv, Counting, RevisionsAreBudgeted, Reviewing
<1>13. Storing' /\ Reporting'
  BY <1>3, <1>4, <1>6, ValidationQuiet DEF Reviewing, HasVerdict
<1> QED  BY <1>8, <1>9, <1>10, <1>11, <1>12, <1>13 DEF IInv

\* The next round begins with the revised text, or the validation ends.
LEMMA TakeRevisionStep ==
  ASSUME IInv, NEW r \in Runs, TakeRevision(r)
  PROVE  IInv'
<1>1. TypeOK  BY DEF IInv
<1>2. /\ validator[r].at = "revising" /\ UNCHANGED callerVars
      /\ UNCHANGED <<callerVars, policyVars, trace>>
      /\ generation' = generation /\ revision' = revision /\ policy' = policy /\ trace' = trace
  BY DEF TakeRevision, policyVars
<1>3. CASE Abort(r)  BY <1>2, <1>3, AbortStep
<1>4. CASE /\ revision[r].state = "made"
           /\ validator' = [validator EXCEPT ![r].at = "reviewing", ![r].round = @ + 1,
                                             ![r].text = revision[r].text]
  <2>1. /\ validator[r].round \in 0 .. MaxRounds /\ validator[r].round < MaxRounds
        /\ Len(policy) \in Nat /\ Len(policy) <= validator[r].round + 1
        /\ policy # <<>> /\ revision[r].text = Current /\ generation[r].state = "made"
    <3>1. validator[r].round \in 0 .. MaxRounds  BY <1>1, FieldTypes
    <3>2. validator[r].round < MaxRounds /\ Len(policy) <= validator[r].round + 1
      BY <1>2 DEF IInv, Counting
    <3>3. policy # <<>> /\ generation[r].state = "made"  BY <1>2 DEF IInv, Ownership
    <3>4. revision[r].text = Current  BY <1>2, <1>4 DEF IInv, Freshness
    <3>5. Len(policy) \in Nat  BY <1>1 DEF TypeOK
    <3> QED  BY <3>1, <3>2, <3>3, <3>4, <3>5
  <2>2. validator[r].round + 1 \in 0 .. MaxRounds  BY <2>1, RoundsAssumption
  <2>3. /\ validator' \in [Runs -> ValidatorStates]
        /\ validator'[r].at = "reviewing" /\ validator'[r].round = validator[r].round + 1
        /\ validator'[r].text = revision[r].text
        /\ \A q \in Runs \ {r} : validator'[q] = validator[q]
    <3> DEFINE new == [validator[r] EXCEPT !.at = "reviewing", !.round = validator[r].round + 1,
                                           !.text = revision[r].text]
    <3>1. /\ new \in ValidatorStates /\ new.at = "reviewing"
          /\ new.round = validator[r].round + 1 /\ new.text = revision[r].text
      BY <1>1, <2>2, FieldTypes DEF ValidatorStates
    <3>2. validator' = [validator EXCEPT ![r] = new]  BY <1>4
    <3>3. validator \in [Runs -> ValidatorStates]  BY <1>1 DEF TypeOK
    <3> HIDE DEF new
    <3> QED  BY <3>1, <3>2, <3>3, Written
  <2>4. ~HasVerdict(r)  BY <1>2 DEF HasVerdict
  <2>5. TypeOK'  BY <1>1, <1>2, <2>3 DEF TypeOK, callerVars
  <2>6. Ownership'
    BY <1>2, <1>4, <2>1, <2>3 DEF IInv, Ownership, HasVerdict, callerVars
  <2>7. Freshness'
    BY <1>2, <2>1, <2>3 DEF IInv, Freshness, ReviewReadsPolicy, Reviewing, HasVerdict, Current
  <2>8. Counting'
    BY <1>2, <1>4, <2>1, <2>3 DEF IInv, Counting, RevisionsAreBudgeted, Reviewing
  <2>9. Tracing'
    <3> SUFFICES ASSUME NEW e \in trace
                 PROVE  /\ validator'[e.run].at # "idle"
                        /\ e.round <= validator'[e.run].round
                        /\ Reviewing(e.run)' => e.round < validator'[e.run].round
                        /\ e.decision = "accepted" =>
                              HasVerdict(e.run)' /\ e.round = validator'[e.run].round
                        /\ HasVerdict(e.run)' /\ e.round = validator'[e.run].round =>
                              e.text = validator'[e.run].text /\ e.decision = validator'[e.run].verdict
      BY <1>2 DEF Tracing
    <3>1. e.run \in Runs /\ e.round \in 1 .. MaxRounds  BY <1>1 DEF TypeOK
    <3>2. CASE e.run = r
      <4>1. e.round <= validator[r].round /\ e.decision # "accepted"
        BY <2>4, <3>2 DEF IInv, Tracing
      <4> QED  BY <2>1, <2>3, <3>1, <3>2, <4>1 DEF HasVerdict
    <3>3. CASE e.run # r
      <4>1. validator'[e.run] = validator[e.run]  BY <2>3, <3>1, <3>3
      <4> QED  BY <4>1 DEF IInv, Tracing, Reviewing, HasVerdict
    <3> QED  BY <3>2, <3>3
  <2>10. Storing' /\ Reporting'
    BY <1>2, <2>3, <2>4, ValidationQuiet DEF HasVerdict
  <2> QED  BY <2>5, <2>6, <2>7, <2>8, <2>9, <2>10 DEF IInv
<1> QED  BY <1>3, <1>4 DEF TakeRevision

(***************************************************************************)
(* The steps of policy-agent.                                              *)
(***************************************************************************)

\* What the other services keep does not depend on policy-agent's state.
LEMMA PolicyQuiet ==
  ASSUME IInv, UNCHANGED <<caller, validator, snapshots, trace, diagnostic>>
  PROVE  Storing' /\ Reporting' /\ Tracing'
<1>1. /\ caller' = caller /\ validator' = validator /\ snapshots' = snapshots
      /\ trace' = trace /\ diagnostic' = diagnostic
  OBVIOUS
<1>2. Storing'  BY <1>1 DEF IInv, Storing, HasVerdict
<1>3. Reporting'  BY <1>1 DEF IInv, Reporting, ReportsAreTrue, IsStored
<1>4. Tracing'  BY <1>1 DEF IInv, Tracing, Reviewing, HasVerdict
<1> QED  BY <1>2, <1>3, <1>4

\* A policy is created where there is none, or its creation fails.
LEMMA ServeGenerationStep ==
  ASSUME IInv, NEW r \in Runs, ServeGeneration(r)
  PROVE  IInv'
<1>1. TypeOK  BY DEF IInv
<1>2. /\ generation[r].state = "asked" /\ revision' = revision
      /\ UNCHANGED <<caller, validator, snapshots, trace, diagnostic>>
  BY DEF ServeGeneration
<1>3. /\ caller[r].at \notin {"idle", "asking"} /\ validator[r].at = "idle"
      /\ revision[r].state = "none"
  BY <1>2 DEF IInv, Ownership
<1>4. Storing' /\ Reporting' /\ Tracing'  BY <1>2, PolicyQuiet
<1>5. CASE /\ generation' = [generation EXCEPT ![r].state = "refused"]
           /\ policy' = policy
  <2>1. /\ generation' \in [Runs -> Handling] /\ generation'[r].state = "refused"
        /\ \A q \in Runs \ {r} : generation'[q] = generation[q]
    <3> DEFINE new == [generation[r] EXCEPT !.state = "refused"]
    <3>1. new \in Handling /\ new.state = "refused"  BY <1>1, FieldTypes DEF Handling
    <3>2. generation' = [generation EXCEPT ![r] = new]  BY <1>5
    <3>3. generation \in [Runs -> Handling]  BY <1>1 DEF TypeOK
    <3> HIDE DEF new
    <3> QED  BY <3>1, <3>2, <3>3, Written
  <2>2. \A q \in Runs : generation'[q].state = "made" =>
                           q # r /\ generation'[q] = generation[q]
    BY <2>1
  <2>3. TypeOK'  BY <1>1, <1>2, <1>5, <2>1 DEF TypeOK
  <2>4. Ownership'
    BY <1>2, <1>3, <1>5, <2>1, <2>2 DEF IInv, Ownership, HasVerdict
  <2>5. Freshness'
    BY <1>2, <1>5, <2>2 DEF IInv, Freshness, ReviewReadsPolicy, Reviewing, HasVerdict, Current
  <2>6. Counting'
    BY <1>2, <1>5, <2>2 DEF IInv, Counting, RevisionsAreBudgeted, Reviewing
  <2> QED  BY <1>4, <2>3, <2>4, <2>5, <2>6 DEF IInv
<1>6. ASSUME policy = <<>>, NEW text \in Texts, NEW state \in {"made", "refused"},
             policy' = <<text>>,
             generation' = [generation EXCEPT ![r] = [state |-> state, text |-> text]]
      PROVE  IInv'
  <2>1. /\ generation' \in [Runs -> Handling] /\ generation'[r].state = state
        /\ generation'[r].text = text
        /\ \A q \in Runs \ {r} : generation'[q] = generation[q]
    <3> DEFINE new == [state |-> state, text |-> text]
    <3>1. new \in Handling /\ new.state = state /\ new.text = text  BY DEF Handling
    <3>2. generation' = [generation EXCEPT ![r] = new]  BY <1>6
    <3>3. generation \in [Runs -> Handling]  BY <1>1 DEF TypeOK
    <3> HIDE DEF new
    <3> QED  BY <3>1, <3>2, <3>3, Written
  <2>2. \A q \in Runs : generation[q].state # "made" /\ validator[q].at = "idle"
    BY <1>6 DEF IInv, Ownership
  <2>3. \A q \in Runs : revision[q].state = "none"  BY <2>2 DEF IInv, Ownership
  <2>4. \A q \in Runs : ~HasVerdict(q) /\ ~Reviewing(q) /\ validator[q].at # "revising"
    BY <2>2 DEF HasVerdict, Reviewing
  <2>5. policy' \in Seq(Texts) /\ policy' # <<>> /\ Len(policy') = 1 /\ Current' = text
    BY <1>6 DEF Current
  <2>6. TypeOK'  BY <1>1, <1>2, <2>1, <2>5 DEF TypeOK
  <2>7. Ownership'
    <3>1. \A q \in Runs : generation'[q].state = "made" => q = r  BY <2>1, <2>2
    <3>2. \A q \in Runs : caller[q].at \in {"idle", "asking"} => generation'[q].state = "none"
      BY <1>3, <2>1 DEF IInv, Ownership
    <3> QED  BY <1>2, <2>2, <2>3, <2>5, <3>1, <3>2 DEF IInv, Ownership, HasVerdict
  <2>8. Freshness'
    BY <1>2, <2>1, <2>2, <2>4, <2>5 DEF Freshness, ReviewReadsPolicy, Reviewing, HasVerdict
  <2>9. Counting'
    BY <1>2, <2>3, <2>4, <2>5, RoundsAssumption DEF Counting, RevisionsAreBudgeted, Reviewing
  <2> QED  BY <1>4, <2>6, <2>7, <2>8, <2>9 DEF IInv
<1> QED  BY <1>5, <1>6 DEF ServeGeneration

\* A revision lands while its validation waits for it, or has given up.
LEMMA ServeRevisionStep ==
  ASSUME IInv, NEW r \in Runs, ServeRevision(r)
  PROVE  IInv'
<1>1. TypeOK  BY DEF IInv
<1>2. /\ revision[r].state = "asked" /\ generation' = generation
      /\ UNCHANGED <<caller, validator, snapshots, trace, diagnostic>>
  BY DEF ServeRevision
<1>3. /\ validator[r].at \in {"revising", "done"} /\ ~HasVerdict(r)
      /\ generation[r].state = "made" /\ policy # <<>>
  BY <1>2 DEF IInv, Ownership
<1>4. Storing' /\ Reporting' /\ Tracing'  BY <1>2, PolicyQuiet
<1>5. CASE /\ revision' = [revision EXCEPT ![r].state = "refused"]
           /\ policy' = policy
  <2>1. /\ revision' \in [Runs -> Handling] /\ revision'[r].state = "refused"
        /\ \A q \in Runs \ {r} : revision'[q] = revision[q]
    <3> DEFINE new == [revision[r] EXCEPT !.state = "refused"]
    <3>1. new \in Handling /\ new.state = "refused"  BY <1>1, FieldTypes DEF Handling
    <3>2. revision' = [revision EXCEPT ![r] = new]  BY <1>5
    <3>3. revision \in [Runs -> Handling]  BY <1>1 DEF TypeOK
    <3> HIDE DEF new
    <3> QED  BY <3>1, <3>2, <3>3, Written
  <2>2. \A q \in Runs : revision'[q].state \in {"made", "asked"} =>
                           q # r /\ revision'[q] = revision[q]
    BY <2>1
  <2>3. TypeOK'  BY <1>1, <1>2, <1>5, <2>1 DEF TypeOK
  <2>4. Ownership'
    BY <1>2, <1>3, <1>5, <2>1, <2>2 DEF IInv, Ownership, HasVerdict
  <2>5. Freshness'
    BY <1>2, <1>5, <2>2 DEF IInv, Freshness, ReviewReadsPolicy, Reviewing, HasVerdict, Current
  <2>6. Counting'
    BY <1>2, <1>5, <2>2 DEF IInv, Counting, RevisionsAreBudgeted, Reviewing
  <2> QED  BY <1>4, <2>3, <2>4, <2>5, <2>6 DEF IInv
<1>6. ASSUME NEW text \in Texts, NEW state \in {"made", "refused"},
             policy' = Append(policy, text),
             revision' = [revision EXCEPT ![r] = [state |-> state, text |-> text]]
      PROVE  IInv'
  <2>1. /\ revision' \in [Runs -> Handling] /\ revision'[r].state = state
        /\ revision'[r].text = text
        /\ \A q \in Runs \ {r} : revision'[q] = revision[q]
    <3> DEFINE new == [state |-> state, text |-> text]
    <3>1. new \in Handling /\ new.state = state /\ new.text = text  BY DEF Handling
    <3>2. revision' = [revision EXCEPT ![r] = new]  BY <1>6
    <3>3. revision \in [Runs -> Handling]  BY <1>1 DEF TypeOK
    <3> HIDE DEF new
    <3> QED  BY <3>1, <3>2, <3>3, Written
  <2>2. \A q \in Runs \ {r} : /\ generation[q].state # "made" /\ validator[q].at = "idle"
                              /\ revision[q].state = "none"
    BY <1>3 DEF IInv, Ownership
  <2>3. /\ Len(policy) \in Nat /\ Len(policy) < MaxRounds
        /\ Len(policy) <= validator[r].round /\ validator[r].round \in 0 .. MaxRounds
    BY <1>1, <1>2, FieldTypes DEF IInv, Counting, TypeOK
  <2>4. /\ policy' \in Seq(Texts) /\ policy' # <<>>
        /\ Len(policy') = Len(policy) + 1 /\ Current' = text
    <3>1. policy \in Seq(Texts)  BY <1>1 DEF TypeOK
    <3> QED  BY <1>6, <3>1, AppendProperties DEF Current
  <2>5. \A q \in Runs : ~HasVerdict(q) /\ ~Reviewing(q)
    BY <1>3, <2>2 DEF HasVerdict, Reviewing
  <2>6. TypeOK'  BY <1>1, <1>2, <2>1, <2>4 DEF TypeOK
  <2>7. Ownership'
    <3>1. \A q \in Runs : revision'[q].state = "asked" => q # r /\ revision[q].state = "asked"
      BY <2>1
    <3> QED  BY <1>2, <1>3, <2>1, <2>4, <3>1 DEF IInv, Ownership, HasVerdict
  <2>8. Freshness'
    BY <1>2, <1>3, <2>1, <2>2, <2>4, <2>5
    DEF Freshness, ReviewReadsPolicy, Reviewing, HasVerdict
  <2>9. Counting'
    <3>1. \A q \in Runs : revision'[q].state # "asked"  BY <2>1, <2>2
    <3>2. \A q \in Runs : validator[q].at = "revising" =>
                             validator[q].round < MaxRounds /\ q = r
      BY <2>2 DEF IInv, Counting
    <3> QED
      BY <1>2, <1>3, <2>2, <2>3, <2>4, <2>5, <3>1, <3>2, RoundsAssumption
      DEF Counting, RevisionsAreBudgeted, Reviewing
  <2> QED  BY <1>4, <2>6, <2>7, <2>8, <2>9 DEF IInv
<1> QED  BY <1>5, <1>6 DEF ServeRevision

(***************************************************************************)
(* The invariant and what follows from it.                                 *)
(***************************************************************************)

\* The inductive invariant holds initially.
LEMMA InitIInv == Init => IInv
<1> SUFFICES ASSUME Init PROVE IInv
  OBVIOUS
<1>1. TypeOK
  <2>1. [at |-> "idle", answer |-> "none"] \in CallerStates  BY DEF CallerStates
  <2>2. Quiet \in Handling  BY DEF Quiet, Handling
  <2>3. [at |-> "idle", round |-> 0, text |-> None, verdict |-> "none", agreeing |-> 0]
           \in ValidatorStates
    <3>1. 0 \in 0 .. MaxRounds /\ 0 \in 0 .. RoleCount  BY RoundsAssumption, RolesAssumption
    <3> QED  BY <3>1 DEF ValidatorStates, Outcomes
  <2>4. [status |-> "none", closed |-> FALSE] \in DiagnosticStates  BY DEF DiagnosticStates
  <2>5. policy \in Seq(Texts)  BY DEF Init
  <2>6. /\ caller \in [Runs -> CallerStates] /\ diagnostic \in [Runs -> DiagnosticStates]
    BY <2>1, <2>4 DEF Init
  <2>7. validator \in [Runs -> ValidatorStates]  BY <2>3 DEF Init
  <2>8. generation \in [Runs -> Handling] /\ revision \in [Runs -> Handling]
    BY <2>2 DEF Init
  <2> QED  BY <2>5, <2>6, <2>7, <2>8 DEF TypeOK, Init
<1>2. \A r \in Runs : /\ caller[r].at = "idle" /\ caller[r].answer = "none"
                      /\ generation[r].state = "none" /\ revision[r].state = "none"
                      /\ validator[r].at = "idle" /\ diagnostic[r].status = "none"
  BY DEF Init, Quiet
<1>3. policy = <<>> /\ snapshots = {} /\ trace = {}  BY DEF Init
<1>4. Ownership  BY <1>2 DEF Ownership
<1>5. Freshness  BY <1>2 DEF Freshness, ReviewReadsPolicy, Reviewing, HasVerdict
<1>6. Storing  BY <1>2, <1>3 DEF Storing, HasVerdict
<1>7. Reporting  BY <1>2, <1>3 DEF Reporting, ReportsAreTrue, IsStored
<1>8. Counting
  BY <1>2, <1>3, RoundsAssumption DEF Counting, RevisionsAreBudgeted, Reviewing
<1>9. Tracing  BY <1>3 DEF Tracing
<1> QED  BY <1>1, <1>4, <1>5, <1>6, <1>7, <1>8, <1>9 DEF IInv

\* Every step keeps the inductive invariant.
LEMMA NextIInv == IInv /\ [Next]_vars => IInv'
<1> SUFFICES ASSUME IInv, [Next]_vars PROVE IInv'
  OBVIOUS
<1>1. CASE UNCHANGED vars
  <2>1. /\ caller' = caller /\ generation' = generation /\ validator' = validator
        /\ revision' = revision /\ policy' = policy /\ snapshots' = snapshots
        /\ trace' = trace /\ diagnostic' = diagnostic
    BY <1>1 DEF vars
  <2>2. TypeOK'  BY <2>1 DEF IInv, TypeOK
  <2>3. Ownership'  BY <2>1 DEF IInv, Ownership, HasVerdict
  <2>4. Freshness'
    BY <2>1 DEF IInv, Freshness, ReviewReadsPolicy, Reviewing, HasVerdict, Current
  <2>5. Counting'  BY <2>1 DEF IInv, Counting, RevisionsAreBudgeted, Reviewing
  <2>6. Storing' /\ Reporting' /\ Tracing'  BY <2>1, PolicyQuiet
  <2> QED  BY <2>2, <2>3, <2>4, <2>5, <2>6 DEF IInv
<1>2. ASSUME NEW r \in Runs, Start(r)  PROVE IInv'  BY <1>2, StartStep
<1>3. ASSUME NEW r \in Runs, CallerStep(r)  PROVE IInv'
  BY <1>3, AskPolicyStep, TakePolicyStep, CallOverStep, StoreStep, AnswerStep DEF CallerStep
<1>4. ASSUME NEW r \in Runs, ValidatorStep(r)  PROVE IInv'
  <2>1. CASE Accept(r) \/ DecideByVote(r)  BY <2>1, ConcludeStep
  <2>2. CASE AskRevision(r)  BY <2>2, AskRevisionStep
  <2>3. CASE AskNothing(r)  BY <2>3, AskNothingStep
  <2>4. CASE Break(r)  BY <2>4, AbortStep DEF Break
  <2>5. CASE TakeRevision(r)  BY <2>5, TakeRevisionStep
  <2>6. CASE GiveUpRevision(r)  BY <2>6, AbortStep DEF GiveUpRevision
  <2> QED  BY <1>4, <2>1, <2>2, <2>3, <2>4, <2>5, <2>6 DEF ValidatorStep
<1>5. ASSUME NEW r \in Runs, ServeGeneration(r)  PROVE IInv'  BY <1>5, ServeGenerationStep
<1>6. ASSUME NEW r \in Runs, ServeRevision(r)  PROVE IInv'  BY <1>6, ServeRevisionStep
<1>7. ASSUME NEW r \in Runs, Lose(r)  PROVE IInv'  BY <1>7, LoseStep
<1> QED  BY <1>1, <1>2, <1>3, <1>4, <1>5, <1>6, <1>7 DEF Next

\* The inductive invariant holds of every behaviour.
THEOREM Invariance == Spec => []IInv
<1>1. Init => IInv  BY InitIInv
<1>2. IInv /\ [Next]_vars => IInv'  BY NextIInv
<1> QED  BY <1>1, <1>2, PTL DEF Spec

\* The three services keep what TypeOK says.
THEOREM TypeCorrect == Spec => []TypeOK
<1>1. IInv => TypeOK  BY DEF IInv
<1> QED  BY <1>1, Invariance, PTL

\* The text under review is the current policy of policy-agent.
THEOREM ReviewsAreCurrent == Spec => []ReviewReadsPolicy
<1>1. IInv => ReviewReadsPolicy  BY DEF IInv, Freshness
<1> QED  BY <1>1, Invariance, PTL

\* The snapshot is the policy, for good: no late revision lands after it.
THEOREM SnapshotsArePolicies == Spec => []SnapshotIsPolicy
<1>1. IInv => SnapshotIsPolicy
  <2> SUFFICES ASSUME IInv, NEW s \in snapshots
               PROVE  policy # <<>> /\ s.text = Current
    BY DEF SnapshotIsPolicy
  <2>1. s.run \in Runs  BY DEF IInv, TypeOK
  <2>2. HasVerdict(s.run) /\ s.text = validator[s.run].text  BY DEF IInv, Storing
  <2> QED  BY <2>1, <2>2, JudgedText
<1> QED  BY <1>1, Invariance, PTL

\* One snapshot at most, however many runs there are.
THEOREM SnapshotIsUnique == Spec => []OneSnapshot
<1>1. IInv => OneSnapshot
  <2> SUFFICES ASSUME IInv, NEW s \in snapshots, NEW t \in snapshots
               PROVE  s = t
    BY DEF OneSnapshot
  <2>1. /\ s \in [run : Runs, text : Texts, status : Verdicts]
        /\ t \in [run : Runs, text : Texts, status : Verdicts]
    BY DEF IInv, TypeOK
  <2>2. generation[s.run].state = "made" /\ generation[t.run].state = "made"
    BY <2>1 DEF IInv, Storing, Ownership, HasVerdict
  <2>3. s.run = t.run  BY <2>1, <2>2 DEF IInv, Ownership
  <2>4. s.text = t.text /\ s.status = t.status  BY <2>3 DEF IInv, Storing
  <2> QED  BY <2>1, <2>3, <2>4
<1> QED  BY <1>1, Invariance, PTL

\* A run's answer and its diagnostic tell whether its snapshot is stored.
THEOREM Truthfulness == Spec => []ReportsAreTrue
<1>1. IInv => ReportsAreTrue  BY DEF IInv, Reporting
<1> QED  BY <1>1, Invariance, PTL

\* What is logged of a validation explains the snapshot it led to.
THEOREM Traceability == Spec => []TraceExplainsSnapshot
<1>1. IInv => TraceExplainsSnapshot
  <2> SUFFICES ASSUME IInv, NEW s \in snapshots, NEW e \in trace, e.run = s.run
               PROVE  /\ e.round <= validator[s.run].round
                      /\ IF e.round = validator[s.run].round
                           THEN e.text = s.text /\ e.decision = s.status
                           ELSE e.decision # "accepted"
    BY DEF TraceExplainsSnapshot
  <2>1. /\ HasVerdict(s.run) /\ s.text = validator[s.run].text
        /\ s.status = validator[s.run].verdict
    BY DEF IInv, Storing
  <2> QED  BY <2>1 DEF IInv, Tracing
<1> QED  BY <1>1, Invariance, PTL

\* A policy has no more revisions than a validation has rounds.
THEOREM BoundedRevisions == Spec => []RevisionsAreBudgeted
<1>1. IInv => RevisionsAreBudgeted  BY DEF IInv, Counting
<1> QED  BY <1>1, Invariance, PTL
=============================================================================
