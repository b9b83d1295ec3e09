-------------------------- MODULE PolicyInput_proofs --------------------------
(***************************************************************************)
(* What holds of the policy input for every number of requests and runs,   *)
(* every patch, and whatever becomes of the rest of the context.           *)
(***************************************************************************)
EXTENDS PolicyInput, WellFoundedInduction, SequenceTheorems, TLAPS

-----------------------------------------------------------------------------
(* Provenance: the origin of an answer exists and is what it should be.    *)

(* A set of naturals that is not empty has a least element. *)
LEMMA LeastOf ==
  ASSUME NEW S, S \subseteq Nat, S # {}
  PROVE  \E n \in S : \A m \in S : ~(m < n)
<1>1. \E n \in S : \A m \in S : <<m, n>> \notin OpToRel(<, Nat)
  BY WFMin, NatLessThanWellFounded, Zenon
<1>2. \A n \in S, m \in S : m < n => <<m, n>> \in OpToRel(<, Nat)
  BY Zenon DEF OpToRel
<1> QED  BY <1>1, <1>2, Zenon

(* Some revision is the last that changed a field the last revision        *)
(* answers, and that answer has stood since.                               *)
LEMMA OriginExists ==
  ASSUME NEW revisions, Len(revisions) \in Nat \ {0}, NEW field,
         SaidIn(revisions, Len(revisions), field) # None
  PROVE  \E n \in 1 .. Len(revisions) :
            /\ Changes(revisions, n, field)
            /\ \A m \in n .. Len(revisions) :
                  SaidIn(revisions, m, field) = SaidIn(revisions, Len(revisions), field)
<1> DEFINE last == Len(revisions)
           said(m) == SaidIn(revisions, m, field)
           Since == {n \in 1 .. last : \A m \in n .. last : said(m) = said(last)}
<1>1. last \in Since  OBVIOUS
<1>2. PICK n \in Since : \A m \in Since : ~(m < n)
  <2>1. Since \subseteq Nat  OBVIOUS
  <2> QED  BY <1>1, <2>1, LeastOf
<1>3. \A m \in n .. last : said(m) = said(last)  BY <1>2
<1>4. said(n - 1) # said(n)
  <2>1. CASE n = 1
    BY <2>1, <1>3 DEF SaidIn
  <2>2. CASE n # 1
    <3>1. n - 1 \in 1 .. last /\ n - 1 < n  BY <2>2, <1>2
    <3>2. n - 1 \notin Since  BY <3>1, <1>2
    <3>3. PICK m \in n - 1 .. last : said(m) # said(last)  BY <3>1, <3>2
    <3>4. m = n - 1  BY <3>3, <1>3, <1>2
    <3> QED  BY <3>3, <3>4, <1>3, <1>2
  <2> QED  BY <2>1, <2>2
<1>5. Changes(revisions, n, field)  BY <1>2, <1>3, <1>4 DEF Changes
<1> QED  BY <1>2, <1>3, <1>5

(* Origin is that revision. *)
LEMMA OriginIsLastChange ==
  ASSUME NEW revisions, Len(revisions) \in Nat \ {0}, NEW field,
         SaidIn(revisions, Len(revisions), field) # None
  PROVE  LET origin == Origin(revisions, field) IN
         /\ origin \in 1 .. Len(revisions)
         /\ \A m \in origin .. Len(revisions) :
               SaidIn(revisions, m, field) = SaidIn(revisions, Len(revisions), field)
         /\ SaidIn(revisions, origin - 1, field) # SaidIn(revisions, Len(revisions), field)
<1> DEFINE IsLastChange(n) ==
             /\ Changes(revisions, n, field)
             /\ \A m \in n + 1 .. Len(revisions) : ~Changes(revisions, m, field)
<1>1. PICK n \in 1 .. Len(revisions) :
         /\ Changes(revisions, n, field)
         /\ \A m \in n .. Len(revisions) :
               SaidIn(revisions, m, field) = SaidIn(revisions, Len(revisions), field)
  BY OriginExists
<1>2. \A m \in n + 1 .. Len(revisions) : ~Changes(revisions, m, field)
  <2> TAKE m \in n + 1 .. Len(revisions)
  <2>1. m \in n .. Len(revisions) /\ m - 1 \in n .. Len(revisions)  OBVIOUS
  <2> QED  BY <2>1, <1>1 DEF Changes
<1>3. IsLastChange(n)  BY <1>1, <1>2
<1>4. ASSUME NEW k \in 1 .. Len(revisions), IsLastChange(k)
      PROVE  k = n
  <2>1. ~(k < n)  BY <1>1, <1>4
  <2>2. ~(n < k)  BY <1>2, <1>4
  <2> QED  BY <2>1, <2>2
<1>5. Origin(revisions, field) = CHOOSE k \in 1 .. Len(revisions) : IsLastChange(k)
  BY DEF Origin
<1> HIDE DEF IsLastChange
<1>6. Origin(revisions, field) = n  BY <1>3, <1>4, <1>5
<1> QED  BY <1>1, <1>6 DEF Changes

(* A longer history says the same of the revisions it shares. *)
LEMMA TracedLonger ==
  ASSUME NEW old, NEW new, Len(old) \in Nat, Len(old) <= Len(new), Len(new) \in Nat,
         \A n \in 1 .. Len(old) : new[n] = old[n],
         NEW approval, approval.revision \in 1 .. Len(old), IsTraced(old, approval)
  PROVE  IsTraced(new, approval)
<1> SUFFICES ASSUME NEW field \in AnswerFields,
                    approval.request.answers[field] # None
             PROVE  LET answer == approval.request.answers[field]
                        origin == approval.request.origins[field]
                    IN  /\ origin \in 1 .. approval.revision
                        /\ \A m \in origin .. approval.revision :
                              SaidIn(new, m, field) = answer
                        /\ SaidIn(new, origin - 1, field) # answer
  BY DEF IsTraced
<1>1. approval.request.origins[field] \in 1 .. approval.revision  BY DEF IsTraced
<1>2. \A m \in 0 .. approval.revision : SaidIn(new, m, field) = SaidIn(old, m, field)
  BY DEF SaidIn
<1> QED  BY <1>1, <1>2 DEF IsTraced

-----------------------------------------------------------------------------
(* What the two handlers compute is typed and recorded.                    *)

(* Taking answers in, or back, leaves answers. *)
LEMMA PatchedTyped ==
  ASSUME NEW answers \in Answers, NEW patch \in Patches, IsPatch(patch)
  PROVE  Patched(answers, patch) \in Answers
<1>1. ASSUME NEW field \in DOMAIN patch  PROVE patch[field] \in Answer \cup {None}
  <2>1. patch[field] \in {patch[f] : f \in DOMAIN patch}  OBVIOUS
  <2> QED  BY <2>1, Zenon DEF Answer
<1> QED  BY <1>1 DEF Patched, Answers

(* The request built from a recorded input is typed, and is traced. *)
LEMMA RequestTraced ==
  ASSUME NEW in \in Input, Numbered(in), in.revision >= 1, NEW d \in Docs
  PROVE  LET request == RequestOf(in, d) IN
         /\ request \in Request
         /\ IsTraced(in.revisions, [revision |-> in.revision, request |-> request,
                                    answers |-> in.answers])
<1> DEFINE request == RequestOf(in, d)
<1>1. in.answers \in Answers /\ in.revision \in Nat /\ Len(in.revisions) = in.revision
      /\ in.answers = in.revisions[in.revision].answers
  BY DEF Input, Numbered
<1>2. \A field \in AnswerFields :
         SaidIn(in.revisions, Len(in.revisions), field) = in.answers[field]
  BY <1>1 DEF SaidIn
<1>3. ASSUME NEW field \in AnswerFields, in.answers[field] # None
      PROVE  LET origin == Origin(in.revisions, field) IN
             /\ origin \in 1 .. in.revision
             /\ \A m \in origin .. in.revision :
                   SaidIn(in.revisions, m, field) = in.answers[field]
             /\ SaidIn(in.revisions, origin - 1, field) # in.answers[field]
  <2>1. SaidIn(in.revisions, Len(in.revisions), field) # None  BY <1>2, <1>3
  <2>2. Len(in.revisions) \in Nat \ {0}  BY <1>1
  <2> HIDE DEF request
  <2> QED  BY <1>1, <1>2, <2>1, <2>2, OriginIsLastChange
<1>4. request.origins = [field \in AnswerFields |->
                           IF in.answers[field] # None THEN Origin(in.revisions, field) ELSE 0]
      /\ request.answers = in.answers
      /\ request.plan = d.final.plan /\ request.handoff = HandoffOf(d)
  BY DEF RequestOf, IsAnswered
<1>5. request.origins \in [AnswerFields -> Nat]
  BY <1>3, <1>4, <1>1
<1>6. request \in Request
  <2>1. request = [plan |-> request.plan, handoff |-> request.handoff,
                   answers |-> request.answers, origins |-> request.origins]
    BY DEF RequestOf
  <2>2. request.plan \in {e.final.plan : e \in Docs}
        /\ request.handoff \in {HandoffOf(e) : e \in Docs}
    BY <1>4
  <2> HIDE DEF request
  <2> QED  BY <2>1, <2>2, <1>1, <1>4, <1>5 DEF Request
<1> HIDE DEF request
<1>7. \A field \in AnswerFields : in.answers[field] # None =>
         request.origins[field] = Origin(in.revisions, field)
  BY <1>4
<1>8. IsTraced(in.revisions, [revision |-> in.revision, request |-> request,
                              answers |-> in.answers])
  BY <1>3, <1>4, <1>7 DEF IsTraced
<1> QED  BY <1>6, <1>8 DEF request

(* The answers handler computes a recorded input without an approval. *)
LEMMA AmendedRecorded ==
  ASSUME NEW in \in Input, Recorded(in), in.revision < MaxRevision,
         NEW answers \in Answers
  PROVE  LET next == Amended(in, answers) IN
         /\ next \in Input
         /\ Recorded(next)
         /\ next.revision = in.revision + 1
         /\ next.approval = None
         /\ next.revisions = Append(in.revisions, next.revisions[in.revision + 1])
<1> DEFINE entry == [revision |-> in.revision + 1, answers |-> answers]
           next == Amended(in, answers)
<1>1. /\ in.revision \in Nat /\ in.revisions \in Seq(Entry) /\ in.approvals \in Seq(Approval)
      /\ Len(in.revisions) = in.revision
  BY DEF Input, Recorded, Numbered
<1>2. MaxRevision \in Nat  BY RevisionAssumption
<1>3. entry \in Entry  BY <1>1 DEF Entry
<1>4. /\ next.revision = in.revision + 1 /\ next.answers = answers
      /\ next.revisions = Append(in.revisions, entry)
      /\ next.approvals = in.approvals /\ next.approval = None
  BY DEF Amended
<1>5. next = [revision |-> next.revision, answers |-> next.answers,
              revisions |-> next.revisions, approvals |-> next.approvals,
              approval |-> next.approval]
  BY DEF Amended
<1> HIDE DEF next, entry
<1>6. /\ Append(in.revisions, entry) \in Seq(Entry)
      /\ Len(Append(in.revisions, entry)) = in.revision + 1
      /\ \A n \in 1 .. in.revision : Append(in.revisions, entry)[n] = in.revisions[n]
      /\ Append(in.revisions, entry)[in.revision + 1] = entry
  BY <1>1, <1>3, AppendProperties
<1>7. next \in Input
  <2>1. next.revision \in Nat /\ next.answers \in Answers /\ next.revisions \in Seq(Entry)
        /\ next.approvals \in Seq(Approval) /\ next.approval \in Approval \cup {None}
    BY <1>1, <1>4, <1>6
  <2> QED  BY <2>1, <1>5 DEF Input
<1>8. Numbered(next)
  <2>1. \A n \in 1 .. in.revision + 1 : next.revisions[n].revision = n
    <3> TAKE n \in 1 .. in.revision + 1
    <3>1. CASE n = in.revision + 1  BY <3>1, <1>4, <1>6 DEF entry
    <3>2. CASE n # in.revision + 1
      <4>1. n \in 1 .. in.revision  BY <3>2, <1>1
      <4> QED  BY <4>1, <1>1, <1>4, <1>6 DEF Recorded, Numbered
    <3> QED  BY <3>1, <3>2
  <2> QED  BY <2>1, <1>1, <1>2, <1>4, <1>6 DEF Numbered, entry
<1>9. Traced(next)
  <2> SUFFICES ASSUME NEW n \in 1 .. Len(in.approvals)
               PROVE  /\ in.approvals[n].revision \in 1 .. Len(next.revisions)
                      /\ IsTraced(next.revisions, in.approvals[n])
    BY <1>4 DEF Traced
  <2>1. in.approvals[n].revision \in 1 .. Len(in.revisions)
        /\ IsTraced(in.revisions, in.approvals[n])
    BY DEF Recorded, Traced
  <2>2. next.revisions = Append(in.revisions, entry)  BY <1>4
  <2>3. /\ Len(in.revisions) \in Nat /\ Len(next.revisions) \in Nat
        /\ Len(in.revisions) <= Len(next.revisions)
        /\ \A m \in 1 .. Len(in.revisions) : next.revisions[m] = in.revisions[m]
    BY <1>1, <1>6, <2>2
  <2>4. IsTraced(next.revisions, in.approvals[n])  BY <2>1, <2>3, TracedLonger
  <2> QED  BY <2>1, <2>3, <2>4
<1>10. Decided(next)  BY <1>4 DEF Decided
<1> QED  BY <1>4, <1>6, <1>7, <1>8, <1>9, <1>10 DEF Recorded, next

(* The approval handler computes a recorded input whose approval is new. *)
LEMMA ApprovedRecorded ==
  ASSUME NEW in \in Input, Recorded(in), in.revision >= 1, NEW d \in Docs
  PROVE  LET next == Approved(in, d) IN
         /\ next \in Input
         /\ Recorded(next)
         /\ next.revision = in.revision
         /\ next.approval # None
         /\ next.revisions = in.revisions
<1> DEFINE approval == [revision |-> in.revision, request |-> RequestOf(in, d),
                        answers |-> in.revisions[Len(in.revisions)].answers]
           next == Approved(in, d)
<1>1. /\ in.revision \in Nat /\ in.revisions \in Seq(Entry) /\ in.approvals \in Seq(Approval)
      /\ Len(in.revisions) = in.revision /\ in.answers \in Answers
      /\ in.answers = in.revisions[in.revision].answers
  BY DEF Input, Recorded, Numbered
<1>2. approval = [revision |-> in.revision, request |-> RequestOf(in, d),
                  answers |-> in.answers]
  BY <1>1
<1>3. RequestOf(in, d) \in Request /\ IsTraced(in.revisions, approval)
  BY <1>2, RequestTraced DEF Recorded
<1>4. approval \in Approval
  BY <1>1, <1>2, <1>3 DEF Approval
<1>5. next = [in EXCEPT !.approval = approval, !.approvals = Append(in.approvals, approval)]
  BY DEF Approved
<1>6. approval.revision = in.revision /\ approval.request.answers = in.answers
  BY DEF RequestOf
<1> HIDE DEF next, approval
<1>13. /\ next.revision = in.revision /\ next.answers = in.answers
       /\ next.revisions = in.revisions
       /\ next.approvals = Append(in.approvals, approval) /\ next.approval = approval
       /\ next = [revision |-> next.revision, answers |-> next.answers,
                  revisions |-> next.revisions, approvals |-> next.approvals,
                  approval |-> next.approval]
  BY <1>5 DEF Input
<1>7. /\ Append(in.approvals, approval) \in Seq(Approval)
      /\ Len(Append(in.approvals, approval)) = Len(in.approvals) + 1
      /\ \A n \in 1 .. Len(in.approvals) : Append(in.approvals, approval)[n] = in.approvals[n]
      /\ Append(in.approvals, approval)[Len(in.approvals) + 1] = approval
      /\ Len(in.approvals) \in Nat
  BY <1>1, <1>4, AppendProperties
<1>8. next \in Input
  <2>1. next.revision \in Nat /\ next.answers \in Answers /\ next.revisions \in Seq(Entry)
        /\ next.approvals \in Seq(Approval) /\ next.approval \in Approval \cup {None}
    BY <1>1, <1>4, <1>13, <1>7
  <2> QED  BY <2>1, <1>13 DEF Input
<1>9. Numbered(next)  BY <1>13 DEF Recorded, Numbered
<1>10. Traced(next)
  <2> SUFFICES ASSUME NEW n \in 1 .. Len(in.approvals) + 1
               PROVE  /\ next.approvals[n].revision \in 1 .. Len(in.revisions)
                      /\ IsTraced(in.revisions, next.approvals[n])
    BY <1>13, <1>7 DEF Traced
  <2>1. CASE n = Len(in.approvals) + 1
    <3>1. next.approvals[n] = approval  BY <2>1, <1>13, <1>7
    <3> QED  BY <3>1, <1>1, <1>3, <1>6
  <2>2. CASE n # Len(in.approvals) + 1
    <3>1. n \in 1 .. Len(in.approvals)  BY <2>2, <1>7
    <3>2. next.approvals[n] = in.approvals[n]  BY <3>1, <1>13, <1>7
    <3> QED  BY <3>1, <3>2 DEF Recorded, Traced
  <2> QED  BY <2>1, <2>2
<1>11. Decided(next)  BY <1>13, <1>6, <1>7 DEF Decided
<1>12. approval # None  BY <1>4, NoneAssumption
<1> QED  BY <1>13, <1>8, <1>9, <1>10, <1>11, <1>12 DEF Recorded, next

-----------------------------------------------------------------------------
(* The invariant is inductive.                                             *)

(* The empty input is typed and recorded. *)
LEMMA NoInputRecorded == NoInput \in Input /\ Recorded(NoInput)
<1>1. NoAnswers \in Answers  BY DEF NoAnswers, Answers
<1>2. /\ NoInput.revision = 0 /\ NoInput.answers = NoAnswers /\ NoInput.revisions = <<>>
      /\ NoInput.approvals = <<>> /\ NoInput.approval = None
  BY DEF NoInput
<1>3. NoInput \in Input
  <2>1. 0 \in Nat /\ <<>> \in Seq(Entry) /\ <<>> \in Seq(Approval)  OBVIOUS
  <2> QED  BY <1>1, <2>1 DEF NoInput, Input
<1>4. Recorded(NoInput)
  BY <1>2, RevisionAssumption DEF Recorded, Numbered, Traced, Decided
<1> QED  BY <1>3, <1>4

(* A request at rest is typed. *)
LEMMA RestingTyped == Resting \in Serving
BY NoInputRecorded DEF Resting, Serving

(* The initial states satisfy the invariant. *)
LEMMA InitIInv == Init => IInv
<1> SUFFICES ASSUME Init PROVE IInv
  OBVIOUS
<1>1. input \in Input /\ Recorded(input) /\ input.revision = 0
  BY NoInputRecorded DEF Init, NoInput
<1>2. served \in [Requests -> Serving] /\ \A r \in Requests : served[r].at = "idle"
  <2>1. served = [r \in Requests |-> Resting] /\ Resting.at = "idle"  BY DEF Init, Resting
  <2> QED  BY <2>1, RestingTyped
<1>3. run \in [Runs -> Sending]
  BY DEF Init, Sending
<1>4. doc \in Docs  BY DEF Init
<1>5. \A g \in Runs : Acceptable(g)  BY DEF Init, Acceptable
<1> QED  BY <1>1, <1>2, <1>3, <1>4, <1>5, RevisionAssumption DEF IInv, TypeOK

(* A request takes what it has computed from the input it read. *)
LEMMA TakeKeepsIInv ==
  ASSUME IInv, NEW r \in Requests, NEW at \in {"amending", "approving"}, NEW next \in Input,
         NEW read \in Docs \cup {None}, Recorded(next),
         at = "amending" =>
            /\ next.revision = input.revision + 1
            /\ next.approval = None
            /\ next.revisions = Append(input.revisions, next.revisions[input.revision + 1]),
         at = "approving" =>
            /\ next.revision = input.revision
            /\ input.revision >= 1
            /\ next.approval # None
            /\ next.revisions = input.revisions,
         Take(r, at, next, read)
  PROVE  IInv'
<1> DEFINE mine == [at |-> at, expected |-> input.revision, next |-> next, doc |-> read]
<1>1. /\ served' = [served EXCEPT ![r] = mine]
      /\ UNCHANGED <<input, doc, run>>
  BY DEF Take
<1>2. input.revision \in Nat /\ doc \in Docs /\ served \in [Requests -> Serving]
  BY DEF IInv, TypeOK, Input
<1>3. mine \in Serving
  BY <1>2 DEF Serving
<1>4. mine.at = at /\ mine.expected = input.revision /\ mine.next = next  OBVIOUS
<1> HIDE DEF mine
<1>5. TypeOK'
  BY <1>1, <1>2, <1>3 DEF IInv, TypeOK
<1>6. ASSUME NEW q \in Requests, served'[q].at # "idle"
      PROVE  Follows(q)'
  <2>1. CASE q = r
    <3>1. served'[q] = mine  BY <2>1, <1>1, <1>2
    <3> QED  BY <3>1, <1>1, <1>2, <1>4 DEF Follows
  <2>2. CASE q # r
    <3>1. served'[q] = served[q]  BY <2>2, <1>1, <1>2
    <3>2. Follows(q)  BY <3>1, <1>6 DEF IInv
    <3> QED  BY <3>1, <3>2, <1>1 DEF Follows
  <2> QED  BY <2>1, <2>2
<1>7. (\A g \in Runs : Acceptable(g))'  BY <1>1 DEF IInv, Acceptable
<1> QED  BY <1>1, <1>5, <1>6, <1>7 DEF IInv

(* A request is over and stored nothing. *)
LEMMA RestKeepsIInv ==
  ASSUME IInv, NEW r \in Requests, served' = [served EXCEPT ![r] = Resting],
         UNCHANGED <<input, doc, run>>
  PROVE  IInv'
<1>1. served \in [Requests -> Serving]  BY DEF IInv, TypeOK
<1>2. TypeOK'  BY <1>1, RestingTyped DEF IInv, TypeOK
<1>3. ASSUME NEW q \in Requests, served'[q].at # "idle"
      PROVE  Follows(q)'
  <2>1. q # r  BY <1>1, <1>3 DEF Resting
  <2>2. served'[q] = served[q]  BY <2>1, <1>1
  <2>3. Follows(q)  BY <2>2, <1>3 DEF IInv
  <2> QED  BY <2>2, <2>3 DEF Follows
<1>4. (\A g \in Runs : Acceptable(g))'  BY DEF IInv, Acceptable
<1> QED  BY <1>2, <1>3, <1>4 DEF IInv

(* A request stores what it computed from the revision that is the last. *)
LEMMA StoreKeepsIInv ==
  ASSUME IInv, NEW r \in Requests, served[r].at # "idle",
         served[r].expected = input.revision,
         input' = served[r].next, served' = [served EXCEPT ![r] = Resting],
         UNCHANGED <<doc, run>>
  PROVE  IInv'
<1>1. /\ served \in [Requests -> Serving] /\ input.revision \in Nat
      /\ served[r].at \in {"amending", "approving"} /\ served[r].next \in Input
      /\ input'.revision \in Nat
  BY DEF IInv, TypeOK, Serving, Input
<1>2. Follows(r)  BY DEF IInv
<1>3. Recorded(input)' /\ input'.revision <= MaxRevision
  BY <1>2 DEF Follows, Recorded, Numbered
<1>4. TypeOK'  BY <1>1, <1>3, RestingTyped DEF IInv, TypeOK
<1>5. \/ input'.revision = input.revision + 1
      \/ input'.revision = input.revision /\ input'.revisions = input.revisions
  BY <1>1, <1>2 DEF Follows
<1>6. ASSUME NEW q \in Requests, served'[q].at # "idle"
      PROVE  Follows(q)'
  <2>1. q # r  BY <1>1, <1>6 DEF Resting
  <2>2. served'[q] = served[q]  BY <2>1, <1>1
  <2>3. Follows(q) /\ served[q].expected \in Nat  BY <1>1, <2>2, <1>6 DEF IInv, Serving
  <2>4. CASE input'.revision = input.revision + 1
    <3>1. served[q].expected # input'.revision /\ served[q].expected <= input'.revision
      BY <2>3, <2>4, <1>1 DEF Follows
    <3> QED  BY <3>1, <2>2, <2>3 DEF Follows
  <2>5. CASE input'.revision = input.revision /\ input'.revisions = input.revisions
    BY <2>5, <2>2, <2>3 DEF Follows
  <2> QED  BY <2>4, <2>5, <1>5
<1>7. (\A g \in Runs : Acceptable(g))'  BY DEF IInv, Acceptable
<1> QED  BY <1>3, <1>4, <1>6, <1>7 DEF IInv

(* The conditional update of either handler. *)
LEMMA StoreIfKeepsIInv ==
  ASSUME IInv, NEW r \in Requests, NEW matches \in BOOLEAN, served[r].at # "idle",
         matches => served[r].expected = input.revision,
         StoreIf(r, matches)
  PROVE  IInv'
<1>1. CASE matches  BY <1>1, StoreKeepsIInv DEF StoreIf
<1>2. CASE ~matches  BY <1>2, RestKeepsIInv DEF StoreIf
<1> QED  BY <1>1, <1>2

(* The requests keep the invariant. *)
LEMMA RequestStepKeepsIInv ==
  ASSUME IInv, NEW r \in Requests, RequestStep(r)
  PROVE  IInv'
<1>1. /\ input \in Input /\ Recorded(input) /\ input.revision \in Nat /\ doc \in Docs
      /\ input.answers \in Answers
  BY DEF IInv, TypeOK, Input
<1>2. CASE TakeAnswers(r)
  <2>1. PICK patch \in Patches :
           /\ IsPatch(patch)
           /\ Take(r, "amending", Amended(input, Patched(input.answers, patch)), None)
    BY <1>2 DEF TakeAnswers
  <2>2. Patched(input.answers, patch) \in Answers  BY <1>1, <2>1, PatchedTyped
  <2>3. input.revision < MaxRevision  BY <1>2 DEF TakeAnswers
  <2> DEFINE next == Amended(input, Patched(input.answers, patch))
  <2>4. /\ next \in Input /\ Recorded(next) /\ next.revision = input.revision + 1
        /\ next.approval = None
        /\ next.revisions = Append(input.revisions, next.revisions[input.revision + 1])
    BY <1>1, <2>2, <2>3, AmendedRecorded
  <2> HIDE DEF next
  <2>5. Take(r, "amending", next, None)  BY <2>1 DEF next
  <2> QED  BY <2>4, <2>5, TakeKeepsIInv
<1>3. CASE TakeApproval(r)
  <2>1. input.revision >= 1 /\ Take(r, "approving", Approved(input, doc), doc)
    BY <1>3 DEF TakeApproval
  <2> DEFINE next == Approved(input, doc)
  <2>2. /\ next \in Input /\ Recorded(next) /\ next.revision = input.revision
        /\ next.approval # None /\ next.revisions = input.revisions
    BY <1>1, <2>1, ApprovedRecorded
  <2> HIDE DEF next
  <2>3. Take(r, "approving", next, doc)  BY <2>1 DEF next
  <2>4. doc \in Docs  BY DEF IInv, TypeOK
  <2> QED  BY <2>1, <2>2, <2>3, <2>4, TakeKeepsIInv
<1>4. CASE StoreAnswers(r)
  BY <1>4, StoreIfKeepsIInv DEF StoreAnswers
<1>5. CASE StoreApproval(r)
  BY <1>5, StoreIfKeepsIInv DEF StoreApproval
<1>6. CASE Drop(r)
  BY <1>6, RestKeepsIInv DEF Drop
<1> QED  BY <1>2, <1>3, <1>4, <1>5, <1>6 DEF RequestStep

(* A hash tells requests apart. *)
LEMMA HashTellsApart ==
  ASSUME NEW q \in Request, NEW p \in Request, HashOf(q) = HashOf(p)
  PROVE  q = p
BY DEF HashOf, Request

(* What a token is minted for is the request approved now. *)
LEMMA MintedIsApproved ==
  ASSUME IInv, NEW payload \in Payload, payload.request # None, MayMint(payload)
  PROVE  /\ IsCurrent(input, doc) /\ input.approval.request = payload.request
         /\ RequestOf(input, doc) = payload.request
<1>1. IsCurrent(input, doc) /\ HashOf(input.approval.request) = HashOf(payload.request)
  BY DEF MayMint
<1>2. input.approval.request \in Request /\ payload.request \in Request
  BY <1>1 DEF IsCurrent, IInv, TypeOK, Input, Approval, Payload
<1>3. input.approval.request = payload.request  BY <1>1, <1>2, HashTellsApart
<1> QED  BY <1>1, <1>3 DEF IsCurrent

(* A payload that is prepared is typed, and its envelope fits. *)
LEMMA PreparedEnveloped ==
  ASSUME IInv, NEW g \in Runs, Prepare(g)
  PROVE  LET payload == IF input.revision # 0 THEN CanonicalPayload(doc, input.approval.request)
                        ELSE LegacyPayload(doc)
         IN  payload \in Payload /\ Enveloped(payload)
<1>1. doc \in Docs  BY DEF IInv, TypeOK
<1>2. CASE input.revision = 0
  BY <1>1, <1>2 DEF LegacyPayload, Payload, Enveloped
<1>3. CASE input.revision # 0
  <2> DEFINE request == input.approval.request
             payload == CanonicalPayload(doc, request)
  <2>1. IsCurrent(input, doc) /\ doc.prompt # "long"
    BY <1>3 DEF Prepare, FitsPrompt
  <2>2. request \in Request
    BY <2>1 DEF IsCurrent, IInv, TypeOK, Input, Approval
  <2>3. RequestAccepted(request)  BY <2>1 DEF IsCurrent, IsApprovable
  <2>4. request.answers \in Answers /\ request.answers["language"] # None
    BY <2>2, <2>3 DEF Request, RequestAccepted, ContractAccepts, IsAnswered
  <2>5. request.answers["language"] \in Answer
    BY <2>4 DEF Answers, AnswerFields
  <2> HIDE DEF request
  <2>6. /\ payload.prompt = doc.prompt /\ payload.business = None
        /\ payload.language = request.answers["language"].value
        /\ payload.request = request
        /\ payload = [prompt |-> payload.prompt, language |-> payload.language,
                      business |-> payload.business, request |-> payload.request]
    BY DEF CanonicalPayload
  <2> HIDE DEF payload
  <2>7. payload \in Payload  BY <1>1, <2>2, <2>5, <2>6 DEF Payload
  <2>8. Enveloped(payload)  BY <2>1, <2>6 DEF Enveloped
  <2> QED  BY <1>3, <2>7, <2>8 DEF payload, request
<1> QED  BY <1>2, <1>3

(* The runs of the pipeline only read the policy input. *)
LEMMA RunKeepsIInv ==
  ASSUME IInv, NEW g \in Runs, Prepare(g) \/ Send(g) \/ Receive(g)
  PROVE  IInv'
<1> DEFINE prepared == IF input.revision # 0
                         THEN CanonicalPayload(doc, input.approval.request)
                         ELSE LegacyPayload(doc)
<1>1. UNCHANGED <<input, doc, served>>  BY DEF Prepare, Send, Receive
<1>2. run \in [Runs -> Sending]  BY DEF IInv, TypeOK
<1>3. Prepare(g) => /\ prepared \in Payload /\ Enveloped(prepared)
                    /\ run' = [run EXCEPT ![g] = [at |-> "prepared", payload |-> prepared]]
  BY PreparedEnveloped DEF Prepare
<1> HIDE DEF prepared
<1>4. run' \in [Runs -> Sending]
  <2>1. CASE Prepare(g)
    BY <2>1, <1>2, <1>3 DEF Sending
  <2>2. CASE Send(g)
    BY <2>2, <1>2 DEF Send, Sending
  <2>3. CASE Receive(g)
    BY <2>3, <1>2 DEF Receive, Sending
  <2> QED  BY <2>1, <2>2, <2>3
<1>5. \A r \in Requests : Follows(r) => Follows(r)'  BY <1>1 DEF Follows
<1>6. ASSUME NEW h \in Runs  PROVE Acceptable(h)'
  <2>1. Acceptable(h)  BY DEF IInv
  <2>2. CASE h # g
    BY <1>2, <2>1, <2>2 DEF Prepare, Send, Receive, Acceptable
  <2>3. CASE h = g /\ Prepare(g)
    <3>1. run'[h].at = "prepared" /\ run'[h].payload = prepared  BY <1>2, <1>3, <2>3
    <3>2. prepared # None  BY <1>3, <2>3, NoneAssumption
    <3> QED  BY <3>1, <3>2, <1>3, <2>3 DEF Acceptable, Enveloped
  <2>4. CASE h = g /\ Receive(g)
    BY <1>2, <2>1, <2>4 DEF Receive, Acceptable
  <2>5. CASE h = g /\ Send(g)
    <3>1. CASE ~MayMint(run[g].payload)
      BY <1>2, <2>5, <3>1 DEF Send, Acceptable
    <3>2. CASE MayMint(run[g].payload)
      <4>1. run'[g].at = "sent" /\ run'[g].payload = run[g].payload
        BY <1>2, <2>5, <3>2 DEF Send, Sending
      <4>2. run[g].payload # None /\ Enveloped(run[g].payload)
        BY <2>1, <2>5 DEF Send, Acceptable
      <4>3. ASSUME run[g].payload.request # None
            PROVE  RequestAccepted(run[g].payload.request)
        <5>1. run[g].payload \in Payload  BY <1>2, <4>2 DEF Sending
        <5>2. IsCurrent(input, doc) /\ RequestOf(input, doc) = run[g].payload.request
          BY <3>2, <4>3, <5>1, MintedIsApproved
        <5> QED  BY <5>2 DEF IsCurrent, IsApprovable
      <4> QED  BY <2>5, <4>1, <4>2, <4>3 DEF Acceptable, Enveloped
    <3> QED  BY <3>1, <3>2
  <2> QED  BY <2>2, <2>3, <2>4, <2>5
<1> QED  BY <1>1, <1>4, <1>5, <1>6 DEF IInv, TypeOK

(* Every step keeps the invariant. *)
LEMMA NextKeepsIInv == IInv /\ [Next]_vars => IInv'
<1> SUFFICES ASSUME IInv, [Next]_vars PROVE IInv'
  OBVIOUS
<1>1. ASSUME NEW r \in Requests, RequestStep(r)  PROVE IInv'
  BY <1>1, RequestStepKeepsIInv
<1>2. ASSUME NEW g \in Runs, Prepare(g) \/ Send(g) \/ Receive(g)  PROVE IInv'
  BY <1>2, RunKeepsIInv
<1>3. CASE Rework
  BY <1>3 DEF Rework, IInv, TypeOK, Follows, Acceptable, Enveloped
<1>4. CASE UNCHANGED vars
  BY <1>4 DEF vars, IInv, TypeOK, Follows, Acceptable, Enveloped
<1> QED  BY <1>1, <1>2, <1>3, <1>4 DEF Next

(* The invariant holds of every behaviour. *)
LEMMA Invariance == Spec => []IInv
BY InitIInv, NextKeepsIInv, PTL DEF Spec

-----------------------------------------------------------------------------
(* The results.                                                            *)

(* The types of the policy input, of the requests and of the runs.         *)
THEOREM TypeCorrect == Spec => []TypeOK
BY Invariance, PTL DEF IInv

(* Every approved decision names the revision its answer came in.          *)
THEOREM Provenance == Spec => []OriginsAreTrue
<1>1. IInv => OriginsAreTrue  BY DEF IInv, Recorded, Traced, OriginsAreTrue
<1> QED  BY <1>1, Invariance, PTL

(* A payload that leaves was minted a token. *)
LEMMA SentIsMinted ==
  ASSUME IInv, [Next]_vars, NEW g \in Runs, run[g].at = "prepared", run'[g].at = "sent"
  PROVE  MayMint(run[g].payload)
<1>1. run \in [Runs -> Sending]  BY DEF IInv, TypeOK
<1>2. run' # run  OBVIOUS
<1>3. PICK h \in Runs : Prepare(h) \/ Send(h) \/ Receive(h)
  BY <1>2 DEF Next, vars, RequestStep, TakeAnswers, TakeApproval, Take,
     StoreAnswers, StoreApproval, StoreIf, Drop, Rework
<1>4. h = g  BY <1>1, <1>3 DEF Prepare, Send, Receive
<1>5. Send(g)  BY <1>1, <1>3, <1>4 DEF Prepare, Receive
<1> QED  BY <1>1, <1>5 DEF Send

(* A payload that is turned away was not admitted. *)
LEMMA TurnedAwayIsNotAdmitted ==
  ASSUME IInv, [Next]_vars, NEW g \in Runs, run[g].at = "sent", run'[g].at = "turned_away"
  PROVE  ~IsAdmitted(run[g].payload)
<1>1. run \in [Runs -> Sending]  BY DEF IInv, TypeOK
<1>2. run' # run  OBVIOUS
<1>3. PICK h \in Runs : Prepare(h) \/ Send(h) \/ Receive(h)
  BY <1>2 DEF Next, vars, RequestStep, TakeAnswers, TakeApproval, Take,
     StoreAnswers, StoreApproval, StoreIf, Drop, Rework
<1>4. h = g  BY <1>1, <1>3 DEF Prepare, Send, Receive
<1>5. Receive(g)  BY <1>1, <1>3, <1>4 DEF Prepare, Send
<1> QED  BY <1>1, <1>5 DEF Receive

(* A request that is sent was approved when it was signed, and is turned   *)
(* away for the length of its language only.                               *)
THEOREM SentApproved == Spec => SentIsApproved
<1> DEFINE Minted(g) ==
             run[g].at = "prepared" /\ run'[g].at = "sent" =>
               IF run[g].payload.request = None THEN input.revision = 0
               ELSE /\ run[g].payload.request.answers = input.answers
                    /\ run[g].payload.request.plan = doc.plan
                    /\ run[g].payload.request.handoff = HandoffOf(doc)
                    /\ \E n \in 1 .. Len(input.approvals) :
                          /\ input.approvals[n].revision = input.revision
                          /\ input.approvals[n].request = run[g].payload.request
           Answered(g) ==
             run[g].at = "sent" /\ run'[g].at = "turned_away"
                /\ run[g].payload.request # None =>
               run[g].payload.request.answers["language"].value = TooLong
<1>1. ASSUME IInv, NEW payload \in Payload, MayMint(payload), payload.request # None
      PROVE  /\ payload.request.answers = input.answers
             /\ payload.request.plan = doc.plan
             /\ payload.request.handoff = HandoffOf(doc)
             /\ \E n \in 1 .. Len(input.approvals) :
                   /\ input.approvals[n].revision = input.revision
                   /\ input.approvals[n].request = payload.request
  <2>1. /\ IsCurrent(input, doc) /\ input.approval.request = payload.request
        /\ RequestOf(input, doc) = payload.request
    BY <1>1, MintedIsApproved
  <2>2. doc.plan = doc.final.plan  BY <2>1 DEF IsCurrent, IsApprovable
  <2>3. payload.request.answers = input.answers /\ payload.request.plan = doc.plan
        /\ payload.request.handoff = HandoffOf(doc)
    BY <2>1, <2>2 DEF RequestOf
  <2>4. /\ input.approval.revision = input.revision
        /\ Len(input.approvals) >= 1
        /\ input.approvals[Len(input.approvals)] = input.approval
    BY <1>1, <2>1 DEF IInv, Recorded, Decided, IsCurrent
  <2>5. input.approvals \in Seq(Approval)  BY <1>1 DEF IInv, TypeOK, Input
  <2>6. Len(input.approvals) \in 1 .. Len(input.approvals)  BY <2>4, <2>5
  <2> QED  BY <2>1, <2>3, <2>4, <2>6
<1>2. ASSUME IInv, [Next]_vars, NEW g \in Runs  PROVE Minted(g)
  <2> SUFFICES ASSUME run[g].at = "prepared", run'[g].at = "sent"
               PROVE  IF run[g].payload.request = None THEN input.revision = 0
                      ELSE /\ run[g].payload.request.answers = input.answers
                           /\ run[g].payload.request.plan = doc.plan
                           /\ run[g].payload.request.handoff = HandoffOf(doc)
                           /\ \E n \in 1 .. Len(input.approvals) :
                                 /\ input.approvals[n].revision = input.revision
                                 /\ input.approvals[n].request = run[g].payload.request
    OBVIOUS
  <2>1. MayMint(run[g].payload)  BY <1>2, SentIsMinted
  <2>2. run[g].payload \in Payload
    BY <1>2 DEF IInv, TypeOK, Sending, Acceptable
  <2>3. CASE run[g].payload.request = None  BY <2>1, <2>3 DEF MayMint
  <2>4. CASE run[g].payload.request # None  BY <2>1, <2>2, <2>4, <1>1, <1>2
  <2> QED  BY <2>3, <2>4
<1>3. ASSUME IInv, [Next]_vars, NEW g \in Runs  PROVE Answered(g)
  <2> SUFFICES ASSUME run[g].at = "sent", run'[g].at = "turned_away",
                      run[g].payload.request # None
               PROVE  run[g].payload.request.answers["language"].value = TooLong
    OBVIOUS
  <2>1. ~IsAdmitted(run[g].payload)  BY <1>3, TurnedAwayIsNotAdmitted
  <2>2. Enveloped(run[g].payload) /\ RequestAccepted(run[g].payload.request)
    BY <1>3 DEF IInv, Acceptable
  <2> QED  BY <2>1, <2>2 DEF IsAdmitted, EnvelopeAccepted, Enveloped
<1> DEFINE Sent(g) ==
             LET payload == run[g].payload
                 request == payload.request
             IN
             /\ run[g].at = "prepared" /\ run'[g].at = "sent" =>
                  IF request = None THEN input.revision = 0
                  ELSE /\ request.answers = input.answers
                       /\ request.plan = doc.plan
                       /\ request.handoff = HandoffOf(doc)
                       /\ \E n \in 1 .. Len(input.approvals) :
                             /\ input.approvals[n].revision = input.revision
                             /\ input.approvals[n].request = request
             /\ run[g].at = "sent" /\ run'[g].at = "turned_away" /\ request # None =>
                  request.answers["language"].value = TooLong
<1>4. ASSUME IInv, [Next]_vars, NEW g \in Runs  PROVE Sent(g)
  BY <1>2, <1>3, <1>4
<1>5. IInv /\ [Next]_vars => [\A g \in Runs : Sent(g)]_vars  BY <1>4
<1> QED  BY <1>5, Invariance, PTL DEF Spec, SentIsApproved

(* What is stripped and is something was something before. *)
LEMMA StrippedIsSome == \A text : Stripped(text) # Empty => text # Empty
BY DEF Stripped

(* A handoff as it is built is accepted by the contract when it is valid   *)
(* and fits: nothing blank is left among its families.                     *)
LEMMA ValidIsAccepted ==
  ASSUME NEW d, HandoffIsValid(HandoffOf(d)), HandoffFits(HandoffOf(d))
  PROVE  HandoffAccepted(HandoffOf(d))
<1> DEFINE handoff == HandoffOf(d)
<1>1. handoff.families \cap {Blank, Empty} = {}
  BY DEF HandoffOf, MergedFamilies, Written
<1> HIDE DEF handoff
<1>2. handoff.families # {}  BY DEF HandoffIsValid, Written, handoff
<1> QED  BY <1>1, <1>2, StrippedIsSome DEF HandoffIsValid, HandoffAccepted, handoff

(* When no question is open, answers the contract can spell are approvable. *)
THEOREM QuestionsMatchContract == Spec => []AskedNothingMeansApprovable
<1>1. ASSUME IInv,
             MaterialQuestions(input.answers) = {},
             Agrees(input.answers, doc.security.facts),
             doc.plan # None, doc.plan = doc.final.plan, HandoffIsValid(HandoffOf(doc)),
             ValuesAccepted(input.answers), HandoffFits(HandoffOf(doc))
      PROVE  IsApprovable(input, doc)
  <2> DEFINE answers == input.answers
  <2>1. /\ ~Contradicted(answers)
        /\ \A field \in RequiredFields(answers) : IsSettled(answers, field)
    BY <1>1 DEF MaterialQuestions
  <2>2. \A field \in {"policy_type", "coverage_mode", "language"} : IsAnswered(answers, field)
    BY <2>1 DEF RequiredFields, Material, IsSettled
  <2>3. ASSUME IsFullCoverage(answers)
        PROVE  Members(answers, "requested_instruments") # {}
    BY <2>1, <2>3 DEF RequiredFields, Instrumental, IsSettled, IsList, Members
  <2>4. RequestAccepted(RequestOf(input, doc))
    <3>1. ContractAccepts(answers)  BY <1>1, <2>1, <2>2, <2>3 DEF ContractAccepts
    <3>2. HandoffAccepted(HandoffOf(doc))  BY <1>1, ValidIsAccepted
    <3> QED  BY <1>1, <3>1, <3>2 DEF RequestAccepted, RequestOf, HandoffOf
  <2>5. input.revision \in Nat /\ Numbered(input)  BY <1>1 DEF IInv, TypeOK, Input, Recorded
  <2>6. input.revision # 0
    BY <2>2, <2>5 DEF Numbered, NoAnswers, IsAnswered, AnswerFields
  <2>7. HistoryIsComplete(input)  BY <2>5, <2>6 DEF HistoryIsComplete, Numbered
  <2> QED  BY <1>1, <2>4, <2>7 DEF IsApprovable
<1>2. IInv => AskedNothingMeansApprovable  BY <1>1 DEF AskedNothingMeansApprovable
<1> QED  BY <1>2, Invariance, PTL

-----------------------------------------------------------------------------
(* The handlers implement the approved document.                           *)

(* How the history of an input, as its users see it, is measured. *)
LEMMA AnswersOfHistory ==
  ASSUME NEW in \in Input, Recorded(in)
  PROVE  LET contents == [n \in 1 .. Len(in.revisions) |-> in.revisions[n].answers] IN
         /\ contents \in Seq(Answers)
         /\ Len(contents) = in.revision
         /\ \A n \in 1 .. in.revision : contents[n] = in.revisions[n].answers
<1>1. /\ Len(in.revisions) = in.revision /\ in.revision \in Nat
      /\ in.revisions \in Seq(Entry)
  BY DEF Input, Recorded, Numbered
<1>2. \A n \in 1 .. in.revision : in.revisions[n] \in Entry  BY <1>1
<1>3. \A n \in 1 .. in.revision : in.revisions[n].answers \in Answers
  BY <1>2 DEF Entry
<1> QED  BY <1>1, <1>3

(* The same of the input that is stored. *)
LEMMA ContentsAre ==
  ASSUME IInv
  PROVE  /\ Contents \in Seq(Answers)
         /\ Len(Contents) = input.revision
         /\ \A n \in 1 .. input.revision : Contents[n] = input.revisions[n].answers
BY AnswersOfHistory DEF IInv, TypeOK, Contents

(* A request that stores nothing looks at the document or goes away. *)
LEMMA LookRefines ==
  ASSUME IInv, NEW r \in Requests, NEW mine,
         served' = [served EXCEPT ![r] = mine],
         mine.expected = 0 \/ mine.expected = input.revision,
         UNCHANGED input
  PROVE  Promise!Look(r)
<1>1. served \in [Requests -> Serving]  BY DEF IInv, TypeOK
<1>2. Len(Contents) = input.revision  BY ContentsAre
<1>3. Seen' = [Seen EXCEPT ![r] = mine.expected]
  <2>1. \A q \in Requests : served'[q].expected =
           IF q = r THEN mine.expected ELSE served[q].expected
    BY <1>1
  <2> QED  BY <2>1 DEF Seen
<1>4. UNCHANGED <<Contents, Decision>>  BY DEF Contents, Decision
<1> QED  BY <1>2, <1>3, <1>4 DEF Promise!Look

(* A request at rest has seen nothing. *)
LEMMA RestSeen ==
  ASSUME IInv, NEW r \in Requests, served' = [served EXCEPT ![r] = Resting]
  PROVE  Seen' = [Seen EXCEPT ![r] = 0]
<1>1. served \in [Requests -> Serving]  BY DEF IInv, TypeOK
<1>2. \A q \in Requests : served'[q].expected = IF q = r THEN 0 ELSE served[q].expected
  BY <1>1 DEF Resting
<1> QED  BY <1>2 DEF Seen

(* Answers that are stored amend the document. *)
LEMMA AmendRefines ==
  ASSUME IInv, IInv', NEW r \in Requests, served[r].at = "amending",
         served[r].expected = input.revision,
         input' = served[r].next, served' = [served EXCEPT ![r] = Resting]
  PROVE  Promise!Amend(r)
<1>1. Follows(r)  BY DEF IInv
<1>2. /\ input.revision \in Nat /\ input.revisions \in Seq(Entry)
      /\ Len(input.revisions) = input.revision
  BY DEF IInv, TypeOK, Input, Recorded, Numbered
<1>3. /\ input'.revision = input.revision + 1
      /\ input'.approval = None
      /\ input'.revisions = Append(input.revisions, input'.revisions[input.revision + 1])
  BY <1>1 DEF Follows
<1>4. \A n \in 1 .. input.revision : input'.revisions[n] = input.revisions[n]
  <2>1. PICK entry : input'.revisions = Append(input.revisions, entry)  BY <1>3
  <2> QED  BY <2>1, <1>2
<1>5. /\ Contents \in Seq(Answers) /\ Len(Contents) = input.revision
      /\ \A n \in 1 .. input.revision : Contents[n] = input.revisions[n].answers
  BY ContentsAre
<1>6. /\ Contents' \in Seq(Answers) /\ Len(Contents') = input.revision + 1
      /\ \A n \in 1 .. input.revision + 1 : Contents'[n] = input'.revisions[n].answers
  <2>1. input' \in Input /\ Recorded(input')
    BY DEF IInv, TypeOK, Recorded, Numbered, Traced, Decided
  <2>2. Contents' = [n \in 1 .. Len(input'.revisions) |-> input'.revisions[n].answers]
    BY DEF Contents
  <2> QED  BY <2>1, <2>2, <1>3, AnswersOfHistory
<1>7. ASSUME NEW n \in 1 .. input.revision  PROVE Contents'[n] = Contents[n]
  <2>1. n \in 1 .. input.revision + 1  BY <1>2
  <2>2. Contents'[n] = input'.revisions[n].answers  BY <2>1, <1>6
  <2>3. Contents[n] = input.revisions[n].answers  BY <1>5
  <2>4. input'.revisions[n] = input.revisions[n]  BY <1>4
  <2> QED  BY <2>2, <2>3, <2>4
<1>8. Contents' = Append(Contents, Contents'[Len(Contents')])
  BY <1>2, <1>5, <1>6, <1>7
<1>9. Decision' = <<>>  BY <1>3 DEF Decision
<1>10. Seen[r] = Len(Contents)  BY <1>5 DEF Seen
<1>11. Seen' = [Seen EXCEPT ![r] = 0]  BY RestSeen
<1> QED  BY <1>5, <1>6, <1>8, <1>9, <1>10, <1>11 DEF Promise!Amend

(* An approval that is stored approves what the document says last. *)
LEMMA ApproveRefines ==
  ASSUME IInv, IInv', NEW r \in Requests, served[r].at = "approving",
         served[r].expected = input.revision, input.approval = None,
         input' = served[r].next, served' = [served EXCEPT ![r] = Resting]
  PROVE  Promise!Approve(r)
<1>1. /\ input'.revision = input.revision
      /\ input.revision >= 1
      /\ input'.approval # None
      /\ input'.revisions = input.revisions
  BY DEF IInv, Follows
<1>2. Contents' = Contents  BY <1>1 DEF Contents
<1>3. /\ Contents \in Seq(Answers) /\ Len(Contents) = input.revision
      /\ \A n \in 1 .. input.revision : Contents[n] = input.revisions[n].answers
      /\ input.revision \in Nat
  BY ContentsAre DEF IInv, TypeOK, Input
<1>4. input'.approval.request.answers = input'.answers
      /\ input'.answers = input'.revisions[input'.revision].answers
  BY <1>1, <1>3 DEF IInv, Recorded, Decided, Numbered
<1>5. Decision = <<>> /\ Decision' = <<Contents[Len(Contents)]>>
  BY <1>1, <1>3, <1>4 DEF Decision
<1>6. Seen[r] = Len(Contents)  BY <1>3 DEF Seen
<1>7. Seen' = [Seen EXCEPT ![r] = 0]  BY RestSeen
<1>8. Contents # <<>>  BY <1>1, <1>3
<1> QED  BY <1>2, <1>5, <1>6, <1>7, <1>8 DEF Promise!Approve

(* The handlers of the policy input implement the approved document.       *)
THEOREM Refinement == Spec => ImplementsPromise
<1>1. Init => Promise!Init
  <2> SUFFICES ASSUME Init PROVE Promise!Init
    OBVIOUS
  <2>1. Contents = <<>> /\ Decision = <<>>  BY DEF Init, NoInput, Contents, Decision
  <2>2. Seen = [r \in Requests |-> 0]  BY DEF Init, Resting, Seen
  <2> QED  BY <2>1, <2>2 DEF Promise!Init
<1>2. ASSUME IInv, IInv', [Next]_vars
      PROVE  [Promise!Next]_<<Contents, Decision, Seen>>
  <2>1. ASSUME NEW r \in Requests, NEW at, NEW next, NEW read, Take(r, at, next, read)
        PROVE  Promise!Look(r)
    <3> DEFINE mine == [at |-> at, expected |-> input.revision, next |-> next, doc |-> read]
    <3>1. served' = [served EXCEPT ![r] = mine] /\ UNCHANGED input  BY <2>1 DEF Take
    <3>2. mine.expected = input.revision  OBVIOUS
    <3> HIDE DEF mine
    <3> QED  BY <1>2, <3>1, <3>2, LookRefines
  <2>2. ASSUME NEW r \in Requests, served' = [served EXCEPT ![r] = Resting], UNCHANGED input
        PROVE  Promise!Look(r)
    BY <1>2, <2>2, LookRefines DEF Resting
  <2>3. ASSUME NEW r \in Requests, RequestStep(r)
        PROVE  Promise!Look(r) \/ Promise!Amend(r) \/ Promise!Approve(r)
    <3>1. CASE TakeAnswers(r)  BY <3>1, <2>1 DEF TakeAnswers
    <3>2. CASE TakeApproval(r)  BY <3>2, <2>1 DEF TakeApproval
    <3>3. CASE StoreAnswers(r)
      <4>1. CASE input.revision = served[r].expected
        BY <3>3, <4>1, <1>2, AmendRefines DEF StoreAnswers, StoreIf
      <4>2. CASE input.revision # served[r].expected
        BY <3>3, <4>2, <2>2 DEF StoreAnswers, StoreIf
      <4> QED  BY <4>1, <4>2
    <3>4. CASE StoreApproval(r)
      <4> DEFINE matches == /\ input.revision = served[r].expected
                            /\ input.approval = None
                            /\ doc.plan = served[r].doc.plan
                            /\ doc.final = served[r].doc.final
                            /\ doc.security = served[r].doc.security
      <4>1. CASE matches
        BY <3>4, <4>1, <1>2, ApproveRefines DEF StoreApproval, StoreIf
      <4>2. CASE ~matches
        BY <3>4, <4>2, <2>2 DEF StoreApproval, StoreIf
      <4> QED  BY <4>1, <4>2
    <3>5. CASE Drop(r)  BY <3>5, <2>2 DEF Drop
    <3> QED  BY <2>3, <3>1, <3>2, <3>3, <3>4, <3>5 DEF RequestStep
  <2>4. CASE UNCHANGED <<input, served>>
    BY <2>4 DEF Contents, Decision, Seen
  <2>5. (\E r \in Requests : RequestStep(r)) \/ UNCHANGED <<input, served>>
    BY <1>2 DEF Next, Prepare, Send, Receive, Rework, vars
  <2> QED  BY <2>3, <2>4, <2>5 DEF Promise!Next
<1> QED  BY <1>1, <1>2, Invariance, PTL DEF Spec, ImplementsPromise, Promise!Spec, Promise!vars
=============================================================================
