--------------------------- MODULE ApprovedDocument ---------------------------
(***************************************************************************)
(* What the policy input promises its users: a document that grows one     *)
(* revision at a time and is approved as somebody saw it. Whoever amends   *)
(* or approves it has seen its last revision; an amendment ends the        *)
(* approval, and no revision is approved twice.                            *)
(***************************************************************************)
EXTENDS Naturals, Sequences

CONSTANT Users

VARIABLES
  revisions,  \* what the document said, revision by revision
  decision,   \* <<what was approved>>, or <<>>
  seen        \* the revision each user acts upon, 0 for none

vars == <<revisions, decision, seen>>

Init ==
  /\ revisions = <<>>
  /\ decision = <<>>
  /\ seen = [u \in Users |-> 0]

(* A user looks at the document, or goes away. *)
Look(u) ==
  /\ \E n \in {0, Len(revisions)} : seen' = [seen EXCEPT ![u] = n]
  /\ UNCHANGED <<revisions, decision>>

Amend(u) ==
  /\ seen[u] = Len(revisions)
  /\ Len(revisions') = Len(revisions) + 1
  /\ revisions' = Append(revisions, revisions'[Len(revisions')])
  /\ decision' = <<>>
  /\ seen' = [seen EXCEPT ![u] = 0]

Approve(u) ==
  /\ revisions # <<>>
  /\ seen[u] = Len(revisions)
  /\ decision = <<>>
  /\ decision' = <<revisions[Len(revisions)]>>
  /\ seen' = [seen EXCEPT ![u] = 0]
  /\ UNCHANGED revisions

Next == \E u \in Users : Look(u) \/ Amend(u) \/ Approve(u)

Spec == Init /\ [][Next]_vars
=============================================================================
