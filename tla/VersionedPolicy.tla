-------------------------- MODULE VersionedPolicy ---------------------------
(***************************************************************************)
(* What policy-agent promises about its policies: each policy is a history  *)
(* of revisions, every revision is derived from the one before it, and a    *)
(* context gets a policy only when it has none.                             *)
(***************************************************************************)
EXTENDS Naturals, Sequences

CONSTANTS Policies, Texts

VARIABLES
  owner,     \* the context of each policy
  history    \* revisions of each policy, <<>> while it does not exist

vars == <<owner, history>>

Revision == [text : Texts, basis : Texts \cup {"none"}]

HasPolicy(context) ==
  \E p \in Policies : owner[p] = context /\ history[p] # <<>>

LastText(p) == history[p][Len(history[p])].text

Generate(p, t) ==
  /\ ~HasPolicy(owner[p])
  /\ history' = [history EXCEPT ![p] = <<[text |-> t, basis |-> "none"]>>]
  /\ UNCHANGED owner

Revise(p, t) ==
  /\ history[p] # <<>>
  /\ history' = [history EXCEPT ![p] = Append(@, [text |-> t, basis |-> LastText(p)])]
  /\ UNCHANGED owner

Next == \E p \in Policies, t \in Texts : Generate(p, t) \/ Revise(p, t)

\* The histories that are there when the service starts are arbitrary.
Spec == [][Next]_vars
=============================================================================
