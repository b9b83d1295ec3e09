---------------------------- MODULE MCShadowRuntime ----------------------------
(* Instances of ShadowRuntime for TLC: all four agents, each of which may  *)
(* agree, differ, find something or be blocked.                            *)
EXTENDS ShadowRuntime, TLC

MCAgents == <<"context_agent", "regulatory_rag_agent", "policy_agent", "validator_agent">>

Good ==
  [status |-> "completed", differs |-> FALSE, errors |-> FALSE, findings |-> FALSE,
   covers |-> TRUE, agrees |-> TRUE]

MCAnswers ==
  {Good, [Good EXCEPT !.differs = TRUE, !.covers = FALSE, !.agrees = FALSE],
   [Good EXCEPT !.findings = TRUE, !.errors = TRUE], [Good EXCEPT !.status = "blocked"]}

Ready == [live |-> TRUE, captured |-> TRUE, noted |-> FALSE, key |-> TRUE, dir |-> TRUE]

MCSetups ==
  {Ready, [Ready EXCEPT !.live = FALSE], [Ready EXCEPT !.key = FALSE], [Ready EXCEPT !.dir = FALSE],
   [Ready EXCEPT !.captured = FALSE, !.noted = TRUE]}
=============================================================================
