------------------------- MODULE MCContextWorkflow -------------------------
(* Instances of ContextWorkflow for TLC.                                   *)
EXTENDS ContextWorkflow, TLC

(* The document a user reaches who answers every question, approves the    *)
(* plan and lets it execute: where overlapping requests have most to lose. *)
ExecutedInit ==
    /\ \E facts \in {f \in Facts : Missing(f) = {}} :
          LET answered == [q \in Questions |-> IF q \in Fields THEN "answered" ELSE "none"]
              plan == Approved(Draft(facts, <<>>))
          IN  context = [plan |-> plan, building |-> Building(answered),
                         results |-> [status |-> "completed", revision |-> plan.approved,
                                      snapshot |-> facts,
                                      tasks |-> [n \in 1 .. TaskCount |-> "completed"]],
                         status |-> "context_plan_executed"]
                        @@ Created(facts)
    /\ request = [r \in Requests |-> Nothing]
    /\ worker = [w \in Workers |-> Resting]

RequestsSpec == ExecutedInit /\ [][Next]_vars

(* A session over a document created with the need told. *)
SessionInit == Init /\ context.facts[Need] = Told

SessionSpec == SessionInit /\ [][Next]_vars

Symmetric == Permutations(Requests)
=============================================================================
