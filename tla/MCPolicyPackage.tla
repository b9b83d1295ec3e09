-------------------------- MODULE MCPolicyPackage --------------------------
(* An instance of PolicyPackage for TLC.                                   *)
EXTENDS PolicyPackage

CONSTANTS u1, u2, u3, c1, c2, q1, q2, e1, e2, s1, s2, g1, a1, k1, h1, h2

MCItems ==
    {[unit |-> u, disposition |-> d, obligation |-> o, evidence |-> E,
      requirements |-> R, review |-> G # {}, gaps |-> G] :
        u \in {u1, u2}, d \in Dispositions, o \in Obligations, E \in {{e1}, {}},
        R \in {{}, {q1}, {q1, q2}}, G \in {{}, {g1}}}

MCRequirements ==
    {[section |-> s, coverage |-> c, obligation |-> o, evidence |-> E,
      actions |-> A, reason |-> A = {}] :
        s \in {s1, s2}, c \in {c1, c2}, o \in Obligations, E \in {{e1}, {}}, A \in {{a1}, {}}}

MCEvidence ==
    {[unit |-> u, role |-> role, reason |-> role = "candidate"] :
        u \in Units, role \in {"grounding", "candidate"}}

(* Amounts around a cent. *)
MCQuotes ==
    {[profile |-> h1, plan |-> h1, request |-> h1, estimated |-> estimated, raw |-> raw,
      reserved |-> reserved, cap |-> cap, estimatedCalls |-> 0, maxCalls |-> 1,
      status |-> status, reason |-> IF status = "blocked" THEN "insufficient_budget" ELSE None] :
        estimated \in {0, 10001}, raw \in {0, 1, 10000, 10001}, reserved \in 0 .. 2, cap \in 0 .. 2,
        status \in {"estimate_only", "blocked"}}

MCLimits == {[sections |-> n, requirements |-> 2, evidence |-> 2] : n \in {1, 64}}

(* One covered unit, one undecided unit with its gap, one candidate. *)
MCInit ==
    /\ profile = [id |-> h1, request |-> h1,
                  limits |-> [sections |-> 64, requirements |-> 2, evidence |-> 2]]
    /\ plan = [id |-> h1, profile |-> h1, request |-> h1, inventory |-> h1,
               items |-> [c \in {c1, c2} |->
                  IF c = c1
                  THEN [unit |-> u1, disposition |-> "applicable", obligation |-> "mandatory",
                        evidence |-> {e1}, requirements |-> {q1}, review |-> FALSE, gaps |-> {}]
                  ELSE [unit |-> u2, disposition |-> "undetermined", obligation |-> "mandatory",
                        evidence |-> {}, requirements |-> {}, review |-> TRUE, gaps |-> {g1}]],
               gaps |-> [g \in {g1} |-> u2], conflicts |-> [k \in {k1} |-> {u1, u2}]]
    /\ package = [revision |-> h1, previous |-> None, profile |-> h1, plan |-> h1,
                  request |-> h1, inventory |-> h1,
                  sections |-> [s \in {s1} |-> {q1}],
                  requirements |-> [q \in {q1} |->
                     [section |-> s1, coverage |-> c1, obligation |-> "mandatory",
                      evidence |-> {e1}, actions |-> {a1}, reason |-> FALSE]],
                  evidence |-> [e \in {e1, e2} |->
                     IF e = e1 THEN [unit |-> u1, role |-> "grounding", reason |-> FALSE]
                     ELSE [unit |-> u3, role |-> "candidate", reason |-> TRUE]],
                  actions |-> [a \in {a1} |-> q1]]
    /\ quote = [profile |-> h1, plan |-> h1, request |-> h1, estimated |-> 0, raw |-> 0,
                reserved |-> 0, cap |-> 0, estimatedCalls |-> 0, maxCalls |-> 1,
                status |-> "estimate_only", reason |-> None]
    /\ Accepted
    /\ edits = 0

MCSpec == MCInit /\ [][Next]_vars
=============================================================================
