---------------------------- MODULE MCPolicyStore ---------------------------
EXTENDS PolicyStore, TLC
Symmetric ==
  Permutations(Generators) \cup Permutations(Updaters) \cup Permutations(LegacyRows)
    \cup Permutations(Contexts) \cup Permutations(Texts)
=============================================================================
