--------------------------- MODULE MCPipelineJobs ---------------------------
EXTENDS PipelineJobs, TLC
CONSTANTS r1, r2, c1, d1, d2
MCScopes == Contexts \X Commands
SymmetricRequests == Permutations(Requests)
=============================================================================
