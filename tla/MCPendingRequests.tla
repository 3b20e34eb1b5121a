------------------------- MODULE MCPendingRequests -------------------------
EXTENDS PendingRequests, TLC

Symmetry == Permutations(InsertRequests) \cup Permutations(RemoveRequests)
=============================================================================
