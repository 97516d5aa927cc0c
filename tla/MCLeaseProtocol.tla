--------------------------- MODULE MCLeaseProtocol ---------------------------
EXTENDS LeaseProtocol, TLC
Symmetry == Permutations(WorkerId) \cup Permutations(LeaseId)
=============================================================================
