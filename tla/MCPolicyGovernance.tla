------------------------ MODULE MCPolicyGovernance -------------------------
EXTENDS PolicyGovernance, TLC

CONSTANTS t1, t2, t3, v1, v2

\* Two texts of one version, and another version.
MCVersionOf == t1 :> v1 @@ t2 :> v1 @@ t3 :> v2

Interchangeable == Permutations(Commands) \cup Permutations(Approvers)
=============================================================================
