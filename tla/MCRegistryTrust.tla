------------------------- MODULE MCRegistryTrust -------------------------
EXTENDS RegistryTrust, TLC
CONSTANTS r1, k1, p1, p2, v1, v2

\* v1 is signed, gives the hash of its catalog and lists a plugin file; v2 has a null for its
\* signature, gives no hash and lists none; an unsigned registry is one without a manifest
MCBlocks == [release \in Releases |->
                IF release = v1 THEN {[alg |-> "ed25519", key |-> k1, version |-> "a"]} ELSE {}]

\* the two processes run the same commands
Symmetric == Permutations(Procs)

Rules(signature, unsigned) ==
    [requireSignature |-> signature, allowUnsignedRemote |-> unsigned,
     requireChecksum |-> TRUE, requireLockfile |-> FALSE, algorithms |-> Algorithms]
MCPolicies == {Rules(TRUE, FALSE), Rules(FALSE, TRUE)}
==========================================================================
