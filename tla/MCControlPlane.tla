--------------------------- MODULE MCControlPlane ---------------------------
EXTENDS ControlPlaneProperties, TLC

Clients == Permutations(Identities)
SafetySymmetry == Clients \cup Permutations(HostNames) \cup Permutations(AppNames)
                     \cup Permutations(Codes)
=============================================================================
