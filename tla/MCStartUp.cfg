\* Three releases and any three faults, with a managed and an unmanaged database.
SPECIFICATION StartUpSpec
CONSTANTS
    MaxVersion = 3
    Identities = {i1, i2, i3, i4, i5, i6}
    NoIdentity = none
    MaxFaults = 3
INVARIANTS ServesInstalledModule ServesAsOperator
PROPERTY ServerComesBack
CHECK_DEADLOCK FALSE
