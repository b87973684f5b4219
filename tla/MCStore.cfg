\* Two requests side by side, clients that go away, failing writes and crashes.
SPECIFICATION StoreSpec
CONSTANTS
    Requests = {r1, r2}
    Boot = boot
    Names = {u1, u2}
    Admin = u1
    Codes = {e1}
    ApiTokens = {t1}
    Apps = {p1}
    Keys = {k1}
    Fails = TRUE
    MaxCrashes = 1
    MaxVersions = 3
SYMMETRY Interchangeable
CHECK_DEADLOCK FALSE
INVARIANTS NeverTruncated SomeoneCanSignIn RedeemedOnce LastAdministratorStays
PROPERTIES ImplementsDocument
