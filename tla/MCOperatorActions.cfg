\* Two requests side by side over a connection that lags, a push and a failure.
SPECIFICATION OperatorSpec
CONSTANTS
    Identities = {srv, a1}
    Codes = {c1, c2}
    HostNames = {n1}
    AppNames = {p1, p2}
    Commits = {k1, k2}
    WorkloadNames = {}
    Seqs = {}
    Loads = {}
    STALE_AFTER = 0
    REAP_INTERVAL = 1
    SilenceCap = 2
    MaxHosts = 1
    MaxApps = 2
    MaxDeployments = 4
    MaxConnections = 1
    Server = srv
    Agent = a1
    Requests = {r1, r2}
    NoRequest = none
    MaxInputs = 2
    MaxFailures = 1
CHECK_DEADLOCK FALSE
INVARIANTS RolledBackOnce RollbackRestores
PROPERTIES ImplementsPolicy SuccessMeansDone EnvironmentGoesLast
