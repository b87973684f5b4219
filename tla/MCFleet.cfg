\* One agent that crashes and restarts over a connection that keeps up.
SPECIFICATION FleetSpec
CONSTANTS
    m1 = m1  m2 = m2  n1 = n1  n2 = n2  c1 = c1  c2 = c2
    Identities = {srv, m1}
    Codes = {c1}
    HostNames = {n1}
    AppNames = {p1}
    Commits = {k1}
    WorkloadNames = {}
    Seqs = {}
    Loads = {}
    STALE_AFTER = 0
    REAP_INTERVAL = 1
    SilenceCap = 2
    MaxHosts = 1
    MaxApps = 1
    MaxDeployments = 3
    MaxConnections = 1
    Machines = {m1}
    Server = srv
    NameOf <- OneMachine
    CodeOf <- OneCode
    Prompt = TRUE
    Drops = FALSE
    Removal = FALSE
    MaxCrashes = 2
    MaxCalls = 2
CHECK_DEADLOCK FALSE
INVARIANTS OldestFirst AppliedAtMostOnce
PROPERTIES ImplementsLifecycle
