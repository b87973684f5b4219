\* The connection drops while the process lives.
SPECIFICATION FleetSpec
CONSTANTS
    m1 = m1  m2 = m2  n1 = n1  n2 = n2  c1 = c1  c2 = c2
    Identities = {srv, m1}
    Codes = {c1}
    HostNames = {n1}
    AppNames = {p1}
    Commits = {k1}
    WorkloadNames = {}
    Seqs = {}
    Loads = {}
    STALE_AFTER = 0
    REAP_INTERVAL = 1
    SilenceCap = 2
    MaxHosts = 1
    MaxApps = 1
    MaxDeployments = 1
    MaxConnections = 1
    Machines = {m1}
    Server = srv
    NameOf <- OneMachine
    CodeOf <- OneCode
    Prompt = TRUE
    Drops = TRUE
    Removal = FALSE
    MaxCrashes = 0
    MaxCalls = 2
CHECK_DEADLOCK FALSE
PROPERTY NothingHangsInRunning
