\* Two agents of different names, late updates, dropped connections, crashes and removed hosts.
SPECIFICATION FleetSpec
CONSTANTS
    m1 = m1  m2 = m2  n1 = n1  n2 = n2  c1 = c1  c2 = c2
    Identities = {srv, m1, m2}
    Codes = {c1, c2}
    HostNames = {n1, n2}
    AppNames = {p1}
    Commits = {k1}
    WorkloadNames = {}
    Seqs = {}
    Loads = {}
    STALE_AFTER = 0
    REAP_INTERVAL = 1
    SilenceCap = 2
    MaxHosts = 2
    MaxApps = 1
    MaxDeployments = 1
    MaxConnections = 1
    Machines = {m1, m2}
    Server = srv
    NameOf <- TwoNames
    CodeOf <- TwoCodes
    Prompt = FALSE
    Drops = TRUE
    Removal = TRUE
    MaxCrashes = 1
    MaxCalls = 2
CHECK_DEADLOCK FALSE
SYMMETRY Exchanged
INVARIANTS JobsOfItsOwnHost SuccessIsReal
