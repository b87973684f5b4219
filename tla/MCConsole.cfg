\* One agent with its host, one application, one tab, one update in flight; a deployment
\* from a dialog, or two earlier releases and a third that a roll back puts back.
SPECIFICATION ConsoleSpec
CONSTANTS
    Identities = {srv, a1}
    server = srv
    Agents = {a1}
    Tabs = {b1}
    Codes = {c1}
    HostNames = {h1}
    AppNames = {p1}
    Commits = {k1, k2}
    WorkloadNames = {w1}
    Seqs = {}
    Loads = {0}
    STALE_AFTER = 0
    REAP_INTERVAL = 1
    SilenceCap = 2
    MaxHosts = 1
    MaxApps = 1
    MaxDeployments = 3
    Earlier = 2
    MaxDialogs = 1
    MaxConnections = 1
    Capacity = 1
    MaxLag = 1
SYMMETRY Interchangeable
INVARIANTS LivePagesAreCurrent OffersAreAccepted
