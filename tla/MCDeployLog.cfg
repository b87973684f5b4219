\* Two programs that write more than a pipe holds, one crash, one request for the log at a time.
SPECIFICATION DeployLogSpec
CONSTANTS
    Identities = {srv, a1}
    agent_id = a1
    server_id = srv
    Codes = {}
    HostNames = {h1}
    AppNames = {p1}
    Commits = {k1}
    WorkloadNames = {}
    Seqs = {}
    Loads = {}
    STALE_AFTER = 0
    REAP_INTERVAL = 1
    SilenceCap = 2
    MaxHosts = 1
    MaxApps = 1
    MaxDeployments = 1
    MaxConnections = 1
    Programs = 2
    MaxLines = 2
    PipeSize = 1
    Recovery = 1000
    MaxCalls = 1
    MaxLag = 1
    Fetches = {f1}
    MaxCrashes = 1
INVARIANT FinishedLogsAreWhole
PROPERTY DeploymentsAreHeardOut
