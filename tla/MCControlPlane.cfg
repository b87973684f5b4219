\* The server and an agent, or any two clients, in every role: two hosts enrolled,
\* drained, silent, removed; an application that comes and goes, a deployment, its log.
SPECIFICATION Spec
CONSTANTS
    Identities = {srv, a1}
    Codes = {c1, c2}
    HostNames = {n1, n2}
    AppNames = {p1}
    Commits = {k1}
    WorkloadNames = {w1}
    Seqs = {s1}
    Loads = {255}
    STALE_AFTER = 1
    REAP_INTERVAL = 1
    SilenceCap = 3
    MaxHosts = 2
    MaxApps = 1
    MaxDeployments = 1
    MaxConnections = 1
SYMMETRY SafetySymmetry
INVARIANTS TypeOK BindingIntegrity EveryHostSpentItsOwnCode WorkloadsMatchTheirHost
INVARIANT InFlightHasItsApplication
PROPERTIES SilenceIsNoticed AgentsTouchOnlyTheirHost DeploymentHistory
