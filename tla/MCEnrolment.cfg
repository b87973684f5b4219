\* Two machines, their codes mixed up, answers lost and processes killed.
SPECIFICATION EnrolmentSpec
CONSTANTS
    m1 = m1  m2 = m2  n1 = n1  n2 = n2  site = site  stopped = stopped  vendor = vendor
    Identities = {srv, i1, i2, i3, i4}
    Codes = {c1, c2, c3, c4}
    HostNames = {n1, n2}
    AppNames = {}
    Commits = {}
    WorkloadNames = {site, stopped}
    Seqs = {}
    Loads = {0}
    STALE_AFTER = 0
    REAP_INTERVAL = 1
    SilenceCap = 2
    MaxHosts = 2
    MaxApps = 0
    MaxDeployments = 0
    MaxConnections = 2
    Things <- Installed
    IsWindows = FALSE
    Machines = {m1, m2}
    Server = srv
    NameOf <- Names
    Commands <- NoFailure
    include_system = FALSE
    NoCode = nocode
    NoIdentity = noidentity
    Unreliable = {m1}
    MaxFaults = 2
INVARIANTS TokensFitTheirHosts HostsHaveAMachine
PROPERTY MachinesAreHeard
