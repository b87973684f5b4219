------------------------------ MODULE Releases ------------------------------
(***************************************************************************)
(* The executor (crates/agent/src/deploy.rs) and what it leaves on the     *)
(* machine, for one application: a directory per commit, the environment   *)
(* file in it, the marker CURRENT, and what the strategy's programs make   *)
(* of them.  Attempts follow one another (the agent has one deployment     *)
(* thread); any of them may fail or be cut off by the end of the process   *)
(* at any point, also half way through a directory.  Files are copied one  *)
(* by one; a file's contents are the commit it comes from.                 *)
(***************************************************************************)
EXTENDS Tables, Integers, Sequences

CONSTANTS
    Commits, Files,     \* commits, and the paths that occur in their trees
    TreeOf,             \* the files of each commit
    EnvFile,            \* the path .env
    Environments,       \* environments that are not empty
    NoEnv,              \* the empty one
    Targets,            \* strategies on their operating system, see Target
    ExitCodes,          \* what a program may exit with
    MaxAttempts         \* bound: deployments

Strategies == {"Static files", "Dockerfile", "Docker Compose", "systemd unit",
               "IIS site swap", "Windows Service", "other"}

\* what the application's row says: an entry point and a port are given or not
Target == [strategy : Strategies, windows : BOOLEAN, entrypoint : BOOLEAN, port : BOOLEAN]

ASSUME ReleasesAssumption ==
    /\ TreeOf \in [Commits -> SUBSET Files]
    /\ EnvFile \notin Files /\ NoEnv \notin Environments
    /\ Targets \subseteq Target
    /\ ExitCodes \subseteq Int
    /\ MaxAttempts \in Nat

VARIABLES
    target,         \* how this application is deployed
    stage,          \* where the deployment thread is
    commit, env,    \* what this attempt deploys
    next,           \* the step of the strategy that runs
    releases,       \* the directories apps/<app>/releases/<sha>
    current,        \* apps/<app>/CURRENT
    host,           \* what the programs changed: see Host
    outcome,        \* of the last attempt
    attempts,
    applied         \* history: commits all of whose steps were accepted

attempt == <<commit, env>>
relVars == <<target, stage, attempt, next, releases, current, host, outcome, attempts, applied>>

-----------------------------------------------------------------------------
(* Directories and the machine *)

Names     == Files \cup {EnvFile}
Contents  == Commits \cup Environments
Directory == UNION {[S -> Contents] : S \in SUBSET Names}
Nothing   == EmptyTable

Overlay(d, e) == [f \in DOMAIN d \cup DOMAIN e |-> IF f \in DOMAIN d THEN d[f] ELSE e[f]]

\* the install directory, the last image built, whether the site, service,
\* unit or container exists, and the files and environment it runs with
Host == [installed : Directory, image : Directory, exists : BOOLEAN, serving : Directory]

Release == releases[commit]

\* what the world sees of the application
Live == IF target.strategy = "Static files" THEN host.installed ELSE host.serving

\* a commit's tree with an environment beside it
Exactly(c, e) ==
    [f \in TreeOf[c] \cup (IF e = NoEnv THEN {} ELSE {EnvFile}) |-> IF f = EnvFile THEN e ELSE c]

-----------------------------------------------------------------------------
(* The strategies: what each program does, and which exits are accepted *)

\* the status of a process that ended: an exit code, or none (a signal)
Statuses == {{c} : c \in ExitCodes} \cup {{}}

AlreadyExists == 1073

\* every failure tolerated
FaultyAccepts(ok, status) == TRUE

accepts(ok, status) ==
    CASE ok = "Tolerant" -> TRUE
      [] ok = "Zero"     -> status = {0}
      [] ok = "Robocopy" -> \E c \in status : c < 8
      [] ok = "Also"     -> \E c \in status : c \in {0, AlreadyExists}

Does(what, ok) == [does |-> what, ok |-> ok]

\* removing the old container before the new image is built
FaultySteps(t) == <<Does("remove", "Tolerant"), Does("build", "Zero"), Does("run", "Zero")>>

steps(t) ==
    CASE t.strategy = "Static files" ->
           <<IF t.windows THEN Does("mirror", "Robocopy") ELSE Does("merge", "Zero")>>
      [] t.strategy = "Dockerfile" ->
           <<Does("build", "Zero"), Does("remove", "Tolerant"), Does("run", "Zero")>>
      [] t.strategy = "Docker Compose" ->
           <<Does("build", "Zero"), Does("up", "Zero")>>
      [] t.strategy = "systemd unit" ->
           IF t.entrypoint
           THEN <<Does("merge", "Zero"), Does("write", "Zero"), Does("reload", "Zero"),
                  Does("enable", "Zero"), Does("restart", "Zero")>>
           ELSE <<Does("merge", "Zero"), Does("reload", "Zero"), Does("restart", "Zero")>>
      [] t.strategy = "IIS site swap" ->
           IF t.port
           THEN <<Does("stop", "Tolerant"), Does("mirror", "Robocopy"), Does("create", "Tolerant"),
                  Does("start", "Zero")>>
           ELSE <<Does("stop", "Tolerant"), Does("mirror", "Robocopy"), Does("start", "Zero")>>
      [] t.strategy = "Windows Service" ->
           IF t.entrypoint
           THEN <<Does("stop", "Tolerant"), Does("mirror", "Robocopy"), Does("create", "Also"),
                  Does("start", "Zero")>>
           ELSE <<Does("stop", "Tolerant"), Does("mirror", "Robocopy"), Does("start", "Zero")>>

(* The programs *)

\* a program that did all of its work
Done(does) ==
    CASE does = "merge"  -> [host EXCEPT !.installed = Overlay(Release, @)]
      [] does = "mirror" -> [host EXCEPT !.installed = Release]
      [] does = "build"  -> [host EXCEPT !.image = Release]
      [] does = "remove" -> [host EXCEPT !.serving = Nothing, !.exists = FALSE]
      [] does \in {"run", "up"} ->
           [host EXCEPT !.exists = TRUE,
                        !.serving = Overlay(Restrict(Release, {EnvFile} \cap DOMAIN Release),
                                            Restrict(host.image, Files \cap DOMAIN host.image))]
      [] does = "stop"   -> [host EXCEPT !.serving = Nothing]
      [] does \in {"create", "write"} -> [host EXCEPT !.exists = TRUE]
      [] does \in {"start", "restart"}     -> [host EXCEPT !.serving = host.installed]
      [] does \in {"reload", "enable"}     -> host

CanBeDone(does) ==
    CASE does \in {"run", "create"} -> ~host.exists
      [] does = "start"             -> host.exists /\ host.serving = Nothing
      [] does = "restart"           -> host.exists
      [] OTHER                      -> TRUE

\* a program that failed, or was cut off: some of its work is done
Partly(does) ==
    CASE does = "merge"  -> {[host EXCEPT !.installed = Overlay(Restrict(Release, S), @)] :
                                S \in SUBSET DOMAIN Release}
      [] does = "mirror" -> {[host EXCEPT !.installed =
                                 Overlay(Restrict(Release, S), Restrict(@, K))] :
                                S \in SUBSET DOMAIN Release, K \in SUBSET DOMAIN host.installed}
      [] does = "run"    -> {host, [host EXCEPT !.exists = TRUE]}
      [] does \in {"up", "restart"} -> {host, [host EXCEPT !.serving = Nothing]}
      [] does = "start"  -> {host}
      [] OTHER           -> {host, Done(does)}

\* robocopy's documented codes below 8 say that everything was copied
Completed(does, status) ==
    IF does = "mirror" THEN \E c \in status : c \in 0 .. 7 ELSE status = {0}

\* how a program may end and what it may leave
After(does, status) ==
    IF Completed(does, status) THEN {h \in {Done(does)} : CanBeDone(does)}
    ELSE IF status = {AlreadyExists} THEN {h \in {host} : does = "create" /\ host.exists}
    ELSE Partly(does)

-----------------------------------------------------------------------------
(* One attempt *)

ReleasesInit ==
    /\ target \in Targets
    /\ stage = "idle" /\ next = 1
    /\ commit \in Commits /\ env = NoEnv
    /\ releases = EmptyTable
    /\ current = "none"
    /\ host \in [installed : {Nothing}, image : {Nothing}, exists : BOOLEAN, serving : {Nothing}]
    /\ outcome = "none" /\ attempts = 0 /\ applied = {}

\* the thread takes a job whose claim was sent
Begin(c) ==
    /\ stage = "idle"
    /\ attempts < MaxAttempts
    /\ commit' = c
    /\ env' = NoEnv
    /\ stage' = "clear"
    /\ outcome' = "none"
    /\ attempts' = attempts + 1
    /\ UNCHANGED <<target, next, releases, current, host, applied>>

FaultyMustClear == FALSE

MustClear == commit \in DOMAIN releases /\ Release # Nothing

\* remove_dir_all, one entry at a time
ClearEntry(f) ==
    /\ stage = "clear"
    /\ MustClear
    /\ f \in DOMAIN Release
    /\ releases' = [releases EXCEPT ![commit] = Drop(@, f)]
    /\ UNCHANGED <<target, stage, attempt, next, current, host, outcome, attempts, applied>>

CreateRelease ==
    /\ stage = "clear"
    /\ ~MustClear
    /\ releases' = IF commit \in DOMAIN releases THEN releases ELSE Put(releases, commit, Nothing)
    /\ stage' = "fetch"
    /\ UNCHANGED <<target, attempt, next, current, host, outcome, attempts, applied>>

\* the source, then the environment as the server has it now
Fetch(e) ==
    /\ stage = "fetch"
    /\ env' = e
    /\ stage' = "unpack"
    /\ UNCHANGED <<target, commit, next, releases, current, host, outcome, attempts, applied>>

UnpackEntry(f) ==
    /\ stage = "unpack"
    /\ f \in TreeOf[commit] /\ (f \in DOMAIN Release => Release[f] # commit)
    /\ releases' = [releases EXCEPT ![commit] = Put(@, f, commit)]
    /\ UNCHANGED <<target, stage, attempt, next, current, host, outcome, attempts, applied>>

Unpacked == TreeOf[commit] # {} /\ \A f \in TreeOf[commit] : f \in DOMAIN Release /\ Release[f] = commit

\* nothing is written for an empty environment
EnvWritten(d, e) == IF e = NoEnv THEN d ELSE Put(d, EnvFile, e)

WriteEnv ==
    /\ stage = "unpack"
    /\ Unpacked
    /\ target.strategy # "other"
    /\ releases' = [releases EXCEPT ![commit] = EnvWritten(@, env)]
    /\ stage' = "steps"
    /\ next' = 1
    /\ UNCHANGED <<target, attempt, current, host, outcome, attempts, applied>>

\* a strategy nobody knows is noticed after the file is written
RefuseStrategy ==
    /\ stage = "unpack"
    /\ Unpacked
    /\ target.strategy = "other"
    /\ releases' = [releases EXCEPT ![commit] = EnvWritten(@, env)]
    /\ stage' = "idle"
    /\ outcome' = "failed"
    /\ UNCHANGED <<target, attempt, next, current, host, attempts, applied>>

\* leaving the loop after the first step
HastyIsLast  == TRUE

IsLast == next = Len(steps(target))

step == steps(target)[next]

\* a program of the strategy ends in a way its step accepts
StepAccepted(status) ==
    /\ stage = "steps"
    /\ accepts(step.ok, status)
    /\ host' \in After(step.does, status)
    /\ IF IsLast THEN stage' = "mark" /\ UNCHANGED next
                 ELSE next' = next + 1 /\ UNCHANGED stage
    /\ applied' = IF next = Len(steps(target)) THEN applied \cup {commit} ELSE applied
    /\ UNCHANGED <<target, attempt, releases, current, outcome, attempts>>

\* or in another
StepRejected(status) ==
    /\ stage = "steps"
    /\ ~accepts(step.ok, status)
    /\ host' \in After(step.does, status)
    /\ stage' = "idle"
    /\ outcome' = "failed"
    /\ UNCHANGED <<target, attempt, next, releases, current, attempts, applied>>

\* fs::write truncates, then writes
OpenCurrent ==
    /\ stage = "mark"
    /\ current' = "empty"
    /\ stage' = "record"
    /\ UNCHANGED <<target, attempt, next, releases, host, outcome, attempts, applied>>

MarkCurrent ==
    /\ stage = "record"
    /\ current' = commit
    /\ stage' = "idle"
    /\ outcome' = "succeeded"
    /\ UNCHANGED <<target, attempt, next, releases, host, attempts, applied>>

\* an error anywhere: a directory, a request refused, an archive that is
\* empty or climbs out, a program that is not there
Fail ==
    /\ stage # "idle"
    /\ stage' = "idle"
    /\ outcome' = "failed"
    /\ UNCHANGED <<target, attempt, next, releases, current, host, attempts, applied>>

\* the process ends, and with it the program it runs
Crash ==
    /\ stage # "idle"
    /\ stage' = "idle"
    /\ outcome' = "lost"
    /\ host' \in IF stage = "steps" THEN Partly(step.does) ELSE {host}
    /\ UNCHANGED <<target, attempt, next, releases, current, attempts, applied>>

ReleasesNext ==
    \/ \E c \in Commits : Begin(c)
    \/ \E f \in Names : ClearEntry(f) \/ UnpackEntry(f)
    \/ CreateRelease
    \/ \E e \in Environments \cup {NoEnv} : Fetch(e)
    \/ WriteEnv
    \/ RefuseStrategy
    \/ \E status \in Statuses : StepAccepted(status) \/ StepRejected(status)
    \/ OpenCurrent
    \/ MarkCurrent
    \/ Fail
    \/ Crash

ReleasesSpec == ReleasesInit /\ [][ReleasesNext]_relVars

-----------------------------------------------------------------------------
(* Properties *)

\* Types; while the steps run, the one at hand is a step of the plan
\* (deploy.rs:216).
ReleasesTypeOK ==
    /\ target \in Targets
    /\ stage \in {"idle", "clear", "fetch", "unpack", "steps", "mark", "record"}
    /\ commit \in Commits /\ env \in Environments \cup {NoEnv}
    /\ stage = "steps" => next \in 1 .. Len(steps(target))
    /\ IsTable(releases, Commits, Directory)
    /\ current \in Commits \cup {"none", "empty"}
    /\ host \in Host
    /\ outcome \in {"none", "succeeded", "failed", "lost"}
    /\ attempts \in 0 .. MaxAttempts
    /\ applied \subseteq Commits

\* A retry inherits nothing (deploy.rs:182): whatever earlier attempts at this
\* commit left behind, the programs start in a directory that holds its tree
\* and the environment fetched for this attempt, and nothing else.
RetriesInheritNothing ==
    stage \in {"steps", "mark", "record"} => Release = Exactly(commit, env)

\* "Deployment succeeded." is true: the application then runs with every file
\* of the commit and with the variables fetched for it, and CURRENT says so,
\* although steps whose failure is tolerated may have failed on the way.
SuccessIsServed ==
    outcome = "succeeded" =>
        /\ current = commit
        /\ \A f \in DOMAIN Exactly(commit, env) :
               f \in DOMAIN Live /\ Live[f] = Exactly(commit, env)[f]

\* Strategies that replace what was there leave nothing of an earlier release
\* or of a failed attempt in what runs, a removed variable included.  The two
\* that copy over it (static files and systemd units on Unix) are excepted: they keep
\* what the new release no longer has and, when the last variable was removed, the old
\* environment file, although "a variable removed in the interface actually disappears
\* from the host" (deploy.rs:577).
NothingOldIsServed ==
    outcome = "succeeded" /\ steps(target)[1].does # "merge" => Live = Exactly(commit, env)

\* CURRENT never names a release whose steps did not all succeed once,
\* whatever failed or was cut off since.
CurrentWasApplied == current \in applied \cup {"none", "empty"}

\* What runs is touched only when its replacement is ready: the release is
\* whole, and for a container its image is built, so that a deployment which
\* cannot be fetched, unpacked or built leaves the application alone.
ReplacedOnlyWhenReady ==
    [][Live' # Live =>
          /\ Release = Exactly(commit, env)
          /\ target.strategy \in {"Dockerfile", "Docker Compose"} => host.image = Release]_relVars
=============================================================================
