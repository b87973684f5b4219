# DigiHost in TLA+

DigiHost deploys applications to machines. This directory holds its
specification: modules translated from the Rust source, the TLC configurations
that check them on small instances, and proofs that TLAPS checks for every
instance. `PROJECT.json` lists the runs, the source lines of every definition,
the hazards each property is for, and the findings.

    tlc -workers 2 -config MCFleet.cfg MCFleet.tla      # any run
    tlapm ControlPlaneProofs.tla                        # any module of proofs

## The system

| component | source | state it keeps | operations |
|---|---|---|---|
| control plane | `crates/module/src/lib.rs` | SpacetimeDB tables: hosts, bindings of identities to hosts, the operator, enrolment codes, workloads, applications, deployments, logs | 15 reducers, connect and disconnect callbacks, the scheduled sweep |
| agent | `crates/agent/src/main.rs` | `agent-state.json`, `spacetime-token`, a cache of the tables | exchange the code, connect, enrol, recover stranded deployments, poll for work, heartbeat |
| executor | `crates/agent/src/deploy.rs` | release directories, `CURRENT`, `.env` | claim, fetch source and environment, run the steps, log, report |
| probes | `crates/agent/src/probe.rs` | none | facts, load, workloads |
| store | `crates/server/src/store.rs` | `digihost.json` and its copy in memory: accounts, GitHub App, agent and API tokens, codes, environments | one method per change; each rewrites the file |
| endpoints | `crates/server/src/api.rs` | sessions in memory | operator actions (a reducer call and its verdict), sign-in, settings pages, agent endpoints |
| server start-up | `crates/server/src/main.rs`, `supervise.rs` | `server-token`, `module.sha256`, the SpacetimeDB process | start SpacetimeDB, publish the module, connect, claim the instance |
| pages | `crates/server/src/main.rs`, `fleet.rs`, `view.rs`, `assets/app.js` | the client cache, a broadcast channel, what each tab shows | row callbacks, the change stream, redraws, the log drawer |
| webhook | `crates/server/src/webhook.rs` | none | a push queues deployments |
| scripts | `deploy/update.sh` and others | the installed files | update, release |
| GitHub client | `crates/server/src/github.rs` | token and installation caches | resolve, list, fetch |
| strategy detection | `crates/server/src/detect.rs` | none | a pure function |

How they interact. The agent and the server are clients of the control plane. A
reducer call is a message on the client's connection; it runs as one serialised
transaction or is refused and changes nothing. Only the calls the server makes
with a `_then` callback learn which; the agent never does. Both read the tables
from a *cache* that updates reach later; the server also turns the cache's row
callbacks into a broadcast that makes every open tab redraw itself from that
cache. The agent additionally calls the server over HTTP: once to trade its
enrolment code for a token, and for each deployment's source and environment,
where the server checks the token's host name against the deployment's host. The
updater stops the server, replaces its files and starts it; the server itself
brings the control plane's module up to the one installed beside it.

What is hard. Calls of several clients in any order, including calls a client
has no business making; a connection that drops under a live process, and two
connections of one identity at the same time; silence and the sweep; decisions
taken from a stale cache, and pages from two tables read at different moments;
processes that die between a call and its effect, or between a publish and its
record; the order of an agent's calls being the only thing that keeps
deployments consistent; one code spent on two servers; HTTP requests that change
memory under a lock and write one file outside it, or that act on an account read
before an await; pipes that fill.

What makes each correct:

- *control plane*: rows that refer to each other never dangle where code relies
  on it; codes are single use; an agent reaches only its own host; silence is
  noticed; a deployment's record only moves forward.
- *agent*: a machine that is given a working code ends up as an online host and
  stays one; each deployment runs at most once and gets the outcome it really
  had; none hangs.
- *executor*: what is reported as succeeded is what runs, whatever failed or was
  cut off before; nothing that runs is replaced before its replacement is ready;
  no program is left waiting on a full pipe, and its output arrives whole.
- *store*: a change reported done survives; the file can always be read; someone
  can always sign in (the first two until flushes overlap, see Findings).
- *endpoints*: an answer is true; a rollback restores what ran before, once; a
  removed account loses its access; a team page offers what the server accepts.
- *start-up*: a server that serves does so over its own module and as the
  operator; it comes back after any failure.
- *pages*: a tab that was redrawn over its stream and has heard everything shows what
  the tables say, but for the names of removed applications; no host button it then
  offers is refused, and a Roll back only when there is nothing to roll back to.

## Modules

| module | models |
|---|---|
| `Tables` | a table with a primary key as a function: insert/update, delete |
| `ControlPlane` | `lib.rs`: one action per reducer and callback, the clock |
| `ControlPlaneProperties` | what it promises to any clients |
| `DeploymentLifecycle` | abstract: what an operator expects of a deployment; `Fleet` implements it |
| `ReleasePolicy` | abstract: what may be queued where, and in place of what; `OperatorActions` implements it |
| `DurableDocument` | abstract: one document and its working copy; `Store` implements it |
| `Fleet` | agents over asynchronous connections, composed with `ControlPlane` |
| `Probe` | what an agent reports of its machine |
| `Enrolment` | a machine from its code to its heartbeats, composed with `ControlPlane` and `Probe` |
| `OperatorActions` | the operator's actions of `api.rs` and `webhook.rs`, composed with `ControlPlane` |
| `Sessions` | accounts, sessions and API tokens, and what pages offer to whom |
| `Store` | `store.rs` and the first-run setup of `api.rs`, down to the file |
| `Releases` | `deploy.rs` on the machine: directories, `.env`, `CURRENT`, each strategy's programs |
| `DeployLog` | a deployment's output from the pipes to the drawer, composed with `ControlPlane` |
| `StartUp` | the server from its start to the first page, its database and its updater |
| `Console` | the change stream and the fleet page, composed with `ControlPlane` |
| `MC...` | constants and symmetry for TLC, where a configuration alone cannot say them |
| `ControlPlaneProofs`, `FleetProofs`, `OperatorProofs`, `EnrolmentProofs`, `DeployLogProofs`, `ReleasesProofs` | the theorems, each module's about the one it is named after |
| `ServerProofs`, `PagesProofs` | the theorems about `Store` and `StartUp`, and about `Console` and `Sessions` |

**ControlPlane.** The variables are the tables, by their names in the source,
plus `next_id` (the auto-increment sequences, so ids are never reused), `conn`
(connections per identity) and the clock. An early `return Err(...)` of a reducer
is a missing guard conjunct: a refused call changes nothing and is a stuttering
step. `Next` lets *every* identity call *every* reducer while connected, because
nothing in SpacetimeDB stops a client. Time is relative: a host's `silence`
counts ticks since `last_seen`; `Tick` does not pass a due sweep. Ages beyond
`SilenceCap` are one age. Columns no decision reads (addresses, versions, paths,
messages, times of day) are left out; optional timestamps are kept as
`started`/`finished`.

**Fleet.** Each machine has a program counter for its deployment thread, its
socket (`link`), the calls sent and not yet run, its cache, the `enrolled` flag on
disk, and history variables that record what really happened (`runs`,
`succeeded`). An action is what the process does between two sleeps, HTTP round
trips or child processes. `Deliver` runs the first call of a connection using
`ControlPlane`'s own actions. A crash or a drop loses any number of the last
calls. Simplifications: heartbeats, the sweep and log lines are not repeated (no
deployment depends on them); the operator's actions here are queue, roll back and
remove; the server's cache is taken to be current; source and environment are
one step; enrolment starts at the reducer call, `Enrolment` has what comes before; an agent
that is started again finds that what its old connection had sent has run or is lost
(`Enrolment` has it arrive later).

**Enrolment.** `agent[m].at` is where `main` is; `file` and `identity_file` are what
it left on disk, `pending` and `tokens` the server's side of the code,
`enrollment_token` and `host` the control plane's. `issued` are the identities
given out: a process that finds no identity on disk gets a new one. A process that
ends leaves its connection behind as `ghost`: its calls, of which the last may be
lost, and then its end, may arrive after the next process has connected; this is the only
module with such late calls. A code may
be handed to the wrong machine; `HandCode` gives a new one to a machine that is
down, not enrolled, and whose code is spent. Simplifications: the store's
change is atomic (`Store` has the steps); a connection ends only with its process
(`Fleet` drops them under a live one); hosts are not removed; one workload list per
heartbeat, of one Unix machine in the run.

**Probe.** Each list is what one command prints, filtered as the code does; a
command that fails lists nothing. It has no state of its own: `Enrolment`'s
heartbeats carry its result.

**OperatorActions.** A handler is a short script of reducer calls (`NewRequest`):
it begins with the decisions taken from the server's cache, sends a call, awaits
its verdict, sends the next, and may end by clearing an environment. `Stage` says
where it is. A verdict reaches the handler together with the updates of its
transaction (`Refresh`); until then the timer may ring, the connection drop or
the browser go away (`GiveUp`), and the call then runs with nobody waiting.
`Push` sends and awaits nothing. `origin` records, as history, what each
deployment was queued for. Simplifications: one agent that behaves as `Fleet`
shows (it finishes what is Running, once); changes of the store are one step
here; the cache, when it moves, moves to the present; forms name any row, commits
are resolved to any commit; signature, repository and branch of a push are taken
to match. `ControlPlane`'s actions are used as they are.

The abstract specification is `ReleasePolicy`, five actions: deploy anywhere; push where
something has worked; succeed, once; take back a success; replace what was taken back, once,
by an earlier success of the same place and of another commit. It knows no handlers, calls,
verdicts, caches or connections. The mapping (`Policy`) takes releases from the deployment rows, `good`
and `undone` from their statuses, and the reason from `origin`; a handler's decision from
the cache maps to nothing, and only the reducer call that runs, maybe long after, is a step.

**Sessions.** A request is at one of the points between two awaits: the session is
read (`Look`), then the account (`Admit`), then the handler runs. What it asks for is
a button of the page its browser loaded last, or, for a script, anything it can
post; it is chosen when the handler runs, which no earlier step depends on. Accounts
carry the number of their creation, so that a name that was removed and added again
is another person. Setup and change_password have their slow password check
as a step of its own. Simplifications: changes of the store are atomic; passwords
are compared, not hashed; settings that change no account (GitHub, environments)
are `Store`'s.

**Store.** A request takes the lock, changes `memory`, keeps a snapshot, releases
the lock and flushes it in three steps: open `digihost.json.tmp` (create or
truncate), write, rename. Files are inodes, so a request can still write into the
file that another has already renamed into place. A client that goes away (`GoAway`)
gets no answer and stops nothing: the write and the rename run on a thread of their own
and still land, maybe among the flushes of the next requests. `Open` includes the
migration of the old shared password. A crash loses memory and requests and keeps the
files; a write that fails ends the flush. `record` says, as history, what may be relied
on: `sound` while the last flush to land had met no other, something less after an
overlap, `relapsed` once a restart has read what an overlap had left. Passwords, tokens
and values are names; a power loss that undoes a completed write is not modelled
(the code does not fsync).

The abstract specification is `DurableDocument`: a document in place, a working copy that
may be ahead of it, and the last change reported done. `Keep` puts the copy in place, and
tells who is still there, in one step; `Muddle` is a server that puts anything in place and
is no longer `trusted`, until it keeps its copy again. The mapping (`Document`) takes what
is kept from the file a start would read, or `Torn` when it could not be read, and `trusted`
from `record`, so that opening, writing and abandoning an undisturbed `digihost.json.tmp`
must be invisible, its rename must be `Keep`, and only a flush that met another may be
`Muddle`.

**Releases.** One application, deployed again and again by one strategy, as
`Fleet` shows it: one attempt at a time. `stage` is where the deployment thread
is: clear the old directory, fetch, unpack, write `.env`, run the steps, truncate
`CURRENT` and write it. A directory is a function from paths to where their
contents come from (a commit, an environment); clearing, unpacking and copying go
entry by entry, so an attempt can end half way through each. `steps` is the
table of `deploy.rs`: per strategy, operating system and given entry point or port,
what each program does and which exits its step accepts. The programs are
external: `After` says what one may leave with each exit status, all of its work,
none or a part; `Host` is the install directory, the image, the site, service or container,
and the files it started from (`Live` is what the world sees). Simplifications: the
downloaded archive is one step with the environment (it is read only when
complete, and an unreadable one fails); trees contain no `.env` of their own; a
program dies with the agent that started it, as under a service manager that ends
the whole group, and a process it replaced is not running beside it; a restart by
the operating system, an operator at the machine and the lines of output are left
out.

**DeployLog.** One deployment, its programs one after the other. A program writes
into two pipes of `PipeSize` lines and stops while the one it wants is full; the
executor reads standard output, a thread collects standard error, which is logged
after the exit. `said` is what `log` was called with, in order; the calls, the
control plane's rows, the server's cache and the drawer carry the numbers only. A
fetch of the log reads the deployment's row and then its lines. Simplifications:
what the old connection of a crashed agent had sent has run, or is lost, by the time the
agent starts again, as in `Fleet`; the connection holds; a pipe ends with its program;
lines are UTF-8.

**StartUp.** `at` is the step of `main`; `marker`, `server_token`, `binary` and `wasm` are
files, `published` and `operator` what the database keeps, `spacetime` whose process it
is. A crash, a failed start or a failed write may happen at every step, and every step
of `update.sh` may be the last. Versions are numbers, the hash of a module its
version. Simplifications: the service manager ends what a killed server left
(`KillMode=control-group`, its default); releases only go forward; nobody but this
server claims the instance; GitHub's latest release is read correctly.

**Console.** `stream` are the transactions the subscription has not applied, `cache`
the client cache; a diff is applied as a whole and its callbacks run afterwards, one
broadcast each. A tab loads its page, then listens, then redraws whenever it hears
something; a page and a redraw read applications and hosts first, workloads and
deployments later. A heartbeat that changes nothing but `last_seen` is still announced.
The host buttons of a page are reducer calls, decided by the rows as they are when they
run. Roll back is `api::rollback`: it looks its deployment and the release before it up
in the server's cache, is refused there and then when there is none, marks the
deployment, and only then queues the earlier commit (`errands` are these second calls;
`OperatorActions` has the timeouts and overlaps of both). The server's own connection may
end (`LoseLink`); the server then serves on with the rows it had, and neither presses nor
redraws reach or come from the control plane.

The word beside the title is not in the model, because it says less than one would
think: the page is printed with *Live* (`view.rs:1146`) before it listens, only a broken
event stream changes it (`app.js:457`), and the end of the server's connection
(`main.rs:526`) does not. What the properties speak of is `redrawn`, a history variable:
the tab's open stream has redrawn it. A tab that has loaded and heard nothing yet may
say Live over rows that changed between the two.

Simplifications: the applications page, which is never redrawn, and the filters are
left out; a receiver holds `Capacity` changes, 64 in the code; the sweep and the clock,
which change rows as any other transaction does, are `ControlPlane`'s; an agent reports
the outcome of a deployment in flight only.

## Runs

| run | states | question and bounds |
|---|---|---|
| `control_plane` | 694 k | two clients of any role, two codes, two names, load 255, one application, one deployment with a log, staleness and sweep of 1 tick: enrol, die, drain, reap, remove, enrol again; the tables agree, silence is noticed, agents touch their own host only |
| `fleet` | 6.5 k | one agent, three deployments, two crashes, a connection that keeps up: exactly-once, the order of work, and the refinement of `DeploymentLifecycle` with its fairness |
| `two_machines` | 1.9 M | two agents, late updates, drops, a crash each, removed hosts, one deployment: no job of another host, no success that did not happen |
| `dropped_connection` | 172 | refutes one sentence of the source, see Findings |
| `store` | 3.2 M | two requests side by side, whose clients may leave, one crash, failed writes, three changes: nothing the last undisturbed flush landed is torn or lost, codes are spent once until a restart has read what an overlap left, someone can sign in, an administrator stays, and `DurableDocument` is implemented |
| `operator_actions` | 442 k | two requests of any kind or pushes, one dropped connection or restart, four deployments of which two succeeded before: what was asked for happens once, `ReleasePolicy` is implemented, answers are true |
| `releases` | 1.6 M | every strategy, three attempts, two commits of which the later lacks a file, two environments or none, exit codes 0, 1, 8, 1073 or a signal, failures and crashes at every point |
| `enrolment` | 204 k | two machines, one of which fails twice (a crash at any step, a lost answer, an identity that is not written, the other machine's code), four codes, four identities: tokens and hosts fit, every host has its machine, machines are heard for good |
| `sessions` | 537 k | two browsers and a script, two accounts, two sessions, one token, one password, restarts: buttons work, removed members are out |
| `start_up` | 48 k | three releases, any three faults, a database of its own or another's: the module is the installed one, the server is the operator and comes back |
| `console` | 3.6 M | one agent, host and application, one deployment from a dialog, or two earlier releases of any two commits and a third that a roll back puts back; one tab, one update in flight, a channel of one, a server connection that may end: redrawn pages are current, what they offer is not refused |
| `deploy_log` | 851 k | two programs that write two lines into pipes of one, every exit, one crash, one call, update and fetch on their way: logs are whole, deployments end |

Why the bounds are enough: reducers touch the row of one host, one deployment or
one application, so two of each show every interference between them; any of the
two identities of run `control_plane` may take every role, one after the other. A
third age beyond staleness plus one sweep distinguishes nothing. For deployments,
three let one run, one wait and one be queued behind; two crashes let recovery
itself be interrupted. The store has two requests, since flushes overlap in pairs and
two administrators remove each other; three changes are the least in which an overlap of
two is followed by a flush that met no other, or by a restart and another change. Of three attempts at a release
the first may succeed, the second leave something half done and the third inherit
it; a second commit without one of the files is the least in which something old can
be served. The operator's requests interfere in pairs: two rollbacks, a removal and a
deployment, a registration and a push. Enrolment goes wrong between two machines, one
of which may fail: two faults let the recovery from the first one fail, four codes
replace those spent on them, and the fourth identity is there for a machine that lost
its own. With two accounts there can be one administrator who removes the other, or
both removing each other; a name that is removed does not come back, because `MaxAccounts`
counts all ever created (three do not fit into a run; the theorems take any number). Two browsers and a script let one act on what the other has just changed. Three
releases let an update be cut, followed by another. A channel of one change
overflows with the second; a redraw and a transaction behind it are all a tab can
mix up. Two lines fill a pipe of one in one program, or come from two programs.
The console's three deployments are the least with something to roll back to, something to
roll back, and the release that replaces it; `MaxDialogs` keeps the dialogs from queueing the
second and third. Symmetry is used in runs of safety properties: `control_plane`, over
identities, names and codes that no definition distinguishes, `two_machines`, where exchanging
the two machines together with their names and codes changes nothing (`Exchange`), `store`,
over requests, and `console`, over commits.

`CHECK_DEADLOCK FALSE` is set where the bounds let the model stop: the fleet once
every deployment is done and crashes are used up, the store when its changes are,
the operator's actions when their inputs are, releases when the attempts are, and
the server when it serves the last release and nothing may fail any more.

**Fairness.** `ControlPlane`: the clock and the schedule, nothing of the clients.
`Fleet`: each agent's own steps (a thread that is not blocked goes on; commands
and requests end), delivery and updates on a live connection, and restart of a
process that is *down* (its service manager); never the operator, and never a
restart of a process that is up. `Enrolment`: the same for `main` and for both of a
machine's connections; strong fairness of `HandCode` stands for an operator who
keeps handing a working code to a machine that is down without one, the one thing the
model asks of a person, because without it a machine whose answer was lost never
enrols. `Sessions`: a browser's request that the server has taken up goes on; nobody has
to sign in or ask. `StartUp`: the service manager starts the server again, the
database comes up, `main` and a started updater go on; nobody has to release.
`DeployLog`: threads run, a program that is not kept waiting ends, calls and updates
arrive, the agent is started again; nobody has to look. `OperatorActions`, `Store`, `Releases`
and `Console` have only safety properties, and no fairness.

**Assumptions of single runs.** `Prompt = TRUE` (run `fleet`) says that the
agent's own pauses, 2 and 3 seconds or an HTTP round trip, outlast the delivery of
its calls and the updates they cause. Without it exactly-once fails: if the update
of its claim arrives after the next look, the agent takes up the same deployment
again, and the control plane's refusal is never seen. `two_machines` drops the
assumption and checks what must hold regardless. `HostsHaveAMachine` and
`MachinesAreHeard` exempt machines that lost an enrolment call or their identity, and
`ServesAsOperator` a server that lost its own; what happens then is below.

**Faulty definitions.** A definition named `Faulty...`, `NoRecovery`,
`AnythingForMe`, `HastyMayContinue`, `HastyIsLast` or `ForgetfulSpent` is a plausible
bug in the definition next to it (a dropped guard, a missing reset, a wrong order). No
specification uses one: `PROJECT.json` pairs each property with one that violates it,
to show that the property depends on the code.

## Findings

*A dropped connection strands the agent* (`agent/main.rs:265`, run
`dropped_connection`): the process lives on without reconnecting; its reports
are lost and the deployment stays Running, the very thing `deploy.rs:120` says must
not happen.

The others are behaviour that a property of a passing run has to except; `PROJECT.json`
quotes the lines.

*An offline host is resurrected* (`lib.rs:402`; `SilenceIsNoticed`). "Never resurrects an
offline host", says the comment, and `src/README.md:190` that clearing the flag cannot. But
an Offline host may be set Draining, and clearing that makes it Online, with no agent; work
is queued for it until the next sweep. The property says that this is the one way
(`DrainsAnOfflineHost`).

*Flushes overlap* (`store.rs:190`, `store.rs:399`; `NeverTruncated`, `RedeemedOnce`). All
flushes write the same temporary file, outside the lock, and one whose client has left goes on.
One may rename into place the file another has just truncated, and a crash or a failed write
then leaves a document that cannot be read. Snapshots land in any order: an older one may be
renamed last, and after a restart a spent code is usable again and a change reported done is
gone. It takes two requests, or one that was given up and another. The properties say how far
it reaches: a later flush that met no other repairs it, unless a restart comes first.

*A removed application is not a fleet change* (`main.rs:534`; `LivePagesAreCurrent`). "Any row
change in any subscribed table is a fleet change", but no callback is registered for the
removal of an application, and open pages name it until something else changes.

*A removed variable stays* (`deploy.rs:580`; `NothingOldIsServed`). When an application's last
variable is removed no `.env` is written, and the Unix strategies that copy a release over the
install directory leave the old one in force, with every variable, although "a variable
removed in the interface actually disappears from the host".

Other things the models show, or had to leave out to show anything else. They are
described here without a run of their own.

*Hosts.* Draining is stored only as the status, so Offline overwrites it and the next
heartbeat puts the host back into rotation (`lib.rs:638`). `delete_host` removes the host of
an agent that is connected but silent, or whose previous connection closed after the new one
opened (it tests the status, its comment says "connected"). The Running deployments
of a removed host never resolve, because `recover_stranded` returns when the host row
is gone. `finish_deployment` looks at no status: it is the agent's order of calls that keeps
deployments from finishing unstarted or twice.

*Enrolment.* A machine whose enrolment request is lost after `enrolled` was saved
believes it is enrolled and heartbeats to nobody (`agent/main.rs:303`). One whose
identity file could not be written becomes a stranger at its next start, while its host
keeps the name. The code is sent as the operator typed it, but the server trims
it. The agent finds its host by name, so when a machine of the same name holds the row,
the agent whose enrolment was refused works on that one's deployments.

*Deployments.* A robocopy that
dies with an NTSTATUS code reports a negative number, which `c < 8` accepts
(`deploy.rs:60`), so that a deployment succeeds with half a copy: with such a code in
`ExitCodes`, `SuccessIsServed` fails. `CURRENT` keeps naming the old release after a
later attempt failed that had already replaced what runs. A line of output that is not
UTF-8 ends the reading of its stream (`map_while`), and a program that goes on
writing there is ended by the broken pipe.

*The operator's actions.* A rollback whose second call is refused (the host is not
Online) leaves the record marked RolledBack with nothing queued in its place, although
`api.rs:472` calls that a lie (the operator does get an error). A removal answered with
an error after 15 seconds may still run and then leaves the application's environment
behind for the next application of that name, and one that succeeded clears the
environment of an application registered under that name meanwhile. The webhook counts
as queued what it only sent.

*Accounts and the store.* First-run setup tests `is_claimed` and adds the account later,
so two visits at once both make an administrator. A session names its user: one issued
for an account that was removed is valid again once an account of that name is added,
and a password reset ends no session. A request that was admitted before
a removal finishes after it, although `api.rs:95` has it take effect immediately.

*Start-up.* An update that is cut after the binaries and before the module leaves the
updater believing the release is installed ("already on"), while the server runs over
the module of the previous one, until `--force`. A server that lost `server-token`
serves but is not the operator, and every action of its pages is refused. A release
installed by hand that is older than the recorded one is outside the model.

*GitHub.* The client is built once, at start: credentials forgotten on the settings page are
used until the next restart, as new ones wait for it (`api.rs:774`). The installation id of an
owner is cached without expiry (`github.rs:179`), so after the App was uninstalled and
installed again every private fetch fails until then too.

*Pages.* A page is labelled Live before it listens, so what happened between loading and
listening is missing until the next change; and it stays Live when the server loses its own
connection, after which no page changes and every action is answered with an error until the
server is restarted (`main.rs:526`). The page of a host that is not Online, or of a removed
application, offers a Roll back that marks the deployment and puts nothing in its place.
The deploy dialog offers hosts that `queue_deployment` refuses. The applications page is
never redrawn. Answers for the log drawer may land in any order and after it was closed;
each is true to some moment, which is what `FinishedLogsAreWhole` relies on.

## Proofs

`ControlPlaneProofs` proves, for any identities, hosts, applications, deployments
and time constants (from `TimeAssumption`, `DataAssumption` and
`BoundAssumption`): `TypeOK`, all other state invariants of run `control_plane`
(`BindingIntegrity`, `EveryHostSpentItsOwnCode`, `InFlightHasItsApplication`,
`WorkloadsMatchTheirHost`), `TimesAgreeWithStatus`, and three action properties
(`DeploymentHistory`, `SilenceIsNoticed`, `AgentsTouchOnlyTheirHost`). The argument:

- *IdsAreFresh*: every row's id is below the next one. None of the rest is
  inductive without it, since an insert could otherwise overwrite a row.
- *HostsAgree*: type, fresh ids, bindings and codes together. A new host's id is
  named by no binding and no code; a removed host takes its binding along.
- *DeploymentsAgree*: an in-flight deployment keeps its application because
  removal looks at the statuses, so statuses and times are proved with it.
- *WorkloadsAgree*: rows and counts; a heartbeat's count is the cardinality of the
  set it inserts (`ReportedCount`).
- The action properties follow from the type invariant (and fresh ids) by a case
  for every reducer. For silence, `Tick` adds one to both sides; a sweep leaves
  nothing overdue.

Five modules compose `ControlPlane` with its clients. Each of their proofs shows that every
step of the composition, its crashes, drops and late deliveries included, is a step of
`ControlPlane`'s `Next` or leaves its tables alone (`AgentsAreClients`, `OperatorIsAClient`,
`MachinesAreClients`, `ConsoleIsAClient`, and `LoggingIsAClient`, which takes every natural
number as the number of a line, `Nat \subseteq Seqs`). In the first four the invariant of any
clients is then part of their own, and the rest of it is about what is new: the calls in
flight, the caches, and what the processes hold. `DeployLogProofs` needs less of the tables,
one deployment and its agent's binding, and states that itself (`MayReport`).

`FleetProofs` proves, for any number of machines, applications, deployments, crashes and
calls in flight (`FleetAssumption`), what the runs `fleet` and `two_machines` check:

- `SuccessIsReal`, from `HonestCalls`: a finish call in flight that says it went well is of
  a deployment whose steps have ended on that machine.
- `JobsOfItsOwnHost`, when machines have different names, from `OwnWork`: the row a
  machine finds under its name is its own, in the tables and in any cache it may have; one
  that changes hands takes its bindings along.
- `AppliedAtMostOnce` and `OldestFirst`, for different names and codes
  and `KeepsUpAlways` (updates outrun the agent's pauses, connections hold; see *Assumptions
  of single runs*), from `WorkInv`. Its parts say of each machine: a claim in flight is of
  the job at hand; a report in flight is the only one of its deployment, which is Running;
  what was run was claimed before; the jobs ahead are queued, in order, and nothing that
  waits is older. What the list of jobs is, in order and complete, is stated once, in
  `OldestSorts` and `JobsFound`.
- `LivesAsExpected`, under the same hypotheses, the safety half of the refinement: each step
  is, for each deployment, a step of `DeploymentLifecycle` or a stutter.

`OperatorProofs` proves every property of the run `operator_actions`, for any number of
requests, pushes, failures and rows (`OperatorAssumption`). `RolledBackOnce` is the hard
one. `OneRight` says that for a deployment d there is at most one right to queue a release
in its place: it arises when the call that marks d is accepted, is held by that handler, is
carried by its second call, and is spent on a deployment; none exists before d is marked,
and a mark is never taken back. `RollbackRestores` and `PushesInventNoTarget` need
`CacheIsPast` (what the cache says was true once, and what it says of finished deployments
still is) and that a call keeps its justification while it is in flight
(`JustifiedCalls`). `SuccessMeansDone` and `EnvironmentGoesLast` follow from `ScriptsOK` and
`AwaitedCalls`, which tie a handler's place in its script to the calls that have run.

`PolicyIsKept` is the refinement of `ReleasePolicy`, from the same invariant. The step that
needs it is a call that queues (`QueueIsAllowed`): that a push's target has worked and that
a rollback's predecessor is of the same place, earlier, good and another commit is its
`Justified`, decided from a cache of any age; that what it replaces is taken back and not
yet replaced is `OneRight`, because the call that runs carries the right. All
other steps change one status or none (`OtherStepsAreAllowed`).

`EnrolmentProofs` proves `TokensFitTheirHosts` and `HostsHaveAMachine`, for any number of
machines, identities, codes and faults (`EnrolmentAssumption`). An enrolment in flight,
over the present connection or one left behind by a process that has ended, carries a code
that its own machine has redeemed (`CodesInUse`), which only one machine can have done; it runs
as an identity that is on that machine's disk, because the identity is written before the
enrolment is sent (`Phases`). No two machines ever own one identity (`OneOwnerEach`).

`PagesProofs` proves `LivePagesAreCurrent` of `Console`, for any number of tabs, any receiver, any
number of updates in flight and of earlier releases (`ConsoleAssumption`), and with the server's
connection up or lost. `OneHistory` says that cache, stream and tables are points of one history,
along which applications keep their names and no deployment is lost, so that a page built from
two of them is what the later one says; after the connection is lost the stream holds what never
arrives. `Current` says that the rows read for a page are out of date only while a change is
waiting, lost by a lagging receiver, or about to be announced, each of which makes the tab read
again. With nothing on its way the cache is the tables. `OffersAreHonoured` proves
`OffersAreAccepted` from the same: each button a page then offers is a call whose tests all pass.
The tests (`RequireOperator`, `IsRemovable`, `IsDrainable`, `IsRollbackable`) are the guards of
the reducers themselves, under a name.

The same module proves, for any number of browsers, scripts, accounts, sessions and tokens
(`SessionsAssumption`), what holds of `Sessions`, from `AccessInv`:

- `ClaimedIsAdministered`: an instance that was claimed keeps an administrator. A handler acts
  on what was read before, so the invariant (`Governed`) also says that whatever request is
  past its first test, the instance is claimed; setups that race each add an administrator.
- `CredentialsAreOnesOwn`: a request is made in the name its own session was issued to, and a
  token gives nobody a rank (`Fits`); no two browsers hold one session, no two tokens a name.
- `AccountsChangeByRight`, an action property: who may remove, reset or add whom, by what was
  read when the request was let in. The password that `change_password` sets without looking
  at a rank is always the caller's own.
- `ButtonsWork`. The last administrator is offered for removal on no page but his own, and
  a page does not offer one's own removal.

`DeployLogProofs` proves `FinishedLogsAreWhole`, for any number of programs, lines, crashes and
requests for the log, and for pipes and queues of any size (`DeployLogAssumption`). The
invariant follows a line on its way:

- *Executing*: what was written and is not yet told is in the pipe or with the stderr thread,
  in order (`Waiting`); the streams run dry one after the other, and nothing is left over
  between two programs (`Stages`). So all is told before the outcome is decided.
- *Reporting*: the calls of an attempt are numbered, its start, its lines, its outcome; they
  run in that order, so that an outcome that has run has every line before it (`Underway`).
  Once an agent has come back to a deployment it left half way, the log has the recovery line
  before the outcome (`Recovered`).
- *Watching*: whoever has seen an outcome (the cache, a request half way between the row and the
  lines, the drawer) has seen the last there is to see, because no line follows an outcome. This is why
  reading the row first is right.
- Numbers without a gap sort into the order they were said in (`InOrder`, `ShownAsSaid`).

It also proves `NeverStuck` (`NobodyIsStuck`), the safety half of `DeploymentsAreHeardOut`: while the
deployment has no outcome, a call is on its way or somebody's next step is open, for pipes of any
size. It needs `OutcomeComes` beside the invariant: while output is read there is a program or
its status, and an executor that is done has its outcome on the way. `NeverStuck` is stated by
the guards of the actions, because `ENABLED` is out of the provers' reach.

`ServerProofs` proves of `Store`, for any number of requests side by side, with crashes and
failed writes (`StoreAssumption`):

- `StoreTypeOK`. The step that is not routine is opening the temporary file: a new
  file must exist that no request holds and that is not in place. There are three
  more files than requests, and the requests, the boot flush and `digihost.json`
  hold at most two more than that (`AFileIsFree`, a pigeonhole argument).
- `LastAdministratorStays` and `SomeoneCanSignIn`, from `AdministeredInv`: memory
  is fresh or administered, every document being flushed is administered, and every
  whole file is administered or still the old one. Flushes may overlap and land in
  any order without breaking it, which is why it holds although they may lose changes.
- `NeverTruncated`, `AckedIsDurable` and `RedeemedOnce`, from `DurableInv`, which says what
  the disk keeps while `record` is `"sound"`, however many requests overlap, go away half
  way or fail. *FlushInv*: of two flushes under way at least one counts as disturbed, and
  an undisturbed one has the document in memory and the temporary file to itself.
  *FileInv*: a sound file is whole, has what was acknowledged, and nobody writes to it any
  more. *CopyInv*: memory is behind nothing that is or will be acknowledged, unless
  a restart has already gone back. *CodesSpent*: a code that brought an agent its token is
  pending neither in memory nor in a sound file, and no two requests are about to
  answer with it. `EveryChangeIsLawful` says once what an operation may do to the codes:
  nothing, mint a new one, or spend a pending one.
- `ImplementsDocument`, from the same invariant: every step of the file, its temporary
  file and the requests is a step of `DurableDocument` or none. Nothing is assumed about
  how flushes overlap; what overlapping ones may do to the file is `Muddle` there, and
  under *Findings*.

`ReleasesProofs` proves every property the run `releases` checks, for any commits,
trees, environments, targets and exit codes (`ReleasesAssumption`), however many
attempts fail or are cut off:

- `ReleasesTypeOK`, from `OnTrack` (below) and `Typed`.
- `RetriesInheritNothing`, from `Prepared`: while unpacking the directory holds
  only files of the commit, since it was empty when the source was fetched.
- `CurrentWasApplied`, from `Marked`: a commit is on its way into `CURRENT` only
  after its last step was accepted.
- `ReplacedOnlyWhenReady`, from `OnTrack`: past its first step a container's image
  is the release. `Plans` states once, by cases on the strategy, how each
  plan begins and ends and which exits it accepts; nothing later looks at the table.
- `SuccessIsServed` and `NothingOldIsServed`, from `Served`: what the steps run so
  far have put in place, up to `Runs` after the last one. Needs
  `ExitCodes \subseteq Nat`, see the robocopy above. The case that is not routine is a
  step whose failure was tolerated: the exit of a later one shows that its work is there.

`ServerProofs` proves of `StartUp`, for any number of releases, identities and faults
(`StartUpAssumption`):

- `ServesInstalledModule`, from `SchemaInv`. The marker is written after the publish
  and may be lost, so it may be behind the database but never ahead of it; files are
  replaced only under a stopped server and only by later versions. Then a marker equal
  to the installed version forces the published version between them to be equal too.
- `ServesAsOperator`, from `Identity`: unless the file was lost, the operator, if there is
  one, is the identity in `server-token`, and past `Persist` so is the connection.
- `StartUpTypeOK`, from both.

The type invariants of these modules, and `TimesAgreeWithStatus`,
`RetriesInheritNothing`, `NeverStuck`, `AckedIsDurable` (`AnswersAreKept`) and
`PushesInventNoTarget` (`PushesHavePrecedents`), are proved and no run repeats them; the last
two are part of what the refinements say, which the runs do check.

Only model-checked: liveness (`MachinesAreHeard`, `RemovedMembersAreOut`, `ServerComesBack`, `DeploymentsAreHeardOut`) and the fairness half of the
refinement of `DeploymentLifecycle`, out of the provers' reach. Every safety property a
passing run checks is proved.

## Not modelled

- The GitHub client: requests behind two caches that no other component reads, whose
  stale entries end in an error from GitHub (see *GitHub* above). Listing and inspecting repositories, and resolving branches, are
  calls of it; where an action depends on the answer, any answer is taken.
- Strategy detection: a pure decision list over file names with unit tests of its own.
- The check for a newer release, which sets a badge.
- Wording, times, meters, filters, dialogs and layout of pages; signature and password
  cryptography; parsing of `.env`; the serialisation in the generated bindings.
- Building and publishing a release (`deploy/release.sh`, `.github/`), which drive compilers and
  package managers.

## Plan

1. Two hosts behind a push in `operator_actions`, which the theorems cover and the run, with
   one host, does not.
