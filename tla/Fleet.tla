-------------------------------- MODULE Fleet --------------------------------
(***************************************************************************)
(* Agents (crates/agent/src/main.rs and Executor::run of deploy.rs) against *)
(* the control plane.  A reducer call is fire-and-forget: it travels on the *)
(* connection in order and a refusal is never seen.  What the process reads *)
(* is its own cache of the tables, filled by updates that arrive later.     *)
(*                                                                         *)
(* An action of the process is what it does between two sleeps, HTTP round *)
(* trips or child processes.  Heartbeats and the reaper are not repeated   *)
(* here (ControlPlane has them): they touch no deployment.                 *)
(***************************************************************************)
EXTENDS ControlPlane, SequencesExt

CONSTANTS
    Machines,     \* the identities of the agents, one per state directory
    Server,       \* the identity of DigiHost Server, the operator
    NameOf,       \* the host name each machine identifies as (probe::facts)
    CodeOf,       \* the enrolment code each machine was given
    Prompt,       \* the connection keeps up with the process's own pauses
    Drops,        \* the connection may drop under a live process
    Removal,      \* the operator may delete hosts
    MaxCrashes,   \* bound: crashes of each agent process
    MaxCalls      \* bound: calls of a live connection not yet handled

ASSUME FleetAssumption ==
    /\ Machines \subseteq Identities /\ Server \in Identities \ Machines
    /\ NameOf \in [Machines -> HostNames] /\ CodeOf \in [Machines -> Codes]
    /\ {Prompt, Drops, Removal} \subseteq BOOLEAN
    /\ MaxCrashes \in Nat /\ MaxCalls \in Nat \ {0}
    /\ MaxApps > 0 /\ MaxConnections > 0    \* room for what FleetInit holds

VARIABLES
    pc,           \* where each agent's deployment thread is
    jobs,         \* the rest of the list queued_for_me returned, ids
    link,         \* the process's socket is up
    calls,        \* reducer calls sent and not yet handled
    cache,        \* the process's copy of the host and deployment tables
    enrolled,     \* AgentState.enrolled, on disk
    crashes,
    \* history: what really happened on the machines
    runs,         \* how often each machine applied each deployment (2: more than once)
    succeeded     \* deployments some machine applied successfully

agentVars == <<pc, jobs, link, calls, cache, enrolled, crashes, runs, succeeded>>
fleetVars == <<vars, agentVars>>

-----------------------------------------------------------------------------
NoTables == [host |-> EmptyTable, deployment |-> EmptyTable]

Published == [host |-> [h \in DOMAIN host |-> host[h].name],
            deployment |-> [d \in DOMAIN deployment |->
                [host_id |-> deployment[d].host_id, status |-> deployment[d].status]]]

\* The operator has claimed the instance, registered an application and minted
\* a code per machine; no agent has run yet.
FleetInit ==
    /\ host = EmptyTable
    /\ agent_binding = EmptyTable
    /\ operator = {Server}
    /\ enrollment_token = [c \in Range(CodeOf) |-> NotConsumed]
    /\ workload = {}
    /\ \E name \in AppNames : application = Put(EmptyTable, 1, name)
    /\ deployment = EmptyTable
    /\ deploy_log_line = {}
    /\ next_id = [host |-> 1, app |-> 2, deployment |-> 1]
    /\ conn = [s \in Identities |-> IF s = Server THEN 1 ELSE 0]
    /\ since_sweep = 0
    /\ pc = [m \in Machines |-> "down"]
    /\ jobs = [m \in Machines |-> <<>>]
    /\ link = [m \in Machines |-> FALSE]
    /\ calls = [m \in Machines |-> <<>>]
    /\ cache = [m \in Machines |-> NoTables]
    /\ enrolled = [m \in Machines |-> FALSE]
    /\ crashes = [m \in Machines |-> 0]
    /\ runs = [m \in Machines |-> [d \in DeploymentId |-> 0]]
    /\ succeeded = {}

-----------------------------------------------------------------------------
(* The agent process *)

StartCall(d) == [kind |-> "start", id |-> d, ok |-> TRUE]
FinishCall(d, ok) == [kind |-> "finish", id |-> d, ok |-> ok]

\* on a dead connection a call goes nowhere
Sent(m, cs) == IF link[m] THEN [calls EXCEPT ![m] = @ \o cs] ELSE calls

HasRoom(m) == Len(calls[m]) < MaxCalls

\* When the connection keeps up, a pause of the process outlasts the delivery
\* of its calls and of the resulting updates.
KeepsUp(m) == Prompt /\ link[m] => calls[m] = <<>> /\ cache[m] = Published

\* the two look-ups by name that queued_for_me and recover_stranded begin with
HostIsCached(m) == \E h \in DOMAIN cache[m].host : cache[m].host[h] = NameOf[m]
CachedHost(m) == CHOOSE h \in DOMAIN cache[m].host : cache[m].host[h] = NameOf[m]

FaultyMineWith(m, status) ==
    {d \in DOMAIN cache[m].deployment :
        HostIsCached(m) /\ cache[m].deployment[d].status = status}

MineWith(m, status) ==
    {d \in DOMAIN cache[m].deployment :
        /\ HostIsCached(m)
        /\ cache[m].deployment[d].host_id = CachedHost(m)
        /\ cache[m].deployment[d].status = status}

\* the ids of a set, oldest first
Oldest(ids) == CHOOSE s \in SetToSeqs(ids) : \A i, j \in DOMAIN s : i < j => s[i] < s[j]

FaultyQueuedForMe(m) == Reverse(Oldest(MineWith(m, "Queued")))
AnythingForMe(m) == Oldest(UNION {MineWith(m, s) : s \in DeployStatus})

QueuedForMe(m) == Oldest(MineWith(m, "Queued"))

FinishAll(ids, ok) == [i \in DOMAIN ids |-> FinishCall(ids[i], ok)]

FaultyRecovery(m) == FinishAll(Oldest(MineWith(m, "Running")), TRUE)
NoRecovery(m) == <<>>

\* recover_stranded: fail what a previous process left Running
Recovery(m) == FinishAll(Oldest(MineWith(m, "Running")), FALSE)

\* main, up to the deployment thread's first look: connect, subscribe, and ask
\* to be enrolled unless the state file says that was done before.  What its previous
\* connection had sent has run by then or is lost (module Enrolment has the calls and the
\* disconnect of a dead connection that arrive later).
Start(m) ==
    /\ pc[m] = "down"
    /\ ClientConnected(m)
    /\ pc' = [pc EXCEPT ![m] = "settling"]
    /\ link' = [link EXCEPT ![m] = TRUE]
    /\ calls' = [calls EXCEPT ![m] = IF enrolled[m] THEN <<>> ELSE <<[kind |-> "enroll"]>>]
    /\ enrolled' = [enrolled EXCEPT ![m] = TRUE]
    /\ UNCHANGED <<jobs, cache, crashes, runs, succeeded>>

\* rows arrive: the subscription's first batch, then every transaction's updates
Refresh(m) ==
    /\ link[m]
    /\ cache' = [cache EXCEPT ![m] = Published]
    /\ UNCHANGED <<vars, pc, jobs, link, calls, enrolled, crashes, runs, succeeded>>

\* after two seconds, and once per process
Recover(m) ==
    /\ pc[m] = "settling"
    /\ KeepsUp(m)
    /\ calls' = Sent(m, Recovery(m))
    /\ pc' = [pc EXCEPT ![m] = "polling"]
    /\ UNCHANGED <<vars, jobs, link, cache, enrolled, crashes, runs, succeeded>>

Poll(m) ==
    /\ pc[m] = "polling"
    /\ KeepsUp(m)
    /\ QueuedForMe(m) # <<>>
    /\ jobs' = [jobs EXCEPT ![m] = QueuedForMe(m)]
    /\ pc' = [pc EXCEPT ![m] = "claiming"]
    /\ UNCHANGED <<vars, link, calls, cache, enrolled, crashes, runs, succeeded>>

\* the for loop goes to its next job, or the thread back to sleep
NextJob(m) ==
    /\ jobs' = [jobs EXCEPT ![m] = Tail(@)]
    /\ pc' = [pc EXCEPT ![m] = IF Len(jobs[m]) > 1 THEN "claiming" ELSE "polling"]

\* start_deployment: only a failure to send is seen
Claim(m) ==
    /\ pc[m] = "claiming"
    /\ HasRoom(m)
    /\ calls' = Sent(m, <<StartCall(Head(jobs[m]))>>)
    /\ \/ pc' = [pc EXCEPT ![m] = "preparing"] /\ UNCHANGED jobs
       \/ ~link[m] /\ NextJob(m)
    /\ UNCHANGED <<vars, link, cache, enrolled, crashes, runs, succeeded>>

\* agent_owned_deployment and the look-up of the application, on the server:
\* the agent's token stands for the host name it was issued for
ServerAllows(m, d) ==
    /\ d \in DOMAIN deployment
    /\ deployment[d].host_id \in DOMAIN host
    /\ host[deployment[d].host_id].name = NameOf[m]
    /\ deployment[d].app_id \in DOMAIN application

\* source, environment and archive are in place; the steps begin
Prepare(m) ==
    /\ pc[m] = "preparing"
    /\ KeepsUp(m)
    /\ ServerAllows(m, Head(jobs[m]))
    /\ runs' = [runs EXCEPT ![m][Head(jobs[m])] = IF @ < 2 THEN @ + 1 ELSE 2]
    /\ pc' = [pc EXCEPT ![m] = "applying"]
    /\ UNCHANGED <<vars, jobs, link, calls, cache, enrolled, crashes, succeeded>>

\* execute returned: a refusal, a network error or a step's exit code, or success
Report(m, ok) ==
    /\ pc[m] = "applying" \/ (pc[m] = "preparing" /\ KeepsUp(m) /\ ~ok)
    /\ HasRoom(m)
    /\ calls' = Sent(m, <<FinishCall(Head(jobs[m]), ok)>>)
    /\ succeeded' = IF ok THEN succeeded \cup {Head(jobs[m])} ELSE succeeded
    /\ NextJob(m)
    /\ UNCHANGED <<vars, link, cache, enrolled, crashes, runs>>

-----------------------------------------------------------------------------
(* The connection and the control plane *)

\* the calls written last may not have left the machine
Cut(m) == \E n \in 0 .. Len(calls[m]) : calls' = [calls EXCEPT ![m] = SubSeq(@, 1, n)]

Crash(m) ==
    /\ pc[m] # "down"
    /\ crashes[m] < MaxCrashes
    /\ Cut(m)
    /\ crashes' = [crashes EXCEPT ![m] = @ + 1]
    /\ pc' = [pc EXCEPT ![m] = "down"]
    /\ link' = [link EXCEPT ![m] = FALSE]
    /\ jobs' = [jobs EXCEPT ![m] = <<>>]
    /\ cache' = [cache EXCEPT ![m] = NoTables]
    /\ UNCHANGED <<vars, enrolled, runs, succeeded>>

\* on_disconnect only logs: the process lives on with the cache it has
LinkDrops(m) ==
    /\ Drops /\ link[m]
    /\ Cut(m)
    /\ link' = [link EXCEPT ![m] = FALSE]
    /\ UNCHANGED <<vars, pc, jobs, cache, enrolled, crashes, runs, succeeded>>

\* the database sees the end of a dead connection after the calls it carried
Disconnected(m) ==
    /\ ~link[m] /\ calls[m] = <<>>
    /\ ClientDisconnected(m)
    /\ UNCHANGED agentVars

CanEnroll(m) ==
    /\ IsUsableCode(CodeOf[m])
    /\ m \notin DOMAIN agent_binding
    /\ ~IsHostName(NameOf[m])
    /\ next_id.host <= MaxHosts

\* one call runs as a transaction, or is refused and changes nothing
Runs(m, call) ==
    CASE call.kind = "enroll" ->
            IF CanEnroll(m) THEN EnrollHost(m, CodeOf[m], NameOf[m]) ELSE UNCHANGED vars
      [] call.kind = "start" ->
            IF IsClaimable(m, call.id) THEN StartDeployment(m, call.id) ELSE UNCHANGED vars
      [] call.kind = "finish" ->
            IF OwnedDeployment(m, call.id) THEN FinishDeployment(m, call.id, call.ok)
            ELSE UNCHANGED vars

Deliver(m) ==
    /\ calls[m] # <<>>
    /\ Runs(m, Head(calls[m]))
    /\ calls' = [calls EXCEPT ![m] = Tail(@)]
    /\ UNCHANGED <<pc, jobs, link, cache, enrolled, crashes, runs, succeeded>>

Operate ==
    /\ \/ \E h \in HostId, commit \in Commits : QueueDeployment(Server, 1, h, commit)
       \/ \E d \in DeploymentId : RollbackDeployment(Server, d)
       \/ Removal /\ \E h \in HostId : DeleteHost(Server, h)
    /\ UNCHANGED agentVars

-----------------------------------------------------------------------------
AgentNext(m) ==
    \/ Start(m) \/ Refresh(m) \/ Recover(m) \/ Poll(m) \/ Claim(m) \/ Prepare(m)
    \/ \E ok \in BOOLEAN : Report(m, ok)
    \/ Deliver(m) \/ Disconnected(m)

FleetNext ==
    \/ \E m \in Machines : AgentNext(m) \/ Crash(m) \/ LinkDrops(m)
    \/ Operate

\* A process that is down is started again, every command it runs ends, and a
\* connection that is up delivers.  Nothing makes the operator act, and nothing
\* restarts a process that is up.
FleetFairness ==
    \A m \in Machines :
        /\ WF_fleetVars(Start(m)) /\ WF_fleetVars(Refresh(m)) /\ WF_fleetVars(Recover(m))
        /\ WF_fleetVars(Poll(m)) /\ WF_fleetVars(Claim(m))
        /\ WF_fleetVars(Prepare(m) \/ \E ok \in BOOLEAN : Report(m, ok))
        /\ WF_fleetVars(Deliver(m)) /\ WF_fleetVars(Disconnected(m))

FleetSpec == FleetInit /\ [][FleetNext]_fleetVars /\ FleetFairness

-----------------------------------------------------------------------------
(* Properties *)

\* Whatever is lost, late, repeated or recovered, the record never claims a
\* success that did not happen on some machine.
SuccessIsReal ==
    \A d \in DOMAIN deployment :
        deployment[d].status \in {"Succeeded", "RolledBack"} => d \in succeeded

\* "Queued deployments targeting this host, oldest first": while a connected
\* machine applies a deployment, no older one of its host waits unclaimed.
OldestFirst ==
    \A m \in Machines : pc[m] = "applying" /\ link[m] =>
        \A d \in DOMAIN deployment :
            /\ d < Head(jobs[m])
            /\ deployment[d].host_id = deployment[Head(jobs[m])].host_id
            => \/ deployment[d].status # "Queued"
               \/ runs[m][d] > 0
               \/ \E i \in DOMAIN calls[m] : calls[m][i] = StartCall(d)

\* queued_for_me lists only deployments of the host this machine's own code
\* enrolled, however old the cache it looks into and whatever was removed since.
JobsOfItsOwnHost ==
    \A m \in Machines : \A i \in DOMAIN jobs[m] :
        deployment[jobs[m][i]].host_id = enrollment_token[CodeOf[m]]

\* A deployment is applied at most once over all machines and restarts.
AppliedAtMostOnce ==
    \A m \in Machines, d \in DeploymentId :
        runs[m][d] <= 1 /\ (runs[m][d] = 1 => \A n \in Machines \ {m} : runs[n][d] = 0)

\* No deployment stays Running forever: "a failure here must still be reported"
\* (deploy.rs) and what a previous process left is failed (recover_stranded).
IsRunning(d) == d \in DOMAIN deployment /\ deployment[d].status = "Running"

NothingHangsInRunning == \A d \in DeploymentId : IsRunning(d) ~> ~IsRunning(d)

\* The fleet implements the life of a deployment an operator expects.
Lifecycle == INSTANCE DeploymentLifecycle WITH
    Deployments <- DeploymentId,
    status <- [d \in DeploymentId |->
                  IF d \in DOMAIN deployment THEN deployment[d].status ELSE "Absent"]

ImplementsLifecycle == Lifecycle!Spec
=============================================================================
