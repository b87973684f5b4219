----------------------------- MODULE ControlPlane -----------------------------
(***************************************************************************)
(* The control plane of crates/module/src/lib.rs: the SpacetimeDB tables   *)
(* and one action per reducer.  A reducer is one serialised transaction:   *)
(* its early returns are the guards, and a refused call (Err) rolls back,  *)
(* which is a step that changes nothing.  The caller is ctx.sender().      *)
(*                                                                         *)
(* Time is the host's silence: how many ticks ago last_seen was written,   *)
(* counted up to SilenceCap, beyond which ages are not told apart.  One    *)
(* tick is the unit of STALE_AFTER and REAP_INTERVAL.                      *)
(*                                                                         *)
(* A definition named Faulty... is a plausible bug in the definition that  *)
(* follows it; no specification uses one (see the README).                 *)
(***************************************************************************)
EXTENDS Naturals, FiniteSets, Tables

CONSTANTS
    Identities,       \* SpacetimeDB identities of every client: agents, the server, strays
    Codes,            \* enrolment codes the operator may mint
    HostNames, AppNames, Commits, WorkloadNames, Seqs,
    Loads,            \* cpu percentages an agent may report: any u8
    STALE_AFTER,      \* ticks of silence after which the reaper marks a host Offline
    REAP_INTERVAL,    \* ticks between two sweeps
    SilenceCap,       \* bound: ages at and beyond it are one age
    MaxHosts, MaxApps, MaxDeployments, \* bounds: rows ever inserted
    MaxConnections    \* bound: simultaneous connections of one identity

ASSUME TimeAssumption ==
    /\ STALE_AFTER \in Nat
    /\ REAP_INTERVAL \in Nat \ {0}
    /\ SilenceCap \in Nat
    /\ SilenceCap > STALE_AFTER + REAP_INTERVAL

ASSUME DataAssumption ==
    /\ Loads \subseteq 0 .. 255
    /\ IsFiniteSet(WorkloadNames)

ASSUME BoundAssumption ==
    MaxHosts \in Nat /\ MaxApps \in Nat /\ MaxDeployments \in Nat /\ MaxConnections \in Nat

VARIABLES
    host, agent_binding, operator, enrollment_token, workload,
    application, deployment, deploy_log_line,
    next_id,          \* the auto_inc sequences: ids are never reused
    conn,             \* how many connections each identity has open
    since_sweep       \* ticks since reap_stale_hosts last ran

vars == <<host, agent_binding, operator, enrollment_token, workload, application,
          deployment, deploy_log_line, next_id, conn, since_sweep>>

-----------------------------------------------------------------------------
HostStatus   == {"Online", "Draining", "Offline"}
DeployStatus == {"Queued", "Running", "Succeeded", "Failed", "RolledBack"}
InFlight     == {"Queued", "Running"}

HostId == 1 .. MaxHosts
AppId  == 1 .. MaxApps
DeploymentId == 1 .. MaxDeployments
NotConsumed == 0      \* consumed_by: None

Host == [name : HostNames, status : HostStatus, cpu_pct : 0 .. 100,
         silence : 0 .. SilenceCap, workload_count : Nat]
Deployment == [app_id : AppId, host_id : HostId, commit_sha : Commits,
               status : DeployStatus, started : BOOLEAN, finished : BOOLEAN]
Workload == [host_id : HostId, name : WorkloadNames]
DeployLogLine == [deployment_id : DeploymentId, seq : Seqs]

TypeOK ==
    /\ IsTable(host, HostId, Host)
    /\ IsTable(agent_binding, Identities, HostId)
    /\ operator \subseteq Identities
    /\ IsTable(enrollment_token, Codes, HostId \cup {NotConsumed})
    /\ workload \subseteq Workload
    /\ IsTable(application, AppId, AppNames)
    /\ IsTable(deployment, DeploymentId, Deployment)
    /\ deploy_log_line \subseteq DeployLogLine
    /\ next_id \in [host : 1 .. MaxHosts + 1, app : 1 .. MaxApps + 1,
                    deployment : 1 .. MaxDeployments + 1]
    /\ conn \in [Identities -> 0 .. MaxConnections]
    /\ since_sweep \in 0 .. REAP_INTERVAL

Init ==
    /\ host = EmptyTable
    /\ agent_binding = EmptyTable
    /\ operator = {}
    /\ enrollment_token = EmptyTable
    /\ workload = {}
    /\ application = EmptyTable
    /\ deployment = EmptyTable
    /\ deploy_log_line = {}
    /\ next_id = [host |-> 1, app |-> 1, deployment |-> 1]
    /\ conn = [s \in Identities |-> 0]
    /\ since_sweep = 0

-----------------------------------------------------------------------------
(* Presence: connections, the reaper, and the passing of time *)

\* everything but the host rows, the connections and the clock
presenceFrame == <<agent_binding, operator, enrollment_token, workload, application,
                   deployment, deploy_log_line, next_id>>

IsBound(s) == s \in DOMAIN agent_binding /\ agent_binding[s] \in DOMAIN host

ClientConnected(s) ==
    /\ conn[s] < MaxConnections
    /\ conn' = [conn EXCEPT ![s] = @ + 1]
    /\ host' = IF IsBound(s)
               THEN [host EXCEPT ![agent_binding[s]].status = "Online",
                                 ![agent_binding[s]].silence = 0]
               ELSE host
    /\ UNCHANGED <<presenceFrame, since_sweep>>

ClientDisconnected(s) ==
    /\ conn[s] > 0
    /\ conn' = [conn EXCEPT ![s] = @ - 1]
    /\ host' = IF IsBound(s)
               THEN [host EXCEPT ![agent_binding[s]].status = "Offline"]
               ELSE host
    /\ UNCHANGED <<presenceFrame, since_sweep>>

FaultyReapable(h) == host[h].status = "Online" /\ host[h].silence > STALE_AFTER

IsReapable(h) == host[h].status # "Offline" /\ host[h].silence > STALE_AFTER

ReapStaleHosts ==
    /\ since_sweep = REAP_INTERVAL
    /\ since_sweep' = 0
    /\ host' = [h \in DOMAIN host |->
                   IF IsReapable(h)
                   THEN [host[h] EXCEPT !.status = "Offline"]
                   ELSE host[h]]
    /\ UNCHANGED <<presenceFrame, conn>>

\* the database's clock: the schedule is punctual, so no tick passes a due sweep
Tick ==
    /\ since_sweep < REAP_INTERVAL
    /\ since_sweep' = since_sweep + 1
    /\ host' = [h \in DOMAIN host |->
                   IF host[h].silence < SilenceCap
                   THEN [host[h] EXCEPT !.silence = @ + 1]
                   ELSE host[h]]
    /\ UNCHANGED <<presenceFrame, conn>>

-----------------------------------------------------------------------------
(* Operator side *)

MayClaim(s) == s \notin operator /\ operator = {}

ClaimInstance(s) ==
    /\ MayClaim(s)
    /\ operator' = operator \cup {s}
    /\ UNCHANGED <<host, agent_binding, enrollment_token, workload, application,
                   deployment, deploy_log_line, next_id, conn, since_sweep>>

RequireOperator(s) == s \in operator

CreateEnrollmentToken(s, code) ==
    /\ RequireOperator(s)
    /\ code \notin DOMAIN enrollment_token
    /\ enrollment_token' = Put(enrollment_token, code, NotConsumed)
    /\ UNCHANGED <<host, agent_binding, operator, workload, application,
                   deployment, deploy_log_line, next_id, conn, since_sweep>>

RegisterApplication(s, name) ==
    /\ RequireOperator(s)
    /\ name \notin Range(application)
    /\ next_id.app <= MaxApps
    /\ application' = Put(application, next_id.app, name)
    /\ next_id' = [next_id EXCEPT !.app = @ + 1]
    /\ UNCHANGED <<host, agent_binding, operator, enrollment_token, workload,
                   deployment, deploy_log_line, conn, since_sweep>>

DrainedStatus(draining, status) ==
    IF draining THEN "Draining"
    ELSE IF status = "Offline" THEN "Offline" ELSE "Online"

IsDrainable(h) == h \in DOMAIN host

SetHostDraining(s, h, draining) ==
    /\ RequireOperator(s)
    /\ IsDrainable(h)
    /\ host' = [host EXCEPT ![h].status = DrainedStatus(draining, @)]
    /\ UNCHANGED <<presenceFrame, conn, since_sweep>>

QueueDeployment(s, app, h, commit) ==
    /\ RequireOperator(s)
    /\ app \in DOMAIN application
    /\ h \in DOMAIN host
    /\ host[h].status = "Online"
    /\ next_id.deployment <= MaxDeployments
    /\ deployment' = Put(deployment, next_id.deployment,
                         [app_id |-> app, host_id |-> h, commit_sha |-> commit,
                          status |-> "Queued", started |-> FALSE, finished |-> FALSE])
    /\ next_id' = [next_id EXCEPT !.deployment = @ + 1]
    /\ UNCHANGED <<host, agent_binding, operator, enrollment_token, workload,
                   application, deploy_log_line, conn, since_sweep>>

\* everything but the deployment rows
deploymentFrame == <<host, agent_binding, operator, enrollment_token, workload,
                     application, deploy_log_line, next_id, conn, since_sweep>>

IsRollbackable(d) == d \in DOMAIN deployment /\ deployment[d].status = "Succeeded"

RollbackDeployment(s, d) ==
    /\ RequireOperator(s)
    /\ IsRollbackable(d)
    /\ deployment' = [deployment EXCEPT ![d].status = "RolledBack"]
    /\ UNCHANGED deploymentFrame

FaultyInFlight(app) ==
    \E d \in DOMAIN deployment :
        deployment[d].app_id = app /\ deployment[d].status = "Running"

HasDeploymentInFlight(app) ==
    \E d \in DOMAIN deployment :
        deployment[d].app_id = app /\ deployment[d].status \in InFlight

DeleteApplication(s, app) ==
    /\ RequireOperator(s)
    /\ app \in DOMAIN application
    /\ ~HasDeploymentInFlight(app)
    /\ application' = Drop(application, app)
    /\ UNCHANGED <<host, agent_binding, operator, enrollment_token, workload,
                   deployment, deploy_log_line, next_id, conn, since_sweep>>

FaultyBindingsWithout(h) == agent_binding

BindingsWithout(h) ==
    Restrict(agent_binding, {s \in DOMAIN agent_binding : agent_binding[s] # h})

IsRemovable(h) == h \in DOMAIN host /\ host[h].status = "Offline"

DeleteHost(s, h) ==
    /\ RequireOperator(s)
    /\ IsRemovable(h)
    /\ workload' = {w \in workload : w.host_id # h}
    /\ agent_binding' = BindingsWithout(h)
    /\ host' = Drop(host, h)
    /\ UNCHANGED <<operator, enrollment_token, application, deployment,
                   deploy_log_line, next_id, conn, since_sweep>>

-----------------------------------------------------------------------------
(* Agent side *)

FaultyUsableCode(code) == code \in DOMAIN enrollment_token

IsUsableCode(code) ==
    code \in DOMAIN enrollment_token /\ enrollment_token[code] = NotConsumed

IsHostName(name) == \E h \in DOMAIN host : host[h].name = name

EnrollHost(s, code, name) ==
    /\ IsUsableCode(code)
    /\ s \notin DOMAIN agent_binding
    /\ ~IsHostName(name)
    /\ next_id.host <= MaxHosts
    /\ host' = Put(host, next_id.host, [name |-> name, status |-> "Online",
                            cpu_pct |-> 0, silence |-> 0, workload_count |-> 0])
    /\ agent_binding' = Put(agent_binding, s, next_id.host)
    /\ enrollment_token' = [enrollment_token EXCEPT ![code] = next_id.host]
    /\ next_id' = [next_id EXCEPT !.host = @ + 1]
    /\ UNCHANGED <<operator, workload, application, deployment, deploy_log_line,
                   conn, since_sweep>>

\* caller_host: the two look-ups every agent-side reducer goes through
CallerHost(s) == IsBound(s)

Reported(h, report) == {[host_id |-> h, name |-> n] : n \in report}

FaultyWorkloadsAfter(h, report) == workload \cup Reported(h, report)

\* "the report is authoritative": the rows of h are replaced wholesale
WorkloadsAfter(h, report) == {w \in workload : w.host_id # h} \cup Reported(h, report)

FaultyPct(load) == load

\* cpu_pct.min(100); mem_pct likewise
Pct(load) == IF load < 100 THEN load ELSE 100

Heartbeat(s, load, report) ==
    /\ CallerHost(s)
    /\ LET h == agent_binding[s] IN
       /\ workload' = WorkloadsAfter(h, report)
       /\ host' = [host EXCEPT
             ![h].cpu_pct = Pct(load),
             ![h].workload_count = Cardinality(report),
             ![h].status = IF @ = "Draining" THEN "Draining" ELSE "Online",
             ![h].silence = 0]
    /\ UNCHANGED <<agent_binding, operator, enrollment_token, application,
                   deployment, deploy_log_line, next_id, conn, since_sweep>>

FaultyOwnedDeployment(s, d) == CallerHost(s) /\ d \in DOMAIN deployment

\* owned_deployment: the row exists and targets the caller's host
OwnedDeployment(s, d) ==
    /\ CallerHost(s)
    /\ d \in DOMAIN deployment
    /\ deployment[d].host_id = agent_binding[s]

FaultyClaimable(s, d) == OwnedDeployment(s, d)

IsClaimable(s, d) == OwnedDeployment(s, d) /\ deployment[d].status = "Queued"

StartDeployment(s, d) ==
    /\ IsClaimable(s, d)
    /\ deployment' = [deployment EXCEPT ![d].status = "Running", ![d].started = TRUE]
    /\ UNCHANGED deploymentFrame

AppendLog(s, d, seq) ==
    /\ OwnedDeployment(s, d)
    /\ deploy_log_line' = deploy_log_line \cup {[deployment_id |-> d, seq |-> seq]}
    /\ UNCHANGED <<host, agent_binding, operator, enrollment_token, workload,
                   application, deployment, next_id, conn, since_sweep>>

FinishDeployment(s, d, succeeded) ==
    /\ OwnedDeployment(s, d)
    /\ deployment' = [deployment EXCEPT
                         ![d].status = IF succeeded THEN "Succeeded" ELSE "Failed",
                         ![d].finished = TRUE]
    /\ UNCHANGED deploymentFrame

-----------------------------------------------------------------------------
OperatorReducer(s) ==
    \/ ClaimInstance(s)
    \/ \E code \in Codes : CreateEnrollmentToken(s, code)
    \/ \E name \in AppNames : RegisterApplication(s, name)
    \/ \E h \in HostId, draining \in BOOLEAN : SetHostDraining(s, h, draining)
    \/ \E app \in AppId, h \in HostId, commit \in Commits :
          QueueDeployment(s, app, h, commit)
    \/ \E d \in DeploymentId : RollbackDeployment(s, d)
    \/ \E app \in AppId : DeleteApplication(s, app)
    \/ \E h \in HostId : DeleteHost(s, h)

AgentReducer(s) ==
    \/ \E code \in Codes, name \in HostNames : EnrollHost(s, code, name)
    \/ \E load \in Loads, report \in SUBSET WorkloadNames : Heartbeat(s, load, report)
    \/ \E d \in DeploymentId : StartDeployment(s, d)
    \/ \E d \in DeploymentId, seq \in Seqs : AppendLog(s, d, seq)
    \/ \E d \in DeploymentId, succeeded \in BOOLEAN : FinishDeployment(s, d, succeeded)

Connected == {s \in Identities : conn[s] > 0}

\* any client, agent or not, may connect and call any reducer in any order
Next ==
    \/ \E s \in Identities : ClientConnected(s) \/ ClientDisconnected(s)
    \/ \E s \in Connected : OperatorReducer(s) \/ AgentReducer(s)
    \/ ReapStaleHosts
    \/ Tick

\* the database's own clock and scheduler never stop; clients owe nothing
Fairness == WF_vars(Tick) /\ WF_vars(ReapStaleHosts)

Spec == Init /\ [][Next]_vars /\ Fairness
=============================================================================
