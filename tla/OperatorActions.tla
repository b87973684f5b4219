--------------------------- MODULE OperatorActions ---------------------------
(***************************************************************************)
(* The operator's actions (crates/server/src/api.rs) and the webhook       *)
(* (webhook.rs) against the control plane.  A handler decides from the     *)
(* server's cache of the tables, then makes one or two reducer calls, each *)
(* sent on the server's one connection and awaited for 15 seconds at most  *)
(* (verdict); handlers run side by side.  The webhook awaits nothing.      *)
(*                                                                         *)
(* The agent is reduced to what module Fleet shows of it: it starts queued *)
(* deployments, finishes running ones, comes and goes.                     *)
(***************************************************************************)
EXTENDS ControlPlane, SequencesExt

CONSTANTS
    Server, Agent,    \* the identities of DigiHost Server and of the one agent
    Requests,         \* handlers that may run side by side
    NoRequest,        \* the caller of a call whose handler is gone, or of none
    MaxInputs,        \* bound: requests of any kind ever received
    MaxFailures       \* bound: dropped connections and restarts of the server

ASSUME OperatorAssumption ==
    /\ {Server, Agent} \subseteq Identities /\ Server # Agent
    /\ NoRequest \notin Requests
    /\ HostNames # {} /\ AppNames # {} /\ Codes # {}
    /\ IsFiniteSet(Commits) /\ Cardinality(Commits) <= MaxDeployments
    /\ MaxHosts > 0 /\ MaxApps > 0 /\ MaxConnections > 0
    /\ MaxInputs \in Nat /\ MaxFailures \in Nat

VARIABLES
    request,          \* each handler: its calls and where it is
    calls,            \* reducer calls sent and not yet run, with who awaits them
    cache,            \* the server's copy of the host, application, deployment tables
    link,             \* the server's connection is up
    app_env,          \* store.rs: names of applications with an environment
    remembered,       \* store.rs: enrolment codes it minted, redeemed ones included
    used,             \* how many inputs and failures there were
    origin            \* history: the deployments queued here, and for what

operatorVars == <<request, calls, cache, link, app_env, remembered, used, origin>>
allVars == <<vars, operatorVars>>

-----------------------------------------------------------------------------
(* Reducer calls *)

\* why is [by |-> "deploy"], [by |-> "push"] or, queued in place of the deployment
\* that was marked, [by |-> "rollback", of |-> its id]
QueueCall(app, h, commit, why) ==
    [op |-> "queue", app |-> app, host |-> h, commit |-> commit, why |-> why]
RollbackCall(d) == [op |-> "rollback", deployment |-> d]
DeleteAppCall(app) == [op |-> "delete_app", app |-> app]
DrainCall(h, draining) == [op |-> "drain", host |-> h, draining |-> draining]
DeleteHostCall(h) == [op |-> "delete_host", host |-> h]
RegisterCall(name) == [op |-> "register", name |-> name]
TokenCall(code) == [op |-> "token", code |-> code]

\* what the reducer tests before it changes anything (a bound reached refuses too)
Accepts(call) ==
    CASE call.op = "queue" -> /\ call.app \in DOMAIN application
                              /\ call.host \in DOMAIN host
                              /\ host[call.host].status = "Online"
                              /\ next_id.deployment <= MaxDeployments
      [] call.op = "rollback" -> IsRollbackable(call.deployment)
      [] call.op = "delete_app" -> /\ call.app \in DOMAIN application
                                   /\ ~HasDeploymentInFlight(call.app)
      [] call.op = "drain" -> IsDrainable(call.host)
      [] call.op = "delete_host" -> IsRemovable(call.host)
      [] call.op = "register" -> /\ call.name \notin Range(application)
                                 /\ next_id.app <= MaxApps
      [] call.op = "token" -> call.code \notin DOMAIN enrollment_token

Reducer(call) ==
    CASE call.op = "queue" -> QueueDeployment(Server, call.app, call.host, call.commit)
      [] call.op = "rollback" -> RollbackDeployment(Server, call.deployment)
      [] call.op = "delete_app" -> DeleteApplication(Server, call.app)
      [] call.op = "drain" -> SetHostDraining(Server, call.host, call.draining)
      [] call.op = "delete_host" -> DeleteHost(Server, call.host)
      [] call.op = "register" -> RegisterApplication(Server, call.name)
      [] call.op = "token" -> CreateEnrollmentToken(Server, call.code)

-----------------------------------------------------------------------------
(* The state of a handler *)

\* ready to send its next call; the call sent, run or denied by the control
\* plane; the verdict heard; the environment still to be cleared
Stage == {"idle", "ready", "sent", "ran", "denied", "accepted", "refused", "clearing"}
AwaitsVerdict == {"sent", "ran", "denied"}

\* done counts, as history, the calls that took effect while being awaited
NewRequest(script, clears) ==
    [script |-> script, next |-> 1, at |-> "ready", clears |-> clears, done |-> 0]
NotAsked == [NewRequest(<<>>, {}) EXCEPT !.at = "idle"]

NoTables == [host |-> EmptyTable, application |-> EmptyTable, deployment |-> EmptyTable]
Published == [host |-> [h \in DOMAIN host |-> host[h].status],
              application |-> application, deployment |-> deployment]

\* The first application was deployed with each commit of an increasing list,
\* each time with success, on the one host enrolled; its environment is set.
OperatorInit ==
    /\ host = Put(EmptyTable, 1, [name |-> CHOOSE n \in HostNames : TRUE, status |-> "Online",
                                  cpu_pct |-> 0, silence |-> 0, workload_count |-> 0])
    /\ agent_binding = Put(EmptyTable, Agent, 1)
    /\ operator = {Server}
    /\ enrollment_token = Put(EmptyTable, CHOOSE code \in Codes : TRUE, 1)
    /\ workload = {}
    /\ application = Put(EmptyTable, 1, CHOOSE name \in AppNames : TRUE)
    /\ deployment = [d \in 1 .. Cardinality(Commits) |->
                        [app_id |-> 1, host_id |-> 1, commit_sha |-> SetToSeq(Commits)[d],
                         status |-> "Succeeded", started |-> TRUE, finished |-> TRUE]]
    /\ deploy_log_line = {}
    /\ next_id = [host |-> 2, app |-> 2, deployment |-> Cardinality(Commits) + 1]
    /\ conn = [s \in Identities |-> IF s \in {Server, Agent} THEN 1 ELSE 0]
    /\ since_sweep = 0
    /\ request = [r \in Requests |-> NotAsked]
    /\ calls = <<>>
    /\ cache = Published
    /\ link = TRUE
    /\ app_env = Range(application)
    /\ remembered = DOMAIN enrollment_token
    /\ used = [inputs |-> 0, failures |-> 0]
    /\ origin = EmptyTable

-----------------------------------------------------------------------------
(* The handlers, from the form to the first call *)

Input == used.inputs < MaxInputs /\ used' = [used EXCEPT !.inputs = @ + 1]

Begin(r, script, clears) ==
    /\ request[r].at = "idle"
    /\ Input
    /\ request' = [request EXCEPT ![r] = NewRequest(script, clears)]
    /\ UNCHANGED <<vars, calls, cache, link, app_env, origin>>

Ask(r, script, clears) == Begin(r, script, clears) /\ UNCHANGED remembered

\* remember_enrollment, one atomic change (module Store has its steps)
Remember(code) == remembered \cup {code}

\* "Record locally first": then the control plane is told of the new code
AddServer(r) ==
    \E code \in Codes \ remembered :
        Begin(r, <<TokenCall(code)>>, {}) /\ remembered' = Remember(code)

RegisterApp(r) == \E name \in AppNames : Ask(r, <<RegisterCall(name)>>, {})

\* the reference is resolved to a commit before queueing
Deploy(r) ==
    \E app \in DOMAIN cache.application, h \in HostId, commit \in Commits :
        Ask(r, <<QueueCall(app, h, commit, [by |-> "deploy"])>>, {})

SetDraining(r) ==
    \E h \in DOMAIN cache.host, draining \in BOOLEAN : Ask(r, <<DrainCall(h, draining)>>, {})

FaultyPriors(d) ==
    {p \in DOMAIN cache.deployment :
        /\ p < d
        /\ cache.deployment[p].app_id = cache.deployment[d].app_id
        /\ cache.deployment[p].host_id = cache.deployment[d].host_id
        /\ cache.deployment[p].status = "Succeeded"}

\* earlier successes of the same application on the same host, of another commit
Priors(d) ==
    {p \in DOMAIN cache.deployment :
        /\ p < d
        /\ cache.deployment[p].app_id = cache.deployment[d].app_id
        /\ cache.deployment[p].host_id = cache.deployment[d].host_id
        /\ cache.deployment[p].status = "Succeeded"
        /\ cache.deployment[p].commit_sha # cache.deployment[d].commit_sha}

\* mark the record, then queue the release before it
Rollback(r) ==
    \E d \in DOMAIN cache.deployment :
        /\ Priors(d) # {}
        /\ LET dep == cache.deployment[d]
               prior == cache.deployment[Max(Priors(d))] IN
           Ask(r, <<RollbackCall(d), QueueCall(dep.app_id, dep.host_id, prior.commit_sha,
                                               [by |-> "rollback", of |-> d])>>, {})

\* the record first; then the environment, by the name the cache had
DeleteApp(r) ==
    \E app \in AppId :
        Ask(r, <<DeleteAppCall(app)>>,
            {<<a, cache.application[a]>> : a \in DOMAIN cache.application \cap {app}})

RemoveHost(r) == \E h \in DOMAIN cache.host : Ask(r, <<DeleteHostCall(h)>>, {})

-----------------------------------------------------------------------------
(* Each call, its verdict, and what follows *)

Move(r, to) == request' = [request EXCEPT ![r].at = to]
Answer(r) == request' = [request EXCEPT ![r] = NotAsked]

Awaited(r, call) == [by |-> r, call |-> call]

\* on a dead connection a call goes nowhere, or its sending is refused
Send(r) ==
    /\ request[r].at = "ready"
    /\ LET call == request[r].script[request[r].next] IN
       \/ /\ calls' = IF link THEN Append(calls, Awaited(r, call)) ELSE calls
          /\ Move(r, "sent")
       \/ ~link /\ Answer(r) /\ UNCHANGED calls
    /\ UNCHANGED <<vars, cache, link, app_env, remembered, used, origin>>

IsLastCall(r) == request[r].next = Len(request[r].script)

FaultyMayContinue(r) == request[r].at \in {"accepted", "refused"}
HastyMayContinue(r) == request[r].at \in {"accepted", "sent"}

\* verdict: Ok(Ok(Ok(Ok(())))), and nothing else, lets the handler go on
MayContinue(r) == request[r].at = "accepted"

Continue(r) ==
    /\ MayContinue(r)
    /\ IF IsLastCall(r)
       THEN IF request[r].clears = {} THEN Answer(r) ELSE Move(r, "clearing")
       ELSE request' = [request EXCEPT ![r].next = @ + 1, ![r].at = "ready"]
    /\ UNCHANGED <<vars, calls, cache, link, app_env, remembered, used, origin>>

Refused(r) ==
    /\ request[r].at = "refused"
    /\ Answer(r)
    /\ UNCHANGED <<vars, calls, cache, link, app_env, remembered, used, origin>>

Orphaned(cs, R) == [i \in DOMAIN cs |-> IF cs[i].by \in R THEN [cs[i] EXCEPT !.by = NoRequest]
                                        ELSE cs[i]]

MayGiveUp(r) == request[r].at \in AwaitsVerdict

\* the 15 seconds are over, the connection was lost, or the browser went away;
\* the call may still run
GiveUp(r) ==
    /\ MayGiveUp(r)
    /\ Answer(r)
    /\ calls' = Orphaned(calls, {r})
    /\ UNCHANGED <<vars, cache, link, app_env, remembered, used, origin>>

\* clear_env, one atomic change (module Store has its steps)
ClearEnv(r) ==
    /\ request[r].at = "clearing"
    /\ app_env' = app_env \ {c[2] : c \in request[r].clears}
    /\ Answer(r)
    /\ UNCHANGED <<vars, calls, cache, link, remembered, used, origin>>

\* set_env takes any name
SetEnv ==
    /\ Input
    /\ \E name \in AppNames : app_env' = app_env \cup {name}
    /\ UNCHANGED <<vars, request, calls, cache, link, remembered, origin>>

FaultyTargets(app) ==
    {h \in DOMAIN cache.host :
        /\ cache.host[h] = "Online"
        /\ \E d \in DOMAIN cache.deployment :
              cache.deployment[d].host_id = h /\ cache.deployment[d].status = "Succeeded"}

\* targets_for: Online hosts this application has succeeded on
Targets(app) ==
    {h \in DOMAIN cache.host :
        /\ cache.host[h] = "Online"
        /\ \E d \in DOMAIN cache.deployment :
              /\ cache.deployment[d].app_id = app
              /\ cache.deployment[d].host_id = h
              /\ cache.deployment[d].status = "Succeeded"}

\* handle_push: the calls are sent, in the order a hash map has, and not awaited
Push ==
    /\ Input
    /\ \E app \in DOMAIN cache.application, commit \in Commits :
          \E targets \in SetToSeqs(Targets(app)) :
              /\ targets # <<>>
              /\ calls' = IF ~link THEN calls
                          ELSE calls \o [i \in DOMAIN targets |->
                             Awaited(NoRequest, QueueCall(app, targets[i], commit,
                                                          [by |-> "push"]))]
    /\ UNCHANGED <<vars, request, cache, link, app_env, remembered, origin>>

-----------------------------------------------------------------------------
(* The connection, the control plane, and the server process *)

\* the first call runs, or is refused and changes nothing
Deliver ==
    /\ calls # <<>>
    /\ calls' = Tail(calls)
    /\ LET call == Head(calls).call
           R == {Head(calls).by} \ {NoRequest} IN
       IF Accepts(call)
       THEN /\ Reducer(call)
            /\ request' = [r \in Requests |->
                  IF r \in R THEN [request[r] EXCEPT !.at = "ran", !.done = @ + 1]
                  ELSE request[r]]
            /\ origin' = IF call.op = "queue" THEN Put(origin, next_id.deployment, call.why)
                         ELSE origin
       ELSE /\ request' = [r \in Requests |->
                  IF r \in R THEN [request[r] EXCEPT !.at = "denied"] ELSE request[r]]
            /\ UNCHANGED <<vars, origin>>
    /\ UNCHANGED <<cache, link, app_env, remembered, used>>

Heard(at) == CASE at = "ran" -> "accepted" [] at = "denied" -> "refused" [] OTHER -> at

\* updates reach the cache, and with them the verdicts of the calls that caused them
Refresh ==
    /\ link
    /\ cache' = Published
    /\ request' = [r \in Requests |-> [request[r] EXCEPT !.at = Heard(@)]]
    /\ UNCHANGED <<vars, calls, link, app_env, remembered, used, origin>>

Failure == used.failures < MaxFailures /\ used' = [used EXCEPT !.failures = @ + 1]
Cut(R) == \E n \in 0 .. Len(calls) : calls' = Orphaned(SubSeq(calls, 1, n), R)

\* on_disconnect only logs, and nothing connects again
LinkDrops ==
    /\ link
    /\ Failure
    /\ link' = FALSE
    /\ Cut({})
    /\ UNCHANGED <<vars, request, cache, app_env, remembered, origin>>

\* The process dies and is started again.  The identity in server-token keeps
\* it the operator, and no row is bound to it.
Restart ==
    /\ Failure
    /\ link' = TRUE
    /\ Cut(Requests)
    /\ request' = [r \in Requests |-> NotAsked]
    /\ cache' = NoTables
    /\ UNCHANGED <<vars, app_env, remembered, origin>>

AgentActs ==
    /\ \/ ClientConnected(Agent) \/ ClientDisconnected(Agent)
       \/ /\ conn[Agent] > 0
          /\ \/ \E d \in DeploymentId : StartDeployment(Agent, d)
             \/ \E d \in DOMAIN deployment, succeeded \in BOOLEAN :
                   deployment[d].status = "Running" /\ FinishDeployment(Agent, d, succeeded)
    /\ UNCHANGED operatorVars

-----------------------------------------------------------------------------
Handler(r) ==
    \/ AddServer(r) \/ RegisterApp(r) \/ Deploy(r) \/ SetDraining(r) \/ Rollback(r) \/ DeleteApp(r)
    \/ RemoveHost(r)
    \/ Send(r) \/ Continue(r) \/ Refused(r) \/ GiveUp(r) \/ ClearEnv(r)

OperatorNext ==
    \/ \E r \in Requests : Handler(r)
    \/ SetEnv \/ Push
    \/ Deliver \/ Refresh \/ LinkDrops \/ Restart
    \/ AgentActs

OperatorSpec == OperatorInit /\ [][OperatorNext]_allVars

-----------------------------------------------------------------------------
(* Properties *)

\* Whatever is pressed twice, timed out and pressed again, or pressed by two
\* people at once: a deployment is rolled back by at most one deployment.
RolledBackOnce ==
    \A d, e \in DOMAIN origin :
        origin[d].by = "rollback" /\ origin[d] = origin[e] => d = e

\* What a rollback puts in place is a release of the same application on the
\* same host that had succeeded before the one rolled back, and is another
\* commit, however old the cache the handler looked into; and the record it
\* undoes is marked.
RollbackRestores ==
    \A e \in DOMAIN origin : origin[e].by = "rollback" =>
        LET d == origin[e].of IN
        /\ deployment[d].status = "RolledBack"
        /\ deployment[e].commit_sha # deployment[d].commit_sha
        /\ \E p \in DOMAIN deployment :
              /\ p < d
              /\ deployment[p].app_id = deployment[e].app_id
              /\ deployment[p].host_id = deployment[e].host_id
              /\ deployment[p].commit_sha = deployment[e].commit_sha
              /\ deployment[p].status \in {"Succeeded", "RolledBack"}

\* "DigiHost will not invent a target": a push deploys an application only
\* where that application had succeeded.
PushesInventNoTarget ==
    \A e \in DOMAIN origin : origin[e].by = "push" =>
        \E p \in DOMAIN deployment :
            /\ p < e
            /\ deployment[p].app_id = deployment[e].app_id
            /\ deployment[p].host_id = deployment[e].host_id
            /\ deployment[p].status \in {"Succeeded", "RolledBack"}

\* The interface never reports success for an action the control plane
\* rejected: an answer of success means that every call of the handler ran.
SuccessMeansDone ==
    [][\A r \in Requests :
          (Continue(r) /\ request'[r].at = "idle") \/ ClearEnv(r) =>
              request[r].done = Len(request[r].script)]_allVars

\* An environment disappears only after its application's record did, so a
\* refused removal (a deployment is in flight and will fetch the environment)
\* leaves it alone.
EnvironmentGoesLast ==
    [][\A r \in Requests :
          app_env' # app_env /\ request[r].at = "clearing" /\ request'[r].at = "idle" =>
              \A c \in request[r].clears : c[1] \notin DOMAIN application]_allVars

\* All of it at once, step by step: what is queued, by whatever handlers and pushes run
\* side by side and late, is what the policy lets someone queue there at that moment.
HavingStatus(statuses) == {d \in DOMAIN deployment : deployment[d].status \in statuses}

Policy == INSTANCE ReleasePolicy WITH
    Deployments <- DeploymentId,
    Places <- AppId \X HostId,
    release <- [d \in DOMAIN deployment |->
                   [place |-> <<deployment[d].app_id, deployment[d].host_id>>,
                    commit |-> deployment[d].commit_sha]],
    good <- HavingStatus({"Succeeded", "RolledBack"}),
    undone <- HavingStatus({"RolledBack"}),
    reason <- origin

ImplementsPolicy == Policy!Spec
=============================================================================
