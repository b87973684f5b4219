---------------------------- MODULE OperatorProofs ----------------------------
(***************************************************************************)
(* Proofs, for any number of handlers and failures, of what module         *)
(* OperatorActions states: a handler that looks into an old cache, makes   *)
(* two calls and waits for neither verdict nor connection still undoes a   *)
(* deployment once, restores what it should, and tells the truth.          *)
(***************************************************************************)
EXTENDS OperatorActions, ControlPlaneProofs

-----------------------------------------------------------------------------
(* Types *)

RollbackOf(d) == [by |-> "rollback", of |-> d]
Why == [by : {"deploy", "push"}] \cup [by : {"rollback"}, of : DeploymentId]

OpCall ==
    [op : {"queue"}, app : AppId, host : HostId, commit : Commits, why : Why]
      \cup [op : {"rollback"}, deployment : DeploymentId]
      \cup [op : {"delete_app"}, app : AppId]
      \cup [op : {"drain"}, host : HostId, draining : BOOLEAN]
      \cup [op : {"delete_host"}, host : HostId]
      \cup [op : {"register"}, name : AppNames]
      \cup [op : {"token"}, code : Codes]

SentCall == [by : Requests \cup {NoRequest}, call : OpCall]

Handling == [script : Seq(OpCall), next : 1 .. 2, at : Stage,
             clears : SUBSET (AppId \X AppNames), done : 0 .. 2]

CacheTyped ==
    /\ IsTable(cache.host, HostId, HostStatus)
    /\ IsTable(cache.application, AppId, AppNames)
    /\ IsTable(cache.deployment, DeploymentId, Deployment)

OperatorTypeOK ==
    /\ request \in [Requests -> Handling]
    /\ calls \in Seq(SentCall)
    /\ CacheTyped
    /\ link \in BOOLEAN
    /\ app_env \subseteq AppNames
    /\ remembered \subseteq Codes
    /\ used \in [inputs : 0 .. MaxInputs, failures : 0 .. MaxFailures]
    /\ IsTable(origin, DeploymentId, Why)

-----------------------------------------------------------------------------
(* The inductive invariant *)

Undone == {"Succeeded", "RolledBack"}

\* The server never leaves, and what it queued is there.
ServerStays == conn[Server] > 0 /\ Server \in operator /\ DOMAIN origin \subseteq DOMAIN deployment

\* The cache is what the tables were: ids it shows were given out, and a
\* success it shows has at most been rolled back since.
CacheIsPast ==
    /\ \A a \in DOMAIN cache.application : a < next_id.app
    /\ \A d \in DOMAIN cache.deployment :
          /\ d \in DOMAIN deployment
          /\ deployment[d].app_id = cache.deployment[d].app_id
          /\ deployment[d].host_id = cache.deployment[d].host_id
          /\ deployment[d].commit_sha = cache.deployment[d].commit_sha
          /\ cache.deployment[d].status = "Succeeded" => deployment[d].status \in Undone

\* The application had succeeded on that host before: with this commit, when
\* it is to be restored.
HasPrecedent(app, h) ==
    \E p \in DOMAIN deployment :
        deployment[p].app_id = app /\ deployment[p].host_id = h /\ deployment[p].status \in Undone

Restores(app, h, commit, d) ==
    /\ d \in DOMAIN deployment
    /\ deployment[d].app_id = app /\ deployment[d].host_id = h
    /\ deployment[d].commit_sha # commit
    /\ \E p \in DOMAIN deployment :
          /\ p < d
          /\ deployment[p].app_id = app
          /\ deployment[p].host_id = h
          /\ deployment[p].commit_sha = commit
          /\ deployment[p].status \in Undone

\* call queues the release that takes the place of d
Undoes(call, d) == call.op = "queue" /\ call.why = RollbackOf(d)

\* a call may be made for what it says it is for
Justified(call) ==
    call.op = "queue" =>
        /\ call.why.by = "push" => HasPrecedent(call.app, call.host)
        /\ call.why.by = "rollback" => Restores(call.app, call.host, call.commit, call.why.of)

JustifiedCalls == \A i \in DOMAIN calls : Justified(calls[i].call)

\* A handler makes one call that rolls nothing back, or marks a deployment and
\* queues the release before it.
OneCall(q) ==
    /\ Len(q.script) = 1
    /\ q.script[1].op # "rollback"
    /\ q.script[1].op = "queue" => q.script[1].why.by = "deploy"
    /\ \A c \in q.clears : q.script[1] = DeleteAppCall(c[1]) /\ c[1] < next_id.app

TwoCalls(q) ==
    /\ Len(q.script) = 2
    /\ q.clears = {}
    /\ \E d \in DeploymentId : q.script[1] = RollbackCall(d) /\ Undoes(q.script[2], d)
    /\ Justified(q.script[2])

\* where it is in its calls, and how many took effect
Progress(q) ==
    /\ q.next <= Len(q.script)
    /\ q.at \in {"ready", "sent", "denied", "refused"} => q.done + 1 = q.next
    /\ q.at \in {"ran", "accepted"} => q.done = q.next
    /\ q.at = "clearing" => q.done = Len(q.script)

\* what it will clear belonged to an application that is gone by then
ClearsWhatIsGone(q) ==
    q.at \in {"ran", "accepted", "clearing"} => \A c \in q.clears : c[1] \notin DOMAIN application

ScriptOK(q) == q = NotAsked \/ (q.at # "idle" /\ (OneCall(q) \/ TwoCalls(q)) /\ Progress(q)
                                /\ ClearsWhatIsGone(q))

ScriptsOK == \A r \in Requests : ScriptOK(request[r])

\* A call that is awaited is the one its handler has sent, and the only one.
AwaitedCalls ==
    /\ \A i \in DOMAIN calls : calls[i].by \in Requests =>
          /\ request[calls[i].by].at = "sent"
          /\ calls[i].call = request[calls[i].by].script[request[calls[i].by].next]
    /\ \A i, j \in DOMAIN calls : calls[i].by \in Requests /\ calls[i].by = calls[j].by => i = j

\* The right to queue a release in the place of d: it is held by the handler
\* whose mark was accepted, then carried by its call, then spent on a deployment.
Holds(r, d) ==
    /\ request[r].at \in {"ran", "accepted", "ready"}
    /\ request[r].done = 1
    /\ Len(request[r].script) = 2
    /\ Undoes(request[r].script[2], d)
Carries(i, d) == Undoes(calls[i].call, d)
Spent(e, d) == origin[e] = RollbackOf(d)

Marked(d) == d \in DOMAIN deployment /\ deployment[d].status = "RolledBack"

\* There is never more than one such right, and none before d is marked.
OneRight(d) ==
    /\ \A r \in Requests : Holds(r, d) =>
          /\ Marked(d)
          /\ \A s \in Requests : Holds(s, d) => r = s
          /\ \A i \in DOMAIN calls : ~Carries(i, d)
          /\ \A e \in DOMAIN origin : ~Spent(e, d)
    /\ \A i \in DOMAIN calls : Carries(i, d) =>
          /\ Marked(d)
          /\ \A j \in DOMAIN calls : Carries(j, d) => i = j
          /\ \A e \in DOMAIN origin : ~Spent(e, d)
    /\ \A e \in DOMAIN origin : Spent(e, d) =>
          /\ Marked(d)
          /\ \A f \in DOMAIN origin : Spent(f, d) => e = f

OneRightEach == \A d \in DeploymentId : OneRight(d)

\* the application of deployment e had succeeded on its host before
HasPrecedentBefore(e) ==
    \E p \in DOMAIN deployment :
        /\ p < e
        /\ deployment[p].app_id = deployment[e].app_id
        /\ deployment[p].host_id = deployment[e].host_id
        /\ deployment[p].status \in Undone

\* what the deployments queued here were queued for, as the calls said
QueuedFor(e) ==
    /\ origin[e].by = "push" => HasPrecedentBefore(e)
    /\ origin[e].by = "rollback" => Restores(deployment[e].app_id, deployment[e].host_id,
                                             deployment[e].commit_sha, origin[e].of)

OriginsOK == \A e \in DOMAIN origin : QueuedFor(e)
OperatorTyped == TypeOK /\ OperatorTypeOK /\ IdsAreFresh /\ ServerStays

-----------------------------------------------------------------------------
(* Calls *)

\* The fields a reducer call has, by what it calls.
LEMMA CallFields ==
    ASSUME NEW call \in OpCall
    PROVE  /\ call.op \in {"queue", "rollback", "delete_app", "drain", "delete_host", "register", "token"}
           /\ call.op = "queue" => /\ call.app \in AppId /\ call.host \in HostId
                                   /\ call.commit \in Commits /\ call.why \in Why
           /\ call.op = "rollback" => call.deployment \in DeploymentId
           /\ call.op = "delete_app" => call.app \in AppId
           /\ call.op = "drain" => call.host \in HostId /\ call.draining \in BOOLEAN
           /\ call.op = "delete_host" => call.host \in HostId
           /\ call.op = "register" => call.name \in AppNames
           /\ call.op = "token" => call.code \in Codes
BY DEF OpCall

\* A call that runs is one reducer of the control plane, called by the server.
LEMMA ReducerRuns ==
    ASSUME NEW call \in OpCall, Reducer(call)
    PROVE  \/ call.op = "queue" /\ QueueDeployment(Server, call.app, call.host, call.commit)
           \/ call.op = "rollback" /\ RollbackDeployment(Server, call.deployment)
           \/ call.op = "delete_app" /\ DeleteApplication(Server, call.app)
           \/ call.op = "drain" /\ SetHostDraining(Server, call.host, call.draining)
           \/ call.op = "delete_host" /\ DeleteHost(Server, call.host)
           \/ call.op = "register" /\ RegisterApplication(Server, call.name)
           \/ call.op = "token" /\ CreateEnrollmentToken(Server, call.code)
<1>1. call.op \in {"queue", "rollback", "delete_app", "drain", "delete_host", "register", "token"}
    BY CallFields
<1>2. CASE call.op = "queue"
    BY <1>2 DEF Reducer
<1>3. CASE call.op = "rollback"
    BY <1>3 DEF Reducer
<1>4. CASE call.op = "delete_app"
    BY <1>4 DEF Reducer
<1>5. CASE call.op = "drain"
    BY <1>5 DEF Reducer
<1>6. CASE call.op = "delete_host"
    BY <1>6 DEF Reducer
<1>7. CASE call.op = "register"
    BY <1>7 DEF Reducer
<1>8. CASE call.op = "token"
    BY <1>8 DEF Reducer
<1> QED
    BY <1>1, <1>2, <1>3, <1>4, <1>5, <1>6, <1>7, <1>8

\* The first call in flight, and those behind it.
LEMMA FirstCall ==
    ASSUME OperatorTypeOK, calls # <<>>
    PROVE  /\ 1 \in DOMAIN calls
           /\ Head(calls) = calls[1] /\ Head(calls) \in SentCall
           /\ Head(calls).call \in OpCall
           /\ Tail(calls) \in Seq(SentCall)
           /\ Len(Tail(calls)) = Len(calls) - 1
           /\ \A i \in DOMAIN Tail(calls) : i + 1 \in DOMAIN calls /\ Tail(calls)[i] = calls[i + 1]
<1>1. calls \in Seq(SentCall) /\ Len(calls) \in Nat \ {0}
    BY DEF OperatorTypeOK
<1>2. Head(calls) = calls[1] /\ 1 \in DOMAIN calls /\ calls[1] \in SentCall
    BY <1>1
<1> QED
    BY <1>1, <1>2 DEF SentCall

\* A handler's next call is one it may send.
LEMMA NextCall ==
    ASSUME OperatorTypeOK, NEW r \in Requests, request[r].next <= Len(request[r].script)
    PROVE  /\ request[r].next \in DOMAIN request[r].script
           /\ request[r].script[request[r].next] \in OpCall
<1>1. request[r].script \in Seq(OpCall) /\ request[r].next \in 1 .. 2
    BY DEF OperatorTypeOK, Handling
<1> QED
    BY <1>1

\* What the steps do to the tables, one disjunct for each that does anything.
DataStep ==
    \/ Deliver /\ calls # <<>> /\ Accepts(Head(calls).call) /\ Reducer(Head(calls).call)
    \/ AgentActs
    \/ UNCHANGED vars

LEMMA DataSteps == [OperatorNext]_allVars => DataStep
<1>1. SUFFICES ASSUME OperatorNext PROVE DataStep
    BY DEF DataStep, allVars
<1>2. ASSUME NEW r \in Requests, Handler(r) PROVE UNCHANGED vars
    BY <1>2 DEF Handler, AddServer, RegisterApp, Deploy, SetDraining, Rollback, DeleteApp, RemoveHost,
                Ask, Begin, Send, Continue, Refused, GiveUp, ClearEnv
<1>3. SetEnv \/ Push \/ Refresh \/ LinkDrops \/ Restart => UNCHANGED vars
    BY DEF SetEnv, Push, Refresh, LinkDrops, Restart
<1>4. ASSUME Deliver PROVE DataStep
    BY <1>4 DEF Deliver, DataStep
<1> QED
    BY <1>1, <1>2, <1>3, <1>4 DEF OperatorNext, DataStep

\* Every step is a call of a connected client, or changes no table.
LEMMA StepsAreCalls == OperatorTyped /\ DataStep => [Next]_vars
<1> SUFFICES ASSUME OperatorTyped, DataStep PROVE [Next]_vars
    OBVIOUS
<1>1. Server \in Connected /\ Agent \in Identities
    BY OperatorAssumption DEF OperatorTyped, ServerStays, Connected
<1>2. ASSUME calls # <<>>, Reducer(Head(calls).call) PROVE OperatorReducer(Server)
    <2> DEFINE call == Head(calls).call
    <2>1. call \in OpCall
        BY <1>2, FirstCall DEF OperatorTyped
    <2> HIDE DEF call
    <2>2. Reducer(call)
        BY <1>2 DEF call
    <2> QED
        BY <2>1, <2>2, ReducerRuns, CallFields DEF OperatorReducer
<1>3. ASSUME AgentActs PROVE Next
    <2>1. ASSUME conn[Agent] > 0 PROVE Agent \in Connected
        BY <2>1, <1>1 DEF Connected
    <2>2. DOMAIN deployment \subseteq DeploymentId
        BY DEF OperatorTyped, TypeOK, IsTable
    <2> QED
        BY <1>3, <1>1, <2>1, <2>2 DEF AgentActs, Next, AgentReducer
<1> QED
    BY <1>1, <1>2, <1>3 DEF DataStep, Next
-----------------------------------------------------------------------------
(* What a step never takes back *)

\* Deployments keep what they deploy, successes stay successes or are marked,
\* marks stay, and ids of applications are not given out again.
Grows ==
    /\ \A d \in DOMAIN deployment :
          /\ d \in DOMAIN deployment'
          /\ deployment'[d].app_id = deployment[d].app_id
          /\ deployment'[d].host_id = deployment[d].host_id
          /\ deployment'[d].commit_sha = deployment[d].commit_sha
          /\ deployment[d].status \in Undone => deployment'[d].status \in Undone
          /\ deployment[d].status = "RolledBack" => deployment'[d].status = "RolledBack"
    /\ \A a \in AppId : a < next_id.app =>
          a < next_id'.app /\ (a \notin DOMAIN application => a \notin DOMAIN application')

\* Which rows each step of the system touches.
LEMMA RowSteps ==
    ASSUME OperatorTyped, DataStep
    PROVE  \/ \E app \in AppId, h \in HostId, commit \in Commits :
                 QueueDeployment(Server, app, h, commit)
           \/ \E d \in DeploymentId : RollbackDeployment(Server, d)
           \/ \E d \in DeploymentId : StartDeployment(Agent, d)
           \/ \E d \in DOMAIN deployment, ok \in BOOLEAN :
                 deployment[d].status = "Running" /\ FinishDeployment(Agent, d, ok)
           \/ \E app \in AppId : DeleteApplication(Server, app)
           \/ \E name \in AppNames : RegisterApplication(Server, name)
           \/ UNCHANGED <<application, deployment, next_id>>
<1>1. ASSUME calls # <<>>, Reducer(Head(calls).call)
      PROVE  \/ \E app \in AppId, h \in HostId, commit \in Commits :
                 QueueDeployment(Server, app, h, commit)
             \/ \E d \in DeploymentId : RollbackDeployment(Server, d)
             \/ \E app \in AppId : DeleteApplication(Server, app)
             \/ \E name \in AppNames : RegisterApplication(Server, name)
             \/ UNCHANGED <<application, deployment, next_id>>
    <2> DEFINE call == Head(calls).call
    <2>1. call \in OpCall
        BY <1>1, FirstCall DEF OperatorTyped
    <2> HIDE DEF call
    <2>2. Reducer(call)
        BY <1>1 DEF call
    <2>3. \A h, draining : SetHostDraining(Server, h, draining) =>
                              UNCHANGED <<application, deployment, next_id>>
        BY DEF SetHostDraining, presenceFrame
    <2>4. \A h : DeleteHost(Server, h) => UNCHANGED <<application, deployment, next_id>>
        BY DEF DeleteHost
    <2>5. \A code : CreateEnrollmentToken(Server, code) => UNCHANGED <<application, deployment, next_id>>
        BY DEF CreateEnrollmentToken
    <2> QED
        BY <2>1, <2>2, <2>3, <2>4, <2>5, ReducerRuns, CallFields
<1>2. ASSUME AgentActs
      PROVE  \/ \E d \in DeploymentId : StartDeployment(Agent, d)
             \/ \E d \in DOMAIN deployment, ok \in BOOLEAN :
                   deployment[d].status = "Running" /\ FinishDeployment(Agent, d, ok)
             \/ UNCHANGED <<application, deployment, next_id>>
    BY <1>2 DEF AgentActs, ClientConnected, ClientDisconnected, presenceFrame
<1> QED
    BY <1>1, <1>2 DEF DataStep, vars

LEMMA DataGrows == OperatorTyped /\ DataStep => Grows
<1> SUFFICES ASSUME OperatorTyped, DataStep PROVE Grows
    OBVIOUS
<1> USE DEF Undone
<1>1. IsTable(deployment, DeploymentId, Deployment) /\ IsTable(application, AppId, AppNames)
    BY DEF OperatorTyped, TypeOK
<1>2. next_id.deployment \in Nat /\ next_id.app \in Nat /\ next_id \in [host : 1 .. MaxHosts + 1,
         app : 1 .. MaxApps + 1, deployment : 1 .. MaxDeployments + 1]
    BY BoundAssumption DEF OperatorTyped, TypeOK
<1>3. AppId \subseteq Nat
    BY DEF AppId
<1>4. \A d \in DOMAIN deployment : d < next_id.deployment /\ d \in Nat
    BY <1>1 DEF OperatorTyped, IdsAreFresh, IsTable, DeploymentId
<1>5. CASE \E app \in AppId, h \in HostId, commit \in Commits :
              QueueDeployment(Server, app, h, commit)
    <2>1. PICK app \in AppId, h \in HostId, commit \in Commits : QueueDeployment(Server, app, h, commit)
        BY <1>5
    <2>2. UNCHANGED application /\ next_id'.app = next_id.app
        BY <2>1, <1>2 DEF QueueDeployment
    <2>3. \A d \in DOMAIN deployment : d \in DOMAIN deployment' /\ deployment'[d] = deployment[d]
        BY <2>1, <1>4 DEF QueueDeployment, Put
    <2> QED
        BY <2>2, <2>3, <1>2 DEF Grows
<1>6. CASE \E d \in DeploymentId : RollbackDeployment(Server, d)
    BY <1>6, <1>1 DEF RollbackDeployment, IsRollbackable, deploymentFrame, Grows, IsTable, Deployment
<1>7. CASE \E d \in DeploymentId : StartDeployment(Agent, d)
    BY <1>7, <1>1 DEF StartDeployment, IsClaimable, deploymentFrame, Grows, IsTable, Deployment
<1>8. CASE \E d \in DOMAIN deployment, ok \in BOOLEAN :
              deployment[d].status = "Running" /\ FinishDeployment(Agent, d, ok)
    BY <1>8, <1>1 DEF FinishDeployment, deploymentFrame, Grows, IsTable, Deployment
<1>9. CASE \E app \in AppId : DeleteApplication(Server, app)
    <2>1. PICK app \in AppId : DeleteApplication(Server, app)
        BY <1>9
    <2>2. DOMAIN application' \subseteq DOMAIN application
        BY <2>1, <1>1, RestrictTable DEF DeleteApplication, Drop
    <2> QED
        BY <2>1, <2>2 DEF DeleteApplication, Grows
<1>10. CASE \E name \in AppNames : RegisterApplication(Server, name)
    <2>1. PICK name \in AppNames : RegisterApplication(Server, name)
        BY <1>10
    <2>2. DOMAIN application' = DOMAIN application \cup {next_id.app} /\ UNCHANGED deployment
        BY <2>1 DEF RegisterApplication, Put
    <2>3. next_id'.app = next_id.app + 1
        BY <2>1, <1>2 DEF RegisterApplication
    <2> QED
        BY <2>2, <2>3, <1>2, <1>3 DEF Grows
<1>11. CASE UNCHANGED <<application, deployment, next_id>>
    BY <1>11 DEF Grows
<1> QED
    BY <1>5, <1>6, <1>7, <1>8, <1>9, <1>10, <1>11, RowSteps

\* What a call was justified by, or an origin, stays true.
LEMMA PrecedentsStay ==
    ASSUME Grows, NEW app, NEW h
    PROVE  /\ HasPrecedent(app, h) => HasPrecedent(app, h)'
           /\ \A commit, d : Restores(app, h, commit, d) => Restores(app, h, commit, d)'
<1>1. HasPrecedent(app, h) => HasPrecedent(app, h)'
    BY DEF Grows, HasPrecedent
<1>2. ASSUME NEW commit, NEW d, Restores(app, h, commit, d) PROVE Restores(app, h, commit, d)'
    BY <1>2 DEF Grows, Restores
<1> QED
    BY <1>1, <1>2

LEMMA JustifiedStays ==
    ASSUME Grows, NEW call, Justified(call)
    PROVE  Justified(call)'
BY PrecedentsStay DEF Justified

LEMMA MarksStay == ASSUME Grows, NEW d, Marked(d) PROVE Marked(d)'
BY DEF Grows, Marked
-----------------------------------------------------------------------------
(* How a handler starts *)

Starts(r) ==
    \/ AddServer(r) \/ RegisterApp(r) \/ Deploy(r) \/ SetDraining(r) \/ Rollback(r)
    \/ DeleteApp(r) \/ RemoveHost(r)

\* the calls it will make, and what it will clear, are fit to be made
Begins(r) ==
    \E script \in Seq(OpCall), clears \in SUBSET (AppId \X AppNames) :
        /\ Begin(r, script, clears)
        /\ Len(script) \in 1 .. 2
        /\ OneCall(NewRequest(script, clears)) \/ TwoCalls(NewRequest(script, clears))

LEMMA OneCallBegins ==
    ASSUME NEW r, NEW call \in OpCall, Begin(r, <<call>>, {}),
           call.op # "rollback", call.op = "queue" => call.why.by = "deploy"
    PROVE  Begins(r)
<1> DEFINE s == <<call>>
<1>1. s \in Seq(OpCall) /\ Len(s) = 1 /\ s[1] = call
    OBVIOUS
<1> HIDE DEF s
<1>2. OneCall(NewRequest(s, {}))
    BY <1>1 DEF OneCall, NewRequest
<1>3. Begin(r, s, {})
    BY DEF s
<1> QED
    BY <1>1, <1>2, <1>3 DEF Begins

\* An earlier success the cache shows did succeed, and is older than what is
\* rolled back.
LEMMA RollbackBegins ==
    ASSUME OperatorTyped, CacheIsPast, NEW r, Rollback(r)
    PROVE  Begins(r) /\ UNCHANGED remembered
<1>1. PICK d \in DOMAIN cache.deployment :
         /\ Priors(d) # {}
         /\ Ask(r, <<RollbackCall(d),
                     QueueCall(cache.deployment[d].app_id, cache.deployment[d].host_id,
                               cache.deployment[Max(Priors(d))].commit_sha, RollbackOf(d))>>, {})
    BY DEF Rollback, RollbackOf
<1>2. IsTable(cache.deployment, DeploymentId, Deployment) /\ DeploymentId \subseteq 0 .. MaxDeployments
      /\ MaxDeployments \in Nat
    BY BoundAssumption DEF OperatorTyped, OperatorTypeOK, CacheTyped, DeploymentId
<1> DEFINE p == Max(Priors(d))
           dep == cache.deployment[d]
           undo == RollbackCall(d)
           redo == QueueCall(dep.app_id, dep.host_id, cache.deployment[p].commit_sha, RollbackOf(d))
           s == <<undo, redo>>
<1>3. p \in Priors(d)
    <2>1. Priors(d) \subseteq 0 .. MaxDeployments
        BY <1>2 DEF Priors, IsTable
    <2> QED
        BY <1>1, <1>2, <2>1, GreatestNumber DEF Max
<1> HIDE DEF p
<1>4. p \in DOMAIN cache.deployment /\ d \in DeploymentId /\ dep \in Deployment
      /\ cache.deployment[p] \in Deployment
    BY <1>2, <1>3 DEF IsTable, Priors
<1>5. Restores(dep.app_id, dep.host_id, cache.deployment[p].commit_sha, d)
    BY <1>3, <1>4 DEF Priors, CacheIsPast, Restores
<1>6. undo \in OpCall /\ redo \in OpCall
    BY <1>4 DEF RollbackCall, QueueCall, OpCall, Deployment, Why, RollbackOf
<1>7. Justified(redo) /\ Undoes(redo, d) /\ undo = RollbackCall(d)
    BY <1>5 DEF Justified, Undoes, QueueCall, RollbackOf
<1> HIDE DEF undo, redo
<1>8. s \in Seq(OpCall) /\ Len(s) = 2 /\ s[1] = undo /\ s[2] = redo
    BY <1>6
<1> HIDE DEF s
<1>9. TwoCalls(NewRequest(s, {}))
    BY <1>4, <1>7, <1>8 DEF TwoCalls, NewRequest
<1>10. Begin(r, s, {}) /\ UNCHANGED remembered
    BY <1>1 DEF Ask, s, undo, redo, p
<1> QED
    BY <1>8, <1>9, <1>10 DEF Begins

LEMMA DeleteAppBegins ==
    ASSUME OperatorTyped, CacheIsPast, NEW r, DeleteApp(r)
    PROVE  Begins(r) /\ UNCHANGED remembered
<1>1. PICK app \in AppId :
         Ask(r, <<DeleteAppCall(app)>>,
             {<<a, cache.application[a]>> : a \in DOMAIN cache.application \cap {app}})
    BY DEF DeleteApp
<1> DEFINE call == DeleteAppCall(app)
           s == <<call>>
           clears == {<<a, cache.application[a]>> : a \in DOMAIN cache.application \cap {app}}
<1>2. call \in OpCall /\ call.op = "delete_app"
    BY DEF DeleteAppCall, OpCall
<1>3. clears \in SUBSET (AppId \X AppNames)
    BY DEF OperatorTyped, OperatorTypeOK, CacheTyped, IsTable
<1>4. \A c \in clears : c[1] = app /\ c[1] < next_id.app
    BY DEF CacheIsPast
<1>5. \A c \in clears : call = DeleteAppCall(c[1])
    BY <1>4
<1> HIDE DEF call, clears
<1>6. s \in Seq(OpCall) /\ Len(s) = 1 /\ s[1] = call
    BY <1>2
<1> HIDE DEF s
<1>7. OneCall(NewRequest(s, clears))
    BY <1>2, <1>4, <1>5, <1>6 DEF OneCall, NewRequest
<1>8. Begin(r, s, clears) /\ UNCHANGED remembered
    BY <1>1 DEF Ask, s, call, clears
<1> QED
    BY <1>3, <1>6, <1>7, <1>8 DEF Begins

LEMMA StartsAreFit ==
    ASSUME OperatorTyped, CacheIsPast, NEW r, Starts(r)
    PROVE  Begins(r) /\ remembered' \subseteq Codes
<1> USE DEF OpCall
<1>1. remembered \subseteq Codes /\ CacheTyped
    BY DEF OperatorTyped, OperatorTypeOK
<1>2. CASE AddServer(r)
    <2>1. PICK code \in Codes : Begin(r, <<TokenCall(code)>>, {}) /\ remembered' = Remember(code)
        BY <1>2 DEF AddServer
    <2>2. TokenCall(code) \in OpCall /\ TokenCall(code).op = "token"
        BY DEF TokenCall
    <2> QED
        BY <2>1, <2>2, <1>1, OneCallBegins DEF Remember
<1>3. CASE RegisterApp(r)
    <2>1. PICK name \in AppNames : Ask(r, <<RegisterCall(name)>>, {})
        BY <1>3 DEF RegisterApp
    <2>2. RegisterCall(name) \in OpCall /\ RegisterCall(name).op = "register"
        BY DEF RegisterCall
    <2> QED
        BY <2>1, <2>2, <1>1, OneCallBegins DEF Ask
<1>4. CASE Deploy(r)
    <2>1. PICK app \in DOMAIN cache.application, h \in HostId, commit \in Commits :
             Ask(r, <<QueueCall(app, h, commit, [by |-> "deploy"])>>, {})
        BY <1>4 DEF Deploy
    <2> DEFINE call == QueueCall(app, h, commit, [by |-> "deploy"])
    <2>2. call \in OpCall /\ call.op = "queue" /\ call.why.by = "deploy"
        BY <1>1 DEF QueueCall, Why, CacheTyped, IsTable
    <2> HIDE DEF call
    <2>3. Begin(r, <<call>>, {}) /\ UNCHANGED remembered
        BY <2>1 DEF Ask, call
    <2> QED
        BY <2>2, <2>3, <1>1, OneCallBegins
<1>5. CASE SetDraining(r)
    <2>1. PICK h \in DOMAIN cache.host, draining \in BOOLEAN : Ask(r, <<DrainCall(h, draining)>>, {})
        BY <1>5 DEF SetDraining
    <2>2. DrainCall(h, draining) \in OpCall /\ DrainCall(h, draining).op = "drain"
        BY <1>1 DEF DrainCall, CacheTyped, IsTable
    <2> QED
        BY <2>1, <2>2, <1>1, OneCallBegins DEF Ask
<1>6. CASE RemoveHost(r)
    <2>1. PICK h \in DOMAIN cache.host : Ask(r, <<DeleteHostCall(h)>>, {})
        BY <1>6 DEF RemoveHost
    <2>2. DeleteHostCall(h) \in OpCall /\ DeleteHostCall(h).op = "delete_host"
        BY <1>1 DEF DeleteHostCall, CacheTyped, IsTable
    <2> QED
        BY <2>1, <2>2, <1>1, OneCallBegins DEF Ask
<1> QED
    BY <1>1, <1>2, <1>3, <1>4, <1>5, <1>6, RollbackBegins, DeleteAppBegins DEF Starts
-----------------------------------------------------------------------------
(* What a step does to the calls in flight *)

\* Calls whose handler is gone stay, awaited by no one.
LEMMA OrphanedCalls ==
    ASSUME NEW cs \in Seq(SentCall), NEW R
    PROVE  /\ Orphaned(cs, R) \in Seq(SentCall)
           /\ Len(Orphaned(cs, R)) = Len(cs)
           /\ \A i \in DOMAIN cs :
                 /\ Orphaned(cs, R)[i].call = cs[i].call
                 /\ Orphaned(cs, R)[i].by = IF cs[i].by \in R THEN NoRequest ELSE cs[i].by
<1>1. Len(cs) \in Nat /\ DOMAIN cs = 1 .. Len(cs) /\ \A i \in DOMAIN cs : cs[i] \in SentCall
    OBVIOUS
<1>2. \A i \in DOMAIN cs : /\ Orphaned(cs, R)[i] \in SentCall
                           /\ Orphaned(cs, R)[i].call = cs[i].call
                           /\ Orphaned(cs, R)[i].by = IF cs[i].by \in R THEN NoRequest ELSE cs[i].by
    BY <1>1 DEF Orphaned, SentCall
<1>3. Orphaned(cs, R) \in [1 .. Len(cs) -> SentCall]
    BY <1>1, <1>2 DEF Orphaned
<1>4. Orphaned(cs, R) \in Seq(SentCall) /\ Len(Orphaned(cs, R)) = Len(cs)
    BY <1>1, <1>3
<1> QED
    BY <1>2, <1>4

\* The calls are those that were, from the k-th on, or fewer; some may have
\* lost who awaited them.
Kept(k) ==
    \A i \in DOMAIN calls' :
        /\ i + k \in DOMAIN calls
        /\ calls'[i].call = calls[i + k].call
        /\ calls'[i].by \in {calls[i + k].by, NoRequest}

LEMMA CutCalls ==
    ASSUME OperatorTypeOK, NEW R, Cut(R)
    PROVE  /\ calls' \in Seq(SentCall)
           /\ Kept(0)
           /\ \A i \in DOMAIN calls' : calls'[i].by \notin R \ {NoRequest}
<1>1. PICK n \in 0 .. Len(calls) : calls' = Orphaned(SubSeq(calls, 1, n), R)
    BY DEF Cut
<1> DEFINE cs == SubSeq(calls, 1, n)
<1>2. calls \in Seq(SentCall) /\ Len(calls) \in Nat /\ n \in Nat /\ n <= Len(calls)
    BY <1>1 DEF OperatorTypeOK
<1>3. cs \in Seq(SentCall) /\ Len(cs) = n /\ \A i \in 1 .. n : cs[i] = calls[i]
    BY <1>2
<1> HIDE DEF cs
<1>4. calls' = Orphaned(cs, R)
    BY <1>1 DEF cs
<1>5. calls' \in Seq(SentCall) /\ Len(calls') = n
    BY <1>3, <1>4, OrphanedCalls
<1>6. ASSUME NEW i \in DOMAIN calls'
      PROVE  /\ i + 0 \in DOMAIN calls
             /\ calls'[i].call = calls[i + 0].call
             /\ calls'[i].by = IF calls[i + 0].by \in R THEN NoRequest ELSE calls[i + 0].by
    <2>1. i \in 1 .. n /\ i + 0 = i /\ i \in DOMAIN cs /\ i \in DOMAIN calls
        BY <1>2, <1>3, <1>5
    <2>2. /\ Orphaned(cs, R)[i].call = cs[i].call
          /\ Orphaned(cs, R)[i].by = IF cs[i].by \in R THEN NoRequest ELSE cs[i].by
        BY <2>1, <1>3, OrphanedCalls
    <2> QED
        BY <2>1, <2>2, <1>3, <1>4
<1> QED
    BY <1>5, <1>6 DEF Kept

\* A push adds calls nobody awaits, each to a target it found.
LEMMA PushedCalls ==
    ASSUME OperatorTyped, CacheIsPast, Push
    PROVE  /\ calls' \in Seq(SentCall)
           /\ \A i \in DOMAIN calls' :
                 \/ i \in DOMAIN calls /\ calls'[i] = calls[i]
                 \/ /\ calls'[i].by = NoRequest
                    /\ calls'[i].call.op = "queue" /\ calls'[i].call.why.by = "push"
                    /\ Justified(calls'[i].call)
<1>1. PICK app \in DOMAIN cache.application, commit \in Commits :
         \E targets \in SetToSeqs(Targets(app)) :
         calls' = IF ~link THEN calls
                  ELSE calls \o [i \in DOMAIN targets |->
                     Awaited(NoRequest, QueueCall(app, targets[i], commit, [by |-> "push"]))]
    BY DEF Push
<1>2. PICK targets \in SetToSeqs(Targets(app)) :
         calls' = IF ~link THEN calls
                  ELSE calls \o [i \in DOMAIN targets |->
                     Awaited(NoRequest, QueueCall(app, targets[i], commit, [by |-> "push"]))]
    BY <1>1
<1> DEFINE pushed == [i \in DOMAIN targets |->
                        Awaited(NoRequest, QueueCall(app, targets[i], commit, [by |-> "push"]))]
<1>3. calls \in Seq(SentCall) /\ CacheTyped
    BY DEF OperatorTyped, OperatorTypeOK
<1>4. DOMAIN targets = 1 .. Cardinality(Targets(app)) /\ \A i \in DOMAIN targets : targets[i] \in Targets(app)
    BY DEF SetToSeqs, Injection, Bijection, Surjection
<1>5. IsFiniteSet(Targets(app)) /\ Cardinality(Targets(app)) \in Nat
    <2>1. Targets(app) \in SUBSET HostId
        BY <1>3 DEF Targets, CacheTyped, IsTable
    <2>2. IsFiniteSet(HostId)
        BY FS_Interval, BoundAssumption DEF HostId
    <2> QED
        BY <2>1, <2>2, FS_Subset, FS_CardinalityType
<1>6. ASSUME NEW i \in DOMAIN targets
      PROVE  /\ pushed[i] \in SentCall /\ pushed[i].by = NoRequest
             /\ pushed[i].call.op = "queue" /\ pushed[i].call.why.by = "push"
             /\ Justified(pushed[i].call)
    <2> DEFINE h == targets[i]
               why == [by |-> "push"]
               call == QueueCall(app, h, commit, why)
    <2>1. h \in Targets(app)
        BY <1>4
    <2>2. pushed[i] = Awaited(NoRequest, call)
        OBVIOUS
    <2>3. why \in Why /\ why.by = "push"
        BY DEF Why
    <2>4. app \in AppId /\ h \in HostId
        BY <1>3, <2>1 DEF Targets, CacheTyped, IsTable
    <2>5. HasPrecedent(app, h)
        BY <2>1 DEF Targets, CacheIsPast, HasPrecedent
    <2> HIDE DEF h, why, pushed
    <2>6. call \in OpCall /\ call.op = "queue" /\ call.why = why /\ call.app = app /\ call.host = h
        BY <2>3, <2>4 DEF QueueCall, OpCall
    <2>7. Justified(call)
        BY <2>3, <2>5, <2>6 DEF Justified
    <2> HIDE DEF call
    <2> QED
        BY <2>2, <2>3, <2>6, <2>7 DEF Awaited, SentCall
<1>7. pushed \in [1 .. Cardinality(Targets(app)) -> SentCall]
    BY <1>4, <1>6
<1> HIDE DEF pushed
<1>8. pushed \in Seq(SentCall) /\ DOMAIN pushed = DOMAIN targets
    BY <1>4, <1>5, <1>7
<1>9. calls' = calls \/ calls' = calls \o pushed
    BY <1>2 DEF pushed
<1>10. CASE calls' = calls \o pushed
    <2>1. calls' \in Seq(SentCall) /\ Len(calls') = Len(calls) + Len(pushed)
          /\ Len(calls) \in Nat /\ Len(pushed) \in Nat
        BY <1>3, <1>8, <1>10
    <2>2. ASSUME NEW i \in DOMAIN calls', i \notin DOMAIN calls
          PROVE  i - Len(calls) \in DOMAIN pushed /\ calls'[i] = pushed[i - Len(calls)]
        BY <2>1, <2>2, <1>3, <1>8, <1>10
    <2>3. ASSUME NEW i \in DOMAIN calls', i \in DOMAIN calls
          PROVE  calls'[i] = calls[i]
        BY <2>1, <2>3, <1>3, <1>8, <1>10
    <2> QED
        BY <2>1, <2>2, <2>3, <1>6, <1>8
<1> QED
    BY <1>3, <1>9, <1>10
-----------------------------------------------------------------------------
(* What a step does to a handler *)

OperatorInv ==
    /\ OperatorTyped
    /\ CacheIsPast
    /\ JustifiedCalls
    /\ ScriptsOK
    /\ AwaitedCalls
    /\ OneRightEach
    /\ OriginsOK

FitToStart(n) ==
    /\ n \in Handling
    /\ n.at = "ready" /\ n.next = 1 /\ n.done = 0
    /\ OneCall(n) \/ TwoCalls(n)

\* how a handler gets from q to n in one step
Moved(q, n) ==
    \/ n = q
    \/ n = NotAsked
    \/ FitToStart(n)
    \/ q.at = "ready" /\ n = [q EXCEPT !.at = "sent"]
    \/ q.at = "sent" /\ n = [q EXCEPT !.at = "denied"]
    \/ /\ q.at = "sent" /\ n = [q EXCEPT !.at = "ran", !.done = @ + 1]
       /\ \A app : q.script[q.next] = DeleteAppCall(app) => app \notin DOMAIN application'
    \/ q.at = "ran" /\ n = [q EXCEPT !.at = "accepted"]
    \/ q.at = "denied" /\ n = [q EXCEPT !.at = "refused"]
    \/ q.at = "accepted" /\ q.next = Len(q.script) /\ n = [q EXCEPT !.at = "clearing"]
    \/ q.at = "accepted" /\ q.next # Len(q.script) /\ n = [q EXCEPT !.next = @ + 1, !.at = "ready"]

\* A handler's record, field by field.
LEMMA HandlingFields ==
    ASSUME NEW q \in Handling
    PROVE  /\ q.script \in Seq(OpCall) /\ Len(q.script) \in Nat
           /\ q.next \in 1 .. 2 /\ q.at \in Stage
           /\ q.clears \subseteq AppId \X AppNames /\ q.done \in 0 .. 2
           /\ \A at \in Stage : LET n == [q EXCEPT !.at = at] IN
                 /\ n \in Handling
                 /\ n.at = at /\ n.script = q.script /\ n.next = q.next
                 /\ n.clears = q.clears /\ n.done = q.done
BY DEF Handling

LEMMA NotAskedTyped == NotAsked \in Handling /\ NotAsked.at = "idle" /\ NotAsked.script = <<>>
                       /\ NotAsked.done = 0 /\ Len(NotAsked.script) = 0
<1>1. NotAsked = [script |-> <<>>, next |-> 1, at |-> "idle", clears |-> {}, done |-> 0]
    <2>1. \A s, c : [NewRequest(s, c) EXCEPT !.at = "idle"]
                      = [script |-> s, next |-> 1, at |-> "idle", clears |-> c, done |-> 0]
        BY DEF NewRequest
    <2> QED
        BY <2>1 DEF NotAsked
<1>2. <<>> \in Seq(OpCall) /\ Len(<<>>) = 0
    OBVIOUS
<1>3. 1 \in 1 .. 2 /\ 0 \in 0 .. 2 /\ {} \in SUBSET (AppId \X AppNames) /\ "idle" \in Stage
    BY DEF Stage
<1>4. NotAsked \in Handling
    BY ONLY <1>1, <1>2, <1>3 DEF Handling
<1> QED
    BY <1>1, <1>2, <1>4

\* What a handler will do and what became of it so far stay coherent as it moves.
LEMMA MovedIsOK ==
    ASSUME Grows, NEW q \in Handling, ScriptOK(q), NEW n, Moved(q, n)
    PROVE  n \in Handling /\ ScriptOK(n)'
<1>1. ASSUME NEW m, OneCall(m), m \in Handling PROVE OneCall(m)'
    <2>1. \A c \in m.clears : c[1] \in AppId
        BY <1>1 DEF Handling
    <2> QED
        BY <1>1, <2>1 DEF OneCall, Grows
<1>2. ASSUME NEW m, TwoCalls(m) PROVE TwoCalls(m)'
    BY <1>2, JustifiedStays DEF TwoCalls
<1>3. ASSUME NEW m, ClearsWhatIsGone(m), OneCall(m) \/ TwoCalls(m), m \in Handling
      PROVE  ClearsWhatIsGone(m)'
    <2>1. \A c \in m.clears : c[1] \in AppId
        BY <1>3 DEF Handling
    <2> QED
        BY <1>3, <2>1 DEF ClearsWhatIsGone, OneCall, TwoCalls, Grows
<1>4. CASE n = q
    <2>1. \A m : (m = NotAsked)' <=> m = NotAsked
        BY DEF NotAsked, NewRequest
    <2>2. \A m : Progress(m)' <=> Progress(m)
        BY DEF Progress
    <2> QED
        BY <1>1, <1>2, <1>3, <1>4, <2>1, <2>2 DEF ScriptOK
<1>5. CASE n = NotAsked
    BY <1>5, NotAskedTyped DEF ScriptOK, NotAsked, NewRequest
<1>6. CASE FitToStart(n)
    <2>1. n \in Handling /\ n.at = "ready" /\ n.next = 1 /\ n.done = 0 /\ (OneCall(n) \/ TwoCalls(n))
        BY <1>6 DEF FitToStart
    <2>2. OneCall(n)' \/ TwoCalls(n)'
        BY <2>1, <1>1, <1>2
    <2>3. Progress(n)'
        BY <2>1 DEF Progress, OneCall, TwoCalls
    <2>4. ClearsWhatIsGone(n)'
        BY <2>1 DEF ClearsWhatIsGone
    <2> QED
        BY <2>1, <2>2, <2>3, <2>4 DEF ScriptOK
<1>7. ASSUME ~(n = q \/ n = NotAsked \/ FitToStart(n))
      PROVE  /\ q.at # "idle" /\ (OneCall(q) \/ TwoCalls(q)) /\ Progress(q) /\ ClearsWhatIsGone(q)
             /\ n.script = q.script /\ n.clears = q.clears /\ n.at \in Stage \ {"idle"}
             /\ n \in Handling
             /\ \/ q.at = "ready" /\ n.at = "sent" /\ n.next = q.next /\ n.done = q.done
                \/ q.at = "sent" /\ n.at = "denied" /\ n.next = q.next /\ n.done = q.done
                \/ /\ q.at = "sent" /\ n.at = "ran" /\ n.next = q.next /\ n.done = q.done + 1
                   /\ \A app : q.script[q.next] = DeleteAppCall(app) => app \notin DOMAIN application'
                \/ q.at = "ran" /\ n.at = "accepted" /\ n.next = q.next /\ n.done = q.done
                \/ q.at = "denied" /\ n.at = "refused" /\ n.next = q.next /\ n.done = q.done
                \/ /\ q.at = "accepted" /\ n.at = "clearing" /\ n.next = q.next /\ n.done = q.done
                   /\ q.next = Len(q.script)
                \/ /\ q.at = "accepted" /\ n.at = "ready" /\ n.next = q.next + 1 /\ n.done = q.done
                   /\ q.next # Len(q.script)
    <2>1. q.at # "idle"
        BY <1>7 DEF Moved
    <2>2. (OneCall(q) \/ TwoCalls(q)) /\ Progress(q) /\ ClearsWhatIsGone(q)
        BY <2>1, NotAskedTyped DEF ScriptOK
    <2>3. Len(q.script) \in 1 .. 2
        BY <2>2 DEF OneCall, TwoCalls
    <2>4. q.next \in 1 .. 2 /\ q.done \in 0 .. 2
        BY DEF Handling
    <2>5. q.at = "sent" => q.done + 1 \in 0 .. 2
        BY <2>2, <2>3, <2>4 DEF Progress
    <2>6. q.next # Len(q.script) => q.next + 1 \in 1 .. 2
        <3>1. q.next <= Len(q.script)
            BY <2>2 DEF Progress
        <3>2. \A k, l \in 1 .. 2 : k <= l /\ k # l => k + 1 \in 1 .. 2
            OBVIOUS
        <3> QED
            BY <2>3, <2>4, <3>1, <3>2
    <2> QED
        BY <1>7, <2>1, <2>2, <2>5, <2>6 DEF Moved, Handling, Stage
<1>8. CASE ~(n = q \/ n = NotAsked \/ FitToStart(n))
    <2>1. OneCall(n)' \/ TwoCalls(n)'
        <3>1. OneCall(q)' \/ TwoCalls(q)'
            BY <1>7, <1>8, <1>1, <1>2
        <3> QED
            BY <3>1, <1>7, <1>8 DEF OneCall, TwoCalls
    <2>2. Len(q.script) \in 1 .. 2 /\ q.next \in 1 .. 2 /\ q.done \in 0 .. 2
        BY <1>7, <1>8 DEF OneCall, TwoCalls, Handling
    <2>3. Progress(n)'
        BY <2>2, <1>7, <1>8 DEF Progress
    <2>4. ClearsWhatIsGone(n)'
        <3>1. ClearsWhatIsGone(q)'
            BY <1>7, <1>8, <1>3
        <3>2. CASE q.at = "sent" /\ n.at = "ran"
            <4>1. ASSUME NEW c \in q.clears PROVE c[1] \notin DOMAIN application'
                <5>1. OneCall(q)
                    BY <1>7, <1>8 DEF TwoCalls
                <5>2. q.next = 1 /\ q.script[1] = DeleteAppCall(c[1])
                    BY <5>1, <2>2, <1>7, <1>8 DEF OneCall, Progress
                <5> QED
                    BY <5>2, <3>2, <1>7, <1>8
            <4> QED
                BY <4>1, <1>7, <1>8 DEF ClearsWhatIsGone
        <3>3. CASE ~(q.at = "sent" /\ n.at = "ran")
            BY <3>1, <3>3, <1>7, <1>8 DEF ClearsWhatIsGone
        <3> QED
            BY <3>2, <3>3
    <2> QED
        BY <2>1, <2>3, <2>4, <1>7, <1>8 DEF ScriptOK
<1> QED
    BY <1>4, <1>5, <1>6, <1>8
\* Every handler moves so in every step.
HandlersMove == request' \in [Requests -> {request'[r] : r \in Requests}]
                /\ \A r \in Requests : Moved(request[r], request'[r])

LEMMA OneMoves ==
    ASSUME OperatorTypeOK, NEW r \in Requests, NEW n, Moved(request[r], n),
           request' = [request EXCEPT ![r] = n]
    PROVE  HandlersMove
<1>1. DOMAIN request = Requests /\ request' = [s \in Requests |-> request'[s]]
    BY DEF OperatorTypeOK
<1>2. request'[r] = n /\ \A s \in Requests : s # r => request'[s] = request[s]
    BY DEF OperatorTypeOK
<1> QED
    BY <1>1, <1>2 DEF HandlersMove, Moved

LEMMA NoneMoves == OperatorTypeOK /\ UNCHANGED request => HandlersMove
BY DEF OperatorTypeOK, HandlersMove, Moved

\* Only the handler that sent a call sees it run, and it was waiting for it.
LEMMA DeliverMoves ==
    ASSUME OperatorInv, Deliver
    PROVE  HandlersMove
<1> DEFINE call == Head(calls).call
           R == {Head(calls).by} \ {NoRequest}
<1>1. OperatorTypeOK /\ calls # <<>>
    BY DEF Deliver, OperatorInv, OperatorTyped
<1>2. Head(calls) = calls[1] /\ 1 \in DOMAIN calls /\ call \in OpCall
    BY <1>1, FirstCall
<1>3. ASSUME NEW r \in Requests, r \in R
      PROVE  request[r].at = "sent" /\ call = request[r].script[request[r].next]
    <2>1. calls[1].by = r
        BY <1>2, <1>3
    <2> QED
        BY <2>1, <1>2 DEF OperatorInv, AwaitedCalls
<1>4. CASE Accepts(call)
    <2>1. Reducer(call)
          /\ request' = [r \in Requests |->
                  IF r \in R THEN [request[r] EXCEPT !.at = "ran", !.done = @ + 1]
                  ELSE request[r]]
        BY <1>4 DEF Deliver
    <2>2. ASSUME NEW app, call = DeleteAppCall(app) PROVE app \notin DOMAIN application'
        <3>1. call.op = "delete_app" /\ call.app = app
            BY <2>2 DEF DeleteAppCall
        <3> HIDE DEF call
        <3>2. DeleteApplication(Server, app)
            BY <3>1, <2>1, <1>2, ReducerRuns
        <3>3. application' = Restrict(application, DOMAIN application \ {app})
            BY <3>2 DEF DeleteApplication, Drop
        <3>4. DOMAIN application' = DOMAIN application \ {app}
            BY <3>3 DEF Restrict
        <3> QED
            BY <3>4
    <2> HIDE DEF call, R
    <2>3. ASSUME NEW r \in Requests PROVE Moved(request[r], request'[r])
        <3>1. CASE r \in R
            BY <3>1, <2>1, <2>2, <1>3 DEF Moved
        <3>2. CASE r \notin R
            BY <3>2, <2>1 DEF Moved
        <3> QED
            BY <3>1, <3>2
    <2> QED
        BY <2>1, <2>3 DEF HandlersMove
<1>5. CASE ~Accepts(call)
    <2>1. request' = [r \in Requests |->
                  IF r \in R THEN [request[r] EXCEPT !.at = "denied"] ELSE request[r]]
        BY <1>5 DEF Deliver
    <2> HIDE DEF call, R
    <2>2. ASSUME NEW r \in Requests PROVE Moved(request[r], request'[r])
        BY <2>1, <1>3 DEF Moved
    <2> QED
        BY <2>1, <2>2 DEF HandlersMove
<1> QED
    BY <1>4, <1>5

LEMMA RefreshMoves ==
    ASSUME OperatorTypeOK, Refresh
    PROVE  HandlersMove
<1>1. request' = [r \in Requests |-> [request[r] EXCEPT !.at = Heard(@)]]
    BY DEF Refresh
<1>2. ASSUME NEW r \in Requests PROVE Moved(request[r], request'[r])
    <2>1. request[r] \in Handling
        BY DEF OperatorTypeOK
    <2>2. request'[r] = [request[r] EXCEPT !.at = Heard(@)]
        BY <1>1
    <2>3. CASE request[r].at = "ran"
        BY <2>2, <2>3 DEF Heard, Moved
    <2>4. CASE request[r].at = "denied"
        BY <2>2, <2>4 DEF Heard, Moved
    <2>5. CASE request[r].at \notin {"ran", "denied"}
        <3>1. Heard(request[r].at) = request[r].at
            BY <2>5 DEF Heard
        <3>2. request'[r] = request[r]
            BY <2>1, <2>2, <3>1 DEF Handling
        <3> QED
            BY <3>2 DEF Moved
    <2> QED
        BY <2>3, <2>4, <2>5
<1> QED
    BY <1>1, <1>2 DEF HandlersMove

LEMMA RequestMoves == OperatorInv /\ [OperatorNext]_allVars => HandlersMove
<1> SUFFICES ASSUME OperatorInv, [OperatorNext]_allVars PROVE HandlersMove
    OBVIOUS
<1>1. OperatorTyped /\ OperatorTypeOK /\ CacheIsPast
    BY DEF OperatorInv, OperatorTyped
<1>2. ASSUME NEW r \in Requests, Starts(r) PROVE HandlersMove
    <2>1. PICK script \in Seq(OpCall), clears \in SUBSET (AppId \X AppNames) :
             /\ Begin(r, script, clears)
             /\ OneCall(NewRequest(script, clears)) \/ TwoCalls(NewRequest(script, clears))
        BY <1>1, <1>2, StartsAreFit DEF Begins
    <2> DEFINE n == NewRequest(script, clears)
    <2>2. FitToStart(n)
        BY <2>1 DEF FitToStart, NewRequest, Handling, Stage
    <2>3. request' = [request EXCEPT ![r] = n]
        BY <2>1 DEF Begin
    <2> HIDE DEF n
    <2>4. Moved(request[r], n)
        BY <2>2 DEF Moved
    <2> QED
        BY <2>3, <2>4, <1>1, OneMoves
<1>3. ASSUME NEW r \in Requests, Answer(r) PROVE HandlersMove
    BY <1>1, <1>3, OneMoves DEF Answer, Moved
<1>4. ASSUME NEW r \in Requests, NEW to, Move(r, to)
      PROVE  request' = [request EXCEPT ![r] = [request[r] EXCEPT !.at = to]]
    BY <1>1, <1>4 DEF Move
<1>5. ASSUME NEW r \in Requests, Send(r) PROVE HandlersMove
    <2>1. CASE Move(r, "sent")
        <3> DEFINE n == [request[r] EXCEPT !.at = "sent"]
        <3>1. Moved(request[r], n)
            BY <1>5 DEF Send, Moved
        <3>2. request' = [request EXCEPT ![r] = n]
            BY <2>1, <1>4
        <3> HIDE DEF n
        <3> QED
            BY <3>1, <3>2, <1>1, OneMoves
    <2> QED
        BY <2>1, <1>3, <1>5 DEF Send
<1>6. ASSUME NEW r \in Requests, Continue(r) PROVE HandlersMove
    <2>1. CASE IsLastCall(r) /\ Move(r, "clearing")
        <3> DEFINE n == [request[r] EXCEPT !.at = "clearing"]
        <3>1. request[r].at = "accepted" /\ request[r].next = Len(request[r].script)
            BY <2>1, <1>6 DEF Continue, MayContinue, IsLastCall
        <3>2. Moved(request[r], n)
            BY <3>1 DEF Moved
        <3>3. request' = [request EXCEPT ![r] = n]
            BY <2>1, <1>4
        <3> HIDE DEF n
        <3> QED
            BY <3>2, <3>3, <1>1, OneMoves
    <2>2. CASE ~IsLastCall(r)
        <3>1. request' = [request EXCEPT ![r] = [request[r] EXCEPT !.next = @ + 1, !.at = "ready"]]
            BY <2>2, <1>6, <1>1 DEF Continue
        <3>2. request[r].at = "accepted" /\ request[r].next # Len(request[r].script)
            BY <2>2, <1>6 DEF Continue, MayContinue, IsLastCall
        <3>3. Moved(request[r], [request[r] EXCEPT !.next = @ + 1, !.at = "ready"])
            BY <3>2 DEF Moved
        <3> QED
            BY <3>1, <3>3, <1>1, OneMoves
    <2> QED
        BY <2>1, <2>2, <1>3, <1>6 DEF Continue
<1>7. ASSUME NEW r \in Requests, Refused(r) \/ GiveUp(r) \/ ClearEnv(r) PROVE HandlersMove
    BY <1>7, <1>3 DEF Refused, GiveUp, ClearEnv
<1>8. ASSUME Restart PROVE HandlersMove
    BY <1>8 DEF Restart, HandlersMove, Moved
<1>9. ASSUME SetEnv \/ Push \/ LinkDrops \/ AgentActs \/ UNCHANGED allVars PROVE HandlersMove
    BY <1>1, <1>9, NoneMoves DEF SetEnv, Push, LinkDrops, AgentActs, allVars, operatorVars
<1> QED
    BY <1>1, <1>2, <1>5, <1>6, <1>7, <1>8, <1>9, DeliverMoves, RefreshMoves
    DEF OperatorNext, Handler, Starts
LEMMA HandlersStep ==
    ASSUME OperatorInv, [OperatorNext]_allVars
    PROVE  request' \in [Requests -> Handling] /\ ScriptsOK'
<1>1. Grows
    BY DataSteps, DataGrows DEF OperatorInv
<1>2. HandlersMove
    BY RequestMoves
<1>3. ASSUME NEW r \in Requests PROVE request'[r] \in Handling /\ ScriptOK(request[r])'
    <2>1. request[r] \in Handling /\ ScriptOK(request[r])
        BY DEF OperatorInv, OperatorTyped, OperatorTypeOK, ScriptsOK
    <2>2. Moved(request[r], request'[r])
        BY <1>2 DEF HandlersMove
    <2> QED
        BY <1>1, <2>1, <2>2, MovedIsOK
<1>4. request' \in [Requests -> Handling]
    BY <1>2, <1>3 DEF HandlersMove
<1>5. ScriptsOK'
    BY <1>3 DEF ScriptsOK
<1> QED
    BY <1>4, <1>5

\* Which calls are in flight after a step.
CallsStep ==
    \/ \E r \in Requests :
          Send(r) /\ calls' = Append(calls, Awaited(r, request[r].script[request[r].next]))
    \/ Push
    \/ Deliver /\ Kept(1)
    \/ ~Deliver /\ Kept(0)

LEMMA SentByAHandler ==
    ASSUME OperatorInv, NEW r \in Requests, request[r].at = "ready"
    PROVE  /\ request[r].next \in 1 .. Len(request[r].script)
           /\ request[r].script[request[r].next] \in OpCall
           /\ request[r].done + 1 = request[r].next
           /\ OneCall(request[r]) \/ TwoCalls(request[r])
<1>1. OperatorTypeOK /\ ScriptOK(request[r]) /\ request[r] \in Handling
    BY DEF OperatorInv, ScriptsOK, OperatorTyped, OperatorTypeOK
<1>2. Progress(request[r]) /\ (OneCall(request[r]) \/ TwoCalls(request[r]))
    BY <1>1, NotAskedTyped DEF ScriptOK
<1>3. request[r].next <= Len(request[r].script) /\ request[r].done + 1 = request[r].next
    BY <1>2 DEF Progress
<1>4. request[r].next \in 1 .. 2 /\ Len(request[r].script) \in Nat
    BY <1>1, HandlingFields
<1> QED
    BY <1>1, <1>2, <1>3, <1>4, NextCall

LEMMA CallSteps ==
    ASSUME OperatorInv, [OperatorNext]_allVars
    PROVE  calls' \in Seq(SentCall) /\ CallsStep
<1>1. OperatorTyped /\ OperatorTypeOK /\ CacheIsPast /\ calls \in Seq(SentCall)
    BY DEF OperatorInv, OperatorTyped, OperatorTypeOK
<1>2. ASSUME UNCHANGED calls PROVE calls' \in Seq(SentCall) /\ Kept(0)
    BY <1>1, <1>2 DEF Kept
<1>3. ASSUME Deliver PROVE calls' \in Seq(SentCall) /\ Kept(1)
    <2>1. calls # <<>> /\ calls' = Tail(calls)
        BY <1>3 DEF Deliver
    <2> QED
        BY <1>1, <2>1, FirstCall DEF Kept
<1>4. ASSUME NEW r \in Requests, Send(r), calls' # calls
      PROVE  calls' \in Seq(SentCall)
             /\ calls' = Append(calls, Awaited(r, request[r].script[request[r].next]))
    <2>1. calls' = Append(calls, Awaited(r, request[r].script[request[r].next]))
        BY <1>4 DEF Send
    <2>2. request[r].script[request[r].next] \in OpCall
        BY <1>4, SentByAHandler DEF Send
    <2>3. Awaited(r, request[r].script[request[r].next]) \in SentCall
        BY <2>2 DEF Awaited, SentCall
    <2> QED
        BY <1>1, <2>1, <2>3
<1>5. ASSUME NEW r \in Requests, GiveUp(r) PROVE calls' \in Seq(SentCall) /\ Kept(0)
    <2>1. calls' = Orphaned(calls, {r})
        BY <1>5 DEF GiveUp
    <2>2. \A i \in DOMAIN calls : i + 0 = i
        BY <1>1
    <2>3. DOMAIN calls' = DOMAIN calls
        BY <1>1, <2>1, OrphanedCalls DEF Orphaned
    <2> QED
        BY <1>1, <2>1, <2>2, <2>3, OrphanedCalls DEF Kept
<1>6. ASSUME LinkDrops \/ Restart PROVE calls' \in Seq(SentCall) /\ Kept(0)
    BY <1>1, <1>6, CutCalls DEF LinkDrops, Restart
<1>7. ASSUME NEW r \in Requests, Starts(r) PROVE UNCHANGED calls
    <2>1. Begins(r)
        BY <1>1, <1>7, StartsAreFit
    <2> QED
        BY <2>1 DEF Begins, Begin
<1>8. ASSUME \E r \in Requests : Continue(r) \/ Refused(r) \/ ClearEnv(r) PROVE UNCHANGED calls
    BY <1>8 DEF Continue, Refused, ClearEnv
<1>9. ASSUME SetEnv \/ Refresh \/ AgentActs \/ UNCHANGED allVars PROVE UNCHANGED calls
    BY <1>9 DEF SetEnv, Refresh, AgentActs, allVars, operatorVars
<1>10. ASSUME Push PROVE calls' \in Seq(SentCall)
    BY <1>1, <1>10, PushedCalls
<1>11. CASE Deliver
    BY <1>3, <1>11 DEF CallsStep
<1>12. CASE ~Deliver /\ \E r \in Requests : Send(r)
    BY <1>2, <1>4, <1>12 DEF CallsStep
<1>13. CASE ~Deliver /\ Push
    BY <1>10, <1>13 DEF CallsStep
<1>14. CASE ~Deliver /\ ~Push /\ ~\E r \in Requests : Send(r)
    <2>1. calls' \in Seq(SentCall) /\ Kept(0)
        BY <1>2, <1>5, <1>6, <1>7, <1>8, <1>9, <1>14 DEF OperatorNext, Handler, Starts
    <2> QED
        BY <1>14, <2>1 DEF CallsStep
<1> QED
    BY <1>11, <1>12, <1>13, <1>14

LEMMA AppendedCall ==
    ASSUME NEW cs \in Seq(SentCall), NEW c \in SentCall
    PROVE  /\ Append(cs, c) \in Seq(SentCall)
           /\ \A i \in DOMAIN Append(cs, c) :
                 \/ i \in DOMAIN cs /\ Append(cs, c)[i] = cs[i]
                 \/ i \notin DOMAIN cs /\ i = Len(cs) + 1 /\ Append(cs, c)[i] = c
OBVIOUS

\* What is sent is what the handler was asked for.
LEMMA JustifiedStep ==
    ASSUME OperatorInv, [OperatorNext]_allVars
    PROVE  JustifiedCalls'
<1>1. Grows
    BY DataSteps, DataGrows DEF OperatorInv
<1>2. calls \in Seq(SentCall) /\ CacheIsPast /\ OperatorTyped
    BY DEF OperatorInv, OperatorTyped, OperatorTypeOK
<1>3. ASSUME NEW i \in DOMAIN calls' PROVE Justified(calls'[i].call)
    <2>1. ASSUME NEW k, Kept(k) PROVE Justified(calls'[i].call)
        BY <1>3, <2>1 DEF Kept, OperatorInv, JustifiedCalls
    <2>2. CASE Push
        BY <1>2, <2>2, PushedCalls DEF OperatorInv, JustifiedCalls
    <2>3. ASSUME NEW r \in Requests, Send(r),
                 calls' = Append(calls, Awaited(r, request[r].script[request[r].next]))
          PROVE  Justified(calls'[i].call)
        <3> DEFINE call == request[r].script[request[r].next]
        <3>1. request[r].next \in 1 .. Len(request[r].script) /\ call \in OpCall
              /\ (OneCall(request[r]) \/ TwoCalls(request[r]))
            BY <2>3, SentByAHandler DEF Send
        <3>2. Justified(call)
            <4>1. CASE OneCall(request[r])
                <5>1. request[r].next = 1
                    BY <3>1, <4>1 DEF OneCall
                <5> QED
                    BY <5>1, <4>1 DEF OneCall, Justified
            <4>2. CASE TwoCalls(request[r])
                <5>1. request[r].next = 1 \/ request[r].next = 2
                    BY <3>1, <4>2 DEF TwoCalls
                <5> QED
                    BY <5>1, <4>2 DEF TwoCalls, Justified, RollbackCall
            <4> QED
                BY <3>1, <4>1, <4>2
        <3>3. Awaited(r, call) \in SentCall /\ Awaited(r, call).call = call
            BY <3>1 DEF Awaited, SentCall
        <3> HIDE DEF call
        <3>4. calls' = Append(calls, Awaited(r, call))
            BY <2>3 DEF call
        <3> QED
            BY <3>2, <3>3, <3>4, <1>2, AppendedCall DEF OperatorInv, JustifiedCalls
    <2> QED
        BY <2>1, <2>2, <2>3, CallSteps DEF CallsStep
<1>4. ASSUME NEW i \in DOMAIN calls' PROVE Justified(calls[i].call)'
    <2>1. \A call : Justified(call) => Justified(call)'
        BY <1>1, JustifiedStays
    <2> QED
        BY <1>3, <2>1
<1> QED
    BY <1>4 DEF JustifiedCalls
-----------------------------------------------------------------------------
(* Who awaits which call *)

\* What the calls in flight say of their handlers, for handlers left alone.
LEMMA AwaitedKept ==
    ASSUME OperatorInv, NEW k \in {0, 1}, Kept(k), calls' \in Seq(SentCall),
           \A i \in DOMAIN calls' : calls'[i].by \in Requests =>
                /\ request'[calls'[i].by].at = "sent"
                /\ request'[calls'[i].by].script = request[calls'[i].by].script
                /\ request'[calls'[i].by].next = request[calls'[i].by].next
    PROVE  AwaitedCalls'
<1>1. NoRequest \notin Requests
    BY OperatorAssumption
<1>2. ASSUME NEW i \in DOMAIN calls', calls'[i].by \in Requests
      PROVE  i + k \in DOMAIN calls /\ calls[i + k].by = calls'[i].by /\ calls[i + k].call = calls'[i].call
    BY <1>1, <1>2 DEF Kept
<1>3. ASSUME NEW i \in DOMAIN calls', calls'[i].by \in Requests
      PROVE  /\ request'[calls'[i].by].at = "sent"
             /\ calls'[i].call = request'[calls'[i].by].script[request'[calls'[i].by].next]
    <2>1. calls[i + k].call = request[calls[i + k].by].script[request[calls[i + k].by].next]
        BY <1>2, <1>3 DEF OperatorInv, AwaitedCalls
    <2> QED
        BY <1>2, <1>3, <2>1
<1>4. ASSUME NEW i \in DOMAIN calls', NEW j \in DOMAIN calls',
             calls'[i].by \in Requests, calls'[i].by = calls'[j].by
      PROVE  i = j
    <2>1. i + k = j + k
        BY <1>2, <1>4 DEF OperatorInv, AwaitedCalls
    <2>2. i \in Nat /\ j \in Nat
        OBVIOUS
    <2> QED
        BY <2>1, <2>2
<1> QED
    BY <1>3, <1>4 DEF AwaitedCalls

LEMMA AwaitedStep ==
    ASSUME OperatorInv, [OperatorNext]_allVars
    PROVE  AwaitedCalls'
<1>1. OperatorTyped /\ OperatorTypeOK /\ CacheIsPast /\ calls \in Seq(SentCall)
      /\ request \in [Requests -> Handling]
    BY DEF OperatorInv, OperatorTyped, OperatorTypeOK
<1>2. calls' \in Seq(SentCall) /\ CallsStep
    BY CallSteps
<1>3. NoRequest \notin Requests
    BY OperatorAssumption
<1>4. ASSUME NEW i \in DOMAIN calls, calls[i].by \in Requests
      PROVE  /\ request[calls[i].by].at = "sent"
             /\ calls[i].call = request[calls[i].by].script[request[calls[i].by].next]
    BY <1>4 DEF OperatorInv, AwaitedCalls
<1>5. ASSUME NEW k \in {0, 1}, Kept(k), NEW i \in DOMAIN calls', calls'[i].by \in Requests
      PROVE  i + k \in DOMAIN calls /\ calls[i + k].by = calls'[i].by
             /\ request[calls'[i].by].at = "sent"
    BY <1>3, <1>4, <1>5 DEF Kept
<1>6. CASE UNCHANGED request /\ ~Push /\ ~Deliver /\ ~\E r \in Requests : Send(r)
    BY <1>2, <1>5, <1>6, AwaitedKept DEF CallsStep
<1>7. ASSUME NEW r \in Requests, request[r].at # "sent", Kept(0),
             \A s \in Requests : s # r => request'[s] = request[s]
      PROVE  AwaitedCalls'
    BY <1>2, <1>5, <1>7, AwaitedKept
<1>8. ASSUME NEW r \in Requests, Starts(r), ~Push, ~Deliver, ~\E s \in Requests : Send(s)
      PROVE AwaitedCalls'
    <2>1. PICK script \in Seq(OpCall), clears \in SUBSET (AppId \X AppNames) : Begin(r, script, clears)
        BY <1>1, <1>8, StartsAreFit DEF Begins
    <2>2. request[r].at # "sent" /\ \A s \in Requests : s # r => request'[s] = request[s]
        BY <2>1, <1>1 DEF Begin
    <2> QED
        BY <2>2, <1>7, <1>8, <1>2 DEF CallsStep
<1>9. ASSUME NEW r \in Requests, Continue(r) \/ Refused(r) \/ ClearEnv(r),
             ~Push, ~Deliver, ~\E s \in Requests : Send(s)
      PROVE AwaitedCalls'
    <2>1. request[r].at # "sent"
        BY <1>9 DEF Continue, MayContinue, Refused, ClearEnv
    <2>2. \A s \in Requests : s # r => request'[s] = request[s]
        BY <1>9, <1>1 DEF Continue, Refused, ClearEnv, Answer, Move
    <2> QED
        BY <2>1, <2>2, <1>7, <1>9, <1>2 DEF CallsStep
<1>10. ASSUME NEW r \in Requests, GiveUp(r) PROVE AwaitedCalls'
    <2>1. calls' = Orphaned(calls, {r}) /\ \A s \in Requests : s # r => request'[s] = request[s]
        BY <1>1, <1>10 DEF GiveUp, Answer
    <2>2. DOMAIN calls' = DOMAIN calls /\ \A i \in DOMAIN calls : i + 0 = i
        BY <1>1, <2>1 DEF Orphaned
    <2>3. \A i \in DOMAIN calls' : calls'[i].by # r
        BY <1>1, <1>3, <2>1, <2>2, OrphanedCalls
    <2>4. Kept(0)
        BY <1>1, <2>1, <2>2, OrphanedCalls DEF Kept
    <2> QED
        BY <1>2, <1>5, <2>1, <2>3, <2>4, AwaitedKept
<1>11. CASE Restart
    <2>1. \A i \in DOMAIN calls' : calls'[i].by \notin Requests
        BY <1>1, <1>3, <1>11, CutCalls DEF Restart
    <2> QED
        BY <2>1 DEF AwaitedCalls
<1>12. CASE Refresh
    <2>1. calls' = calls /\ Kept(0)
        BY <1>1, <1>12 DEF Refresh, Kept
    <2>2. ASSUME NEW r \in Requests, request[r].at = "sent" PROVE request'[r] = request[r]
        <3>1. request'[r] = [request[r] EXCEPT !.at = "sent"]
            BY <2>2, <1>12 DEF Refresh, Heard
        <3> QED
            BY <3>1, <2>2, <1>1 DEF Handling
    <2> QED
        BY <1>2, <1>5, <2>1, <2>2, AwaitedKept
<1>13. CASE Deliver
    <2> DEFINE by == Head(calls).by
    <2>1. calls # <<>> /\ calls' = Tail(calls)
        BY <1>13 DEF Deliver
    <2>2. by = calls[1].by /\ 1 \in DOMAIN calls
        BY <1>1, <2>1, FirstCall
    <2>3. Kept(1)
        BY <1>1, <2>1, FirstCall DEF Kept
    <2>4. ASSUME NEW i \in DOMAIN calls', calls'[i].by \in Requests PROVE calls'[i].by # by
        <3>1. i + 1 \in DOMAIN calls /\ calls[i + 1].by = calls'[i].by
            BY <1>5, <2>3, <2>4
        <3>2. i \in Nat /\ i + 1 # 1
            BY <1>2
        <3> QED
            BY <3>1, <3>2, <2>2, <2>4 DEF OperatorInv, AwaitedCalls
    <2>5. ASSUME NEW r \in Requests, r # by PROVE request'[r] = request[r]
        BY <1>13, <2>5 DEF Deliver
    <2> QED
        BY <1>2, <1>5, <2>3, <2>4, <2>5, AwaitedKept
<1>14. CASE Push
    <2>1. UNCHANGED request
        BY <1>14 DEF Push
    <2>2. \A i \in DOMAIN calls' : calls'[i].by \in Requests => i \in DOMAIN calls /\ calls'[i] = calls[i]
        BY <1>1, <1>3, <1>14, PushedCalls
    <2>3. \A i, j \in DOMAIN calls' : calls'[i].by \in Requests /\ calls'[i].by = calls'[j].by => i = j
        BY <2>2 DEF OperatorInv, AwaitedCalls
    <2> QED
        BY <1>4, <2>1, <2>2, <2>3 DEF AwaitedCalls
<1>15. ASSUME NEW r \in Requests, Send(r) PROVE AwaitedCalls'
    <2> DEFINE call == request[r].script[request[r].next]
               c == Awaited(r, call)
    <2>1. request[r].at = "ready" /\ call \in OpCall
        BY <1>15, SentByAHandler DEF Send
    <2>2. \A s \in Requests : s # r => request'[s] = request[s]
        BY <1>1, <1>15 DEF Send, Move, Answer
    <2>3. CASE calls' = calls
        <3>1. Kept(0)
            BY <1>1, <2>3 DEF Kept
        <3> QED
            BY <1>7, <2>1, <2>2, <3>1
    <2>4. CASE calls' # calls
        <3>1. calls' = Append(calls, c) /\ Move(r, "sent")
            BY <1>15, <2>4 DEF Send
        <3>2. request'[r].at = "sent" /\ request'[r].script = request[r].script
              /\ request'[r].next = request[r].next
            BY <3>1, <1>1 DEF Move, Handling
        <3>3. c \in SentCall /\ c.by = r /\ c.call = call
            BY <2>1 DEF Awaited, SentCall
        <3> HIDE DEF call, c
        <3>4. ASSUME NEW i \in DOMAIN calls'
              PROVE  \/ i \in DOMAIN calls /\ calls'[i] = calls[i] /\ calls'[i].by # r
                     \/ i = Len(calls) + 1 /\ calls'[i] = c
            <4>1. \A j \in DOMAIN calls : calls[j].by # r
                BY <1>4, <2>1
            <4> QED
                BY <3>1, <3>3, <1>1, <4>1, AppendedCall
        <3>5. ASSUME NEW i \in DOMAIN calls', calls'[i].by \in Requests
              PROVE  /\ request'[calls'[i].by].at = "sent"
                     /\ calls'[i].call = request'[calls'[i].by].script[request'[calls'[i].by].next]
            <4>1. CASE i \in DOMAIN calls /\ calls'[i] = calls[i] /\ calls'[i].by # r
                BY <4>1, <3>5, <1>4, <2>2
            <4>2. CASE calls'[i] = c
                BY <4>2, <3>2, <3>3 DEF call
            <4> QED
                BY <4>1, <4>2, <3>4
        <3>6. ASSUME NEW i \in DOMAIN calls', NEW j \in DOMAIN calls',
                     calls'[i].by \in Requests, calls'[i].by = calls'[j].by
              PROVE  i = j
            BY <3>3, <3>4, <3>6 DEF OperatorInv, AwaitedCalls
        <3> QED
            BY <3>5, <3>6 DEF AwaitedCalls
    <2> QED
        BY <2>3, <2>4
<1>16. CASE SetEnv \/ LinkDrops \/ AgentActs \/ UNCHANGED allVars
    <2>1. UNCHANGED request
        BY <1>16 DEF SetEnv, LinkDrops, AgentActs, allVars, operatorVars
    <2> QED
        BY <1>6, <1>13, <1>14, <1>15, <2>1
<1> QED
    BY <1>8, <1>9, <1>10, <1>11, <1>12, <1>13, <1>14, <1>15, <1>16 DEF OperatorNext, Handler, Starts
-----------------------------------------------------------------------------
(* What a call that runs leaves behind *)

\* The first call queues a deployment, which is recorded with what it is for.
Queues(call) ==
    /\ Deliver /\ call = Head(calls).call /\ call \in OpCall /\ call.op = "queue"
    /\ QueueDeployment(Server, call.app, call.host, call.commit)
    /\ next_id.deployment \in DeploymentId
    /\ next_id.deployment \notin DOMAIN deployment
    /\ DOMAIN deployment' = DOMAIN deployment \cup {next_id.deployment}
    /\ \A d \in DOMAIN deployment : d < next_id.deployment
    /\ deployment'[next_id.deployment].app_id = call.app
    /\ deployment'[next_id.deployment].host_id = call.host
    /\ deployment'[next_id.deployment].commit_sha = call.commit
    /\ origin' = Put(origin, next_id.deployment, call.why)
    /\ DOMAIN origin' = DOMAIN origin \cup {next_id.deployment}
    /\ origin'[next_id.deployment] = call.why
    /\ \A e \in DOMAIN origin : origin'[e] = origin[e]
    /\ IsTable(origin', DeploymentId, Why)

LEMMA OriginSteps ==
    ASSUME OperatorInv, [OperatorNext]_allVars
    PROVE  \/ UNCHANGED origin /\ ~(Deliver /\ Accepts(Head(calls).call) /\ Head(calls).call.op = "queue")
           \/ \E call \in OpCall : Queues(call)
<1>1. OperatorTyped /\ OperatorTypeOK /\ CacheIsPast
    BY DEF OperatorInv, OperatorTyped
<1>2. CASE Deliver /\ Accepts(Head(calls).call) /\ Head(calls).call.op = "queue"
    <2> DEFINE call == Head(calls).call
               n == next_id.deployment
    <2>1. call \in OpCall
        BY <1>1, <1>2, FirstCall DEF Deliver
    <2>2. Reducer(call) /\ origin' = Put(origin, n, call.why)
        BY <1>2 DEF Deliver
    <2>3. Deliver /\ call.op = "queue" /\ call = Head(calls).call
        BY <1>2
    <2> HIDE DEF call
    <2>4. QueueDeployment(Server, call.app, call.host, call.commit)
        BY <2>1, <2>2, <2>3, ReducerRuns
    <2>5. call.why \in Why
        BY <2>1, <2>3, CallFields
    <2>6. n \in DeploymentId
        <3>1. n <= MaxDeployments
            BY <2>4 DEF QueueDeployment
        <3>2. n \in 1 .. MaxDeployments + 1
            BY <1>1 DEF OperatorTyped, TypeOK
        <3> QED
            BY <3>1, <3>2, BoundAssumption DEF DeploymentId
    <2>7. n \notin DOMAIN deployment /\ \A d \in DOMAIN deployment : d < n
        <3>1. \A d \in DOMAIN deployment : d < n
            BY <1>1 DEF OperatorTyped, IdsAreFresh
        <3>2. n \in Nat
            BY <2>6 DEF DeploymentId
        <3> QED
            BY <3>1, <3>2
    <2>8. n \notin DOMAIN origin /\ IsTable(origin, DeploymentId, Why)
        BY <1>1, <2>7 DEF OperatorTyped, ServerStays, OperatorTypeOK
    <2> HIDE DEF n
    <2>9. /\ DOMAIN deployment' = DOMAIN deployment \cup {n}
          /\ deployment'[n].app_id = call.app
          /\ deployment'[n].host_id = call.host
          /\ deployment'[n].commit_sha = call.commit
        BY <2>4 DEF QueueDeployment, Put, n
    <2>10. /\ DOMAIN origin' = DOMAIN origin \cup {n}
           /\ origin'[n] = call.why
           /\ \A e \in DOMAIN origin : origin'[e] = origin[e]
           /\ IsTable(origin', DeploymentId, Why)
        <3>1. /\ DOMAIN origin' = DOMAIN origin \cup {n}
              /\ origin'[n] = call.why
              /\ \A e \in DOMAIN origin : origin'[e] = origin[e]
              /\ origin' = [e \in DOMAIN origin' |-> origin'[e]]
            BY <2>2, <2>8 DEF Put
        <3>2. \A e \in DOMAIN origin' : origin'[e] \in Why
            BY <3>1, <2>5, <2>8 DEF IsTable
        <3>3. IsTable(origin', DeploymentId, Why)
            BY <3>1, <3>2, <2>6, <2>8 DEF IsTable
        <3> QED
            BY <3>1, <3>3
    <2> QED
        BY <2>1, <2>2, <2>3, <2>4, <2>6, <2>7, <2>9, <2>10 DEF Queues, n
<1>3. CASE ~(Deliver /\ Accepts(Head(calls).call) /\ Head(calls).call.op = "queue")
    <2>1. ASSUME NEW r \in Requests, Starts(r) PROVE UNCHANGED origin
        BY <1>1, <2>1, StartsAreFit DEF Begins, Begin
    <2>2. ASSUME NEW r \in Requests, Send(r) \/ Continue(r) \/ Refused(r) \/ GiveUp(r) \/ ClearEnv(r)
          PROVE  UNCHANGED origin
        BY <2>2 DEF Send, Continue, Refused, GiveUp, ClearEnv
    <2>3. ASSUME SetEnv \/ Push \/ Refresh \/ LinkDrops \/ Restart \/ AgentActs \/ UNCHANGED allVars
          PROVE  UNCHANGED origin
        BY <2>3 DEF SetEnv, Push, Refresh, LinkDrops, Restart, AgentActs, allVars, operatorVars
    <2>4. Deliver => UNCHANGED origin
        BY <1>3 DEF Deliver
    <2> QED
        BY <1>3, <2>1, <2>2, <2>3, <2>4 DEF OperatorNext, Handler, Starts
<1> QED
    BY <1>2, <1>3

\* What a deployment was queued for stays true of it.
LEMMA OriginsStep ==
    ASSUME OperatorInv, [OperatorNext]_allVars
    PROVE  OriginsOK'
<1>1. OperatorTyped /\ OriginsOK /\ Grows
    BY DataSteps, DataGrows DEF OperatorInv
<1>2. DOMAIN origin \subseteq DOMAIN deployment
    BY <1>1 DEF OperatorTyped, ServerStays
<1>3. ASSUME NEW e \in DOMAIN origin, e \in DOMAIN origin', origin'[e] = origin[e]
      PROVE  QueuedFor(e)'
    <2>1. QueuedFor(e) /\ e \in DOMAIN deployment
        BY <1>1, <1>2 DEF OriginsOK
    <2>2. /\ deployment'[e].app_id = deployment[e].app_id
          /\ deployment'[e].host_id = deployment[e].host_id
          /\ deployment'[e].commit_sha = deployment[e].commit_sha
        BY <1>1, <2>1 DEF Grows
    <2>3. HasPrecedentBefore(e) => HasPrecedentBefore(e)'
        BY <1>1, <2>2 DEF HasPrecedentBefore, Grows
    <2>4. \A app, h, commit, d : Restores(app, h, commit, d) => Restores(app, h, commit, d)'
        BY <1>1, PrecedentsStay
    <2>5. Restores(deployment[e].app_id, deployment[e].host_id, deployment[e].commit_sha, origin[e].of)
          => Restores(deployment[e].app_id, deployment[e].host_id, deployment[e].commit_sha, origin[e].of)'
        BY <2>2, <2>4, <1>3
    <2> QED
        BY <1>3, <2>1, <2>3, <2>5 DEF QueuedFor
<1>4. CASE UNCHANGED origin
    BY <1>3, <1>4 DEF OriginsOK
<1>5. ASSUME NEW call \in OpCall, Queues(call) PROVE OriginsOK'
    <2> DEFINE n == next_id.deployment
    <2>1. Justified(call)
        <3>1. calls # <<>> /\ call = Head(calls).call
            BY <1>5 DEF Queues, Deliver
        <3> QED
            BY <3>1, <1>1, FirstCall DEF OperatorInv, JustifiedCalls, OperatorTyped
    <2>2. \A d \in DOMAIN deployment : d < n
        BY <1>5 DEF Queues
    <2>3. /\ call.op = "queue"
          /\ deployment'[n].app_id = call.app
          /\ deployment'[n].host_id = call.host
          /\ deployment'[n].commit_sha = call.commit
          /\ origin'[n] = call.why
          /\ DOMAIN origin' = DOMAIN origin \cup {n}
          /\ \A e \in DOMAIN origin : origin'[e] = origin[e]
        BY <1>5 DEF Queues
    <2> HIDE DEF n
    <2>4. ASSUME NEW m, m = n, call.why.by = "push" PROVE HasPrecedentBefore(m)'
        <3>1. PICK p \in DOMAIN deployment :
                 deployment[p].app_id = call.app /\ deployment[p].host_id = call.host
                 /\ deployment[p].status \in Undone
            BY <2>1, <2>3, <2>4 DEF Justified, HasPrecedent
        <3>2. p < m
            BY <2>2, <2>4
        <3>3. /\ p \in DOMAIN deployment'
              /\ deployment'[p].app_id = deployment'[m].app_id
              /\ deployment'[p].host_id = deployment'[m].host_id
              /\ deployment'[p].status \in Undone
            BY <3>1, <1>1, <2>3, <2>4 DEF Grows
        <3> QED
            BY <3>2, <3>3 DEF HasPrecedentBefore
    <2>5. ASSUME NEW m, m = n, call.why.by = "rollback"
          PROVE  Restores(deployment[m].app_id, deployment[m].host_id, deployment[m].commit_sha,
                          origin[m].of)'
        <3>1. Restores(call.app, call.host, call.commit, call.why.of)
            BY <2>1, <2>3, <2>5 DEF Justified
        <3>2. Restores(call.app, call.host, call.commit, call.why.of)'
            BY <3>1, <1>1, PrecedentsStay
        <3> QED
            BY <3>2, <2>3, <2>5 DEF Restores
    <2>6. ASSUME NEW m, m = n PROVE QueuedFor(m)'
        BY <2>3, <2>4, <2>5, <2>6 DEF QueuedFor
    <2> QED
        BY <2>3, <2>6, <1>3 DEF OriginsOK
<1> QED
    BY <1>4, <1>5, OriginSteps
-----------------------------------------------------------------------------
(* The server's copy of the tables, and its types *)

LEMMA CacheSteps ==
    ASSUME OperatorInv, [OperatorNext]_allVars
    PROVE  \/ UNCHANGED cache
           \/ cache' = Published /\ UNCHANGED vars
           \/ cache' = NoTables
<1>1. OperatorTyped /\ CacheIsPast
    BY DEF OperatorInv
<1>2. ASSUME NEW r \in Requests, Starts(r) PROVE UNCHANGED cache
    BY <1>1, <1>2, StartsAreFit DEF Begins, Begin
<1>3. ASSUME NEW r \in Requests, Send(r) \/ Continue(r) \/ Refused(r) \/ GiveUp(r) \/ ClearEnv(r)
      PROVE  UNCHANGED cache
    BY <1>3 DEF Send, Continue, Refused, GiveUp, ClearEnv
<1>4. ASSUME SetEnv \/ Push \/ Deliver \/ LinkDrops \/ AgentActs \/ UNCHANGED allVars
      PROVE  UNCHANGED cache
    BY <1>4 DEF SetEnv, Push, Deliver, LinkDrops, AgentActs, allVars, operatorVars
<1> QED
    BY <1>2, <1>3, <1>4 DEF OperatorNext, Handler, Starts, Refresh, Restart

LEMMA CacheStep ==
    ASSUME OperatorInv, [OperatorNext]_allVars
    PROVE  CacheIsPast' /\ CacheTyped'
<1>1. OperatorTyped /\ CacheIsPast /\ CacheTyped /\ Grows /\ TypeOK
    BY DataSteps, DataGrows DEF OperatorInv, OperatorTyped, OperatorTypeOK
<1>2. CASE UNCHANGED cache
    <2>1. \A a \in DOMAIN cache.application : a \in AppId
        BY <1>1 DEF CacheTyped, IsTable
    <2>2. \A a \in DOMAIN cache.application : a < next_id'.app
        BY <1>1, <2>1 DEF CacheIsPast, Grows
    <2>3. \A d \in DOMAIN cache.deployment :
             /\ d \in DOMAIN deployment'
             /\ deployment'[d].app_id = cache.deployment[d].app_id
             /\ deployment'[d].host_id = cache.deployment[d].host_id
             /\ deployment'[d].commit_sha = cache.deployment[d].commit_sha
             /\ cache.deployment[d].status = "Succeeded" => deployment'[d].status \in Undone
        BY <1>1 DEF CacheIsPast, Grows
    <2> QED
        BY <1>1, <1>2, <2>2, <2>3 DEF CacheIsPast, CacheTyped
<1>3. CASE cache' = Published /\ UNCHANGED vars
    <2>1. cache'.application = application /\ cache'.deployment = deployment
          /\ cache'.host = [h \in DOMAIN host |-> host[h].status]
        BY <1>3 DEF Published
    <2>2. UNCHANGED <<application, deployment, next_id>>
        BY <1>3 DEF vars
    <2>3. IsTable(cache'.host, HostId, HostStatus)
        BY <1>1, <2>1 DEF TypeOK, IsTable, Host
    <2>4. CacheTyped'
        BY <1>1, <2>1, <2>3 DEF CacheTyped, TypeOK
    <2>5. \A a \in DOMAIN application : a < next_id.app
        BY <1>1 DEF OperatorTyped, IdsAreFresh
    <2> QED
        BY <2>1, <2>2, <2>4, <2>5 DEF CacheIsPast, Undone
<1>4. CASE cache' = NoTables
    <2>1. cache'.application = EmptyTable /\ cache'.deployment = EmptyTable /\ cache'.host = EmptyTable
        BY <1>4 DEF NoTables
    <2>2. CacheTyped'
        BY <2>1, EmptyTableTyped DEF CacheTyped
    <2>3. DOMAIN EmptyTable = {}
        BY DEF EmptyTable
    <2> QED
        BY <2>1, <2>2, <2>3 DEF CacheIsPast
<1> QED
    BY <1>2, <1>3, <1>4, CacheSteps

\* The connection, the environments, the codes and the counts.
LEMMA SettingsStep ==
    ASSUME OperatorInv, [OperatorNext]_allVars
    PROVE  /\ link' \in BOOLEAN
           /\ app_env' \subseteq AppNames
           /\ remembered' \subseteq Codes
           /\ used' \in [inputs : 0 .. MaxInputs, failures : 0 .. MaxFailures]
<1>1. OperatorTyped /\ CacheIsPast /\ link \in BOOLEAN /\ app_env \subseteq AppNames
      /\ remembered \subseteq Codes
      /\ used \in [inputs : 0 .. MaxInputs, failures : 0 .. MaxFailures]
    BY DEF OperatorInv, OperatorTyped, OperatorTypeOK
<1>2. Input \/ Failure => used' \in [inputs : 0 .. MaxInputs, failures : 0 .. MaxFailures]
    BY <1>1, OperatorAssumption DEF Input, Failure
<1>3. ASSUME NEW r \in Requests, Starts(r)
      PROVE  remembered' \subseteq Codes /\ Input /\ UNCHANGED <<link, app_env>>
    BY <1>1, <1>3, StartsAreFit DEF Begins, Begin
<1>4. ASSUME NEW r \in Requests, Send(r) \/ Continue(r) \/ Refused(r) \/ GiveUp(r)
      PROVE  UNCHANGED <<link, app_env, remembered, used>>
    BY <1>4 DEF Send, Continue, Refused, GiveUp
<1>5. ASSUME NEW r \in Requests, ClearEnv(r)
      PROVE  app_env' \subseteq app_env /\ UNCHANGED <<link, remembered, used>>
    BY <1>5 DEF ClearEnv
<1>6. ASSUME Deliver \/ Refresh \/ AgentActs \/ UNCHANGED allVars
      PROVE  UNCHANGED <<link, app_env, remembered, used>>
    BY <1>6 DEF Deliver, Refresh, AgentActs, allVars, operatorVars
<1>7. ASSUME SetEnv PROVE app_env' \subseteq AppNames /\ Input /\ UNCHANGED <<link, remembered>>
    BY <1>1, <1>7 DEF SetEnv
<1>8. ASSUME Push PROVE Input /\ UNCHANGED <<link, app_env, remembered>>
    BY <1>8 DEF Push
<1>9. ASSUME LinkDrops \/ Restart
      PROVE  Failure /\ link' \in BOOLEAN /\ UNCHANGED <<app_env, remembered>>
    BY <1>9 DEF LinkDrops, Restart
<1> QED
    BY <1>1, <1>2, <1>3, <1>4, <1>5, <1>6, <1>7, <1>8, <1>9 DEF OperatorNext, Handler, Starts

\* The server's own row: nobody but it acts under its identity, and it stays.
LEMMA ServerStep ==
    ASSUME OperatorInv, [OperatorNext]_allVars
    PROVE  conn'[Server] > 0 /\ Server \in operator'
<1>1. OperatorTyped /\ DataStep /\ conn[Server] > 0 /\ Server \in operator /\ Agent # Server
      /\ conn \in [Identities -> 0 .. MaxConnections] /\ Server \in Identities
    BY DataSteps, OperatorAssumption DEF OperatorInv, OperatorTyped, ServerStays, TypeOK
<1>2. ASSUME calls # <<>>, Reducer(Head(calls).call) PROVE UNCHANGED <<conn, operator>>
    <2> DEFINE call == Head(calls).call
    <2>1. call \in OpCall
        BY <1>1, <1>2, FirstCall DEF OperatorTyped
    <2>2. Reducer(call)
        BY <1>2
    <2> HIDE DEF call
    <2> QED
        BY <2>1, <2>2, ReducerRuns DEF QueueDeployment, RollbackDeployment, deploymentFrame,
           DeleteApplication, SetHostDraining, presenceFrame, DeleteHost, RegisterApplication,
           CreateEnrollmentToken
<1>3. ASSUME AgentActs PROVE conn'[Server] = conn[Server] /\ operator' = operator
    <2>1. ClientConnected(Agent) => conn'[Server] = conn[Server] /\ operator' = operator
        BY <1>1 DEF ClientConnected, presenceFrame
    <2>2. ClientDisconnected(Agent) => conn'[Server] = conn[Server] /\ operator' = operator
        BY <1>1 DEF ClientDisconnected, presenceFrame
    <2>3. \A d : StartDeployment(Agent, d) => UNCHANGED <<conn, operator>>
        BY DEF StartDeployment, deploymentFrame
    <2>4. \A d, ok : FinishDeployment(Agent, d, ok) => UNCHANGED <<conn, operator>>
        BY DEF FinishDeployment, deploymentFrame
    <2> QED
        BY <1>3, <2>1, <2>2, <2>3, <2>4 DEF AgentActs
<1> QED
    BY <1>1, <1>2, <1>3 DEF DataStep, vars

LEMMA OperatorTypedStep ==
    ASSUME OperatorInv, [OperatorNext]_allVars
    PROVE  OperatorTyped'
<1>1. OperatorTyped /\ TypeOK /\ IdsAreFresh /\ DataStep /\ Grows
    BY DataSteps, DataGrows DEF OperatorInv, OperatorTyped
<1>2. [Next]_vars
    BY <1>1, StepsAreCalls
<1>3. TypeOK' /\ IdsAreFresh'
    BY <1>1, <1>2, TypeStep, FreshStep
<1>4. IsTable(origin', DeploymentId, Why) /\ DOMAIN origin' \subseteq DOMAIN deployment'
    <2>1. IsTable(origin, DeploymentId, Why) /\ DOMAIN origin \subseteq DOMAIN deployment
        BY <1>1 DEF OperatorTyped, OperatorTypeOK, ServerStays
    <2>2. DOMAIN deployment \subseteq DOMAIN deployment'
        BY <1>1 DEF Grows
    <2> QED
        BY <2>1, <2>2, OriginSteps DEF Queues
<1>5. OperatorTypeOK'
    BY <1>4, HandlersStep, CallSteps, CacheStep, SettingsStep DEF OperatorTypeOK
<1> QED
    BY <1>3, <1>4, <1>5, ServerStep DEF OperatorTyped, ServerStays
-----------------------------------------------------------------------------
(* One right to undo a deployment *)

\* The server marked d because handler r asked, and r knows.
Gains(r, d) ==
    /\ Deliver /\ Accepts(Head(calls).call)
    /\ Head(calls).by = r /\ Head(calls).call = RollbackCall(d)

\* A handler holds the right to undo d only from the moment d was marked for it.
LEMMA RightsHeld ==
    ASSUME OperatorInv, [OperatorNext]_allVars, NEW r \in Requests, NEW d \in DeploymentId,
           Holds(r, d)'
    PROVE  Holds(r, d) \/ Gains(r, d)
<1> DEFINE q == request[r]
           n == request'[r]
<1>1. q \in Handling /\ n \in Handling /\ ScriptOK(q)
    BY HandlersStep DEF OperatorInv, OperatorTyped, OperatorTypeOK, ScriptsOK
<1>2. Moved(q, n)
    BY RequestMoves DEF HandlersMove
<1>3. n.at \in {"ran", "accepted", "ready"} /\ n.done = 1 /\ Len(n.script) = 2 /\ Undoes(n.script[2], d)
    BY DEF Holds
<1>4. (q.at # "idle" /\ Progress(q) /\ (OneCall(q) \/ TwoCalls(q))) \/ q = NotAsked
    BY <1>1 DEF ScriptOK
<1> HIDE DEF q, n
<1>5. CASE n = q
    BY <1>3, <1>5 DEF Holds, q
<1>6. n # NotAsked /\ ~FitToStart(n)
    BY <1>3, NotAskedTyped DEF FitToStart
<1>7. CASE q.at \in {"ran", "accepted"} /\ n.script = q.script /\ n.done = q.done
    BY <1>3, <1>7 DEF Holds, q
<1>8. CASE q.at = "sent" /\ n = [q EXCEPT !.at = "ran", !.done = @ + 1]
    <2>1. n.script = q.script /\ n.done = q.done + 1 /\ q.done \in Nat /\ q.next \in Nat
        BY <1>1, <1>8 DEF Handling
    <2>2. q.done + 1 = q.next /\ (OneCall(q) \/ TwoCalls(q))
        BY <1>4, <1>8, NotAskedTyped DEF Progress
    <2>3. q.next = 1 /\ TwoCalls(q)
        BY <2>1, <2>2, <1>3 DEF OneCall
    <2>4. q.script[1] = RollbackCall(d)
        BY <2>1, <2>3, <1>3 DEF TwoCalls, Undoes, RollbackOf
    <2>5. n.at = "ran" /\ q.at = "sent"
        BY <1>1, <1>8 DEF Handling
    <2>6. Deliver /\ Head(calls).by = r /\ Accepts(Head(calls).call)
        <3>1. request'[r].at = "ran" /\ request[r].at = "sent"
            BY <2>5 DEF q, n
        <3>2. ASSUME NEW s \in Requests, Starts(s) PROVE FALSE
            <4>1. PICK script \in Seq(OpCall), clears \in SUBSET (AppId \X AppNames) :
                     Begin(s, script, clears)
                BY <3>2, StartsAreFit DEF Begins, OperatorInv
            <4>2. request'[r].at = "ready" \/ request'[r] = request[r]
                BY <4>1, HandlersStep DEF Begin, NewRequest, OperatorInv, OperatorTyped, OperatorTypeOK
            <4> QED
                BY <3>1, <4>2
        <3>3. \A s \in Requests : Answer(s) => request'[r].at # "ran" \/ request'[r] = request[r]
            BY NotAskedTyped DEF Answer, OperatorInv, OperatorTyped, OperatorTypeOK
        <3>4. \A s \in Requests, at \in {"sent", "clearing"} :
                 Move(s, at) => request'[r].at # "ran" \/ request'[r] = request[r]
            BY DEF Move, OperatorInv, OperatorTyped, OperatorTypeOK, Handling
        <3>5. ASSUME NEW s \in Requests, Send(s) \/ Refused(s) \/ GiveUp(s) \/ ClearEnv(s) PROVE FALSE
            BY <3>1, <3>3, <3>4, <3>5 DEF Send, Refused, GiveUp, ClearEnv
        <3>6. ASSUME NEW s \in Requests, Continue(s) PROVE FALSE
            <4>1. CASE request' = [request EXCEPT ![s].next = @ + 1, ![s].at = "ready"]
                BY <4>1, <3>1 DEF OperatorInv, OperatorTyped, OperatorTypeOK, Handling
            <4> QED
                BY <4>1, <3>1, <3>3, <3>4, <3>6 DEF Continue
        <3>7. ASSUME UNCHANGED request PROVE FALSE
            BY <3>1, <3>7
        <3>8. ~Restart /\ ~Refresh
            <4>1. Restart => request'[r].at = "idle"
                BY NotAskedTyped DEF Restart
            <4>2. Refresh => request'[r] = [request[r] EXCEPT !.at = Heard("sent")]
                BY <3>1 DEF Refresh
            <4>3. Heard("sent") = "sent"
                BY DEF Heard
            <4>4. Refresh => request'[r].at = "sent"
                BY <4>2, <4>3 DEF OperatorInv, OperatorTyped, OperatorTypeOK, Handling
            <4> QED
                BY <3>1, <4>1, <4>4
        <3>9. Deliver
            BY <3>2, <3>5, <3>6, <3>7, <3>8 DEF OperatorNext, Handler, Starts, SetEnv, Push, LinkDrops,
               AgentActs, operatorVars, allVars
        <3>10. Head(calls).by = r /\ Accepts(Head(calls).call)
            BY <3>1, <3>9 DEF Deliver, OperatorInv, OperatorTyped, OperatorTypeOK, Handling
        <3> QED
            BY <3>9, <3>10
    <2>7. Head(calls).call = RollbackCall(d)
        <3>1. Head(calls) = calls[1] /\ 1 \in DOMAIN calls
            BY <2>6, FirstCall DEF Deliver, OperatorInv, OperatorTyped
        <3>2. calls[1].call = request[r].script[request[r].next]
            BY <2>6, <3>1 DEF OperatorInv, AwaitedCalls
        <3> QED
            BY <3>1, <3>2, <2>3, <2>4 DEF q
    <2> QED
        BY <2>6, <2>7 DEF Gains
<1>9. n = q \/ (q.at \in {"ran", "accepted"} /\ n.script = q.script /\ n.done = q.done)
      \/ (q.at = "sent" /\ n = [q EXCEPT !.at = "ran", !.done = @ + 1])
    BY <1>1, <1>2, <1>3, <1>6 DEF Moved, Handling
<1> QED
    BY <1>5, <1>7, <1>8, <1>9
\* Rights that only move about stay what they were.
LEMMA RightsKept ==
    ASSUME OperatorInv, Grows, NEW d \in DeploymentId, NEW k \in {0, 1},
           calls' \in Seq(SentCall),
           \A r \in Requests : Holds(r, d)' => Holds(r, d),
           \A i \in DOMAIN calls' : Carries(i, d)' => i + k \in DOMAIN calls /\ Carries(i + k, d),
           \A e \in DOMAIN origin' : Spent(e, d)' => e \in DOMAIN origin /\ Spent(e, d)
    PROVE  OneRight(d)'
<1>1. OneRight(d) /\ (Marked(d) => Marked(d)')
    BY MarksStay DEF OperatorInv, OneRightEach
<1>2. ASSUME NEW r \in Requests, Holds(r, d)'
      PROVE  /\ Marked(d)'
             /\ \A s \in Requests : Holds(s, d)' => r = s
             /\ \A i \in DOMAIN calls' : ~Carries(i, d)'
             /\ \A e \in DOMAIN origin' : ~Spent(e, d)'
    BY <1>1, <1>2 DEF OneRight
<1>3. ASSUME NEW i \in DOMAIN calls', Carries(i, d)'
      PROVE  /\ Marked(d)'
             /\ \A j \in DOMAIN calls' : Carries(j, d)' => i = j
             /\ \A e \in DOMAIN origin' : ~Spent(e, d)'
    <2>1. ASSUME NEW j \in DOMAIN calls', Carries(j, d)' PROVE i = j
        <3>1. i + k = j + k
            BY <1>1, <1>3, <2>1 DEF OneRight
        <3>2. i \in Nat /\ j \in Nat
            OBVIOUS
        <3> QED
            BY <3>1, <3>2
    <2> QED
        BY <1>1, <1>3, <2>1 DEF OneRight
<1>4. ASSUME NEW e \in DOMAIN origin', Spent(e, d)'
      PROVE  /\ Marked(d)'
             /\ \A f \in DOMAIN origin' : Spent(f, d)' => e = f
    BY <1>1, <1>4 DEF OneRight
<1> QED
    BY <1>2, <1>3, <1>4 DEF OneRight
\* The call that queues a release in the place of d is sent by who held the right.
LEMMA RightSent ==
    ASSUME OperatorInv, NEW r \in Requests, NEW d \in DeploymentId, request[r].at = "ready",
           Undoes(request[r].script[request[r].next], d)
    PROVE  Holds(r, d)
<1> DEFINE q == request[r]
<1>1. q.next \in 1 .. Len(q.script) /\ q.done + 1 = q.next /\ (OneCall(q) \/ TwoCalls(q))
      /\ q \in Handling
    BY SentByAHandler DEF OperatorInv, OperatorTyped, OperatorTypeOK
<1>2. q.done \in Nat /\ q.at = "ready" /\ Undoes(q.script[q.next], d)
    BY <1>1 DEF Handling
<1> HIDE DEF q
<1>3. ~OneCall(q)
    <2>1. OneCall(q) => q.next = 1
        BY <1>1 DEF OneCall
    <2> QED
        BY <1>2, <2>1 DEF OneCall, Undoes, RollbackOf
<1>4. q.next = 2
    <2>1. Len(q.script) = 2 /\ q.script[1].op = "rollback"
        <3>1. TwoCalls(q)
            BY <1>1, <1>3
        <3>2. PICK e \in DeploymentId : q.script[1] = RollbackCall(e)
            BY <3>1 DEF TwoCalls
        <3>3. RollbackCall(e).op = "rollback"
            BY DEF RollbackCall
        <3> QED
            BY <3>1, <3>2, <3>3 DEF TwoCalls
    <2>2. q.next = 1 \/ q.next = 2
        BY <1>1, <2>1
    <2> QED
        BY <1>2, <2>1, <2>2 DEF Undoes
<1>5. q.done = 1 /\ Len(q.script) = 2
    BY <1>1, <1>2, <1>3, <1>4 DEF TwoCalls
<1> QED
    BY <1>2, <1>4, <1>5 DEF Holds, q

\* A right moves from the handler that held it to the call it sends.
LEMMA RightCarried ==
    ASSUME OperatorInv, [OperatorNext]_allVars, NEW r \in Requests, NEW d \in DeploymentId, Send(r),
           calls' = Append(calls, Awaited(r, request[r].script[request[r].next]))
    PROVE  OneRight(d)'
<1> DEFINE call == request[r].script[request[r].next]
           c == Awaited(r, call)
<1>1. calls \in Seq(SentCall) /\ calls' \in Seq(SentCall) /\ OneRight(d) /\ Grows
      /\ request \in [Requests -> Handling]
    BY CallSteps, DataSteps, DataGrows DEF OperatorInv, OneRightEach, OperatorTyped, OperatorTypeOK
<1>2. request[r].at = "ready" /\ UNCHANGED <<origin, vars>> /\ call \in OpCall
    BY SentByAHandler DEF Send
<1>3. c \in SentCall /\ c.call = call
    BY <1>2 DEF Awaited, SentCall
<1>4. ASSUME NEW i \in DOMAIN calls'
      PROVE  (i \in DOMAIN calls /\ calls'[i] = calls[i])
             \/ (i \notin DOMAIN calls /\ i = Len(calls) + 1 /\ calls'[i] = c)
    BY ONLY <1>1, <1>3, <1>4, AppendedCall, calls' = Append(calls, c)
<1>5. request'[r] = [request[r] EXCEPT !.at = "sent"]
      /\ \A s \in Requests : s # r => request'[s] = request[s]
    <2>1. calls' # calls
        <3>1. Len(calls') = Len(calls) + 1 /\ Len(calls) \in Nat
            BY <1>1, <1>3
        <3> QED
            BY <3>1
    <2> QED
        BY <1>1, <2>1 DEF Send, Move
<1> HIDE DEF call, c
<1>6. ASSUME NEW s \in Requests, Holds(s, d)' PROVE Holds(s, d) /\ s # r
    <2>1. request'[r].at = "sent"
        BY <1>1, <1>5 DEF Handling
    <2> QED
        BY <1>5, <1>6, <2>1 DEF Holds
<1>7. \A e \in DOMAIN origin' : Spent(e, d)' => e \in DOMAIN origin /\ Spent(e, d)
    BY <1>2 DEF Spent
<1>8. CASE ~Undoes(call, d)
    <2>1. ASSUME NEW i \in DOMAIN calls', Carries(i, d)' PROVE i + 0 \in DOMAIN calls /\ Carries(i + 0, d)
        <3>1. calls'[i] = calls[i] /\ i \in DOMAIN calls
            BY <1>3, <1>4, <1>8, <2>1 DEF Carries
        <3>2. i + 0 = i
            BY <1>1
        <3> QED
            BY <3>1, <3>2, <2>1 DEF Carries
    <2> QED
        BY <1>1, <1>6, <1>7, <2>1, RightsKept
<1>9. CASE Undoes(call, d)
    <2>1. Holds(r, d)
        BY <1>2, <1>9, RightSent DEF call
    <2>2. /\ Marked(d)
          /\ \A s \in Requests : Holds(s, d) => s = r
          /\ \A i \in DOMAIN calls : ~Carries(i, d)
          /\ \A e \in DOMAIN origin : ~Spent(e, d)
        BY <1>1, <2>1 DEF OneRight
    <2>3. Marked(d)'
        BY <1>1, <2>2, MarksStay
    <2>4. \A s \in Requests : ~Holds(s, d)'
        BY <1>6, <2>2
    <2>5. \A e \in DOMAIN origin' : ~Spent(e, d)'
        BY <1>7, <2>2
    <2>6. \A i \in DOMAIN calls' : Carries(i, d)' => i = Len(calls) + 1
        BY <1>4, <2>2 DEF Carries
    <2> QED
        BY <2>3, <2>4, <2>5, <2>6 DEF OneRight
<1> QED
    BY <1>8, <1>9

\* A right is spent on the deployment its call queues.
LEMMA RightSpent ==
    ASSUME OperatorInv, [OperatorNext]_allVars, NEW call \in OpCall, Queues(call), NEW d \in DeploymentId
    PROVE  OneRight(d)'
<1>1. calls \in Seq(SentCall) /\ calls' \in Seq(SentCall) /\ OneRight(d) /\ Grows
    BY CallSteps, DataSteps, DataGrows DEF OperatorInv, OneRightEach, OperatorTyped, OperatorTypeOK
<1>2. calls # <<>> /\ calls' = Tail(calls) /\ call = Head(calls).call /\ call.op = "queue"
    BY DEF Queues, Deliver
<1>3. 1 \in DOMAIN calls /\ call = calls[1].call
      /\ \A i \in DOMAIN calls' : i + 1 \in DOMAIN calls /\ calls'[i] = calls[i + 1] /\ i + 1 # 1
    <2>1. \A i \in DOMAIN calls' : i + 1 # 1
        BY <1>1
    <2> QED
        BY <1>2, <2>1, FirstCall DEF OperatorInv, OperatorTyped
<1>4. ASSUME NEW r \in Requests, Holds(r, d)' PROVE Holds(r, d)
    <2>1. RollbackCall(d).op = "rollback"
        BY DEF RollbackCall
    <2>2. ~Gains(r, d)
        BY <1>2, <2>1 DEF Gains
    <2> QED
        BY <1>4, <2>2, RightsHeld
<1>5. ASSUME NEW i \in DOMAIN calls', Carries(i, d)' PROVE i + 1 \in DOMAIN calls /\ Carries(i + 1, d)
    BY <1>3, <1>5 DEF Carries
<1>6. /\ DOMAIN origin' = DOMAIN origin \cup {next_id.deployment}
      /\ origin'[next_id.deployment] = call.why
      /\ \A e \in DOMAIN origin : origin'[e] = origin[e]
    BY DEF Queues
<1>7. CASE call.why # RollbackOf(d)
    <2>1. \A e \in DOMAIN origin' : Spent(e, d)' => e \in DOMAIN origin /\ Spent(e, d)
        BY <1>6, <1>7 DEF Spent
    <2> QED
        BY <1>1, <1>4, <1>5, <2>1, RightsKept
<1>8. CASE call.why = RollbackOf(d)
    <2>1. Carries(1, d)
        BY <1>2, <1>3, <1>8 DEF Carries, Undoes
    <2>2. /\ Marked(d)
          /\ \A r \in Requests : ~Holds(r, d)
          /\ \A i \in DOMAIN calls : Carries(i, d) => i = 1
          /\ \A e \in DOMAIN origin : ~Spent(e, d)
        BY <1>1, <1>3, <2>1 DEF OneRight
    <2>3. Marked(d)'
        BY <1>1, <2>2, MarksStay
    <2>4. \A r \in Requests : ~Holds(r, d)'
        BY <1>4, <2>2
    <2>5. \A i \in DOMAIN calls' : ~Carries(i, d)'
        BY <1>3, <1>5, <2>2
    <2>6. \A e \in DOMAIN origin' : Spent(e, d)' => e = next_id.deployment
        BY <1>6, <2>2 DEF Spent
    <2> QED
        BY <2>3, <2>4, <2>5, <2>6 DEF OneRight
<1> QED
    BY <1>7, <1>8

\* A right comes to be when the deployment is marked, and never before.
LEMMA RightGained ==
    ASSUME OperatorInv, [OperatorNext]_allVars, NEW r \in Requests, NEW d \in DeploymentId, Gains(r, d)
    PROVE  OneRight(d)'
<1>1. calls \in Seq(SentCall) /\ calls' \in Seq(SentCall) /\ OneRight(d) /\ OperatorTypeOK /\ TypeOK
    BY CallSteps DEF OperatorInv, OneRightEach, OperatorTyped, OperatorTypeOK
<1>2. calls # <<>> /\ calls' = Tail(calls) /\ Reducer(RollbackCall(d)) /\ UNCHANGED origin
    <2>1. Deliver /\ Accepts(Head(calls).call) /\ Head(calls).call = RollbackCall(d)
        BY DEF Gains
    <2>2. calls # <<>> /\ calls' = Tail(calls) /\ Reducer(Head(calls).call)
          /\ (Head(calls).call.op # "queue" => UNCHANGED origin)
        BY <2>1 DEF Deliver
    <2>3. RollbackCall(d).op = "rollback"
        BY DEF RollbackCall
    <2> QED
        BY <2>1, <2>2, <2>3
<1>3. RollbackCall(d) \in OpCall /\ RollbackCall(d).op = "rollback" /\ RollbackCall(d).deployment = d
    BY DEF RollbackCall, OpCall
<1>4. RollbackDeployment(Server, d)
    BY <1>2, <1>3, ReducerRuns
<1>5. d \in DOMAIN deployment /\ deployment[d].status = "Succeeded"
    BY <1>4 DEF RollbackDeployment, IsRollbackable
<1>6. Marked(d)'
    <2>1. IsTable(deployment, DeploymentId, Deployment)
        BY <1>1 DEF TypeOK
    <2> QED
        BY <2>1, <1>4, <1>5 DEF RollbackDeployment, Marked, IsTable, Deployment
<1>7. /\ \A s \in Requests : ~Holds(s, d)
      /\ \A i \in DOMAIN calls : ~Carries(i, d)
      /\ \A e \in DOMAIN origin : ~Spent(e, d)
    BY <1>1, <1>5 DEF OneRight, Marked
<1>8. \A s \in Requests : Holds(s, d)' => s = r
    BY <1>7, RightsHeld DEF Gains
<1>9. \A i \in DOMAIN calls' : ~Carries(i, d)'
    BY <1>1, <1>2, <1>7, FirstCall DEF Carries
<1>10. \A e \in DOMAIN origin' : ~Spent(e, d)'
    BY <1>2, <1>7 DEF Spent
<1> QED
    BY <1>6, <1>8, <1>9, <1>10 DEF OneRight

LEMMA OneRightStep ==
    ASSUME OperatorInv, [OperatorNext]_allVars
    PROVE  OneRightEach'
<1> SUFFICES ASSUME NEW d \in DeploymentId PROVE OneRight(d)'
    BY DEF OneRightEach
<1>1. calls \in Seq(SentCall) /\ calls' \in Seq(SentCall) /\ Grows /\ OperatorTyped /\ CacheIsPast
    BY CallSteps, DataSteps, DataGrows DEF OperatorInv, OperatorTyped, OperatorTypeOK
<1>2. CASE \E r \in Requests : Gains(r, d)
    BY <1>2, RightGained
<1>3. CASE \E call \in OpCall : Queues(call)
    BY <1>3, RightSpent
<1>4. CASE /\ UNCHANGED origin /\ ~\E r \in Requests : Gains(r, d)
           /\ ~(Deliver /\ Accepts(Head(calls).call) /\ Head(calls).call.op = "queue")
    <2>1. \A r \in Requests : Holds(r, d)' => Holds(r, d)
        BY <1>4, RightsHeld
    <2>2. \A e \in DOMAIN origin' : Spent(e, d)' => e \in DOMAIN origin /\ Spent(e, d)
        BY <1>4 DEF Spent
    <2>3. ASSUME NEW k \in {0, 1}, Kept(k) PROVE OneRight(d)'
        <3>1. \A i \in DOMAIN calls' : Carries(i, d)' => i + k \in DOMAIN calls /\ Carries(i + k, d)
            BY <2>3 DEF Kept, Carries
        <3> QED
            BY <1>1, <2>1, <2>2, <3>1, RightsKept
    <2>4. CASE Push
        <3>1. ASSUME NEW i \in DOMAIN calls', Carries(i, d)'
              PROVE  i + 0 \in DOMAIN calls /\ Carries(i + 0, d)
            <4>1. i \in DOMAIN calls /\ calls'[i] = calls[i]
                BY <1>1, <2>4, <3>1, PushedCalls DEF Carries, Undoes, RollbackOf
            <4>2. i + 0 = i
                BY <1>1
            <4> QED
                BY <3>1, <4>1, <4>2 DEF Carries
        <3> QED
            BY <1>1, <2>1, <2>2, <3>1, RightsKept
    <2> QED
        BY <2>3, <2>4, CallSteps, RightCarried DEF CallsStep
<1> QED
    BY <1>2, <1>3, <1>4, OriginSteps
-----------------------------------------------------------------------------
(* The invariant *)

\* A finite set can be listed.
LEMMA Listed ==
    ASSUME NEW S, IsFiniteSet(S)
    PROVE  SetToSeq(S) \in [1 .. Cardinality(S) -> S]
<1>1. PICK f : f \in Bijection(1 .. Cardinality(S), S)
    BY FS_CardinalityType DEF ExistsBijection
<1>2. f \in [1 .. Cardinality(S) -> S] /\ IsInjective(f)
    BY <1>1 DEF Bijection, Injection, IsInjective
<1> QED
    BY <1>2 DEF SetToSeq

LEMMA OperatorTypedInit == OperatorInit => OperatorTyped
<1> SUFFICES ASSUME OperatorInit PROVE OperatorTyped
    OBVIOUS
<1> DEFINE n == Cardinality(Commits)
           name == CHOOSE x \in HostNames : TRUE
           row == [name |-> name, status |-> "Online", cpu_pct |-> 0, silence |-> 0,
                   workload_count |-> 0]
           code == CHOOSE x \in Codes : TRUE
           app == CHOOSE x \in AppNames : TRUE
<1>1. n \in Nat /\ n <= MaxDeployments /\ SetToSeq(Commits) \in [1 .. n -> Commits]
    BY OperatorAssumption, Listed, FS_CardinalityType
<1>2. name \in HostNames /\ code \in Codes /\ app \in AppNames
    BY OperatorAssumption
<1>3. 1 \in HostId /\ 1 \in AppId /\ MaxHosts \in Nat /\ MaxApps \in Nat /\ MaxDeployments \in Nat
      /\ MaxConnections \in Nat /\ 1 \in 0 .. MaxConnections
    BY OperatorAssumption, BoundAssumption DEF HostId, AppId
<1>4. {Server, Agent} \subseteq Identities /\ Server # Agent
    BY OperatorAssumption
<1>5. row \in Host
    BY <1>2, TimeAssumption DEF Host, HostStatus
<1>6. IsTable(Put(EmptyTable, 1, row), HostId, Host) /\ DOMAIN Put(EmptyTable, 1, row) = {1}
    BY <1>3, <1>5 DEF Put, EmptyTable, IsTable
<1>7. IsTable(Put(EmptyTable, Agent, 1), Identities, HostId)
    BY <1>3, <1>4 DEF Put, EmptyTable, IsTable
<1>8. IsTable(Put(EmptyTable, code, 1), Codes, HostId \cup {NotConsumed})
      /\ DOMAIN Put(EmptyTable, code, 1) = {code}
    BY <1>2, <1>3 DEF Put, EmptyTable, IsTable
<1>9. IsTable(Put(EmptyTable, 1, app), AppId, AppNames)
      /\ DOMAIN Put(EmptyTable, 1, app) = {1} /\ Range(Put(EmptyTable, 1, app)) \subseteq AppNames
    BY <1>2, <1>3 DEF Put, EmptyTable, IsTable, Range
<1> HIDE DEF n, name, row, code, app
<1>10. IsTable(deployment, DeploymentId, Deployment) /\ DOMAIN deployment = 1 .. n
    <2>1. deployment = [d \in 1 .. n |->
              [app_id |-> 1, host_id |-> 1, commit_sha |-> SetToSeq(Commits)[d],
               status |-> "Succeeded", started |-> TRUE, finished |-> TRUE]]
        BY DEF OperatorInit, n
    <2>2. 1 .. n \subseteq DeploymentId
        BY <1>1, <1>3 DEF DeploymentId
    <2>3. ASSUME NEW d \in 1 .. n PROVE deployment[d] \in Deployment
        <3>1. SetToSeq(Commits)[d] \in Commits
            BY <1>1
        <3> QED
            BY <2>1, <1>3, <3>1 DEF Deployment, DeployStatus
    <2> QED
        BY <2>1, <2>2, <2>3 DEF IsTable
<1>11. /\ host = Put(EmptyTable, 1, row)
       /\ agent_binding = Put(EmptyTable, Agent, 1)
       /\ operator = {Server}
       /\ enrollment_token = Put(EmptyTable, code, 1)
       /\ workload = {}
       /\ application = Put(EmptyTable, 1, app)
       /\ deploy_log_line = {}
       /\ next_id = [host |-> 2, app |-> 2, deployment |-> n + 1]
       /\ conn = [s \in Identities |-> IF s \in {Server, Agent} THEN 1 ELSE 0]
       /\ since_sweep = 0
    BY DEF OperatorInit, n, name, row, code, app
<1>12. next_id \in [host : 1 .. MaxHosts + 1, app : 1 .. MaxApps + 1,
                    deployment : 1 .. MaxDeployments + 1]
    BY <1>1, <1>3, <1>11, OperatorAssumption
<1>13. TypeOK
    BY <1>3, <1>4, <1>6, <1>7, <1>8, <1>9, <1>10, <1>11, <1>12, TimeAssumption DEF TypeOK
<1>14. IdsAreFresh
    BY <1>1, <1>6, <1>9, <1>10, <1>11 DEF IdsAreFresh
<1>15. CacheTyped
    <2>1. cache.application = application /\ cache.deployment = deployment
          /\ cache.host = [h \in DOMAIN host |-> host[h].status]
        BY DEF OperatorInit, Published
    <2>2. IsTable(cache.host, HostId, HostStatus)
        BY <1>13, <2>1 DEF TypeOK, IsTable, Host
    <2> QED
        BY <1>13, <2>1, <2>2 DEF CacheTyped, TypeOK
<1>16. OperatorTypeOK
    <2>1. request \in [Requests -> Handling]
        BY NotAskedTyped DEF OperatorInit
    <2>2. calls \in Seq(SentCall)
        BY DEF OperatorInit
    <2>3. link \in BOOLEAN /\ app_env \subseteq AppNames /\ remembered \subseteq Codes
        BY <1>2, <1>8, <1>9, <1>11 DEF OperatorInit
    <2>4. used \in [inputs : 0 .. MaxInputs, failures : 0 .. MaxFailures]
        BY OperatorAssumption DEF OperatorInit
    <2>5. IsTable(origin, DeploymentId, Why)
        BY EmptyTableTyped DEF OperatorInit
    <2> QED
        BY <1>15, <2>1, <2>2, <2>3, <2>4, <2>5 DEF OperatorTypeOK
<1>17. ServerStays
    BY <1>4, <1>11 DEF ServerStays, OperatorInit, EmptyTable
<1> QED
    BY <1>13, <1>14, <1>16, <1>17 DEF OperatorTyped

LEMMA OperatorInvInit == OperatorInit => OperatorInv
<1> SUFFICES ASSUME OperatorInit PROVE OperatorInv
    OBVIOUS
<1>1. OperatorTyped
    BY OperatorTypedInit
<1>2. calls = <<>> /\ DOMAIN calls = {} /\ DOMAIN origin = {} /\ request = [r \in Requests |-> NotAsked]
    BY DEF OperatorInit, EmptyTable
<1>3. CacheIsPast
    <2>1. cache.application = application /\ cache.deployment = deployment
        BY DEF OperatorInit, Published
    <2> QED
        BY <1>1, <2>1 DEF CacheIsPast, OperatorTyped, IdsAreFresh, Undone
<1>4. ScriptsOK
    BY <1>2 DEF ScriptsOK, ScriptOK
<1>5. JustifiedCalls /\ AwaitedCalls /\ OriginsOK
    BY <1>2 DEF JustifiedCalls, AwaitedCalls, OriginsOK
<1>6. OneRightEach
    BY <1>2, NotAskedTyped DEF OneRightEach, OneRight, Holds
<1> QED
    BY <1>1, <1>3, <1>4, <1>5, <1>6 DEF OperatorInv

LEMMA OperatorInvStep == OperatorInv /\ [OperatorNext]_allVars => OperatorInv'
BY OperatorTypedStep, CacheStep, JustifiedStep, HandlersStep, AwaitedStep, OneRightStep, OriginsStep
   DEF OperatorInv

LEMMA OperatorInvHolds == OperatorSpec => []OperatorInv
BY OperatorInvInit, OperatorInvStep, PTL DEF OperatorSpec
-----------------------------------------------------------------------------
(* The theorems *)

\* The server and the agent are clients of the control plane like any other:
\* every step of the two is a reducer call of a connected client, or touches no
\* table, so what ControlPlaneProofs proves of the tables' steps holds here.
THEOREM OperatorIsAClient == OperatorSpec => [][Next]_vars
<1>1. OperatorInv /\ [OperatorNext]_allVars => [Next]_vars
    BY DataSteps, StepsAreCalls DEF OperatorInv
<1> QED
    BY <1>1, OperatorInvHolds, PTL DEF OperatorSpec

\* Handlers, calls in flight, the cache and the tables keep their types.
THEOREM OperatorTypeCorrect == OperatorSpec => [](TypeOK /\ OperatorTypeOK)
<1>1. OperatorInv => TypeOK /\ OperatorTypeOK
    BY DEF OperatorInv, OperatorTyped
<1> QED
    BY <1>1, OperatorInvHolds, PTL

\* However many handlers run side by side, time out, are pressed again or lose
\* their connection: one deployment at most takes the place of another.
THEOREM UndoneOnce == OperatorSpec => []RolledBackOnce
<1>1. ASSUME OperatorInv, NEW d \in DOMAIN origin, NEW e \in DOMAIN origin,
             origin[d].by = "rollback", origin[d] = origin[e]
      PROVE  d = e
    <2>1. origin[d] \in Why
        BY <1>1 DEF OperatorInv, OperatorTyped, OperatorTypeOK, IsTable
    <2>2. PICK x \in DeploymentId : origin[d] = RollbackOf(x)
        BY <1>1, <2>1 DEF Why, RollbackOf
    <2>3. Spent(d, x) /\ Spent(e, x)
        BY <1>1, <2>2 DEF Spent
    <2> QED
        BY <1>1, <2>2, <2>3 DEF OperatorInv, OneRightEach, OneRight
<1>2. OperatorInv => RolledBackOnce
    BY <1>1 DEF RolledBackOnce
<1> QED
    BY <1>2, OperatorInvHolds, PTL

\* However old the cache a handler looked into: what a rollback queues is an
\* earlier success of the same application on the same host, another commit
\* than the one undone, and the deployment undone is marked.
THEOREM RollbacksRestore == OperatorSpec => []RollbackRestores
<1>1. ASSUME OperatorInv, NEW e \in DOMAIN origin, origin[e].by = "rollback"
      PROVE  LET d == origin[e].of IN
             /\ deployment[d].status = "RolledBack"
             /\ deployment[e].commit_sha # deployment[d].commit_sha
             /\ \E p \in DOMAIN deployment :
                   /\ p < d
                   /\ deployment[p].app_id = deployment[e].app_id
                   /\ deployment[p].host_id = deployment[e].host_id
                   /\ deployment[p].commit_sha = deployment[e].commit_sha
                   /\ deployment[p].status \in {"Succeeded", "RolledBack"}
    <2> DEFINE d == origin[e].of
    <2>1. origin[e] \in Why
        BY <1>1 DEF OperatorInv, OperatorTyped, OperatorTypeOK, IsTable
    <2>2. d \in DeploymentId /\ origin[e] = RollbackOf(d)
        BY <1>1, <2>1 DEF Why, RollbackOf
    <2>3. Marked(d)
        BY <1>1, <2>2 DEF OperatorInv, OneRightEach, OneRight, Spent
    <2>4. Restores(deployment[e].app_id, deployment[e].host_id, deployment[e].commit_sha, d)
        BY <1>1 DEF OperatorInv, OriginsOK, QueuedFor
    <2> QED
        BY <2>3, <2>4 DEF Marked, Restores, Undone
<1>2. OperatorInv => RollbackRestores
    BY <1>1 DEF RollbackRestores
<1> QED
    BY <1>2, OperatorInvHolds, PTL

\* A push reaches only hosts where its application had succeeded before,
\* whatever became of the tables since the webhook read them.
THEOREM PushesHavePrecedents == OperatorSpec => []PushesInventNoTarget
<1>1. OperatorInv => PushesInventNoTarget
    BY DEF OperatorInv, OriginsOK, QueuedFor, HasPrecedentBefore, Undone, PushesInventNoTarget
<1> QED
    BY <1>1, OperatorInvHolds, PTL

\* An answer of success is given only when each call of the handler ran and was
\* accepted while it waited.
THEOREM SuccessIsTold == OperatorSpec => SuccessMeansDone
<1>1. ASSUME OperatorInv, [OperatorNext]_allVars, NEW r \in Requests,
             (Continue(r) /\ request'[r].at = "idle") \/ ClearEnv(r)
      PROVE  request[r].done = Len(request[r].script)
    <2>1. ScriptOK(request[r]) /\ request[r].at \in {"accepted", "clearing"}
        BY <1>1 DEF OperatorInv, ScriptsOK, Continue, MayContinue, ClearEnv
    <2>2. Progress(request[r])
        BY <2>1, NotAskedTyped DEF ScriptOK
    <2>3. CASE ClearEnv(r)
        BY <2>2, <2>3 DEF Progress, ClearEnv
    <2>4. CASE Continue(r) /\ request'[r].at = "idle"
        <3>1. IsLastCall(r)
            <4>1. request \in [Requests -> Handling]
                BY <1>1 DEF OperatorInv, OperatorTyped, OperatorTypeOK
            <4>2. request' = [request EXCEPT ![r].next = @ + 1, ![r].at = "ready"]
                  => request'[r].at = "ready"
                BY <4>1 DEF Handling
            <4> QED
                BY <2>4, <4>2 DEF Continue
        <3> QED
            BY <2>2, <2>4, <3>1 DEF Progress, Continue, MayContinue, IsLastCall
    <2> QED
        BY <1>1, <2>3, <2>4
<1>2. OperatorInv /\ [OperatorNext]_allVars =>
         [\A r \in Requests :
             (Continue(r) /\ request'[r].at = "idle") \/ ClearEnv(r) =>
                 request[r].done = Len(request[r].script)]_allVars
    BY <1>1
<1> QED
    BY <1>2, OperatorInvHolds, PTL DEF OperatorSpec, SuccessMeansDone

\* The environment of an application that is still recorded is never cleared by
\* the removal of that application.
THEOREM EnvironmentsGoLast == OperatorSpec => EnvironmentGoesLast
<1>1. ASSUME OperatorInv, NEW r \in Requests, request[r].at = "clearing", NEW c \in request[r].clears
      PROVE  c[1] \notin DOMAIN application
    <2>1. ScriptOK(request[r])
        BY <1>1 DEF OperatorInv, ScriptsOK
    <2>2. ClearsWhatIsGone(request[r])
        BY <1>1, <2>1, NotAskedTyped DEF ScriptOK
    <2> QED
        BY <1>1, <2>2 DEF ClearsWhatIsGone
<1>2. OperatorInv /\ [OperatorNext]_allVars =>
         [\A r \in Requests :
             app_env' # app_env /\ request[r].at = "clearing" /\ request'[r].at = "idle" =>
                 \A c \in request[r].clears : c[1] \notin DOMAIN application]_allVars
    BY <1>1
<1> QED
    BY <1>2, OperatorInvHolds, PTL DEF OperatorSpec, EnvironmentGoesLast
-----------------------------------------------------------------------------
(* The policy *)

Released == [d \in DOMAIN deployment |->
                [place |-> <<deployment[d].app_id, deployment[d].host_id>>,
                 commit |-> deployment[d].commit_sha]]

\* A deployment that is queued is one more release, and nothing else of the policy.
LEMMA QueuedRelease ==
    ASSUME NEW app, NEW h, NEW commit, QueueDeployment(Server, app, h, commit),
           next_id.deployment \notin DOMAIN deployment
    PROVE  /\ next_id.deployment \notin DOMAIN Released
           /\ Released' = Put(Released, next_id.deployment,
                              [place |-> <<app, h>>, commit |-> commit])
           /\ UNCHANGED <<HavingStatus(Undone), HavingStatus({"RolledBack"})>>
<1> DEFINE n == next_id.deployment
           row == [app_id |-> app, host_id |-> h, commit_sha |-> commit,
                   status |-> "Queued", started |-> FALSE, finished |-> FALSE]
<1>1. deployment' = Put(deployment, n, row)
    BY DEF QueueDeployment
<1>2. row.app_id = app /\ row.host_id = h /\ row.commit_sha = commit /\ row.status = "Queued"
    OBVIOUS
<1> HIDE DEF n, row
<1>3. n \notin DOMAIN deployment
    BY DEF n
<1>4. /\ DOMAIN deployment' = DOMAIN deployment \cup {n}
      /\ deployment'[n] = row
      /\ \A d \in DOMAIN deployment : deployment'[d] = deployment[d]
    BY <1>1, <1>3 DEF Put
<1>5. n \notin DOMAIN Released /\ Released' = Put(Released, n, [place |-> <<app, h>>, commit |-> commit])
    BY <1>2, <1>3, <1>4 DEF Released, Put
<1>6. ASSUME NEW S, "Queued" \notin S PROVE HavingStatus(S)' = HavingStatus(S)
    BY <1>2, <1>3, <1>4, <1>6 DEF HavingStatus
<1>7. HavingStatus(Undone)' = HavingStatus(Undone) /\ HavingStatus({"RolledBack"})' = HavingStatus({"RolledBack"})
    BY <1>6 DEF Undone
<1> QED
    BY <1>5, <1>7 DEF n

\* The step sets the status of d, and what the other rows and columns say of a
\* release stays.
StatusSet(d, status) ==
    /\ DOMAIN deployment' = DOMAIN deployment
    /\ \A x \in DOMAIN deployment :
          /\ deployment'[x].app_id = deployment[x].app_id
          /\ deployment'[x].host_id = deployment[x].host_id
          /\ deployment'[x].commit_sha = deployment[x].commit_sha
          /\ deployment'[x].status = IF x = d THEN status ELSE deployment[x].status

\* That leaves the releases what they are, and moves d alone.
LEMMA SameReleases ==
    ASSUME NEW d \in DOMAIN deployment, NEW status, StatusSet(d, status)
    PROVE  /\ UNCHANGED Released
           /\ \A S : HavingStatus(S)' = IF status \in S THEN HavingStatus(S) \cup {d}
                                        ELSE HavingStatus(S) \ {d}
<1>1. UNCHANGED Released
    BY DEF Released, StatusSet
<1>2. ASSUME NEW S
      PROVE  HavingStatus(S)' = IF status \in S THEN HavingStatus(S) \cup {d}
                                ELSE HavingStatus(S) \ {d}
    BY DEF HavingStatus, StatusSet
<1> QED
    BY <1>1, <1>2

\* A call that queues a deployment queues what the policy allows at that moment.
LEMMA QueueIsAllowed ==
    ASSUME OperatorInv, NEW call \in OpCall, Queues(call)
    PROVE  Policy!Next
<1> DEFINE place == <<call.app, call.host>>
<1>0. PICK n \in DeploymentId : n = next_id.deployment
    BY DEF Queues
<1>1. OperatorTyped /\ OperatorTypeOK /\ OneRightEach /\ calls # <<>> /\ call = Head(calls).call
    BY DEF OperatorInv, OperatorTyped, Queues, Deliver
<1>2. 1 \in DOMAIN calls /\ call = calls[1].call
    BY <1>1, FirstCall
<1>3. Justified(call) /\ call.op = "queue"
    BY <1>2 DEF OperatorInv, JustifiedCalls, Queues
<1>4. call.app \in AppId /\ call.host \in HostId /\ call.commit \in Commits /\ call.why \in Why
    BY <1>3, CallFields
<1>5. n \in DeploymentId /\ n \notin DOMAIN deployment
      /\ QueueDeployment(Server, call.app, call.host, call.commit)
      /\ origin' = Put(origin, n, call.why)
    BY <1>0 DEF Queues
<1>6. /\ n \notin DOMAIN Released
      /\ Released' = Put(Released, n, [place |-> place, commit |-> call.commit])
      /\ UNCHANGED <<HavingStatus(Undone), HavingStatus({"RolledBack"})>>
    BY <1>0, <1>5, QueuedRelease
<1>7. place \in AppId \X HostId
    BY <1>4
<1> HIDE DEF place
<1>8. Policy!Queue(n, place, call.commit, call.why)
    BY <1>5, <1>6 DEF Policy!Queue, Policy!Put, Put, Released, Undone
<1>9. CASE call.why = [by |-> "deploy"]
    <2>1. Policy!Deploy(n, place, call.commit)
        BY <1>8, <1>9 DEF Policy!Deploy
    <2>2. \E to \in AppId \X HostId, commit \in Commits :
             Policy!Deploy(n, to, commit) \/ Policy!Push(n, to, commit)
        BY <2>1, <1>4, <1>7
    <2> QED
        BY <2>2, <1>5 DEF Policy!Next
<1>10. CASE call.why = [by |-> "push"]
    <2>1. HasPrecedent(call.app, call.host)
        BY <1>3, <1>10 DEF Justified
    <2>2. PICK p \in DOMAIN deployment :
             /\ deployment[p].app_id = call.app /\ deployment[p].host_id = call.host
             /\ deployment[p].status \in Undone
        BY <2>1 DEF HasPrecedent
    <2>3. p \in HavingStatus(Undone) /\ Released[p].place = place
        BY <2>2 DEF HavingStatus, Released, place
    <2>4. Policy!HasWorked(place)
        BY <2>3 DEF Policy!HasWorked, Released, Undone
    <2>5. Policy!Push(n, place, call.commit)
        BY <1>8, <1>10, <2>4 DEF Policy!Push
    <2>6. \E to \in AppId \X HostId, commit \in Commits :
             Policy!Deploy(n, to, commit) \/ Policy!Push(n, to, commit)
        BY <2>5, <1>4, <1>7
    <2> QED
        BY <2>6, <1>5 DEF Policy!Next
<1>11. ASSUME NEW d \in DeploymentId, call.why = RollbackOf(d) PROVE Policy!Next
    <2>1. Carries(1, d)
        BY <1>2, <1>3, <1>11 DEF Carries, Undoes
    <2>2. Marked(d) /\ \A e \in DOMAIN origin : ~Spent(e, d)
        BY <1>1, <1>2, <2>1 DEF OneRightEach, OneRight
    <2>3. d \in HavingStatus({"RolledBack"}) /\ ~Policy!IsReplaced(d)
        BY <2>2 DEF Marked, HavingStatus, Policy!IsReplaced, Spent, RollbackOf
    <2>4. call.why.by = "rollback" /\ call.why.of = d
        BY <1>11 DEF RollbackOf
    <2>5. Restores(call.app, call.host, call.commit, d)
        BY <1>3, <2>4 DEF Justified
    <2>6. PICK p \in DOMAIN deployment :
             /\ p < d
             /\ deployment[p].app_id = call.app
             /\ deployment[p].host_id = call.host
             /\ deployment[p].commit_sha = call.commit
             /\ deployment[p].status \in Undone
        BY <2>5 DEF Restores
    <2>7. p \in HavingStatus(Undone)
        BY <2>6 DEF HavingStatus
    <2>8. Released[p].place = place /\ Released[p].commit = call.commit
        BY <2>6 DEF Released, place
    <2>9. Released[d].place = place /\ Released[d].commit # call.commit
        BY <2>5 DEF Released, place, Restores
    <2>10. Policy!Queue(n, Released[p].place, Released[p].commit, [by |-> "rollback", of |-> d])
        BY <1>8, <1>11, <2>8 DEF RollbackOf
    <2>11. Policy!Replace(n, d, p)
        BY <2>3, <2>6, <2>7, <2>8, <2>9, <2>10 DEF Policy!Replace, Released, Undone
    <2>12. \E u \in HavingStatus({"RolledBack"}), g \in HavingStatus(Undone) :
              Policy!Replace(n, u, g)
        BY <2>3, <2>7, <2>11
    <2> QED
        BY <2>12, <1>5 DEF Policy!Next, Undone
<1> QED
    BY <1>4, <1>9, <1>10, <1>11 DEF Why, RollbackOf

\* A step that queues nothing is a success, a mark, or nothing to the policy.
LEMMA OtherStepsAreAllowed ==
    ASSUME OperatorTyped, DataStep, UNCHANGED origin,
           ~(Deliver /\ Accepts(Head(calls).call) /\ Head(calls).call.op = "queue")
    PROVE  [Policy!Next]_Policy!policyVars
<1>1. IsTable(deployment, DeploymentId, Deployment)
    BY DEF OperatorTyped, TypeOK
<1>2. \A d \in DOMAIN deployment : d \in DeploymentId /\ deployment[d] \in Deployment
    BY <1>1 DEF IsTable
<1>3. ASSUME UNCHANGED deployment PROVE [Policy!Next]_Policy!policyVars
    BY <1>3 DEF Policy!policyVars, HavingStatus
<1>4. ASSUME NEW d \in DeploymentId, RollbackDeployment(Server, d)
      PROVE  Policy!Next
    <2>1. d \in DOMAIN deployment /\ deployment[d].status = "Succeeded"
          /\ deployment' = [deployment EXCEPT ![d].status = "RolledBack"]
        BY <1>4 DEF RollbackDeployment, IsRollbackable
    <2>2. StatusSet(d, "RolledBack")
        BY <1>2, <2>1 DEF StatusSet, Deployment
    <2>3. /\ UNCHANGED Released
          /\ HavingStatus(Undone)' = HavingStatus(Undone) \cup {d}
          /\ HavingStatus({"RolledBack"})' = HavingStatus({"RolledBack"}) \cup {d}
        BY <2>1, <2>2, SameReleases DEF Undone
    <2>4. d \in HavingStatus(Undone) /\ d \notin HavingStatus({"RolledBack"})
        BY <2>1 DEF HavingStatus, Undone
    <2>5. Policy!TakeBack(d)
        BY <2>3, <2>4 DEF Policy!TakeBack, Released, Undone
    <2> QED
        BY <2>5 DEF Policy!Next
<1>5. ASSUME NEW d \in DeploymentId, StartDeployment(Agent, d)
      PROVE  [Policy!Next]_Policy!policyVars
    <2>1. d \in DOMAIN deployment /\ deployment[d].status = "Queued"
          /\ deployment' = [deployment EXCEPT ![d].status = "Running", ![d].started = TRUE]
        BY <1>5 DEF StartDeployment, IsClaimable, OwnedDeployment
    <2>2. StatusSet(d, "Running")
        BY <1>2, <2>1 DEF StatusSet, Deployment
    <2>3. /\ UNCHANGED Released
          /\ HavingStatus(Undone)' = HavingStatus(Undone) \ {d}
          /\ HavingStatus({"RolledBack"})' = HavingStatus({"RolledBack"}) \ {d}
        BY <2>1, <2>2, SameReleases DEF Undone
    <2>4. d \notin HavingStatus(Undone) /\ d \notin HavingStatus({"RolledBack"})
        BY <2>1 DEF HavingStatus, Undone
    <2> QED
        BY <2>3, <2>4 DEF Policy!policyVars, Released, Undone
<1>6. ASSUME NEW d \in DOMAIN deployment, NEW ok \in BOOLEAN,
             deployment[d].status = "Running", FinishDeployment(Agent, d, ok)
      PROVE  [Policy!Next]_Policy!policyVars
    <2> DEFINE to == IF ok THEN "Succeeded" ELSE "Failed"
    <2>1. deployment' = [deployment EXCEPT ![d].status = to, ![d].finished = TRUE]
        BY <1>6 DEF FinishDeployment
    <2>2. d \notin HavingStatus(Undone) /\ d \notin HavingStatus({"RolledBack"})
          /\ d \in DOMAIN Released
        BY <1>6 DEF HavingStatus, Undone, Released
    <2> HIDE DEF to
    <2>3. /\ UNCHANGED Released
          /\ \A S : HavingStatus(S)' = IF to \in S THEN HavingStatus(S) \cup {d}
                                       ELSE HavingStatus(S) \ {d}
        <3>1. StatusSet(d, to)
            BY <1>2, <2>1 DEF StatusSet, Deployment
        <3> QED
            BY <3>1, SameReleases
    <2>4. HavingStatus({"RolledBack"})' = HavingStatus({"RolledBack"})
        BY <2>2, <2>3 DEF to
    <2>5. CASE ok
        <3>1. HavingStatus(Undone)' = HavingStatus(Undone) \cup {d}
            BY <2>3, <2>5 DEF to, Undone
        <3>2. Policy!Succeed(d)
            BY <2>2, <2>3, <2>4, <3>1 DEF Policy!Succeed, Released, Undone
        <3> QED
            BY <1>2, <3>2 DEF Policy!Next
    <2>6. CASE ~ok
        <3>1. HavingStatus(Undone)' = HavingStatus(Undone)
            BY <2>2, <2>3, <2>6 DEF to, Undone
        <3> QED
            BY <2>3, <2>4, <3>1 DEF Policy!policyVars, Released, Undone
    <2> QED
        BY <2>5, <2>6
<1>7. ASSUME Deliver, calls # <<>>, Accepts(Head(calls).call), Reducer(Head(calls).call)
      PROVE  [Policy!Next]_Policy!policyVars
    <2> DEFINE call == Head(calls).call
    <2>1. call \in OpCall /\ Reducer(call) /\ call.op # "queue"
        BY <1>7, FirstCall DEF OperatorTyped
    <2> HIDE DEF call
    <2>2. CASE call.op = "rollback" /\ RollbackDeployment(Server, call.deployment)
        BY <2>1, <2>2, <1>4, CallFields
    <2>3. CASE UNCHANGED deployment
        BY <2>3, <1>3
    <2>4. \A h, draining : SetHostDraining(Server, h, draining) => UNCHANGED deployment
        BY DEF SetHostDraining, presenceFrame
    <2>5. \A h : DeleteHost(Server, h) => UNCHANGED deployment
        BY DEF DeleteHost
    <2>6. \A code : CreateEnrollmentToken(Server, code) => UNCHANGED deployment
        BY DEF CreateEnrollmentToken
    <2>7. \A app, name : DeleteApplication(Server, app) \/ RegisterApplication(Server, name)
                            => UNCHANGED deployment
        BY DEF DeleteApplication, RegisterApplication
    <2> QED
        BY <2>1, <2>2, <2>3, <2>4, <2>5, <2>6, <2>7, ReducerRuns
<1>8. ASSUME AgentActs PROVE [Policy!Next]_Policy!policyVars
    BY <1>8, <1>2, <1>3, <1>5, <1>6
       DEF AgentActs, ClientConnected, ClientDisconnected, presenceFrame
<1> QED
    BY <1>3, <1>7, <1>8 DEF DataStep, vars

\* The server implements the policy: whichever handlers and pushes run side by
\* side, decide on an old cache, time out or are cut off, each deployment they
\* queue is one the policy allows at the moment it is queued, and nothing else
\* of what the policy speaks of ever changes but by a success or a mark.
THEOREM PolicyIsKept == OperatorSpec => ImplementsPolicy
<1>1. ASSUME OperatorInit PROVE Policy!Init
    <2>1. \A d \in DOMAIN deployment : deployment[d].status = "Succeeded"
        BY <1>1 DEF OperatorInit
    <2>2. HavingStatus({"RolledBack"}) = {}
        BY <2>1 DEF HavingStatus
    <2>3. HavingStatus(Undone) \subseteq DOMAIN Released
        BY DEF HavingStatus, Released
    <2>4. origin = EmptyTable
        BY <1>1 DEF OperatorInit
    <2> QED
        BY <2>2, <2>3, <2>4 DEF Policy!Init, Policy!EmptyTable, EmptyTable, Released, Undone
<1>2. OperatorInv /\ [OperatorNext]_allVars => [Policy!Next]_Policy!policyVars
    <2> SUFFICES ASSUME OperatorInv, [OperatorNext]_allVars
                 PROVE  [Policy!Next]_Policy!policyVars
        OBVIOUS
    <2>1. CASE \E call \in OpCall : Queues(call)
        BY <2>1, QueueIsAllowed
    <2>2. CASE UNCHANGED origin /\ ~(Deliver /\ Accepts(Head(calls).call) /\ Head(calls).call.op = "queue")
        BY <2>2, DataSteps, OtherStepsAreAllowed DEF OperatorInv
    <2> QED
        BY <2>1, <2>2, OriginSteps
<1> QED
    BY <1>1, <1>2, OperatorInvHolds, PTL DEF OperatorSpec, ImplementsPolicy, Policy!Spec
=============================================================================
