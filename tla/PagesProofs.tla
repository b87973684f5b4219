------------------------------ MODULE PagesProofs ------------------------------
(***************************************************************************)
(* Proofs about what the server's pages show, and what they let one do.    *)
(* Console, for any number of tabs, agents, rows and updates on their way: *)
(* what a page that has caught up shows is what the tables say, and what   *)
(* it offers is done.  Sessions, for any number of browsers, scripts, accounts,    *)
(* sessions and tokens: who acts is who signed in, and may.                *)
(***************************************************************************)
EXTENDS Console, Sessions, ControlPlaneProofs

TableOf(K, R) == UNION {[S -> R] : S \in SUBSET K}

RowSet == [application : TableOf(AppId, AppNames), host : TableOf(HostId, Host),
           workload : SUBSET Workload, deployment : TableOf(DeploymentId, Deployment)]

Errand == [app_id : AppId, host_id : HostId, commit_sha : Commits]

DraftSet == [application : TableOf(AppId, AppNames), host : TableOf(HostId, Host)]

ConsoleTypeOK ==
    /\ stream \in Seq([rows : RowSet, beat : SUBSET HostId])
    /\ cache \in RowSet /\ callbacks \in 0 .. Capacity + 1
    /\ at \in [Tabs -> {"away", "loading", "loaded", "live", "drawing"}]
    /\ waiting \in [Tabs -> 0 .. Capacity] /\ lagged \in [Tabs -> BOOLEAN]
    /\ draft \in [Tabs -> DraftSet]
    /\ page \in [Tabs -> {Body(t) : t \in RowSet}]
    /\ redrawn \in [Tabs -> BOOLEAN]
    /\ link \in BOOLEAN /\ errands \subseteq Errand

\* the server has its connection while the link is up, and it is no agent
ServerStays == (link => conn[server] > 0) /\ server \notin DOMAIN agent_binding

\* applications keep their names as long as they are there; deployments are there for good
KeepsApps(t, u) == \A a \in DOMAIN t \cap DOMAIN u : t[a] = u[a]
Follows(t, u) == /\ KeepsApps(t.application, u.application)
                 /\ DOMAIN t.deployment \subseteq DOMAIN u.deployment

\* the cache, the updates on their way, and the tables themselves are one history
Point(i) == IF i = 0 THEN cache ELSE stream[i].rows
OneHistory ==
    /\ Point(Len(stream)) = Rows
    /\ \A i \in 1 .. Len(stream) : Follows(Point(i - 1), Point(i))

\* nothing has been lost of the applications but those removed
LosesApps(t, u) == DOMAIN u \subseteq DOMAIN t /\ KeepsApps(t, u)

NothingComes(b) == waiting[b] = 0 /\ ~lagged[b] /\ callbacks = 0

\* A page, or the rows read for one, are out of date only while something is coming that
\* will have them read again; a tab without a stream has not been redrawn over it.
Current(b) ==
    /\ at[b] = "live" /\ redrawn[b] /\ NothingComes(b) => SaysTheSame(page[b], Body(cache))
    /\ at[b] = "drawing" /\ NothingComes(b) =>
           draft[b].host = cache.host /\ LosesApps(draft[b].application, cache.application)
    /\ at[b] = "loaded" => ~redrawn[b]

ConsoleInv ==
    /\ TypeOK /\ IdsAreFresh /\ ConsoleTypeOK /\ ServerStays /\ OneHistory
    /\ \A b \in Tabs : Current(b)

-----------------------------------------------------------------------------
(* Tables and rows *)

LEMMA Tables == \A K, R, t : t \in TableOf(K, R) <=> IsTable(t, K, R)
BY DEF TableOf, IsTable

LEMMA RowsTyped == TypeOK => Rows \in RowSet
BY Tables DEF TypeOK, Rows, RowSet

LEMMA FiniteRows ==
    ASSUME NEW t \in RowSet
    PROVE  /\ IsFiniteSet(DOMAIN t.host) /\ IsFiniteSet(DOMAIN t.application)
           /\ IsFiniteSet(DOMAIN t.deployment) /\ IsFiniteSet(t.workload)
           /\ DOMAIN t.host \subseteq HostId
<1>1. IsFiniteSet(HostId) /\ IsFiniteSet(AppId) /\ IsFiniteSet(DeploymentId)
  BY BoundAssumption, FS_Interval DEF HostId, AppId, DeploymentId
<1>2. DOMAIN t.host \subseteq HostId /\ DOMAIN t.application \subseteq AppId
      /\ DOMAIN t.deployment \subseteq DeploymentId /\ t.workload \subseteq Workload
  BY Tables DEF RowSet, IsTable
<1>3. IsFiniteSet(Workload)
  <2> DEFINE P == HostId \X WorkloadNames
             f == [p \in P |-> [host_id |-> p[1], name |-> p[2]]]
  <2>1. IsFiniteSet(P) BY <1>1, DataAssumption, FS_Product
  <2>2. f \in Surjection(P, Workload)
    <3>1. \A w \in Workload : <<w.host_id, w.name>> \in P /\ f[<<w.host_id, w.name>>] = w
      BY DEF Workload
    <3> QED BY <3>1 DEF Surjection, Workload
  <2> QED BY <2>1, <2>2, FS_Surjection
<1> QED BY <1>1, <1>2, <1>3, FS_Subset

-----------------------------------------------------------------------------
(* The server and the agents are clients of the control plane *)

LEMMA TransactionsAreCalls ==
    TypeOK /\ ConsoleTypeOK /\ ServerStays /\ Transaction => Next /\ ServerStays'
<1> SUFFICES ASSUME TypeOK, ConsoleTypeOK, ServerStays, Transaction PROVE Next /\ ServerStays'
  OBVIOUS
<1>0. /\ server \in Identities /\ Agents \subseteq Identities /\ server \notin Agents
      /\ DOMAIN host \subseteq HostId /\ DOMAIN deployment \subseteq DeploymentId
      /\ conn \in [Identities -> 0 .. MaxConnections]
      /\ link => server \in Connected
      /\ UNCHANGED link
  BY ConsoleAssumption DEF ServerStays, Connected, IsTable, TypeOK, Transaction
<1>1. ASSUME link, OperatorReducer(server), UNCHANGED conn,
             DOMAIN agent_binding' \subseteq DOMAIN agent_binding
      PROVE  Next /\ ServerStays'
  BY <1>0, <1>1 DEF Next, ServerStays
<1>2. ASSUME NEW b \in Tabs, link, Press(b) PROVE Next /\ ServerStays'
  <2>1. CASE \E h \in DOMAIN page[b].hosts :
               /\ \/ OffersRemove(page[b].hosts[h]) /\ DeleteHost(server, h)
                  \/ OffersDrain(page[b].hosts[h]) /\ SetHostDraining(server, h, TRUE)
                  \/ OffersResume(page[b].hosts[h]) /\ SetHostDraining(server, h, FALSE)
               /\ UNCHANGED errands
    <3>1. PICK h : \/ DeleteHost(server, h)
                   \/ \E draining \in BOOLEAN : SetHostDraining(server, h, draining)
      BY <2>1
    <3>2. h \in HostId BY <1>0, <3>1 DEF DeleteHost, IsRemovable, SetHostDraining, IsDrainable
    <3>3. OperatorReducer(server) BY <3>1, <3>2 DEF OperatorReducer
    <3>4. UNCHANGED conn /\ DOMAIN agent_binding' \subseteq DOMAIN agent_binding
      BY <3>1 DEF DeleteHost, BindingsWithout, Restrict, SetHostDraining, presenceFrame
    <3> QED BY <1>1, <1>2, <3>3, <3>4
  <2>2. CASE \E d \in DOMAIN page[b].deployments :
               OffersRollback(page[b].deployments[d]) /\ Rollback(d)
    <3>1. PICK d : RollbackDeployment(server, d) BY <2>2 DEF Rollback
    <3>2. d \in DeploymentId BY <1>0, <3>1 DEF RollbackDeployment, IsRollbackable
    <3>3. OperatorReducer(server) BY <3>1, <3>2 DEF OperatorReducer
    <3>4. UNCHANGED <<conn, agent_binding>> BY <3>1 DEF RollbackDeployment, deploymentFrame
    <3> QED BY <1>1, <1>2, <3>3, <3>4
  <2> QED BY <1>2, <2>1, <2>2 DEF Press
<1>3. ASSUME NEW e \in errands, link, PutBack(e) PROVE Next /\ ServerStays'
  <2>1. e \in Errand BY DEF ConsoleTypeOK
  <2>2. OperatorReducer(server) BY <1>3, <2>1 DEF PutBack, OperatorReducer, Errand
  <2>3. UNCHANGED <<conn, agent_binding>> BY <1>3 DEF PutBack, QueueDeployment
  <2> QED BY <1>1, <1>3, <2>2, <2>3
<1>4. ASSUME link, Elsewhere PROVE Next /\ ServerStays'
  <2>1. OperatorReducer(server) BY <1>4 DEF Elsewhere, OperatorReducer
  <2>2. UNCHANGED <<conn, agent_binding>>
    BY <1>4 DEF Elsewhere, QueueDeployment, RegisterApplication, DeleteApplication
  <2> QED BY <1>1, <1>4, <2>1, <2>2
<1>5. ASSUME NEW a \in Agents, Agent(a) PROVE Next /\ ServerStays'
  <2>1. CASE ClientConnected(a) \/ ClientDisconnected(a)
    <3>1. a \in Identities /\ a # server BY <1>0
    <3>2. conn'[server] = conn[server] /\ UNCHANGED agent_binding
      BY <1>0, <2>1, <3>1 DEF ClientConnected, ClientDisconnected, presenceFrame
    <3> QED BY <1>0, <2>1, <3>1, <3>2 DEF Next, ServerStays
  <2>2. CASE /\ conn[a] > 0
             /\ \/ \E c \in Codes, n \in HostNames : EnrollHost(a, c, n)
                \/ \E d \in DeploymentId :
                      \/ StartDeployment(a, d)
                      \/ /\ d \in DOMAIN deployment /\ deployment[d].status \in InFlight
                         /\ \E ok \in BOOLEAN : FinishDeployment(a, d, ok)
    <3>1. AgentReducer(a) BY <2>2 DEF AgentReducer
    <3>2. UNCHANGED conn
      BY <2>2 DEF EnrollHost, StartDeployment, FinishDeployment, deploymentFrame
    <3>3. server \notin DOMAIN agent_binding'
      <4>1. CASE \E c \in Codes, n \in HostNames : EnrollHost(a, c, n)
        <5>1. DOMAIN agent_binding' = DOMAIN agent_binding \cup {a} /\ a # server
          BY <1>0, <4>1 DEF EnrollHost, Put
        <5> QED BY <5>1 DEF ServerStays
      <4>2. CASE \E d \in DeploymentId :
                   StartDeployment(a, d) \/ \E ok \in BOOLEAN : FinishDeployment(a, d, ok)
        BY <4>2 DEF StartDeployment, FinishDeployment, deploymentFrame, ServerStays
      <4> QED BY <2>2, <4>1, <4>2
    <3> QED BY <1>0, <2>2, <3>1, <3>2, <3>3 DEF Next, Connected, ServerStays
  <2> QED BY <1>5, <2>1, <2>2 DEF Agent
<1>6. ASSUME NEW a \in Agents, Beat(a) PROVE Next /\ ServerStays'
  <2>1. AgentReducer(a) /\ conn[a] > 0 BY <1>6 DEF Beat, AgentReducer
  <2>2. UNCHANGED <<conn, agent_binding>> BY <1>6 DEF Beat, Heartbeat
  <2> QED BY <1>0, <2>1, <2>2 DEF Next, Connected, ServerStays
<1> QED BY <1>2, <1>3, <1>4, <1>5, <1>6 DEF Transaction

\* roll backs ask for releases that the cache has
LEMMA ErrandsTyped == TypeOK /\ ConsoleTypeOK /\ Transaction => errands' \subseteq Errand
<1> SUFFICES ASSUME TypeOK, ConsoleTypeOK, Transaction PROVE errands' \subseteq Errand
  OBVIOUS
<1>1. ASSUME NEW d, Rollback(d) PROVE errands' \subseteq Errand
  <2>1. IsTable(cache.deployment, DeploymentId, Deployment)
    BY Tables DEF ConsoleTypeOK, RowSet
  <2>2. Priors(d) \subseteq 0 .. MaxDeployments /\ Priors(d) # {}
    BY <1>1, <2>1, BoundAssumption DEF Rollback, FindsPrior, Priors, IsTable, DeploymentId
  <2>3. Max(Priors(d)) \in Priors(d) BY <2>2, BoundAssumption, GreatestNumber DEF Max
  <2>4. /\ d \in DOMAIN cache.deployment /\ cache.deployment[d] \in Deployment
        /\ cache.deployment[Max(Priors(d))] \in Deployment
    BY <1>1, <2>1, <2>3 DEF Rollback, FindsPrior, Priors, IsTable
  <2> QED BY <1>1, <2>4 DEF Rollback, Errand, Deployment, ConsoleTypeOK
<1>2. ASSUME NEW b \in Tabs, Press(b) PROVE errands' \subseteq Errand
  BY <1>1, <1>2 DEF Press, ConsoleTypeOK
<1>3. ASSUME NEW e \in errands, PutBack(e) PROVE errands' \subseteq Errand
  BY <1>3 DEF PutBack, ConsoleTypeOK
<1> QED BY <1>2, <1>3 DEF Transaction, ConsoleTypeOK

\* an update of the tables never renames an application nor drops a deployment
LEMMA RowsFollow == TypeOK /\ IdsAreFresh /\ [Next]_vars => Follows(Rows, Rows')
<1> SUFFICES ASSUME TypeOK, IdsAreFresh, [Next]_vars PROVE Follows(Rows, Rows')
  OBVIOUS
<1> USE DEF Follows, KeepsApps, Rows
<1>1. CASE \E s \in Identities, name \in AppNames : RegisterApplication(s, name)
  <2>1. PICK name : application' = Put(application, next_id.app, name) /\ UNCHANGED deployment
    BY <1>1 DEF RegisterApplication
  <2>2. next_id.app \notin DOMAIN application BY DEF IdsAreFresh, TypeOK
  <2> QED BY <2>1, <2>2 DEF Put
<1>2. CASE \E s \in Identities, app \in AppId : DeleteApplication(s, app)
  BY <1>2 DEF DeleteApplication, Drop, Restrict
<1>3. CASE UNCHANGED application /\ DOMAIN deployment \subseteq DOMAIN deployment'
  BY <1>3
<1>4. ASSUME NEW s, NEW d, RollbackDeployment(s, d) \/ StartDeployment(s, d)
                           \/ (\E ok \in BOOLEAN : FinishDeployment(s, d, ok))
      PROVE  UNCHANGED application /\ DOMAIN deployment \subseteq DOMAIN deployment'
  BY <1>4 DEF RollbackDeployment, StartDeployment, FinishDeployment, deploymentFrame
<1>5. ASSUME NEW s, NEW app, NEW h, NEW commit, QueueDeployment(s, app, h, commit)
      PROVE  UNCHANGED application /\ DOMAIN deployment \subseteq DOMAIN deployment'
  BY <1>5 DEF QueueDeployment, Put
<1> QED BY <1>1, <1>2, <1>3, <1>4, <1>5, DeploymentSteps DEF SameDeployments
-----------------------------------------------------------------------------
(* What a page says *)

LEMMA SayingIsReflexive == \A t \in RowSet : SaysTheSame(Body(t), Body(t))
<1> SUFFICES ASSUME NEW t \in RowSet PROVE SaysTheSame(Body(t), Body(t)) OBVIOUS
<1>1. ASSUME NEW d \in DOMAIN Body(t).deployments
      PROVE  SameDeployment(Body(t).deployments[d], Body(t).deployments[d])
  <2>1. Body(t).deployments[d] = DeploymentRow(t, d) BY DEF Body
  <2>2. [DeploymentRow(t, d) EXCEPT !.app = DeploymentRow(t, d).app] = DeploymentRow(t, d)
    BY DEF DeploymentRow
  <2> QED BY <2>1, <2>2 DEF SameDeployment
<1> QED BY <1>1 DEF SaysTheSame

\* the removal of applications is all that nobody is told of
LEMMA LossesAreSilent ==
    ASSUME NEW t \in RowSet, NEW u \in RowSet, t.host = u.host, t.workload = u.workload,
           t.deployment = u.deployment, LosesApps(t.application, u.application)
    PROVE  SaysTheSame(Body(t), Body(u))
<1>1. /\ Body(t).hosts = Body(u).hosts /\ Body(t).online = Body(u).online
      /\ Body(t).workloads = Body(u).workloads /\ Body(t).failed = Body(u).failed
  BY DEF Body, HostRow
<1>2. [Body(t) EXCEPT !.deployments = <<>>] = [Body(u) EXCEPT !.deployments = <<>>]
  BY <1>1 DEF Body
<1>3. /\ DOMAIN Body(t).deployments = DOMAIN t.deployment
      /\ DOMAIN Body(u).deployments = DOMAIN t.deployment
  BY DEF Body
<1>4. ASSUME NEW d \in DOMAIN t.deployment
      PROVE  SameDeployment(Body(t).deployments[d], Body(u).deployments[d])
  <2> DEFINE app == t.deployment[d].app_id
  <2>1. /\ Body(t).deployments[d] = DeploymentRow(t, d)
        /\ Body(u).deployments[d] = DeploymentRow(u, d)
    BY <1>4 DEF Body
  <2>2. [DeploymentRow(t, d) EXCEPT !.app = DeploymentRow(u, d).app] = DeploymentRow(u, d)
    BY DEF DeploymentRow, NameOfHost
  <2>3. DeploymentRow(t, d).app = NameOfApp(t, app) /\ DeploymentRow(u, d).app = NameOfApp(u, app)
    BY DEF DeploymentRow
  <2>4. NameOfApp(t, app) \in {NameOfApp(u, app)} \cup
            (IF NameOfApp(u, app) = Removed THEN AppNames ELSE {})
    <3>1. IsTable(t.application, AppId, AppNames) BY Tables DEF RowSet
    <3> QED BY <3>1 DEF NameOfApp, LosesApps, KeepsApps, IsTable
  <2> QED BY <2>1, <2>2, <2>3, <2>4 DEF SameDeployment
<1> QED BY <1>2, <1>3, <1>4 DEF SaysTheSame

LEMMA SayingIsTransitive ==
    ASSUME NEW p \in {Body(s) : s \in RowSet}, NEW t \in RowSet, NEW u \in RowSet,
           SaysTheSame(p, Body(t)), SaysTheSame(Body(t), Body(u))
    PROVE  SaysTheSame(p, Body(u))
<1>1. /\ [p EXCEPT !.deployments = <<>>] = [Body(u) EXCEPT !.deployments = <<>>]
      /\ DOMAIN p.deployments = DOMAIN Body(u).deployments
      /\ DOMAIN p.deployments = DOMAIN Body(t).deployments
  BY DEF SaysTheSame
<1>2. ASSUME NEW d \in DOMAIN Body(u).deployments
      PROVE  SameDeployment(p.deployments[d], Body(u).deployments[d])
  <2> DEFINE x == p.deployments[d]
             y == Body(t).deployments[d]
             z == Body(u).deployments[d]
  <2>1. SameDeployment(x, y) /\ SameDeployment(y, z) BY <1>1, <1>2 DEF SaysTheSame
  <2>2. PICK s \in RowSet : p = Body(s) OBVIOUS
  <2>3. x = DeploymentRow(s, d) /\ y = DeploymentRow(t, d) /\ z = DeploymentRow(u, d)
    BY <1>1, <1>2, <2>2 DEF Body
  <2>4. y.app = NameOfApp(t, t.deployment[d].app_id) /\ IsTable(t.application, AppId, AppNames)
    BY <2>3, Tables DEF DeploymentRow, RowSet
  <2>5. y.app \in AppNames \cup {Removed} BY <2>4 DEF NameOfApp, IsTable
  <2>6. [x EXCEPT !.app = z.app] = z
    <3> HIDE DEF x, y, z
    <3>1. [x EXCEPT !.app = y.app] = y /\ [y EXCEPT !.app = z.app] = z
      BY <2>1 DEF SameDeployment
    <3>2. [[x EXCEPT !.app = y.app] EXCEPT !.app = z.app] = [x EXCEPT !.app = z.app]
      BY <2>3 DEF DeploymentRow
    <3> QED BY <3>1, <3>2
  <2>7. x.app \in {z.app} \cup (IF z.app = Removed THEN AppNames ELSE {})
    <3> HIDE DEF x, y, z
    <3> QED BY <2>1, <2>5 DEF SameDeployment
  <2> QED BY <2>6, <2>7 DEF SameDeployment
<1> QED BY <1>1, <1>2 DEF SaysTheSame

LEMMA NothingAddsUp == \A m, n \in Nat : m + n \in Nat /\ (m + n = 0 => m = 0 /\ n = 0)
OBVIOUS

\* an update of which no callback is made changes nothing but which applications are left
LEMMA UnheardIsSilent ==
    ASSUME cache \in RowSet, NEW new \in RowSet, NEW beat \in SUBSET HostId,
           Follows(cache, new), Heard(new, beat) = 0
    PROVE  /\ new.host = cache.host /\ new.workload = cache.workload
           /\ new.deployment = cache.deployment
           /\ LosesApps(cache.application, new.application)
<1>1. /\ IsFiniteSet(DOMAIN cache.host) /\ IsFiniteSet(DOMAIN new.host)
      /\ IsFiniteSet(DOMAIN new.application) /\ IsFiniteSet(DOMAIN new.deployment)
      /\ IsFiniteSet(DOMAIN cache.deployment)
      /\ IsFiniteSet(cache.workload) /\ IsFiniteSet(new.workload)
  BY FiniteRows
<1>2. IsFiniteSet(beat)
  <2>1. IsFiniteSet(HostId) BY BoundAssumption, FS_Interval DEF HostId
  <2> QED BY <2>1, FS_Subset
<1> DEFINE S1 == Inserted(cache.host, new.host)
           S2 == Deleted(cache.host, new.host)
           S3 == Updated(cache.host, new.host) \cup beat
           S4 == new.workload \ cache.workload
           S5 == cache.workload \ new.workload
           S6 == Inserted(cache.application, new.application)
           S7 == Inserted(cache.deployment, new.deployment)
           S8 == Updated(cache.deployment, new.deployment)
<1>3. /\ IsFiniteSet(S1) /\ IsFiniteSet(S2) /\ IsFiniteSet(S3) /\ IsFiniteSet(S4)
      /\ IsFiniteSet(S5) /\ IsFiniteSet(S6) /\ IsFiniteSet(S7) /\ IsFiniteSet(S8)
  <2>1. IsFiniteSet(Updated(cache.host, new.host)) BY <1>1, FS_Subset DEF Updated
  <2>2. IsFiniteSet(S3) BY <1>2, <2>1, FS_Union
  <2>3. IsFiniteSet(S1) /\ IsFiniteSet(S2) /\ IsFiniteSet(S6) /\ IsFiniteSet(S7)
    BY <1>1, FS_Subset DEF Inserted, Deleted
  <2>4. IsFiniteSet(S8) BY <1>1, FS_Subset DEF Updated
  <2> QED BY <1>1, <2>2, <2>3, <2>4, FS_Subset
<1>4. Cardinality(S1) + Cardinality(S2) + Cardinality(S3) + Cardinality(S4)
      + Cardinality(S5) + Cardinality(S6) + Cardinality(S7) + Cardinality(S8) = 0
  BY DEF Heard
<1> HIDE DEF S1, S2, S3, S4, S5, S6, S7, S8
<1>5. /\ Cardinality(S1) \in Nat /\ Cardinality(S2) \in Nat /\ Cardinality(S3) \in Nat
      /\ Cardinality(S4) \in Nat /\ Cardinality(S5) \in Nat /\ Cardinality(S6) \in Nat
      /\ Cardinality(S7) \in Nat /\ Cardinality(S8) \in Nat
  BY <1>3, FS_CardinalityType
<1>6. /\ S1 = {} /\ S2 = {} /\ S3 = {} /\ S4 = {} /\ S5 = {} /\ S6 = {} /\ S7 = {} /\ S8 = {}
  <2>1. /\ Cardinality(S1) = 0 /\ Cardinality(S2) = 0 /\ Cardinality(S3) = 0
        /\ Cardinality(S4) = 0 /\ Cardinality(S5) = 0 /\ Cardinality(S6) = 0
        /\ Cardinality(S7) = 0 /\ Cardinality(S8) = 0
    <3> DEFINE c(S) == Cardinality(S)
               hosts == c(S1) + c(S2) + c(S3)
               rest == hosts + c(S4) + c(S5)
    <3>1. hosts \in Nat /\ hosts + c(S4) \in Nat /\ rest \in Nat
          /\ rest + c(S6) \in Nat /\ rest + c(S6) + c(S7) \in Nat
      BY <1>5, NothingAddsUp
    <3>2. rest + c(S6) + c(S7) + c(S8) = 0 BY <1>4
    <3> HIDE DEF c
    <3>3. c(S8) = 0 /\ rest + c(S6) + c(S7) = 0 BY <1>5, <3>1, <3>2, NothingAddsUp DEF c
    <3>4. c(S7) = 0 /\ c(S6) = 0 /\ rest = 0 BY <1>5, <3>1, <3>3, NothingAddsUp DEF c
    <3>5. c(S5) = 0 /\ c(S4) = 0 /\ hosts = 0 BY <1>5, <3>1, <3>4, NothingAddsUp DEF c
    <3>6. c(S1) = 0 /\ c(S2) = 0 /\ c(S3) = 0 BY <1>5, <3>5, NothingAddsUp DEF c
    <3> QED BY <3>3, <3>4, <3>5, <3>6 DEF c
  <2> QED BY <1>3, <2>1, FS_EmptySet
<1> USE DEF S1, S2, S3, S4, S5, S6, S7, S8
<1>7. new.host = cache.host
  <2>1. DOMAIN new.host = DOMAIN cache.host /\ \A h \in DOMAIN cache.host : new.host[h] = cache.host[h]
    BY <1>6 DEF Inserted, Deleted, Updated
  <2>2. IsTable(new.host, HostId, Host) /\ IsTable(cache.host, HostId, Host)
    BY Tables DEF RowSet
  <2> QED BY <2>1, <2>2 DEF IsTable
<1>8. new.deployment = cache.deployment
  <2>1. DOMAIN new.deployment = DOMAIN cache.deployment
        /\ \A d \in DOMAIN cache.deployment : new.deployment[d] = cache.deployment[d]
    BY <1>6 DEF Inserted, Updated, Follows
  <2>2. IsTable(new.deployment, DeploymentId, Deployment)
        /\ IsTable(cache.deployment, DeploymentId, Deployment)
    BY Tables DEF RowSet
  <2> QED BY <2>1, <2>2 DEF IsTable
<1>9. LosesApps(cache.application, new.application)
  BY <1>6 DEF Inserted, Follows, LosesApps, KeepsApps
<1>10. new.workload = cache.workload BY <1>6
<1> QED BY <1>7, <1>8, <1>9, <1>10
-----------------------------------------------------------------------------
(* The invariant *)

LEMMA EmptyRowsTyped ==
    /\ Unread \in DraftSet
    /\ [application |-> EmptyTable, host |-> EmptyTable, workload |-> {},
        deployment |-> EmptyTable] \in RowSet
    /\ Blank \in {Body(t) : t \in RowSet}
<1>1. \A K, R : EmptyTable \in TableOf(K, R) BY Tables, EmptyTableTyped
<1>2. [application |-> EmptyTable, host |-> EmptyTable, workload |-> {},
       deployment |-> EmptyTable] \in RowSet
  BY <1>1 DEF RowSet
<1> QED BY <1>1, <1>2 DEF Unread, DraftSet, Blank

LEMMA ReleasedTyped ==
    ASSUME Released, conn \in [Identities -> 0 .. MaxConnections],
           since_sweep \in 0 .. REAP_INTERVAL, operator \subseteq Identities,
           workload \subseteq Workload, deploy_log_line \subseteq DeployLogLine
    PROVE  TypeOK /\ IdsAreFresh /\ server \notin DOMAIN agent_binding
<1>1. PICK a \in Agents, code \in Codes, n \in HostNames, p \in AppNames,
           commit \in [1 .. Earlier -> Commits] :
        /\ host = Put(EmptyTable, 1, [name |-> n, status |-> "Offline", cpu_pct |-> 0,
                                      silence |-> 0, workload_count |-> 0])
        /\ agent_binding = Put(EmptyTable, a, 1)
        /\ application = Put(EmptyTable, 1, p)
        /\ deployment = [d \in 1 .. Earlier |->
               [app_id |-> 1, host_id |-> 1, commit_sha |-> commit[d],
                status |-> "Succeeded", started |-> TRUE, finished |-> TRUE]]
        /\ enrollment_token = [k \in Codes |-> IF k = code THEN 1 ELSE NotConsumed]
        /\ next_id = [host |-> 2, app |-> 2, deployment |-> Earlier + 1]
  BY DEF Released
<1>2. /\ MaxHosts \in Nat \ {0} /\ MaxApps \in Nat \ {0} /\ MaxDeployments \in Nat
      /\ Earlier \in 0 .. MaxDeployments /\ 1 \in HostId /\ 1 \in AppId
      /\ 1 .. Earlier \subseteq DeploymentId /\ SilenceCap \in Nat
      /\ Agents \subseteq Identities /\ server \notin Agents
  BY BoundAssumption, ConsoleAssumption, TimeAssumption DEF HostId, AppId, DeploymentId
<1>3. IsTable(host, HostId, Host)
  <2>1. [name |-> n, status |-> "Offline", cpu_pct |-> 0, silence |-> 0,
         workload_count |-> 0] \in Host
    BY <1>2 DEF Host, HostStatus
  <2> QED BY <1>1, <1>2, <2>1 DEF Put, EmptyTable, IsTable
<1>4. /\ IsTable(agent_binding, Identities, HostId) /\ IsTable(application, AppId, AppNames)
      /\ IsTable(enrollment_token, Codes, HostId \cup {NotConsumed})
  BY <1>1, <1>2 DEF Put, EmptyTable, IsTable
<1>5. IsTable(deployment, DeploymentId, Deployment)
  BY <1>1, <1>2 DEF Deployment, DeployStatus, IsTable
<1>6. next_id \in [host : 1 .. MaxHosts + 1, app : 1 .. MaxApps + 1,
                   deployment : 1 .. MaxDeployments + 1]
  BY <1>1, <1>2
<1>7. TypeOK BY <1>3, <1>4, <1>5, <1>6 DEF TypeOK
<1>8. IdsAreFresh BY <1>1, <1>2 DEF IdsAreFresh, Put, EmptyTable
<1> QED BY <1>1, <1>2, <1>7, <1>8 DEF Put, EmptyTable

LEMMA ConsoleInvInit == ConsoleInit => ConsoleInv
<1> SUFFICES ASSUME ConsoleInit PROVE ConsoleInv OBVIOUS
<1>1. TypeOK /\ IdsAreFresh /\ server \notin DOMAIN agent_binding
  <2>1. \A K, R : IsTable(EmptyTable, K, R) BY EmptyTableTyped
  <2>2. conn \in [Identities -> 0 .. MaxConnections] /\ since_sweep \in 0 .. REAP_INTERVAL
    BY BoundAssumption, TimeAssumption, ConsoleAssumption DEF ConsoleInit
  <2>3. operator \subseteq Identities /\ workload \subseteq Workload
        /\ deploy_log_line \subseteq DeployLogLine
    BY ConsoleAssumption DEF ConsoleInit
  <2>4. CASE Fresh
    <3>1. next_id \in [host : 1 .. MaxHosts + 1, app : 1 .. MaxApps + 1,
                       deployment : 1 .. MaxDeployments + 1]
      BY <2>4, BoundAssumption DEF Fresh
    <3>2. IsTable(enrollment_token, Codes, HostId \cup {NotConsumed})
      BY <2>4 DEF Fresh, IsTable
    <3>3. TypeOK BY <2>1, <2>2, <2>3, <2>4, <3>1, <3>2 DEF Fresh, TypeOK
    <3> QED BY <2>4, <3>3 DEF Fresh, IdsAreFresh, EmptyTable
  <2>5. CASE Released BY <2>2, <2>3, <2>5, ReleasedTyped
  <2> QED BY <2>4, <2>5 DEF ConsoleInit
<1>3. ConsoleTypeOK
  <2>1. cache \in RowSet BY <1>1, RowsTyped DEF ConsoleInit
  <2>2. callbacks \in 0 .. Capacity + 1 /\ waiting \in [Tabs -> 0 .. Capacity]
    BY ConsoleAssumption DEF ConsoleInit
  <2>3. draft \in [Tabs -> DraftSet] /\ page \in [Tabs -> {Body(t) : t \in RowSet}]
    BY EmptyRowsTyped DEF ConsoleInit
  <2>4. stream \in Seq([rows : RowSet, beat : SUBSET HostId]) BY DEF ConsoleInit
  <2>5. /\ at \in [Tabs -> {"away", "loading", "loaded", "live", "drawing"}]
        /\ lagged \in [Tabs -> BOOLEAN] /\ redrawn \in [Tabs -> BOOLEAN]
        /\ link \in BOOLEAN /\ errands \subseteq Errand
    BY DEF ConsoleInit
  <2> QED BY <2>1, <2>2, <2>3, <2>4, <2>5 DEF ConsoleTypeOK
<1>4. ServerStays BY <1>1, ConsoleAssumption DEF ConsoleInit, ServerStays
<1>5. OneHistory BY DEF ConsoleInit, OneHistory, Point
<1>6. \A b \in Tabs : Current(b) BY DEF ConsoleInit, Current
<1> QED BY <1>1, <1>3, <1>4, <1>5, <1>6 DEF ConsoleInv

\* a tab that nothing happens to
LEMMA TabStays ==
    ASSUME NEW b \in Tabs, Current(b), UNCHANGED <<cache, callbacks>>,
           at'[b] = at[b], waiting'[b] = waiting[b], lagged'[b] = lagged[b],
           draft'[b] = draft[b], page'[b] = page[b], redrawn'[b] = redrawn[b]
    PROVE  Current(b)'
BY DEF Current, NothingComes

LEMMA TransactionKeeps == ConsoleInv /\ Transaction => ConsoleInv'
<1> SUFFICES ASSUME ConsoleInv, Transaction PROVE ConsoleInv' OBVIOUS
<1> DEFINE Update == [rows : RowSet, beat : SUBSET HostId]
<1>1. Next /\ ServerStays' BY TransactionsAreCalls DEF ConsoleInv
<1>2. TypeOK' /\ IdsAreFresh' /\ errands' \subseteq Errand
  BY <1>1, TypeStep, FreshStep, ErrandsTyped DEF ConsoleInv
<1>3. Follows(Rows, Rows') BY <1>1, RowsFollow DEF ConsoleInv
<1>4. UNCHANGED <<link, cache, callbacks, at, waiting, lagged, draft, page, redrawn>>
  BY DEF Transaction, tabVars
<1>5. PICK beat \in SUBSET HostId : Sent(beat)
  <2>1. CASE Sent({}) BY <2>1
  <2>2. CASE \E a \in Agents : Beat(a) /\ Sent({agent_binding[a]})
    <3>1. PICK a \in Agents : Beat(a) /\ Sent({agent_binding[a]}) BY <2>2
    <3>2. agent_binding[a] \in HostId
      BY <3>1 DEF Beat, Heartbeat, CallerHost, IsBound, ConsoleInv, TypeOK, IsTable
    <3> QED BY <3>1, <3>2
  <2> QED BY <2>1, <2>2 DEF Transaction
<1>6. stream \in Seq(Update) /\ Len(stream) \in Nat BY DEF ConsoleInv, ConsoleTypeOK
<1>7. CASE Rows' = Rows /\ UNCHANGED stream
  <2>1. OneHistory' BY <1>4, <1>7 DEF ConsoleInv, OneHistory, Point
  <2>2. ConsoleTypeOK' BY <1>2, <1>4, <1>7 DEF ConsoleInv, ConsoleTypeOK
  <2>3. \A b \in Tabs : Current(b)' BY <1>4, TabStays DEF ConsoleInv
  <2> QED BY <1>1, <1>2, <2>1, <2>2, <2>3 DEF ConsoleInv
<1>8. CASE stream' = Append(stream, [rows |-> Rows', beat |-> beat])
  <2>1. Rows' \in RowSet BY <1>2, Tables DEF TypeOK, Rows, RowSet
  <2>2. stream' \in Seq(Update) BY <1>6, <1>8, <2>1
  <2>3. /\ Len(stream') = Len(stream) + 1 /\ stream'[Len(stream) + 1].rows = Rows'
        /\ \A i \in 1 .. Len(stream) : stream'[i] = stream[i]
    BY <1>6, <1>8
  <2> DEFINE next(i) == IF i = 0 THEN cache' ELSE stream'[i].rows
  <2>4. next(Len(stream) + 1) = Rows' /\ \A i \in 0 .. Len(stream) : next(i) = Point(i)
    BY <1>4, <1>6, <2>3 DEF Point
  <2>5. ASSUME NEW i \in 1 .. Len(stream) + 1 PROVE Follows(next(i - 1), next(i))
    <3> HIDE DEF next
    <3>1. CASE i = Len(stream) + 1
      BY <1>3, <1>6, <2>4, <3>1 DEF ConsoleInv, OneHistory
    <3>2. CASE i \in 1 .. Len(stream)
      BY <1>6, <2>4, <3>2 DEF ConsoleInv, OneHistory
    <3> QED BY <1>6, <3>1, <3>2
  <2>6. OneHistory' BY <2>3, <2>4, <2>5 DEF OneHistory, Point
  <2>7. ConsoleTypeOK' BY <1>2, <1>4, <2>2 DEF ConsoleInv, ConsoleTypeOK
  <2>8. \A b \in Tabs : Current(b)' BY <1>4, TabStays DEF ConsoleInv
  <2> QED BY <1>1, <1>2, <2>6, <2>7, <2>8 DEF ConsoleInv
<1> QED BY <1>5, <1>7, <1>8 DEF Sent

LEMMA ApplyKeeps == ConsoleInv /\ Apply => ConsoleInv'
<1> SUFFICES ASSUME ConsoleInv, Apply PROVE ConsoleInv' OBVIOUS
<1> DEFINE new == Head(stream).rows
           beat == Head(stream).beat
<1>1. /\ UNCHANGED vars /\ UNCHANGED <<link, errands, at, waiting, lagged, draft, page, redrawn>>
      /\ stream # <<>> /\ callbacks = 0 /\ cache' = new /\ stream' = Tail(stream)
      /\ callbacks' = Min({Capacity + 1, Heard(new, beat)})
  BY DEF Apply, tabVars, serverVars
<1>2. TypeOK' /\ IdsAreFresh' /\ ServerStays' /\ Rows' = Rows
  BY <1>1 DEF ConsoleInv, TypeOK, IdsAreFresh, ServerStays, vars, Rows
<1>3. /\ stream \in Seq([rows : RowSet, beat : SUBSET HostId])
      /\ Head(stream) = stream[1] /\ Len(stream) \in Nat \ {0}
      /\ Len(stream') = Len(stream) - 1
      /\ stream' \in Seq([rows : RowSet, beat : SUBSET HostId])
      /\ \A i \in 1 .. Len(stream) - 1 : stream'[i] = stream[i + 1]
  BY <1>1 DEF ConsoleInv, ConsoleTypeOK
<1>4. new \in RowSet /\ beat \in SUBSET HostId
  <2> DEFINE Update == [rows : RowSet, beat : SUBSET HostId]
  <2>1. stream \in Seq(Update) /\ 1 \in 1 .. Len(stream) BY <1>3
  <2> HIDE DEF Update
  <2>2. stream[1] \in Update BY <2>1
  <2> QED BY <1>3, <2>2 DEF Update
<1>5. OneHistory'
  <2> DEFINE next(i) == IF i = 0 THEN cache' ELSE stream'[i].rows
  <2>1. \A i \in 0 .. Len(stream) - 1 : next(i) = Point(i + 1)
    BY <1>1, <1>3 DEF Point
  <2>2. next(Len(stream')) = Rows' BY <1>2, <1>3, <2>1 DEF ConsoleInv, OneHistory
  <2>3. ASSUME NEW i \in 1 .. Len(stream') PROVE Follows(next(i - 1), next(i))
    <3>1. next(i - 1) = Point((i + 1) - 1) /\ next(i) = Point(i + 1) /\ i + 1 \in 1 .. Len(stream)
      BY <1>3, <2>1
    <3> HIDE DEF next
    <3> QED BY <3>1 DEF ConsoleInv, OneHistory
  <2> QED BY <2>2, <2>3 DEF OneHistory, Point
<1>6. Heard(new, beat) \in Nat
  <2>1. cache \in RowSet BY DEF ConsoleInv, ConsoleTypeOK
  <2>2. /\ IsFiniteSet(DOMAIN cache.host) /\ IsFiniteSet(DOMAIN new.host)
        /\ IsFiniteSet(DOMAIN new.application) /\ IsFiniteSet(DOMAIN new.deployment)
        /\ IsFiniteSet(DOMAIN cache.deployment)
        /\ IsFiniteSet(cache.workload) /\ IsFiniteSet(new.workload)
    BY <1>4, <2>1, FiniteRows
  <2>3. IsFiniteSet(Updated(cache.host, new.host) \cup beat)
    <3>1. IsFiniteSet(beat)
      <4>1. IsFiniteSet(HostId) BY BoundAssumption, FS_Interval DEF HostId
      <4> QED BY <1>4, <4>1, FS_Subset
    <3>2. IsFiniteSet(Updated(cache.host, new.host)) BY <2>2, FS_Subset DEF Updated
    <3> QED BY <3>1, <3>2, FS_Union
  <2>4. /\ IsFiniteSet(Inserted(cache.host, new.host)) /\ IsFiniteSet(Deleted(cache.host, new.host))
        /\ IsFiniteSet(new.workload \ cache.workload) /\ IsFiniteSet(cache.workload \ new.workload)
        /\ IsFiniteSet(Inserted(cache.application, new.application))
        /\ IsFiniteSet(Inserted(cache.deployment, new.deployment))
        /\ IsFiniteSet(Updated(cache.deployment, new.deployment))
    BY <2>2, FS_Subset DEF Inserted, Deleted, Updated
  <2>5. /\ Cardinality(Inserted(cache.host, new.host)) \in Nat
        /\ Cardinality(Deleted(cache.host, new.host)) \in Nat
        /\ Cardinality(Updated(cache.host, new.host) \cup beat) \in Nat
        /\ Cardinality(new.workload \ cache.workload) \in Nat
        /\ Cardinality(cache.workload \ new.workload) \in Nat
        /\ Cardinality(Inserted(cache.application, new.application)) \in Nat
        /\ Cardinality(Inserted(cache.deployment, new.deployment)) \in Nat
        /\ Cardinality(Updated(cache.deployment, new.deployment)) \in Nat
    BY <2>3, <2>4, FS_CardinalityType
  <2> HIDE DEF new, beat
  <2> QED BY <2>5, NothingAddsUp DEF Heard
<1>7. callbacks' \in 0 .. Capacity + 1 /\ (callbacks' = 0 => Heard(new, beat) = 0)
  <2> DEFINE n == Heard(new, beat)
             S == {Capacity + 1, n}
  <2>1. n \in Nat /\ Capacity + 1 \in Nat \ {0} BY <1>6, ConsoleAssumption
  <2> HIDE DEF n
  <2>2. \E m \in S : \A k \in S : m =< k
    <3>1. CASE n <= Capacity + 1 BY <2>1, <3>1
    <3>2. CASE Capacity + 1 <= n BY <2>1, <3>2
    <3> QED BY <2>1, <3>1, <3>2
  <2>3. Min(S) \in S /\ \A k \in S : Min(S) =< k BY <2>2 DEF Min
  <2>4. Min(S) \in 0 .. Capacity + 1 /\ (Min(S) = 0 => n = 0) BY <2>1, <2>3, ConsoleAssumption
  <2> QED BY <1>1, <2>4 DEF n
<1>8. ConsoleTypeOK' BY <1>1, <1>3, <1>4, <1>7 DEF ConsoleInv, ConsoleTypeOK
<1>9. ASSUME NEW b \in Tabs PROVE Current(b)'
  <2>0. Current(b) /\ cache \in RowSet /\ page[b] \in {Body(t) : t \in RowSet}
    BY DEF ConsoleInv, ConsoleTypeOK
  <2>1. CASE callbacks' # 0 BY <1>1, <2>0, <2>1 DEF Current, NothingComes
  <2>2. CASE callbacks' = 0
    <3>1. Follows(cache, new)
      <4>1. Point(0) = cache /\ Point(1) = new /\ 1 \in 1 .. Len(stream)
        BY <1>3 DEF Point
      <4>2. Follows(Point(1 - 1), Point(1)) BY <4>1 DEF ConsoleInv, OneHistory
      <4> QED BY <4>1, <4>2
    <3>2. /\ cache.host = new.host /\ cache.workload = new.workload
          /\ cache.deployment = new.deployment /\ LosesApps(cache.application, new.application)
      BY <1>4, <1>7, <2>0, <2>2, <3>1, UnheardIsSilent
    <3>3. NothingComes(b)' = NothingComes(b) BY <1>1, <2>2 DEF NothingComes
    <3>4. ASSUME at[b] = "live", redrawn[b], NothingComes(b)
          PROVE  SaysTheSame(page[b], Body(new))
      <4>1. SaysTheSame(page[b], Body(cache)) BY <2>0, <3>4 DEF Current
      <4>2. SaysTheSame(Body(cache), Body(new)) BY <1>4, <2>0, <3>2, LossesAreSilent
      <4> QED BY <1>4, <2>0, <4>1, <4>2, SayingIsTransitive
    <3>5. ASSUME at[b] = "drawing", NothingComes(b)
          PROVE  draft[b].host = new.host /\ LosesApps(draft[b].application, new.application)
      BY <2>0, <3>2, <3>5 DEF Current, LosesApps, KeepsApps
    <3> QED BY <1>1, <2>0, <3>3, <3>4, <3>5 DEF Current
  <2> QED BY <2>1, <2>2
<1> QED BY <1>2, <1>5, <1>8, <1>9 DEF ConsoleInv
LEMMA AnnounceKeeps == ConsoleInv /\ Announce => ConsoleInv'
<1> SUFFICES ASSUME ConsoleInv, Announce PROVE ConsoleInv' OBVIOUS
<1> DEFINE listening == {b \in Tabs : at[b] \in {"live", "drawing"}}
<1>1. /\ UNCHANGED <<vars, link, errands, stream, cache, at, draft, page, redrawn>>
      /\ callbacks' = callbacks - 1 /\ callbacks > 0
      /\ waiting' = [b \in Tabs |-> IF b \in listening /\ waiting[b] < Capacity
                                        THEN waiting[b] + 1 ELSE waiting[b]]
      /\ lagged' = [b \in Tabs |-> lagged[b] \/ (b \in listening /\ waiting[b] = Capacity)]
  BY DEF Announce, serverVars
<1>2. TypeOK' /\ IdsAreFresh' /\ ServerStays' /\ OneHistory'
  BY <1>1 DEF ConsoleInv, TypeOK, IdsAreFresh, ServerStays, OneHistory, Point, Rows, vars
<1>3. \A b \in Tabs : waiting[b] \in 0 .. Capacity
  BY DEF ConsoleInv, ConsoleTypeOK
<1>4. ConsoleTypeOK'
  <2>1. callbacks' \in 0 .. Capacity + 1
    BY <1>1, ConsoleAssumption DEF ConsoleInv, ConsoleTypeOK
  <2>2. \A b \in Tabs : waiting[b] < Capacity => waiting[b] + 1 \in 0 .. Capacity
    BY <1>3, ConsoleAssumption
  <2>3. waiting' \in [Tabs -> 0 .. Capacity] /\ lagged' \in [Tabs -> BOOLEAN]
    BY <1>1, <1>3, <2>2 DEF ConsoleInv, ConsoleTypeOK
  <2> QED BY <1>1, <2>1, <2>3 DEF ConsoleInv, ConsoleTypeOK
<1>5. ASSUME NEW b \in Tabs PROVE Current(b)'
  <2>1. Current(b) BY DEF ConsoleInv
  <2>2. ASSUME at[b] \in {"live", "drawing"} PROVE waiting'[b] # 0 \/ lagged'[b]
    <3>1. CASE waiting[b] = Capacity BY <1>1, <2>2, <3>1
    <3>2. CASE waiting[b] < Capacity
      <4>1. waiting'[b] = waiting[b] + 1 BY <1>1, <2>2, <3>2
      <4> QED BY <1>3, <4>1
    <3> QED BY <1>3, <3>1, <3>2, ConsoleAssumption
  <2> QED BY <1>1, <2>1, <2>2 DEF Current, NothingComes
<1> QED BY <1>2, <1>4, <1>5 DEF ConsoleInv

\* a redraw whose rows were read before an update that went unheard says the same
LEMMA SnapshotsAreCurrent ==
    ASSUME NEW b \in Tabs, ConsoleTypeOK, draft[b].host = cache.host,
           LosesApps(draft[b].application, cache.application)
    PROVE  SaysTheSame(Snapshot(b), Body(cache))
<1> DEFINE t == [cache EXCEPT !.application = draft[b].application, !.host = draft[b].host]
<1>1. cache \in RowSet /\ draft[b] \in DraftSet BY DEF ConsoleTypeOK
<1>2. /\ t \in RowSet /\ t.host = cache.host /\ t.workload = cache.workload
      /\ t.deployment = cache.deployment /\ t.application = draft[b].application
  BY <1>1 DEF RowSet, DraftSet
<1> HIDE DEF t
<1>3. SaysTheSame(Body(t), Body(cache)) BY <1>1, <1>2, LossesAreSilent
<1> QED BY <1>3 DEF Snapshot, t

LEMMA TabKeeps ==
    ASSUME ConsoleInv, NEW b \in Tabs, Tab(b)
    PROVE  ConsoleInv'
<1>1. UNCHANGED vars /\ UNCHANGED <<link, errands, stream, cache, callbacks>>
  BY DEF Tab, Open, Load, Listen, Hear, Redraw, Break, Leave, feedVars, serverVars
<1>2. TypeOK' /\ IdsAreFresh' /\ ServerStays' /\ OneHistory'
  BY <1>1 DEF ConsoleInv, TypeOK, IdsAreFresh, ServerStays, OneHistory, Point, Rows, vars
<1>3. /\ cache \in RowSet /\ callbacks \in 0 .. Capacity + 1
      /\ at \in [Tabs -> {"away", "loading", "loaded", "live", "drawing"}]
      /\ waiting \in [Tabs -> 0 .. Capacity] /\ lagged \in [Tabs -> BOOLEAN]
      /\ draft \in [Tabs -> DraftSet]
      /\ page \in [Tabs -> {Body(t) : t \in RowSet}]
      /\ redrawn \in [Tabs -> BOOLEAN]
  BY DEF ConsoleInv, ConsoleTypeOK
<1>4. \A c \in Tabs : c # b =>
          /\ at'[c] = at[c] /\ waiting'[c] = waiting[c] /\ lagged'[c] = lagged[c]
          /\ draft'[c] = draft[c] /\ page'[c] = page[c] /\ redrawn'[c] = redrawn[c]
  BY <1>3 DEF Tab, Open, Load, Listen, Hear, Redraw, Break, Leave, ReadFirst, ForgetDraft, Detached
<1>5. \A c \in Tabs : c # b => Current(c)'
  BY <1>1, <1>4, TabStays DEF ConsoleInv
<1>6. [application |-> cache.application, host |-> cache.host] \in DraftSet
  BY <1>3 DEF RowSet, DraftSet
<1>7. Snapshot(b) \in {Body(t) : t \in RowSet}
  <2>1. [cache EXCEPT !.application = draft[b].application, !.host = draft[b].host] \in RowSet
    BY <1>3 DEF RowSet, DraftSet
  <2> QED BY <2>1 DEF Snapshot
<1>8. Unread \in DraftSet /\ Blank \in {Body(t) : t \in RowSet} /\ 0 \in 0 .. Capacity
  BY EmptyRowsTyped, ConsoleAssumption
<1>9. ConsoleTypeOK'
  <2>1. at' \in [Tabs -> {"away", "loading", "loaded", "live", "drawing"}]
    BY <1>3 DEF Tab, Open, Load, Listen, Hear, Redraw, Break, Leave
  <2>2. waiting' \in [Tabs -> 0 .. Capacity]
    <3>1. CASE Hear(b)
      <4>1. \/ lagged[b] \/ waiting[b] - 1 \in 0 .. Capacity
        BY <1>3, <3>1, ConsoleAssumption DEF Hear
      <4> QED BY <1>3, <3>1, <4>1 DEF Hear
    <3>2. CASE ~Hear(b)
      BY <1>3, <1>8, <3>2 DEF Tab, Open, Load, Listen, Redraw, Break, Leave, Detached
    <3> QED BY <3>1, <3>2
  <2>3. lagged' \in [Tabs -> BOOLEAN]
    BY <1>3 DEF Tab, Open, Load, Listen, Hear, Redraw, Break, Leave, Detached
  <2>4. draft' \in [Tabs -> DraftSet]
    BY <1>3, <1>6, <1>8
    DEF Tab, Open, Load, Listen, Hear, Redraw, Break, Leave, Detached, ReadFirst, ForgetDraft
  <2>5. page' \in [Tabs -> {Body(t) : t \in RowSet}]
    BY <1>3, <1>7, <1>8 DEF Tab, Open, Load, Listen, Hear, Redraw, Break, Leave
  <2>6. redrawn' \in [Tabs -> BOOLEAN]
    BY <1>3 DEF Tab, Open, Load, Listen, Hear, Redraw, Break, Leave
  <2> QED BY <1>1, <2>1, <2>2, <2>3, <2>4, <2>5, <2>6 DEF ConsoleInv, ConsoleTypeOK
<1>10. Current(b)'
  <2>0. Current(b) BY DEF ConsoleInv
  <2>1. CASE Open(b) BY <1>3, <2>1 DEF Open, Current
  <2>2. CASE Load(b) BY <1>3, <2>2 DEF Load, Current
  <2>3. CASE Listen(b) BY <1>3, <2>0, <2>3 DEF Listen, Current
  <2>4. CASE Hear(b)
    <3>1. at'[b] = "drawing" /\ draft'[b] = [application |-> cache.application, host |-> cache.host]
      BY <1>3, <2>4 DEF Hear, ReadFirst
    <3>2. LosesApps(cache.application, cache.application) BY DEF LosesApps, KeepsApps
    <3> QED BY <1>1, <3>1, <3>2 DEF Current
  <2>5. CASE Redraw(b)
    <3>1. /\ at[b] = "drawing" /\ at'[b] = "live" /\ page'[b] = Snapshot(b)
          /\ waiting' = waiting /\ lagged' = lagged
      BY <1>3, <2>5 DEF Redraw
    <3>2. NothingComes(b)' => NothingComes(b) BY <1>1, <3>1 DEF NothingComes
    <3>3. NothingComes(b) => SaysTheSame(Snapshot(b), Body(cache))
      BY <2>0, <3>1, SnapshotsAreCurrent DEF Current, ConsoleInv
    <3> QED BY <1>1, <3>1, <3>2, <3>3 DEF Current
  <2>6. CASE Break(b) BY <1>3, <2>6 DEF Break, Current
  <2>7. CASE Leave(b) BY <1>3, <2>7 DEF Leave, Current
  <2> QED BY <2>1, <2>2, <2>3, <2>4, <2>5, <2>6, <2>7 DEF Tab
<1> QED BY <1>2, <1>5, <1>9, <1>10 DEF ConsoleInv

LEMMA ServerKeeps == ConsoleInv /\ (LoseLink \/ GiveUp) => ConsoleInv'
<1> SUFFICES ASSUME ConsoleInv, LoseLink \/ GiveUp PROVE ConsoleInv' OBVIOUS
<1>1. /\ UNCHANGED <<stream, cache, callbacks, at, waiting, lagged, draft, page, redrawn>>
      /\ link' \in BOOLEAN /\ errands' \subseteq Errand
  BY DEF LoseLink, GiveUp, feedVars, tabVars, ConsoleInv, ConsoleTypeOK
<1>2. ConsoleTypeOK' BY <1>1 DEF ConsoleInv, ConsoleTypeOK
<1>3. \A b \in Tabs : Current(b)' BY <1>1, TabStays DEF ConsoleInv
<1>4. [Next]_vars /\ Rows' = Rows /\ ServerStays'
  <2>1. CASE GiveUp
    <3>1. UNCHANGED vars /\ UNCHANGED link BY <2>1 DEF GiveUp
    <3> QED BY <3>1 DEF vars, Rows, ServerStays, ConsoleInv
  <2>2. CASE LoseLink
    <3>1. ClientDisconnected(server) /\ link' = FALSE BY <2>2 DEF LoseLink
    <3>2. UNCHANGED <<host, presenceFrame>>
      BY <3>1 DEF ClientDisconnected, IsBound, ConsoleInv, ServerStays
    <3> QED BY <3>1, <3>2, ConsoleAssumption
            DEF Next, Rows, presenceFrame, ServerStays, ConsoleInv
  <2> QED BY <2>1, <2>2
<1>5. TypeOK' /\ IdsAreFresh' BY <1>4, TypeStep, FreshStep DEF ConsoleInv
<1>6. OneHistory' BY <1>1, <1>4 DEF ConsoleInv, OneHistory, Point
<1> QED BY <1>2, <1>3, <1>4, <1>5, <1>6 DEF ConsoleInv

LEMMA ConsoleInvStep == ConsoleInv /\ [ConsoleNext]_consoleVars => ConsoleInv'
<1>1. CASE UNCHANGED consoleVars
  BY <1>1, TabStays
  DEF consoleVars, vars, serverVars, feedVars, tabVars, ConsoleInv, TypeOK, IdsAreFresh, ServerStays,
      OneHistory, Point, Rows, ConsoleTypeOK
<1> QED BY <1>1, TransactionKeeps, ServerKeeps, ApplyKeeps, AnnounceKeeps, TabKeeps DEF ConsoleNext

LEMMA ConsoleInvHolds == ConsoleSpec => []ConsoleInv
BY ConsoleInvInit, ConsoleInvStep, PTL DEF ConsoleSpec

-----------------------------------------------------------------------------
(* The theorems *)

\* The server, pressed from pages that may be stale, and the agents do nothing to the
\* tables but what the control plane's reducers let any client do.
THEOREM ConsoleIsAClient == ConsoleSpec => [][Next]_vars
<1>1. ConsoleInv /\ [ConsoleNext]_consoleVars => [Next]_vars
  <2>1. ConsoleInv /\ Transaction => Next BY TransactionsAreCalls DEF ConsoleInv
  <2>2. Apply \/ Announce \/ GiveUp \/ (\E b \in Tabs : Tab(b)) \/ UNCHANGED consoleVars
            => UNCHANGED vars
    BY DEF Apply, Announce, GiveUp, Tab, Open, Load, Listen, Hear, Redraw, Break, Leave, consoleVars
  <2>3. LoseLink => Next BY ConsoleAssumption DEF LoseLink, Next
  <2> QED BY <2>1, <2>2, <2>3 DEF ConsoleNext
<1> QED BY <1>1, ConsoleInvHolds, PTL DEF ConsoleSpec

\* The tables, the client cache, the updates on their way, and every tab's rows and page
\* keep their types.
THEOREM ConsoleTypeCorrect == ConsoleSpec => [](TypeOK /\ ConsoleTypeOK)
<1>1. ConsoleInv => TypeOK /\ ConsoleTypeOK BY DEF ConsoleInv
<1> QED BY <1>1, ConsoleInvHolds, PTL

LEMMA OffersMatchTests == \A t : Body(t).hosts = [h \in DOMAIN t.host |-> HostRow(t, h)]
                             /\ Body(t).deployments = [d \in DOMAIN t.deployment |-> DeploymentRow(t, d)]
BY DEF Body

\* with nothing on its way the cache is the tables
LEMMA UpToDatePages ==
    ASSUME ConsoleInv, NEW b \in Tabs, UpToDate(b)
    PROVE  cache = Rows /\ SaysTheSame(page[b], Body(Rows))
<1>1. cache = Rows BY DEF UpToDate, ConsoleInv, OneHistory, Point
<1> QED BY <1>1 DEF UpToDate, ConsoleInv, Current, NothingComes

\* A page redrawn over its stream that has heard everything says what the tables say,
\* however small its receiver, however many changes it missed, whatever was applied
\* between the two readings of a redraw, and whether or not the server's link still is up.
THEOREM LiveMeansCurrent == ConsoleSpec => []LivePagesAreCurrent
<1>1. ConsoleInv => LivePagesAreCurrent BY UpToDatePages DEF LivePagesAreCurrent
<1> QED BY <1>1, ConsoleInvHolds, PTL

\* A button of an up-to-date page is a call whose every test passes: what the page says of
\* a host or a deployment is what the tables say, the cache has both, and the server stays
\* an operator.
THEOREM OffersAreHonoured == ConsoleSpec => []OffersAreAccepted
<1>1. ConsoleInv /\ server \in operator => OffersAreAccepted
  <2> SUFFICES ASSUME ConsoleInv, server \in operator, NEW b \in Tabs, UpToDate(b)
               PROVE  /\ RequireOperator(server)
                      /\ \A h \in DOMAIN page[b].hosts :
                            /\ OffersRemove(page[b].hosts[h]) => IsRemovable(h)
                            /\ OffersDrain(page[b].hosts[h]) \/ OffersResume(page[b].hosts[h])
                                   => IsDrainable(h)
                      /\ \A d \in DOMAIN page[b].deployments :
                            OffersRollback(page[b].deployments[d]) =>
                                /\ d \in DOMAIN cache.deployment
                                /\ FindsPrior(d) => IsRollbackable(d)
    BY DEF OffersAreAccepted
  <2>1. SaysTheSame(page[b], Body(Rows)) /\ cache = Rows BY UpToDatePages
  <2>2. /\ Body(Rows).hosts = [h \in DOMAIN host |-> HostRow(Rows, h)]
        /\ Body(Rows).deployments = [d \in DOMAIN deployment |-> DeploymentRow(Rows, d)]
    BY OffersMatchTests DEF Rows
  <2>3. page[b].hosts = Body(Rows).hosts
    <3>1. PICK t \in RowSet : page[b] = Body(t) BY DEF ConsoleInv, ConsoleTypeOK
    <3>2. /\ [page[b] EXCEPT !.deployments = <<>>].hosts = page[b].hosts
          /\ [Body(Rows) EXCEPT !.deployments = <<>>].hosts = Body(Rows).hosts
      BY <3>1 DEF Body
    <3> QED BY <2>1, <3>2 DEF SaysTheSame
  <2>4. ASSUME NEW d \in DOMAIN page[b].deployments
        PROVE  d \in DOMAIN deployment /\ page[b].deployments[d].status = deployment[d].status
    <3>1. d \in DOMAIN deployment
          /\ SameDeployment(page[b].deployments[d], DeploymentRow(Rows, d))
      BY <2>1, <2>2, <2>4 DEF SaysTheSame
    <3>2. PICK t \in RowSet : page[b] = Body(t) BY DEF ConsoleInv, ConsoleTypeOK
    <3>3. page[b].deployments[d] = DeploymentRow(t, d) BY <2>4, <3>2 DEF Body
    <3>4. [page[b].deployments[d] EXCEPT !.app = DeploymentRow(Rows, d).app].status
              = page[b].deployments[d].status
      BY <3>3 DEF DeploymentRow
    <3>5. DeploymentRow(Rows, d).status = deployment[d].status BY DEF DeploymentRow, Rows
    <3> QED BY <3>1, <3>4, <3>5 DEF SameDeployment
  <2>5. \A h \in DOMAIN host : HostRow(Rows, h).status = host[h].status
    BY DEF HostRow, Rows
  <2>6. cache.deployment = deployment BY <2>1 DEF Rows
  <2> QED BY <2>2, <2>3, <2>4, <2>5, <2>6
          DEF RequireOperator, IsRemovable, IsDrainable, IsRollbackable,
              OffersRemove, OffersDrain, OffersResume, OffersRollback
<1>2. ConsoleInit => server \in operator BY DEF ConsoleInit
<1>3. server \in operator /\ [Next]_vars => (server \in operator)'
  <2> SUFFICES ASSUME server \in operator, [Next]_vars PROVE server \in operator'
    OBVIOUS
  <2>1. CASE \E s \in Identities : ClientConnected(s) \/ ClientDisconnected(s)
    BY <2>1 DEF ClientConnected, ClientDisconnected, presenceFrame
  <2>2. ASSUME NEW s, OperatorReducer(s) PROVE server \in operator'
    BY <2>2 DEF OperatorReducer, ClaimInstance, CreateEnrollmentToken, RegisterApplication,
                SetHostDraining, presenceFrame, QueueDeployment, RollbackDeployment,
                deploymentFrame, DeleteApplication, DeleteHost
  <2>3. ASSUME NEW s, AgentReducer(s) PROVE UNCHANGED operator
    BY <2>3 DEF AgentReducer, EnrollHost, Heartbeat, StartDeployment, AppendLog,
                FinishDeployment, deploymentFrame
  <2>4. CASE ReapStaleHosts \/ Tick BY <2>4 DEF ReapStaleHosts, Tick, presenceFrame
  <2>5. CASE UNCHANGED vars BY <2>5 DEF vars
  <2> QED BY <2>1, <2>2, <2>3, <2>4, <2>5 DEF Next
<1>4. ConsoleSpec => [](server \in operator)
  BY <1>2, <1>3, ConsoleIsAClient, PTL DEF ConsoleSpec
<1> QED BY <1>1, <1>4, ConsoleInvHolds, PTL

-----------------------------------------------------------------------------
(* Who may operate the instance *)

Known == Names \cup TokenNames \cup {NoName}
Someone == [name : Known, admin : BOOLEAN, via_token : BOOLEAN, number : 0 .. MaxAccounts]
Request == [at : {"idle", "claiming", "issuing", "looking", "admitting", "acting", "verifying"},
            as : Someone]
AnyAction ==
    [op : {"add", "reset", "remove"}, name : Names] \cup [op : {"mint", "revoke"}, name : TokenNames]
        \cup [op : {"view"}, name : Page] \cup [op : {"password", "logout"}, name : {NoName}]
Session == [name : Names, number : 1 .. MaxAccounts]

AccessTyped ==
    /\ IsTable(users, Names, Account)
    /\ used \in [accounts : 0 .. MaxAccounts, sessions : 0 .. MaxSessions, tokens : 0 .. MaxTokens]
    /\ IsTable(sessions, 1 .. used.sessions, Session)
    /\ IsTable(api_tokens, 1 .. used.tokens, TokenNames)
    /\ held \in [Clients -> Nat]
    /\ offered \in [Browsers -> SUBSET AnyAction]
    /\ request \in [Clients -> Request]

Administered == \E n \in Members : users[n].admin

\* an instance that was claimed is not unclaimed again, since an administrator stays
Governed ==
    /\ IsClaimed => Administered
    /\ \A c \in Clients : request[c].at \notin {"idle", "claiming"} => IsClaimed

\* no session is anybody else's, and a token is revoked by its name
Credentials ==
    /\ \A b \in Browsers : held[b] <= used.sessions
    /\ \A b, c \in Browsers : b # c /\ held[b] # NoCredential => held[b] # held[c]
    /\ \A s, t \in DOMAIN api_tokens : api_tokens[s] = api_tokens[t] => s = t

\* a request is made by the holder of a session, in the name it was issued to, or with a
\* token, which is nobody's and makes nobody an administrator
Fits(c, r) ==
    /\ c \in Browsers =>
          /\ ~r.as.via_token
          /\ r.at \in {"admitting", "acting", "verifying"} /\ r.as.name # NoName =>
                held[c] \in DOMAIN sessions /\ sessions[held[c]].name = r.as.name
          /\ r.at \in {"issuing", "acting", "verifying"} => r.as.name \in Names
          /\ r.at = "issuing" => r.as.number # 0
    /\ c \in Scripts =>
          /\ r.at \in {"idle", "admitting", "acting"} /\ ~r.as.admin
          /\ r.at = "admitting" => r.as = Nobody
          /\ r.at = "acting" => r.as.via_token

Callers == \A c \in Clients : Fits(c, request[c])

AccessInv == AccessTyped /\ Governed /\ Credentials /\ Callers
LEMMA NobodyAsks ==
    /\ Idle \in Request /\ Idle.at = "idle" /\ Idle.as = Nobody
    /\ Nobody \in Someone /\ Nobody.name = NoName /\ ~Nobody.admin /\ ~Nobody.via_token
    /\ \A c \in Clients : Fits(c, Idle)
BY SessionsAssumption DEF Idle, Nobody, Request, Someone, Known, Fits, Clients

LEMMA SomeoneNamed ==
    ASSUME NEW n \in Names, NEW k \in 1 .. MaxAccounts,
           NEW as, as = [Nobody EXCEPT !.name = n, !.number = k]
    PROVE  as \in Someone /\ as.name = n /\ as.number # 0 /\ ~as.via_token
<1>1. MaxAccounts \in Nat BY SessionsAssumption
<1>2. k \in 0 .. MaxAccounts /\ k # 0 BY <1>1
<1> QED BY <1>2 DEF Nobody, Someone, Known

\* an instance without accounts is the only one that is not claimed
LEMMA ClaimedMeansMembers == AccessTyped => (IsClaimed <=> Members # {})
<1> SUFFICES ASSUME AccessTyped PROVE IsClaimed <=> Members # {}
  OBVIOUS
<1>1. users = [n \in Members |-> users[n]] BY DEF AccessTyped, IsTable, Members
<1>2. DOMAIN EmptyTable = {} BY DEF EmptyTable
<1>3. ASSUME Members = {} PROVE users = EmptyTable
  <2>1. users = [n \in {} |-> users[n]] BY <1>1, <1>3
  <2> QED BY <2>1 DEF EmptyTable
<1> QED BY <1>2, <1>3 DEF IsClaimed, Members

Counters == [accounts : 0 .. MaxAccounts, sessions : 0 .. MaxSessions, tokens : 0 .. MaxTokens]

\* the accounts may have changed, and an administrator is still among them
AccountsInOrder ==
    /\ IsTable(users', Names, Account)
    /\ used' \in Counters /\ used'.sessions = used.sessions /\ used'.tokens = used.tokens
    /\ IsClaimed => IsClaimed'
    /\ Administered => Administered'

LEMMA UntouchedAccounts == AccessTyped /\ UNCHANGED <<users, used>> => AccountsInOrder
BY DEF AccessTyped, AccountsInOrder, Counters, IsClaimed, Administered, Members

LEMMA AddedAccounts ==
    ASSUME AccessTyped, NEW n \in Names, NEW p \in Passwords, NEW admin \in BOOLEAN,
           n \notin Members, AddUser(n, p, admin)
    PROVE  /\ AccountsInOrder /\ IsClaimed' /\ Members' = Members \cup {n}
           /\ users'[n].admin = admin /\ \A m \in Members : users'[m] = users[m]
           /\ used.accounts + 1 \in 1 .. MaxAccounts
<1> DEFINE new == [password |-> p, admin |-> admin, number |-> used.accounts + 1]
<1>1. used \in Counters /\ IsTable(users, Names, Account) /\ MaxAccounts \in Nat
  BY SessionsAssumption DEF AccessTyped, Counters
<1>2. used.accounts + 1 \in 1 .. MaxAccounts BY <1>1 DEF AddUser, Counters
<1>3. new \in Account /\ new.admin = admin BY <1>2 DEF Account
<1>4. users' = Put(users, n, new) /\ used' = [used EXCEPT !.accounts = @ + 1] BY DEF AddUser
<1> HIDE DEF new
<1>5. /\ IsTable(users', Names, Account) /\ Members' = Members \cup {n} /\ users'[n] = new
      /\ \A m \in Members : users'[m] = users[m]
  <2>1. /\ IsTable(Put(users, n, new), Names, Account)
        /\ DOMAIN Put(users, n, new) = DOMAIN users \cup {n} /\ Put(users, n, new)[n] = new
        /\ \A m \in DOMAIN users : m # n => Put(users, n, new)[m] = users[m]
    <3>1. IsTable(users, Names, Account) /\ new \in Account BY <1>1, <1>3
    <3> QED BY <3>1 DEF IsTable, Put
  <2> QED BY <1>4, <2>1 DEF Members
<1>6. used' \in Counters /\ used'.sessions = used.sessions /\ used'.tokens = used.tokens
  BY <1>1, <1>2, <1>4 DEF Counters
<1>7. IsClaimed' BY <1>5 DEF IsClaimed, EmptyTable, Members
<1>8. Administered => Administered' BY <1>5 DEF Administered
<1> QED BY <1>2, <1>3, <1>5, <1>6, <1>7, <1>8 DEF AccountsInOrder

LEMMA ResetAccounts ==
    ASSUME AccessTyped, NEW n, NEW p \in Passwords, IsReset(n, p)
    PROVE  /\ AccountsInOrder /\ n \in Members /\ Members' = Members
           /\ \A m \in Members : users'[m].admin = users[m].admin /\ (m # n => users'[m] = users[m])
<1>1. n \in Members /\ users' = [users EXCEPT ![n].password = p] /\ used' = used
  BY DEF IsReset
<1>2. users \in [Members -> Account] /\ Members \subseteq Names
  BY DEF AccessTyped, IsTable, Members
<1>3. users[n] \in Account /\ [users[n] EXCEPT !.password = p] \in Account
      /\ [users[n] EXCEPT !.password = p].admin = users[n].admin
  BY <1>1, <1>2 DEF Account
<1>4. users' = [users EXCEPT ![n] = [users[n] EXCEPT !.password = p]]
  BY <1>1
<1>5. /\ users' \in [Members -> Account] /\ Members' = Members
      /\ \A m \in Members : users'[m].admin = users[m].admin /\ (m # n => users'[m] = users[m])
  BY <1>1, <1>2, <1>3, <1>4 DEF Members
<1>6. IsClaimed' BY <1>1, <1>5 DEF IsClaimed, EmptyTable, Members
<1>7. Administered => Administered' BY <1>5 DEF Administered
<1>8. IsTable(users', Names, Account) BY <1>2, <1>5 DEF IsTable, Members
<1> QED BY <1>1, <1>5, <1>6, <1>7, <1>8 DEF AccountsInOrder, AccessTyped, Counters

LEMMA RemovedAccounts ==
    ASSUME AccessTyped, Administered, NEW n, IsRemoved(n)
    PROVE  /\ AccountsInOrder /\ n \in Members /\ Members' = Members \ {n}
           /\ \A m \in Members : m # n => users'[m] = users[m]
<1>1. /\ n \in Members /\ users' = Drop(users, n) /\ used' = used
      /\ users[n].admin => \E m \in Members \ {n} : users[m].admin
  BY DEF IsRemoved, MayRemove
<1>2. /\ IsTable(users', Names, Account) /\ Members' = Members \ {n}
      /\ \A m \in Members : m # n => users'[m] = users[m]
  BY <1>1, RestrictTable DEF Drop, AccessTyped, Members
<1>3. Administered' BY <1>1, <1>2 DEF Administered
<1>4. IsClaimed' BY <1>3 DEF Administered, IsClaimed, EmptyTable, Members
<1> QED BY <1>1, <1>2, <1>3, <1>4 DEF AccountsInOrder, AccessTyped, Counters

-----------------------------------------------------------------------------
\* a request that moves on, to r, and may have changed accounts
LEMMA RequestGoesOn ==
    ASSUME AccessInv, NEW c \in Clients, NEW r \in Request, Step(c, r), Fits(c, r),
           AccountsInOrder, UNCHANGED <<sessions, api_tokens, held>>,
           offered' \in [Browsers -> SUBSET AnyAction],
           IsClaimed' => Administered',
           r.at \notin {"idle", "claiming"} => IsClaimed'
    PROVE  AccessInv'
<1>1. AccessTyped /\ Governed /\ Credentials /\ Callers BY DEF AccessInv
<1>2. /\ request' \in [Clients -> Request] /\ request'[c] = r
      /\ \A x \in Clients : x # c => request'[x] = request[x]
  BY <1>1 DEF AccessTyped, Step
<1>3. AccessTyped' BY <1>1, <1>2 DEF AccessTyped, AccountsInOrder, Counters
<1>4. Governed' BY <1>1, <1>2 DEF Governed, AccountsInOrder
<1>5. Credentials' BY <1>1 DEF Credentials, AccountsInOrder
<1>6. Callers' BY <1>1, <1>2 DEF Callers, Fits
<1> QED BY <1>3, <1>4, <1>5, <1>6 DEF AccessInv

\* the same, when the request ends
LEMMA RequestEnds ==
    ASSUME AccessInv, NEW c \in Clients, Done(c), AccountsInOrder,
           UNCHANGED <<sessions, api_tokens, held>>,
           offered' \in [Browsers -> SUBSET AnyAction], IsClaimed' => Administered'
    PROVE  AccessInv'
BY NobodyAsks, RequestGoesOn DEF Done

-----------------------------------------------------------------------------
LEMMA WhatIsAsked ==
    ASSUME AccessTyped
    PROVE  /\ \A c \in Clients : Asks(c) \subseteq AnyAction
           /\ \A p \in Page, as \in Someone : Offers(p, as) \subseteq AnyAction
           /\ \A c \in Scripts : View("team") \notin Asks(c) /\ View("tokens") \notin Asks(c)
                                    /\ Action("logout", NoName) \notin Asks(c)
<1>1. Members \subseteq Names /\ Range(api_tokens) \subseteq TokenNames
  BY DEF AccessTyped, IsTable, Members, Range
<1>2. Sidebar \subseteq AnyAction /\ OwnPassword \in AnyAction
  BY DEF Sidebar, View, OwnPassword, Action, AnyAction
<1>3. \A c \in Clients : Asks(c) \subseteq AnyAction
  BY <1>2 DEF Asks, Clients, AccessTyped, Action, AnyAction
<1>4. ASSUME NEW as \in Someone PROVE TeamPage(as) \subseteq AnyAction
  <2>1. \A op \in {"add", "reset", "remove"}, n \in Names : Action(op, n) \in AnyAction
    BY DEF Action, AnyAction
  <2>2. ASSUME NEW a \in TeamPage(as) PROVE a \in AnyAction
    <3>1. a = OwnPassword \/ \E op \in {"add", "reset", "remove"}, n \in Names : a = Action(op, n)
      BY <1>1 DEF TeamPage
    <3> QED BY <1>2, <2>1, <3>1
  <2> QED BY <2>2
<1>5. ASSUME NEW as \in Someone PROVE TokensPage(as) \subseteq AnyAction
  <2>1. \A op \in {"mint", "revoke"}, t \in TokenNames : Action(op, t) \in AnyAction
    BY DEF Action, AnyAction
  <2>2. ASSUME NEW a \in TokensPage(as) PROVE a \in AnyAction
    <3>1. \E op \in {"mint", "revoke"}, t \in TokenNames : a = Action(op, t)
      BY <1>1, <2>2 DEF TokensPage
    <3> QED BY <2>1, <3>1
  <2> QED BY <2>2
<1>6. \A p \in Page, as \in Someone : Offers(p, as) \subseteq AnyAction
  BY <1>2, <1>4, <1>5 DEF Offers
<1>7. \A c \in Scripts : View("team") \notin Asks(c) /\ View("tokens") \notin Asks(c)
                            /\ Action("logout", NoName) \notin Asks(c)
  BY SessionsAssumption DEF Asks, View, Action, OwnPassword
<1> QED BY <1>3, <1>6, <1>7

\* who is asked about, at each stage of a request
LEMMA Stages ==
    ASSUME AccessInv, NEW c \in Clients
    PROVE  /\ request[c] \in Request /\ request[c].as \in Someone
           /\ (c \in Browsers) # (c \in Scripts)
           /\ request[c].at \in {"claiming", "issuing", "looking", "verifying"} => c \in Browsers
           /\ request[c].at \notin {"idle", "claiming"} => IsClaimed /\ Administered
           /\ IsClaimed => Administered
           /\ offered \in [Browsers -> SUBSET AnyAction]
BY SessionsAssumption
   DEF AccessInv, AccessTyped, Callers, Fits, Governed, Clients, Request

LEMMA SigningIn ==
    ASSUME AccessInv, NEW c \in Clients, Setup(c) \/ Claim(c) \/ Login(c) \/ Ask(c)
    PROVE  AccessInv'
<1>0. AccessTyped BY DEF AccessInv
<1>1. CASE Setup(c)
  <2> DEFINE r == [Idle EXCEPT !.at = "claiming"]
  <2>1. r \in Request /\ Fits(c, r) /\ r.at = "claiming"
    BY <1>1, NobodyAsks, Stages DEF Setup, Fits, Request, Idle
  <2>2. AccountsInOrder /\ (IsClaimed' => Administered')
    BY <1>0, <1>1, UntouchedAccounts, Stages DEF Setup, AccountsInOrder, IsClaimed
  <2> QED BY <1>1, <2>1, <2>2, Stages, RequestGoesOn DEF Setup
<1>2. CASE Claim(c)
  <2>1. PICK n \in Names, p \in Passwords :
            IF n \in Members THEN Done(c) /\ UNCHANGED <<users, used>>
            ELSE /\ AddUser(n, p, TRUE)
                 /\ Step(c, [Idle EXCEPT !.at = "issuing", !.as =
                        [Nobody EXCEPT !.name = n, !.number = used.accounts + 1]])
    BY <1>2 DEF Claim
  <2>2. CASE n \in Members
    <3>1. AccountsInOrder /\ (IsClaimed' => Administered')
      BY <1>0, <2>1, <2>2, UntouchedAccounts, Stages DEF AccountsInOrder, IsClaimed
    <3> QED BY <1>2, <2>1, <2>2, <3>1, Stages, RequestEnds DEF Claim
  <2>3. CASE n \notin Members
    <3> DEFINE as == [Nobody EXCEPT !.name = n, !.number = used.accounts + 1]
               r == [Idle EXCEPT !.at = "issuing", !.as = as]
    <3>1. /\ AccountsInOrder /\ IsClaimed' /\ Members' = Members \cup {n} /\ users'[n].admin
          /\ used.accounts + 1 \in 1 .. MaxAccounts
      BY <1>0, <2>1, <2>3, AddedAccounts
    <3>2. Administered' BY <3>1 DEF Administered
    <3>3. /\ as \in Someone /\ as.name = n /\ as.number # 0 /\ ~as.via_token
      BY <3>1, SomeoneNamed
    <3>4. r.at = "issuing" /\ r.as = as /\ r \in Request
      BY <3>3, NobodyAsks DEF Request, Idle
    <3>5. Fits(c, r)
      BY <1>2, <3>3, <3>4, Stages DEF Fits, Claim
    <3>6. Step(c, r) BY <2>1, <2>3
    <3> HIDE DEF r, as
    <3> QED BY <1>2, <3>1, <3>2, <3>4, <3>5, <3>6, Stages, RequestGoesOn DEF Claim
  <2> QED BY <2>2, <2>3
<1>3. CASE Login(c)
  <2>0. AccountsInOrder /\ IsClaimed' /\ Administered'
    BY <1>0, <1>3, UntouchedAccounts, Stages DEF Login, AccountsInOrder
  <2>1. PICK n \in Members :
            \/ Done(c)
            \/ Step(c, [Idle EXCEPT !.at = "issuing", !.as =
                   [Nobody EXCEPT !.name = n, !.number = users[n].number]])
    BY <1>3 DEF Login
  <2>2. CASE Done(c) BY <1>3, <2>0, <2>2, Stages, RequestEnds DEF Login
  <2>3. CASE ~Done(c)
    <3> DEFINE as == [Nobody EXCEPT !.name = n, !.number = users[n].number]
               r == [Idle EXCEPT !.at = "issuing", !.as = as]
    <3>1. n \in Names /\ users[n].number \in 1 .. MaxAccounts
      BY <1>0 DEF AccessTyped, IsTable, Members, Account
    <3> DEFINE k == users[n].number
    <3>2. k \in 0 .. MaxAccounts /\ k # 0
      <4>1. k \in 1 .. MaxAccounts /\ MaxAccounts \in Nat BY <3>1, SessionsAssumption
      <4> HIDE DEF k
      <4> QED BY <4>1
    <3> HIDE DEF k
    <3>3. /\ as \in Someone /\ as.name = n /\ as.number # 0 /\ ~as.via_token
      BY <3>1, <3>2 DEF k, Nobody, Someone, Known
    <3> USE DEF k
    <3>4. r.at = "issuing" /\ r.as = as /\ r \in Request
      BY <3>3, NobodyAsks DEF Request, Idle
    <3>5. Fits(c, r)
      BY <1>3, <3>1, <3>3, <3>4, Stages DEF Fits, Login
    <3>6. Step(c, r) BY <2>1, <2>3
    <3> HIDE DEF r, as
    <3> QED BY <1>3, <2>0, <3>4, <3>5, <3>6, Stages, RequestGoesOn DEF Login
  <2> QED BY <2>2, <2>3
<1>4. CASE Ask(c)
  <2> DEFINE r == [Idle EXCEPT !.at = IF c \in Browsers THEN "looking" ELSE "admitting"]
  <2>1. r \in Request /\ r.as = Nobody
        /\ r.at = IF c \in Browsers THEN "looking" ELSE "admitting"
    BY NobodyAsks DEF Request, Idle
  <2>2. Fits(c, r) BY <2>1, NobodyAsks, Stages DEF Fits
  <2>3. AccountsInOrder /\ IsClaimed' /\ Administered'
    BY <1>0, <1>4, UntouchedAccounts, Stages DEF Ask, AccountsInOrder
  <2>4. Step(c, r) BY <1>4 DEF Ask
  <2> HIDE DEF r
  <2> QED BY <1>4, <2>1, <2>2, <2>3, <2>4, Stages, RequestGoesOn DEF Ask
<1> QED BY <1>1, <1>2, <1>3, <1>4

LEMMA LettingIn ==
    ASSUME AccessInv, NEW c \in Clients, Look(c) \/ Admit(c)
    PROVE  AccessInv'
<1>0. AccessTyped /\ Fits(c, request[c]) BY DEF AccessInv, Callers
<1>1. AccountsInOrder /\ IsClaimed' /\ Administered'
  BY <1>0, UntouchedAccounts, Stages DEF Look, Admit, AccountsInOrder
<1>2. ASSUME NEW r \in Request, Fits(c, r), Step(c, r) PROVE AccessInv'
  BY <1>1, <1>2, Stages, RequestGoesOn DEF Look, Admit
<1>3. CASE Look(c)
  <2> DEFINE own == [Nobody EXCEPT !.name = sessions[held[c]].name,
                                   !.number = sessions[held[c]].number]
             as == IF held[c] \in DOMAIN sessions THEN own ELSE Nobody
             r == [request[c] EXCEPT !.at = "admitting", !.as = as]
  <2>1. c \in Browsers /\ request[c] \in Request BY <1>3, Stages DEF Look
  <2>2. held[c] \in DOMAIN sessions => sessions[held[c]] \in Session
    BY <1>0 DEF AccessTyped, IsTable
  <2>3. held[c] \in DOMAIN sessions =>
            own \in Someone /\ own.name = sessions[held[c]].name /\ ~own.via_token
    <3> DEFINE n == sessions[held[c]].name
               k == sessions[held[c]].number
    <3> SUFFICES ASSUME held[c] \in DOMAIN sessions
                 PROVE  own \in Someone /\ own.name = n /\ ~own.via_token
      OBVIOUS
    <3>1. n \in Names /\ k \in 1 .. MaxAccounts BY <2>2 DEF Session
    <3>2. own = [Nobody EXCEPT !.name = n, !.number = k] OBVIOUS
    <3> HIDE DEF n, k, own
    <3> QED BY <3>1, <3>2, SomeoneNamed
  <2>4. /\ as \in Someone /\ ~as.via_token
        /\ as.name # NoName => held[c] \in DOMAIN sessions /\ sessions[held[c]].name = as.name
    BY <2>3, NobodyAsks
  <2>5. Step(c, r) BY <1>3 DEF Look
  <2> HIDE DEF as
  <2>6. r \in Request /\ r.at = "admitting" /\ r.as = as BY <2>1, <2>4 DEF Request
  <2> HIDE DEF r
  <2>7. Fits(c, r) BY <2>1, <2>4, <2>6, Stages DEF Fits
  <2> QED BY <1>2, <2>5, <2>6, <2>7
<1>4. CASE Admit(c)
  <2>0. request[c] \in Request /\ request[c].at = "admitting" /\ Members \subseteq Names
    BY <1>0, <1>4, Stages DEF Admit, AccessTyped, IsTable, Members
  <2>1. CASE StillMember(request[c].as.name)
    <3> DEFINE n == request[c].as.name
               r == [request[c] EXCEPT !.at = "acting", !.as.admin = IsAdmin(n)]
    <3>1. n \in Names /\ n # NoName
      BY <2>0, <2>1, SessionsAssumption DEF StillMember
    <3>2. c \in Browsers BY <1>0, <2>0, <3>1, NobodyAsks, Stages DEF Fits
    <3>3. IsAdmin(n) \in BOOLEAN BY <1>0 DEF IsAdmin, AccessTyped, IsTable, Members, Account
    <3>4. Step(c, r) BY <1>4, <2>1 DEF Admit
    <3>5. /\ r \in Request /\ r.at = "acting" /\ r.as.name = n
          /\ r.as.via_token = request[c].as.via_token
      BY <2>0, <3>3 DEF Request, Someone
    <3>6. Fits(c, r) BY <1>0, <2>0, <3>1, <3>2, <3>5, Stages DEF Fits
    <3> HIDE DEF r
    <3> QED BY <1>2, <3>4, <3>5, <3>6
  <2>2. CASE ~StillMember(request[c].as.name) /\ c \in Scripts /\ held[c] \in DOMAIN api_tokens
    <3> DEFINE as == [Nobody EXCEPT !.name = api_tokens[held[c]], !.via_token = TRUE]
               r == [request[c] EXCEPT !.at = "acting", !.as = as]
    <3>1. api_tokens[held[c]] \in TokenNames BY <1>0, <2>2 DEF AccessTyped, IsTable
    <3>2. as \in Someone /\ as.via_token /\ ~as.admin
      BY <3>1, NobodyAsks DEF Someone, Known, Nobody
    <3>3. Step(c, r) BY <1>4, <2>2 DEF Admit
    <3> HIDE DEF as
    <3>4. r \in Request /\ r.at = "acting" /\ r.as = as BY <2>0, <3>2 DEF Request
    <3> HIDE DEF r
    <3>5. Fits(c, r) BY <2>2, <3>2, <3>4, Stages DEF Fits
    <3> QED BY <1>2, <3>3, <3>4, <3>5
  <2>3. CASE Done(c)
    BY <1>1, <1>4, <2>3, Stages, RequestEnds DEF Admit
  <2> QED BY <1>4, <2>1, <2>2, <2>3 DEF Admit
<1> QED BY <1>3, <1>4

\* what an accepted request on the team page does to the accounts
LEMMA TeamChange ==
    ASSUME AccessInv, NEW c \in Clients, TeamAction(c)
    PROVE  AccountsInOrder /\ (IsClaimed' => Administered')
<1>0. AccessTyped /\ Administered /\ Asks(c) \subseteq AnyAction
  BY Stages, WhatIsAsked DEF AccessInv, TeamAction
<1>1. AccountsInOrder
  <2>1. PICK a \in Asks(c) :
            /\ a.op \in {"add", "reset", "remove"}
            /\ \/ a.op = "add" /\ \E p \in Passwords, admin \in BOOLEAN : IsAdded(a.name, p, admin)
               \/ a.op = "reset" /\ \E p \in Passwords : IsReset(a.name, p)
               \/ a.op = "remove" /\ IsRemoved(a.name)
               \/ UNCHANGED <<users, used>>
    BY DEF TeamAction
  <2>2. a.name \in Names BY <1>0, <2>1 DEF AnyAction
  <2>3. ASSUME NEW p \in Passwords, NEW admin \in BOOLEAN, IsAdded(a.name, p, admin)
        PROVE  AccountsInOrder
    BY <1>0, <2>2, <2>3, AddedAccounts DEF IsAdded
  <2> QED BY <1>0, <2>1, <2>3, ResetAccounts, RemovedAccounts, UntouchedAccounts
<1> QED BY <1>0, <1>1 DEF AccountsInOrder

LEMMA Acting ==
    ASSUME AccessInv, NEW c \in Clients,
           TeamAction(c) \/ ProvePassword(c) \/ ChangePassword(c) \/ ViewPage(c)
    PROVE  AccessInv'
<1>0. AccessTyped /\ Fits(c, request[c]) /\ request[c] \in Request /\ request[c].as \in Someone
  BY Stages DEF AccessInv, Callers
<1>1. CASE TeamAction(c)
  BY <1>1, TeamChange, Stages, RequestEnds DEF TeamAction
<1>2. CASE ProvePassword(c)
  <2> DEFINE r == [request[c] EXCEPT !.at = "verifying"]
  <2>1. AccountsInOrder /\ IsClaimed' /\ Administered'
    BY <1>0, <1>2, UntouchedAccounts, Stages DEF ProvePassword, AccountsInOrder
  <2>2. CASE Done(c)
    BY <1>2, <2>1, <2>2, Stages, RequestEnds DEF ProvePassword
  <2>3. CASE ~Done(c)
    <3>1. Accepted(request[c].as, OwnPassword) /\ Step(c, r) /\ request[c].at = "acting"
      BY <1>2, <2>3 DEF ProvePassword
    <3>2. ~request[c].as.via_token
      BY <3>1 DEF Accepted, OwnPassword, Action
    <3>3. c \in Browsers BY <1>0, <3>1, <3>2, Stages DEF Fits
    <3>4. r \in Request /\ r.at = "verifying" /\ r.as = request[c].as BY <1>0 DEF Request
    <3>5. Fits(c, r) BY <1>0, <3>1, <3>3, <3>4, Stages DEF Fits
    <3> HIDE DEF r
    <3> QED BY <1>2, <2>1, <3>1, <3>4, <3>5, Stages, RequestGoesOn DEF ProvePassword
  <2> QED BY <2>2, <2>3
<1>3. CASE ChangePassword(c)
  <2>1. Administered BY <1>3, Stages DEF ChangePassword
  <2>2. AccountsInOrder
    BY <1>0, <1>3, ResetAccounts, UntouchedAccounts DEF ChangePassword
  <2> QED BY <1>3, <2>1, <2>2, Stages, RequestEnds DEF ChangePassword, AccountsInOrder
<1>4. CASE ViewPage(c)
  <2>1. AccountsInOrder /\ IsClaimed' /\ Administered'
    BY <1>0, <1>4, UntouchedAccounts, Stages DEF ViewPage, AccountsInOrder
  <2>2. PICK p \in Page :
            View(p) \in Asks(c) /\ offered' = [offered EXCEPT ![c] = Offers(p, request[c].as)]
    BY <1>4 DEF ViewPage
  <2>3. Offers(p, request[c].as) \subseteq AnyAction BY <1>0, WhatIsAsked
  <2>4. offered' \in [Browsers -> SUBSET AnyAction] BY <1>0, <2>2, <2>3 DEF AccessTyped
  <2> QED BY <1>4, <2>1, <2>4, RequestEnds DEF ViewPage
<1> QED BY <1>1, <1>2, <1>3, <1>4

LEMMA IssuingKeeps ==
    ASSUME AccessInv, NEW c \in Clients, IssueSession(c)
    PROVE  AccessInv'
<1> DEFINE n == used.sessions + 1
           s == [name |-> request[c].as.name, number |-> request[c].as.number]
<1>0. AccessTyped /\ Governed /\ Credentials /\ Callers BY DEF AccessInv
<1>1. c \in Browsers /\ request[c].as \in Someone /\ MaxSessions \in Nat /\ MaxAccounts \in Nat
  BY Stages, SessionsAssumption DEF IssueSession
<1>2. used \in Counters /\ used.sessions < MaxSessions BY <1>0 DEF AccessTyped, Counters, IssueSession
<1>3. n \in Nat /\ n \in 1 .. MaxSessions /\ n # NoCredential /\ n \notin 1 .. used.sessions
      /\ 1 .. used.sessions \subseteq 1 .. n /\ n \in 1 .. n
  BY <1>1, <1>2 DEF Counters, NoCredential
<1>4. s \in Session
  <2>1. request[c].as.name \in Names /\ request[c].as.number # 0
    BY <1>0, <1>1 DEF Callers, Fits, IssueSession
  <2>2. request[c].as.number \in 0 .. MaxAccounts BY <1>1 DEF Someone
  <2>3. request[c].as.number \in 1 .. MaxAccounts BY <1>1, <2>1, <2>2
  <2> QED BY <2>1, <2>3 DEF Session
<1>5. /\ sessions' = Put(sessions, n, s) /\ held' = [held EXCEPT ![c] = n]
      /\ used' = [used EXCEPT !.sessions = n] /\ offered' = [offered EXCEPT ![c] = Sidebar]
      /\ UNCHANGED <<users, api_tokens>>
  BY DEF IssueSession
<1>6. /\ request' \in [Clients -> Request] /\ request'[c] = Idle
      /\ \A x \in Clients : x # c => request'[x] = request[x]
  BY <1>0, NobodyAsks DEF IssueSession, Done, Step, AccessTyped
<1> HIDE DEF n, s
<1>7. used' \in Counters /\ used'.sessions = n /\ used'.tokens = used.tokens
  BY <1>2, <1>3, <1>5 DEF Counters
<1>8. /\ IsTable(sessions', 1 .. n, Session)
      /\ \A x \in DOMAIN sessions : x \in DOMAIN sessions' /\ sessions'[x] = sessions[x]
  BY <1>0, <1>3, <1>4, <1>5 DEF AccessTyped, IsTable, Put
<1>9. offered' \in [Browsers -> SUBSET AnyAction]
  <2>1. Sidebar \subseteq AnyAction BY DEF Sidebar, View, Action, AnyAction
  <2> QED BY <1>0, <1>1, <1>5, <2>1 DEF AccessTyped
<1>10. held' \in [Clients -> Nat] /\ held'[c] = n /\ \A x \in Clients : x # c => held'[x] = held[x]
  BY <1>0, <1>3, <1>5 DEF AccessTyped
<1>11. AccessTyped'
  BY <1>0, <1>5, <1>6, <1>7, <1>8, <1>9, <1>10 DEF AccessTyped, Counters
<1>12. Governed'
  BY <1>0, <1>5, <1>6, NobodyAsks DEF Governed, IsClaimed, Administered, Members
<1>13. Credentials'
  <2>1. \A b \in Browsers : b # c => held'[b] = held[b] /\ held[b] <= used.sessions /\ held[b] \in Nat
    BY <1>0, <1>10 DEF Credentials, Clients, AccessTyped
  <2>2. used.sessions \in Nat /\ n = used.sessions + 1 BY <1>2 DEF n, Counters
  <2>3. \A b \in Browsers : b # c => held'[b] # n BY <2>1, <2>2
  <2>4. \A b \in Browsers : held'[b] <= used'.sessions BY <1>7, <1>10, <2>1, <2>2
  <2>5. \A x, y \in Browsers : x # y /\ held'[x] # NoCredential => held'[x] # held'[y]
    BY <1>0, <1>10, <2>1, <2>3 DEF Credentials
  <2> QED BY <1>0, <1>5, <2>4, <2>5 DEF Credentials
<1>14. Callers'
  BY <1>0, <1>6, <1>8, <1>10, NobodyAsks DEF Callers, Fits
<1> QED BY <1>11, <1>12, <1>13, <1>14 DEF AccessInv

LEMMA LogoutKeeps ==
    ASSUME AccessInv, NEW c \in Clients, Logout(c)
    PROVE  AccessInv'
<1>0. AccessTyped /\ Governed /\ Credentials /\ Callers BY DEF AccessInv
<1>1. c \in Browsers BY <1>0, Stages, WhatIsAsked DEF Logout
<1>2. /\ sessions' = Drop(sessions, held[c]) /\ held' = [held EXCEPT ![c] = NoCredential]
      /\ offered' = [offered EXCEPT ![c] = {}] /\ UNCHANGED <<users, api_tokens, used>>
  BY DEF Logout
<1>3. /\ request' \in [Clients -> Request] /\ request'[c] = Idle
      /\ \A x \in Clients : x # c => request'[x] = request[x]
  BY <1>0, NobodyAsks DEF Logout, Done, Step, AccessTyped
<1>4. /\ IsTable(sessions', 1 .. used.sessions, Session)
      /\ \A x \in DOMAIN sessions :
            x # held[c] => x \in DOMAIN sessions' /\ sessions'[x] = sessions[x]
  BY <1>0, <1>2, RestrictTable DEF AccessTyped, Drop
<1>5. /\ held' \in [Clients -> Nat] /\ held'[c] = NoCredential
      /\ \A x \in Clients : x # c => held'[x] = held[x]
  BY <1>0, <1>2 DEF AccessTyped, NoCredential
<1>6. AccessTyped' BY <1>0, <1>2, <1>3, <1>4, <1>5 DEF AccessTyped
<1>7. Governed'
  BY <1>0, <1>2, <1>3, NobodyAsks DEF Governed, IsClaimed, Administered, Members
<1>8. used.sessions \in Nat /\ Browsers \subseteq Clients BY <1>0 DEF AccessTyped, Clients
<1>9. Credentials' BY <1>0, <1>2, <1>5, <1>8 DEF Credentials, NoCredential
<1>10. ASSUME NEW x \in Clients PROVE Fits(x, request[x])'
  <2>1. CASE x = c BY <1>3, <2>1, NobodyAsks DEF Fits
  <2>2. CASE x # c
    <3>1. Fits(x, request[x]) /\ request'[x] = request[x] /\ held'[x] = held[x]
      BY <1>0, <1>3, <1>5, <2>2 DEF Callers
    <3>2. x \in Browsers /\ held[x] \in DOMAIN sessions => held[x] # held[c]
      <4>1. held[x] \in DOMAIN sessions => held[x] # NoCredential
        BY <1>0 DEF AccessTyped, IsTable, NoCredential
      <4> QED BY <1>0, <1>1, <2>2, <4>1 DEF Credentials
    <3> QED BY <1>4, <3>1, <3>2 DEF Fits
  <2> QED BY <2>1, <2>2
<1>11. Callers' BY <1>10 DEF Callers
<1> QED BY <1>6, <1>7, <1>9, <1>11 DEF AccessInv

LEMMA TokenActionKeeps ==
    ASSUME AccessInv, NEW c \in Clients, TokenAction(c)
    PROVE  AccessInv'
<1>0. AccessTyped /\ Governed /\ Credentials /\ Callers BY DEF AccessInv
<1>1. UNCHANGED <<users, sessions, offered>> BY DEF TokenAction
<1>2. /\ request' \in [Clients -> Request] /\ request'[c] = Idle
      /\ \A x \in Clients : x # c => request'[x] = request[x]
  BY <1>0, NobodyAsks DEF TokenAction, Done, Step, AccessTyped
<1>3. /\ used' \in Counters /\ used'.sessions = used.sessions
      /\ IsTable(api_tokens', 1 .. used'.tokens, TokenNames)
      /\ held' \in [Clients -> Nat] /\ \A b \in Browsers : held'[b] = held[b]
      /\ \A s, t \in DOMAIN api_tokens' : api_tokens'[s] = api_tokens'[t] => s = t
  <2> DEFINE n == used.tokens + 1
  <2>0. used \in Counters /\ MaxTokens \in Nat BY <1>0, SessionsAssumption DEF AccessTyped, Counters
  <2>1. PICK a \in Asks(c) :
            /\ a.op \in {"mint", "revoke"}
            /\ \/ /\ a.op = "mint" /\ a.name \notin Range(api_tokens) /\ used.tokens < MaxTokens
                  /\ api_tokens' = Put(api_tokens, n, a.name)
                  /\ used' = [used EXCEPT !.tokens = n]
                  /\ \E s \in Scripts : held' = [held EXCEPT ![s] = n]
               \/ /\ api_tokens' = Restrict(api_tokens,
                                       {t \in DOMAIN api_tokens : api_tokens[t] # a.name})
                  /\ UNCHANGED <<used, held>>
               \/ UNCHANGED <<api_tokens, used, held>>
    BY DEF TokenAction
  <2>2. CASE a.op = "mint" /\ a.name \notin Range(api_tokens) /\ used.tokens < MaxTokens
             /\ api_tokens' = Put(api_tokens, n, a.name) /\ used' = [used EXCEPT !.tokens = n]
             /\ \E s \in Scripts : held' = [held EXCEPT ![s] = n]
    <3>1. a.name \in TokenNames BY <2>2, WhatIsAsked, <1>0 DEF AnyAction
    <3>2. n \in Nat /\ n \in 0 .. MaxTokens /\ n \notin 1 .. used.tokens
          /\ 1 .. used.tokens \subseteq 1 .. n /\ n \in 1 .. n
      BY <2>0, <2>2 DEF Counters
    <3> HIDE DEF n
    <3>3. used' \in Counters /\ used'.sessions = used.sessions /\ used'.tokens = n
      BY <2>0, <2>2, <3>2 DEF Counters
    <3>4. /\ IsTable(api_tokens', 1 .. n, TokenNames) /\ DOMAIN api_tokens' = DOMAIN api_tokens \cup {n}
          /\ api_tokens'[n] = a.name /\ n \notin DOMAIN api_tokens
          /\ \A t \in DOMAIN api_tokens : api_tokens'[t] = api_tokens[t]
      BY <1>0, <2>2, <3>1, <3>2 DEF AccessTyped, IsTable, Put
    <3>5. \A t \in DOMAIN api_tokens : api_tokens[t] # a.name BY <2>2 DEF Range
    <3>6. \A s, t \in DOMAIN api_tokens' : api_tokens'[s] = api_tokens'[t] => s = t
      BY <1>0, <3>4, <3>5 DEF Credentials
    <3>7. held' \in [Clients -> Nat] /\ \A b \in Browsers : held'[b] = held[b]
      BY <1>0, <2>2, <3>2, SessionsAssumption DEF AccessTyped, Clients
    <3> QED BY <3>3, <3>4, <3>6, <3>7
  <2>3. CASE api_tokens' = Restrict(api_tokens, {t \in DOMAIN api_tokens : api_tokens[t] # a.name})
             /\ UNCHANGED <<used, held>>
    <3>1. /\ IsTable(api_tokens', 1 .. used.tokens, TokenNames)
          /\ DOMAIN api_tokens' \subseteq DOMAIN api_tokens
          /\ \A t \in DOMAIN api_tokens' : api_tokens'[t] = api_tokens[t]
      BY <1>0, <2>3 DEF AccessTyped, IsTable, Restrict
    <3> QED BY <1>0, <2>0, <2>3, <3>1 DEF AccessTyped, Credentials, Clients
  <2>4. CASE UNCHANGED <<api_tokens, used, held>>
    BY <1>0, <2>0, <2>4 DEF AccessTyped, Credentials, Clients
  <2> QED BY <2>1, <2>2, <2>3, <2>4
<1>4. AccessTyped' BY <1>0, <1>1, <1>2, <1>3 DEF AccessTyped, Counters
<1>5. Governed'
  BY <1>0, <1>1, <1>2, NobodyAsks DEF Governed, IsClaimed, Administered, Members
<1>6. Credentials' BY <1>0, <1>3 DEF Credentials
<1>7. Callers' BY <1>0, <1>1, <1>2, <1>3, NobodyAsks DEF Callers, Fits
<1> QED BY <1>4, <1>5, <1>6, <1>7 DEF AccessInv

LEMMA AccessInit0 == AccessInit => AccessInv
<1> SUFFICES ASSUME AccessInit PROVE AccessInv
  OBVIOUS
<1>1. /\ users = EmptyTable /\ sessions = EmptyTable /\ api_tokens = EmptyTable
      /\ held = [c \in Clients |-> 0] /\ offered = [b \in Browsers |-> {}]
      /\ request = [c \in Clients |-> Idle]
      /\ used = [accounts |-> 0, sessions |-> 0, tokens |-> 0]
  BY DEF AccessInit, NoCredential
<1>2. AccessTyped
  BY <1>1, EmptyTableTyped, NobodyAsks, SessionsAssumption DEF AccessTyped
<1>3. Governed BY <1>1, NobodyAsks DEF Governed, IsClaimed
<1>4. Credentials BY <1>1 DEF Credentials, EmptyTable, NoCredential, Clients
<1>5. Callers BY <1>1, NobodyAsks DEF Callers
<1> QED BY <1>2, <1>3, <1>4, <1>5 DEF AccessInv

LEMMA RestartKeeps == AccessInv /\ Restart => AccessInv'
<1> SUFFICES ASSUME AccessInv, Restart PROVE AccessInv'
  OBVIOUS
<1>0. AccessTyped /\ Governed /\ Credentials BY DEF AccessInv
<1>1. /\ sessions' = EmptyTable /\ request' = [c \in Clients |-> Idle]
      /\ UNCHANGED <<users, api_tokens, held, offered, used>>
  BY DEF Restart
<1>2. AccessTyped' BY <1>0, <1>1, EmptyTableTyped, NobodyAsks DEF AccessTyped
<1>3. Governed'
  BY <1>0, <1>1, NobodyAsks DEF Governed, IsClaimed, Administered, Members
<1>4. Credentials' BY <1>0, <1>1 DEF Credentials
<1>5. Callers'
  <2>1. \A c \in Clients : request'[c] = Idle BY <1>1
  <2> QED BY <2>1, NobodyAsks DEF Callers, Fits
<1> QED BY <1>2, <1>3, <1>4, <1>5 DEF AccessInv

LEMMA AccessStep == AccessInv /\ [AccessNext]_accessVars => AccessInv'
<1> SUFFICES ASSUME AccessInv, [AccessNext]_accessVars PROVE AccessInv'
  OBVIOUS
<1>1. ASSUME NEW c \in Clients, Setup(c) \/ Login(c) \/ Ask(c) \/ Progress(c) PROVE AccessInv'
  BY <1>1, SigningIn, LettingIn, Acting, IssuingKeeps, LogoutKeeps, TokenActionKeeps DEF Progress
<1>2. CASE UNCHANGED accessVars
  BY <1>2 DEF accessVars, AccessInv, AccessTyped, Governed, Credentials, Callers, Fits,
              IsClaimed, Administered, Members
<1> QED BY <1>1, <1>2, RestartKeeps DEF AccessNext

LEMMA AccessAlways == AccessSpec => []AccessInv
BY AccessInit0, AccessStep, PTL DEF AccessSpec

Acts(c) == c \in Browsers /\ request[c].at \in {"acting", "verifying"}

\* how accounts may change: a member goes at the hands of another who was let in as an
\* administrator; a password changes at theirs or the owner's, and with it nobody's rank;
\* a member is added by an administrator, or by whoever claims the instance
ByRight(n) ==
    /\ n \in Members /\ n \notin Members' =>
          \E c \in Browsers : Acts(c) /\ request[c].as.admin /\ request[c].as.name # n
    /\ n \in Members /\ n \in Members' /\ users'[n] # users[n] =>
          /\ users'[n].admin = users[n].admin
          /\ \E c \in Browsers : Acts(c) /\ (request[c].as.admin \/ request[c].as.name = n)
    /\ n \in Members' /\ n \notin Members =>
          \E c \in Browsers : \/ Acts(c) /\ request[c].as.admin
                              \/ request[c].at = "claiming" /\ users'[n].admin

LEMMA ChangesAreByRight ==
    ASSUME AccessInv, [AccessNext]_accessVars, NEW n \in Names
    PROVE  ByRight(n)
<1>0. AccessTyped /\ Callers BY DEF AccessInv
<1>1. CASE UNCHANGED users BY <1>1 DEF ByRight, Members
<1>2. ASSUME NEW c \in Clients, Claim(c) PROVE ByRight(n)
  <2>1. c \in Browsers /\ request[c].at = "claiming" BY <1>2, Stages DEF Claim
  <2>2. PICK m \in Names, p \in Passwords :
            IF m \in Members THEN UNCHANGED users ELSE AddUser(m, p, TRUE)
    BY <1>2 DEF Claim
  <2>3. CASE m \notin Members
    <3>1. Members' = Members \cup {m} /\ users'[m].admin /\ \A k \in Members : users'[k] = users[k]
      BY <1>0, <2>2, <2>3, AddedAccounts
    <3> QED BY <2>1, <3>1 DEF ByRight
  <2> QED BY <1>1, <2>2, <2>3
<1>3. ASSUME NEW c \in Clients, TeamAction(c) PROVE ByRight(n)
  <2>0. Asks(c) \subseteq AnyAction /\ Fits(c, request[c]) /\ Administered /\ request[c].at = "acting"
    BY <1>0, <1>3, WhatIsAsked, Stages DEF Callers, TeamAction
  <2>1. PICK a \in Asks(c) :
            /\ a.op \in {"add", "reset", "remove"}
            /\ \/ /\ Accepted(request[c].as, a)
                  /\ \/ a.op = "add" /\ \E p \in Passwords, admin \in BOOLEAN :
                                              IsAdded(a.name, p, admin)
                     \/ a.op = "reset" /\ \E p \in Passwords : IsReset(a.name, p)
                     \/ a.op = "remove" /\ IsRemoved(a.name)
               \/ UNCHANGED users
    BY <1>3 DEF TeamAction
  <2>2. ASSUME Accepted(request[c].as, a)
        PROVE  /\ request[c].as.admin /\ Acts(c) /\ c \in Browsers
               /\ a.op = "remove" => a.name # request[c].as.name
    <3>1. request[c].as.admin /\ (a.op = "remove" => a.name # request[c].as.name)
      BY <2>1, <2>2 DEF Accepted, RequireAdmin
    <3>2. c \in Browsers BY <2>0, <3>1, Stages DEF Fits
    <3> QED BY <2>0, <3>1, <3>2 DEF Acts
  <2>3. CASE /\ Accepted(request[c].as, a) /\ a.op = "add"
             /\ \E p \in Passwords, admin \in BOOLEAN : IsAdded(a.name, p, admin)
    <3>1. a.name \in Names BY <2>0, <2>3 DEF AnyAction
    <3>2. Members' = Members \cup {a.name} /\ \A m \in Members : users'[m] = users[m]
      BY <1>0, <2>3, <3>1, AddedAccounts DEF IsAdded
    <3> QED BY <2>2, <2>3, <3>2 DEF ByRight
  <2>4. CASE Accepted(request[c].as, a) /\ a.op = "reset" /\ \E p \in Passwords : IsReset(a.name, p)
    <3>1. Members' = Members /\ \A m \in Members : users'[m].admin = users[m].admin
      BY <1>0, <2>4, ResetAccounts
    <3> QED BY <2>2, <2>4, <3>1 DEF ByRight
  <2>5. CASE Accepted(request[c].as, a) /\ a.op = "remove" /\ IsRemoved(a.name)
    <3>1. Members' = Members \ {a.name} /\ \A m \in Members : m # a.name => users'[m] = users[m]
      BY <1>0, <2>0, <2>5, RemovedAccounts
    <3> QED BY <2>2, <2>5, <3>1 DEF ByRight
  <2> QED BY <1>1, <2>1, <2>3, <2>4, <2>5
<1>4. ASSUME NEW c \in Clients, ChangePassword(c) PROVE ByRight(n)
  <2>1. c \in Browsers /\ Acts(c) BY <1>4, Stages DEF ChangePassword, Acts
  <2>2. ASSUME NEW p \in Passwords, IsReset(request[c].as.name, p) PROVE ByRight(n)
    <3>1. /\ Members' = Members
          /\ \A m \in Members : users'[m].admin = users[m].admin
                /\ (m # request[c].as.name => users'[m] = users[m])
      BY <1>0, <2>2, ResetAccounts
    <3> QED BY <2>1, <3>1 DEF ByRight
  <2> QED BY <1>1, <1>4, <2>2 DEF ChangePassword
<1>5. ASSUME NEW c \in Clients,
             \/ Setup(c) \/ Login(c) \/ Ask(c) \/ IssueSession(c) \/ Look(c) \/ Admit(c)
             \/ ProvePassword(c) \/ TokenAction(c) \/ ViewPage(c) \/ Logout(c)
      PROVE  UNCHANGED users
  BY <1>5 DEF Setup, Login, Ask, IssueSession, Look, Admit, ProvePassword, TokenAction, ViewPage,
              Logout
<1>6. CASE Restart BY <1>1, <1>6 DEF Restart
<1>7. CASE UNCHANGED accessVars BY <1>1, <1>7 DEF accessVars
<1> QED BY <1>1, <1>2, <1>3, <1>4, <1>5, <1>6, <1>7 DEF AccessNext, Progress

\* Accounts, sessions, tokens, what pages offer and what requests carry keep their types;
\* in particular a page offers nothing but buttons the server knows.
THEOREM AccessTypeCorrect == AccessSpec => []AccessTyped
<1>1. AccessInv => AccessTyped BY DEF AccessInv
<1> QED BY <1>1, AccessAlways, PTL

\* "never the last administrator": once claimed an instance has an administrator,
\* whatever setups, removals and sign-ins run side by side.
THEOREM ClaimedIsAdministered == AccessSpec => [](IsClaimed => Administered)
<1>1. AccessInv => (IsClaimed => Administered) BY DEF AccessInv, Governed
<1> QED BY <1>1, AccessAlways, PTL

\* No two browsers hold one session, a browser's request is made in the name its session
\* was issued to, a token gives its bearer no rank, and no two tokens share the name they
\* are revoked by.
THEOREM CredentialsAreOnesOwn == AccessSpec => [](Credentials /\ Callers)
<1>1. AccessInv => Credentials /\ Callers BY DEF AccessInv
<1> QED BY <1>1, AccessAlways, PTL

\* require_admin and the tests of the handlers, although the account that was asked
\* about may be gone by the time the handler acts: no script and no mere member touches
\* another's account, and nobody is promoted.
THEOREM AccountsChangeByRight == AccessSpec => [][\A n \in Names : ByRight(n)]_accessVars
<1>1. AccessInv /\ [AccessNext]_accessVars => [\A n \in Names : ByRight(n)]_accessVars
  BY ChangesAreByRight
<1> QED BY <1>1, AccessAlways, PTL DEF AccessSpec

\* ButtonsWork, whoever the members are: a page hides what the server would refuse its
\* reader on the state it was rendered from.  The last administrator is never offered for
\* removal, since it could only be his own page that does.
THEOREM ButtonsAreHonoured == AccessSpec => []ButtonsWork
<1>1. ASSUME AccessInv, NEW n \in Members, NEW p \in Page, NEW as,
             as = [Nobody EXCEPT !.name = n, !.admin = users[n].admin],
             NEW a \in Offers(p, as)
      PROVE  /\ Accepted(as, a)
             /\ a.op = "remove" => MayRemove(a.name)
             /\ a.op = "reset" => a.name \in Members
             /\ a.op = "revoke" => a.name \in Range(api_tokens)
  <2>1. as.name = n /\ as.admin = users[n].admin /\ ~as.via_token
    BY <1>1 DEF Nobody
  <2>2. a \in Sidebar => a.op \in {"view", "logout"} BY DEF Sidebar, View, Action
  <2>3. ASSUME a \in TeamPage(as)
        PROVE  \/ a.op = "password"
               \/ as.admin /\ a.op = "add"
               \/ as.admin /\ a.op = "reset" /\ a.name \in Members
               \/ as.admin /\ a.op = "remove" /\ a.name \in Members \ {n}
    BY <2>1, <2>3 DEF TeamPage, OwnPassword, Action
  <2>4. ASSUME a \in TokensPage(as)
        PROVE  \/ as.admin /\ a.op = "mint"
               \/ as.admin /\ a.op = "revoke" /\ a.name \in Range(api_tokens)
    <3>1. CASE as.admin
      <4>1. \/ \E t \in TokenNames : a = Action("mint", t)
            \/ \E t \in Range(api_tokens) : a = Action("revoke", t)
        BY <2>4, <3>1 DEF TokensPage
      <4> QED BY <3>1, <4>1 DEF Action
    <3>2. CASE ~as.admin BY <2>4, <3>2 DEF TokensPage
    <3> QED BY <3>1, <3>2
  <2>5. ASSUME as.admin, a.name \in Members \ {n} PROVE MayRemove(a.name)
    BY <2>1, <2>5 DEF MayRemove
  <2> QED BY <1>1, <2>1, <2>2, <2>3, <2>4, <2>5 DEF Offers, Accepted, RequireAdmin
<1>2. AccessInv => ButtonsWork BY <1>1 DEF ButtonsWork
<1> QED BY <1>2, AccessAlways, PTL
=============================================================================
