-------------------------- MODULE ControlPlaneProofs --------------------------
(***************************************************************************)
(* Proofs, for every value of the constants, of what ControlPlaneProperties*)
(* states and MCControlPlane checks on small instances.                    *)
(***************************************************************************)
EXTENDS ControlPlaneProperties, FiniteSetTheorems, FunctionTheorems, TLAPS, WellFoundedInduction

-----------------------------------------------------------------------------
(* The table operations *)

LEMMA PutTable ==
    ASSUME NEW K, NEW R, NEW t, IsTable(t, K, R), NEW k \in K, NEW r \in R
    PROVE  /\ IsTable(Put(t, k, r), K, R)
           /\ DOMAIN Put(t, k, r) = DOMAIN t \cup {k}
           /\ Put(t, k, r)[k] = r
           /\ \A x \in DOMAIN t : x # k => Put(t, k, r)[x] = t[x]
BY DEF IsTable, Put

LEMMA RestrictTable ==
    ASSUME NEW K, NEW R, NEW t, IsTable(t, K, R), NEW S, S \subseteq DOMAIN t
    PROVE  /\ IsTable(Restrict(t, S), K, R)
           /\ DOMAIN Restrict(t, S) = S
           /\ \A x \in S : Restrict(t, S)[x] = t[x]
BY DEF IsTable, Restrict

LEMMA EmptyTableTyped == \A K, R : IsTable(EmptyTable, K, R)
BY DEF EmptyTable, IsTable

-----------------------------------------------------------------------------
(* The oldest and the newest of some ids *)

LEMMA LeastNumber ==
    ASSUME NEW S, S \subseteq Nat, S # {}
    PROVE  \E x \in S : \A y \in S : x <= y
<1> DEFINE Before == OpToRel(<, Nat)
<1>1. IsWellFoundedOn(Before, Nat)
    BY NatLessThanWellFounded, Zenon
<1>2. ASSUME NEW x \in Nat, NEW y \in Nat, x < y PROVE <<x, y>> \in Before
    BY <1>2, Zenon DEF OpToRel
<1> HIDE DEF Before
<1>3. PICK x \in S : \A y \in S : ~ (<<y, x>> \in Before)
    BY <1>1, WFMin
<1>4. ASSUME NEW y \in S PROVE x <= y
    <2>1. ~ (<<y, x>> \in Before) /\ x \in Nat /\ y \in Nat
        BY <1>3
    <2>2. ~ (y < x)
        BY <2>1, <1>2
    <2> QED
        BY <2>1, <2>2
<1> QED
    BY <1>4

\* some numbers that are bounded have a greatest
LEMMA GreatestNumber ==
    ASSUME NEW S, NEW n \in Nat, S \subseteq 0 .. n, S # {}
    PROVE  \E m \in S : \A y \in S : m >= y
<1> DEFINE Below == {n - y : y \in S}
<1>1. Below \subseteq Nat /\ Below # {}
    <2>1. ASSUME NEW y \in S PROVE n - y \in Nat
        OBVIOUS
    <2> QED
        BY <2>1
<1>2. PICK x \in Below : \A y \in Below : x <= y
    BY <1>1, LeastNumber
<1>3. PICK m \in S : x = n - m
    OBVIOUS
<1>4. ASSUME NEW y \in S PROVE m >= y
    <2>1. n - y \in Below
        OBVIOUS
    <2>2. x <= n - y
        BY <1>2, <2>1
    <2> QED
        BY <1>3, <2>2
<1> QED
    BY <1>4

-----------------------------------------------------------------------------
(* Type correctness *)

LEMMA TypeInit == Init => TypeOK
<1> SUFFICES ASSUME Init PROVE TypeOK OBVIOUS
<1>1. \A K, R : IsTable(EmptyTable, K, R) BY EmptyTableTyped
<1>2. next_id \in [host : 1 .. MaxHosts + 1, app : 1 .. MaxApps + 1,
                   deployment : 1 .. MaxDeployments + 1]
  BY BoundAssumption DEF Init
<1>3. conn \in [Identities -> 0 .. MaxConnections] /\ since_sweep \in 0 .. REAP_INTERVAL
  BY BoundAssumption, TimeAssumption DEF Init
<1> QED BY <1>1, <1>2, <1>3 DEF Init, TypeOK

LEMMA TypeStep == TypeOK /\ [Next]_vars => TypeOK'
<1> SUFFICES ASSUME TypeOK, [Next]_vars PROVE TypeOK' OBVIOUS
<1> USE DEF TypeOK, presenceFrame, deploymentFrame
<1>1. ASSUME NEW s \in Identities, ClientConnected(s) PROVE TypeOK'
  <2>1. IsTable(host', HostId, Host)
    BY <1>1, TimeAssumption DEF ClientConnected, IsBound, IsTable, Host, HostStatus
  <2>2. conn' \in [Identities -> 0 .. MaxConnections]
    BY <1>1, BoundAssumption DEF ClientConnected
  <2> QED BY <1>1, <2>1, <2>2 DEF ClientConnected
<1>2. ASSUME NEW s \in Identities, ClientDisconnected(s) PROVE TypeOK'
  <2>1. IsTable(host', HostId, Host)
    BY <1>2 DEF ClientDisconnected, IsBound, IsTable, Host, HostStatus
  <2>2. conn' \in [Identities -> 0 .. MaxConnections]
    BY <1>2, BoundAssumption DEF ClientDisconnected
  <2> QED BY <1>2, <2>1, <2>2 DEF ClientDisconnected
<1>3. CASE ReapStaleHosts
  BY <1>3, TimeAssumption DEF ReapStaleHosts, IsTable, Host, HostStatus
<1>4. CASE Tick
  BY <1>4, TimeAssumption DEF Tick, IsTable, Host, HostStatus
<1>5. ASSUME NEW s \in Connected, ClaimInstance(s) PROVE TypeOK'
  BY <1>5 DEF ClaimInstance, Connected
<1>6. ASSUME NEW s, NEW code \in Codes, CreateEnrollmentToken(s, code) PROVE TypeOK'
  BY <1>6, PutTable DEF CreateEnrollmentToken
<1>7. ASSUME NEW s, NEW name \in AppNames, RegisterApplication(s, name) PROVE TypeOK'
  <2>1. next_id.app \in AppId
    BY <1>7, BoundAssumption DEF RegisterApplication, AppId
  <2>2. IsTable(application', AppId, AppNames)
    BY <1>7, <2>1, PutTable DEF RegisterApplication
  <2>3. next_id' \in [host : 1 .. MaxHosts + 1, app : 1 .. MaxApps + 1,
                       deployment : 1 .. MaxDeployments + 1]
    BY <1>7, BoundAssumption DEF RegisterApplication
  <2> QED BY <1>7, <2>2, <2>3 DEF RegisterApplication
<1>8. ASSUME NEW s, NEW h \in HostId, NEW draining \in BOOLEAN,
             SetHostDraining(s, h, draining) PROVE TypeOK'
  BY <1>8 DEF SetHostDraining, IsDrainable, DrainedStatus, IsTable, Host, HostStatus
<1>9. ASSUME NEW s, NEW app \in AppId, NEW h \in HostId, NEW commit \in Commits,
             QueueDeployment(s, app, h, commit) PROVE TypeOK'
  <2>1. next_id.deployment \in DeploymentId
    BY <1>9, BoundAssumption DEF QueueDeployment, DeploymentId
  <2>2. [app_id |-> app, host_id |-> h, commit_sha |-> commit, status |-> "Queued",
         started |-> FALSE, finished |-> FALSE] \in Deployment
    BY DEF Deployment, DeployStatus
  <2>3. IsTable(deployment', DeploymentId, Deployment)
    BY <1>9, <2>1, <2>2, PutTable DEF QueueDeployment
  <2>4. next_id' \in [host : 1 .. MaxHosts + 1, app : 1 .. MaxApps + 1,
                       deployment : 1 .. MaxDeployments + 1]
    BY <1>9, BoundAssumption DEF QueueDeployment
  <2> QED BY <1>9, <2>3, <2>4 DEF QueueDeployment
<1>10. ASSUME NEW s, NEW d \in DeploymentId, RollbackDeployment(s, d) PROVE TypeOK'
  BY <1>10 DEF RollbackDeployment, IsRollbackable, IsTable, Deployment, DeployStatus
<1>11. ASSUME NEW s, NEW app \in AppId, DeleteApplication(s, app) PROVE TypeOK'
  BY <1>11, RestrictTable DEF DeleteApplication, Drop
<1>12. ASSUME NEW s, NEW h \in HostId, DeleteHost(s, h) PROVE TypeOK'
  BY <1>12, RestrictTable DEF DeleteHost, Drop, BindingsWithout
<1>13. ASSUME NEW s \in Connected, NEW code \in Codes, NEW name \in HostNames,
              EnrollHost(s, code, name) PROVE TypeOK'
  <2>1. next_id.host \in HostId
    BY <1>13, BoundAssumption DEF EnrollHost, HostId
  <2>2. [name |-> name, status |-> "Online", cpu_pct |-> 0, silence |-> 0,
         workload_count |-> 0] \in Host
    BY TimeAssumption DEF Host, HostStatus
  <2>3. IsTable(host', HostId, Host)
    BY <1>13, <2>1, <2>2, PutTable DEF EnrollHost
  <2>4. IsTable(agent_binding', Identities, HostId)
    BY <1>13, <2>1, PutTable DEF EnrollHost, Connected
  <2>5. IsTable(enrollment_token', Codes, HostId \cup {NotConsumed})
    BY <1>13, <2>1 DEF EnrollHost, IsUsableCode, IsTable
  <2>6. next_id' \in [host : 1 .. MaxHosts + 1, app : 1 .. MaxApps + 1,
                       deployment : 1 .. MaxDeployments + 1]
    BY <1>13, BoundAssumption DEF EnrollHost
  <2> QED BY <1>13, <2>3, <2>4, <2>5, <2>6 DEF EnrollHost
<1>14. ASSUME NEW s, NEW load \in Loads, NEW report \in SUBSET WorkloadNames,
              Heartbeat(s, load, report) PROVE TypeOK'
  <2> DEFINE h == agent_binding[s]
  <2>1. h \in HostId /\ h \in DOMAIN host
    BY <1>14 DEF Heartbeat, CallerHost, IsBound, IsTable
  <2>2. IsFiniteSet(report) /\ Cardinality(report) \in Nat
    BY DataAssumption, FS_Subset, FS_CardinalityType
  <2>3. Pct(load) \in 0 .. 100
    BY DataAssumption DEF Pct
  <2> DEFINE pct == Pct(load)
             count == Cardinality(report)
             row == [host[h] EXCEPT !.cpu_pct = pct, !.workload_count = count,
                        !.status = IF @ = "Draining" THEN "Draining" ELSE "Online",
                        !.silence = 0]
  <2> HIDE DEF pct, count
  <2>a. host[h] \in Host /\ pct \in 0 .. 100 /\ count \in Nat
    BY <2>1, <2>2, <2>3 DEF IsTable, pct, count
  <2>b. row \in Host
    BY <1>14, <2>1, <2>a DEF Heartbeat, pct, count, IsTable, Host
  <2>c. host' = [host EXCEPT ![h] = row]
    BY <1>14, <2>1 DEF Heartbeat, pct, count
  <2>4. IsTable(host', HostId, Host)
    BY <2>b, <2>c, <2>1 DEF IsTable
  <2>5. workload' \subseteq Workload
    BY <1>14, <2>1 DEF Heartbeat, WorkloadsAfter, Reported, Workload
  <2> QED BY <1>14, <2>4, <2>5 DEF Heartbeat
<1>15. ASSUME NEW s, NEW d \in DeploymentId, StartDeployment(s, d) PROVE TypeOK'
  BY <1>15 DEF StartDeployment, IsClaimable, OwnedDeployment, IsTable, Deployment, DeployStatus
<1>16. ASSUME NEW s, NEW d \in DeploymentId, NEW seq \in Seqs, AppendLog(s, d, seq) PROVE TypeOK'
  BY <1>16 DEF AppendLog, DeployLogLine
<1>17. ASSUME NEW s, NEW d \in DeploymentId, NEW succeeded \in BOOLEAN,
              FinishDeployment(s, d, succeeded) PROVE TypeOK'
  <2>1. (IF succeeded THEN "Succeeded" ELSE "Failed") \in DeployStatus
    BY DEF DeployStatus
  <2> DEFINE status == IF succeeded THEN "Succeeded" ELSE "Failed"
  <2> HIDE DEF status
  <2>a. deployment' = [deployment EXCEPT ![d].status = status, ![d].finished = TRUE]
    BY <1>17 DEF FinishDeployment, status
  <2>b. status \in DeployStatus
    BY <2>1 DEF status
  <2>2. IsTable(deployment', DeploymentId, Deployment)
    BY <2>a, <2>b DEF IsTable, Deployment
  <2> QED BY <1>17, <2>2 DEF FinishDeployment
<1>18. CASE UNCHANGED vars
  BY <1>18 DEF vars
<1> QED
  BY <1>1, <1>2, <1>3, <1>4, <1>5, <1>6, <1>7, <1>8, <1>9, <1>10, <1>11, <1>12, <1>13,
     <1>14, <1>15, <1>16, <1>17, <1>18 DEF Next, OperatorReducer, AgentReducer

\* The control plane's tables always hold rows of the schema's types and the
\* auto_inc sequences stay ahead of them.
THEOREM TypeCorrect == Spec => []TypeOK
<1>1. Init => TypeOK BY TypeInit
<1>2. TypeOK /\ [Next]_vars => TypeOK' BY TypeStep
<1> QED BY <1>1, <1>2, PTL DEF Spec

-----------------------------------------------------------------------------
(* auto_inc: a row's id is below the next one, so an inserted row is new *)

IdsAreFresh ==
    /\ \A h \in DOMAIN host : h < next_id.host
    /\ \A a \in DOMAIN application : a < next_id.app
    /\ \A d \in DOMAIN deployment : d < next_id.deployment


\* Which hosts there are, their names, who speaks for them, the codes and the
\* host sequence are left alone.
SameHosts ==
    /\ DOMAIN host' = DOMAIN host
    /\ \A h \in DOMAIN host : host'[h].name = host[h].name
    /\ UNCHANGED <<agent_binding, enrollment_token>>
    /\ next_id'.host = next_id.host

LEMMA HostSteps ==
    ASSUME TypeOK, [Next]_vars
    PROVE  \/ \E s \in Identities, code \in Codes, name \in HostNames : EnrollHost(s, code, name)
           \/ \E s \in Identities, h \in HostId : DeleteHost(s, h)
           \/ \E s \in Identities, code \in Codes : CreateEnrollmentToken(s, code)
           \/ SameHosts
<1> USE DEF SameHosts, TypeOK, IsTable
<1>1. ASSUME NEW s \in Identities, ClientConnected(s) \/ ClientDisconnected(s) PROVE SameHosts
  BY <1>1 DEF ClientConnected, ClientDisconnected, presenceFrame, Host
<1>2. CASE ReapStaleHosts \/ Tick
  BY <1>2 DEF ReapStaleHosts, Tick, presenceFrame, Host
<1>3. ASSUME NEW s, NEW h \in HostId, NEW draining \in BOOLEAN, SetHostDraining(s, h, draining)
      PROVE SameHosts
  BY <1>3 DEF SetHostDraining, presenceFrame, Host
<1>4. ASSUME NEW s, NEW load \in Loads, NEW report \in SUBSET WorkloadNames,
             Heartbeat(s, load, report)
      PROVE SameHosts
  BY <1>4 DEF Heartbeat, Host
<1>5. ASSUME NEW s,
             \/ ClaimInstance(s)
             \/ \E name \in AppNames : RegisterApplication(s, name)
             \/ \E app \in AppId, h \in HostId, commit \in Commits :
                   QueueDeployment(s, app, h, commit)
             \/ \E d \in DeploymentId : RollbackDeployment(s, d) \/ StartDeployment(s, d)
             \/ \E app \in AppId : DeleteApplication(s, app)
             \/ \E d \in DeploymentId, seq \in Seqs : AppendLog(s, d, seq)
             \/ \E d \in DeploymentId, succeeded \in BOOLEAN : FinishDeployment(s, d, succeeded)
      PROVE SameHosts
  BY <1>5 DEF ClaimInstance, RegisterApplication, QueueDeployment, RollbackDeployment,
              StartDeployment, DeleteApplication, AppendLog, FinishDeployment, deploymentFrame
<1>6. CASE UNCHANGED vars
  BY <1>6 DEF vars
<1> QED
  BY <1>1, <1>2, <1>3, <1>4, <1>5, <1>6 DEF Next, OperatorReducer, AgentReducer, Connected

\* The applications, the deployments and their sequences are left alone.
SameDeployments ==
    /\ UNCHANGED <<application, deployment>>
    /\ next_id'.app = next_id.app
    /\ next_id'.deployment = next_id.deployment

LEMMA DeploymentSteps ==
    ASSUME TypeOK, [Next]_vars
    PROVE  \/ \E s \in Identities, name \in AppNames : RegisterApplication(s, name)
           \/ \E s \in Identities, app \in AppId : DeleteApplication(s, app)
           \/ \E s \in Identities, app \in AppId, h \in HostId, commit \in Commits :
                 QueueDeployment(s, app, h, commit)
           \/ \E s \in Identities, d \in DeploymentId : RollbackDeployment(s, d)
           \/ \E s \in Identities, d \in DeploymentId : StartDeployment(s, d)
           \/ \E s \in Identities, d \in DeploymentId, succeeded \in BOOLEAN :
                 FinishDeployment(s, d, succeeded)
           \/ SameDeployments
<1> USE DEF SameDeployments, TypeOK
<1>1. ASSUME NEW s \in Identities, ClientConnected(s) \/ ClientDisconnected(s)
      PROVE SameDeployments
  BY <1>1 DEF ClientConnected, ClientDisconnected, presenceFrame
<1>2. CASE ReapStaleHosts \/ Tick
  BY <1>2 DEF ReapStaleHosts, Tick, presenceFrame
<1>3. ASSUME NEW s,
             \/ ClaimInstance(s)
             \/ \E code \in Codes : CreateEnrollmentToken(s, code)
             \/ \E h \in HostId, draining \in BOOLEAN : SetHostDraining(s, h, draining)
             \/ \E h \in HostId : DeleteHost(s, h)
             \/ \E code \in Codes, name \in HostNames : EnrollHost(s, code, name)
             \/ \E load \in Loads, report \in SUBSET WorkloadNames : Heartbeat(s, load, report)
             \/ \E d \in DeploymentId, seq \in Seqs : AppendLog(s, d, seq)
      PROVE SameDeployments
  BY <1>3 DEF ClaimInstance, CreateEnrollmentToken, SetHostDraining, DeleteHost, EnrollHost,
              Heartbeat, AppendLog, presenceFrame
<1>4. CASE UNCHANGED vars
  BY <1>4 DEF vars
<1> QED
  BY <1>1, <1>2, <1>3, <1>4 DEF Next, OperatorReducer, AgentReducer, Connected

LEMMA FreshInit == Init => IdsAreFresh
BY DEF Init, IdsAreFresh, EmptyTable

LEMMA FreshStep == TypeOK /\ IdsAreFresh /\ [Next]_vars => IdsAreFresh'
<1> SUFFICES ASSUME TypeOK, IdsAreFresh, [Next]_vars PROVE IdsAreFresh' OBVIOUS
<1> USE DEF HostId, AppId, DeploymentId
<1>1. \A h \in DOMAIN host' : h < next_id'.host
  <2>1. CASE SameHosts BY <2>1 DEF SameHosts, IdsAreFresh
  <2>2. ASSUME NEW s, NEW code, NEW name, EnrollHost(s, code, name)
        PROVE  \A h \in DOMAIN host' : h < next_id'.host
    BY <2>2 DEF EnrollHost, Put, IdsAreFresh, TypeOK, IsTable
  <2>3. ASSUME NEW s, NEW h, DeleteHost(s, h)
        PROVE  \A g \in DOMAIN host' : g < next_id'.host
    BY <2>3 DEF DeleteHost, Drop, Restrict, IdsAreFresh
  <2>4. ASSUME NEW s, NEW code, CreateEnrollmentToken(s, code)
        PROVE  \A h \in DOMAIN host' : h < next_id'.host
    BY <2>4 DEF CreateEnrollmentToken, IdsAreFresh
  <2> QED BY <2>1, <2>2, <2>3, <2>4, HostSteps
<1>2. /\ \A a \in DOMAIN application' : a < next_id'.app
      /\ \A d \in DOMAIN deployment' : d < next_id'.deployment
  <2> DEFINE Goal == /\ \A a \in DOMAIN application' : a < next_id'.app
                     /\ \A d \in DOMAIN deployment' : d < next_id'.deployment
  <2>1. CASE SameDeployments BY <2>1 DEF SameDeployments, IdsAreFresh
  <2>2. ASSUME NEW s, NEW name, RegisterApplication(s, name) PROVE Goal
    BY <2>2 DEF RegisterApplication, Put, IdsAreFresh, TypeOK, IsTable
  <2>3. ASSUME NEW s, NEW app, DeleteApplication(s, app) PROVE Goal
    BY <2>3 DEF DeleteApplication, Drop, Restrict, IdsAreFresh
  <2>4. ASSUME NEW s, NEW app, NEW h, NEW commit, QueueDeployment(s, app, h, commit) PROVE Goal
    BY <2>4 DEF QueueDeployment, Put, IdsAreFresh, TypeOK, IsTable
  <2>5. ASSUME NEW s, NEW d, RollbackDeployment(s, d) \/ StartDeployment(s, d) PROVE Goal
    BY <2>5 DEF RollbackDeployment, StartDeployment, deploymentFrame, IdsAreFresh
  <2>6. ASSUME NEW s, NEW d, NEW succeeded, FinishDeployment(s, d, succeeded) PROVE Goal
    BY <2>6 DEF FinishDeployment, deploymentFrame, IdsAreFresh
  <2> QED BY <2>1, <2>2, <2>3, <2>4, <2>5, <2>6, DeploymentSteps
<1> QED BY <1>1, <1>2 DEF IdsAreFresh

-----------------------------------------------------------------------------
(* Hosts, agents and enrolment codes *)

\* The host half of the inductive invariant: an enrolment gives the new host an
\* id no binding and no code names yet, which is where IdsAreFresh is needed.
HostsAgree == TypeOK /\ IdsAreFresh /\ BindingIntegrity /\ EveryHostSpentItsOwnCode

LEMMA HostsAgreeInit == Init => HostsAgree
<1> SUFFICES ASSUME Init PROVE HostsAgree OBVIOUS
<1>1. TypeOK /\ IdsAreFresh BY TypeInit, FreshInit
<1>2. BindingIntegrity
  BY DEF Init, BindingIntegrity, EmptyTable, IsInjective, Range
<1>3. EveryHostSpentItsOwnCode
  BY DEF Init, EveryHostSpentItsOwnCode, EmptyTable
<1> QED BY <1>1, <1>2, <1>3 DEF HostsAgree

LEMMA BindingStep == HostsAgree /\ [Next]_vars => BindingIntegrity'
<1> SUFFICES ASSUME HostsAgree, [Next]_vars PROVE BindingIntegrity' OBVIOUS
<1> USE DEF HostsAgree
<1>1. CASE SameHosts
  BY <1>1 DEF SameHosts, BindingIntegrity, IsInjective, Range
<1>2. ASSUME NEW s \in Identities, NEW code, NEW name, EnrollHost(s, code, name)
      PROVE  BindingIntegrity'
  <2> DEFINE new == next_id.host
  <2>1. new \notin DOMAIN host
    BY DEF IdsAreFresh, TypeOK, IsTable, HostId
  <2>2. /\ DOMAIN host' = DOMAIN host \cup {new}
        /\ host'[new].name = name
        /\ \A h \in DOMAIN host : host'[h] = host[h]
    BY <1>2, <2>1 DEF EnrollHost, Put
  <2>3. /\ DOMAIN agent_binding' = DOMAIN agent_binding \cup {s}
        /\ agent_binding'[s] = new
        /\ \A x \in DOMAIN agent_binding : agent_binding'[x] = agent_binding[x]
    BY <1>2 DEF EnrollHost, Put
  <2>4. IsInjective(agent_binding')
    BY <2>1, <2>3 DEF BindingIntegrity, IsInjective, Range
  <2>5. Range(agent_binding') = DOMAIN host'
    BY <2>2, <2>3 DEF BindingIntegrity, Range
  <2>6. \A g, h \in DOMAIN host' : host'[g].name = host'[h].name => g = h
    BY <1>2, <2>2 DEF EnrollHost, IsHostName, BindingIntegrity
  <2> QED BY <2>4, <2>5, <2>6 DEF BindingIntegrity
<1>3. ASSUME NEW s, NEW h, DeleteHost(s, h) PROVE BindingIntegrity'
  BY <1>3 DEF DeleteHost, BindingsWithout, Drop, Restrict, BindingIntegrity, IsInjective, Range
<1>4. ASSUME NEW s, NEW code, CreateEnrollmentToken(s, code) PROVE BindingIntegrity'
  BY <1>4 DEF CreateEnrollmentToken, BindingIntegrity
<1> QED BY <1>1, <1>2, <1>3, <1>4, HostSteps

LEMMA CodeStep == HostsAgree /\ [Next]_vars => EveryHostSpentItsOwnCode'
<1> SUFFICES ASSUME HostsAgree, [Next]_vars PROVE EveryHostSpentItsOwnCode' OBVIOUS
<1> USE DEF HostsAgree
<1>1. CASE SameHosts
  BY <1>1 DEF SameHosts, EveryHostSpentItsOwnCode
<1>2. ASSUME NEW s, NEW code, NEW name, EnrollHost(s, code, name)
      PROVE  EveryHostSpentItsOwnCode'
  <2> DEFINE new == next_id.host
  <2>1. /\ DOMAIN enrollment_token' = DOMAIN enrollment_token
        /\ code \in DOMAIN enrollment_token
        /\ enrollment_token[code] = NotConsumed
        /\ enrollment_token'[code] = new
        /\ \A c \in DOMAIN enrollment_token : c # code => enrollment_token'[c] = enrollment_token[c]
    BY <1>2 DEF EnrollHost, IsUsableCode
  <2>2. new \in Nat \ {0} /\ next_id'.host = new + 1
    BY <1>2, BoundAssumption DEF EnrollHost, TypeOK
  <2>3. \A c \in DOMAIN enrollment_token : enrollment_token[c] \in Nat
    BY BoundAssumption DEF TypeOK, IsTable, HostId, NotConsumed
  <2>4. \A h \in 1 .. next_id'.host - 1 :
           \E c \in DOMAIN enrollment_token' : enrollment_token'[c] = h
    BY <2>1, <2>2 DEF EveryHostSpentItsOwnCode, NotConsumed
  <2>5. \A c, d \in DOMAIN enrollment_token' :
           enrollment_token'[c] = enrollment_token'[d] /\ enrollment_token'[c] # NotConsumed
             => c = d
    BY <2>1, <2>2, <2>3 DEF EveryHostSpentItsOwnCode
  <2>6. \A c \in DOMAIN enrollment_token' : enrollment_token'[c] < next_id'.host
    BY <2>1, <2>2, <2>3 DEF EveryHostSpentItsOwnCode
  <2> QED BY <2>4, <2>5, <2>6 DEF EveryHostSpentItsOwnCode
<1>3. ASSUME NEW s, NEW h, DeleteHost(s, h) PROVE EveryHostSpentItsOwnCode'
  BY <1>3 DEF DeleteHost, EveryHostSpentItsOwnCode
<1>4. ASSUME NEW s, NEW code, CreateEnrollmentToken(s, code) PROVE EveryHostSpentItsOwnCode'
  BY <1>4, BoundAssumption
     DEF CreateEnrollmentToken, Put, EveryHostSpentItsOwnCode, NotConsumed, TypeOK
<1> QED BY <1>1, <1>2, <1>3, <1>4, HostSteps

LEMMA HostsAgreeStep == HostsAgree /\ [Next]_vars => HostsAgree'
BY TypeStep, FreshStep, BindingStep, CodeStep DEF HostsAgree

\* Hosts and agents stay in bijection, and host names unique: no call can reach
\* the "binding points at missing host" error of caller_host.
THEOREM BindingsHold == Spec => []BindingIntegrity
<1>1. Init => HostsAgree BY HostsAgreeInit
<1>2. HostsAgree /\ [Next]_vars => HostsAgree' BY HostsAgreeStep
<1>3. HostsAgree => BindingIntegrity BY DEF HostsAgree
<1> QED BY <1>1, <1>2, <1>3, PTL DEF Spec

\* An enrolment code admits one host, ever, and no host comes in without one.
THEOREM CodesAreSingleUse == Spec => []EveryHostSpentItsOwnCode
<1>1. Init => HostsAgree BY HostsAgreeInit
<1>2. HostsAgree /\ [Next]_vars => HostsAgree' BY HostsAgreeStep
<1>3. HostsAgree => EveryHostSpentItsOwnCode BY DEF HostsAgree
<1> QED BY <1>1, <1>2, <1>3, PTL DEF Spec

-----------------------------------------------------------------------------
(* Deployments and their applications *)

\* The deployment half: only a Queued or Running deployment is protected by
\* delete_application, so the statuses and the times must agree step by step.
DeploymentsAgree == TypeOK /\ IdsAreFresh /\ InFlightHasItsApplication /\ TimesAgreeWithStatus

LEMMA DeploymentsAgreeInit == Init => DeploymentsAgree
BY TypeInit, FreshInit
   DEF Init, DeploymentsAgree, InFlightHasItsApplication, TimesAgreeWithStatus, EmptyTable

LEMMA InFlightStep == DeploymentsAgree /\ [Next]_vars => InFlightHasItsApplication'
<1> SUFFICES ASSUME DeploymentsAgree, [Next]_vars PROVE InFlightHasItsApplication' OBVIOUS
<1> USE DEF DeploymentsAgree, InFlightHasItsApplication, InFlight
<1>1. CASE SameDeployments BY <1>1 DEF SameDeployments
<1>2. ASSUME NEW s, NEW name, RegisterApplication(s, name) PROVE InFlightHasItsApplication'
  BY <1>2 DEF RegisterApplication, Put
<1>3. ASSUME NEW s, NEW app, DeleteApplication(s, app) PROVE InFlightHasItsApplication'
  BY <1>3 DEF DeleteApplication, HasDeploymentInFlight, Drop, Restrict
<1>4. ASSUME NEW s, NEW app, NEW h, NEW commit, QueueDeployment(s, app, h, commit)
      PROVE  InFlightHasItsApplication'
  BY <1>4 DEF QueueDeployment, Put
<1>5. ASSUME NEW s, NEW d, RollbackDeployment(s, d) \/ StartDeployment(s, d)
      PROVE  InFlightHasItsApplication'
  BY <1>5 DEF RollbackDeployment, StartDeployment, IsRollbackable, IsClaimable, deploymentFrame,
              TypeOK, IsTable, Deployment
<1>6. ASSUME NEW s, NEW d, NEW succeeded, FinishDeployment(s, d, succeeded)
      PROVE  InFlightHasItsApplication'
  BY <1>6 DEF FinishDeployment, deploymentFrame, TypeOK, IsTable, Deployment
<1> QED BY <1>1, <1>2, <1>3, <1>4, <1>5, <1>6, DeploymentSteps

LEMMA TimesStep == DeploymentsAgree /\ [Next]_vars => TimesAgreeWithStatus'
<1> SUFFICES ASSUME DeploymentsAgree, [Next]_vars PROVE TimesAgreeWithStatus' OBVIOUS
<1> USE DEF DeploymentsAgree, TimesAgreeWithStatus, InFlight
<1>1. CASE SameDeployments BY <1>1 DEF SameDeployments
<1>2. ASSUME NEW s, NEW name, RegisterApplication(s, name) PROVE TimesAgreeWithStatus'
  BY <1>2 DEF RegisterApplication
<1>3. ASSUME NEW s, NEW app, DeleteApplication(s, app) PROVE TimesAgreeWithStatus'
  BY <1>3 DEF DeleteApplication
<1>4. ASSUME NEW s, NEW app, NEW h, NEW commit, QueueDeployment(s, app, h, commit)
      PROVE  TimesAgreeWithStatus'
  BY <1>4 DEF QueueDeployment, Put
<1>5. ASSUME NEW s, NEW d, RollbackDeployment(s, d) PROVE TimesAgreeWithStatus'
  BY <1>5 DEF RollbackDeployment, IsRollbackable, TypeOK, IsTable, Deployment
<1>6. ASSUME NEW s, NEW d, StartDeployment(s, d) PROVE TimesAgreeWithStatus'
  BY <1>6 DEF StartDeployment, IsClaimable, TypeOK, IsTable, Deployment
<1>7. ASSUME NEW s, NEW d, NEW succeeded, FinishDeployment(s, d, succeeded)
      PROVE  TimesAgreeWithStatus'
  BY <1>7 DEF FinishDeployment, TypeOK, IsTable, Deployment
<1> QED BY <1>1, <1>2, <1>3, <1>4, <1>5, <1>6, <1>7, DeploymentSteps

LEMMA DeploymentsAgreeStep == DeploymentsAgree /\ [Next]_vars => DeploymentsAgree'
BY TypeStep, FreshStep, InFlightStep, TimesStep DEF DeploymentsAgree

\* A deployment in flight never loses its application.
THEOREM InFlightApplications == Spec => []InFlightHasItsApplication
<1>1. Init => DeploymentsAgree BY DeploymentsAgreeInit
<1>2. DeploymentsAgree /\ [Next]_vars => DeploymentsAgree' BY DeploymentsAgreeStep
<1>3. DeploymentsAgree => InFlightHasItsApplication BY DEF DeploymentsAgree
<1> QED BY <1>1, <1>2, <1>3, PTL DEF Spec

\* A deployment's status and its two timestamps always tell one story.
THEOREM TimesAgree == Spec => []TimesAgreeWithStatus
<1>1. Init => DeploymentsAgree BY DeploymentsAgreeInit
<1>2. DeploymentsAgree /\ [Next]_vars => DeploymentsAgree' BY DeploymentsAgreeStep
<1>3. DeploymentsAgree => TimesAgreeWithStatus BY DEF DeploymentsAgree
<1> QED BY <1>1, <1>2, <1>3, PTL DEF Spec

-----------------------------------------------------------------------------
(* Workloads *)

\* Which hosts there are, their workload counts and the workload rows are left alone.
SameWorkloads ==
    /\ DOMAIN host' = DOMAIN host
    /\ \A h \in DOMAIN host : host'[h].workload_count = host[h].workload_count
    /\ UNCHANGED workload

LEMMA WorkloadSteps ==
    ASSUME TypeOK, [Next]_vars
    PROVE  \/ \E s \in Identities, code \in Codes, name \in HostNames : EnrollHost(s, code, name)
           \/ \E s \in Identities, h \in HostId : DeleteHost(s, h)
           \/ \E s \in Identities, load \in Loads, report \in SUBSET WorkloadNames :
                 Heartbeat(s, load, report)
           \/ SameWorkloads
<1> USE DEF SameWorkloads, TypeOK, IsTable
<1>1. ASSUME NEW s \in Identities, ClientConnected(s) \/ ClientDisconnected(s)
      PROVE SameWorkloads
  BY <1>1 DEF ClientConnected, ClientDisconnected, presenceFrame, Host
<1>2. CASE ReapStaleHosts \/ Tick
  BY <1>2 DEF ReapStaleHosts, Tick, presenceFrame, Host
<1>3. ASSUME NEW s, NEW h \in HostId, NEW draining \in BOOLEAN, SetHostDraining(s, h, draining)
      PROVE SameWorkloads
  BY <1>3 DEF SetHostDraining, presenceFrame, Host
<1>4. ASSUME NEW s,
             \/ ClaimInstance(s)
             \/ \E code \in Codes : CreateEnrollmentToken(s, code)
             \/ \E name \in AppNames : RegisterApplication(s, name)
             \/ \E app \in AppId, h \in HostId, commit \in Commits :
                   QueueDeployment(s, app, h, commit)
             \/ \E d \in DeploymentId : RollbackDeployment(s, d) \/ StartDeployment(s, d)
             \/ \E app \in AppId : DeleteApplication(s, app)
             \/ \E d \in DeploymentId, seq \in Seqs : AppendLog(s, d, seq)
             \/ \E d \in DeploymentId, succeeded \in BOOLEAN : FinishDeployment(s, d, succeeded)
      PROVE SameWorkloads
  BY <1>4 DEF ClaimInstance, CreateEnrollmentToken, RegisterApplication, QueueDeployment,
              RollbackDeployment, StartDeployment, DeleteApplication, AppendLog,
              FinishDeployment, deploymentFrame
<1>5. CASE UNCHANGED vars
  BY <1>5 DEF vars
<1> QED
  BY <1>1, <1>2, <1>3, <1>4, <1>5 DEF Next, OperatorReducer, AgentReducer, Connected

\* A report lists as many names as it makes rows.
LEMMA ReportedCount ==
    ASSUME NEW h, NEW report, IsFiniteSet(report)
    PROVE  Cardinality(Reported(h, report)) = Cardinality(report)
<1> DEFINE row == [n \in report |-> [host_id |-> h, name |-> n]]
<1>1. row \in [report -> Reported(h, report)]
  BY DEF Reported
<1>2. \A m, n \in report : row[m] = row[n] => m = n
  OBVIOUS
<1>3. \A w \in Reported(h, report) : \E n \in report : row[n] = w
  BY DEF Reported
<1>4. row \in Bijection(report, Reported(h, report))
  <2> HIDE DEF row
  <2> QED BY <1>1, <1>2, <1>3, Fun_IsBij
<1>5. ExistsBijection(report, Reported(h, report))
  BY <1>4 DEF ExistsBijection
<1> QED BY <1>5, FS_Bijection

\* An enrolment must find no rows under the new id, so the invariant needs the
\* whole host half.
WorkloadsAgree == HostsAgree /\ WorkloadsMatchTheirHost

LEMMA WorkloadInit == Init => WorkloadsAgree
BY HostsAgreeInit DEF WorkloadsAgree, Init, WorkloadsMatchTheirHost, EmptyTable

LEMMA WorkloadStep == WorkloadsAgree /\ [Next]_vars => WorkloadsAgree'
<1> SUFFICES ASSUME WorkloadsAgree, [Next]_vars PROVE WorkloadsAgree' OBVIOUS
<1> USE DEF WorkloadsAgree
<1>0. HostsAgree' BY HostsAgreeStep
<1>t. TypeOK BY DEF HostsAgree
<1>1. CASE SameWorkloads
  BY <1>0, <1>1 DEF SameWorkloads, WorkloadsMatchTheirHost
<1>2. ASSUME NEW s, NEW code, NEW name, EnrollHost(s, code, name)
      PROVE  WorkloadsMatchTheirHost'
  <2> DEFINE new == next_id.host
  <2>1. new \notin DOMAIN host
    BY DEF HostsAgree, IdsAreFresh, TypeOK, IsTable, HostId
  <2>2. /\ DOMAIN host' = DOMAIN host \cup {new}
        /\ host'[new].workload_count = 0
        /\ \A h \in DOMAIN host : host'[h] = host[h]
        /\ workload' = workload
    BY <1>2, <2>1 DEF EnrollHost, Put
  <2>3. {w \in workload : w.host_id = new} = {}
    BY <2>1 DEF WorkloadsMatchTheirHost
  <2> QED BY <2>2, <2>3, FS_EmptySet DEF WorkloadsMatchTheirHost
<1>3. ASSUME NEW s, NEW h, DeleteHost(s, h) PROVE WorkloadsMatchTheirHost'
  <2>1. \A g \in DOMAIN host' : g # h /\ g \in DOMAIN host /\ host'[g] = host[g]
    BY <1>3 DEF DeleteHost, Drop, Restrict
  <2>2. ASSUME NEW g, g # h
        PROVE  {w \in workload' : w.host_id = g} = {w \in workload : w.host_id = g}
    BY <1>3, <2>2 DEF DeleteHost
  <2>3. \A w \in workload' : w.host_id \in DOMAIN host'
    BY <1>3 DEF DeleteHost, Drop, Restrict, WorkloadsMatchTheirHost
  <2> QED BY <2>1, <2>2, <2>3 DEF WorkloadsMatchTheirHost
<1>4. ASSUME NEW s, NEW load, NEW report \in SUBSET WorkloadNames, Heartbeat(s, load, report)
      PROVE  WorkloadsMatchTheirHost'
  <2> DEFINE h == agent_binding[s]
  <2>1. h \in DOMAIN host /\ host[h] \in Host
    BY <1>4, <1>t DEF Heartbeat, CallerHost, IsBound, TypeOK, IsTable
  <2>2. /\ DOMAIN host' = DOMAIN host
        /\ host'[h].workload_count = Cardinality(report)
        /\ \A g \in DOMAIN host : g # h => host'[g] = host[g]
        /\ workload' = {w \in workload : w.host_id # h} \cup Reported(h, report)
    BY <1>4, <2>1 DEF Heartbeat, WorkloadsAfter, Host
  <2>3. {w \in workload' : w.host_id = h} = Reported(h, report)
    BY <2>2 DEF Reported
  <2>4. ASSUME NEW g, g # h
        PROVE  {w \in workload' : w.host_id = g} = {w \in workload : w.host_id = g}
    BY <2>2, <2>4 DEF Reported
  <2>5. Cardinality(Reported(h, report)) = Cardinality(report)
    BY ReportedCount, DataAssumption, FS_Subset
  <2>6. \A w \in workload' : w.host_id \in DOMAIN host'
    BY <2>1, <2>2 DEF WorkloadsMatchTheirHost, Reported
  <2>7. \A g \in DOMAIN host' :
           host'[g].workload_count = Cardinality({w \in workload' : w.host_id = g})
    BY <2>2, <2>3, <2>4, <2>5 DEF WorkloadsMatchTheirHost
  <2> QED BY <2>6, <2>7 DEF WorkloadsMatchTheirHost
<1> QED BY <1>0, <1>t, <1>1, <1>2, <1>3, <1>4, WorkloadSteps

\* The workload rows and each host's workload count always agree.
THEOREM WorkloadsMatch == Spec => []WorkloadsMatchTheirHost
<1>1. Init => WorkloadsAgree BY WorkloadInit
<1>2. WorkloadsAgree /\ [Next]_vars => WorkloadsAgree' BY WorkloadStep
<1>3. WorkloadsAgree => WorkloadsMatchTheirHost BY DEF WorkloadsAgree
<1> QED BY <1>1, <1>2, <1>3, PTL DEF Spec

-----------------------------------------------------------------------------
(* What a step may never do *)

LEMMA HistoryStep == TypeOK /\ IdsAreFresh /\ [Next]_vars => [KeepsHistory]_vars
<1> SUFFICES ASSUME TypeOK, IdsAreFresh, [Next]_vars PROVE KeepsHistory OBVIOUS
<1> USE DEF KeepsHistory, TypeOK, IsTable
<1>1. CASE SameDeployments BY <1>1 DEF SameDeployments
<1>2. ASSUME NEW s, NEW name, RegisterApplication(s, name) PROVE KeepsHistory
  BY <1>2 DEF RegisterApplication
<1>3. ASSUME NEW s, NEW app, DeleteApplication(s, app) PROVE KeepsHistory
  BY <1>3 DEF DeleteApplication
<1>4. ASSUME NEW s, NEW app, NEW h, NEW commit, QueueDeployment(s, app, h, commit)
      PROVE  KeepsHistory
  BY <1>4 DEF QueueDeployment, Put, IdsAreFresh, DeploymentId
<1>5. ASSUME NEW s, NEW d, RollbackDeployment(s, d) \/ StartDeployment(s, d)
      PROVE  KeepsHistory
  BY <1>5 DEF RollbackDeployment, StartDeployment, IsRollbackable, IsClaimable, Deployment
<1>6. ASSUME NEW s, NEW d, NEW succeeded, FinishDeployment(s, d, succeeded)
      PROVE  KeepsHistory
  BY <1>6 DEF FinishDeployment, Deployment
<1> QED BY <1>1, <1>2, <1>3, <1>4, <1>5, <1>6, DeploymentSteps

\* Deployment rows outlive their application and host, never change target, are
\* never queued again, and are rolled back only after succeeding.
THEOREM HistoryKept == Spec => DeploymentHistory
<1>1. Init => TypeOK /\ IdsAreFresh BY TypeInit, FreshInit
<1>2. TypeOK /\ IdsAreFresh /\ [Next]_vars => (TypeOK /\ IdsAreFresh)' BY TypeStep, FreshStep
<1>3. TypeOK /\ IdsAreFresh /\ [Next]_vars => [KeepsHistory]_vars BY HistoryStep
<1> QED BY <1>1, <1>2, <1>3, PTL DEF Spec, DeploymentHistory

LEMMA SilenceStep == TypeOK /\ [Next]_vars => [NoticesSilence]_vars
<1> SUFFICES ASSUME TypeOK, [Next]_vars, NEW g \in HostId, Overdue(g)'
             PROVE  \/ Overdue(g) /\ ~ReapStaleHosts
                    \/ g \in DOMAIN host /\ DrainsAnOfflineHost(g)
  BY DEF NoticesSilence
<1> DEFINE Goal == \/ Overdue(g) /\ ~ReapStaleHosts
                   \/ g \in DOMAIN host /\ DrainsAnOfflineHost(g)
<1> USE DEF Overdue, TypeOK, IsTable
<1>n. STALE_AFTER \in Nat /\ since_sweep \in Nat /\ REAP_INTERVAL \in Nat \ {0}
  BY TimeAssumption
<1>r. ~ReapStaleHosts
  BY <1>n DEF ReapStaleHosts, IsReapable, Host
<1>1. ASSUME NEW s \in Identities, ClientConnected(s) \/ ClientDisconnected(s) PROVE Goal
  BY <1>1, <1>n, <1>r DEF ClientConnected, ClientDisconnected, IsBound, Host
<1>2. CASE Tick
  BY <1>2, <1>n, <1>r DEF Tick, Host
<1>3. ASSUME NEW s \in Connected, NEW h \in HostId, NEW draining \in BOOLEAN,
             SetHostDraining(s, h, draining)
      PROVE Goal
  <2>1. since_sweep' = since_sweep /\ DOMAIN host' = DOMAIN host
    BY <1>3 DEF SetHostDraining
  <2>2. host'[g].silence = host[g].silence
    BY <1>3, <2>1 DEF SetHostDraining, Host
  <2>3. CASE host[g].status = "Offline"
    <3>1. h = g
      BY <1>3, <2>3, <2>1 DEF SetHostDraining
    <3>2. draining = TRUE
      BY <1>3, <2>3, <3>1, <2>1 DEF SetHostDraining, DrainedStatus, Host
    <3> QED BY <1>3, <3>1, <3>2, <2>3, <2>1 DEF DrainsAnOfflineHost
  <2>4. CASE host[g].status # "Offline"
    BY <2>1, <2>2, <2>4, <1>r
  <2> QED BY <2>3, <2>4
<1>4. ASSUME NEW s, NEW h, DeleteHost(s, h) PROVE Goal
  BY <1>4, <1>r DEF DeleteHost, Drop, Restrict
<1>5. ASSUME NEW s, NEW code, NEW name, EnrollHost(s, code, name) PROVE Goal
  BY <1>5, <1>n, <1>r DEF EnrollHost, Put
<1>6. ASSUME NEW s, NEW load, NEW report, Heartbeat(s, load, report) PROVE Goal
  BY <1>6, <1>n, <1>r DEF Heartbeat, CallerHost, IsBound, Host
<1>7. ASSUME NEW s,
             \/ ClaimInstance(s)
             \/ \E code \in Codes : CreateEnrollmentToken(s, code)
             \/ \E name \in AppNames : RegisterApplication(s, name)
             \/ \E app \in AppId, h \in HostId, commit \in Commits :
                   QueueDeployment(s, app, h, commit)
             \/ \E d \in DeploymentId : RollbackDeployment(s, d) \/ StartDeployment(s, d)
             \/ \E app \in AppId : DeleteApplication(s, app)
             \/ \E d \in DeploymentId, seq \in Seqs : AppendLog(s, d, seq)
             \/ \E d \in DeploymentId, succeeded \in BOOLEAN : FinishDeployment(s, d, succeeded)
      PROVE Goal
  BY <1>7, <1>r DEF ClaimInstance, CreateEnrollmentToken, RegisterApplication, QueueDeployment,
              RollbackDeployment, StartDeployment, DeleteApplication, AppendLog,
              FinishDeployment, deploymentFrame
<1>8. CASE UNCHANGED vars
  BY <1>8, <1>r DEF vars
<1> QED
  BY <1>r, <1>1, <1>2, <1>3, <1>4, <1>5, <1>6, <1>7, <1>8
     DEF Next, OperatorReducer, AgentReducer

\* Silence is noticed within the staleness window and one sweep, whatever the
\* clients do; only draining an Offline host hides it again, until the next sweep.
THEOREM SilenceNoticed == Spec => SilenceIsNoticed
<1>1. Init => TypeOK BY TypeInit
<1>2. TypeOK /\ [Next]_vars => TypeOK' BY TypeStep
<1>3. TypeOK /\ [Next]_vars => [NoticesSilence]_vars BY SilenceStep
<1> QED BY <1>1, <1>2, <1>3, PTL DEF Spec, SilenceIsNoticed

LEMMA OwnHostStep == TypeOK /\ IdsAreFresh /\ [Next]_vars => [TouchesOnlyOwnHost]_vars
<1> SUFFICES ASSUME TypeOK, IdsAreFresh, NEW s \in Connected, AgentReducer(s),
                    NEW h \in DOMAIN host,
                    s \in DOMAIN agent_binding => agent_binding[s] # h
             PROVE  UNCHANGED RowsOf(h)
  BY DEF TouchesOnlyOwnHost
<1> USE DEF TypeOK, IsTable
<1>1. ASSUME NEW code, NEW name, EnrollHost(s, code, name) PROVE UNCHANGED RowsOf(h)
  <2> DEFINE new == next_id.host
  <2>1. new # h
    BY DEF IdsAreFresh, HostId
  <2>2. host'[h] = host[h] /\ h \in DOMAIN host'
    BY <1>1, <2>1 DEF EnrollHost, Put
  <2>3. {x \in DOMAIN agent_binding' : agent_binding'[x] = h}
           = {x \in DOMAIN agent_binding : agent_binding[x] = h}
    BY <1>1, <2>1 DEF EnrollHost, Put
  <2>4. UNCHANGED <<workload, deployment, deploy_log_line>>
    BY <1>1 DEF EnrollHost
  <2>5. {host'[g] : g \in DOMAIN host' \cap {h}} = {host[g] : g \in DOMAIN host \cap {h}}
    BY <2>2
  <2> QED BY <2>3, <2>4, <2>5 DEF RowsOf
<1>2. ASSUME NEW load, NEW report, Heartbeat(s, load, report) PROVE UNCHANGED RowsOf(h)
  <2>1. agent_binding[s] # h
    BY <1>2 DEF Heartbeat, CallerHost, IsBound
  <2>2. host'[h] = host[h] /\ h \in DOMAIN host'
    BY <1>2, <2>1 DEF Heartbeat
  <2>3. {w \in workload' : w.host_id = h} = {w \in workload : w.host_id = h}
    BY <1>2, <2>1 DEF Heartbeat, WorkloadsAfter, Reported
  <2>4. UNCHANGED <<agent_binding, deployment, deploy_log_line>>
    BY <1>2 DEF Heartbeat
  <2>5. {host'[g] : g \in DOMAIN host' \cap {h}} = {host[g] : g \in DOMAIN host \cap {h}}
    BY <2>2
  <2> QED BY <2>3, <2>4, <2>5 DEF RowsOf
<1>3. ASSUME NEW d, deployment[d].host_id # h, d \in DOMAIN deployment,
             UNCHANGED <<host, agent_binding, workload, deploy_log_line>>,
             DOMAIN deployment' = DOMAIN deployment,
             \A e \in DOMAIN deployment : e # d => deployment'[e] = deployment[e],
             deployment'[d].host_id = deployment[d].host_id
      PROVE  UNCHANGED RowsOf(h)
  <2>1. {e \in DOMAIN deployment' : deployment'[e].host_id = h}
           = {e \in DOMAIN deployment : deployment[e].host_id = h}
    BY <1>3
  <2>2. \A e \in DOMAIN deployment : deployment[e].host_id = h => deployment'[e] = deployment[e]
    BY <1>3
  <2>3. {<<e, deployment'[e]>> : e \in {e \in DOMAIN deployment' : deployment'[e].host_id = h}}
           = {<<e, deployment[e]>> : e \in {e \in DOMAIN deployment : deployment[e].host_id = h}}
    BY <2>1, <2>2
  <2>4. {l \in deploy_log_line' : /\ l.deployment_id \in DOMAIN deployment'
                                  /\ deployment'[l.deployment_id].host_id = h}
           = {l \in deploy_log_line : /\ l.deployment_id \in DOMAIN deployment
                                      /\ deployment[l.deployment_id].host_id = h}
    BY <1>3
  <2> QED BY <1>3, <2>3, <2>4 DEF RowsOf
<1>4. ASSUME NEW d, OwnedDeployment(s, d) PROVE deployment[d].host_id # h /\ d \in DOMAIN deployment
  BY <1>4 DEF OwnedDeployment, CallerHost, IsBound
<1>5. ASSUME NEW d, StartDeployment(s, d) PROVE UNCHANGED RowsOf(h)
  BY <1>3, <1>4, <1>5 DEF StartDeployment, IsClaimable, deploymentFrame, Deployment
<1>6. ASSUME NEW d, NEW succeeded, FinishDeployment(s, d, succeeded) PROVE UNCHANGED RowsOf(h)
  BY <1>3, <1>4, <1>6 DEF FinishDeployment, deploymentFrame, Deployment
<1>7. ASSUME NEW d, NEW seq, AppendLog(s, d, seq) PROVE UNCHANGED RowsOf(h)
  <2>1. {l \in deploy_log_line' : /\ l.deployment_id \in DOMAIN deployment'
                                  /\ deployment'[l.deployment_id].host_id = h}
           = {l \in deploy_log_line : /\ l.deployment_id \in DOMAIN deployment
                                      /\ deployment[l.deployment_id].host_id = h}
    BY <1>4, <1>7 DEF AppendLog
  <2> QED BY <1>7, <2>1 DEF AppendLog, RowsOf
<1> QED BY <1>1, <1>2, <1>5, <1>6, <1>7 DEF AgentReducer

\* "An agent can only ever touch its own host."
THEOREM OwnHostOnly == Spec => AgentsTouchOnlyTheirHost
<1>1. Init => TypeOK /\ IdsAreFresh BY TypeInit, FreshInit
<1>2. TypeOK /\ IdsAreFresh /\ [Next]_vars => (TypeOK /\ IdsAreFresh)' BY TypeStep, FreshStep
<1>3. TypeOK /\ IdsAreFresh /\ [Next]_vars => [TouchesOnlyOwnHost]_vars BY OwnHostStep
<1> QED BY <1>1, <1>2, <1>3, PTL DEF Spec, AgentsTouchOnlyTheirHost
=============================================================================
