----------------------------- MODULE FleetProofs -----------------------------
(***************************************************************************)
(* Proofs of what the runs of MCFleet check, for any number of machines,   *)
(* deployments, crashes and calls.                                         *)
(***************************************************************************)
EXTENDS Fleet, ControlPlaneProofs

-----------------------------------------------------------------------------
(* Sets of ids in ascending order *)

IsAscending(s) == \A i, j \in DOMAIN s : i < j => s[i] < s[j]

\* How many elements of S are not above x: the place of x in the order.
Rank(S, x) == Cardinality({y \in S : y <= x})

LEMMA RankIsStrict ==
    ASSUME NEW S, IsFiniteSet(S), S \subseteq Nat, NEW x \in S, NEW y \in S, x < y
    PROVE  Rank(S, x) < Rank(S, y)
<1> DEFINE X == {z \in S : z <= x}
           Y == {z \in S : z <= y}
<1>0. x \in Nat /\ y \in Nat
  OBVIOUS
<1>1. X \subseteq Y /\ Y \subseteq S /\ y \in Y /\ y \notin X
  <2>1. ASSUME NEW z \in S, z <= x PROVE z <= y
    <3>1. z \in Nat OBVIOUS
    <3> QED BY <1>0, <2>1, <3>1
  <2>2. y <= y /\ ~ y <= x
    BY <1>0
  <2>3. X \subseteq Y
    BY <2>1
  <2>4. Y \subseteq S
    OBVIOUS
  <2> QED BY <2>2, <2>3, <2>4
<1>2. IsFiniteSet(Y)
  BY <1>1, FS_Subset
<1>3. X # Y /\ X \in SUBSET Y
  BY <1>1
<1>4. IsFiniteSet(X) /\ Cardinality(X) <= Cardinality(Y)
      /\ (Cardinality(X) = Cardinality(Y) => X = Y)
  BY <1>2, <1>3, FS_Subset
<1>5. Cardinality(X) \in Nat /\ Cardinality(Y) \in Nat
  BY <1>2, <1>4, FS_CardinalityType
<1> HIDE DEF X, Y
<1>6. Cardinality(X) < Cardinality(Y)
  BY <1>3, <1>4, <1>5
<1> QED BY <1>6 DEF Rank, X, Y

LEMMA RankIsAPlace ==
    ASSUME NEW S, IsFiniteSet(S), S \subseteq Nat, NEW x \in S
    PROVE  Rank(S, x) \in 1 .. Cardinality(S)
<1> DEFINE X == {z \in S : z <= x}
<1>1. X \in SUBSET S /\ x \in X
  OBVIOUS
<1>2. IsFiniteSet(X) /\ Cardinality(X) <= Cardinality(S)
  BY <1>1, FS_Subset
<1>3. Cardinality(X) \in Nat /\ Cardinality(S) \in Nat /\ Cardinality(X) # 0
  BY <1>1, <1>2, FS_CardinalityType, FS_EmptySet
<1> HIDE DEF X
<1>4. Cardinality(X) \in 1 .. Cardinality(S)
  BY <1>2, <1>3
<1> QED BY <1>4 DEF Rank, X

\* A finite set of numbers can be listed in ascending order.
LEMMA OldestExists ==
    ASSUME NEW S, IsFiniteSet(S), S \subseteq Nat
    PROVE  \E s \in SetToSeqs(S) : IsAscending(s)
<1> DEFINE n == Cardinality(S)
           rank == [x \in S |-> Rank(S, x)]
<1>1. n \in Nat
  BY FS_CardinalityType
<1>2. rank \in [S -> 1 .. n]
  BY RankIsAPlace
<1>3. \A x, y \in S : x < y => rank[x] < rank[y]
  BY RankIsStrict
<1>4. \A x, y \in S : rank[x] = rank[y] => x = y
  <2> SUFFICES ASSUME NEW x \in S, NEW y \in S, x # y PROVE rank[x] # rank[y]
    OBVIOUS
  <2>1. x < y \/ y < x
    OBVIOUS
  <2>2. rank[x] \in 1 .. n /\ rank[y] \in 1 .. n
    BY <1>2
  <2> HIDE DEF rank, n
  <2> QED BY <2>1, <2>2, <1>1, <1>3
<1> HIDE DEF rank
<1>5. rank \in Injection(S, 1 .. n)
  BY <1>2, <1>4, Fun_IsInj
<1>6. IsFiniteSet(1 .. n) /\ Cardinality(1 .. n) = n
  BY <1>1, FS_Interval
<1>7. rank \in Surjection(S, 1 .. n)
  BY <1>5, <1>6, FS_Injection DEF n
<1>8. \A i \in 1 .. n : \E x \in S : rank[x] = i
  BY <1>7 DEF Surjection
<1> DEFINE s == [i \in 1 .. n |-> CHOOSE x \in S : rank[x] = i]
<1>9. \A i \in 1 .. n : s[i] \in S /\ rank[s[i]] = i
  BY <1>8
<1> HIDE DEF n
<1>10. s \in [1 .. n -> S] /\ DOMAIN s = 1 .. n
  BY <1>8
<1> HIDE DEF s
<1>11. \A i, j \in 1 .. n : i < j => s[i] < s[j]
  <2> SUFFICES ASSUME NEW i \in 1 .. n, NEW j \in 1 .. n, i < j PROVE s[i] < s[j]
    OBVIOUS
  <2>1. s[i] \in Nat /\ s[j] \in Nat
    BY <1>9
  <2>2. s[i] \in S /\ s[j] \in S /\ rank[s[i]] = i /\ rank[s[j]] = j
    BY <1>9
  <2>3. s[j] # s[i]
    BY <2>2
  <2>4. ~ s[j] < s[i]
    <3> SUFFICES ASSUME s[j] < s[i] PROVE FALSE OBVIOUS
    <3>1. j < i
      BY <1>3, <2>2
    <3> QED BY <1>1, <3>1
  <2> QED BY <2>1, <2>3, <2>4
<1>12. \A i, j \in 1 .. n : i # j => s[i] # s[j]
  BY <1>9
<1>13. s \in SetToSeqs(S)
  BY <1>10, <1>12 DEF SetToSeqs, n
<1> QED BY <1>10, <1>11, <1>13 DEF IsAscending

\* What Oldest returns: every element once, in ascending order.
LEMMA OldestSorts ==
    ASSUME NEW S, IsFiniteSet(S), S \subseteq Nat
    PROVE  /\ Oldest(S) \in Seq(S)
           /\ IsAscending(Oldest(S))
           /\ \A x \in S : \E i \in DOMAIN Oldest(S) : Oldest(S)[i] = x
<1> DEFINE n == Cardinality(S)
           s == Oldest(S)
<1>1. n \in Nat
  BY FS_CardinalityType
<1>2. s \in SetToSeqs(S) /\ IsAscending(s)
  BY OldestExists DEF Oldest, IsAscending
<1> HIDE DEF s
<1>3. s \in [1 .. n -> S] /\ (\A i, j \in 1 .. n : i # j => s[i] # s[j])
  BY <1>2 DEF SetToSeqs
<1> HIDE DEF n
<1>4. s \in Injection(1 .. n, S)
  BY <1>3, Fun_IsInj
<1>5. s \in Surjection(1 .. n, S)
  BY <1>1, <1>4, FS_Injection, FS_Interval DEF n
<1>6. s \in Seq(S)
  BY <1>1, <1>3
<1>7. \A x \in S : \E i \in DOMAIN s : s[i] = x
  BY <1>5, <1>3 DEF Surjection
<1> QED BY <1>2, <1>6, <1>7 DEF s

-----------------------------------------------------------------------------
(* The agents are clients of the control plane like any other: what is proved *)
(* of ControlPlane for any callers holds of the fleet                         *)

Busy == {"claiming", "preparing", "applying"}

Call == {[kind |-> "enroll"]}
            \cup [kind : {"start", "finish"}, id : DeploymentId, ok : BOOLEAN]

CachedDeployment == [host_id : HostId, status : DeployStatus]

AgentTypeOK ==
    /\ pc \in [Machines -> {"down", "settling", "polling"} \cup Busy]
    /\ jobs \in [Machines -> Seq(DeploymentId)]
    /\ link \in [Machines -> BOOLEAN]
    /\ calls \in [Machines -> Seq(Call)]
    /\ cache = [m \in Machines |-> cache[m]]
    /\ \A m \in Machines : /\ IsTable(cache[m].host, HostId, HostNames)
                           /\ IsTable(cache[m].deployment, DeploymentId, CachedDeployment)
    /\ enrolled \in [Machines -> BOOLEAN]
    /\ crashes \in [Machines -> Nat]
    /\ runs \in [Machines -> [DeploymentId -> 0 .. 2]]
    /\ succeeded \subseteq DeploymentId
    /\ \A m \in Machines : pc[m] \in Busy => jobs[m] # <<>>

\* The database does not see the end of a connection before its last call.
CallsComeFromClients ==
    /\ conn[Server] > 0
    /\ \A m \in Machines : link[m] \/ calls[m] # <<>> => conn[m] > 0

FleetTyped == TypeOK /\ AgentTypeOK /\ CallsComeFromClients

\* What a delivered call does, and why it is refused when it is.
Accepted(m, call) ==
    \/ call.kind = "enroll" /\ EnrollHost(m, CodeOf[m], NameOf[m])
    \/ call.kind = "start" /\ StartDeployment(m, call.id)
    \/ call.kind = "finish" /\ OwnedDeployment(m, call.id)
                            /\ FinishDeployment(m, call.id, call.ok)

Rejected(m, call) ==
    /\ UNCHANGED vars
    /\ \/ call.kind = "enroll" /\ ~CanEnroll(m)
       \/ call.kind = "start" /\ ~IsClaimable(m, call.id)
       \/ call.kind = "finish" /\ ~OwnedDeployment(m, call.id)

LEMMA HeadIsACall ==
    ASSUME AgentTypeOK, NEW m \in Machines, calls[m] # <<>>
    PROVE  /\ Head(calls[m]) \in Call
           /\ Tail(calls[m]) \in Seq(Call)
           /\ 1 \in DOMAIN calls[m] /\ Head(calls[m]) = calls[m][1]
           /\ Len(Tail(calls[m])) = Len(calls[m]) - 1
           /\ \A i \in DOMAIN Tail(calls[m]) : i + 1 \in DOMAIN calls[m]
                                              /\ Tail(calls[m])[i] = calls[m][i + 1]
<1>1. calls[m] \in Seq(Call)
  BY DEF AgentTypeOK
<1> QED BY <1>1

LEMMA DeliverRuns ==
    ASSUME AgentTypeOK, NEW m \in Machines, Deliver(m)
    PROVE  Accepted(m, Head(calls[m])) \/ Rejected(m, Head(calls[m]))
<1> DEFINE call == Head(calls[m])
<1>1. call \in Call /\ Runs(m, call)
  BY HeadIsACall DEF Deliver
<1> HIDE DEF call
<1>2. call.kind \in {"enroll", "start", "finish"}
  BY <1>1 DEF Call
<1> DEFINE Ran == Accepted(m, call) \/ Rejected(m, call)
<1>3. ASSUME call.kind = "enroll" PROVE Ran
  BY <1>1, <1>3 DEF Runs, Accepted, Rejected
<1>4. ASSUME call.kind = "start" PROVE Ran
  BY <1>1, <1>4 DEF Runs, Accepted, Rejected
<1>5. ASSUME call.kind = "finish" PROVE Ran
  BY <1>1, <1>5 DEF Runs, Accepted, Rejected
<1> QED BY <1>2, <1>3, <1>4, <1>5 DEF call

\* The control plane moves only by a connection, a call or the operator.
LEMMA FleetStepsAreCalls == FleetTyped /\ [FleetNext]_fleetVars => [Next]_vars
<1> SUFFICES ASSUME FleetTyped, [FleetNext]_fleetVars PROVE [Next]_vars OBVIOUS
<1> USE DEF FleetTyped
<1>1. \A m \in Machines : m \in Identities
  BY FleetAssumption
<1>2. Server \in Connected
  BY FleetAssumption DEF CallsComeFromClients, Connected
<1>3. ASSUME NEW m \in Machines, Start(m) \/ Disconnected(m) PROVE Next
  BY <1>1, <1>3 DEF Start, Disconnected, Next
<1>4. ASSUME NEW m \in Machines, Deliver(m) PROVE [Next]_vars
  <2> DEFINE call == Head(calls[m])
  <2>1. m \in Connected /\ call \in Call
    BY <1>1, <1>4, HeadIsACall DEF Deliver, CallsComeFromClients, Connected
  <2>2. Accepted(m, call) \/ Rejected(m, call)
    BY <1>4, DeliverRuns
  <2>3. CodeOf[m] \in Codes /\ NameOf[m] \in HostNames
    BY FleetAssumption
  <2> HIDE DEF call
  <2>4. CASE call.kind = "enroll" /\ EnrollHost(m, CodeOf[m], NameOf[m])
    BY <2>1, <2>3, <2>4 DEF Next, AgentReducer
  <2>5. CASE call.kind = "start" /\ StartDeployment(m, call.id)
    <3>1. call.id \in DeploymentId
      BY <2>1, <2>5 DEF Call
    <3> QED BY <2>1, <2>5, <3>1 DEF Next, AgentReducer
  <2>6. CASE call.kind = "finish" /\ FinishDeployment(m, call.id, call.ok)
    <3>1. call.id \in DeploymentId /\ call.ok \in BOOLEAN
      BY <2>1, <2>6 DEF Call
    <3> QED BY <2>1, <2>6, <3>1 DEF Next, AgentReducer
  <2> QED BY <2>2, <2>4, <2>5, <2>6 DEF Accepted, Rejected
<1>5. CASE Operate
  <2>1. ASSUME NEW h \in HostId, NEW commit \in Commits, QueueDeployment(Server, 1, h, commit)
        PROVE  Next
    <3>1. 1 \in AppId
      BY <2>1 DEF QueueDeployment, TypeOK, IsTable
    <3> QED BY <1>2, <2>1, <3>1 DEF Next, OperatorReducer
  <2>2. ASSUME NEW d \in DeploymentId, RollbackDeployment(Server, d) PROVE Next
    BY <1>2, <2>2 DEF Next, OperatorReducer
  <2>3. ASSUME NEW h \in HostId, DeleteHost(Server, h) PROVE Next
    BY <1>2, <2>3 DEF Next, OperatorReducer
  <2> QED BY <1>5, <2>1, <2>2, <2>3 DEF Operate
<1>6. ASSUME NEW m \in Machines,
             \/ Refresh(m) \/ Recover(m) \/ Poll(m) \/ Claim(m) \/ Prepare(m)
             \/ (\E ok \in BOOLEAN : Report(m, ok)) \/ Crash(m) \/ LinkDrops(m)
      PROVE  UNCHANGED vars
  BY <1>6 DEF Refresh, Recover, Poll, Claim, Prepare, Report, Crash, LinkDrops
<1> QED BY <1>3, <1>4, <1>5, <1>6 DEF FleetNext, AgentNext, fleetVars

LEMMA IsASequence ==
    ASSUME NEW S, NEW n \in Nat, NEW f \in [1 .. n -> S]
    PROVE  f \in Seq(S)
OBVIOUS

\* What the process finds in its cache is a finite set of deployments.
LEMMA FoundInCache ==
    ASSUME AgentTypeOK, NEW m \in Machines, NEW status
    PROVE  /\ MineWith(m, status) \subseteq DOMAIN cache[m].deployment
           /\ MineWith(m, status) \subseteq DeploymentId
           /\ IsFiniteSet(MineWith(m, status)) /\ MineWith(m, status) \subseteq Nat
<1>1. /\ MineWith(m, status) \subseteq DOMAIN cache[m].deployment
      /\ MineWith(m, status) \subseteq DeploymentId
  BY DEF MineWith, AgentTypeOK, IsTable
<1>2. IsFiniteSet(DeploymentId) /\ DeploymentId \subseteq Nat
  BY BoundAssumption, FS_Interval DEF DeploymentId
<1> QED BY <1>1, <1>2, FS_Subset

LEMMA JobsFound ==
    ASSUME AgentTypeOK, NEW m \in Machines
    PROVE  /\ QueuedForMe(m) \in Seq(MineWith(m, "Queued"))
           /\ QueuedForMe(m) \in Seq(DeploymentId)
           /\ IsAscending(QueuedForMe(m))
           /\ \A d \in MineWith(m, "Queued") :
                 \E i \in DOMAIN QueuedForMe(m) : QueuedForMe(m)[i] = d
<1> DEFINE S == MineWith(m, "Queued")
<1>1. IsFiniteSet(S) /\ S \subseteq Nat /\ S \subseteq DeploymentId
  BY FoundInCache
<1> HIDE DEF S
<1>2. /\ Oldest(S) \in Seq(S) /\ IsAscending(Oldest(S))
      /\ \A x \in S : \E i \in DOMAIN Oldest(S) : Oldest(S)[i] = x
  BY <1>1, OldestSorts
<1>3. Oldest(S) \in Seq(DeploymentId)
  <2> DEFINE s == Oldest(S)
  <2>1. Len(s) \in Nat /\ s \in [1 .. Len(s) -> S]
    BY <1>2
  <2> HIDE DEF s
  <2>2. s \in [1 .. Len(s) -> DeploymentId]
    BY <1>1, <2>1
  <2>3. s \in Seq(DeploymentId)
    BY <2>1, <2>2
  <2> QED BY <2>3 DEF s
<1> QED BY <1>2, <1>3 DEF S, QueuedForMe

\* recover_stranded fails each deployment it finds Running, once.
LEMMA RecoveryFound ==
    ASSUME AgentTypeOK, NEW m \in Machines
    PROVE  /\ Recovery(m) \in Seq(Call)
           /\ \A i \in DOMAIN Recovery(m) :
                 \E d \in MineWith(m, "Running") : Recovery(m)[i] = FinishCall(d, FALSE)
           /\ \A i, j \in DOMAIN Recovery(m) : i # j => Recovery(m)[i].id # Recovery(m)[j].id
<1> DEFINE S == MineWith(m, "Running")
           s == Oldest(S)
<1>1. IsFiniteSet(S) /\ S \subseteq Nat /\ S \subseteq DeploymentId
  BY FoundInCache
<1> HIDE DEF S
<1>2. s \in Seq(S) /\ IsAscending(s)
  BY <1>1, OldestSorts
<1> HIDE DEF s
<1>3. /\ Recovery(m) = [i \in DOMAIN s |-> FinishCall(s[i], FALSE)]
      /\ DOMAIN s = 1 .. Len(s) /\ Len(s) \in Nat
      /\ \A i \in DOMAIN s : s[i] \in S
  BY <1>2 DEF Recovery, FinishAll, s, S
<1>4. \A d \in S : FinishCall(d, FALSE) \in Call
  BY <1>1 DEF FinishCall, Call
<1>5. Recovery(m) \in Seq(Call)
  <2>1. Recovery(m) \in [1 .. Len(s) -> Call]
    BY <1>3, <1>4
  <2> QED BY <1>3, <2>1, IsASequence
<1>6. \A i \in DOMAIN s : Recovery(m)[i].id = s[i]
  BY <1>3 DEF FinishCall
<1>7. \A i, j \in DOMAIN s : i # j => s[i] # s[j]
  <2> SUFFICES ASSUME NEW i \in DOMAIN s, NEW j \in DOMAIN s, i # j PROVE s[i] # s[j]
    OBVIOUS
  <2>1. i < j \/ j < i
    BY <1>3
  <2>2. s[i] < s[j] \/ s[j] < s[i]
    BY <2>1, <1>2 DEF IsAscending
  <2>3. s[i] \in Nat /\ s[j] \in Nat
    BY <1>1, <1>3
  <2> QED BY <2>2, <2>3
<1>8. \A i \in DOMAIN s : \E d \in S : Recovery(m)[i] = FinishCall(d, FALSE)
  BY <1>3
<1>9. DOMAIN Recovery(m) = DOMAIN s
  BY <1>3
<1> QED BY <1>5, <1>6, <1>7, <1>8, <1>9 DEF S

LEMMA SentTyped ==
    ASSUME AgentTypeOK, NEW m \in Machines, NEW cs \in Seq(Call)
    PROVE  /\ Sent(m, cs) \in [Machines -> Seq(Call)]
           /\ \A n \in Machines : n # m => Sent(m, cs)[n] = calls[n]
           /\ link[m] => Sent(m, cs)[m] = calls[m] \o cs
           /\ ~link[m] => Sent(m, cs)[m] = calls[m]
<1>1. calls \in [Machines -> Seq(Call)] /\ calls[m] \o cs \in Seq(Call)
  BY DEF AgentTypeOK
<1>2. CASE link[m]
  BY <1>1, <1>2 DEF Sent
<1>3. CASE ~link[m]
  BY <1>1, <1>3 DEF Sent
<1> QED BY <1>2, <1>3

\* A cut leaves a beginning of the calls.
LEMMA CutTyped ==
    ASSUME AgentTypeOK, NEW m \in Machines, Cut(m)
    PROVE  /\ calls' \in [Machines -> Seq(Call)]
           /\ \A n \in Machines : n # m => calls'[n] = calls[n]
           /\ calls'[m] # <<>> => calls[m] # <<>>
           /\ \A i \in DOMAIN calls'[m] : i \in DOMAIN calls[m] /\ calls'[m][i] = calls[m][i]
<1>1. calls \in [Machines -> Seq(Call)]
  BY DEF AgentTypeOK
<1>2. PICK k \in 0 .. Len(calls[m]) : calls' = [calls EXCEPT ![m] = SubSeq(calls[m], 1, k)]
  BY DEF Cut
<1>3. /\ SubSeq(calls[m], 1, k) \in Seq(Call)
      /\ \A i \in DOMAIN SubSeq(calls[m], 1, k) :
            i \in DOMAIN calls[m] /\ SubSeq(calls[m], 1, k)[i] = calls[m][i]
  BY <1>1
<1>4. SubSeq(calls[m], 1, k) # <<>> => calls[m] # <<>>
  BY <1>1
<1> QED BY <1>1, <1>2, <1>3, <1>4
LEMMA FleetTypedInit == FleetInit => FleetTyped
<1> SUFFICES ASSUME FleetInit PROVE FleetTyped OBVIOUS
<1> USE DEF FleetInit
<1>1. \A K, R : IsTable(EmptyTable, K, R)
  BY EmptyTableTyped
<1>2. IsTable(enrollment_token, Codes, HostId \cup {NotConsumed})
  BY FleetAssumption DEF IsTable, Range
<1>3. IsTable(application, AppId, AppNames)
  <2>1. 1 \in AppId
    BY FleetAssumption, BoundAssumption DEF AppId
  <2>2. PICK name \in AppNames : application = Put(EmptyTable, 1, name)
    OBVIOUS
  <2>3. IsTable(EmptyTable, AppId, AppNames)
    BY <1>1
  <2> QED BY <2>1, <2>2, <2>3, PutTable
<1>4. next_id \in [host : 1 .. MaxHosts + 1, app : 1 .. MaxApps + 1,
                   deployment : 1 .. MaxDeployments + 1]
  BY BoundAssumption, FleetAssumption
<1>5. conn \in [Identities -> 0 .. MaxConnections] /\ since_sweep \in 0 .. REAP_INTERVAL
  BY BoundAssumption, TimeAssumption, FleetAssumption
<1>6. TypeOK
  BY <1>1, <1>2, <1>3, <1>4, <1>5, FleetAssumption DEF TypeOK
<1>7. AgentTypeOK
  BY <1>1, BoundAssumption DEF AgentTypeOK, NoTables, Busy
<1>8. CallsComeFromClients
  BY FleetAssumption DEF CallsComeFromClients
<1> QED BY <1>6, <1>7, <1>8 DEF FleetTyped

LEMMA PublishedTyped ==
    ASSUME TypeOK
    PROVE  /\ IsTable(Published.host, HostId, HostNames)
           /\ IsTable(Published.deployment, DeploymentId, CachedDeployment)
BY DEF TypeOK, IsTable, Published, Host, Deployment, CachedDeployment

LEMMA EmptySequence ==
    ASSUME NEW S, NEW s \in Seq(S)
    PROVE  s = <<>> <=> Len(s) = 0
OBVIOUS

LEMMA NextJobTyped ==
    ASSUME AgentTypeOK, NEW m \in Machines, pc[m] \in Busy, NextJob(m)
    PROVE  /\ jobs' \in [Machines -> Seq(DeploymentId)]
           /\ pc' \in [Machines -> {"down", "settling", "polling"} \cup Busy]
           /\ \A n \in Machines : n # m => jobs'[n] = jobs[n] /\ pc'[n] = pc[n]
           /\ jobs'[m] = Tail(jobs[m])
           /\ (pc'[m] = "claiming" /\ jobs'[m] # <<>>) \/ pc'[m] = "polling"
<1>1. jobs[m] \in Seq(DeploymentId) /\ jobs[m] # <<>>
  BY DEF AgentTypeOK
<1>2. Tail(jobs[m]) \in Seq(DeploymentId) /\ Len(Tail(jobs[m])) = Len(jobs[m]) - 1
  BY <1>1
<1>3. Len(jobs[m]) > 1 => Tail(jobs[m]) # <<>>
  <2> DEFINE rest == Tail(jobs[m])
  <2>1. rest \in Seq(DeploymentId) /\ (rest = <<>> => Len(rest) = 0)
    BY <1>2, EmptySequence
  <2>2. Len(rest) = Len(jobs[m]) - 1 /\ Len(jobs[m]) \in Nat
    BY <1>1, <1>2
  <2> HIDE DEF rest
  <2>3. Len(jobs[m]) > 1 => rest # <<>>
    BY <2>1, <2>2
  <2> QED BY <2>3 DEF rest
<1> QED BY <1>1, <1>2, <1>3 DEF AgentTypeOK, NextJob, Busy

LEMMA HeadIsAJob ==
    ASSUME AgentTypeOK, NEW m \in Machines, pc[m] \in Busy
    PROVE  /\ Head(jobs[m]) \in DeploymentId
           /\ 1 \in DOMAIN jobs[m] /\ Head(jobs[m]) = jobs[m][1]
           /\ StartCall(Head(jobs[m])) \in Call
           /\ \A ok \in BOOLEAN : FinishCall(Head(jobs[m]), ok) \in Call
<1>1. jobs[m] \in Seq(DeploymentId) /\ jobs[m] # <<>>
  BY DEF AgentTypeOK
<1>2. Head(jobs[m]) \in DeploymentId /\ 1 \in DOMAIN jobs[m] /\ Head(jobs[m]) = jobs[m][1]
  BY <1>1
<1> QED BY <1>2 DEF StartCall, FinishCall, Call

LEMMA AgentTypeStep == FleetTyped /\ [FleetNext]_fleetVars => AgentTypeOK'
<1> SUFFICES ASSUME FleetTyped, [FleetNext]_fleetVars PROVE AgentTypeOK' OBVIOUS
<1> USE DEF FleetTyped
<1>b. \A m \in Machines : pc[m] \in {"claiming", "preparing", "applying"} => pc[m] \in Busy
  BY DEF Busy
<1>1. ASSUME NEW m \in Machines, Start(m) PROVE AgentTypeOK'
  <2>1. <<>> \in Seq(Call) /\ <<[kind |-> "enroll"]>> \in Seq(Call)
    BY DEF Call
  <2> QED BY <1>1, <2>1 DEF Start, AgentTypeOK, Busy
<1>2. ASSUME NEW m \in Machines, Refresh(m) PROVE AgentTypeOK'
  BY <1>2, PublishedTyped DEF Refresh, AgentTypeOK
<1>3. ASSUME NEW m \in Machines, Recover(m) PROVE AgentTypeOK'
  <2>1. calls' \in [Machines -> Seq(Call)]
    BY <1>3, RecoveryFound, SentTyped DEF Recover
  <2> QED BY <1>3, <2>1 DEF Recover, AgentTypeOK, Busy
<1>4. ASSUME NEW m \in Machines, Poll(m) PROVE AgentTypeOK'
  BY <1>4, JobsFound DEF Poll, AgentTypeOK, Busy
<1>5. ASSUME NEW m \in Machines, Claim(m) PROVE AgentTypeOK'
  <2>1. pc[m] \in Busy
    BY <1>5 DEF Claim, Busy
  <2>2. <<StartCall(Head(jobs[m]))>> \in Seq(Call)
    BY <2>1, HeadIsAJob
  <2>3. calls' \in [Machines -> Seq(Call)]
    BY <1>5, <2>2, SentTyped DEF Claim
  <2>4. CASE pc' = [pc EXCEPT ![m] = "preparing"] /\ UNCHANGED jobs
    BY <1>5, <2>1, <2>3, <2>4 DEF Claim, AgentTypeOK, Busy
  <2>5. CASE NextJob(m)
    BY <1>5, <2>1, <2>3, <2>5, NextJobTyped DEF Claim, AgentTypeOK, Busy
  <2> QED BY <1>5, <2>4, <2>5 DEF Claim
<1>6. ASSUME NEW m \in Machines, Prepare(m) PROVE AgentTypeOK'
  <2>1. pc[m] \in Busy
    BY <1>6 DEF Prepare, Busy
  <2>2. runs' \in [Machines -> [DeploymentId -> 0 .. 2]]
    <3> DEFINE d == Head(jobs[m])
               n == IF runs[m][d] < 2 THEN runs[m][d] + 1 ELSE 2
    <3>1. d \in DeploymentId /\ runs \in [Machines -> [DeploymentId -> 0 .. 2]]
      BY <2>1, HeadIsAJob DEF AgentTypeOK
    <3>2. n \in 0 .. 2
      BY <3>1
    <3>3. runs' = [runs EXCEPT ![m][d] = n]
      BY <1>6 DEF Prepare
    <3> HIDE DEF d, n
    <3> QED BY <3>1, <3>2, <3>3
  <2> QED BY <1>6, <2>1, <2>2 DEF Prepare, AgentTypeOK, Busy
<1>7. ASSUME NEW m \in Machines, NEW ok \in BOOLEAN, Report(m, ok) PROVE AgentTypeOK'
  <2>1. pc[m] \in Busy
    BY <1>7 DEF Report, Busy
  <2>2. <<FinishCall(Head(jobs[m]), ok)>> \in Seq(Call) /\ Head(jobs[m]) \in DeploymentId
    BY <2>1, HeadIsAJob
  <2>3. calls' \in [Machines -> Seq(Call)]
    BY <1>7, <2>2, SentTyped DEF Report
  <2>4. succeeded' \subseteq DeploymentId
    BY <1>7, <2>2 DEF Report, AgentTypeOK
  <2>5. NextJob(m) /\ UNCHANGED <<link, cache, enrolled, crashes, runs>>
    BY <1>7 DEF Report
  <2> QED BY <2>1, <2>3, <2>4, <2>5, NextJobTyped DEF AgentTypeOK, Busy
<1>8. ASSUME NEW m \in Machines, Deliver(m) PROVE AgentTypeOK'
  BY <1>8, HeadIsACall DEF Deliver, AgentTypeOK
<1>9. ASSUME NEW m \in Machines, Crash(m) PROVE AgentTypeOK'
  <2>1. calls' \in [Machines -> Seq(Call)]
    BY <1>9, CutTyped DEF Crash
  <2>2. IsTable(EmptyTable, HostId, HostNames) /\ IsTable(EmptyTable, DeploymentId, CachedDeployment)
    BY EmptyTableTyped
  <2>3. /\ cache' = [n \in Machines |-> cache'[n]]
        /\ \A n \in Machines : /\ IsTable(cache'[n].host, HostId, HostNames)
                               /\ IsTable(cache'[n].deployment, DeploymentId, CachedDeployment)
    BY <1>9, <2>2 DEF Crash, AgentTypeOK, NoTables
  <2>4. /\ jobs' \in [Machines -> Seq(DeploymentId)] /\ link' \in [Machines -> BOOLEAN]
        /\ crashes' \in [Machines -> Nat]
    BY <1>9 DEF Crash, AgentTypeOK
  <2>5. /\ pc' \in [Machines -> {"down", "settling", "polling"} \cup Busy]
        /\ \A n \in Machines : pc'[n] \in Busy => jobs'[n] # <<>>
    BY <1>9 DEF Crash, AgentTypeOK, Busy
  <2> QED BY <1>9, <2>1, <2>3, <2>4, <2>5 DEF Crash, AgentTypeOK
<1>10. ASSUME NEW m \in Machines, LinkDrops(m) PROVE AgentTypeOK'
  BY <1>10, CutTyped DEF LinkDrops, AgentTypeOK
<1>11. CASE UNCHANGED agentVars
  BY <1>11 DEF agentVars, AgentTypeOK
<1> QED
  BY <1>1, <1>2, <1>3, <1>4, <1>5, <1>6, <1>7, <1>8, <1>9, <1>10, <1>11
     DEF FleetNext, AgentNext, Disconnected, Operate, fleetVars

LEMMA SentByAClient ==
    ASSUME AgentTypeOK, CallsComeFromClients, NEW m \in Machines, NEW cs \in Seq(Call),
           calls' = Sent(m, cs), UNCHANGED <<conn, link>>
    PROVE  CallsComeFromClients'
<1>1. ASSUME NEW n \in Machines, link'[n] \/ calls'[n] # <<>> PROVE link[n] \/ calls[n] # <<>>
  BY <1>1, SentTyped
<1> QED BY <1>1 DEF CallsComeFromClients

LEMMA ClientsStep == FleetTyped /\ [FleetNext]_fleetVars => CallsComeFromClients'
<1> SUFFICES ASSUME FleetTyped, [FleetNext]_fleetVars PROVE CallsComeFromClients' OBVIOUS
<1> USE DEF FleetTyped, CallsComeFromClients
<1>0. /\ conn \in [Identities -> 0 .. MaxConnections] /\ MaxConnections \in Nat
      /\ Server \in Identities /\ Server \notin Machines /\ Machines \subseteq Identities
  BY FleetAssumption, BoundAssumption DEF TypeOK
<1>1. ASSUME NEW m \in Machines, Start(m) PROVE CallsComeFromClients'
  BY <1>0, <1>1 DEF Start, ClientConnected, AgentTypeOK
<1>2. ASSUME NEW m \in Machines, Disconnected(m) PROVE CallsComeFromClients'
  BY <1>0, <1>2 DEF Disconnected, ClientDisconnected, agentVars
<1>3. ASSUME NEW m \in Machines, Deliver(m) PROVE CallsComeFromClients'
  <2>1. UNCHANGED conn
    <3>1. CASE Accepted(m, Head(calls[m]))
      BY <3>1 DEF Accepted, EnrollHost, StartDeployment, FinishDeployment, deploymentFrame
    <3> QED BY <1>3, <3>1, DeliverRuns DEF Rejected, vars
  <2> QED BY <1>3, <2>1 DEF Deliver, AgentTypeOK
<1>4. CASE Operate
  BY <1>4 DEF Operate, QueueDeployment, RollbackDeployment, DeleteHost, deploymentFrame, agentVars
<1>5. ASSUME NEW m \in Machines, Recover(m) PROVE CallsComeFromClients'
  BY <1>5, SentByAClient, RecoveryFound DEF Recover, vars
<1>6. ASSUME NEW m \in Machines, Claim(m) PROVE CallsComeFromClients'
  <2>1. <<StartCall(Head(jobs[m]))>> \in Seq(Call)
    BY <1>6, HeadIsAJob DEF Claim, Busy
  <2> QED BY <1>6, <2>1, SentByAClient DEF Claim, vars
<1>7. ASSUME NEW m \in Machines, NEW ok \in BOOLEAN, Report(m, ok) PROVE CallsComeFromClients'
  <2>1. <<FinishCall(Head(jobs[m]), ok)>> \in Seq(Call)
    BY <1>7, HeadIsAJob DEF Report, Busy
  <2> QED BY <1>7, <2>1, SentByAClient DEF Report, vars
<1>8. ASSUME NEW m \in Machines, Crash(m) \/ LinkDrops(m) PROVE CallsComeFromClients'
  BY <1>8, CutTyped DEF Crash, LinkDrops, vars, AgentTypeOK
<1>9. ASSUME NEW m \in Machines, Refresh(m) \/ Poll(m) \/ Prepare(m) PROVE CallsComeFromClients'
  BY <1>9 DEF Refresh, Poll, Prepare, vars
<1>10. CASE UNCHANGED fleetVars
  BY <1>10 DEF fleetVars, vars, agentVars
<1> QED
  BY <1>1, <1>2, <1>3, <1>4, <1>5, <1>6, <1>7, <1>8, <1>9, <1>10 DEF FleetNext, AgentNext

LEMMA FleetTypedStep == FleetTyped /\ [FleetNext]_fleetVars => FleetTyped'
BY FleetStepsAreCalls, TypeStep, AgentTypeStep, ClientsStep DEF FleetTyped
\* The agents and the operator are clients of the control plane: whatever they
\* lose, repeat or send late, the tables move by accepted reducer calls only.
THEOREM AgentsAreClients == FleetSpec => [][Next]_vars
<1>1. FleetInit => FleetTyped BY FleetTypedInit
<1>2. FleetTyped /\ [FleetNext]_fleetVars => FleetTyped' BY FleetTypedStep
<1>3. FleetTyped /\ [FleetNext]_fleetVars => [Next]_vars BY FleetStepsAreCalls
<1> QED BY <1>1, <1>2, <1>3, PTL DEF FleetSpec

\* The tables and the state of every agent process keep their types; a process
\* at work has a job.
THEOREM FleetTypeCorrect == FleetSpec => [](TypeOK /\ AgentTypeOK)
<1>1. FleetInit => FleetTyped BY FleetTypedInit
<1>2. FleetTyped /\ [FleetNext]_fleetVars => FleetTyped' BY FleetTypedStep
<1>3. FleetTyped => TypeOK /\ AgentTypeOK BY DEF FleetTyped
<1> QED BY <1>1, <1>2, <1>3, PTL DEF FleetSpec

-----------------------------------------------------------------------------
(* The record claims no success that did not happen *)

\* A report of success is sent after the success; recovery reports none.
HonestCalls ==
    \A m \in Machines : \A i \in DOMAIN calls[m] :
        calls[m][i].kind = "finish" /\ calls[m][i].ok = TRUE => calls[m][i].id \in succeeded

Honest == FleetTyped /\ IdsAreFresh /\ HonestCalls /\ SuccessIsReal

LEMMA HonestInit == FleetInit => Honest
<1> SUFFICES ASSUME FleetInit PROVE Honest OBVIOUS
<1>1. IdsAreFresh
  BY DEF FleetInit, IdsAreFresh, EmptyTable, Put
<1>2. HonestCalls
  BY DEF FleetInit, HonestCalls
<1>3. SuccessIsReal
  BY DEF FleetInit, SuccessIsReal, EmptyTable
<1> QED BY <1>1, <1>2, <1>3, FleetTypedInit DEF Honest

\* What Sent adds is all that is new.
LEMMA SentHonestly ==
    ASSUME AgentTypeOK, HonestCalls, NEW m \in Machines, NEW cs \in Seq(Call),
           calls' = Sent(m, cs), succeeded \subseteq succeeded',
           \A i \in DOMAIN cs : cs[i].kind = "finish" /\ cs[i].ok = TRUE => cs[i].id \in succeeded'
    PROVE  HonestCalls'
<1> SUFFICES ASSUME NEW n \in Machines, NEW i \in DOMAIN calls'[n],
                    calls'[n][i].kind = "finish", calls'[n][i].ok = TRUE
             PROVE  calls'[n][i].id \in succeeded'
  BY DEF HonestCalls
<1>1. CASE n = m /\ link[m]
  <2>1. calls'[m] = calls[m] \o cs /\ calls[m] \in Seq(Call)
    BY <1>1, SentTyped DEF AgentTypeOK
  <2>2. \/ i \in DOMAIN calls[m] /\ calls'[m][i] = calls[m][i]
        \/ \E j \in DOMAIN cs : calls'[m][i] = cs[j]
    <3>1. i \in 1 .. Len(calls[m]) + Len(cs)
      BY <1>1, <2>1
    <3>2. CASE i <= Len(calls[m])
      BY <2>1, <3>1, <3>2
    <3>3. CASE i > Len(calls[m])
      <4>1. i - Len(calls[m]) \in DOMAIN cs /\ calls'[m][i] = cs[i - Len(calls[m])]
        BY <2>1, <3>1, <3>3
      <4> QED BY <4>1
    <3> QED BY <2>1, <3>1, <3>2, <3>3
  <2>3. calls'[m][i].kind = "finish" /\ calls'[m][i].ok = TRUE
    BY <1>1
  <2>4. CASE i \in DOMAIN calls[m] /\ calls'[m][i] = calls[m][i]
    BY <1>1, <2>3, <2>4 DEF HonestCalls
  <2>5. CASE \E j \in DOMAIN cs : calls'[m][i] = cs[j]
    BY <1>1, <2>3, <2>5
  <2> QED BY <2>2, <2>4, <2>5
<1>2. CASE n # m \/ ~link[m]
  <2>1. calls'[n] = calls[n]
    BY <1>2, SentTyped
  <2>2. calls[n][i].id \in succeeded
    BY <2>1 DEF HonestCalls
  <2> QED BY <2>1, <2>2
<1> QED BY <1>1, <1>2

LEMMA HonestCallsStep == Honest /\ [FleetNext]_fleetVars => HonestCalls'
<1> SUFFICES ASSUME Honest, [FleetNext]_fleetVars PROVE HonestCalls' OBVIOUS
<1> USE DEF Honest, FleetTyped
<1>1. ASSUME NEW m \in Machines, Start(m) PROVE HonestCalls'
  <2>1. /\ \A n \in Machines : n # m => calls'[n] = calls[n]
        /\ calls'[m] = <<>> \/ calls'[m] = <<[kind |-> "enroll"]>>
        /\ succeeded' = succeeded
    BY <1>1 DEF Start, AgentTypeOK
  <2>2. \A i \in DOMAIN calls'[m] : calls'[m][i].kind = "enroll"
    BY <2>1
  <2> QED BY <2>1, <2>2 DEF HonestCalls
<1>2. ASSUME NEW m \in Machines, Recover(m) PROVE HonestCalls'
  <2>1. \A i \in DOMAIN Recovery(m) : Recovery(m)[i].ok = FALSE
    BY RecoveryFound DEF FinishCall
  <2> QED BY <1>2, <2>1, RecoveryFound, SentHonestly DEF Recover
<1>3. ASSUME NEW m \in Machines, Claim(m) PROVE HonestCalls'
  <2> DEFINE call == StartCall(Head(jobs[m]))
  <2>1. <<call>> \in Seq(Call) /\ call.kind = "start"
    BY <1>3, HeadIsAJob DEF Claim, Busy, StartCall
  <2> HIDE DEF call
  <2>2. \A i \in DOMAIN <<call>> : <<call>>[i].kind = "start"
    BY <2>1
  <2>3. calls' = Sent(m, <<call>>) /\ succeeded' = succeeded
    BY <1>3 DEF Claim, call
  <2> QED BY <2>1, <2>2, <2>3, SentHonestly
<1>4. ASSUME NEW m \in Machines, NEW ok \in BOOLEAN, Report(m, ok) PROVE HonestCalls'
  <2> DEFINE call == FinishCall(Head(jobs[m]), ok)
  <2>1. <<call>> \in Seq(Call) /\ call.id = Head(jobs[m]) /\ call.ok = ok
    BY <1>4, HeadIsAJob DEF Report, Busy, FinishCall
  <2>2. succeeded \subseteq succeeded' /\ (ok = TRUE => Head(jobs[m]) \in succeeded')
    BY <1>4 DEF Report
  <2>3. calls' = Sent(m, <<call>>)
    BY <1>4 DEF Report
  <2> HIDE DEF call
  <2>4. \A i \in DOMAIN <<call>> : <<call>>[i] = call
    OBVIOUS
  <2>5. \A i \in DOMAIN <<call>> :
           <<call>>[i].kind = "finish" /\ <<call>>[i].ok = TRUE => <<call>>[i].id \in succeeded'
    BY <2>1, <2>2, <2>4
  <2> QED BY <2>1, <2>2, <2>3, <2>5, SentHonestly
<1>5. ASSUME NEW m \in Machines, Deliver(m) PROVE HonestCalls'
  <2>1. /\ \A n \in Machines : n # m => calls'[n] = calls[n]
        /\ calls'[m] = Tail(calls[m]) /\ calls[m] # <<>>
        /\ succeeded' = succeeded
    BY <1>5 DEF Deliver, AgentTypeOK
  <2>2. \A i \in DOMAIN calls'[m] : i + 1 \in DOMAIN calls[m] /\ calls'[m][i] = calls[m][i + 1]
    BY <2>1, HeadIsACall
  <2>3. \A i \in DOMAIN calls'[m] :
           calls'[m][i].kind = "finish" /\ calls'[m][i].ok = TRUE => calls'[m][i].id \in succeeded
    BY <2>2 DEF HonestCalls
  <2> QED BY <2>1, <2>3 DEF HonestCalls
<1>6. ASSUME NEW m \in Machines, Crash(m) \/ LinkDrops(m) PROVE HonestCalls'
  <2>1. Cut(m) /\ succeeded' = succeeded
    BY <1>6 DEF Crash, LinkDrops
  <2> QED BY <2>1, CutTyped DEF HonestCalls
<1>7. ASSUME UNCHANGED <<calls, succeeded>> PROVE HonestCalls'
  BY <1>7 DEF HonestCalls
<1>8. ASSUME NEW m \in Machines, Refresh(m) \/ Poll(m) \/ Prepare(m) \/ Disconnected(m)
      PROVE  UNCHANGED <<calls, succeeded>>
  BY <1>8 DEF Refresh, Poll, Prepare, Disconnected, agentVars
<1>9. CASE Operate \/ UNCHANGED fleetVars
  BY <1>7, <1>9 DEF Operate, agentVars, fleetVars
<1> QED
  BY <1>1, <1>2, <1>3, <1>4, <1>5, <1>6, <1>7, <1>8, <1>9 DEF FleetNext, AgentNext

LEMMA SuccessStep == Honest /\ [FleetNext]_fleetVars => SuccessIsReal'
<1> SUFFICES ASSUME Honest, [FleetNext]_fleetVars PROVE SuccessIsReal' OBVIOUS
<1> USE DEF Honest, FleetTyped
<1>1. ASSUME deployment' = deployment, succeeded \subseteq succeeded' PROVE SuccessIsReal'
  BY <1>1 DEF SuccessIsReal
<1>2. ASSUME NEW m \in Machines, Deliver(m) PROVE SuccessIsReal'
  <2> DEFINE call == Head(calls[m])
  <2>1. call = calls[m][1] /\ 1 \in DOMAIN calls[m] /\ call \in Call
    BY <1>2, HeadIsACall DEF Deliver
  <2>2. succeeded' = succeeded /\ (Accepted(m, call) \/ Rejected(m, call))
    BY <1>2, DeliverRuns DEF Deliver
  <2>3. call.kind = "finish" /\ call.ok = TRUE => call.id \in succeeded
    BY <2>1 DEF HonestCalls
  <2> HIDE DEF call
  <2>4. CASE Rejected(m, call)
    BY <1>1, <2>2, <2>4 DEF Rejected, vars
  <2>5. CASE call.kind = "enroll" /\ EnrollHost(m, CodeOf[m], NameOf[m])
    BY <1>1, <2>2, <2>5 DEF EnrollHost
  <2>6. CASE call.kind = "start" /\ StartDeployment(m, call.id)
    BY <2>2, <2>6 DEF StartDeployment, SuccessIsReal, TypeOK, IsTable, Deployment
  <2>7. CASE call.kind = "finish" /\ FinishDeployment(m, call.id, call.ok)
    BY <2>1, <2>2, <2>3, <2>7 DEF FinishDeployment, SuccessIsReal, TypeOK, IsTable, Deployment, Call
  <2> QED BY <2>2, <2>4, <2>5, <2>6, <2>7 DEF Accepted
<1>3. CASE Operate
  <2>1. succeeded' = succeeded
    BY <1>3 DEF Operate, agentVars
  <2>2. ASSUME NEW h, NEW commit, QueueDeployment(Server, 1, h, commit) PROVE SuccessIsReal'
    BY <2>1, <2>2 DEF QueueDeployment, Put, SuccessIsReal
  <2>3. ASSUME NEW d, RollbackDeployment(Server, d) PROVE SuccessIsReal'
    BY <2>1, <2>3 DEF RollbackDeployment, IsRollbackable, SuccessIsReal, TypeOK, IsTable, Deployment
  <2>4. ASSUME NEW h, DeleteHost(Server, h) PROVE SuccessIsReal'
    BY <1>1, <2>1, <2>4 DEF DeleteHost
  <2> QED BY <1>3, <2>2, <2>3, <2>4 DEF Operate
<1>4. ASSUME NEW m \in Machines, NEW ok \in BOOLEAN, Report(m, ok) PROVE SuccessIsReal'
  BY <1>1, <1>4 DEF Report, vars
<1>5. ASSUME NEW m \in Machines,
             \/ Start(m) \/ Refresh(m) \/ Recover(m) \/ Poll(m) \/ Claim(m) \/ Prepare(m)
             \/ Crash(m) \/ LinkDrops(m) \/ Disconnected(m)
      PROVE  SuccessIsReal'
  BY <1>1, <1>5 DEF Start, Refresh, Recover, Poll, Claim, Prepare, Crash, LinkDrops, Disconnected,
                   ClientConnected, ClientDisconnected, presenceFrame, vars, agentVars
<1>6. CASE UNCHANGED fleetVars
  BY <1>1, <1>6 DEF fleetVars, vars, agentVars
<1> QED BY <1>2, <1>3, <1>4, <1>5, <1>6 DEF FleetNext, AgentNext

\* Whatever is lost, late, repeated or recovered, the record never claims a
\* success that did not happen on some machine.
THEOREM SuccessesAreReal == FleetSpec => []SuccessIsReal
<1>1. FleetInit => Honest BY HonestInit
<1>2. Honest /\ [FleetNext]_fleetVars => Honest'
  BY FleetTypedStep, FleetStepsAreCalls, FreshStep, HonestCallsStep, SuccessStep
     DEF Honest, FleetTyped
<1>3. Honest => SuccessIsReal BY DEF Honest
<1> QED BY <1>1, <1>2, <1>3, PTL DEF FleetSpec
-----------------------------------------------------------------------------
(* Each machine works for the host its own code enrolled *)

\* An agent finds its host by name, so what follows needs names, and for the
\* last part codes, that tell the machines apart.
DistinctNames == \A m, n \in Machines : NameOf[m] = NameOf[n] => m = n
DistinctCodes == \A m, n \in Machines : CodeOf[m] = CodeOf[n] => m = n

\* the host a machine's code enrolled, if it was spent
Mine(m) == enrollment_token[CodeOf[m]]

BindingsAreOwn ==
    /\ \A m \in Machines : CodeOf[m] \in DOMAIN enrollment_token
    /\ \A s \in DOMAIN agent_binding :
          s \in Machines /\ agent_binding[s] = Mine(s) /\ host[agent_binding[s]].name = NameOf[s]

FleetHosts == FleetTyped /\ HostsAgree /\ BindingsAreOwn

LEMMA FleetHostSteps ==
    ASSUME FleetTyped, [FleetNext]_fleetVars
    PROVE  \/ \E m \in Machines : EnrollHost(m, CodeOf[m], NameOf[m])
           \/ \E h \in HostId : DeleteHost(Server, h)
           \/ SameHosts
<1> USE DEF SameHosts
<1>0. IsTable(host, HostId, Host)
  BY DEF FleetTyped, TypeOK
<1>1. ASSUME NEW m \in Machines, Start(m) \/ Disconnected(m) PROVE SameHosts
  <2>1. ClientConnected(m) \/ ClientDisconnected(m)
    BY <1>1 DEF Start, Disconnected
  <2>2. DOMAIN host' = DOMAIN host /\ (\A h \in DOMAIN host : host'[h].name = host[h].name)
    BY <1>0, <2>1 DEF ClientConnected, ClientDisconnected, IsTable, Host
  <2> QED BY <2>1, <2>2 DEF ClientConnected, ClientDisconnected, presenceFrame
<1>2. ASSUME NEW m \in Machines, Deliver(m)
      PROVE  EnrollHost(m, CodeOf[m], NameOf[m]) \/ SameHosts
  BY <1>2, DeliverRuns
     DEF FleetTyped, Accepted, Rejected, StartDeployment, FinishDeployment, deploymentFrame, vars
<1>3. ASSUME Operate PROVE (\E h \in HostId : DeleteHost(Server, h)) \/ SameHosts
  <2>1. ASSUME NEW h, NEW commit, QueueDeployment(Server, 1, h, commit) PROVE SameHosts
    BY <2>1 DEF QueueDeployment
  <2>2. ASSUME NEW d, RollbackDeployment(Server, d) PROVE SameHosts
    BY <2>2 DEF RollbackDeployment, deploymentFrame
  <2> QED BY <1>3, <2>1, <2>2 DEF Operate
<1>4. ASSUME NEW m \in Machines,
             \/ Refresh(m) \/ Recover(m) \/ Poll(m) \/ Claim(m) \/ Prepare(m)
             \/ (\E ok \in BOOLEAN : Report(m, ok)) \/ Crash(m) \/ LinkDrops(m)
      PROVE  SameHosts
  BY <1>4 DEF Refresh, Recover, Poll, Claim, Prepare, Report, Crash, LinkDrops, vars
<1>5. CASE UNCHANGED fleetVars
  BY <1>5 DEF fleetVars, vars
<1> QED BY <1>1, <1>2, <1>3, <1>4, <1>5 DEF FleetNext, AgentNext

LEMMA FleetHostsInit == FleetInit => FleetHosts
<1> SUFFICES ASSUME FleetInit PROVE FleetHosts OBVIOUS
<1>1. IdsAreFresh
  BY DEF FleetInit, IdsAreFresh, EmptyTable, Put
<1>2. BindingIntegrity
  BY DEF FleetInit, BindingIntegrity, EmptyTable, IsInjective, Range
<1>3. EveryHostSpentItsOwnCode
  BY DEF FleetInit, EveryHostSpentItsOwnCode, NotConsumed
<1>4. BindingsAreOwn
  BY FleetAssumption DEF FleetInit, BindingsAreOwn, EmptyTable, Range
<1> QED BY <1>1, <1>2, <1>3, <1>4, FleetTypedInit DEF FleetHosts, HostsAgree, FleetTyped

LEMMA FleetHostsStep == FleetHosts /\ [FleetNext]_fleetVars => FleetHosts'
<1> SUFFICES ASSUME FleetHosts, [FleetNext]_fleetVars PROVE FleetHosts' OBVIOUS
<1> USE DEF FleetHosts
<1>1. FleetTyped' /\ HostsAgree'
  BY FleetTypedStep, FleetStepsAreCalls, HostsAgreeStep
<1>2. ASSUME NEW m \in Machines, EnrollHost(m, CodeOf[m], NameOf[m]) PROVE BindingsAreOwn'
  <2> DEFINE new == next_id.host
  <2>1. new \notin DOMAIN host /\ (\A s \in DOMAIN agent_binding : agent_binding[s] # new)
    BY DEF HostsAgree, IdsAreFresh, TypeOK, IsTable, HostId, BindingIntegrity, Range
  <2>2. /\ DOMAIN enrollment_token' = DOMAIN enrollment_token
        /\ enrollment_token'[CodeOf[m]] = new /\ enrollment_token[CodeOf[m]] = NotConsumed
        /\ \A c \in DOMAIN enrollment_token : c # CodeOf[m] => enrollment_token'[c] = enrollment_token[c]
    BY <1>2 DEF EnrollHost, IsUsableCode, HostsAgree, TypeOK, IsTable
  <2>3. /\ host'[new].name = NameOf[m]
        /\ \A h \in DOMAIN host : host'[h] = host[h]
    BY <1>2, <2>1 DEF EnrollHost, Put
  <2>4. /\ DOMAIN agent_binding' = DOMAIN agent_binding \cup {m}
        /\ m \notin DOMAIN agent_binding /\ agent_binding'[m] = new
        /\ \A s \in DOMAIN agent_binding : agent_binding'[s] = agent_binding[s]
    BY <1>2 DEF EnrollHost, Put
  <2>5. \A s \in DOMAIN agent_binding : agent_binding[s] \in DOMAIN host /\ agent_binding[s] # NotConsumed
    BY DEF HostsAgree, BindingIntegrity, Range, TypeOK, IsTable, HostId, NotConsumed
  <2>6. \A s \in DOMAIN agent_binding : CodeOf[s] # CodeOf[m]
    BY <2>2, <2>5 DEF BindingsAreOwn, Mine
  <2> QED BY <2>2, <2>3, <2>4, <2>5, <2>6 DEF BindingsAreOwn, Mine
<1>3. ASSUME NEW h, DeleteHost(Server, h) PROVE BindingsAreOwn'
  BY <1>3 DEF DeleteHost, BindingsWithout, Drop, Restrict, BindingsAreOwn, Mine,
              HostsAgree, BindingIntegrity, Range
<1>4. ASSUME SameHosts PROVE BindingsAreOwn'
  BY <1>4 DEF SameHosts, BindingsAreOwn, Mine, HostsAgree, BindingIntegrity, Range
<1> QED BY <1>1, <1>2, <1>3, <1>4, FleetHostSteps

\* A host of a machine's name is the one its code enrolled.
LEMMA NamedHostIsMine ==
    ASSUME FleetHosts, DistinctNames, NEW m \in Machines, NEW h \in DOMAIN host,
           host[h].name = NameOf[m]
    PROVE  h = Mine(m) /\ m \in DOMAIN agent_binding /\ agent_binding[m] = h
<1>1. PICK s \in DOMAIN agent_binding : agent_binding[s] = h
  BY DEF FleetHosts, HostsAgree, BindingIntegrity, Range
<1>2. s \in Machines /\ h = Mine(s) /\ host[h].name = NameOf[s]
  BY <1>1 DEF FleetHosts, BindingsAreOwn
<1>3. s = m
  BY <1>2 DEF DistinctNames
<1> QED BY <1>1, <1>2, <1>3

\* A spent code stays spent on the same host.
LEMMA MineIsKept ==
    ASSUME FleetHosts, [FleetNext]_fleetVars, NEW m \in Machines, Mine(m) # NotConsumed
    PROVE  Mine(m)' = Mine(m)
<1>1. ASSUME NEW n \in Machines, EnrollHost(n, CodeOf[n], NameOf[n]) PROVE Mine(m)' = Mine(m)
  BY <1>1 DEF EnrollHost, IsUsableCode, Mine
<1>2. ASSUME NEW h, DeleteHost(Server, h) PROVE Mine(m)' = Mine(m)
  BY <1>2 DEF DeleteHost, Mine
<1>3. CASE SameHosts
  BY <1>3 DEF SameHosts, Mine
<1> QED BY <1>1, <1>2, <1>3, FleetHostSteps DEF FleetHosts

\* Caches are old, but what they say of hosts and targets does not go out of date.
CachesAreOld ==
    \A m \in Machines :
        /\ \A h \in DOMAIN cache[m].host : cache[m].host[h] = NameOf[m] => h = Mine(m)
        /\ \A d \in DOMAIN cache[m].deployment :
              /\ d \in DOMAIN deployment
              /\ deployment[d].host_id = cache[m].deployment[d].host_id

JobsAreOwn ==
    \A m \in Machines : \A i \in DOMAIN jobs[m] :
        jobs[m][i] \in DOMAIN deployment /\ deployment[jobs[m][i]].host_id = Mine(m)

OwnWork == FleetHosts /\ CachesAreOld /\ JobsAreOwn

LEMMA OwnWorkInit == FleetInit => OwnWork
BY FleetHostsInit DEF FleetInit, OwnWork, CachesAreOld, JobsAreOwn, NoTables, EmptyTable

\* What a row says of its target it says for ever.
LEMMA TargetsAreKept ==
    ASSUME FleetHosts, [FleetNext]_fleetVars, NEW d \in DOMAIN deployment
    PROVE  d \in DOMAIN deployment' /\ deployment'[d].host_id = deployment[d].host_id
<1>1. [Next]_vars /\ TypeOK /\ IdsAreFresh
  BY FleetStepsAreCalls DEF FleetHosts, HostsAgree
<1>2. [KeepsHistory]_vars
  BY <1>1, HistoryStep
<1> QED BY <1>2 DEF KeepsHistory, vars

LEMMA CachesStep == DistinctNames /\ OwnWork /\ [FleetNext]_fleetVars => CachesAreOld'
<1> SUFFICES ASSUME DistinctNames, OwnWork, [FleetNext]_fleetVars, NEW m \in Machines
             PROVE  CachesAreOld!(m)'
  BY DEF CachesAreOld
<1> USE DEF OwnWork
<1>1. CASE cache'[m] = cache[m]
  <2>1. ASSUME NEW h \in DOMAIN cache[m].host, cache[m].host[h] = NameOf[m] PROVE h = Mine(m)'
    <3>1. h = Mine(m) /\ h # NotConsumed
      BY <2>1 DEF CachesAreOld, FleetHosts, FleetTyped, AgentTypeOK, IsTable, HostId, NotConsumed
    <3> QED BY <3>1, MineIsKept
  <2> QED BY <1>1, <2>1, TargetsAreKept DEF CachesAreOld
<1>2. CASE Refresh(m)
  <2>1. cache'[m] = Published /\ UNCHANGED vars
    BY <1>2 DEF Refresh, FleetHosts, FleetTyped, AgentTypeOK
  <2>2. ASSUME NEW h \in DOMAIN Published.host, Published.host[h] = NameOf[m] PROVE h = Mine(m)
    BY <2>2, NamedHostIsMine DEF Published
  <2>3. \A d \in DOMAIN Published.deployment :
           d \in DOMAIN deployment /\ deployment[d].host_id = Published.deployment[d].host_id
    BY DEF Published
  <2> QED BY <2>1, <2>2, <2>3 DEF vars, Mine
<1>3. CASE Crash(m)
  BY <1>3 DEF Crash, NoTables, EmptyTable, FleetHosts, FleetTyped, AgentTypeOK
<1>4. ASSUME NEW n \in Machines, n # m, Refresh(n) \/ Crash(n) PROVE cache'[m] = cache[m]
  BY <1>4 DEF Refresh, Crash, FleetHosts, FleetTyped, AgentTypeOK
<1>5. ASSUME NEW n \in Machines,
             \/ Start(n) \/ Recover(n) \/ Poll(n) \/ Claim(n) \/ Prepare(n)
             \/ (\E ok \in BOOLEAN : Report(n, ok)) \/ Deliver(n) \/ Disconnected(n) \/ LinkDrops(n)
      PROVE  cache'[m] = cache[m]
  BY <1>5 DEF Start, Recover, Poll, Claim, Prepare, Report, Deliver, Disconnected, LinkDrops, agentVars
<1>6. CASE Operate \/ UNCHANGED fleetVars
  BY <1>1, <1>6 DEF Operate, fleetVars, agentVars
<1> QED BY <1>1, <1>2, <1>3, <1>4, <1>5, <1>6 DEF FleetNext, AgentNext
\* Whatever its cache lists as the machine's own is.
LEMMA FoundIsMine ==
    ASSUME CachesAreOld, NEW m \in Machines, NEW status, NEW d \in MineWith(m, status)
    PROVE  d \in DOMAIN deployment /\ deployment[d].host_id = Mine(m)
<1>1. HostIsCached(m) /\ d \in DOMAIN cache[m].deployment
      /\ cache[m].deployment[d].host_id = CachedHost(m)
  BY DEF MineWith
<1>2. CachedHost(m) \in DOMAIN cache[m].host /\ cache[m].host[CachedHost(m)] = NameOf[m]
  BY <1>1 DEF HostIsCached, CachedHost
<1> QED BY <1>1, <1>2 DEF CachesAreOld

LEMMA RestOfJobs ==
    ASSUME AgentTypeOK, NEW m \in Machines, jobs[m] # <<>>
    PROVE  /\ Len(Tail(jobs[m])) = Len(jobs[m]) - 1 /\ Tail(jobs[m]) \in Seq(DeploymentId)
           /\ \A i \in DOMAIN Tail(jobs[m]) : i + 1 \in DOMAIN jobs[m]
                                             /\ Tail(jobs[m])[i] = jobs[m][i + 1]
<1>1. jobs[m] \in Seq(DeploymentId)
  BY DEF AgentTypeOK
<1> QED BY <1>1

LEMMA JobsStep == OwnWork /\ [FleetNext]_fleetVars => JobsAreOwn'
<1> SUFFICES ASSUME OwnWork, [FleetNext]_fleetVars, NEW m \in Machines
             PROVE  JobsAreOwn!(m)'
  BY DEF JobsAreOwn
<1> USE DEF OwnWork
<1>t. AgentTypeOK
  BY DEF FleetHosts, FleetTyped
<1>k. ASSUME NEW d \in DOMAIN deployment, deployment[d].host_id = Mine(m)
      PROVE  d \in DOMAIN deployment' /\ deployment'[d].host_id = Mine(m)'
  <2>1. Mine(m) # NotConsumed
    BY <1>k DEF FleetHosts, FleetTyped, TypeOK, IsTable, Deployment, HostId, NotConsumed
  <2> QED BY <1>k, <2>1, MineIsKept, TargetsAreKept
<1>1. CASE jobs'[m] = jobs[m]
  BY <1>1, <1>k DEF JobsAreOwn
<1>2. CASE Poll(m)
  <2>1. jobs'[m] = QueuedForMe(m)
    BY <1>2, <1>t DEF Poll, AgentTypeOK
  <2>2. \A i \in DOMAIN QueuedForMe(m) : QueuedForMe(m)[i] \in MineWith(m, "Queued")
    BY <1>t, JobsFound
  <2> QED BY <1>k, <2>1, <2>2, FoundIsMine
<1>3. CASE pc[m] \in Busy /\ NextJob(m)
  <2>1. jobs'[m] = Tail(jobs[m]) /\ jobs[m] # <<>>
    BY <1>3, <1>t, NextJobTyped DEF AgentTypeOK
  <2> QED BY <1>t, <1>k, <2>1, RestOfJobs DEF JobsAreOwn
<1>4. CASE Crash(m)
  BY <1>4, <1>t DEF Crash, AgentTypeOK
<1>5. ASSUME NEW n \in Machines, n # m,
             \/ Poll(n) \/ Claim(n) \/ (\E ok \in BOOLEAN : Report(n, ok)) \/ Crash(n)
      PROVE  jobs'[m] = jobs[m]
  BY <1>5, <1>t DEF Poll, Claim, Report, NextJob, Crash, AgentTypeOK
<1>6. ASSUME NEW n \in Machines,
             \/ Start(n) \/ Refresh(n) \/ Recover(n) \/ Prepare(n)
             \/ Deliver(n) \/ Disconnected(n) \/ LinkDrops(n)
      PROVE  jobs'[m] = jobs[m]
  BY <1>6 DEF Start, Refresh, Recover, Prepare, Deliver, Disconnected, LinkDrops, agentVars
<1>7. CASE Claim(m) \/ \E ok \in BOOLEAN : Report(m, ok)
  BY <1>1, <1>3, <1>7 DEF Claim, Report, Busy
<1>8. CASE Operate \/ UNCHANGED fleetVars
  BY <1>1, <1>8 DEF Operate, fleetVars, agentVars
<1> QED BY <1>1, <1>2, <1>4, <1>5, <1>6, <1>7, <1>8 DEF FleetNext, AgentNext

\* queued_for_me lists only deployments of the host this machine's own code
\* enrolled, however old the cache it looks into and whatever was removed since,
\* as long as no two machines have one name.
THEOREM JobsAreOfOwnHost == DistinctNames => (FleetSpec => []JobsOfItsOwnHost)
<1> SUFFICES ASSUME DistinctNames PROVE FleetSpec => []JobsOfItsOwnHost OBVIOUS
<1>1. FleetInit => OwnWork BY OwnWorkInit
<1>2. OwnWork /\ [FleetNext]_fleetVars => OwnWork'
  BY FleetHostsStep, CachesStep, JobsStep DEF OwnWork
<1>3. OwnWork => JobsOfItsOwnHost BY DEF OwnWork, JobsAreOwn, JobsOfItsOwnHost, Mine
<1> QED BY <1>1, <1>2, <1>3, PTL DEF FleetSpec
-----------------------------------------------------------------------------
(* Over a connection that keeps up: each deployment once, in order, and from *)
(* state to state as an operator expects                                      *)

KeepsUpAlways == Prompt = TRUE /\ Drops = FALSE

Status(d) == deployment[d].status
Present(m) == Mine(m) \in DOMAIN host

\* what a busy process has not claimed yet
Unclaimed(m) == {i \in DOMAIN jobs[m] : pc[m] = "claiming" \/ i > 1}

\* A claim in flight is of the job at hand, or of a process that died.
ClaimsAreCurrent(m) ==
    \A i \in DOMAIN calls[m] : calls[m][i].kind = "start" =>
        pc[m] = "down" \/ (pc[m] = "preparing" /\ calls[m][i].id = jobs[m][1])

\* A report in flight is the only one of its deployment, which waits for it.
ReportsAreDue(m) ==
    /\ \A i \in DOMAIN calls[m] : calls[m][i].kind = "finish" =>
          LET d == calls[m][i].id IN
          /\ d \in DOMAIN deployment /\ deployment[d].host_id = Mine(m)
          /\ Present(m) => Status(d) = "Running"
          /\ pc[m] \in Busy => \A k \in DOMAIN jobs[m] : jobs[m][k] # d
    /\ \A i, j \in DOMAIN calls[m] :
          /\ calls[m][i].kind = "finish" /\ calls[m][j].kind = "finish"
          /\ calls[m][i].id = calls[m][j].id
          => i = j

\* What was applied was claimed before.
RunsWereClaimed(m) ==
    \A d \in DeploymentId : runs[m][d] # 0 =>
        /\ runs[m][d] = 1
        /\ d \in DOMAIN deployment /\ deployment[d].host_id = Mine(m) /\ Status(d) # "Queued"

\* The jobs ahead are in order and untouched, and nothing that waits is older
\* than they are.
JobsAreAhead(m) ==
    pc[m] \in Busy =>
        /\ IsAscending(jobs[m])
        /\ \A i \in Unclaimed(m) : /\ runs[m][jobs[m][i]] = 0
                                   /\ Present(m) => Status(jobs[m][i]) = "Queued"
        /\ \A d \in DOMAIN deployment :
              Present(m) /\ deployment[d].host_id = Mine(m) /\ Status(d) = "Queued" =>
                 \A i \in DOMAIN jobs[m] : \/ jobs[m][i] < d
                                           \/ \E k \in DOMAIN jobs[m] : jobs[m][k] = d

\* The job at hand: claimed or being claimed, then applied.
JobAtHand(m) ==
    /\ pc[m] = "preparing" =>
          /\ runs[m][jobs[m][1]] = 0
          /\ Present(m) => \/ Status(jobs[m][1]) = "Running"
                           \/ /\ Status(jobs[m][1]) = "Queued"
                              /\ \E i \in DOMAIN calls[m] : /\ calls[m][i].kind = "start"
                                                            /\ calls[m][i].id = jobs[m][1]
    /\ pc[m] = "applying" =>
          /\ Present(m) => Status(jobs[m][1]) = "Running"
          /\ \A d \in DOMAIN deployment :
                deployment[d].host_id = Mine(m) /\ d <= jobs[m][1] => Status(d) # "Queued"

Working(m) ==
    /\ pc[m] # "down" => link[m] = TRUE
    /\ ClaimsAreCurrent(m) /\ ReportsAreDue(m) /\ RunsWereClaimed(m)
    /\ JobsAreAhead(m) /\ JobAtHand(m)

WorkInv == OwnWork /\ \A m \in Machines : Working(m)
\* What depends on nothing but m's own process, its host and its deployments
\* holds as long as these are left alone.
LEMMA NothingYet ==
    ASSUME OwnWork, NEW m \in Machines, Working(m), Mine(m) = NotConsumed
    PROVE  /\ pc[m] \notin Busy
           /\ \A i \in DOMAIN calls[m] : calls[m][i].kind # "finish"
           /\ \A d \in DeploymentId : runs[m][d] = 0
<1>1. \A d \in DOMAIN deployment : deployment[d].host_id # NotConsumed
  BY DEF OwnWork, FleetHosts, FleetTyped, TypeOK, IsTable, Deployment, HostId, NotConsumed
<1>2. pc[m] \in Busy => 1 \in DOMAIN jobs[m]
  BY HeadIsAJob DEF OwnWork, FleetHosts, FleetTyped
<1>3. pc[m] \notin Busy
  BY <1>1, <1>2 DEF OwnWork, JobsAreOwn
<1>4. \A i \in DOMAIN calls[m] : calls[m][i].kind # "finish"
  BY <1>1 DEF Working, ReportsAreDue
<1>5. \A d \in DeploymentId : runs[m][d] = 0
  BY <1>1 DEF Working, RunsWereClaimed
<1> QED BY <1>3, <1>4, <1>5

SameProcess(m) ==
    /\ pc'[m] = pc[m] /\ jobs'[m] = jobs[m] /\ calls'[m] = calls[m]
    /\ link'[m] = link[m] /\ runs'[m] = runs[m]

\* what anyone else may do to m's deployments and to its host
LeftAlone(m) ==
    /\ \A d \in DOMAIN deployment :
          /\ d \in DOMAIN deployment' /\ deployment'[d].host_id = deployment[d].host_id
          /\ deployment[d].host_id = Mine(m) =>
                \/ deployment'[d].status = Status(d)
                \/ Status(d) = "Succeeded" /\ deployment'[d].status = "RolledBack"
    /\ \A d \in DOMAIN deployment' \ DOMAIN deployment, e \in DOMAIN deployment : e < d

LEMMA HostIsLeftAlone ==
    ASSUME OwnWork, [FleetNext]_fleetVars, NEW m \in Machines, Mine(m) # NotConsumed
    PROVE  Mine(m)' = Mine(m) /\ (Present(m)' => Present(m))
<1> USE DEF OwnWork
<1>1. Mine(m)' = Mine(m)
  BY MineIsKept
<1>2. ASSUME NEW n \in Machines, EnrollHost(n, CodeOf[n], NameOf[n])
      PROVE  Present(m)' => Present(m)
  <2>1. Mine(m) # next_id.host
    BY DEF Mine, FleetHosts, BindingsAreOwn, HostsAgree, EveryHostSpentItsOwnCode,
           FleetTyped, TypeOK, IsTable, HostId
  <2> QED BY <1>1, <1>2, <2>1 DEF Present, EnrollHost, Put
<1>3. ASSUME NEW h, DeleteHost(Server, h) PROVE Present(m)' => Present(m)
  BY <1>1, <1>3 DEF Present, DeleteHost, Drop, Restrict
<1>4. CASE SameHosts
  BY <1>1, <1>4 DEF Present, SameHosts
<1> QED BY <1>1, <1>2, <1>3, <1>4, FleetHostSteps DEF FleetHosts
LEMMA LeftAloneIsKept ==
    ASSUME OwnWork, OwnWork', NEW m \in Machines, Working(m),
           SameProcess(m), LeftAlone(m),
           Mine(m) # NotConsumed => Mine(m)' = Mine(m) /\ (Present(m)' => Present(m))
    PROVE  Working(m)'
<1> USE DEF SameProcess, Status
<1>t. FleetTyped /\ AgentTypeOK
  BY DEF OwnWork, FleetHosts, FleetTyped
<1>0. (pc'[m] # "down" => link'[m] = TRUE) /\ ClaimsAreCurrent(m)'
  BY DEF Working, ClaimsAreCurrent
<1>1. CASE Mine(m) = NotConsumed
  <2>1. /\ pc'[m] \notin Busy
        /\ \A i \in DOMAIN calls'[m] : calls'[m][i].kind # "finish"
        /\ \A d \in DeploymentId : runs'[m][d] = 0
    BY <1>1, NothingYet
  <2>2. ReportsAreDue(m)' /\ RunsWereClaimed(m)'
    BY <2>1 DEF ReportsAreDue, RunsWereClaimed
  <2>3. JobsAreAhead(m)' /\ JobAtHand(m)'
    BY <2>1 DEF JobsAreAhead, JobAtHand, Busy
  <2> QED BY <1>0, <2>2, <2>3 DEF Working
<1>2. CASE Mine(m) # NotConsumed
  <2>0. Mine(m)' = Mine(m) /\ (Present(m)' => Present(m))
    BY <1>2
  <2>d. /\ \A d \in DOMAIN deployment :
              d \in DOMAIN deployment' /\ deployment'[d].host_id = deployment[d].host_id
        /\ \A d \in DOMAIN deployment, s \in {"Queued", "Running"} :
              deployment[d].host_id = Mine(m) =>
                 (deployment'[d].status = s <=> deployment[d].status = s)
    BY DEF LeftAlone
  <2>j. /\ \A i \in DOMAIN jobs[m] : /\ jobs[m][i] \in DOMAIN deployment
                                     /\ deployment[jobs[m][i]].host_id = Mine(m)
        /\ pc[m] \in Busy => 1 \in DOMAIN jobs[m]
    BY <1>t, HeadIsAJob DEF OwnWork, JobsAreOwn
  <2>n. \A d \in DOMAIN deployment' : d \notin DOMAIN deployment =>
           \A e \in DOMAIN deployment : e < d
    BY DEF LeftAlone
  <2>1. ReportsAreDue(m)'
    BY <2>0, <2>d DEF Working, ReportsAreDue
  <2>2. RunsWereClaimed(m)'
    BY <2>0, <2>d DEF Working, RunsWereClaimed
  <2>3. JobsAreAhead(m)'
    <3> SUFFICES ASSUME pc[m] \in Busy PROVE JobsAreAhead(m)'
      BY DEF JobsAreAhead
    <3>1. /\ IsAscending(jobs[m])
          /\ \A i \in Unclaimed(m) : /\ runs[m][jobs[m][i]] = 0
                                     /\ Present(m) => Status(jobs[m][i]) = "Queued"
      BY DEF Working, JobsAreAhead
    <3>2. IsAscending(jobs[m])'
      BY <3>1 DEF IsAscending
    <3>3. \A i \in Unclaimed(m)' : /\ runs'[m][jobs'[m][i]] = 0
                                   /\ Present(m)' => deployment'[jobs'[m][i]].status = "Queued"
      BY <2>0, <2>d, <2>j, <3>1 DEF Unclaimed
    <3>4. ASSUME NEW d \in DOMAIN deployment', Present(m)', deployment'[d].host_id = Mine(m)',
                 deployment'[d].status = "Queued", NEW i \in DOMAIN jobs[m]
          PROVE  jobs[m][i] < d \/ \E k \in DOMAIN jobs[m] : jobs[m][k] = d
      <4>1. CASE d \in DOMAIN deployment
        BY <2>0, <2>d, <3>4, <4>1 DEF Working, JobsAreAhead
      <4>2. CASE d \notin DOMAIN deployment
        BY <2>n, <2>j, <4>2
      <4> QED BY <4>1, <4>2
    <3> QED BY <3>2, <3>3, <3>4 DEF JobsAreAhead
  <2>4. JobAtHand(m)'
    <3>1. ASSUME pc[m] = "preparing"
          PROVE  /\ runs'[m][jobs'[m][1]] = 0
                 /\ Present(m)' =>
                       \/ deployment'[jobs'[m][1]].status = "Running"
                       \/ /\ deployment'[jobs'[m][1]].status = "Queued"
                          /\ \E i \in DOMAIN calls'[m] : /\ calls'[m][i].kind = "start"
                                                         /\ calls'[m][i].id = jobs'[m][1]
      BY <2>0, <2>d, <2>j, <3>1 DEF Working, JobAtHand, Busy
    <3>2. ASSUME pc[m] = "applying"
          PROVE  /\ Present(m)' => deployment'[jobs'[m][1]].status = "Running"
                 /\ \A d \in DOMAIN deployment' :
                       deployment'[d].host_id = Mine(m)' /\ d <= jobs'[m][1] =>
                          deployment'[d].status # "Queued"
      <4>1. 1 \in DOMAIN jobs[m]
        BY <2>j, <3>2 DEF Busy
      <4>2. Present(m)' => deployment'[jobs'[m][1]].status = "Running"
        BY <2>0, <2>d, <2>j, <3>2, <4>1 DEF Working, JobAtHand
      <4>3. ASSUME NEW d \in DOMAIN deployment', deployment'[d].host_id = Mine(m)',
                   d <= jobs'[m][1]
            PROVE  deployment'[d].status # "Queued"
        <5>1. jobs[m][1] \in Nat /\ d \in Nat
          BY <1>t, <2>j, <4>1, BoundAssumption
             DEF OwnWork, FleetHosts, FleetTyped, TypeOK, IsTable, DeploymentId
        <5>2. d \in DOMAIN deployment
          BY <2>n, <2>j, <4>1, <4>3, <5>1
        <5> QED BY <2>0, <2>d, <3>2, <4>3, <5>2 DEF Working, JobAtHand
      <4> QED BY <4>2, <4>3
    <3> QED BY <3>1, <3>2 DEF JobAtHand
  <2> QED BY <1>0, <2>1, <2>2, <2>3, <2>4 DEF Working
<1> QED BY <1>1, <1>2
LEMMA HostOfMine ==
    ASSUME OwnWork, DistinctCodes, NEW m \in Machines, Present(m)
    PROVE  /\ m \in DOMAIN agent_binding /\ agent_binding[m] = Mine(m)
           /\ host[Mine(m)].name = NameOf[m]
<1> USE DEF OwnWork, FleetHosts, HostsAgree
<1>1. PICK s \in DOMAIN agent_binding : agent_binding[s] = Mine(m)
  BY DEF BindingIntegrity, Range, Present
<1>2. s \in Machines /\ Mine(s) = Mine(m) /\ Mine(m) # NotConsumed
  BY <1>1 DEF BindingsAreOwn, Present, FleetTyped, TypeOK, IsTable, HostId, NotConsumed
<1>3. s = m
  BY <1>2 DEF DistinctCodes, EveryHostSpentItsOwnCode, BindingsAreOwn, Mine
<1> QED BY <1>1, <1>3 DEF BindingsAreOwn

\* The deployments a machine may start and finish are those of its own host.
LEMMA OwnedMeansMine ==
    ASSUME OwnWork, DistinctCodes, NEW m \in Machines, NEW d
    PROVE  OwnedDeployment(m, d) <=>
              d \in DOMAIN deployment /\ deployment[d].host_id = Mine(m) /\ Present(m)
<1> USE DEF OwnWork, FleetHosts, HostsAgree
<1>1. ASSUME OwnedDeployment(m, d)
      PROVE  d \in DOMAIN deployment /\ deployment[d].host_id = Mine(m) /\ Present(m)
  BY <1>1 DEF OwnedDeployment, CallerHost, IsBound, BindingsAreOwn, Present
<1>2. ASSUME d \in DOMAIN deployment, deployment[d].host_id = Mine(m), Present(m)
      PROVE  OwnedDeployment(m, d)
  BY <1>2, HostOfMine DEF OwnedDeployment, CallerHost, IsBound, Present
<1> QED BY <1>1, <1>2

LEMMA MineAlone ==
    ASSUME OwnWork, DistinctCodes, NEW m \in Machines, NEW n \in Machines,
           Mine(m) = Mine(n), Mine(m) # NotConsumed
    PROVE  m = n
BY DEF OwnWork, FleetHosts, HostsAgree, DistinctCodes, EveryHostSpentItsOwnCode, BindingsAreOwn, Mine

LEMMA LeftAloneByOthers ==
    ASSUME OwnWork, [FleetNext]_fleetVars, DistinctCodes, NEW m \in Machines,
           \/ Operate
           \/ \E n \in Machines \ {m} : Deliver(n)
           \/ deployment' = deployment
    PROVE  LeftAlone(m)
<1>t. TypeOK /\ IdsAreFresh
  BY DEF OwnWork, FleetHosts, HostsAgree
<1>d. /\ \A d \in DOMAIN deployment : d \in DeploymentId /\ d < next_id.deployment
      /\ \A d \in DOMAIN deployment : deployment[d].host_id # NotConsumed
  BY <1>t DEF TypeOK, IdsAreFresh, IsTable, Deployment, HostId, NotConsumed
<1>1. CASE deployment' = deployment
  BY <1>1 DEF LeftAlone, Status
<1>2. CASE Operate
  <2>1. ASSUME NEW h, NEW commit, QueueDeployment(Server, 1, h, commit) PROVE LeftAlone(m)
    <3> DEFINE new == next_id.deployment
    <3>1. /\ DOMAIN deployment' = DOMAIN deployment \cup {new}
          /\ \A d \in DOMAIN deployment : d # new => deployment'[d] = deployment[d]
      BY <2>1 DEF QueueDeployment, Put
    <3> HIDE DEF new
    <3>2. \A d \in DOMAIN deployment : d \in DeploymentId /\ d < new
      BY <1>d DEF new
    <3>3. \A d \in DOMAIN deployment : d # new
      BY <3>2, BoundAssumption DEF DeploymentId
    <3> QED BY <3>1, <3>2, <3>3 DEF LeftAlone, Status
  <2>2. ASSUME NEW d, RollbackDeployment(Server, d) PROVE LeftAlone(m)
    BY <1>t, <2>2 DEF RollbackDeployment, IsRollbackable, LeftAlone, Status, TypeOK, IsTable, Deployment
  <2>3. ASSUME NEW h, DeleteHost(Server, h) PROVE LeftAlone(m)
    BY <1>1, <2>3 DEF DeleteHost
  <2> QED BY <1>2, <2>1, <2>2, <2>3 DEF Operate
<1>3. ASSUME NEW n \in Machines, n # m, Deliver(n) PROVE LeftAlone(m)
  <2> DEFINE call == Head(calls[n])
  <2>1. Accepted(n, call) \/ Rejected(n, call)
    BY <1>3, DeliverRuns DEF OwnWork, FleetHosts, FleetTyped
  <2> HIDE DEF call
  <2>2. CASE Rejected(n, call) \/ EnrollHost(n, CodeOf[n], NameOf[n])
    BY <1>1, <2>2 DEF Rejected, vars, EnrollHost
  <2>3. ASSUME OwnedDeployment(n, call.id)
        PROVE  call.id \in DOMAIN deployment /\ deployment[call.id].host_id # Mine(m)
    BY <1>3, <1>d, <2>3, OwnedMeansMine, MineAlone
  <2>4. CASE StartDeployment(n, call.id)
    BY <1>t, <2>3, <2>4 DEF StartDeployment, IsClaimable, LeftAlone, Status, TypeOK, IsTable, Deployment
  <2>5. CASE FinishDeployment(n, call.id, call.ok)
    BY <1>t, <2>3, <2>5 DEF FinishDeployment, LeftAlone, Status, TypeOK, IsTable, Deployment
  <2> QED BY <2>1, <2>2, <2>4, <2>5 DEF Accepted
<1> QED BY <1>1, <1>2, <1>3

\* Nobody but m moves its process.
LEMMA WorkOfOthers ==
    ASSUME OwnWork, OwnWork', [FleetNext]_fleetVars, DistinctCodes, NEW m \in Machines, Working(m),
           \/ Operate
           \/ \E n \in Machines \ {m} : AgentNext(n) \/ Crash(n) \/ LinkDrops(n)
           \/ Refresh(m) \/ Disconnected(m) \/ UNCHANGED fleetVars
    PROVE  Working(m)'
<1>t. AgentTypeOK
  BY DEF OwnWork, FleetHosts, FleetTyped
<1>1. ASSUME NEW n \in Machines \ {m}, AgentNext(n) \/ Crash(n) \/ LinkDrops(n)
      PROVE  SameProcess(m) /\ (deployment' = deployment \/ Deliver(n))
  <2>1. ASSUME Start(n) \/ Refresh(n) \/ Poll(n) \/ Prepare(n) \/ Disconnected(n)
        PROVE  SameProcess(m) /\ deployment' = deployment
    BY <1>1, <1>t, <2>1 DEF Start, Refresh, Poll, Prepare, Disconnected, SameProcess, AgentTypeOK,
          agentVars, vars, ClientConnected, ClientDisconnected, presenceFrame
  <2>2. CASE Deliver(n)
    BY <1>1, <1>t, <2>2 DEF Deliver, SameProcess, AgentTypeOK
  <2>3. ASSUME Crash(n) \/ LinkDrops(n) PROVE SameProcess(m) /\ deployment' = deployment
    BY <1>1, <1>t, <2>3, CutTyped DEF Crash, LinkDrops, SameProcess, AgentTypeOK, vars
  <2>4. ASSUME Recover(n) PROVE SameProcess(m) /\ deployment' = deployment
    <3>1. calls'[m] = calls[m]
      BY <1>1, <1>t, <2>4, RecoveryFound, SentTyped DEF Recover
    <3> QED BY <1>1, <1>t, <2>4, <3>1 DEF Recover, SameProcess, AgentTypeOK, vars
  <2>5. ASSUME Claim(n) PROVE SameProcess(m) /\ deployment' = deployment
    <3>1. <<StartCall(Head(jobs[n]))>> \in Seq(Call)
      BY <1>t, <2>5, HeadIsAJob DEF Claim, Busy
    <3>2. calls'[m] = calls[m]
      BY <1>1, <1>t, <2>5, <3>1, SentTyped DEF Claim
    <3> QED BY <1>1, <1>t, <2>5, <3>2 DEF Claim, NextJob, SameProcess, AgentTypeOK, vars
  <2>6. ASSUME NEW ok \in BOOLEAN, Report(n, ok) PROVE SameProcess(m) /\ deployment' = deployment
    <3>1. <<FinishCall(Head(jobs[n]), ok)>> \in Seq(Call)
      BY <1>t, <2>6, HeadIsAJob DEF Report, Busy
    <3>2. calls'[m] = calls[m]
      BY <1>1, <1>t, <2>6, <3>1, SentTyped DEF Report
    <3> QED BY <1>1, <1>t, <2>6, <3>2 DEF Report, NextJob, SameProcess, AgentTypeOK, vars
  <2> QED BY <1>1, <2>1, <2>2, <2>3, <2>4, <2>5, <2>6 DEF AgentNext
<1>2. ASSUME Operate \/ Refresh(m) \/ Disconnected(m) \/ UNCHANGED fleetVars
      PROVE  SameProcess(m) /\ (Operate \/ deployment' = deployment)
  BY <1>2 DEF Operate, Refresh, Disconnected, fleetVars, agentVars, vars, SameProcess,
              ClientDisconnected, presenceFrame
<1>3. SameProcess(m) /\ LeftAlone(m)
  BY <1>1, <1>2, LeftAloneByOthers
<1> QED BY <1>3, HostIsLeftAlone, LeftAloneIsKept
LEMMA CallIsAdded ==
    ASSUME AgentTypeOK, NEW m \in Machines, NEW call \in Call,
           link[m] = TRUE, calls' = Sent(m, <<call>>)
    PROVE  \E k \in DOMAIN calls'[m] :
              /\ calls'[m][k] = call
              /\ \A i \in DOMAIN calls'[m] :
                    i # k => i \in DOMAIN calls[m] /\ calls'[m][i] = calls[m][i]
<1>1. <<call>> \in Seq(Call) /\ calls[m] \in Seq(Call)
  BY DEF AgentTypeOK
<1>2. calls'[m] = calls[m] \o <<call>>
  BY <1>1, SentTyped
<1>3. Len(calls[m]) + 1 \in DOMAIN calls'[m] /\ calls'[m][Len(calls[m]) + 1] = call
  BY <1>1, <1>2
<1>4. \A i \in DOMAIN calls'[m] :
         i # Len(calls[m]) + 1 => i \in DOMAIN calls[m] /\ calls'[m][i] = calls[m][i]
  BY <1>1, <1>2
<1> QED BY <1>3, <1>4

\* A step of the process itself leaves the tables as they are.
SameTables == UNCHANGED <<host, enrollment_token, deployment>>

LEMMA RecoverKeepsWorking ==
    ASSUME OwnWork, KeepsUpAlways, NEW m \in Machines, Working(m), Recover(m)
    PROVE  Working(m)'
<1>t. AgentTypeOK
  BY DEF OwnWork, FleetHosts, FleetTyped
<1>0. /\ pc[m] = "settling" /\ pc'[m] = "polling" /\ link[m] = TRUE /\ link' = link
      /\ UNCHANGED <<jobs, runs>> /\ SameTables
      /\ calls[m] = <<>> /\ cache[m] = Published
  BY <1>t DEF Recover, Working, KeepsUpAlways, KeepsUp, AgentTypeOK, vars, SameTables
<1>1. calls'[m] = Recovery(m)
  <2>1. Recovery(m) \in Seq(Call)
    BY <1>t, RecoveryFound
  <2>2. <<>> \o Recovery(m) = Recovery(m)
    BY <2>1
  <2> QED BY <1>t, <1>0, <2>1, <2>2, SentTyped DEF Recover
<1>2. \A i \in DOMAIN Recovery(m) : \E d \in DOMAIN deployment :
         /\ Recovery(m)[i] = FinishCall(d, FALSE)
         /\ deployment[d].host_id = Mine(m) /\ Status(d) = "Running"
  <2> SUFFICES ASSUME NEW i \in DOMAIN Recovery(m)
               PROVE  \E d \in DOMAIN deployment :
                         /\ Recovery(m)[i] = FinishCall(d, FALSE)
                         /\ deployment[d].host_id = Mine(m) /\ Status(d) = "Running"
    OBVIOUS
  <2>1. PICK d \in MineWith(m, "Running") : Recovery(m)[i] = FinishCall(d, FALSE)
    BY <1>t, RecoveryFound
  <2>2. d \in DOMAIN deployment /\ deployment[d].host_id = Mine(m)
    BY <2>1, FoundIsMine DEF OwnWork
  <2>3. Status(d) = "Running"
    BY <1>0, <2>1, <2>2 DEF MineWith, Published, Status
  <2> QED BY <2>1, <2>2, <2>3
<1>3. \A i \in DOMAIN calls'[m] : calls'[m][i].kind = "finish"
  BY <1>1, <1>2 DEF FinishCall
<1>4. ClaimsAreCurrent(m)' /\ pc'[m] \notin Busy
  BY <1>0, <1>3 DEF ClaimsAreCurrent, Busy
<1>5. ReportsAreDue(m)'
  <2>1. \A i, j \in DOMAIN calls'[m] : calls'[m][i].id = calls'[m][j].id => i = j
    <3>1. \A i, j \in DOMAIN Recovery(m) : i # j => Recovery(m)[i].id # Recovery(m)[j].id
      BY <1>t, RecoveryFound
    <3> QED BY <1>1, <3>1
  <2>2. \A i \in DOMAIN calls'[m] :
           /\ calls'[m][i].id \in DOMAIN deployment
           /\ deployment[calls'[m][i].id].host_id = Mine(m)
           /\ Status(calls'[m][i].id) = "Running"
    BY <1>1, <1>2 DEF FinishCall
  <2> QED BY <1>0, <1>4, <2>1, <2>2 DEF ReportsAreDue, SameTables, Status, Present, Mine
<1>6. RunsWereClaimed(m)'
  BY <1>0 DEF Working, RunsWereClaimed, SameTables, Status, Mine
<1>7. JobsAreAhead(m)' /\ JobAtHand(m)'
  BY <1>4 DEF JobsAreAhead, JobAtHand, Busy
<1> QED BY <1>0, <1>4, <1>5, <1>6, <1>7 DEF Working

LEMMA PollKeepsWorking ==
    ASSUME OwnWork, DistinctCodes, KeepsUpAlways, NEW m \in Machines, Working(m), Poll(m)
    PROVE  Working(m)'
<1>t. AgentTypeOK
  BY DEF OwnWork, FleetHosts, FleetTyped
<1>0. /\ pc[m] = "polling" /\ pc'[m] = "claiming" /\ link[m] = TRUE /\ link' = link
      /\ UNCHANGED <<calls, runs>> /\ SameTables /\ jobs'[m] = QueuedForMe(m)
      /\ calls[m] = <<>> /\ cache[m] = Published
  BY <1>t DEF Poll, Working, KeepsUpAlways, KeepsUp, AgentTypeOK, vars, SameTables
<1>1. ClaimsAreCurrent(m)' /\ ReportsAreDue(m)'
  BY <1>0 DEF ClaimsAreCurrent, ReportsAreDue
<1>2. RunsWereClaimed(m)'
  BY <1>0 DEF Working, RunsWereClaimed, SameTables, Status, Mine
<1>3. \A i \in DOMAIN QueuedForMe(m) :
         /\ QueuedForMe(m)[i] \in DOMAIN deployment
         /\ Status(QueuedForMe(m)[i]) = "Queued"
         /\ runs[m][QueuedForMe(m)[i]] = 0
  <2> SUFFICES ASSUME NEW d \in MineWith(m, "Queued")
               PROVE  d \in DOMAIN deployment /\ Status(d) = "Queued" /\ runs[m][d] = 0
    BY <1>t, JobsFound
  <2>1. d \in DOMAIN deployment /\ d \in DeploymentId
    BY <1>t, FoundIsMine, FoundInCache DEF OwnWork
  <2>2. Status(d) = "Queued"
    BY <1>0, <2>1 DEF MineWith, Published, Status
  <2> QED BY <2>1, <2>2 DEF Working, RunsWereClaimed
<1>4. ASSUME NEW d \in DOMAIN deployment, Present(m), deployment[d].host_id = Mine(m),
             Status(d) = "Queued"
      PROVE  \E k \in DOMAIN QueuedForMe(m) : QueuedForMe(m)[k] = d
  <2>1. Mine(m) \in DOMAIN cache[m].host /\ cache[m].host[Mine(m)] = NameOf[m]
    BY <1>0, <1>4, HostOfMine DEF Published, Present
  <2>2. HostIsCached(m) /\ CachedHost(m) = Mine(m)
    <3>1. CachedHost(m) \in DOMAIN cache[m].host /\ cache[m].host[CachedHost(m)] = NameOf[m]
      BY <2>1 DEF CachedHost
    <3> QED BY <2>1, <3>1 DEF HostIsCached, OwnWork, CachesAreOld
  <2>3. d \in MineWith(m, "Queued")
    BY <1>0, <1>4, <2>2 DEF MineWith, Published, Status
  <2> QED BY <1>t, <2>3, JobsFound
<1>5. JobsAreAhead(m)'
  <2>1. IsAscending(jobs'[m])
    BY <1>t, <1>0, JobsFound
  <2>2. \A i \in DOMAIN jobs'[m] :
           runs'[m][jobs'[m][i]] = 0 /\ deployment'[jobs'[m][i]].status = "Queued"
    BY <1>0, <1>3 DEF SameTables, Status
  <2>3. \A d \in DOMAIN deployment' :
           Present(m)' /\ deployment'[d].host_id = Mine(m)' /\ deployment'[d].status = "Queued" =>
              \E k \in DOMAIN jobs'[m] : jobs'[m][k] = d
    BY <1>0, <1>4 DEF SameTables, Status, Present, Mine
  <2> QED BY <2>1, <2>2, <2>3 DEF JobsAreAhead, Unclaimed, Status, IsAscending
<1>6. JobAtHand(m)'
  BY <1>0 DEF JobAtHand
<1> QED BY <1>0, <1>1, <1>2, <1>5, <1>6 DEF Working
\* The job at hand is the oldest of the list and in it once.
LEMMA JobsAtHand ==
    ASSUME OwnWork, NEW m \in Machines, Working(m), pc[m] \in Busy
    PROVE  /\ 1 \in DOMAIN jobs[m] /\ Head(jobs[m]) = jobs[m][1] /\ jobs[m][1] \in DeploymentId
           /\ \A i \in DOMAIN jobs[m] :
                 /\ jobs[m][i] \in DOMAIN deployment /\ deployment[jobs[m][i]].host_id = Mine(m)
                 /\ i # 1 => i > 1 /\ jobs[m][1] < jobs[m][i] /\ jobs[m][i] # jobs[m][1]
<1>t. AgentTypeOK
  BY DEF OwnWork, FleetHosts, FleetTyped
<1>1. /\ 1 \in DOMAIN jobs[m] /\ Head(jobs[m]) = jobs[m][1] /\ jobs[m][1] \in DeploymentId
      /\ jobs[m] \in Seq(DeploymentId)
  BY <1>t, HeadIsAJob DEF AgentTypeOK
<1>2. \A i \in DOMAIN jobs[m] :
         jobs[m][i] \in DOMAIN deployment /\ deployment[jobs[m][i]].host_id = Mine(m)
  BY DEF OwnWork, JobsAreOwn
<1>3. ASSUME NEW i \in DOMAIN jobs[m], i # 1
      PROVE  i > 1 /\ jobs[m][1] < jobs[m][i] /\ jobs[m][i] # jobs[m][1]
  <2>1. i > 1
    BY <1>1, <1>3
  <2>2. jobs[m][1] < jobs[m][i]
    BY <1>1, <2>1 DEF Working, JobsAreAhead, IsAscending
  <2>3. jobs[m][1] \in Nat
    BY <1>1, BoundAssumption DEF DeploymentId
  <2> QED BY <2>1, <2>2, <2>3
<1> QED BY <1>1, <1>2, <1>3

LEMMA StartKeepsWorking ==
    ASSUME OwnWork, NEW m \in Machines, Working(m), Start(m)
    PROVE  Working(m)'
<1>t. AgentTypeOK
  BY DEF OwnWork, FleetHosts, FleetTyped
<1>0. /\ pc'[m] = "settling" /\ link'[m] = TRUE
      /\ calls'[m] = <<>> \/ calls'[m] = <<[kind |-> "enroll"]>>
      /\ UNCHANGED <<runs, enrollment_token, deployment>>
  BY <1>t DEF Start, AgentTypeOK, ClientConnected, presenceFrame
<1>1. pc'[m] \notin Busy /\ \A i \in DOMAIN calls'[m] : calls'[m][i].kind = "enroll"
  BY <1>0 DEF Busy
<1>2. ClaimsAreCurrent(m)' /\ ReportsAreDue(m)'
  BY <1>1 DEF ClaimsAreCurrent, ReportsAreDue
<1>3. RunsWereClaimed(m)'
  BY <1>0 DEF Working, RunsWereClaimed, Status, Mine
<1>4. JobsAreAhead(m)' /\ JobAtHand(m)'
  BY <1>1 DEF JobsAreAhead, JobAtHand, Busy
<1> QED BY <1>0, <1>2, <1>3, <1>4 DEF Working

LEMMA CrashKeepsWorking ==
    ASSUME OwnWork, NEW m \in Machines, Working(m), Crash(m)
    PROVE  Working(m)'
<1>t. AgentTypeOK
  BY DEF OwnWork, FleetHosts, FleetTyped
<1>0. pc'[m] = "down" /\ UNCHANGED runs /\ SameTables
  BY <1>t DEF Crash, AgentTypeOK, vars, SameTables
<1>1. \A i \in DOMAIN calls'[m] : i \in DOMAIN calls[m] /\ calls'[m][i] = calls[m][i]
  BY <1>t, CutTyped DEF Crash
<1>2. ClaimsAreCurrent(m)' /\ pc'[m] \notin Busy
  BY <1>0 DEF ClaimsAreCurrent, Busy
<1>3. ReportsAreDue(m)'
  BY <1>0, <1>1, <1>2 DEF Working, ReportsAreDue, SameTables, Status, Present, Mine
<1>4. RunsWereClaimed(m)'
  BY <1>0 DEF Working, RunsWereClaimed, SameTables, Status, Mine
<1>5. JobsAreAhead(m)' /\ JobAtHand(m)'
  BY <1>2 DEF JobsAreAhead, JobAtHand, Busy
<1> QED BY <1>0, <1>2, <1>3, <1>4, <1>5 DEF Working

LEMMA ClaimKeepsWorking ==
    ASSUME OwnWork, NEW m \in Machines, Working(m), Claim(m)
    PROVE  Working(m)'
<1>t. AgentTypeOK
  BY DEF OwnWork, FleetHosts, FleetTyped
<1> DEFINE call == StartCall(jobs[m][1])
<1>0. /\ pc[m] = "claiming" /\ link[m] = TRUE /\ pc'[m] = "preparing"
      /\ UNCHANGED <<jobs, link, runs>> /\ SameTables
  BY <1>t DEF Claim, Working, AgentTypeOK, vars, SameTables
<1>j. 1 \in DOMAIN jobs[m] /\ Head(jobs[m]) = jobs[m][1] /\ call \in Call
  BY <1>t, <1>0, HeadIsAJob DEF Busy
<1>c. call.kind = "start" /\ call.id = jobs[m][1]
  BY DEF StartCall
<1>s. calls' = Sent(m, <<call>>)
  BY <1>j DEF Claim
<1> HIDE DEF call
<1>1. PICK k \in DOMAIN calls'[m] :
         /\ calls'[m][k] = call
         /\ \A i \in DOMAIN calls'[m] :
               i # k => i \in DOMAIN calls[m] /\ calls'[m][i] = calls[m][i]
  <2>1. link[m] = TRUE /\ call \in Call
    BY <1>0, <1>j
  <2> QED BY ONLY <1>t, <1>s, <2>1, CallIsAdded, m \in Machines
<1>2. ClaimsAreCurrent(m)'
  BY <1>0, <1>1, <1>c DEF Working, ClaimsAreCurrent
<1>3. ReportsAreDue(m)'
  <2>1. \A i \in DOMAIN calls'[m] : calls'[m][i].kind = "finish" =>
           i \in DOMAIN calls[m] /\ calls'[m][i] = calls[m][i]
    BY <1>1, <1>c
  <2> QED BY <1>0, <2>1 DEF Working, ReportsAreDue, SameTables, Status, Present, Mine, Busy
<1>4. RunsWereClaimed(m)'
  BY <1>0 DEF Working, RunsWereClaimed, SameTables, Status, Mine
<1>5. JobsAreAhead(m)'
  BY <1>0 DEF Working, JobsAreAhead, IsAscending, Unclaimed, SameTables, Status, Present, Mine, Busy
<1>6. JobAtHand(m)'
  <2>1. runs[m][jobs[m][1]] = 0 /\ (Present(m) => Status(jobs[m][1]) = "Queued")
    BY <1>0, <1>j DEF Working, JobsAreAhead, Unclaimed, Busy
  <2> QED BY <1>0, <1>1, <1>c, <2>1 DEF JobAtHand, SameTables, Status, Present, Mine
<1> QED BY <1>0, <1>2, <1>3, <1>4, <1>5, <1>6 DEF Working

LEMMA PrepareKeepsWorking ==
    ASSUME OwnWork, KeepsUpAlways, DistinctNames, NEW m \in Machines, Working(m), Prepare(m)
    PROVE  Working(m)'
<1>t. AgentTypeOK
  BY DEF OwnWork, FleetHosts, FleetTyped
<1> DEFINE d == jobs[m][1]
<1>0. /\ pc[m] = "preparing" /\ pc'[m] = "applying" /\ link[m] = TRUE /\ calls[m] = <<>>
      /\ UNCHANGED <<jobs, link, calls>> /\ SameTables
  BY <1>t DEF Prepare, Working, KeepsUpAlways, KeepsUp, AgentTypeOK, vars, SameTables
<1>j. /\ 1 \in DOMAIN jobs[m] /\ Head(jobs[m]) = d /\ d \in DeploymentId
      /\ d \in DOMAIN deployment /\ deployment[d].host_id = Mine(m)
      /\ \A i \in DOMAIN jobs[m] : i # 1 => i > 1 /\ d < jobs[m][i] /\ jobs[m][i] # d
  BY <1>0, JobsAtHand DEF Busy
<1> HIDE DEF d
<1>p. Present(m)
  BY <1>j DEF Prepare, ServerAllows, Present
<1>s. Status(d) = "Running" /\ runs[m][d] = 0
  BY <1>0, <1>p DEF Working, JobAtHand, d
<1>r. runs'[m][d] = 1 /\ \A e \in DeploymentId : e # d => runs'[m][e] = runs[m][e]
  BY <1>t, <1>j, <1>s DEF Prepare, AgentTypeOK
<1>1. ClaimsAreCurrent(m)' /\ ReportsAreDue(m)'
  BY <1>0 DEF ClaimsAreCurrent, ReportsAreDue
<1>2. RunsWereClaimed(m)'
  BY <1>0, <1>j, <1>s, <1>r DEF Working, RunsWereClaimed, SameTables, Status, Mine
<1>3. JobsAreAhead(m)'
  <2>1. \A i \in Unclaimed(m)' : i \in Unclaimed(m) /\ jobs[m][i] # d /\ jobs[m][i] \in DeploymentId
    BY <1>t, <1>0, <1>j DEF Unclaimed, AgentTypeOK
  <2> QED BY <1>0, <1>r, <2>1 DEF Working, JobsAreAhead, IsAscending, SameTables, Status, Present, Mine, Busy
<1>4. ASSUME NEW e \in DOMAIN deployment, deployment[e].host_id = Mine(m), e <= d,
             Status(e) = "Queued"
      PROVE  FALSE
  <2>1. d < e \/ \E k \in DOMAIN jobs[m] : jobs[m][k] = e
    BY <1>0, <1>p, <1>j, <1>4 DEF Working, JobsAreAhead, Busy, d
  <2>2. d \in Nat /\ e \in Nat
    BY <1>j, BoundAssumption DEF OwnWork, FleetHosts, FleetTyped, TypeOK, IsTable, DeploymentId
  <2>3. PICK k \in DOMAIN jobs[m] : jobs[m][k] = e
    BY <1>4, <2>1, <2>2
  <2>4. k = 1
    BY <1>4, <1>j, <2>2, <2>3
  <2> QED BY <1>4, <1>s, <2>3, <2>4 DEF d
<1>5. JobAtHand(m)'
  BY <1>0, <1>s, <1>4 DEF JobAtHand, SameTables, Status, Present, Mine, d
<1> QED BY <1>0, <1>1, <1>2, <1>3, <1>5 DEF Working
LEMMA ReportKeepsWorking ==
    ASSUME OwnWork, KeepsUpAlways, NEW m \in Machines, Working(m), NEW ok \in BOOLEAN, Report(m, ok)
    PROVE  Working(m)'
<1>t. AgentTypeOK
  BY DEF OwnWork, FleetHosts, FleetTyped
<1> DEFINE d == jobs[m][1]
           call == FinishCall(d, ok)
<1>0. /\ pc[m] = "applying" \/ (pc[m] = "preparing" /\ calls[m] = <<>>)
      /\ pc[m] \in Busy /\ link[m] = TRUE /\ UNCHANGED <<link, runs>> /\ SameTables /\ NextJob(m)
  BY <1>t DEF Report, Working, KeepsUpAlways, KeepsUp, AgentTypeOK, vars, SameTables, Busy
<1>j. /\ 1 \in DOMAIN jobs[m] /\ Head(jobs[m]) = d /\ d \in DeploymentId
      /\ d \in DOMAIN deployment /\ deployment[d].host_id = Mine(m)
      /\ \A i \in DOMAIN jobs[m] : i # 1 => i > 1 /\ d < jobs[m][i] /\ jobs[m][i] # d
  BY <1>0, JobsAtHand
<1>c. call \in Call /\ call.kind = "finish" /\ call.id = d
  BY <1>j DEF FinishCall, Call
<1>s. calls' = Sent(m, <<call>>)
  BY <1>j DEF Report
<1>r. Present(m) => Status(d) = "Running"
  BY <1>0 DEF Working, JobAtHand
<1>n. /\ jobs'[m] = Tail(jobs[m]) /\ pc'[m] \in {"claiming", "polling"}
      /\ \A i \in DOMAIN jobs'[m] :
            i + 1 \in DOMAIN jobs[m] /\ i + 1 # 1 /\ jobs'[m][i] = jobs[m][i + 1]
  <2>1. jobs[m] # <<>>
    BY <1>t, <1>0 DEF AgentTypeOK
  <2>2. jobs'[m] = Tail(jobs[m]) /\ pc'[m] \in {"claiming", "polling"}
    BY <1>t, <1>0, NextJobTyped
  <2>3. \A i \in DOMAIN jobs'[m] :
            i + 1 \in DOMAIN jobs[m] /\ i + 1 # 1 /\ jobs'[m][i] = jobs[m][i + 1]
    BY <1>t, <2>1, <2>2, RestOfJobs
  <2> QED BY <2>2, <2>3
<1>k. \A k \in DOMAIN jobs[m] : k # 1 => \E i \in DOMAIN jobs'[m] : jobs'[m][i] = jobs[m][k]
  <2>1. jobs[m] \in Seq(DeploymentId) /\ jobs[m] # <<>>
    BY <1>t, <1>0 DEF AgentTypeOK
  <2>2. \A k \in DOMAIN jobs[m] :
           k # 1 => k - 1 \in DOMAIN Tail(jobs[m]) /\ Tail(jobs[m])[k - 1] = jobs[m][k]
    BY <2>1
  <2> QED BY <1>n, <2>2
<1> HIDE DEF call, d
<1>1. PICK k \in DOMAIN calls'[m] :
         /\ calls'[m][k] = call
         /\ \A i \in DOMAIN calls'[m] :
               i # k => i \in DOMAIN calls[m] /\ calls'[m][i] = calls[m][i]
  <2>1. link[m] = TRUE /\ call \in Call
    BY <1>0, <1>c
  <2> QED BY ONLY <1>t, <1>s, <2>1, CallIsAdded, m \in Machines
<1>2. ClaimsAreCurrent(m)'
  <2>1. \A i \in DOMAIN calls[m] : calls[m][i].kind # "start"
    BY <1>0 DEF Working, ClaimsAreCurrent
  <2> QED BY <1>1, <1>c, <2>1 DEF ClaimsAreCurrent
<1>3. ReportsAreDue(m)'
  <2>1. \A i \in DOMAIN calls[m] : calls[m][i].kind = "finish" =>
           /\ calls[m][i].id \in DOMAIN deployment
           /\ deployment[calls[m][i].id].host_id = Mine(m)
           /\ Present(m) => Status(calls[m][i].id) = "Running"
           /\ calls[m][i].id # d
           /\ \A k1 \in DOMAIN jobs'[m] : jobs'[m][k1] # calls[m][i].id
    <3>1. \A i \in DOMAIN calls[m] : calls[m][i].kind = "finish" =>
             \A k1 \in DOMAIN jobs[m] : jobs[m][k1] # calls[m][i].id
      BY <1>0 DEF Working, ReportsAreDue
    <3>2. \A i \in DOMAIN calls[m] : calls[m][i].kind = "finish" => calls[m][i].id # d
      BY <1>j, <3>1 DEF d
    <3> QED BY <1>n, <3>1, <3>2 DEF Working, ReportsAreDue
  <2>2. \A i \in DOMAIN jobs'[m] : jobs'[m][i] # d
    BY <1>j, <1>n
  <2>3. \A i \in DOMAIN calls'[m] : calls'[m][i].kind = "finish" =>
           /\ calls'[m][i].id \in DOMAIN deployment
           /\ deployment[calls'[m][i].id].host_id = Mine(m)
           /\ Present(m) => Status(calls'[m][i].id) = "Running"
           /\ \A k1 \in DOMAIN jobs'[m] : jobs'[m][k1] # calls'[m][i].id
    BY <1>1, <1>c, <1>j, <1>r, <2>1, <2>2
  <2>4. \A i, j \in DOMAIN calls'[m] :
           /\ calls'[m][i].kind = "finish" /\ calls'[m][j].kind = "finish"
           /\ calls'[m][i].id = calls'[m][j].id
           => i = j
    <3>1. \A i, j \in DOMAIN calls[m] :
             /\ calls[m][i].kind = "finish" /\ calls[m][j].kind = "finish"
             /\ calls[m][i].id = calls[m][j].id
             => i = j
      BY DEF Working, ReportsAreDue
    <3> QED BY <1>1, <1>c, <2>1, <3>1
  <2>5. UNCHANGED <<deployment, Mine(m), Present(m)>>
    BY <1>0 DEF SameTables, Mine, Present
  <2> QED BY <2>3, <2>4, <2>5 DEF ReportsAreDue, Status
<1>4. RunsWereClaimed(m)'
  BY <1>0 DEF Working, RunsWereClaimed, SameTables, Status, Mine
<1>5. JobsAreAhead(m)'
  <2>1. IsAscending(jobs[m])
    BY <1>0 DEF Working, JobsAreAhead
  <2>2. IsAscending(jobs'[m])
    <3> SUFFICES ASSUME NEW i \in DOMAIN jobs'[m], NEW j \in DOMAIN jobs'[m], i < j
                 PROVE  jobs'[m][i] < jobs'[m][j]
      BY DEF IsAscending
    <3>1. DOMAIN jobs'[m] \subseteq Nat
      <4>1. Tail(jobs[m]) \in Seq(DeploymentId)
        BY <1>t, <1>0, RestOfJobs DEF AgentTypeOK
      <4> QED BY <1>n, <4>1
    <3>2. i + 1 < j + 1
      BY <3>1
    <3> QED BY <1>n, <2>1, <3>2 DEF IsAscending
  <2>3. \A i \in DOMAIN jobs'[m] : /\ runs[m][jobs'[m][i]] = 0
                                   /\ Present(m) => Status(jobs'[m][i]) = "Queued"
    <3>1. \A i \in DOMAIN jobs[m] : i # 1 => i \in Unclaimed(m)
      BY <1>j DEF Unclaimed
    <3> QED BY <1>0, <1>n, <3>1 DEF Working, JobsAreAhead
  <2>4. ASSUME NEW e \in DOMAIN deployment, Present(m), deployment[e].host_id = Mine(m),
               Status(e) = "Queued", NEW i \in DOMAIN jobs'[m]
        PROVE  jobs'[m][i] < e \/ \E k1 \in DOMAIN jobs'[m] : jobs'[m][k1] = e
    <3>1. e # d
      BY <1>r, <2>4
    <3>2. jobs[m][i + 1] < e \/ \E k1 \in DOMAIN jobs[m] : jobs[m][k1] = e
      BY <1>0, <1>n, <2>4 DEF Working, JobsAreAhead
    <3> QED BY <1>n, <1>k, <3>1, <3>2 DEF d
  <2>5. UNCHANGED <<deployment, runs, Mine(m), Present(m)>>
    BY <1>0 DEF SameTables, Mine, Present
  <2>6. IsAscending(jobs[m])'
    BY <2>2 DEF IsAscending
  <2> QED BY <2>3, <2>4, <2>5, <2>6 DEF JobsAreAhead, Unclaimed, Status
<1>6. JobAtHand(m)'
  BY <1>n DEF JobAtHand
<1> QED BY <1>0, <1>2, <1>3, <1>4, <1>5, <1>6 DEF Working
\* The statuses m's own deployments move between when its oldest call runs.
LEMMA DeliverMoves ==
    ASSUME OwnWork, DistinctCodes, NEW m \in Machines, Working(m), Deliver(m)
    PROVE  LET call == Head(calls[m])
               mine == call.id \in DOMAIN deployment /\ deployment[call.id].host_id = Mine(m)
           IN
           \/ deployment' = deployment
              /\ (call.kind = "enroll" \/ (mine /\ Present(m) => Status(call.id) # "Queued"))
           \/ /\ call.kind = "start" /\ mine /\ Present(m) /\ Status(call.id) = "Queued"
              /\ deployment' = [deployment EXCEPT ![call.id].status = "Running",
                                                  ![call.id].started = TRUE]
           \/ /\ call.kind = "finish" /\ mine /\ Present(m) /\ Status(call.id) = "Running"
              /\ deployment' = [deployment EXCEPT
                                   ![call.id].status = IF call.ok THEN "Succeeded" ELSE "Failed",
                                   ![call.id].finished = TRUE]
<1>t. AgentTypeOK
  BY DEF OwnWork, FleetHosts, FleetTyped
<1> DEFINE call == Head(calls[m])
           mine == call.id \in DOMAIN deployment /\ deployment[call.id].host_id = Mine(m)
<1>c. call \in Call /\ 1 \in DOMAIN calls[m] /\ call = calls[m][1]
  BY <1>t, HeadIsACall DEF Deliver
<1>o. OwnedDeployment(m, call.id) <=> mine /\ Present(m)
  BY OwnedMeansMine
<1>r. call.kind = "finish" => mine /\ (Present(m) => Status(call.id) = "Running")
  BY <1>c DEF Working, ReportsAreDue
<1> HIDE DEF call, mine
<1>1. Accepted(m, call) \/ Rejected(m, call)
  BY <1>t, DeliverRuns DEF call
<1> DEFINE Same == deployment' = deployment
              /\ (call.kind = "enroll" \/ (mine /\ Present(m) => Status(call.id) # "Queued"))
           Started == /\ call.kind = "start" /\ mine /\ Present(m) /\ Status(call.id) = "Queued"
              /\ deployment' = [deployment EXCEPT ![call.id].status = "Running",
                                                  ![call.id].started = TRUE]
           Finished == /\ call.kind = "finish" /\ mine /\ Present(m) /\ Status(call.id) = "Running"
              /\ deployment' = [deployment EXCEPT
                                   ![call.id].status = IF call.ok THEN "Succeeded" ELSE "Failed",
                                   ![call.id].finished = TRUE]
<1>2. Rejected(m, call) => Same
  BY <1>o, <1>r DEF Rejected, IsClaimable, vars, Status
<1>3. call.kind = "enroll" /\ EnrollHost(m, CodeOf[m], NameOf[m]) => Same
  BY DEF EnrollHost
<1>4. call.kind = "start" /\ StartDeployment(m, call.id) => Started
  BY <1>o DEF StartDeployment, IsClaimable, Status
<1>5. call.kind = "finish" /\ FinishDeployment(m, call.id, call.ok) => Finished
  BY <1>o, <1>r DEF FinishDeployment
<1>6. Same \/ Started \/ Finished
  BY <1>1, <1>2, <1>3, <1>4, <1>5 DEF Accepted
<1> QED BY <1>6 DEF mine, call

LEMMA DeliverKeepsWorking ==
    ASSUME OwnWork, OwnWork', [FleetNext]_fleetVars, DistinctCodes, NEW m \in Machines,
           Working(m), Deliver(m)
    PROVE  Working(m)'
<1>t. AgentTypeOK /\ TypeOK
  BY DEF OwnWork, FleetHosts, FleetTyped
<1> DEFINE call == Head(calls[m])
           mine == call.id \in DOMAIN deployment /\ deployment[call.id].host_id = Mine(m)
<1>0. /\ UNCHANGED <<pc, jobs, link, runs>>
      /\ call \in Call /\ 1 \in DOMAIN calls[m] /\ call = calls[m][1]
      /\ \A i \in DOMAIN calls'[m] :
            i + 1 \in DOMAIN calls[m] /\ i + 1 # 1 /\ calls'[m][i] = calls[m][i + 1]
      /\ \A i \in DOMAIN calls[m] :
            i # 1 => \E k \in DOMAIN calls'[m] : calls'[m][k] = calls[m][i]
  <2>1. calls[m] \in Seq(Call) /\ calls[m] # <<>> /\ calls'[m] = Tail(calls[m])
    BY <1>t DEF Deliver, AgentTypeOK
  <2>2. \A i \in DOMAIN Tail(calls[m]) :
            i + 1 \in DOMAIN calls[m] /\ i + 1 # 1 /\ Tail(calls[m])[i] = calls[m][i + 1]
    BY <2>1
  <2>3. \A i \in DOMAIN calls[m] :
            i # 1 => i - 1 \in DOMAIN Tail(calls[m]) /\ Tail(calls[m])[i - 1] = calls[m][i]
    BY <2>1
  <2>4. call \in Call /\ 1 \in DOMAIN calls[m] /\ call = calls[m][1]
    BY <1>t, <2>1, HeadIsACall
  <2> QED BY <2>1, <2>2, <2>3, <2>4 DEF Deliver
<1>m. \/ deployment' = deployment
         /\ (call.kind = "enroll" \/ (mine /\ Present(m) => Status(call.id) # "Queued"))
      \/ /\ call.kind = "start" /\ mine /\ Present(m) /\ Status(call.id) = "Queued"
         /\ deployment' = [deployment EXCEPT ![call.id].status = "Running",
                                             ![call.id].started = TRUE]
      \/ /\ call.kind = "finish" /\ mine /\ Present(m) /\ Status(call.id) = "Running"
         /\ deployment' = [deployment EXCEPT
                              ![call.id].status = IF call.ok THEN "Succeeded" ELSE "Failed",
                              ![call.id].finished = TRUE]
  BY DeliverMoves
<1> HIDE DEF call
<1>d. /\ DOMAIN deployment' = DOMAIN deployment
      /\ \A d \in DOMAIN deployment :
            /\ deployment'[d].host_id = deployment[d].host_id
            /\ call.kind = "enroll" \/ d # call.id => deployment'[d].status = Status(d)
            /\ deployment'[d].status = "Queued" => Status(d) = "Queued"
            /\ call.kind = "start" /\ d = call.id /\ deployment[d].host_id = Mine(m) /\ Present(m)
               /\ Status(d) \in {"Queued", "Running"} => deployment'[d].status = "Running"
  BY <1>t, <1>m DEF TypeOK, IsTable, Deployment, Status
<1>1. ClaimsAreCurrent(m)'
  BY <1>0 DEF Working, ClaimsAreCurrent
<1>b. ASSUME Mine(m) = NotConsumed PROVE Working(m)'
  <2>1. /\ pc'[m] \notin Busy
        /\ \A i \in DOMAIN calls'[m] : calls'[m][i].kind # "finish"
        /\ \A d \in DeploymentId : runs'[m][d] = 0
    BY <1>0, <1>b, NothingYet
  <2>2. ReportsAreDue(m)' /\ RunsWereClaimed(m)'
    BY <2>1 DEF ReportsAreDue, RunsWereClaimed
  <2>3. JobsAreAhead(m)' /\ JobAtHand(m)'
    BY <2>1 DEF JobsAreAhead, JobAtHand, Busy
  <2> QED BY <1>0, <1>1, <2>2, <2>3 DEF Working
<1>a. ASSUME Mine(m) # NotConsumed PROVE Working(m)'
  <2>0. Mine(m)' = Mine(m) /\ (Present(m)' => Present(m))
    BY <1>a, HostIsLeftAlone
  <2>1. ReportsAreDue(m)'
    <3>1. \A i \in DOMAIN calls[m] :
             calls[m][i].kind = "finish" /\ i # 1 /\ Present(m) =>
                call.kind = "enroll" \/ calls[m][i].id # call.id \/ deployment' = deployment
      BY <1>0, <1>m DEF Working, ReportsAreDue, Status
    <3>2. \A i \in DOMAIN calls'[m] : calls'[m][i].kind = "finish" =>
             /\ calls'[m][i].id \in DOMAIN deployment'
             /\ deployment'[calls'[m][i].id].host_id = Mine(m)'
             /\ Present(m)' => deployment'[calls'[m][i].id].status = "Running"
             /\ pc'[m] \in Busy => \A k \in DOMAIN jobs'[m] : jobs'[m][k] # calls'[m][i].id
      BY <1>0, <1>d, <2>0, <3>1 DEF Working, ReportsAreDue, Status
    <3>3. \A i, j \in DOMAIN calls'[m] :
             /\ calls'[m][i].kind = "finish" /\ calls'[m][j].kind = "finish"
             /\ calls'[m][i].id = calls'[m][j].id
             => i = j
      <4>1. DOMAIN calls'[m] \subseteq Nat
        BY DEF OwnWork, FleetHosts, FleetTyped, AgentTypeOK
      <4>2. \A i, j \in DOMAIN calls[m] :
               /\ calls[m][i].kind = "finish" /\ calls[m][j].kind = "finish"
               /\ calls[m][i].id = calls[m][j].id
               => i = j
        BY DEF Working, ReportsAreDue
      <4>3. \A i, j \in DOMAIN calls'[m] :
               /\ calls'[m][i].kind = "finish" /\ calls'[m][j].kind = "finish"
               /\ calls'[m][i].id = calls'[m][j].id
               => i + 1 = j + 1
        BY <1>0, <4>2
      <4> QED BY <4>1, <4>3
    <3> QED BY <3>2, <3>3 DEF ReportsAreDue, Status
  <2>2. RunsWereClaimed(m)'
    BY <1>0, <1>d, <2>0 DEF Working, RunsWereClaimed, Status
  <2>3. JobsAreAhead(m)'
    <3> SUFFICES ASSUME pc[m] \in Busy PROVE JobsAreAhead(m)'
      BY <1>0 DEF JobsAreAhead
    <3>1. IsAscending(jobs[m])'
      BY <1>0 DEF Working, JobsAreAhead, IsAscending
    <3>2. ASSUME NEW i \in Unclaimed(m)
          PROVE  /\ runs[m][jobs[m][i]] = 0
                 /\ Present(m) => deployment'[jobs[m][i]].status = "Queued"
      <4>1. i \in DOMAIN jobs[m] /\ jobs[m][i] \in DOMAIN deployment
        BY JobsAtHand DEF Unclaimed
      <4>2. runs[m][jobs[m][i]] = 0 /\ (Present(m) => Status(jobs[m][i]) = "Queued")
        BY DEF Working, JobsAreAhead
      <4>3. call.kind = "start" => i # 1 /\ call.id = jobs[m][1]
        BY <1>0 DEF Working, ClaimsAreCurrent, Unclaimed, Busy
      <4>4. call.kind = "start" => call.id # jobs[m][i]
        BY <4>1, <4>3, JobsAtHand
      <4>5. call.kind = "finish" => call.id # jobs[m][i]
        BY <1>0, <4>1 DEF Working, ReportsAreDue
      <4>6. call.kind \in {"enroll", "start", "finish"}
        BY <1>0 DEF Call
      <4> QED BY <1>d, <4>1, <4>2, <4>4, <4>5, <4>6
    <3>3. \A d \in DOMAIN deployment' :
             Present(m)' /\ deployment'[d].host_id = Mine(m)' /\ deployment'[d].status = "Queued" =>
                \A i \in DOMAIN jobs'[m] : \/ jobs'[m][i] < d
                                           \/ \E k \in DOMAIN jobs'[m] : jobs'[m][k] = d
      BY <1>0, <1>d, <2>0 DEF Working, JobsAreAhead
    <3> QED BY <1>0, <2>0, <3>1, <3>2, <3>3 DEF JobsAreAhead, Unclaimed, Status
  <2>4. JobAtHand(m)'
    <3>1. ASSUME pc[m] = "preparing"
          PROVE  /\ runs[m][jobs[m][1]] = 0
                 /\ Present(m) =>
                       \/ deployment'[jobs[m][1]].status = "Running"
                       \/ /\ deployment'[jobs[m][1]].status = "Queued"
                          /\ \E i \in DOMAIN calls'[m] : /\ calls'[m][i].kind = "start"
                                                         /\ calls'[m][i].id = jobs[m][1]
      <4>1. jobs[m][1] \in DOMAIN deployment /\ 1 \in DOMAIN jobs[m]
            /\ deployment[jobs[m][1]].host_id = Mine(m)
        BY <3>1, JobsAtHand DEF Busy
      <4>2. runs[m][jobs[m][1]] = 0
        BY <3>1 DEF Working, JobAtHand
      <4>3. CASE call.kind = "start"
        <5>1. call.id = jobs[m][1]
          BY <1>0, <3>1, <4>3 DEF Working, ClaimsAreCurrent
        <5>2. Present(m) => Status(jobs[m][1]) \in {"Queued", "Running"}
          BY <3>1 DEF Working, JobAtHand
        <5> QED BY <1>d, <4>1, <4>2, <4>3, <5>1, <5>2
      <4>4. CASE call.kind = "enroll" \/ call.kind = "finish"
        <5>1. call.kind = "finish" => call.id # jobs[m][1]
          BY <1>0, <3>1, <4>1 DEF Working, ReportsAreDue, Busy
        <5>2. deployment'[jobs[m][1]].status = Status(jobs[m][1])
          BY <1>d, <4>1, <4>4, <5>1
        <5>3. \A i \in DOMAIN calls[m] : calls[m][i].kind = "start" => i # 1
          BY <1>0, <4>4
        <5> QED BY <1>0, <3>1, <4>2, <5>2, <5>3 DEF Working, JobAtHand
      <4> QED BY <1>0, <4>3, <4>4 DEF Call
    <3>2. ASSUME pc[m] = "applying"
          PROVE  /\ Present(m) => deployment'[jobs[m][1]].status = "Running"
                 /\ \A d \in DOMAIN deployment :
                       deployment[d].host_id = Mine(m) /\ d <= jobs[m][1] =>
                          deployment'[d].status # "Queued"
      <4>1. jobs[m][1] \in DOMAIN deployment /\ 1 \in DOMAIN jobs[m]
        BY <3>2, JobsAtHand DEF Busy
      <4>2. call.kind # "start"
        BY <1>0, <3>2 DEF Working, ClaimsAreCurrent
      <4>3. call.kind = "finish" => call.id # jobs[m][1]
        BY <1>0, <3>2, <4>1 DEF Working, ReportsAreDue, Busy
      <4>4. call.kind \in {"enroll", "start", "finish"}
        BY <1>0 DEF Call
      <4>5. deployment'[jobs[m][1]].status = Status(jobs[m][1])
        BY <1>d, <4>1, <4>2, <4>3, <4>4
      <4> QED BY <1>d, <3>2, <4>5 DEF Working, JobAtHand
    <3> QED BY <1>0, <1>d, <2>0, <3>1, <3>2 DEF JobAtHand, Status
  <2> QED BY <1>0, <1>1, <2>1, <2>2, <2>3, <2>4 DEF Working
<1> QED BY <1>a, <1>b
LEMMA WorkInvInit == FleetInit => WorkInv
<1> SUFFICES ASSUME FleetInit, NEW m \in Machines PROVE Working(m)
  BY OwnWorkInit DEF WorkInv
<1>1. /\ pc[m] = "down" /\ calls[m] = <<>>
      /\ \A d \in DeploymentId : runs[m][d] = 0
  BY DEF FleetInit
<1>2. ClaimsAreCurrent(m) /\ ReportsAreDue(m) /\ RunsWereClaimed(m)
  BY <1>1 DEF ClaimsAreCurrent, ReportsAreDue, RunsWereClaimed
<1>3. JobsAreAhead(m) /\ JobAtHand(m)
  BY <1>1 DEF JobsAreAhead, JobAtHand, Busy
<1> QED BY <1>1, <1>2, <1>3 DEF Working

LEMMA WorkInvStep ==
    ASSUME KeepsUpAlways, DistinctNames, DistinctCodes, WorkInv, [FleetNext]_fleetVars
    PROVE  WorkInv'
<1>1. OwnWork /\ OwnWork'
  BY FleetHostsStep, CachesStep, JobsStep DEF WorkInv, OwnWork
<1>2. ASSUME NEW m \in Machines PROVE Working(m)'
  <2>0. Working(m)
    BY DEF WorkInv
  <2>1. CASE AgentNext(m) \/ Crash(m)
    BY <1>1, <2>0, <2>1, StartKeepsWorking, RecoverKeepsWorking, PollKeepsWorking,
       ClaimKeepsWorking, PrepareKeepsWorking, ReportKeepsWorking, DeliverKeepsWorking,
       CrashKeepsWorking, WorkOfOthers
       DEF AgentNext
  <2>2. ~LinkDrops(m)
    BY DEF LinkDrops, KeepsUpAlways
  <2>3. CASE \/ Operate
             \/ \E n \in Machines \ {m} : AgentNext(n) \/ Crash(n) \/ LinkDrops(n)
             \/ UNCHANGED fleetVars
    BY <1>1, <2>0, <2>3, WorkOfOthers
  <2> QED BY <2>1, <2>2, <2>3 DEF FleetNext
<1> QED BY <1>1, <1>2 DEF WorkInv

LEMMA WorkInvHolds ==
    ASSUME KeepsUpAlways, DistinctNames, DistinctCodes
    PROVE  FleetSpec => []WorkInv
<1>1. FleetInit => WorkInv BY WorkInvInit
<1>2. WorkInv /\ [FleetNext]_fleetVars => WorkInv' BY WorkInvStep
<1> QED BY <1>1, <1>2, PTL DEF FleetSpec

\* Over connections that keep up, between machines of their own names and
\* codes, a deployment is applied at most once over all machines and restarts:
\* what a process that died had applied is failed, never taken up again.
THEOREM EachAppliedOnce ==
    KeepsUpAlways /\ DistinctNames /\ DistinctCodes => (FleetSpec => []AppliedAtMostOnce)
<1> SUFFICES ASSUME KeepsUpAlways, DistinctNames, DistinctCodes
             PROVE  FleetSpec => []AppliedAtMostOnce
  OBVIOUS
<1>1. FleetSpec => []WorkInv BY WorkInvHolds
<1>2. WorkInv => AppliedAtMostOnce
  <2> SUFFICES ASSUME WorkInv, NEW m \in Machines, NEW d \in DeploymentId, runs[m][d] # 0
               PROVE  /\ runs[m][d] = 1
                      /\ \A n \in Machines \ {m} : runs[n][d] = 0
    BY DEF AppliedAtMostOnce, WorkInv, OwnWork, FleetHosts, FleetTyped, AgentTypeOK
  <2>1. runs[m][d] = 1 /\ d \in DOMAIN deployment /\ deployment[d].host_id = Mine(m)
    BY DEF WorkInv, Working, RunsWereClaimed
  <2>2. Mine(m) # NotConsumed
    BY <2>1 DEF WorkInv, OwnWork, FleetHosts, FleetTyped, TypeOK, IsTable, Deployment, HostId,
                NotConsumed
  <2>3. ASSUME NEW n \in Machines, runs[n][d] # 0 PROVE n = m
    BY <2>1, <2>2, <2>3, MineAlone DEF WorkInv, Working, RunsWereClaimed
  <2> QED BY <2>1, <2>3
<1> QED BY <1>1, <1>2, PTL

\* "Queued deployments targeting this host, oldest first": while a machine
\* applies a deployment, no older one of its host waits unclaimed.
THEOREM OldestIsFirst ==
    KeepsUpAlways /\ DistinctNames /\ DistinctCodes => (FleetSpec => []OldestFirst)
<1> SUFFICES ASSUME KeepsUpAlways, DistinctNames, DistinctCodes
             PROVE  FleetSpec => []OldestFirst
  OBVIOUS
<1>1. FleetSpec => []WorkInv BY WorkInvHolds
<1>2. WorkInv => OldestFirst
  <2> SUFFICES ASSUME WorkInv, NEW m \in Machines, pc[m] = "applying",
                      NEW d \in DOMAIN deployment, d < Head(jobs[m]),
                      deployment[d].host_id = deployment[Head(jobs[m])].host_id
               PROVE  deployment[d].status # "Queued"
    BY DEF OldestFirst
  <2>1. Head(jobs[m]) = jobs[m][1] /\ deployment[jobs[m][1]].host_id = Mine(m)
        /\ jobs[m][1] \in DeploymentId
    BY JobsAtHand DEF WorkInv, Busy
  <2>2. d <= jobs[m][1]
    <3>1. d \in DeploymentId
      BY DEF WorkInv, OwnWork, FleetHosts, FleetTyped, TypeOK, IsTable
    <3> QED BY <2>1, <3>1, BoundAssumption DEF DeploymentId
  <2> QED BY <2>1, <2>2 DEF WorkInv, Working, JobAtHand, Status
<1> QED BY <1>1, <1>2, PTL

\* The state of the abstract life: the mapping of Lifecycle in Fleet.
Lives == [d \in DeploymentId |->
             IF d \in DOMAIN deployment THEN deployment[d].status ELSE "Absent"]

LEMMA LifeInit == FleetInit => Lifecycle!Init
BY DEF FleetInit, Lifecycle!Init, EmptyTable

\* A row's change of status is a move of its life and of no other.
LEMMA StatusMoves ==
    ASSUME TypeOK, NEW d \in DOMAIN deployment, NEW to,
           DOMAIN deployment' = DOMAIN deployment, deployment'[d].status = to,
           \A e \in DOMAIN deployment : e # d => deployment'[e].status = deployment[e].status
    PROVE  /\ d \in DeploymentId /\ Lives[d] = deployment[d].status
           /\ Lives' = [Lives EXCEPT ![d] = to]
BY DEF Lives, TypeOK, IsTable

LEMMA LifeStep ==
    ASSUME DistinctCodes, WorkInv, [FleetNext]_fleetVars
    PROVE  [Lifecycle!Next]_Lives
<1>t. TypeOK /\ IdsAreFresh /\ AgentTypeOK /\ OwnWork
  BY DEF WorkInv, OwnWork, FleetHosts, HostsAgree, FleetTyped
<1>r. \A d \in DOMAIN deployment : deployment[d] \in Deployment
  BY <1>t DEF TypeOK, IsTable
<1>1. ASSUME deployment' = deployment PROVE Lives' = Lives
  BY <1>1 DEF Lives
<1>2. ASSUME NEW m \in Machines, Deliver(m) PROVE [Lifecycle!Next]_Lives
  <2> DEFINE call == Head(calls[m])
  <2>1. \/ deployment' = deployment
        \/ /\ call.id \in DOMAIN deployment /\ Status(call.id) = "Queued"
           /\ deployment' = [deployment EXCEPT ![call.id].status = "Running",
                                               ![call.id].started = TRUE]
        \/ /\ call.id \in DOMAIN deployment /\ Status(call.id) = "Running"
           /\ deployment' = [deployment EXCEPT
                                ![call.id].status = IF call.ok THEN "Succeeded" ELSE "Failed",
                                ![call.id].finished = TRUE]
    BY <1>t, <1>2, DeliverMoves DEF WorkInv
  <2> HIDE DEF call
  <2>2. CASE /\ call.id \in DOMAIN deployment /\ Status(call.id) = "Queued"
             /\ deployment' = [deployment EXCEPT ![call.id].status = "Running",
                                                 ![call.id].started = TRUE]
    <3>1. /\ DOMAIN deployment' = DOMAIN deployment /\ deployment'[call.id].status = "Running"
          /\ \A e \in DOMAIN deployment :
                e # call.id => deployment'[e].status = deployment[e].status
      BY <1>r, <2>2 DEF Deployment
    <3>2. call.id \in DeploymentId /\ Lives[call.id] = "Queued"
          /\ Lives' = [Lives EXCEPT ![call.id] = "Running"]
      BY <1>t, <2>2, <3>1, StatusMoves DEF Status
    <3> QED BY <3>2 DEF Lifecycle!Next, Lifecycle!Start, Lifecycle!Move, Lives
  <2>3. CASE /\ call.id \in DOMAIN deployment /\ Status(call.id) = "Running"
             /\ deployment' = [deployment EXCEPT
                                  ![call.id].status = IF call.ok THEN "Succeeded" ELSE "Failed",
                                  ![call.id].finished = TRUE]
    <3> DEFINE to == IF call.ok THEN "Succeeded" ELSE "Failed"
    <3>0. to \in {"Succeeded", "Failed"}
      OBVIOUS
    <3> HIDE DEF to
    <3>1. /\ DOMAIN deployment' = DOMAIN deployment /\ deployment'[call.id].status = to
          /\ \A e \in DOMAIN deployment :
                e # call.id => deployment'[e].status = deployment[e].status
      BY <1>r, <2>3 DEF Deployment, to
    <3>2. call.id \in DeploymentId /\ Lives[call.id] = "Running"
          /\ Lives' = [Lives EXCEPT ![call.id] = to]
      BY <1>t, <2>3, <3>1, StatusMoves DEF Status
    <3> QED BY <3>0, <3>2 DEF Lifecycle!Next, Lifecycle!Finish, Lifecycle!Move, Lives
  <2> QED BY <1>1, <2>1, <2>2, <2>3
<1>3. CASE Operate
  <2>1. ASSUME NEW h, NEW commit, QueueDeployment(Server, 1, h, commit)
        PROVE  Lifecycle!Next
    <3> DEFINE d == next_id.deployment
    <3>1. /\ d \in DeploymentId /\ d \notin DOMAIN deployment
          /\ DOMAIN deployment' = DOMAIN deployment \cup {d}
          /\ deployment'[d].status = "Queued"
          /\ \A e \in DOMAIN deployment : deployment'[e] = deployment[e]
      BY <1>t, <2>1, BoundAssumption
         DEF QueueDeployment, Put, IdsAreFresh, TypeOK, IsTable, DeploymentId
    <3> HIDE DEF d
    <3>2. Lives[d] = "Absent" /\ Lives' = [Lives EXCEPT ![d] = "Queued"]
      BY <3>1 DEF Lives
    <3> QED BY <3>1, <3>2 DEF Lifecycle!Next, Lifecycle!Queue, Lifecycle!Move, Lives
  <2>2. ASSUME NEW d, RollbackDeployment(Server, d) PROVE Lifecycle!Next
    <3>1. /\ d \in DOMAIN deployment /\ deployment[d].status = "Succeeded"
          /\ DOMAIN deployment' = DOMAIN deployment /\ deployment'[d].status = "RolledBack"
          /\ \A e \in DOMAIN deployment :
                e # d => deployment'[e].status = deployment[e].status
      BY <1>r, <2>2 DEF RollbackDeployment, IsRollbackable, Deployment
    <3>2. d \in DeploymentId /\ Lives[d] = "Succeeded"
          /\ Lives' = [Lives EXCEPT ![d] = "RolledBack"]
      BY <1>t, <3>1, StatusMoves
    <3> QED BY <3>2 DEF Lifecycle!Next, Lifecycle!RollBack, Lifecycle!Move, Lives
  <2>3. ASSUME NEW h, DeleteHost(Server, h) PROVE deployment' = deployment
    BY <2>3 DEF DeleteHost
  <2> QED BY <1>1, <1>3, <2>1, <2>2, <2>3 DEF Operate
<1>4. ASSUME NEW m \in Machines,
             \/ Start(m) \/ Refresh(m) \/ Recover(m) \/ Poll(m) \/ Claim(m) \/ Prepare(m)
             \/ (\E ok \in BOOLEAN : Report(m, ok)) \/ Crash(m) \/ LinkDrops(m) \/ Disconnected(m)
      PROVE  deployment' = deployment
  BY <1>4 DEF Start, Refresh, Recover, Poll, Claim, Prepare, Report, Crash, LinkDrops, Disconnected,
              ClientConnected, ClientDisconnected, presenceFrame, vars
<1>5. CASE UNCHANGED fleetVars
  BY <1>1, <1>5 DEF fleetVars, vars
<1> QED BY <1>1, <1>2, <1>3, <1>4, <1>5 DEF FleetNext, AgentNext

\* The fleet lives the life of a deployment an operator expects, one move at a
\* time: started once and only from the queue, finished once and only when it
\* runs, rolled back only from a success.  (That it does move is
\* ImplementsLifecycle's other half, under fairness, and is left to the runs.)
THEOREM LivesAsExpected ==
    KeepsUpAlways /\ DistinctNames /\ DistinctCodes =>
        (FleetSpec => Lifecycle!Init /\ [][Lifecycle!Next]_Lives)
<1> SUFFICES ASSUME KeepsUpAlways, DistinctNames, DistinctCodes
             PROVE  FleetSpec => Lifecycle!Init /\ [][Lifecycle!Next]_Lives
  OBVIOUS
<1>1. FleetSpec => []WorkInv BY WorkInvHolds
<1>2. FleetInit => Lifecycle!Init BY LifeInit
<1>3. WorkInv /\ [FleetNext]_fleetVars => [Lifecycle!Next]_Lives BY LifeStep
<1> QED BY <1>1, <1>2, <1>3, PTL DEF FleetSpec
=============================================================================
