--------------------------- MODULE EnrolmentProofs ---------------------------
(***************************************************************************)
(* Proofs of what MCEnrolment checks of codes, tokens, hosts and           *)
(* identities, for any number of machines, codes and faults.               *)
(***************************************************************************)
EXTENDS Enrolment, ControlPlaneProofs

-----------------------------------------------------------------------------
(* Types *)

Place == {"down", "redeeming", "saving", "connecting", "persisting", "subscribing",
          "recording", "reporting"}

AgentCall == [kind : {"enroll"}, code : Codes]
                \cup [kind : {"heartbeat"}, report : SUBSET WorkloadNames]

SavedState == [enrolled : BOOLEAN, token : Codes \cup {NoCode}]
Process == [at : Place, enrolled : BOOLEAN, token : Codes \cup {NoCode}]
Connection == [by : Identities \cup {NoIdentity}, calls : Seq(AgentCall)]

EnrolmentTypeOK ==
    /\ pending \subseteq Codes
    /\ IsTable(tokens, Codes, HostNames)
    /\ arg \in [Machines -> Codes \cup {NoCode}]
    /\ file \in [Machines -> SavedState]
    /\ identity_file \in [Machines -> Identities \cup {NoIdentity}]
    /\ agent \in [Machines -> Process]
    /\ who \in [Machines -> Identities \cup {NoIdentity}]
    /\ calls \in [Machines -> Seq(AgentCall)]
    /\ ghost \in [Machines -> Connection]
    /\ issued \subseteq Identities
    /\ faults \in 0 .. MaxFaults
    /\ unlucky \subseteq Machines

-----------------------------------------------------------------------------
(* The inductive invariant *)

Connecting == {"persisting", "subscribing", "recording", "reporting"}
Identified == {"subscribing", "recording", "reporting"}
WithToken == {"saving", "connecting", "persisting", "subscribing", "recording"}

\* The server has exchanged the code for a token of m's name.
Redeemed(m, code) == code \in DOMAIN tokens /\ tokens[code] = NameOf[m]

\* The identity s is the one on m's disk, or m has had its bad luck.
IsKept(m, s) == s = identity_file[m] \/ m \in unlucky

\* Where a process is says what it has of a connection and of an identity.
Phases(m) ==
    /\ who[m] # NoIdentity <=> agent[m].at \in Connecting
    /\ agent[m].at = "persisting" => identity_file[m] \in {NoIdentity, who[m]}
    /\ agent[m].at \in Identified => IsKept(m, who[m])
    /\ calls[m] # <<>> => agent[m].at \in {"recording", "reporting"}
    /\ ghost[m].calls # <<>> => ghost[m].by # NoIdentity

\* An enrolment on its way, over the present connection or over one left behind,
\* carries a code m has redeemed and runs as an identity m keeps.
EnrolsWell(m, s, cs) ==
    \A i \in DOMAIN cs : cs[i].kind = "enroll" => Redeemed(m, cs[i].code) /\ IsKept(m, s)

CodesInUse(m) ==
    /\ agent[m].at \in WithToken /\ ~agent[m].enrolled => Redeemed(m, arg[m])
    /\ EnrolsWell(m, who[m], calls[m])
    /\ EnrolsWell(m, ghost[m].by, ghost[m].calls)

\* The identities a machine has in use, and the connections they keep open.
Owned(m) == {who[m], identity_file[m], ghost[m].by} \ {NoIdentity}

Linked(m) ==
    /\ Owned(m) \subseteq issued \ {Server}
    /\ who[m] # NoIdentity => conn[who[m]] > 0
    /\ ghost[m].by # NoIdentity => conn[ghost[m].by] > 0
    /\ ghost[m].by # NoIdentity /\ ghost[m].by = who[m] => conn[who[m]] > 1

OneOwnerEach == \A m, n \in Machines : m # n => Owned(m) \cap Owned(n) = {}

\* A code is pending, then redeemed, and known to the control plane throughout; no
\* host that came in by one is removed here.
CodesOK ==
    /\ pending \cap DOMAIN tokens = {}
    /\ pending \cup DOMAIN tokens \subseteq DOMAIN enrollment_token
    /\ \A c \in DOMAIN enrollment_token :
          enrollment_token[c] # NotConsumed => enrollment_token[c] \in DOMAIN host

ServerStays == operator = {Server} /\ conn[Server] > 0 /\ Server \in issued

MachinesOK == \A m \in Machines : Phases(m) /\ CodesInUse(m) /\ Linked(m)

\* all of it together; the last two are the properties of the run
EnrolmentInv ==
    /\ HostsAgree /\ EnrolmentTypeOK
    /\ ServerStays /\ OneOwnerEach /\ CodesOK /\ MachinesOK
    /\ TokensFitTheirHosts /\ HostsHaveAMachine

-----------------------------------------------------------------------------
(* Small facts *)

LEMMA SequenceFacts ==
    ASSUME NEW cs \in Seq(AgentCall)
    PROVE  /\ \A i \in DOMAIN cs : cs[i] \in AgentCall
           /\ cs # <<>> => /\ Head(cs) = cs[1] /\ 1 \in DOMAIN cs /\ Head(cs) \in AgentCall
                           /\ Tail(cs) \in Seq(AgentCall)
                           /\ \A i \in DOMAIN Tail(cs) :
                                 i + 1 \in DOMAIN cs /\ Tail(cs)[i] = cs[i + 1]
           /\ \A c \in AgentCall : /\ Append(cs, c) \in Seq(AgentCall)
                                   /\ \A i \in DOMAIN Append(cs, c) :
                                         \/ i \in DOMAIN cs /\ Append(cs, c)[i] = cs[i]
                                         \/ Append(cs, c)[i] = c
           /\ \A n \in 0 .. Len(cs) : /\ SubSeq(cs, 1, n) \in Seq(AgentCall)
                                      /\ \A i \in DOMAIN SubSeq(cs, 1, n) :
                                            i \in DOMAIN cs /\ SubSeq(cs, 1, n)[i] = cs[i]
<1>1. Len(cs) \in Nat /\ DOMAIN cs = 1 .. Len(cs) /\ \A i \in DOMAIN cs : cs[i] \in AgentCall
    OBVIOUS
<1>2. ASSUME cs # <<>>
      PROVE  /\ Head(cs) = cs[1] /\ 1 \in DOMAIN cs /\ Head(cs) \in AgentCall
             /\ Tail(cs) \in Seq(AgentCall)
             /\ \A i \in DOMAIN Tail(cs) : i + 1 \in DOMAIN cs /\ Tail(cs)[i] = cs[i + 1]
    BY <1>2
<1>3. ASSUME NEW c \in AgentCall
      PROVE  /\ Append(cs, c) \in Seq(AgentCall)
             /\ \A i \in DOMAIN Append(cs, c) :
                   \/ i \in DOMAIN cs /\ Append(cs, c)[i] = cs[i]
                   \/ Append(cs, c)[i] = c
    BY <1>1
<1>4. ASSUME NEW n \in 0 .. Len(cs)
      PROVE  /\ SubSeq(cs, 1, n) \in Seq(AgentCall)
             /\ \A i \in DOMAIN SubSeq(cs, 1, n) :
                   i \in DOMAIN cs /\ SubSeq(cs, 1, n)[i] = cs[i]
    BY <1>1
<1> QED
    BY <1>1, <1>2, <1>3, <1>4

LEMMA CallFields ==
    ASSUME NEW call \in AgentCall
    PROVE  \/ call.kind = "enroll" /\ call.code \in Codes
           \/ call.kind = "heartbeat" /\ call.report \in SUBSET WorkloadNames
BY DEF AgentCall

LEMMA CallsAreTyped ==
    /\ \A code \in Codes : EnrollCall(code) \in AgentCall /\ EnrollCall(code).kind = "enroll"
                           /\ EnrollCall(code).code = code
    /\ \A report \in SUBSET WorkloadNames :
          HeartbeatCall(report) \in AgentCall /\ HeartbeatCall(report).kind = "heartbeat"
BY DEF EnrollCall, HeartbeatCall, AgentCall

\* A call that runs is a call of its machine, made while its connection is open.
LEMMA RunningCall ==
    ASSUME EnrolmentInv, NEW m \in Machines, NEW s, NEW cs,
           \/ s = who[m] /\ cs = calls[m]
           \/ s = ghost[m].by /\ cs = ghost[m].calls,
           cs # <<>>
    PROVE  /\ s \in Connected /\ Head(cs) \in AgentCall
           /\ Head(cs).kind = "enroll" => Redeemed(m, Head(cs).code) /\ IsKept(m, s)
<1>1. /\ calls[m] \in Seq(AgentCall) /\ who[m] \in Identities \cup {NoIdentity}
      /\ ghost[m].calls \in Seq(AgentCall) /\ ghost[m].by \in Identities \cup {NoIdentity}
    BY DEF EnrolmentInv, EnrolmentTypeOK, Connection
<1>2. Phases(m) /\ CodesInUse(m) /\ Linked(m)
    BY DEF EnrolmentInv, MachinesOK
<1>3. cs \in Seq(AgentCall)
    BY <1>1
<1>4. Head(cs) = cs[1] /\ 1 \in DOMAIN cs /\ Head(cs) \in AgentCall
    BY <1>3, SequenceFacts
<1>5. s # NoIdentity
    BY <1>2 DEF Phases, Connecting
<1>6. s \in Connected
    BY <1>1, <1>2, <1>5 DEF Linked, Connected
<1>7. EnrolsWell(m, s, cs)
    BY <1>2 DEF CodesInUse
<1> QED
    BY <1>4, <1>6, <1>7 DEF EnrolsWell

-----------------------------------------------------------------------------
(* What a step does to the tables *)

\* The tables' side of each action.
Presence ==
    \E s \in Identities :
        \/ ClientConnected(s)
        \/ ClientDisconnected(s)
        \/ \E load \in Loads, report \in SUBSET WorkloadNames :
              s \in Connected /\ Heartbeat(s, load, report)

CodeHanded == \E code \in Codes : CreateEnrollmentToken(Server, code) /\ tokens' = tokens

Enrolled ==
    \E m \in Machines, s \in Connected, code \in Codes :
        /\ EnrollHost(s, code, NameOf[m])
        /\ Redeemed(m, code) /\ IsKept(m, s)
        /\ UNCHANGED <<pending, tokens, identity_file, unlucky>>

LEMMA RunsSteps ==
    ASSUME EnrolmentInv, NEW m \in Machines, NEW s, NEW cs,
           \/ s = who[m] /\ cs = calls[m]
           \/ s = ghost[m].by /\ cs = ghost[m].calls,
           cs # <<>>, Runs(m, s, Head(cs)), UNCHANGED <<pending, tokens, identity_file, unlucky>>
    PROVE  UNCHANGED vars \/ Presence \/ Enrolled
<1> DEFINE call == Head(cs)
<1>1. /\ s \in Connected /\ call \in AgentCall
      /\ call.kind = "enroll" => Redeemed(m, call.code) /\ IsKept(m, s)
    BY RunningCall
<1>2. s \in Identities
    BY <1>1 DEF Connected
<1> HIDE DEF call
<1>3. Runs(m, s, call)
    BY DEF call
<1>4. CASE call.kind = "enroll"
    <2>1. call.code \in Codes
        BY <1>1, <1>4, CallFields
    <2> QED
        BY <1>1, <1>3, <1>4, <2>1 DEF Runs, Enrolled
<1>5. CASE call.kind = "heartbeat"
    <2>1. call.report \in SUBSET WorkloadNames
        BY <1>1, <1>5, CallFields
    <2> QED
        BY <1>1, <1>2, <1>3, <1>5, <2>1 DEF Runs, Presence
<1> QED
    BY <1>1, <1>4, <1>5, CallFields

LEMMA TableSteps ==
    ASSUME EnrolmentInv, [EnrolmentNext]_enrolVars
    PROVE  UNCHANGED vars \/ Presence \/ CodeHanded \/ Enrolled
<1>1. ASSUME NEW m \in Machines,
             \/ Launch(m) \/ Redeem(m) \/ SaveCredentials(m) \/ Persist(m) \/ Enrol(m) \/ Record(m)
             \/ Report(m) \/ MistakeCode(m) \/ AnswerLost(m) \/ PersistFails(m) \/ Crash(m)
      PROVE  UNCHANGED vars
    BY <1>1 DEF Launch, Redeem, SaveCredentials, Persist, Enrol, Record, Report, MistakeCode,
                AnswerLost, PersistFails, Crash
<1>2. ASSUME NEW m \in Machines, Connect(m) PROVE Presence
    <2>1. PICK s : ClientConnected(s) /\ s = IF SavedIdentity(m) # NoIdentity THEN SavedIdentity(m)
                                            ELSE CHOOSE i \in Identities : i \notin issued
        BY <1>2 DEF Connect
    <2>2. SavedIdentity(m) # NoIdentity \/ \E i \in Identities : i \notin issued
        BY <1>2 DEF Connect, EnrolmentInv, EnrolmentTypeOK
    <2>3. SavedIdentity(m) \in Identities \cup {NoIdentity}
        BY DEF SavedIdentity, EnrolmentInv, EnrolmentTypeOK
    <2>4. s \in Identities
        BY <2>1, <2>2, <2>3
    <2> QED
        BY <2>1, <2>4 DEF Presence
<1>3. ASSUME NEW m \in Machines, HandCode(m) PROVE CodeHanded
    BY <1>3 DEF HandCode, CodeHanded
<1>4. ASSUME NEW m \in Machines, Deliver(m) PROVE UNCHANGED vars \/ Presence \/ Enrolled
    BY <1>4, RunsSteps DEF Deliver
<1>5. ASSUME NEW m \in Machines, DeliverLate(m) PROVE UNCHANGED vars \/ Presence \/ Enrolled
    BY <1>5, RunsSteps DEF DeliverLate
<1>6. ASSUME NEW m \in Machines, DisconnectLate(m) PROVE Presence
    BY <1>6 DEF DisconnectLate, Presence, EnrolmentInv, EnrolmentTypeOK, Connection
<1>7. CASE UNCHANGED enrolVars
    BY <1>7 DEF enrolVars
<1> QED
    BY <1>1, <1>2, <1>3, <1>4, <1>5, <1>6, <1>7 DEF EnrolmentNext, Main, Connections

LEMMA StepsAreCalls == EnrolmentInv /\ [EnrolmentNext]_enrolVars => [Next]_vars
<1> SUFFICES ASSUME EnrolmentInv, [EnrolmentNext]_enrolVars PROVE [Next]_vars
    OBVIOUS
<1>1. Server \in Connected
    BY EnrolmentAssumption DEF EnrolmentInv, ServerStays, Connected
<1>2. ASSUME Presence PROVE Next
    BY <1>2 DEF Presence, Next, AgentReducer
<1>3. ASSUME CodeHanded PROVE Next
    BY <1>1, <1>3 DEF CodeHanded, Next, OperatorReducer
<1>4. ASSUME Enrolled PROVE Next
    BY <1>4, EnrolmentAssumption DEF Enrolled, Next, AgentReducer
<1> QED
    BY <1>2, <1>3, <1>4, TableSteps
-----------------------------------------------------------------------------
(* The types of the machines and of the server's side *)

LEMMA HandedCode ==
    ASSUME NEW m \in Machines, HandCode(m)
    PROVE  \E code \in Codes \ DOMAIN enrollment_token :
              /\ CreateEnrollmentToken(Server, code)
              /\ pending' = pending \cup {code}
              /\ arg' = [arg EXCEPT ![m] = code]
<1> DEFINE fresh == Codes \ DOMAIN enrollment_token
<1>1. (CHOOSE c \in fresh : TRUE) \in fresh
    BY DEF HandCode
<1> QED
    BY <1>1 DEF HandCode

\* The identity a process connects as: its own of before, or one nobody has had.
LEMMA ConnectsAs ==
    ASSUME EnrolmentTypeOK, NEW m \in Machines, Connect(m)
    PROVE  \E s \in Identities :
              /\ ClientConnected(s)
              /\ who' = [who EXCEPT ![m] = s] /\ issued' = issued \cup {s}
              /\ s = identity_file[m] \/ (identity_file[m] = NoIdentity /\ s \notin issued)
<1> DEFINE new == CHOOSE i \in Identities : i \notin issued
           s == IF SavedIdentity(m) # NoIdentity THEN SavedIdentity(m) ELSE new
<1>1. /\ ClientConnected(s) /\ who' = [who EXCEPT ![m] = s] /\ issued' = issued \cup {s}
      /\ SavedIdentity(m) # NoIdentity \/ issued # Identities
    BY DEF Connect
<1>2. SavedIdentity(m) = identity_file[m] /\ identity_file[m] \in Identities \cup {NoIdentity}
    BY DEF SavedIdentity, EnrolmentTypeOK
<1>3. issued # Identities => new \in Identities /\ new \notin issued
    BY DEF EnrolmentTypeOK
<1> HIDE DEF new
<1>4. s \in Identities /\ (s = identity_file[m] \/ (identity_file[m] = NoIdentity /\ s \notin issued))
    BY <1>1, <1>2, <1>3
<1> HIDE DEF s
<1> QED
    BY <1>1, <1>4

\* A process that ends leaves its connection, with a first part of its calls.
LEMMA CrashLeaves ==
    ASSUME EnrolmentTypeOK, NEW m \in Machines, Crash(m)
    PROVE  \E cs \in Seq(AgentCall) :
              /\ ghost' = [ghost EXCEPT ![m] = [by |-> who[m], calls |-> cs]]
              /\ \A i \in DOMAIN cs : i \in DOMAIN calls[m] /\ cs[i] = calls[m][i]
              /\ unlucky' \in {unlucky, unlucky \cup {m}}
              /\ identity_file'[m] # identity_file[m] => m \in unlucky'
<1>1. PICK n \in 0 .. Len(calls[m]) :
         /\ ghost' = [ghost EXCEPT ![m] = [by |-> who[m], calls |-> SubSeq(calls[m], 1, n)]]
         /\ unlucky' = IF \/ LostEnrolment(calls[m], n) /\ file'[m].enrolled
                          \/ identity_file'[m] # identity_file[m]
                       THEN unlucky \cup {m} ELSE unlucky
    BY DEF Crash
<1>2. calls[m] \in Seq(AgentCall)
    BY DEF EnrolmentTypeOK
<1>3. /\ SubSeq(calls[m], 1, n) \in Seq(AgentCall)
      /\ \A i \in DOMAIN SubSeq(calls[m], 1, n) :
            i \in DOMAIN calls[m] /\ SubSeq(calls[m], 1, n)[i] = calls[m][i]
    BY <1>2, SequenceFacts
<1> QED
    BY <1>1, <1>3

LEMMA FaultsTyped ==
    ASSUME EnrolmentTypeOK, NEW m, Fault(m)
    PROVE  faults' \in 0 .. MaxFaults
BY EnrolmentAssumption DEF Fault, EnrolmentTypeOK

LEMMA NothingTyped == /\ NoState \in SavedState /\ Down \in Process
                      /\ Down.at = "down" /\ ~Down.enrolled
                      /\ NoConnection \in Connection /\ NoConnection.by = NoIdentity
                      /\ NoConnection.calls = <<>>
<1>1. <<>> \in Seq(AgentCall)
    OBVIOUS
<1> QED
    BY <1>1 DEF NoState, Down, NoConnection, SavedState, Process, Connection, Place

LEMMA ProcessMoves ==
    ASSUME EnrolmentTypeOK, NEW m \in Machines
    PROVE  /\ \A at \in Place : Goto(m, at) => agent' \in [Machines -> Process]
           /\ \A token \in Codes : agent' = [agent EXCEPT ![m].at = "saving", ![m].token = token]
                => agent' \in [Machines -> Process]
           /\ agent' = [agent EXCEPT ![m].at = "reporting", ![m].enrolled = TRUE]
                => agent' \in [Machines -> Process]
<1>1. agent \in [Machines -> Process] /\ agent[m] \in Process
    BY DEF EnrolmentTypeOK
<1>2. ASSUME NEW p \in Process, agent' = [agent EXCEPT ![m] = p] PROVE agent' \in [Machines -> Process]
    BY <1>1, <1>2
<1>3. \A at \in Place : [agent[m] EXCEPT !.at = at] \in Process
    BY <1>1 DEF Process
<1>4. \A token \in Codes : [agent[m] EXCEPT !.at = "saving", !.token = token] \in Process
    BY <1>1 DEF Process, Place
<1>5. [agent[m] EXCEPT !.at = "reporting", !.enrolled = TRUE] \in Process
    BY <1>1 DEF Process, Place
<1>6. ASSUME NEW at \in Place, Goto(m, at) PROVE agent' \in [Machines -> Process]
    <2>1. agent' = [agent EXCEPT ![m] = [agent[m] EXCEPT !.at = at]]
        BY <1>6 DEF Goto
    <2> QED
        BY <1>2, <1>3, <2>1
<1>7. ASSUME NEW token \in Codes, agent' = [agent EXCEPT ![m].at = "saving", ![m].token = token]
      PROVE  agent' \in [Machines -> Process]
    <2>1. agent' = [agent EXCEPT ![m] = [agent[m] EXCEPT !.at = "saving", !.token = token]]
        BY <1>7, <1>1 DEF Process
    <2> QED
        BY <1>2, <1>4, <2>1
<1>8. ASSUME agent' = [agent EXCEPT ![m].at = "reporting", ![m].enrolled = TRUE]
      PROVE  agent' \in [Machines -> Process]
    <2>1. agent' = [agent EXCEPT ![m] = [agent[m] EXCEPT !.at = "reporting", !.enrolled = TRUE]]
        BY <1>8, <1>1 DEF Process
    <2> QED
        BY <1>2, <1>5, <2>1
<1> QED
    BY <1>6, <1>7, <1>8

LEMMA MachineTypes ==
    ASSUME EnrolmentInv, [EnrolmentNext]_enrolVars
    PROVE  EnrolmentTypeOK'
<1> USE DEF EnrolmentTypeOK
<1>t. EnrolmentTypeOK
    BY DEF EnrolmentInv
<1>1. ASSUME NEW m \in Machines, Launch(m) PROVE EnrolmentTypeOK'
    <2>1. Loaded(m) \in SavedState
        BY <1>t DEF Loaded
    <2> DEFINE p == [at |-> IF Loaded(m).enrolled THEN "connecting" ELSE "redeeming",
                     enrolled |-> Loaded(m).enrolled, token |-> Loaded(m).token]
    <2>2. p \in Process
        BY <2>1 DEF SavedState, Process, Place
    <2>3. agent' = [agent EXCEPT ![m] = p]
        BY <1>1 DEF Launch
    <2> HIDE DEF p
    <2> QED
        BY <1>t, <1>1, <2>2, <2>3 DEF Launch
<1>2. ASSUME NEW m \in Machines, Redeem(m) \/ AnswerLost(m) PROVE EnrolmentTypeOK'
    <2>1. \/ UNCHANGED <<pending, tokens>>
          \/ /\ arg[m] \in pending /\ pending' = pending \ {arg[m]}
             /\ tokens' = Put(tokens, arg[m], NameOf[m])
        BY <1>2 DEF Redeem, AnswerLost, Spent
    <2>n. NameOf[m] \in HostNames
        BY EnrolmentAssumption
    <2>p. pending \subseteq Codes /\ IsTable(tokens, Codes, HostNames)
        BY <1>t
    <2>2. pending' \subseteq Codes /\ IsTable(tokens', Codes, HostNames)
        <3>1. CASE UNCHANGED <<pending, tokens>>
            BY <2>p, <3>1
        <3>2. CASE /\ arg[m] \in pending /\ pending' = pending \ {arg[m]}
                   /\ tokens' = Put(tokens, arg[m], NameOf[m])
            <4>1. arg[m] \in Codes
                BY <2>p, <3>2
            <4>2. IsTable(Put(tokens, arg[m], NameOf[m]), Codes, HostNames)
                BY <2>p, <2>n, <4>1, PutTable
            <4> QED
                BY <2>p, <3>2, <4>2
        <3> QED
            BY <2>1, <3>1, <3>2
    <2>3. \/ agent' = [agent EXCEPT ![m] = Down]
          \/ /\ arg[m] \in pending
             /\ agent' = [agent EXCEPT ![m].at = "saving", ![m].token = arg[m]]
        BY <1>2 DEF Redeem, AnswerLost
    <2>4. agent' \in [Machines -> Process]
        <3>1. CASE agent' = [agent EXCEPT ![m] = Down]
            BY <1>t, <3>1, NothingTyped
        <3> QED
            BY <1>t, <2>3, <3>1, ProcessMoves
    <2>5. faults' \in 0 .. MaxFaults
        BY <1>t, <1>2, FaultsTyped DEF Redeem, AnswerLost
    <2> QED
        BY <1>t, <1>2, <2>2, <2>4, <2>5 DEF Redeem, AnswerLost
<1>3. ASSUME NEW m \in Machines, SaveCredentials(m) \/ Record(m) PROVE EnrolmentTypeOK'
    <2>1. agent[m] \in Process
        BY <1>t
    <2>2. \E enrolled \in BOOLEAN :
             file' = [file EXCEPT ![m] = [enrolled |-> enrolled, token |-> agent[m].token]]
        BY <1>3 DEF SaveCredentials, Record, Saved
    <2>3. file' \in [Machines -> SavedState]
        BY <1>t, <2>1, <2>2 DEF SavedState, Process
    <2>4. agent' \in [Machines -> Process]
        BY <1>t, <1>3, ProcessMoves DEF SaveCredentials, Record, Place
    <2> QED
        BY <1>t, <1>3, <2>3, <2>4 DEF SaveCredentials, Record
<1>4. ASSUME NEW m \in Machines, Connect(m) PROVE EnrolmentTypeOK'
    <2>1. PICK s \in Identities : who' = [who EXCEPT ![m] = s] /\ issued' = issued \cup {s}
        BY <1>t, <1>4, ConnectsAs
    <2>2. agent' \in [Machines -> Process]
        BY <1>t, <1>4, ProcessMoves DEF Connect, Place
    <2>3. UNCHANGED <<pending, tokens, arg, file, identity_file, calls, ghost, faults, unlucky>>
        BY <1>4 DEF Connect
    <2> QED
        BY <1>t, <2>1, <2>2, <2>3
<1>5. ASSUME NEW m \in Machines, Persist(m) PROVE EnrolmentTypeOK'
    <2>1. agent' \in [Machines -> Process]
        BY <1>t, <1>5, ProcessMoves DEF Persist, Place
    <2> QED
        BY <1>t, <1>5, <2>1 DEF Persist
<1>6. ASSUME NEW m \in Machines, PersistFails(m) PROVE EnrolmentTypeOK'
    <2>1. agent' \in [Machines -> Process]
        BY <1>t, <1>6, ProcessMoves DEF PersistFails, Place
    <2> QED
        BY <1>t, <1>6, <2>1, FaultsTyped DEF PersistFails
<1>7. ASSUME NEW m \in Machines, Enrol(m) PROVE EnrolmentTypeOK'
    <2>1. agent' \in [Machines -> Process]
        BY <1>t, <1>7, ProcessMoves DEF Enrol, Place
    <2>2. ~agent[m].enrolled => arg[m] \in Codes
        <3>1. CodesInUse(m) /\ agent[m].at = "subscribing"
            BY <1>7 DEF EnrolmentInv, MachinesOK, Enrol
        <3> QED
            BY <1>t, <3>1 DEF CodesInUse, WithToken, Redeemed, IsTable
    <2>3. calls[m] \in Seq(AgentCall)
        BY <1>t
    <2>4. ~agent[m].enrolled => Append(calls[m], EnrollCall(arg[m])) \in Seq(AgentCall)
        BY <2>2, <2>3, SequenceFacts, CallsAreTyped
    <2>5. calls' \in [Machines -> Seq(AgentCall)]
        BY <1>t, <1>7, <2>4 DEF Enrol
    <2> QED
        BY <1>t, <1>7, <2>1, <2>5 DEF Enrol
<1>8. ASSUME NEW m \in Machines, Report(m) PROVE EnrolmentTypeOK'
    <2>1. PICK failing \in Commands :
             calls' = [calls EXCEPT ![m] = Append(@, HeartbeatCall(
                          {t.name : t \in Workloads(failing, include_system)}))]
        BY <1>8 DEF Report
    <2> DEFINE report == {t.name : t \in Workloads(failing, include_system)}
    <2>2. report \in SUBSET WorkloadNames
        BY EnrolmentAssumption
    <2>3. calls' = [calls EXCEPT ![m] = Append(@, HeartbeatCall(report))]
        BY <2>1
    <2> HIDE DEF report
    <2>4. calls[m] \in Seq(AgentCall)
        BY <1>t
    <2>5. Append(calls[m], HeartbeatCall(report)) \in Seq(AgentCall)
        BY <2>2, <2>4, SequenceFacts, CallsAreTyped
    <2>6. calls' \in [Machines -> Seq(AgentCall)]
        BY <1>t, <2>3, <2>5
    <2> QED
        BY <1>t, <1>8, <2>6 DEF Report
<1>9. ASSUME NEW m \in Machines, HandCode(m) PROVE EnrolmentTypeOK'
    <2>1. PICK code \in Codes : pending' = pending \cup {code} /\ arg' = [arg EXCEPT ![m] = code]
        BY <1>9, HandedCode
    <2> QED
        BY <1>t, <1>9, <2>1 DEF HandCode
<1>10. ASSUME NEW m \in Machines, MistakeCode(m) PROVE EnrolmentTypeOK'
    BY <1>t, <1>10, FaultsTyped DEF MistakeCode
<1>11. ASSUME NEW m \in Machines, Crash(m) PROVE EnrolmentTypeOK'
    <2>1. PICK cs \in Seq(AgentCall) :
             /\ ghost' = [ghost EXCEPT ![m] = [by |-> who[m], calls |-> cs]]
             /\ unlucky' \in {unlucky, unlucky \cup {m}}
        BY <1>t, <1>11, CrashLeaves
    <2>2. [by |-> who[m], calls |-> cs] \in Connection
        BY <1>t DEF Connection
    <2>3. /\ file' = file \/ file' = [file EXCEPT ![m] = NoState]
          /\ identity_file' = identity_file \/ identity_file' = [identity_file EXCEPT ![m] = NoIdentity]
          /\ agent' = [agent EXCEPT ![m] = Down]
          /\ who' = [who EXCEPT ![m] = NoIdentity] /\ calls' = [calls EXCEPT ![m] = <<>>]
        BY <1>11 DEF Crash
    <2>4. <<>> \in Seq(AgentCall)
        OBVIOUS
    <2>5. faults' \in 0 .. MaxFaults
        BY <1>t, <1>11, FaultsTyped DEF Crash
    <2>6. UNCHANGED <<pending, tokens, arg, issued>>
        BY <1>11 DEF Crash
    <2> QED
        BY <1>t, <2>1, <2>2, <2>3, <2>4, <2>5, <2>6, NothingTyped
<1>12. ASSUME NEW m \in Machines, Deliver(m) PROVE EnrolmentTypeOK'
    <2>1. calls[m] \in Seq(AgentCall) /\ calls[m] # <<>>
        BY <1>t, <1>12 DEF Deliver
    <2>2. Tail(calls[m]) \in Seq(AgentCall)
        BY <2>1, SequenceFacts
    <2> QED
        BY <1>t, <1>12, <2>2 DEF Deliver
<1>13. ASSUME NEW m \in Machines, DeliverLate(m) PROVE EnrolmentTypeOK'
    <2>1. ghost[m] \in Connection /\ ghost[m].calls # <<>>
        BY <1>t, <1>13 DEF DeliverLate
    <2>2. Tail(ghost[m].calls) \in Seq(AgentCall)
        BY <2>1, SequenceFacts DEF Connection
    <2>3. ghost' \in [Machines -> Connection]
        BY <1>t, <1>13, <2>1, <2>2 DEF DeliverLate, Connection
    <2> QED
        BY <1>t, <1>13, <2>3 DEF DeliverLate
<1>14. ASSUME NEW m \in Machines, DisconnectLate(m) PROVE EnrolmentTypeOK'
    BY <1>t, <1>14, NothingTyped DEF DisconnectLate
<1>15. CASE UNCHANGED enrolVars
    BY <1>t, <1>15 DEF enrolVars, machineVars
<1> QED
    BY <1>1, <1>2, <1>3, <1>4, <1>5, <1>6, <1>7, <1>8, <1>9, <1>10, <1>11, <1>12, <1>13, <1>14,
       <1>15 DEF EnrolmentNext, Main, Connections
-----------------------------------------------------------------------------
(* What a step keeps *)

\* Codes stay known and tokens issued; what was on a machine's disk stays there
\* unless the machine has its bad luck.
Keeps ==
    /\ DOMAIN enrollment_token \subseteq DOMAIN enrollment_token'
    /\ \A c \in DOMAIN tokens : c \in DOMAIN tokens' /\ tokens'[c] = tokens[c]
    /\ unlucky \subseteq unlucky'
    /\ \A m \in Machines : \/ identity_file[m] = NoIdentity
                           \/ identity_file'[m] = identity_file[m]
                           \/ m \in unlucky'

LEMMA TokensGrow ==
    ASSUME EnrolmentInv, NEW m \in Machines, Redeem(m) \/ AnswerLost(m)
    PROVE  \/ UNCHANGED <<pending, tokens>> /\ agent' = [agent EXCEPT ![m] = Down]
           \/ /\ arg[m] \in pending /\ pending' = pending \ {arg[m]}
              /\ DOMAIN tokens' = DOMAIN tokens \cup {arg[m]} /\ tokens'[arg[m]] = NameOf[m]
              /\ \A c \in DOMAIN tokens : tokens'[c] = tokens[c]
              /\ \/ agent' = [agent EXCEPT ![m] = Down]
                 \/ agent' = [agent EXCEPT ![m].at = "saving", ![m].token = arg[m]]
<1>1. \/ UNCHANGED <<pending, tokens>> /\ agent' = [agent EXCEPT ![m] = Down]
      \/ /\ arg[m] \in pending /\ pending' = pending \ {arg[m]}
         /\ tokens' = Put(tokens, arg[m], NameOf[m])
         /\ \/ agent' = [agent EXCEPT ![m] = Down]
            \/ agent' = [agent EXCEPT ![m].at = "saving", ![m].token = arg[m]]
    BY DEF Redeem, AnswerLost, Spent
<1>2. \A c \in pending : c \notin DOMAIN tokens
    BY DEF EnrolmentInv, CodesOK
<1> QED
    BY <1>1, <1>2 DEF Put

LEMMA CodesStay ==
    ASSUME EnrolmentInv, [EnrolmentNext]_enrolVars
    PROVE  DOMAIN enrollment_token \subseteq DOMAIN enrollment_token'
<1>1. ASSUME NEW s, \/ ClientConnected(s) \/ ClientDisconnected(s)
                    \/ \E load \in Loads, report \in SUBSET WorkloadNames : Heartbeat(s, load, report)
      PROVE  UNCHANGED enrollment_token
    BY <1>1 DEF ClientConnected, ClientDisconnected, Heartbeat, presenceFrame
<1>2. CodeHanded => DOMAIN enrollment_token \subseteq DOMAIN enrollment_token'
    BY DEF CodeHanded, CreateEnrollmentToken, Put
<1>3. Enrolled => DOMAIN enrollment_token' = DOMAIN enrollment_token
    BY DEF Enrolled, EnrollHost
<1> QED
    BY <1>1, <1>2, <1>3, TableSteps DEF vars, Presence

LEMMA StepKeeps ==
    ASSUME EnrolmentInv, [EnrolmentNext]_enrolVars
    PROVE  Keeps
<1>t. EnrolmentTypeOK /\ DOMAIN identity_file = Machines
    BY DEF EnrolmentInv, EnrolmentTypeOK
<1>0. DOMAIN enrollment_token \subseteq DOMAIN enrollment_token'
    BY CodesStay
<1>1. ASSUME UNCHANGED <<tokens, identity_file, unlucky>> PROVE Keeps
    BY <1>0, <1>1 DEF Keeps
<1>2. ASSUME NEW m \in Machines,
             \/ Launch(m) \/ SaveCredentials(m) \/ Connect(m) \/ Enrol(m) \/ Record(m)
             \/ Report(m) \/ HandCode(m) \/ MistakeCode(m)
      PROVE  UNCHANGED <<tokens, identity_file, unlucky>>
    BY <1>2 DEF Launch, SaveCredentials, Connect, Enrol, Record, Report, HandCode, MistakeCode
<1>3. ASSUME NEW m \in Machines, Connections(m) PROVE UNCHANGED <<tokens, identity_file, unlucky>>
    BY <1>3 DEF Connections, Deliver, DeliverLate, DisconnectLate
<1>4. ASSUME NEW m \in Machines, Redeem(m) \/ AnswerLost(m) PROVE Keeps
    <2>1. UNCHANGED <<identity_file, unlucky>>
        BY <1>4 DEF Redeem, AnswerLost
    <2> QED
        BY <1>0, <1>4, <2>1, TokensGrow DEF Keeps
<1>5. ASSUME NEW m \in Machines, Persist(m) PROVE Keeps
    <2>1. Phases(m) /\ agent[m].at = "persisting"
        BY <1>5 DEF EnrolmentInv, MachinesOK, Persist
    <2>2. identity_file[m] \in {NoIdentity, who[m]}
        BY <2>1 DEF Phases
    <2> QED
        BY <1>0, <1>t, <1>5, <2>2 DEF Keeps, Persist
<1>6. ASSUME NEW m \in Machines, PersistFails(m) PROVE Keeps
    BY <1>0, <1>t, <1>6 DEF Keeps, PersistFails
<1>7. ASSUME NEW m \in Machines, Crash(m) PROVE Keeps
    <2>1. /\ unlucky' \in {unlucky, unlucky \cup {m}}
          /\ identity_file'[m] # identity_file[m] => m \in unlucky'
        BY <1>t, <1>7, CrashLeaves
    <2>2. \A n \in Machines : n # m => identity_file'[n] = identity_file[n]
        BY <1>t, <1>7 DEF Crash
    <2>3. UNCHANGED tokens
        BY <1>7 DEF Crash
    <2> QED
        BY <1>0, <2>1, <2>2, <2>3 DEF Keeps
<1>8. CASE UNCHANGED enrolVars
    BY <1>1, <1>8 DEF enrolVars, machineVars
<1> QED
    BY <1>1, <1>2, <1>3, <1>4, <1>5, <1>6, <1>7, <1>8 DEF EnrolmentNext, Main

LEMMA RedeemedStays ==
    ASSUME Keeps, NEW m, NEW code, Redeemed(m, code)
    PROVE  Redeemed(m, code)'
BY DEF Keeps, Redeemed

LEMMA KeptStays ==
    ASSUME Keeps, NEW m \in Machines, NEW s, s # NoIdentity, IsKept(m, s)
    PROVE  IsKept(m, s)'
BY DEF Keeps, IsKept

\* Enrolments already on their way stay well.
LEMMA EnrolsWellStays ==
    ASSUME Keeps, NEW m \in Machines, NEW s, NEW cs, EnrolsWell(m, s, cs), cs # <<>> => s # NoIdentity,
           NEW ds, \A i \in DOMAIN ds : \E j \in DOMAIN cs : ds[i] = cs[j]
    PROVE  EnrolsWell(m, s, ds)'
<1> SUFFICES ASSUME NEW i \in DOMAIN ds, ds[i].kind = "enroll"
             PROVE  Redeemed(m, ds[i].code)' /\ IsKept(m, s)'
    BY DEF EnrolsWell
<1>1. PICK j \in DOMAIN cs : ds[i] = cs[j]
    OBVIOUS
<1>2. Redeemed(m, cs[j].code) /\ IsKept(m, s)
    BY <1>1 DEF EnrolsWell
<1>3. cs # <<>>
    BY <1>1
<1> QED
    BY <1>1, <1>2, <1>3, RedeemedStays, KeptStays
-----------------------------------------------------------------------------
(* One machine moves at a time *)

Step(m) == Main(m) \/ Connections(m) \/ HandCode(m) \/ MistakeCode(m) \/ AnswerLost(m)
           \/ PersistFails(m) \/ Crash(m)

Same(n) == /\ UNCHANGED <<arg[n], agent[n], identity_file[n], who[n], calls[n], ghost[n]>>
           /\ n \in unlucky' <=> n \in unlucky

Alone(m) == \A n \in Machines \ {m} : Same(n)

LEMMA StepsAreAlone ==
    ASSUME EnrolmentTypeOK, NEW m \in Machines, Step(m)
    PROVE  Alone(m)
<1> USE DEF Alone, Same, EnrolmentTypeOK
<1>1. CASE Launch(m) \/ SaveCredentials(m) \/ Record(m)
    BY <1>1 DEF Launch, SaveCredentials, Record, Goto
<1>2. CASE Redeem(m) \/ AnswerLost(m)
    BY <1>2 DEF Redeem, AnswerLost
<1>3. CASE Connect(m)
    <2>1. /\ \E s : who' = [who EXCEPT ![m] = s]
          /\ Goto(m, "persisting")
          /\ UNCHANGED <<arg, identity_file, calls, ghost, unlucky>>
        BY <1>3 DEF Connect
    <2> QED
        BY <2>1 DEF Goto
<1>4. CASE Persist(m) \/ PersistFails(m)
    BY <1>4 DEF Persist, PersistFails, Goto
<1>5. CASE Enrol(m) \/ Report(m)
    BY <1>5 DEF Enrol, Report, Goto
<1>6. CASE Deliver(m) \/ DeliverLate(m) \/ DisconnectLate(m)
    <2>1. /\ UNCHANGED <<arg, identity_file, agent, who, unlucky>>
          /\ calls' = calls \/ \E cs : calls' = [calls EXCEPT ![m] = cs]
          /\ ghost' = ghost \/ \E g : ghost' = [ghost EXCEPT ![m] = g]
        BY <1>6 DEF Deliver, DeliverLate, DisconnectLate
    <2> QED
        BY <2>1
<1>7. CASE HandCode(m) \/ MistakeCode(m)
    <2>1. /\ UNCHANGED <<agent, identity_file, who, calls, ghost, unlucky>>
          /\ \E code : arg' = [arg EXCEPT ![m] = code]
        BY <1>7 DEF HandCode, MistakeCode
    <2> QED
        BY <2>1
<1>8. CASE Crash(m)
    <2>1. /\ \E g : ghost' = [ghost EXCEPT ![m] = g]
          /\ unlucky' \in {unlucky, unlucky \cup {m}}
        BY <1>8, CrashLeaves
    <2>2. /\ identity_file' = identity_file \/ identity_file' = [identity_file EXCEPT ![m] = NoIdentity]
          /\ agent' = [agent EXCEPT ![m] = Down]
          /\ who' = [who EXCEPT ![m] = NoIdentity] /\ calls' = [calls EXCEPT ![m] = <<>>]
          /\ UNCHANGED arg
        BY <1>8 DEF Crash
    <2> QED
        BY <2>1, <2>2
<1> QED
    BY <1>1, <1>2, <1>3, <1>4, <1>5, <1>6, <1>7, <1>8 DEF Step, Main, Connections

LEMMA PhasesStep ==
    ASSUME EnrolmentInv, NEW m \in Machines, Step(m)
    PROVE  Phases(m)'
<1>t. EnrolmentTypeOK /\ Phases(m) /\ m \in DOMAIN agent
    BY DEF EnrolmentInv, EnrolmentTypeOK, MachinesOK
<1> USE <1>t DEF Phases, Connecting, Identified, IsKept, EnrolmentTypeOK
<1>1. CASE Launch(m)
    <2>1. agent'[m].at \in {"connecting", "redeeming"} /\ agent[m].at = "down"
        BY <1>1 DEF Launch
    <2> QED
        BY <1>1, <2>1 DEF Launch
<1>2. CASE Redeem(m) \/ AnswerLost(m)
    <2>1. agent'[m].at \in {"saving", "down"} /\ agent[m].at = "redeeming"
        BY <1>2, NothingTyped DEF Redeem, AnswerLost, Process
    <2> QED
        BY <1>2, <2>1 DEF Redeem, AnswerLost
<1>3. CASE SaveCredentials(m)
    BY <1>3 DEF SaveCredentials, Goto, Process
<1>4. CASE Connect(m)
    <2>1. PICK s \in Identities :
             /\ who' = [who EXCEPT ![m] = s]
             /\ s = identity_file[m] \/ identity_file[m] = NoIdentity
        BY <1>4, ConnectsAs
    <2>2. agent'[m].at = "persisting" /\ UNCHANGED <<identity_file, calls, ghost, unlucky>>
          /\ agent[m].at = "connecting"
        BY <1>4 DEF Connect, Goto, Process
    <2>3. who'[m] = s /\ s # NoIdentity
        BY <2>1, EnrolmentAssumption
    <2> QED
        BY <2>1, <2>2, <2>3
<1>5. CASE Persist(m) \/ PersistFails(m)
    <2>1. agent'[m].at = "subscribing" /\ agent[m].at = "persisting"
        BY <1>5 DEF Persist, PersistFails, Goto, Process
    <2>2. IsKept(m, who[m])'
        BY <1>5 DEF Persist, PersistFails
    <2>3. UNCHANGED <<who, calls, ghost>>
        BY <1>5 DEF Persist, PersistFails
    <2> QED
        BY <2>1, <2>2, <2>3
<1>6. CASE Enrol(m)
    <2>1. agent[m].at = "subscribing" /\ agent'[m].at \in {"reporting", "recording"}
          /\ UNCHANGED <<identity_file, who, ghost, unlucky>>
        BY <1>6 DEF Enrol, Goto, Process
    <2> QED
        BY <2>1
<1>7. CASE Record(m)
    <2>1. agent[m].at = "recording" /\ agent'[m].at = "reporting"
        BY <1>7 DEF Record, Process
    <2> QED
        BY <1>7, <2>1 DEF Record
<1>8. CASE Report(m)
    <2>1. agent[m].at = "reporting" /\ UNCHANGED <<agent, identity_file, who, ghost, unlucky>>
        BY <1>8 DEF Report
    <2> QED
        BY <2>1
<1>9. CASE HandCode(m) \/ MistakeCode(m)
    BY <1>9 DEF HandCode, MistakeCode
<1>10. CASE Crash(m)
    <2>1. PICK cs \in Seq(AgentCall) :
             /\ ghost' = [ghost EXCEPT ![m] = [by |-> who[m], calls |-> cs]]
             /\ \A i \in DOMAIN cs : i \in DOMAIN calls[m] /\ cs[i] = calls[m][i]
        BY <1>10, CrashLeaves
    <2>2. agent'[m].at = "down" /\ who'[m] = NoIdentity /\ calls'[m] = <<>>
        BY <1>10, NothingTyped DEF Crash
    <2>3. ghost'[m].by = who[m] /\ ghost'[m].calls = cs
        BY <2>1
    <2>4. cs # <<>> => calls[m] # <<>>
        <3> SUFFICES ASSUME cs # <<>>, calls[m] = <<>> PROVE FALSE
            OBVIOUS
        <3>1. 1 \in DOMAIN cs
            BY SequenceFacts
        <3> QED
            BY <2>1, <3>1
    <2> QED
        BY <2>2, <2>3, <2>4
<1>11. CASE Deliver(m)
    <2>1. calls[m] # <<>> /\ UNCHANGED <<identity_file, agent, who, ghost, unlucky>>
        BY <1>11 DEF Deliver
    <2> QED
        BY <2>1
<1>12. CASE DeliverLate(m)
    <2>1. /\ ghost[m].calls # <<>> /\ ghost'[m].by = ghost[m].by
          /\ UNCHANGED <<identity_file, agent, who, calls, unlucky>>
        BY <1>12 DEF DeliverLate, Connection
    <2> QED
        BY <2>1
<1>13. CASE DisconnectLate(m)
    <2>1. ghost'[m] = NoConnection /\ UNCHANGED <<identity_file, agent, who, calls, unlucky>>
        BY <1>13 DEF DisconnectLate
    <2> QED
        BY <2>1, NothingTyped
<1> QED
    BY <1>1, <1>2, <1>3, <1>4, <1>5, <1>6, <1>7, <1>8, <1>9, <1>10, <1>11, <1>12, <1>13
       DEF Step, Main, Connections
LEMMA CodesInUseStep ==
    ASSUME EnrolmentInv, Keeps, NEW m \in Machines, Step(m)
    PROVE  CodesInUse(m)'
<1>t. EnrolmentTypeOK /\ Phases(m) /\ CodesInUse(m) /\ m \in DOMAIN agent
    BY DEF EnrolmentInv, EnrolmentTypeOK, MachinesOK
<1>c. /\ calls[m] \in Seq(AgentCall) /\ ghost[m] \in Connection /\ ghost[m].calls \in Seq(AgentCall)
      /\ EnrolsWell(m, who[m], calls[m]) /\ EnrolsWell(m, ghost[m].by, ghost[m].calls)
      /\ calls[m] # <<>> => who[m] # NoIdentity
      /\ ghost[m].calls # <<>> => ghost[m].by # NoIdentity
    BY <1>t DEF EnrolmentTypeOK, Connection, CodesInUse, Phases, Connecting
<1>s. /\ who' = who /\ calls' = calls => EnrolsWell(m, who[m], calls[m])'
      /\ ghost' = ghost => EnrolsWell(m, ghost[m].by, ghost[m].calls)'
    <2>1. \A s, cs : s = who[m] /\ cs = calls[m] => EnrolsWell(m, s, cs)'
        BY <1>c, EnrolsWellStays
    <2>2. \A s, cs : s = ghost[m].by /\ cs = ghost[m].calls => EnrolsWell(m, s, cs)'
        BY <1>c, EnrolsWellStays
    <2>3. ASSUME who' = who, calls' = calls PROVE EnrolsWell(m, who[m], calls[m])'
        BY <1>c, <2>1, <2>3
    <2>4. ASSUME ghost' = ghost PROVE EnrolsWell(m, ghost[m].by, ghost[m].calls)'
        BY <2>2, <2>4
    <2> QED
        BY <2>3, <2>4
\* nothing is on its way over a connection that has just begun
<1>n. calls'[m] = <<>> => EnrolsWell(m, who[m], calls[m])'
    BY DEF EnrolsWell
<1>e. ASSUME NEW code, Redeemed(m, code) PROVE Redeemed(m, code)'
    BY <1>e, RedeemedStays
<1>k. ASSUME arg'[m] = arg[m], agent'[m].enrolled = agent[m].enrolled, agent[m].at \in WithToken
      PROVE  ~agent'[m].enrolled => Redeemed(m, arg[m])'
    <2>1. ~agent[m].enrolled => Redeemed(m, arg[m])
        BY <1>t, <1>k DEF CodesInUse
    <2>2. \A code : Redeemed(m, code) => Redeemed(m, code)'
        BY <1>e
    <2>3. \A code : code = arg[m] /\ Redeemed(m, code)' => Redeemed(m, arg[m])'
        BY <1>k DEF Redeemed
    <2> QED
        BY <1>k, <2>1, <2>2, <2>3
<1>1. CASE Launch(m) \/ SaveCredentials(m) \/ Record(m) \/ MistakeCode(m) \/ HandCode(m)
    <2>1. UNCHANGED <<who, calls, ghost>>
        BY <1>1 DEF Launch, SaveCredentials, Record, MistakeCode, HandCode
    <2>2. (agent[m].at \in WithToken /\ ~agent[m].enrolled => Redeemed(m, arg[m]))'
        <3>1. CASE Launch(m)
            <4>1. agent'[m].at \in {"connecting", "redeeming"}
                  /\ (agent'[m].at = "connecting" => agent'[m].enrolled)
                BY <1>t, <3>1 DEF Launch, EnrolmentTypeOK
            <4> QED
                BY <4>1 DEF WithToken
        <3>2. CASE SaveCredentials(m)
            <4>1. agent[m].at \in WithToken /\ arg' = arg /\ agent'[m].enrolled = agent[m].enrolled
                BY <1>t, <3>2 DEF SaveCredentials, Goto, WithToken, EnrolmentTypeOK, Process
            <4> QED
                BY <4>1, <1>k
        <3>3. CASE Record(m)
            <4>1. agent'[m].at = "reporting"
                BY <1>t, <3>3 DEF Record, EnrolmentTypeOK, Process
            <4> QED
                BY <4>1 DEF WithToken
        <3>4. CASE MistakeCode(m) \/ HandCode(m)
            <4>1. agent'[m].at = "down"
                BY <3>4 DEF MistakeCode, HandCode
            <4> QED
                BY <4>1 DEF WithToken
        <3> QED
            BY <1>1, <3>1, <3>2, <3>3, <3>4
    <2> QED
        BY <1>s, <2>1, <2>2 DEF CodesInUse
<1>2. CASE Redeem(m) \/ AnswerLost(m)
    <2>1. UNCHANGED <<who, calls, ghost, arg>>
        BY <1>2 DEF Redeem, AnswerLost
    <2>2. (agent[m].at \in WithToken /\ ~agent[m].enrolled => Redeemed(m, arg[m]))'
        <3>1. \/ agent'[m] = Down
              \/ arg[m] \in DOMAIN tokens' /\ tokens'[arg[m]] = NameOf[m]
            <4>1. \/ agent' = [agent EXCEPT ![m] = Down]
                  \/ arg[m] \in DOMAIN tokens' /\ tokens'[arg[m]] = NameOf[m]
                BY <1>2, TokensGrow
            <4> QED
                BY <1>t, <4>1
        <3> QED
            BY <2>1, <3>1, NothingTyped DEF WithToken, Redeemed
    <2> QED
        BY <1>s, <2>1, <2>2 DEF CodesInUse
<1>3. CASE Connect(m)
    <2>1. calls'[m] = <<>> /\ ghost' = ghost /\ arg' = arg
        <3>1. agent[m].at = "connecting" /\ UNCHANGED <<arg, calls, ghost>>
            BY <1>3 DEF Connect
        <3> QED
            BY <1>t, <3>1 DEF Phases
    <2>2. agent[m].at \in WithToken /\ agent'[m].enrolled = agent[m].enrolled
        BY <1>t, <1>3 DEF Connect, Goto, WithToken, EnrolmentTypeOK, Process
    <2> QED
        BY <1>s, <1>n, <1>k, <2>1, <2>2 DEF CodesInUse
<1>4. CASE Persist(m) \/ PersistFails(m)
    <2>1. UNCHANGED <<who, calls, ghost, arg>>
        BY <1>4 DEF Persist, PersistFails
    <2>2. agent[m].at \in WithToken /\ agent'[m].enrolled = agent[m].enrolled
        BY <1>t, <1>4 DEF Persist, PersistFails, Goto, WithToken, EnrolmentTypeOK, Process
    <2> QED
        BY <1>s, <1>k, <2>1, <2>2 DEF CodesInUse
<1>5. CASE Enrol(m)
    <2>1. /\ UNCHANGED <<who, ghost, arg, tokens, identity_file, unlucky>>
          /\ agent[m].at = "subscribing" /\ agent'[m].enrolled = agent[m].enrolled
          /\ \/ agent[m].enrolled /\ calls' = calls
             \/ /\ ~agent[m].enrolled
                /\ calls' = [calls EXCEPT ![m] = Append(@, EnrollCall(arg[m]))]
        BY <1>t, <1>5 DEF Enrol, Goto, EnrolmentTypeOK, Process
    <2>2. agent[m].at \in WithToken /\ IsKept(m, who[m])
        BY <1>t, <2>1 DEF WithToken, Phases, Identified
    <2>3. EnrolsWell(m, who[m], calls[m])'
        <3>1. CASE calls' = calls
            BY <1>s, <2>1, <3>1
        <3>2. CASE ~agent[m].enrolled /\ calls' = [calls EXCEPT ![m] = Append(@, EnrollCall(arg[m]))]
            <4>1. Redeemed(m, arg[m])
                BY <1>t, <2>2, <3>2 DEF CodesInUse
            <4>2. arg[m] \in Codes
                BY <1>t, <4>1 DEF Redeemed, EnrolmentTypeOK, IsTable
            <4>3. calls'[m] = Append(calls[m], EnrollCall(arg[m]))
                BY <1>t, <3>2 DEF EnrolmentTypeOK
            <4>4. ASSUME NEW i \in DOMAIN calls'[m], calls'[m][i].kind = "enroll"
                  PROVE  Redeemed(m, calls'[m][i].code) /\ IsKept(m, who[m])
                <5>1. \/ i \in DOMAIN calls[m] /\ calls'[m][i] = calls[m][i]
                      \/ calls'[m][i] = EnrollCall(arg[m])
                    BY <1>c, <4>2, <4>3, <4>4, SequenceFacts, CallsAreTyped
                <5> QED
                    BY <1>c, <2>2, <4>1, <4>2, <4>4, <5>1, CallsAreTyped DEF EnrolsWell
            <4> QED
                BY <2>1, <4>4 DEF EnrolsWell, Redeemed, IsKept
        <3> QED
            BY <2>1, <3>1, <3>2
    <2> QED
        BY <1>s, <1>k, <2>1, <2>2, <2>3 DEF CodesInUse
<1>6. CASE Report(m)
    <2>1. PICK report \in SUBSET WorkloadNames :
             calls' = [calls EXCEPT ![m] = Append(@, HeartbeatCall(report))]
        BY <1>6, EnrolmentAssumption DEF Report
    <2>2. UNCHANGED <<who, ghost, arg, agent, tokens, identity_file, unlucky>>
          /\ agent[m].at = "reporting"
        BY <1>6 DEF Report
    <2>3. calls'[m] = Append(calls[m], HeartbeatCall(report))
        BY <1>t, <2>1 DEF EnrolmentTypeOK
    <2>4. ASSUME NEW i \in DOMAIN calls'[m], calls'[m][i].kind = "enroll"
          PROVE  Redeemed(m, calls'[m][i].code) /\ IsKept(m, who[m])
        <3>1. \/ i \in DOMAIN calls[m] /\ calls'[m][i] = calls[m][i]
              \/ calls'[m][i] = HeartbeatCall(report)
            BY <1>c, <2>3, <2>4, SequenceFacts, CallsAreTyped
        <3>2. calls'[m][i] # HeartbeatCall(report)
            BY <2>4, CallsAreTyped
        <3> QED
            BY <1>c, <2>4, <3>1, <3>2 DEF EnrolsWell
    <2>5. EnrolsWell(m, who[m], calls[m])'
        BY <2>2, <2>4 DEF EnrolsWell, Redeemed, IsKept
    <2> QED
        BY <1>s, <2>2, <2>5 DEF CodesInUse, WithToken
<1>7. CASE Deliver(m)
    <2>1. /\ calls[m] # <<>> /\ calls'[m] = Tail(calls[m])
          /\ UNCHANGED <<who, ghost, arg, agent>>
        BY <1>t, <1>7 DEF Deliver, EnrolmentTypeOK
    <2>2. \A i \in DOMAIN Tail(calls[m]) : \E j \in DOMAIN calls[m] : Tail(calls[m])[i] = calls[m][j]
        BY <1>c, <2>1, SequenceFacts
    <2>3. \A s, cs : s = who[m] /\ cs = Tail(calls[m]) => EnrolsWell(m, s, cs)'
        BY <1>c, <2>2, EnrolsWellStays
    <2>4. EnrolsWell(m, who[m], calls[m])'
        BY <2>1, <2>3
    <2>5. (agent[m].at \in WithToken /\ ~agent[m].enrolled => Redeemed(m, arg[m]))'
        BY <1>k, <2>1
    <2> QED
        BY <1>s, <2>1, <2>4, <2>5 DEF CodesInUse
<1>8. CASE DeliverLate(m)
    <2>1. /\ ghost[m].calls # <<>> /\ ghost'[m].calls = Tail(ghost[m].calls)
          /\ ghost'[m].by = ghost[m].by
          /\ UNCHANGED <<who, calls, arg, agent>>
        BY <1>t, <1>c, <1>8 DEF DeliverLate, EnrolmentTypeOK, Connection
    <2>2. \A i \in DOMAIN Tail(ghost[m].calls) :
             \E j \in DOMAIN ghost[m].calls : Tail(ghost[m].calls)[i] = ghost[m].calls[j]
        BY <1>c, <2>1, SequenceFacts
    <2>3. \A s, cs : s = ghost[m].by /\ cs = Tail(ghost[m].calls) => EnrolsWell(m, s, cs)'
        BY <1>c, <2>2, EnrolsWellStays
    <2>4. EnrolsWell(m, ghost[m].by, ghost[m].calls)'
        BY <2>1, <2>3
    <2>5. (agent[m].at \in WithToken /\ ~agent[m].enrolled => Redeemed(m, arg[m]))'
        BY <1>k, <2>1
    <2> QED
        BY <1>s, <2>1, <2>4, <2>5 DEF CodesInUse
<1>9. CASE DisconnectLate(m)
    <2>1. ghost'[m] = NoConnection /\ UNCHANGED <<who, calls, arg, agent>>
        BY <1>t, <1>9 DEF DisconnectLate, EnrolmentTypeOK
    <2>2. EnrolsWell(m, ghost[m].by, ghost[m].calls)'
        BY <2>1, NothingTyped DEF EnrolsWell
    <2>5. (agent[m].at \in WithToken /\ ~agent[m].enrolled => Redeemed(m, arg[m]))'
        BY <1>k, <2>1
    <2> QED
        BY <1>s, <2>1, <2>2, <2>5 DEF CodesInUse
<1>10. CASE Crash(m)
    <2>1. PICK cs \in Seq(AgentCall) :
             /\ ghost' = [ghost EXCEPT ![m] = [by |-> who[m], calls |-> cs]]
             /\ \A i \in DOMAIN cs : i \in DOMAIN calls[m] /\ cs[i] = calls[m][i]
        BY <1>t, <1>10, CrashLeaves
    <2>2. ghost'[m].by = who[m] /\ ghost'[m].calls = cs
        BY <1>t, <2>1 DEF EnrolmentTypeOK
    <2>3. \A s : s = who[m] => EnrolsWell(m, s, cs)'
        BY <1>c, <2>1, EnrolsWellStays
    <2>4. EnrolsWell(m, ghost[m].by, ghost[m].calls)'
        BY <2>2, <2>3
    <2>5. calls'[m] = <<>> /\ agent'[m].at = "down"
        BY <1>t, <1>10, NothingTyped DEF Crash, EnrolmentTypeOK
    <2> QED
        BY <1>n, <2>4, <2>5 DEF CodesInUse, WithToken
<1> QED
    BY <1>1, <1>2, <1>3, <1>4, <1>5, <1>6, <1>7, <1>8, <1>9, <1>10 DEF Step, Main, Connections
-----------------------------------------------------------------------------
(* Identities and connections *)

\* What a step of m does to identities and connections: m may connect as an identity
\* of its own or a new one, lose the end of a connection it left behind, or move what
\* it has between the present connection and the one left behind.
Reconnects(m) ==
    \E s \in Identities :
        /\ conn' = [conn EXCEPT ![s] = @ + 1] /\ issued' = issued \cup {s}
        /\ who[m] = NoIdentity /\ who'[m] = s
        /\ s = identity_file[m] \/ (identity_file[m] = NoIdentity /\ s \notin issued)
        /\ identity_file' = identity_file /\ ghost'[m].by = ghost[m].by

LosesConnection(m) ==
    /\ ghost[m].by # NoIdentity /\ ghost'[m].by = NoIdentity
    /\ conn' = [conn EXCEPT ![ghost[m].by] = @ - 1]
    /\ UNCHANGED <<issued, who, identity_file>>

Rearranges(m) ==
    /\ UNCHANGED <<conn, issued>>
    /\ Owned(m)' \subseteq Owned(m)
    /\ who'[m] \in {who[m], NoIdentity}
    /\ \/ who'[m] = who[m] /\ ghost'[m].by = ghost[m].by
       \/ who'[m] = NoIdentity /\ ghost'[m].by = who[m]

LEMMA IdentitySteps ==
    ASSUME EnrolmentInv, NEW m \in Machines, Step(m)
    PROVE  Reconnects(m) \/ LosesConnection(m) \/ Rearranges(m)
<1>t. EnrolmentTypeOK /\ Phases(m)
    BY DEF EnrolmentInv, MachinesOK
<1>1. CASE Launch(m) \/ SaveCredentials(m) \/ Record(m) \/ MistakeCode(m) \/ Enrol(m) \/ Report(m)
           \/ Redeem(m) \/ AnswerLost(m)
    <2>1. UNCHANGED <<conn, issued, who, identity_file, ghost>>
        BY <1>1 DEF Launch, SaveCredentials, Record, MistakeCode, Enrol, Report, Redeem, AnswerLost, vars
    <2> QED
        BY <2>1 DEF Rearranges, Owned
<1>2. CASE HandCode(m)
    <2>1. UNCHANGED <<conn, issued, who, identity_file, ghost>>
        BY <1>2 DEF HandCode, CreateEnrollmentToken
    <2> QED
        BY <2>1 DEF Rearranges, Owned
<1>3. CASE Connect(m)
    <2>1. PICK s \in Identities :
             /\ ClientConnected(s)
             /\ who' = [who EXCEPT ![m] = s] /\ issued' = issued \cup {s}
             /\ s = identity_file[m] \/ (identity_file[m] = NoIdentity /\ s \notin issued)
        BY <1>t, <1>3, ConnectsAs
    <2>2. who[m] = NoIdentity
        BY <1>t, <1>3 DEF Connect, Phases, Connecting
    <2>3. UNCHANGED <<identity_file, ghost>>
        BY <1>3 DEF Connect
    <2> QED
        BY <1>t, <2>1, <2>2, <2>3 DEF Reconnects, ClientConnected, EnrolmentTypeOK
<1>4. CASE Persist(m) \/ PersistFails(m)
    <2>1. /\ UNCHANGED <<conn, issued, who, ghost>>
          /\ identity_file'[m] \in {who[m], NoIdentity}
        BY <1>t, <1>4 DEF Persist, PersistFails, EnrolmentTypeOK, vars
    <2> QED
        BY <2>1 DEF Rearranges, Owned
<1>5. CASE Crash(m)
    <2>1. PICK cs \in Seq(AgentCall) : ghost' = [ghost EXCEPT ![m] = [by |-> who[m], calls |-> cs]]
        BY <1>t, <1>5, CrashLeaves
    <2>2. /\ UNCHANGED <<conn, issued>>
          /\ who'[m] = NoIdentity /\ identity_file'[m] \in {identity_file[m], NoIdentity}
        BY <1>t, <1>5 DEF Crash, EnrolmentTypeOK, vars
    <2>3. ghost'[m].by = who[m]
        BY <1>t, <2>1 DEF EnrolmentTypeOK
    <2> QED
        BY <2>2, <2>3 DEF Rearranges, Owned
<1>6. CASE Deliver(m) \/ DeliverLate(m)
    <2>1. UNCHANGED <<issued, who, identity_file>> /\ ghost'[m].by = ghost[m].by
        BY <1>t, <1>6 DEF Deliver, DeliverLate, EnrolmentTypeOK, Connection
    <2>2. ASSUME NEW s, NEW call, Runs(m, s, call) PROVE conn' = conn
        BY <2>2 DEF Runs, EnrollHost, Heartbeat, vars
    <2>3. conn' = conn
        BY <1>6, <2>2 DEF Deliver, DeliverLate
    <2> QED
        BY <2>1, <2>3 DEF Rearranges, Owned
<1>7. CASE DisconnectLate(m)
    <2>1. /\ ghost[m].by # NoIdentity /\ ghost' = [ghost EXCEPT ![m] = NoConnection]
          /\ conn' = [conn EXCEPT ![ghost[m].by] = @ - 1]
          /\ UNCHANGED <<issued, who, identity_file>>
        BY <1>7 DEF DisconnectLate, ClientDisconnected
    <2> QED
        BY <1>t, <2>1, NothingTyped DEF LosesConnection, EnrolmentTypeOK
<1> QED
    BY <1>1, <1>2, <1>3, <1>4, <1>5, <1>6, <1>7 DEF Step, Main, Connections

LEMMA LinksStep ==
    ASSUME EnrolmentInv, NEW m \in Machines, Step(m)
    PROVE  /\ \A n \in Machines : Linked(n)'
           /\ OneOwnerEach' /\ conn'[Server] > 0 /\ Server \in issued'
<1>t. /\ EnrolmentTypeOK /\ ServerStays /\ OneOwnerEach /\ \A n \in Machines : Linked(n)
      /\ conn \in [Identities -> Nat] /\ Server \in Identities /\ NoIdentity \notin Identities
    BY EnrolmentAssumption, BoundAssumption
       DEF EnrolmentInv, MachinesOK, HostsAgree, TypeOK
<1>a. Alone(m)
    BY <1>t, StepsAreAlone
<1>o. \A n \in Machines : n # m => /\ Owned(n)' = Owned(n)
                                   /\ who'[n] = who[n] /\ ghost'[n] = ghost[n]
    BY <1>a DEF Alone, Same, Owned
<1>i. \A n \in Machines : /\ who[n] \in Identities \cup {NoIdentity}
                          /\ identity_file[n] \in Identities \cup {NoIdentity}
                          /\ ghost[n].by \in Identities \cup {NoIdentity}
    BY <1>t DEF EnrolmentTypeOK, Connection
<1>1. CASE Reconnects(m)
    <2>1. PICK s \in Identities :
             /\ conn' = [conn EXCEPT ![s] = @ + 1] /\ issued' = issued \cup {s}
             /\ who[m] = NoIdentity /\ who'[m] = s
             /\ s = identity_file[m] \/ (identity_file[m] = NoIdentity /\ s \notin issued)
             /\ identity_file' = identity_file /\ ghost'[m].by = ghost[m].by
        BY <1>1 DEF Reconnects
    <2>2. Owned(m)' = Owned(m) \cup {s}
        BY <1>t, <2>1 DEF Owned
    <2>3. s \notin issued \/ s \in Owned(m)
        BY <1>t, <2>1 DEF Owned
    <2>4. s # Server
        BY <1>t, <2>3 DEF Linked, ServerStays
    <2>5. OneOwnerEach'
        <3>1. \A n \in Machines : n # m => s \notin Owned(n)
            BY <1>t, <2>3 DEF Linked, OneOwnerEach
        <3> QED
            BY <1>t, <1>o, <2>2, <3>1 DEF OneOwnerEach
    <2>6. \A i \in Identities : conn'[i] >= conn[i]
        BY <1>t, <2>1
    <2>7. conn'[s] = conn[s] + 1 /\ conn'[s] > 0
        BY <1>t, <2>1
    <2>8. ASSUME NEW n \in Machines, n # m PROVE Linked(n)'
        <3>1. Owned(n)' \subseteq issued' \ {Server}
            BY <1>t, <1>o, <2>1, <2>8 DEF Linked
        <3>2. \A i \in Identities : conn[i] \in Nat /\ conn'[i] \in Nat
            BY <1>t, <2>1
        <3>3. /\ who[n] # NoIdentity => conn'[who[n]] > 0
              /\ ghost[n].by # NoIdentity => conn'[ghost[n].by] > 0
              /\ ghost[n].by # NoIdentity /\ ghost[n].by = who[n] => conn'[who[n]] > 1
            BY <1>t, <1>i, <2>6, <3>2 DEF Linked
        <3> QED
            BY <1>o, <2>8, <3>1, <3>3 DEF Linked
    <2>9. Linked(m)'
        <3>1. Owned(m)' \subseteq issued' \ {Server}
            BY <1>t, <2>1, <2>2, <2>4 DEF Linked
        <3>2. \A i \in Identities : conn[i] \in Nat /\ conn'[i] \in Nat
            BY <1>t, <2>1
        <3>3. ghost[m].by # NoIdentity => conn'[ghost[m].by] > 0
            BY <1>t, <1>i, <2>6, <3>2 DEF Linked
        <3>4. ghost[m].by = s => conn'[s] > 1
            BY <1>t, <2>7, <3>2 DEF Linked
        <3> QED
            BY <2>1, <2>7, <3>1, <3>3, <3>4 DEF Linked
    <2> QED
        BY <1>t, <2>1, <2>4, <2>5, <2>8, <2>9 DEF ServerStays
<1>2. CASE LosesConnection(m)
    <2> DEFINE s == ghost[m].by
    <2>1. /\ s \in Identities /\ ghost'[m].by = NoIdentity
          /\ conn' = [conn EXCEPT ![s] = @ - 1]
          /\ UNCHANGED <<issued, who, identity_file>>
        BY <1>2, <1>i DEF LosesConnection
    <2>2. Owned(m)' \subseteq Owned(m) /\ s \in Owned(m)
        BY <1>t, <2>1 DEF Owned
    <2>3. s # Server
        BY <1>t, <2>2 DEF Linked
    <2>4. \A n \in Machines : n # m => s \notin Owned(n)
        BY <1>t, <2>2 DEF OneOwnerEach
    <2>5. \A i \in Identities \ {s} : conn'[i] = conn[i]
        BY <1>t, <2>1
    <2>6. OneOwnerEach'
        BY <1>t, <1>o, <2>2 DEF OneOwnerEach
    <2>7. ASSUME NEW n \in Machines, n # m PROVE Linked(n)'
        <3>1. who[n] # s /\ ghost[n].by # s
            BY <1>t, <2>1, <2>4, <2>7 DEF Owned
        <3>2. Linked(n) /\ Owned(n)' = Owned(n) /\ who'[n] = who[n] /\ ghost'[n] = ghost[n]
            BY <1>t, <1>o, <2>7
        <3> QED
            BY <1>i, <2>1, <2>5, <3>1, <3>2 DEF Linked
    <2>8. Linked(m)'
        <3>1. Owned(m)' \subseteq issued' \ {Server}
            BY <1>t, <2>1, <2>2 DEF Linked
        <3>2. who[m] # NoIdentity => conn'[who[m]] > 0
            <4>1. CASE who[m] = s
                <5>1. conn[s] > 1 /\ conn[s] \in Nat /\ conn'[s] = conn[s] - 1
                    BY <1>t, <2>1, <4>1 DEF Linked
                <5> QED
                    BY <4>1, <5>1
            <4>2. CASE who[m] # s
                BY <1>t, <1>i, <2>5, <4>2 DEF Linked
            <4> QED
                BY <4>1, <4>2
        <3> QED
            BY <2>1, <3>1, <3>2 DEF Linked
    <2> QED
        BY <1>t, <2>1, <2>3, <2>5, <2>6, <2>7, <2>8 DEF ServerStays
<1>3. CASE Rearranges(m)
    <2>1. /\ UNCHANGED <<conn, issued>> /\ Owned(m)' \subseteq Owned(m)
          /\ who'[m] \in {who[m], NoIdentity}
          /\ \/ who'[m] = who[m] /\ ghost'[m].by = ghost[m].by
             \/ who'[m] = NoIdentity /\ ghost'[m].by = who[m]
        BY <1>3 DEF Rearranges
    <2>2. OneOwnerEach'
        BY <1>t, <1>o, <2>1 DEF OneOwnerEach
    <2>3. ASSUME NEW n \in Machines PROVE Linked(n)'
        <3>1. Owned(n)' \subseteq Owned(n)
            BY <1>o, <2>1
        <3> QED
            BY <1>t, <1>o, <2>1, <3>1 DEF Linked
    <2> QED
        BY <1>t, <2>1, <2>2, <2>3 DEF ServerStays
<1> QED
    BY <1>1, <1>2, <1>3, IdentitySteps
-----------------------------------------------------------------------------
(* Codes, tokens and hosts *)

\* Hosts, their names, their agents and the spent codes are left alone, except by
\* an enrolment.
LEMMA HostChanges ==
    ASSUME EnrolmentInv, [EnrolmentNext]_enrolVars
    PROVE  SameHosts \/ CodeHanded \/ Enrolled
<1>1. TypeOK
    BY DEF EnrolmentInv, HostsAgree
<1> USE <1>1 DEF SameHosts, TypeOK, IsTable
<1>2. ASSUME NEW s, ClientConnected(s) \/ ClientDisconnected(s) PROVE SameHosts
    BY <1>2 DEF ClientConnected, ClientDisconnected, presenceFrame, Host
<1>3. ASSUME NEW s, NEW load \in Loads, NEW report \in SUBSET WorkloadNames, Heartbeat(s, load, report)
      PROVE  SameHosts
    BY <1>3 DEF Heartbeat, Host
<1>4. CASE UNCHANGED vars
    BY <1>4 DEF vars
<1> QED
    BY <1>2, <1>3, <1>4, TableSteps DEF Presence

\* What an enrolment writes for the new host.
HostAdded(s, code, name, new) ==
    /\ DOMAIN host' = DOMAIN host \cup {new} /\ host'[new].name = name
    /\ \A h \in DOMAIN host : host'[h] = host[h]
    /\ DOMAIN agent_binding' = DOMAIN agent_binding \cup {s} /\ agent_binding'[s] = new
    /\ \A x \in DOMAIN agent_binding : agent_binding'[x] = agent_binding[x]
    /\ DOMAIN enrollment_token' = DOMAIN enrollment_token
    /\ code \in DOMAIN enrollment_token /\ enrollment_token'[code] = new
    /\ \A c \in DOMAIN enrollment_token : c # code => enrollment_token'[c] = enrollment_token[c]

LEMMA NewHost ==
    ASSUME EnrolmentInv, NEW s \in Identities, NEW code, NEW name, EnrollHost(s, code, name)
    PROVE  \E new \in HostId \ DOMAIN host : HostAdded(s, code, name, new)
<1> DEFINE new == next_id.host
<1>1. TypeOK /\ IdsAreFresh
    BY DEF EnrolmentInv, HostsAgree
<1>2. new \in HostId
    BY <1>1, BoundAssumption DEF EnrollHost, TypeOK, HostId
<1>3. new \notin DOMAIN host
    BY <1>1, <1>2 DEF IdsAreFresh, HostId
<1>4. /\ DOMAIN host' = DOMAIN host \cup {new} /\ host'[new].name = name
      /\ \A h \in DOMAIN host : host'[h] = host[h]
    BY <1>3 DEF EnrollHost, Put
<1>5. s \notin DOMAIN agent_binding
    BY DEF EnrollHost
<1>6. /\ DOMAIN agent_binding' = DOMAIN agent_binding \cup {s} /\ agent_binding'[s] = new
      /\ \A x \in DOMAIN agent_binding : agent_binding'[x] = agent_binding[x]
    BY <1>5 DEF EnrollHost, Put
<1>7. /\ DOMAIN enrollment_token' = DOMAIN enrollment_token
      /\ code \in DOMAIN enrollment_token /\ enrollment_token'[code] = new
      /\ \A c \in DOMAIN enrollment_token : c # code => enrollment_token'[c] = enrollment_token[c]
    BY DEF EnrollHost, IsUsableCode
<1> QED
    BY <1>2, <1>3, <1>4, <1>6, <1>7 DEF HostAdded

LEMMA TokensStep ==
    ASSUME EnrolmentInv, Keeps, [EnrolmentNext]_enrolVars
    PROVE  /\ TokensFitTheirHosts'
           /\ \A c \in DOMAIN enrollment_token' :
                 enrollment_token'[c] # NotConsumed => enrollment_token'[c] \in DOMAIN host'
<1>t. /\ TokensFitTheirHosts /\ TypeOK
      /\ \A c \in DOMAIN enrollment_token :
            enrollment_token[c] # NotConsumed => enrollment_token[c] \in DOMAIN host
      /\ \A c \in DOMAIN tokens : c \in DOMAIN tokens' /\ tokens'[c] = tokens[c]
    BY DEF EnrolmentInv, CodesOK, HostsAgree, Keeps
<1>1. CASE SameHosts
    BY <1>t, <1>1 DEF SameHosts, TokensFitTheirHosts
<1>2. CASE CodeHanded
    <2>1. PICK code \in Codes : CreateEnrollmentToken(Server, code)
        BY <1>2 DEF CodeHanded
    <2>2. /\ host' = host
          /\ \A c \in DOMAIN enrollment_token' :
                \/ c \in DOMAIN enrollment_token /\ enrollment_token'[c] = enrollment_token[c]
                \/ enrollment_token'[c] = NotConsumed
        BY <2>1 DEF CreateEnrollmentToken, Put
    <2> QED
        BY <1>t, <2>2 DEF TokensFitTheirHosts
<1>3. CASE Enrolled
    <2>1. PICK m \in Machines, s \in Connected, code \in Codes :
             EnrollHost(s, code, NameOf[m]) /\ Redeemed(m, code) /\ tokens' = tokens
        BY <1>3 DEF Enrolled
    <2>2. s \in Identities
        BY DEF Connected
    <2>3. PICK new \in HostId \ DOMAIN host : HostAdded(s, code, NameOf[m], new)
        BY <2>1, <2>2, NewHost
    <2> QED
        BY <1>t, <2>1, <2>3 DEF HostAdded, TokensFitTheirHosts, Redeemed
<1> QED
    BY <1>1, <1>2, <1>3, HostChanges

LEMMA MachinesStep ==
    ASSUME EnrolmentInv, Keeps, [EnrolmentNext]_enrolVars
    PROVE  HostsHaveAMachine'
<1>t. HostsHaveAMachine /\ BindingIntegrity /\ TypeOK
    BY DEF EnrolmentInv, HostsAgree
<1>b. \A s \in DOMAIN agent_binding :
         s \in Identities /\ s # NoIdentity /\ agent_binding[s] \in DOMAIN host
    BY <1>t, EnrolmentAssumption DEF BindingIntegrity, TypeOK, IsTable, Range
<1>k. \A m \in Machines, s \in DOMAIN agent_binding : IsKept(m, s) => IsKept(m, s)'
    BY <1>b, KeptStays
<1>1. ASSUME NEW s \in DOMAIN agent_binding, s \in DOMAIN agent_binding',
             host'[agent_binding'[s]].name = host[agent_binding[s]].name
      PROVE  \E m \in Machines :
                /\ host'[agent_binding'[s]].name = NameOf[m]
                /\ s = identity_file'[m] \/ m \in unlucky'
    <2>1. PICK m \in Machines : host[agent_binding[s]].name = NameOf[m] /\ IsKept(m, s)
        BY <1>t DEF HostsHaveAMachine, IsKept
    <2>2. IsKept(m, s)'
        BY <1>k, <2>1
    <2> QED
        BY <1>1, <2>1, <2>2 DEF IsKept
<1>2. CASE SameHosts
    BY <1>b, <1>1, <1>2 DEF SameHosts, HostsHaveAMachine
<1>3. CASE CodeHanded
    BY <1>1, <1>3 DEF CodeHanded, CreateEnrollmentToken, HostsHaveAMachine
<1>4. CASE Enrolled
    <2>1. PICK m \in Machines, s \in Connected, code \in Codes :
             /\ EnrollHost(s, code, NameOf[m]) /\ IsKept(m, s)
             /\ UNCHANGED <<identity_file, unlucky>>
        BY <1>4 DEF Enrolled
    <2>2. s \in Identities
        BY DEF Connected
    <2>3. PICK new \in HostId \ DOMAIN host : HostAdded(s, code, NameOf[m], new)
        BY <2>1, <2>2, NewHost
    <2>4. ASSUME NEW x \in DOMAIN agent_binding'
          PROVE  \E n \in Machines : /\ host'[agent_binding'[x]].name = NameOf[n]
                                     /\ x = identity_file'[n] \/ n \in unlucky'
        <3>1. CASE x \in DOMAIN agent_binding
            BY <1>b, <1>1, <2>3, <2>4, <3>1 DEF HostAdded
        <3>2. CASE x = s
            BY <2>1, <2>3, <3>2 DEF HostAdded, IsKept
        <3> QED
            BY <2>3, <2>4, <3>1, <3>2 DEF HostAdded
    <2> QED
        BY <2>4 DEF HostsHaveAMachine
<1> QED
    BY <1>2, <1>3, <1>4, HostChanges

LEMMA OperatorStays ==
    ASSUME EnrolmentInv, [EnrolmentNext]_enrolVars
    PROVE  operator' = operator
<1>1. ASSUME NEW s, \/ ClientConnected(s) \/ ClientDisconnected(s)
                    \/ \E load \in Loads, report \in SUBSET WorkloadNames : Heartbeat(s, load, report)
                    \/ \E code, name : EnrollHost(s, code, name)
                    \/ \E code : CreateEnrollmentToken(s, code)
      PROVE  operator' = operator
    BY <1>1 DEF ClientConnected, ClientDisconnected, Heartbeat, EnrollHost, CreateEnrollmentToken,
                presenceFrame
<1> QED
    BY <1>1, TableSteps DEF vars, Presence, CodeHanded, Enrolled

LEMMA CodesStep ==
    ASSUME EnrolmentInv, Keeps, [EnrolmentNext]_enrolVars
    PROVE  CodesOK'
<1>t. CodesOK /\ EnrolmentTypeOK /\ DOMAIN enrollment_token \subseteq DOMAIN enrollment_token'
    BY DEF EnrolmentInv, Keeps
<1>0. \A c \in DOMAIN enrollment_token' :
         enrollment_token'[c] # NotConsumed => enrollment_token'[c] \in DOMAIN host'
    BY TokensStep
<1>1. ASSUME UNCHANGED <<pending, tokens>> PROVE CodesOK'
    BY <1>t, <1>0, <1>1 DEF CodesOK
<1>2. ASSUME NEW m \in Machines,
             \/ Launch(m) \/ SaveCredentials(m) \/ Connect(m) \/ Persist(m) \/ Enrol(m) \/ Record(m)
             \/ Report(m) \/ MistakeCode(m) \/ PersistFails(m) \/ Crash(m) \/ Connections(m)
      PROVE  UNCHANGED <<pending, tokens>>
    BY <1>2 DEF Launch, SaveCredentials, Connect, Persist, Enrol, Record, Report, MistakeCode,
                PersistFails, Crash, Connections, Deliver, DeliverLate, DisconnectLate
<1>3. ASSUME NEW m \in Machines, HandCode(m) PROVE CodesOK'
    <2>1. PICK code \in Codes \ DOMAIN enrollment_token :
             CreateEnrollmentToken(Server, code) /\ pending' = pending \cup {code}
        BY <1>3, HandedCode
    <2>2. code \in DOMAIN enrollment_token' /\ tokens' = tokens
        BY <1>3, <2>1 DEF HandCode, CreateEnrollmentToken, Put
    <2> QED
        BY <1>t, <1>0, <2>1, <2>2 DEF CodesOK
<1>4. ASSUME NEW m \in Machines, Redeem(m) \/ AnswerLost(m) PROVE CodesOK'
    <2>1. \/ UNCHANGED <<pending, tokens>>
          \/ /\ arg[m] \in pending /\ pending' = pending \ {arg[m]}
             /\ DOMAIN tokens' = DOMAIN tokens \cup {arg[m]}
        BY <1>4, TokensGrow
    <2> QED
        BY <1>t, <1>0, <1>1, <2>1 DEF CodesOK
<1>5. CASE UNCHANGED enrolVars
    BY <1>1, <1>5 DEF enrolVars
<1> QED
    BY <1>1, <1>2, <1>3, <1>4, <1>5 DEF EnrolmentNext, Main

-----------------------------------------------------------------------------
(* The invariant *)

LEMMA EnrolmentInvInit == EnrolmentInit => EnrolmentInv
<1> SUFFICES ASSUME EnrolmentInit PROVE EnrolmentInv
    OBVIOUS
<1>1. \A K, R : IsTable(EmptyTable, K, R)
    BY EmptyTableTyped
<1>a. Server \in Identities /\ MaxConnections > 0 /\ MaxFaults \in Nat
      /\ NoIdentity \notin Identities /\ MaxConnections \in Nat /\ NameOf \in [Machines -> HostNames]
    BY EnrolmentAssumption, BoundAssumption
<1>2. TypeOK
    <2>1. next_id \in [host : 1 .. MaxHosts + 1, app : 1 .. MaxApps + 1,
                       deployment : 1 .. MaxDeployments + 1]
        BY BoundAssumption DEF EnrolmentInit
    <2>2. conn \in [Identities -> 0 .. MaxConnections]
        BY <1>a DEF EnrolmentInit
    <2>3. since_sweep \in 0 .. REAP_INTERVAL
        BY TimeAssumption DEF EnrolmentInit
    <2> QED
        BY <1>1, <1>a, <2>1, <2>2, <2>3 DEF EnrolmentInit, TypeOK
<1>3. IdsAreFresh
    BY DEF EnrolmentInit, IdsAreFresh, EmptyTable
<1>4. BindingIntegrity
    BY DEF EnrolmentInit, BindingIntegrity, EmptyTable, IsInjective, Range
<1>5. EveryHostSpentItsOwnCode
    BY DEF EnrolmentInit, EveryHostSpentItsOwnCode, EmptyTable
<1>6. EnrolmentTypeOK
    <2>1. <<>> \in Seq(AgentCall)
        OBVIOUS
    <2> QED
        BY <1>1, <1>a, <2>1, NothingTyped DEF EnrolmentInit, EnrolmentTypeOK
<1>7. ServerStays
    BY <1>a DEF EnrolmentInit, ServerStays
<1>8. \A m \in Machines : Owned(m) = {}
    BY NothingTyped DEF EnrolmentInit, Owned
<1>9. \A m \in Machines : Phases(m) /\ CodesInUse(m) /\ Linked(m)
    <2> SUFFICES ASSUME NEW m \in Machines PROVE Phases(m) /\ CodesInUse(m) /\ Linked(m)
        OBVIOUS
    <2>1. /\ agent[m].at = "down" /\ who[m] = NoIdentity /\ calls[m] = <<>>
          /\ ghost[m].by = NoIdentity /\ ghost[m].calls = <<>>
        BY NothingTyped DEF EnrolmentInit
    <2>2. Phases(m)
        BY <2>1 DEF Phases, Connecting, Identified
    <2>3. CodesInUse(m)
        BY <2>1 DEF CodesInUse, EnrolsWell, WithToken
    <2>4. Linked(m)
        BY <1>8, <2>1 DEF Linked
    <2> QED
        BY <2>2, <2>3, <2>4
<1>10. CodesOK /\ TokensFitTheirHosts /\ HostsHaveAMachine
    BY DEF EnrolmentInit, CodesOK, TokensFitTheirHosts, HostsHaveAMachine, EmptyTable
<1> QED
    BY <1>2, <1>3, <1>4, <1>5, <1>6, <1>7, <1>8, <1>9, <1>10
       DEF EnrolmentInv, HostsAgree, OneOwnerEach, MachinesOK

LEMMA EnrolmentInvStep == EnrolmentInv /\ [EnrolmentNext]_enrolVars => EnrolmentInv'
<1> SUFFICES ASSUME EnrolmentInv, [EnrolmentNext]_enrolVars PROVE EnrolmentInv'
    OBVIOUS
<1>1. HostsAgree'
    BY StepsAreCalls, HostsAgreeStep DEF EnrolmentInv
<1>2. EnrolmentTypeOK'
    BY MachineTypes
<1>3. Keeps
    BY StepKeeps
<1>4. TokensFitTheirHosts' /\ HostsHaveAMachine' /\ CodesOK'
    BY <1>3, TokensStep, MachinesStep, CodesStep
<1>5. ASSUME NEW m \in Machines, Step(m) PROVE MachinesOK' /\ OneOwnerEach' /\ ServerStays'
    <2>1. Alone(m)
        BY <1>5, StepsAreAlone DEF EnrolmentInv
    <2>2. /\ \A n \in Machines : Linked(n)'
          /\ OneOwnerEach' /\ conn'[Server] > 0 /\ Server \in issued'
        BY <1>5, LinksStep
    <2>3. Phases(m)' /\ CodesInUse(m)'
        BY <1>3, <1>5, PhasesStep, CodesInUseStep
    <2>4. ASSUME NEW n \in Machines, n # m PROVE Phases(n)' /\ CodesInUse(n)'
        <3>1. Same(n) /\ Phases(n) /\ CodesInUse(n)
            BY <2>1, <2>4 DEF Alone, EnrolmentInv, MachinesOK
        <3>2. Phases(n)'
            BY <3>1 DEF Same, Phases, IsKept
        <3>3. \A code : Redeemed(n, code) => Redeemed(n, code)'
            BY <1>3, RedeemedStays
        <3>4. \A s, cs : EnrolsWell(n, s, cs) => EnrolsWell(n, s, cs)'
            BY <3>1, <3>3 DEF EnrolsWell, IsKept, Same
        <3>5. /\ EnrolsWell(n, who[n], calls[n])'
              /\ EnrolsWell(n, ghost[n].by, ghost[n].calls)'
            <4>1. \A s, cs : s = who[n] /\ cs = calls[n] => EnrolsWell(n, s, cs)'
                BY <3>1, <3>4 DEF CodesInUse
            <4>2. \A s, cs : s = ghost[n].by /\ cs = ghost[n].calls => EnrolsWell(n, s, cs)'
                BY <3>1, <3>4 DEF CodesInUse
            <4>3. UNCHANGED <<who[n], calls[n], ghost[n]>>
                BY <3>1 DEF Same
            <4> QED
                BY <4>1, <4>2, <4>3
        <3>6. (agent[n].at \in WithToken /\ ~agent[n].enrolled => Redeemed(n, arg[n]))'
            <4>1. \A code : code = arg[n] /\ Redeemed(n, code)' => Redeemed(n, arg[n])'
                BY <3>1 DEF Same, Redeemed
            <4> QED
                BY <3>1, <3>3, <4>1 DEF Same, CodesInUse
        <3> QED
            BY <3>2, <3>5, <3>6 DEF CodesInUse
    <2>5. operator' = operator
        BY OperatorStays
    <2> QED
        BY <2>2, <2>3, <2>4, <2>5 DEF MachinesOK, ServerStays, EnrolmentInv
<1>6. ASSUME UNCHANGED enrolVars PROVE MachinesOK' /\ OneOwnerEach' /\ ServerStays'
    <2>1. UNCHANGED <<operator, conn, tokens, arg, identity_file, agent, who, calls, ghost, issued, unlucky>>
        BY <1>6 DEF enrolVars, vars, machineVars
    <2>2. ServerStays' /\ OneOwnerEach'
        BY <2>1 DEF EnrolmentInv, ServerStays, OneOwnerEach, Owned
    <2>3. ASSUME NEW m \in Machines PROVE Phases(m)' /\ CodesInUse(m)' /\ Linked(m)'
        <3>1. Phases(m) /\ CodesInUse(m) /\ Linked(m)
            BY DEF EnrolmentInv, MachinesOK
        <3>2. Phases(m)'
            BY <2>1, <3>1 DEF Phases, IsKept
        <3>3. Linked(m)'
            BY <2>1, <3>1 DEF Linked, Owned
        <3>4. CodesInUse(m)'
            BY <2>1, <3>1 DEF CodesInUse, EnrolsWell, Redeemed, IsKept
        <3> QED
            BY <3>2, <3>3, <3>4
    <2> QED
        BY <2>2, <2>3 DEF MachinesOK
<1> QED
    BY <1>1, <1>2, <1>4, <1>5, <1>6 DEF EnrolmentNext, Step, EnrolmentInv

LEMMA EnrolmentAlways == EnrolmentSpec => []EnrolmentInv
<1>1. EnrolmentInit => EnrolmentInv
    BY EnrolmentInvInit
<1>2. EnrolmentInv /\ [EnrolmentNext]_enrolVars => EnrolmentInv'
    BY EnrolmentInvStep
<1> QED
    BY <1>1, <1>2, PTL DEF EnrolmentSpec

-----------------------------------------------------------------------------
(* Theorems *)

\* What machines, their predecessors' connections and the operator who hands out codes
\* do is, for the control plane, what clients may do: main of agent/main.rs never calls
\* before on_connect, and a connection ends once.
THEOREM MachinesAreClients == EnrolmentSpec => [][Next]_vars
<1>1. EnrolmentInv /\ [EnrolmentNext]_enrolVars => [Next]_vars
    BY StepsAreCalls
<1> QED
    BY <1>1, EnrolmentAlways, PTL DEF EnrolmentSpec

\* Tables, files, processes, connections and the server's codes and tokens keep their types.
THEOREM EnrolmentTypeCorrect == EnrolmentSpec => [](TypeOK /\ EnrolmentTypeOK)
<1>1. EnrolmentInv => TypeOK /\ EnrolmentTypeOK
    BY DEF EnrolmentInv, HostsAgree
<1> QED
    BY <1>1, EnrolmentAlways, PTL

\* The two servers that spend a code agree on whose it was: the token the server gave
\* for it names the host the control plane made of it, whatever crashes, is lost or is
\* delivered late, and whoever else was handed the same code.
THEOREM TokensFit == EnrolmentSpec => []TokensFitTheirHosts
<1>1. EnrolmentInv => TokensFitTheirHosts
    BY DEF EnrolmentInv
<1> QED
    BY <1>1, EnrolmentAlways, PTL

\* A host's identity is on the disk of the machine it is named after, unless that
\* machine lost a write or its enrolment: the identity is written before the enrolment
\* is sent, and never exchanged for another afterwards.
THEOREM NoHostIsOrphaned == EnrolmentSpec => []HostsHaveAMachine
<1>1. EnrolmentInv => HostsHaveAMachine
    BY DEF EnrolmentInv
<1> QED
    BY <1>1, EnrolmentAlways, PTL
=============================================================================
