------------------------------ MODULE Enrolment ------------------------------
(***************************************************************************)
(* How a machine becomes a host: main of crates/agent/src/main.rs from the *)
(* state file to the heartbeat loop, the server's side of the exchange     *)
(* (enroll of api.rs, redeem_enrollment of store.rs) and the control       *)
(* plane's (enroll_host).  One code is spent twice, on the server for an   *)
(* agent token and on the control plane for a host, and the agent records  *)
(* what it got in two files of its own, neither written atomically.        *)
(*                                                                         *)
(* A process that ends leaves its connection behind: what it had sent may  *)
(* still arrive, and so does the connection's end, even after the next     *)
(* process has connected.  Deployments are module Fleet's; removing hosts  *)
(* and the reaper are ControlPlane's.                                      *)
(***************************************************************************)
EXTENDS ControlPlane, Probe, SequencesExt

CONSTANTS
    Machines,           \* one per state directory
    Server,             \* the identity of DigiHost Server, the operator
    NameOf,             \* the name each machine identifies as (probe::facts)
    Commands,           \* sets of probe commands that may fail together
    include_system,     \* --include-system-services
    NoCode, NoIdentity,
    Unreliable,         \* the machines that may fail
    MaxFaults           \* bound: crashes, lost answers, failed writes, mistaken codes

ASSUME EnrolmentAssumption ==
    /\ NameOf \in [Machines -> HostNames] /\ IsInjective(NameOf)
    /\ Server \in Identities /\ Unreliable \subseteq Machines
    /\ NoCode \notin Codes /\ NoIdentity \notin Identities
    /\ \A failing \in Commands :
          {t.name : t \in Workloads(failing, include_system)} \subseteq WorkloadNames
    /\ MaxConnections > 0 /\ MaxFaults \in Nat

VARIABLES
    pending,            \* store.rs: codes minted and not redeemed
    tokens,             \* store.rs: agent tokens, one per redeemed code, and their host names
    arg,                \* --enrollment-code of each machine's service
    file,               \* agent-state.json
    identity_file,      \* spacetime-token
    agent,              \* each process: where main is, and its AgentState
    who, calls,         \* its connection: the identity and the calls not yet run
    ghost,              \* the connection its predecessor left behind
    issued,             \* identities the control plane has given out
    faults,
    unlucky             \* history: machines that lost an enrolment call or an identity

machineVars == <<arg, file, identity_file, agent, who, calls, ghost, issued, faults, unlucky>>
enrolVars == <<vars, pending, tokens, machineVars>>

-----------------------------------------------------------------------------
NoState == [enrolled |-> FALSE, token |-> NoCode]
NoConnection == [by |-> NoIdentity, calls |-> <<>>]
Down == [at |-> "down", enrolled |-> FALSE, token |-> NoCode]

EnrollCall(code) == [kind |-> "enroll", code |-> code]
HeartbeatCall(report) == [kind |-> "heartbeat", report |-> report]

\* the operator has claimed the instance; no code has been minted
EnrolmentInit ==
    /\ host = EmptyTable /\ agent_binding = EmptyTable
    /\ operator = {Server}
    /\ enrollment_token = EmptyTable
    /\ workload = {} /\ application = EmptyTable
    /\ deployment = EmptyTable /\ deploy_log_line = {}
    /\ next_id = [host |-> 1, app |-> 1, deployment |-> 1]
    /\ conn = [s \in Identities |-> IF s = Server THEN 1 ELSE 0]
    /\ since_sweep = 0
    /\ pending = {} /\ tokens = EmptyTable
    /\ arg = [m \in Machines |-> NoCode]
    /\ file = [m \in Machines |-> NoState]
    /\ identity_file = [m \in Machines |-> NoIdentity]
    /\ agent = [m \in Machines |-> Down]
    /\ who = [m \in Machines |-> NoIdentity]
    /\ calls = [m \in Machines |-> <<>>]
    /\ ghost = [m \in Machines |-> NoConnection]
    /\ issued = {Server}
    /\ faults = 0
    /\ unlucky = {}

-----------------------------------------------------------------------------
(* Codes *)

\* add_server: the server's store and the control plane learn of a code, and the
\* operator passes it on (module OperatorActions has the two steps)
HandCode(m) ==
    LET fresh == Codes \ DOMAIN enrollment_token
        code == CHOOSE c \in fresh : TRUE IN
    /\ fresh # {}
    /\ agent[m].at = "down" /\ ~file[m].enrolled
    /\ arg[m] \notin pending
    /\ CreateEnrollmentToken(Server, code)
    /\ pending' = pending \cup {code}
    /\ arg' = [arg EXCEPT ![m] = code]
    /\ UNCHANGED <<tokens, file, identity_file, agent, who, calls, ghost, issued, faults, unlucky>>

Fault(m) == m \in Unreliable /\ faults < MaxFaults /\ faults' = faults + 1

\* the code of another machine is given to this one as well
MistakeCode(m) ==
    \E n \in Machines \ {m} :
        /\ Fault(m)
        /\ agent[m].at = "down" /\ arg[n] \in Codes \ {arg[m]}
        /\ arg' = [arg EXCEPT ![m] = arg[n]]
        /\ UNCHANGED <<vars, pending, tokens, file, identity_file, agent, who, calls,
                       ghost, issued, unlucky>>

-----------------------------------------------------------------------------
(* main *)

Goto(m, at) == agent' = [agent EXCEPT ![m].at = at]

FaultyLoaded(m) == NoState

\* AgentState::load: a missing or torn file is the default state
Loaded(m) == file[m]

\* without an enrolment on file or a code there is nothing to do but bail
Launch(m) ==
    /\ agent[m].at = "down"
    /\ Loaded(m).enrolled \/ arg[m] # NoCode
    /\ agent' = [agent EXCEPT ![m] =
          [at |-> IF Loaded(m).enrolled THEN "connecting" ELSE "redeeming",
           enrolled |-> Loaded(m).enrolled, token |-> Loaded(m).token]]
    /\ UNCHANGED <<vars, pending, tokens, arg, file, identity_file, who, calls, ghost,
                   issued, faults, unlucky>>

ForgetfulSpent(code) == pending

\* redeem_enrollment, one atomic change (module Store has its steps)
Spent(code) == pending \ {code}

\* exchange_code and its answer: a token for a pending code, else FORBIDDEN
Redeem(m) ==
    /\ agent[m].at = "redeeming"
    /\ IF arg[m] \in pending
       THEN /\ pending' = Spent(arg[m])
            /\ tokens' = Put(tokens, arg[m], NameOf[m])
            /\ agent' = [agent EXCEPT ![m].at = "saving", ![m].token = arg[m]]
       ELSE agent' = [agent EXCEPT ![m] = Down] /\ UNCHANGED <<pending, tokens>>
    /\ UNCHANGED <<vars, arg, file, identity_file, who, calls, ghost, issued, faults, unlucky>>

\* the code is spent and the answer does not arrive within 30 seconds
AnswerLost(m) ==
    /\ Fault(m)
    /\ agent[m].at = "redeeming" /\ arg[m] \in pending
    /\ pending' = Spent(arg[m])
    /\ tokens' = Put(tokens, arg[m], NameOf[m])
    /\ agent' = [agent EXCEPT ![m] = Down]
    /\ UNCHANGED <<vars, arg, file, identity_file, who, calls, ghost, issued, unlucky>>

\* AgentState::save
Saved(m, enrolled) == file' = [file EXCEPT ![m] =
                                  [enrolled |-> enrolled, token |-> agent[m].token]]

SaveCredentials(m) ==
    /\ agent[m].at = "saving"
    /\ Saved(m, FALSE)
    /\ Goto(m, "connecting")
    /\ UNCHANGED <<vars, pending, tokens, arg, identity_file, who, calls, ghost,
                   issued, faults, unlucky>>

FaultySavedIdentity(m) == NoIdentity

SavedIdentity(m) == identity_file[m]

\* with_token: the saved identity, or a new one from the control plane
Connect(m) ==
    LET s == IF SavedIdentity(m) # NoIdentity THEN SavedIdentity(m)
             ELSE CHOOSE i \in Identities : i \notin issued IN
    /\ agent[m].at = "connecting" /\ agent[m].token # NoCode
    /\ SavedIdentity(m) # NoIdentity \/ issued # Identities
    /\ ClientConnected(s)
    /\ who' = [who EXCEPT ![m] = s]
    /\ issued' = issued \cup {s}
    /\ Goto(m, "persisting")
    /\ UNCHANGED <<pending, tokens, arg, file, identity_file, calls, ghost, faults, unlucky>>

\* on_connect: the token is written on every connection, then the flag is set
Persist(m) ==
    /\ agent[m].at = "persisting"
    /\ identity_file' = [identity_file EXCEPT ![m] = who[m]]
    /\ Goto(m, "subscribing")
    /\ UNCHANGED <<vars, pending, tokens, arg, file, who, calls, ghost, issued, faults, unlucky>>

\* "could not persist the agent identity" is a warning
PersistFails(m) ==
    /\ Fault(m)
    /\ agent[m].at = "persisting"
    /\ identity_file' = [identity_file EXCEPT ![m] = NoIdentity]
    /\ Goto(m, "subscribing")
    /\ unlucky' = unlucky \cup {m}
    /\ UNCHANGED <<vars, pending, tokens, arg, file, who, calls, ghost, issued>>

\* enroll_host is sent, or was on file as done
Enrol(m) ==
    /\ agent[m].at = "subscribing"
    /\ IF agent[m].enrolled
       THEN Goto(m, "reporting") /\ UNCHANGED calls
       ELSE /\ calls' = [calls EXCEPT ![m] = Append(@, EnrollCall(arg[m]))]
            /\ Goto(m, "recording")
    /\ UNCHANGED <<vars, pending, tokens, arg, file, identity_file, who, ghost,
                   issued, faults, unlucky>>

Record(m) ==
    /\ agent[m].at = "recording"
    /\ Saved(m, TRUE)
    /\ agent' = [agent EXCEPT ![m].at = "reporting", ![m].enrolled = TRUE]
    /\ UNCHANGED <<vars, pending, tokens, arg, identity_file, who, calls, ghost,
                   issued, faults, unlucky>>

\* one turn of the heartbeat loop; the interval outlasts the previous one
Report(m) ==
    /\ agent[m].at = "reporting"
    /\ \A i \in DOMAIN calls[m] : calls[m][i].kind # "heartbeat"
    /\ \E failing \in Commands :
          calls' = [calls EXCEPT ![m] = Append(@, HeartbeatCall(
                        {t.name : t \in Workloads(failing, include_system)}))]
    /\ UNCHANGED <<vars, pending, tokens, arg, file, identity_file, agent, who, ghost,
                   issued, faults, unlucky>>

-----------------------------------------------------------------------------
(* Crashes, and the control plane's end of the connections *)

LostEnrolment(cs, n) == \E i \in n + 1 .. Len(cs) : cs[i].kind = "enroll"

\* The process ends, by itself (bail) or not.  A write it was in leaves the file
\* as it was or empty; the calls written last may not have left the machine.
Crash(m) ==
    /\ Fault(m)
    /\ agent[m].at # "down"
    /\ ghost[m] = NoConnection
    /\ agent' = [agent EXCEPT ![m] = Down]
    /\ \/ UNCHANGED file
       \/ agent[m].at \in {"saving", "recording"} /\ file' = [file EXCEPT ![m] = NoState]
    /\ \/ UNCHANGED identity_file
       \/ /\ agent[m].at = "persisting"
          /\ identity_file' = [identity_file EXCEPT ![m] = NoIdentity]
    /\ \E n \in 0 .. Len(calls[m]) :
          /\ ghost' = [ghost EXCEPT ![m] = [by |-> who[m], calls |-> SubSeq(calls[m], 1, n)]]
          /\ unlucky' = IF \/ LostEnrolment(calls[m], n) /\ file'[m].enrolled
                           \/ identity_file'[m] # identity_file[m]
                        THEN unlucky \cup {m} ELSE unlucky
    /\ who' = [who EXCEPT ![m] = NoIdentity]
    /\ calls' = [calls EXCEPT ![m] = <<>>]
    /\ UNCHANGED <<vars, pending, tokens, arg, issued>>

CanEnroll(s, code, name) ==
    /\ IsUsableCode(code)
    /\ s \notin DOMAIN agent_binding
    /\ ~IsHostName(name)

\* one call runs as a transaction, or is refused unseen
Runs(m, s, call) ==
    \/ /\ call.kind = "enroll"
       /\ IF CanEnroll(s, call.code, NameOf[m]) THEN EnrollHost(s, call.code, NameOf[m])
          ELSE UNCHANGED vars
    \/ /\ call.kind = "heartbeat"
       /\ IF CallerHost(s) THEN \E load \in Loads : Heartbeat(s, load, call.report)
          ELSE UNCHANGED vars

Deliver(m) ==
    /\ calls[m] # <<>>
    /\ Runs(m, who[m], Head(calls[m]))
    /\ calls' = [calls EXCEPT ![m] = Tail(@)]
    /\ UNCHANGED <<pending, tokens, arg, file, identity_file, agent, who, ghost,
                   issued, faults, unlucky>>

\* the old connection: its calls first, then its end
DeliverLate(m) ==
    /\ ghost[m].calls # <<>>
    /\ Runs(m, ghost[m].by, Head(ghost[m].calls))
    /\ ghost' = [ghost EXCEPT ![m].calls = Tail(@)]
    /\ UNCHANGED <<pending, tokens, arg, file, identity_file, agent, who, calls,
                   issued, faults, unlucky>>

DisconnectLate(m) ==
    /\ ghost[m].calls = <<>> /\ ghost[m].by # NoIdentity
    /\ ClientDisconnected(ghost[m].by)
    /\ ghost' = [ghost EXCEPT ![m] = NoConnection]
    /\ UNCHANGED <<pending, tokens, arg, file, identity_file, agent, who, calls,
                   issued, faults, unlucky>>

-----------------------------------------------------------------------------
Main(m) ==
    \/ Launch(m) \/ Redeem(m) \/ SaveCredentials(m) \/ Connect(m) \/ Persist(m)
    \/ Enrol(m) \/ Record(m) \/ Report(m)

Connections(m) == Deliver(m) \/ DeliverLate(m) \/ DisconnectLate(m)

EnrolmentNext ==
    \E m \in Machines :
        \/ Main(m) \/ Connections(m) \/ HandCode(m) \/ MistakeCode(m)
        \/ AnswerLost(m) \/ PersistFails(m) \/ Crash(m)

\* The service manager starts a process that is down, the server and the control
\* plane answer, connections deliver and end, and an operator who finds a machine
\* down and unenrolled hands it a new code.
EnrolmentFairness ==
    \A m \in Machines :
        /\ WF_enrolVars(Main(m))
        /\ WF_enrolVars(Deliver(m))
        /\ WF_enrolVars(DeliverLate(m) \/ DisconnectLate(m))
        /\ SF_enrolVars(HandCode(m))

EnrolmentSpec == EnrolmentInit /\ [][EnrolmentNext]_enrolVars /\ EnrolmentFairness

-----------------------------------------------------------------------------
(* Properties *)

\* The server's tokens and the control plane's hosts agree: a host came from a code
\* the server had exchanged for a token of that host's name, so the agent's token
\* opens its own host's deployments and no other's.
TokensFitTheirHosts ==
    \A c \in DOMAIN enrollment_token : enrollment_token[c] # NotConsumed =>
        c \in DOMAIN tokens /\ tokens[c] = host[enrollment_token[c]].name

\* "Identity lives beside the rest of the agent's state": a host always has a machine
\* whose disk holds the identity that speaks for it, so that the next process can too,
\* unless a write or a call of that machine was lost.
HostsHaveAMachine ==
    \A s \in DOMAIN agent_binding : \E m \in Machines :
        /\ host[agent_binding[s]].name = NameOf[m]
        /\ s = identity_file[m] \/ m \in unlucky

\* A machine handed codes until one works ends up as an online host and stays one,
\* whatever its restarts and its predecessors' connections do, unless it lost an
\* enrolment call or its identity.
IsHeard(m) == \E s \in DOMAIN agent_binding :
                 s = who[m] /\ host[agent_binding[s]].status = "Online"

MachinesAreHeard == \A m \in Machines : []<>(IsHeard(m) \/ m \in unlucky)
=============================================================================
