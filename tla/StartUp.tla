------------------------------- MODULE StartUp -------------------------------
(***************************************************************************)
(* DigiHost Server from its start to the first page served (main of        *)
(* crates/server/src/main.rs, ensure_module_published, supervise.rs), with *)
(* the SpacetimeDB process it may own and the updater (deploy/update.sh)   *)
(* that replaces the files it is made of.  Every step can be the last one  *)
(* of the process; what it leaves on disk and in the database is what the  *)
(* next start finds.                                                       *)
(***************************************************************************)
EXTENDS Naturals, FiniteSets

CONSTANTS
    MaxVersion,      \* bound: releases of DigiHost, numbered from 1
    Identities, NoIdentity,
    MaxFaults        \* bound: crashes, failed writes, slow answers, cut updates

ASSUME StartUpAssumption ==
    /\ MaxVersion \in Nat \ {0} /\ MaxFaults \in Nat
    /\ NoIdentity \notin Identities

VARIABLES
    managed,         \* --manage-spacetime
    at,              \* where main is
    who,             \* the identity of the server's connection
    exists,          \* what ensure_module_published found
    marker,          \* module.sha256: the version it names, 0 when missing
    server_token,    \* the file of that name
    binary, wasm,    \* the versions installed
    spacetime,       \* the database process: "none", or whose it is
    ready,           \* it answers
    published,       \* the version of the published module, 0 before the first
    operator,        \* the control plane's operator table
    issued,          \* identities the database has given out
    updater,         \* where update.sh is
    tag,             \* the release it downloaded
    latest,          \* the newest release on GitHub
    faults,
    forgotten        \* history: the server's identity was lost

mainVars  == <<at, who, exists>>
files    == <<marker, server_token>>
installed == <<binary, wasm>>
database == <<spacetime, ready, published, operator, issued>>
update   == <<updater, tag, latest>>
startVars == <<managed, mainVars, files, installed, database, update, faults, forgotten>>

-----------------------------------------------------------------------------
Version == 1 .. MaxVersion
Stage == {"down", "waiting", "checking", "publishing", "marking", "connecting",
          "persisting", "claiming", "serving"}

StartUpTypeOK ==
    /\ managed \in BOOLEAN /\ at \in Stage /\ exists \in BOOLEAN
    /\ who \in issued \cup {NoIdentity}
    /\ marker \in Version \cup {0} /\ published \in Version \cup {0}
    /\ server_token \in issued \cup {NoIdentity}
    /\ {binary, wasm, tag, latest} \subseteq Version
    /\ spacetime \in {"none", "child", "other"} /\ ready \in BOOLEAN
    /\ operator \subseteq issued /\ issued \subseteq Identities
    /\ updater \in {"idle", "stopping", "binaries", "wasm", "starting"}
    /\ faults \in 0 .. MaxFaults /\ forgotten \in BOOLEAN

\* the first version is installed and has never run
StartUpInit ==
    /\ managed \in BOOLEAN
    /\ at = "down" /\ who = NoIdentity /\ exists = FALSE
    /\ marker = 0 /\ server_token = NoIdentity
    /\ binary = 1 /\ wasm = 1 /\ tag = 1 /\ latest = 1
    /\ spacetime = IF managed THEN "none" ELSE "other"
    /\ ready = ~managed
    /\ published = 0 /\ operator = {} /\ issued = {}
    /\ updater = "idle" /\ faults = 0 /\ forgotten = FALSE

Fault == faults < MaxFaults /\ faults' = faults + 1

-----------------------------------------------------------------------------
(* supervise.rs *)

\* a server that is not being updated is started by its service
MayRun == updater \in {"idle", "starting"}

\* "something is already serving": a database the server did not start is refused
Start ==
    /\ at = "down" /\ MayRun
    /\ IF ~managed
       THEN at' = "checking" /\ UNCHANGED <<spacetime, ready>>
       ELSE /\ spacetime = "none"
            /\ spacetime' = "child" /\ ready' = FALSE
            /\ at' = "waiting"
    /\ UNCHANGED <<managed, who, exists, files, installed, published, operator, issued, update,
                   faults, forgotten>>

ComesUp ==
    /\ spacetime = "child" /\ ~ready
    /\ ready' = TRUE
    /\ UNCHANGED <<managed, mainVars, files, installed, spacetime, published, operator, issued,
                   update, faults, forgotten>>

Reachable ==
    /\ at = "waiting" /\ ready
    /\ at' = "checking"
    /\ UNCHANGED <<managed, who, exists, files, installed, database, update, faults, forgotten>>

FaultyStopped == UNCHANGED <<spacetime, ready>>

\* kill_on_drop, stop, or the service manager, which also ends what a killed
\* process left; the database keeps its data
Stopped ==
    /\ spacetime' = IF spacetime = "child" THEN "none" ELSE spacetime
    /\ ready' = (spacetime = "other" /\ ready)

Ended == at' = "down" /\ who' = NoIdentity /\ exists' = FALSE

\* bail: thirty seconds without an answer, a publish that failed, no connection
Bail ==
    /\ Fault
    /\ at \in {"waiting", "publishing", "connecting"}
    /\ Ended /\ Stopped
    /\ UNCHANGED <<managed, files, installed, published, operator, issued, update, forgotten>>

-----------------------------------------------------------------------------
(* ensure_module_published *)

\* the database is asked, for five seconds at most, whether it has the module
Check ==
    /\ at = "checking"
    /\ \/ exists' = (ready /\ published # 0) /\ UNCHANGED faults
       \/ exists' = FALSE /\ published # 0 /\ Fault
    /\ at' = "publishing"
    /\ UNCHANGED <<managed, who, files, installed, database, update, forgotten>>

FaultyUpToDate == exists /\ marker # 0

UpToDate == exists /\ marker = wasm

\* `spacetime publish`; the marker follows in a step of its own
Publishes(v) == published' = v /\ UNCHANGED marker /\ at' = "marking"

Publish ==
    /\ at = "publishing" /\ ready
    /\ IF UpToDate
       THEN at' = "connecting" /\ UNCHANGED <<marker, published>>
       ELSE Publishes(wasm)
    /\ UNCHANGED <<managed, who, exists, server_token, installed, spacetime, ready, operator,
                   issued, update, faults, forgotten>>

\* recording the published module hash
Mark ==
    /\ at = "marking"
    /\ marker' = wasm
    /\ at' = "connecting"
    /\ UNCHANGED <<managed, who, exists, server_token, installed, database, update, faults,
                   forgotten>>

-----------------------------------------------------------------------------
(* the connection, its identity, and the claim *)

FaultyToken == NoIdentity

\* load_server_token
LoadServerToken == server_token

Connect ==
    /\ at = "connecting" /\ ready /\ published # 0
    /\ LoadServerToken # NoIdentity \/ issued # Identities
    /\ who' = IF LoadServerToken # NoIdentity THEN LoadServerToken
              ELSE CHOOSE i \in Identities : i \notin issued
    /\ issued' = issued \cup {who'}
    /\ at' = "persisting"
    /\ UNCHANGED <<managed, exists, files, installed, spacetime, ready, published, operator,
                   update, faults, forgotten>>

\* on_connect rewrites server-token every time, then sets the flag
Persist ==
    /\ at = "persisting"
    /\ server_token' = who
    /\ at' = "claiming"
    /\ UNCHANGED <<managed, who, exists, marker, installed, database, update, faults, forgotten>>

\* "could not persist server token" is a warning
PersistFails ==
    /\ Fault
    /\ at = "persisting"
    /\ server_token' = NoIdentity /\ forgotten' = TRUE
    /\ at' = "claiming"
    /\ UNCHANGED <<managed, who, exists, marker, installed, database, update>>

\* claim_instance: the first caller, once; a refusal is logged where it happens
Claim ==
    /\ at = "claiming"
    /\ operator' = IF operator = {} THEN {who} ELSE operator
    /\ at' = "serving"
    /\ UNCHANGED <<managed, who, exists, files, installed, spacetime, ready, published, issued,
                   update, faults, forgotten>>

\* The process ends at any step.  A write it was in leaves an empty file behind.
Killed ==
    /\ Fault
    /\ at # "down"
    /\ Ended
    /\ Stopped
    /\ \/ UNCHANGED <<files, forgotten>>
       \/ at = "marking" /\ marker' = 0 /\ UNCHANGED <<server_token, forgotten>>
       \/ /\ at = "persisting"
          /\ server_token' = NoIdentity /\ forgotten' = TRUE
          /\ UNCHANGED marker
    /\ UNCHANGED <<managed, installed, published, operator, issued, update>>

-----------------------------------------------------------------------------
(* deploy/update.sh *)

Release ==
    /\ latest < MaxVersion
    /\ latest' = latest + 1
    /\ UNCHANGED <<managed, mainVars, files, installed, database, updater, tag, faults, forgotten>>

\* "already on": the version is the server binary's
UpdateNeeded == binary # latest

UpdateBegins ==
    /\ updater = "idle" /\ UpdateNeeded
    /\ updater' = "stopping" /\ tag' = latest
    /\ UNCHANGED <<managed, mainVars, files, installed, database, latest, faults, forgotten>>

\* systemctl stop digihost: the server is told to shut down, and its group with it
StopServer ==
    /\ updater = "stopping"
    /\ updater' = "binaries"
    /\ Ended /\ Stopped
    /\ UNCHANGED <<managed, files, installed, published, operator, issued, tag, latest, faults,
                   forgotten>>

InstallBinaries ==
    /\ updater = "binaries"
    /\ binary' = tag
    /\ updater' = "wasm"
    /\ UNCHANGED <<managed, mainVars, files, wasm, database, tag, latest, faults, forgotten>>

InstallWasm ==
    /\ updater = "wasm"
    /\ wasm' = tag
    /\ updater' = "starting"
    /\ UNCHANGED <<managed, mainVars, files, binary, database, tag, latest, faults, forgotten>>

StartServer ==
    /\ updater = "starting"
    /\ updater' = "idle"
    /\ UNCHANGED <<managed, mainVars, files, installed, database, tag, latest, faults, forgotten>>

\* set -e, a closed terminal or a reboot; the service is started again at boot
UpdateCut ==
    /\ Fault
    /\ updater # "idle"
    /\ updater' = "idle"
    /\ UNCHANGED <<managed, mainVars, files, installed, database, tag, latest, forgotten>>

-----------------------------------------------------------------------------
Main ==
    \/ Start \/ Reachable \/ Check \/ Publish \/ Mark \/ Connect \/ Persist \/ Claim

Updater ==
    \/ UpdateBegins \/ StopServer \/ InstallBinaries \/ InstallWasm \/ StartServer

StartUpNext ==
    \/ Main \/ ComesUp \/ Bail \/ PersistFails \/ Killed
    \/ Release \/ Updater \/ UpdateCut

\* The service manager starts the server again, the database comes up, the steps of
\* main and of a started updater go on.
StartUpSpec ==
    StartUpInit /\ [][StartUpNext]_startVars
        /\ WF_startVars(Main) /\ WF_startVars(ComesUp) /\ WF_startVars(Updater)

-----------------------------------------------------------------------------
(* Properties *)

\* "republish it when the shipped wasm changes": the server serves only over the module
\* that is installed beside it, whatever crash, slow answer, lost marker or half-done
\* update came before.  What is recorded as published is never ahead of what is.
ServesInstalledModule == at = "serving" => published = wasm

\* "Persisted so the server keeps the same identity across restarts": a server that
\* serves is the operator, unless the file with its identity was lost.
ServesAsOperator == at = "serving" => who \in operator \/ forgotten

\* "kills it on the way out so a restart never races a stale instance": the server comes
\* back after every crash, every failed start and every update.
ServerComesBack == []<>(at = "serving")
=============================================================================
