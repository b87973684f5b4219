-------------------------------- MODULE Store --------------------------------
(***************************************************************************)
(* The server's own state (crates/server/src/store.rs): one JSON document  *)
(* kept in memory behind a lock and written whole to disk after every      *)
(* change.  A request changes the memory and takes its snapshot under the  *)
(* lock, lets the lock go, and flushes: create or truncate digihost.json.  *)
(* tmp, write it, rename it over digihost.json, reply.  Requests run side  *)
(* by side, and they all use the same temporary name.  A client that goes  *)
(* away takes its request with it, but not the file operation that is      *)
(* under way: that one runs on a thread of its own and goes on.            *)
(***************************************************************************)
EXTENDS Tables, Integers, FiniteSets

CONSTANTS
    Requests,       \* requests a server may be busy with, file operations left behind included
    Boot,           \* the flush of Store::open
    Names, Admin,   \* user names, and the one a migrated password belongs to
    Codes,          \* enrolment codes, each minted once
    ApiTokens,      \* names of API tokens
    Apps, Keys,     \* applications and names of their variables
    Fails,          \* writing may fail
    MaxCrashes,     \* bound: crashes of the server
    MaxVersions     \* bound: changes made to the document

ASSUME StoreAssumption ==
    /\ IsFiniteSet(Requests) /\ Boot \notin Requests
    /\ Admin \in Names /\ "done" \notin Codes
    /\ Fails \in BOOLEAN /\ MaxCrashes \in Nat /\ MaxVersions \in Nat

VARIABLES
    process,        \* "down", "opening" (Store::open flushes) or "serving"
    memory,         \* Persisted, as the process holds it
    request,        \* what each request is at: the snapshot it flushes, the change it made
    path, tmp,      \* the files behind digihost.json and digihost.json.tmp
    content,        \* what is in each file
    crashes,
    \* history
    minted,         \* codes handed out
    delivered,      \* how many agent tokens were delivered for each code
    acked,          \* the latest version whose change was reported done
    disturbed,      \* flushes under way that have met another one
    record          \* "sound", "mixed": the last flush to land was disturbed, or
                    \* "relapsed": a restart has read what such a flush had left

disk  == <<path, tmp, content>>
told  == <<minted, delivered, acked>>
past  == <<told, disturbed, record>>
storeVars == <<process, memory, request, disk, crashes, past>>

-----------------------------------------------------------------------------
NoFile == 0
File   == 1 .. Cardinality(Requests) + 3

\* Persisted; "version" counts the changes and is not stored
Blank == [users |-> EmptyTable, operator_hash |-> FALSE, github |-> FALSE,
          agent_tokens |-> {}, pending_enrollments |-> {}, app_env |-> {},
          api_tokens |-> {}, version |-> 0]

Accounts == UNION {[S -> BOOLEAN] : S \in SUBSET Names}   \* name |-> admin

Persisted == [users : Accounts, operator_hash : BOOLEAN, github : BOOLEAN,
              agent_tokens : SUBSET Codes, pending_enrollments : SUBSET Codes,
              app_env : SUBSET (Apps \X Keys), api_tokens : SUBSET ApiTokens,
              version : Nat]

Whole(d) == [is |-> "whole", data |-> d]
Empty    == [is |-> "empty", data |-> Blank]
Torn     == [is |-> "torn",  data |-> Blank]
Idle     == [at |-> "idle", data |-> Blank, change |-> 0, reply |-> "done", file |-> NoFile,
             gone |-> FALSE]

StoreTypeOK ==
    /\ process \in {"down", "opening", "serving"}
    /\ memory \in Persisted
    /\ request \in [Requests \cup {Boot} ->
                       [at : {"idle", "claiming", "open", "write", "rename"}, data : Persisted,
                        change : Nat, reply : {"done"} \cup Codes, file : File \cup {NoFile},
                        gone : BOOLEAN]]
    /\ {path, tmp} \subseteq File \cup {NoFile}
    /\ path = tmp => path = NoFile
    /\ content \in [File -> [is : {"whole", "empty", "torn"}, data : Persisted]]
    /\ minted \subseteq Codes /\ delivered \in [Codes -> Nat] /\ acked \in Nat
    /\ disturbed \subseteq Requests \cup {Boot} /\ record \in {"sound", "mixed", "relapsed"}

\* what a data directory may already hold: a document written before named accounts
\* existed, or one of a claimed instance
Found == {[Blank EXCEPT !.operator_hash = TRUE], [Blank EXCEPT !.users = Put(@, Admin, TRUE)]}

StoreInit ==
    /\ process = "down"
    /\ memory = Blank
    /\ request = [r \in Requests \cup {Boot} |-> Idle]
    /\ path \in {NoFile, 1}
    /\ tmp = NoFile
    /\ \E d \in Found : content = [f \in File |-> IF f = path THEN Whole(d) ELSE Empty]
    /\ crashes = 0
    /\ minted = {} /\ delivered = [c \in Codes |-> 0] /\ acked = 0
    /\ disturbed = {} /\ record = "sound"

-----------------------------------------------------------------------------
(* Opening *)

IsReadable == \A f \in {path} \ {NoFile} : content[f].is = "whole"
Stored     == IF path = NoFile THEN Blank ELSE content[path].data

NeedsMigration(d) == d.users = EmptyTable /\ d.operator_hash

FaultyMigrated(d) == [d EXCEPT !.operator_hash = FALSE, !.version = @ + 1]

\* the one shared password becomes an administrator's
Migrated(d) == [d EXCEPT !.operator_hash = FALSE,
                         !.users = Put(@, Admin, TRUE),
                         !.version = @ + 1]

\* an unreadable file stops the process here
Open ==
    /\ process = "down"
    /\ IsReadable
    /\ IF NeedsMigration(Stored)
       THEN /\ memory' = Migrated(Stored)
            /\ process' = "opening"
            /\ request' = [request EXCEPT ![Boot] =
                               [Idle EXCEPT !.at = "open", !.data = memory', !.change = memory'.version]]
       ELSE /\ memory' = Stored
            /\ process' = "serving"
            /\ UNCHANGED request
    /\ record' = IF record = "mixed" THEN "relapsed" ELSE record
    /\ UNCHANGED <<disk, crashes, told, disturbed>>

-----------------------------------------------------------------------------
(* Flushing *)

IsFlushing(r) == request[r].at \in {"open", "write", "rename"}

FaultyOpenedFile == IF path # NoFile THEN path ELSE 1

\* create-or-truncate: the file already under that name, or a new one
OpenedFile ==
    IF tmp # NoFile THEN tmp
    ELSE CHOOSE f \in File : /\ f # path
                             /\ \A r \in DOMAIN request :
                                    request[r].at = "write" => request[r].file # f

OpenTmp(r) ==
    /\ request[r].at = "open"
    /\ tmp' = OpenedFile
    /\ content' = [content EXCEPT ![OpenedFile] = Empty]
    /\ request' = [request EXCEPT ![r].at = "write", ![r].file = OpenedFile]
    /\ UNCHANGED <<process, memory, path, crashes, past>>

Done(r) ==
    /\ request' = [request EXCEPT ![r] = Idle]
    /\ disturbed' = disturbed \ {r}

\* over another request's longer document the tail of that one remains; the rename is
\* the next step of a request, and nobody's when that is gone
WriteTmp(r) ==
    /\ request[r].at = "write"
    /\ LET f == request[r].file  new == Whole(request[r].data) IN
       \E result \in {new} \cup (IF content[f] \in {Empty, new} THEN {} ELSE {Torn}) :
           content' = [content EXCEPT ![f] = result]
    /\ IF request[r].gone
       THEN Done(r)
       ELSE request' = [request EXCEPT ![r].at = "rename", ![r].file = NoFile] /\ UNCHANGED disturbed
    /\ UNCHANGED <<process, memory, path, tmp, crashes, told, record>>

\* the change stays in memory, the caller is told of an error; an error while
\* opening ends the process
Abandoned(r) ==
    /\ Done(r)
    /\ IF r = Boot THEN process' = "down" /\ memory' = Blank ELSE UNCHANGED <<process, memory>>
    /\ UNCHANGED <<crashes, told, record>>

Answered(r) ==
    /\ acked' = IF request[r].change > acked THEN request[r].change ELSE acked
    /\ delivered' = [c \in Codes |-> delivered[c] + (IF request[r].reply = c THEN 1 ELSE 0)]

Landed(r) == IF record = "relapsed" THEN "relapsed"
             ELSE IF r \in disturbed THEN "mixed" ELSE "sound"

\* rename takes whatever is under the temporary name, or finds nothing there
ReplaceFile(r) ==
    /\ request[r].at = "rename"
    /\ IF tmp = NoFile
       THEN Abandoned(r) /\ UNCHANGED disk
       ELSE /\ path' = tmp /\ tmp' = NoFile
            /\ content' = IF path = NoFile THEN content ELSE [content EXCEPT ![path] = Empty]
            /\ Done(r)
            /\ process' = "serving"
            /\ IF request[r].gone THEN UNCHANGED <<acked, delivered>> ELSE Answered(r)
            /\ record' = Landed(r)
            /\ UNCHANGED <<memory, crashes, minted>>

FailToWrite(r) ==
    /\ Fails
    /\ IsFlushing(r)
    /\ \/ UNCHANGED content
       \/ /\ request[r].at = "write"
          /\ content' = [content EXCEPT ![request[r].file] = Torn]
    /\ Abandoned(r)
    /\ UNCHANGED <<path, tmp>>

\* the client closes its connection: the handler stops at its await, what it awaits goes on
GoAway(r) ==
    /\ \/ request[r].at = "claiming" /\ Done(r)
       \/ /\ IsFlushing(r) /\ ~request[r].gone
          /\ request' = [request EXCEPT ![r].gone = TRUE]
          /\ UNCHANGED disturbed
    /\ UNCHANGED <<process, memory, disk, crashes, told, record>>

Crash ==
    /\ process # "down"
    /\ crashes < MaxCrashes
    /\ crashes' = crashes + 1
    /\ process' = "down"
    /\ memory' = Blank
    /\ request' = [r \in DOMAIN request |-> Idle]
    /\ disturbed' = {}
    /\ UNCHANGED <<disk, told, record>>

-----------------------------------------------------------------------------
(* Changes, each under the lock, with the snapshot that will be flushed *)

FaultySnapshot(old, new) == old
Snapshot(old, new) == new

Change(r, new, reply) ==
    /\ process = "serving"
    /\ memory.version < MaxVersions
    /\ memory' = [new EXCEPT !.version = @ + 1]
    /\ request' = [request EXCEPT ![r] =
                      [Idle EXCEPT !.at = "open", !.data = Snapshot(memory, memory'),
                                   !.change = memory'.version, !.reply = reply]]
    /\ LET met == {q \in DOMAIN request : IsFlushing(q)} IN
       disturbed' = IF met = {} THEN disturbed ELSE disturbed \cup met \cup {r}
    /\ UNCHANGED <<process, disk, crashes, delivered, acked, record>>

\* a signed-in operator's request: the middleware has found the instance claimed
FromOperator(r) == request[r].at = "idle" /\ memory.users # EmptyTable

AddUser(r, name, admin) ==
    /\ FromOperator(r)
    /\ name \notin DOMAIN memory.users
    /\ Change(r, [memory EXCEPT !.users = Put(@, name, admin)], "done")
    /\ UNCHANGED minted

\* first-run setup: is_claimed, then hashing a password, then add_user
CheckUnclaimed(r) ==
    /\ process = "serving"
    /\ request[r].at = "idle"
    /\ memory.users = EmptyTable
    /\ request' = [request EXCEPT ![r].at = "claiming"]
    /\ UNCHANGED <<process, memory, disk, crashes, past>>

Setup(r, name) ==
    /\ request[r].at = "claiming"
    /\ \/ /\ name \notin DOMAIN memory.users
          /\ Change(r, [memory EXCEPT !.users = Put(@, name, TRUE)], "done")
          /\ UNCHANGED minted
       \/ /\ name \in DOMAIN memory.users
          /\ Done(r)
          /\ UNCHANGED <<process, memory, disk, crashes, told, record>>

SetUserPassword(r, name) ==
    /\ FromOperator(r)
    /\ name \in DOMAIN memory.users
    /\ Change(r, memory, "done")
    /\ UNCHANGED minted

FaultyIsLastAdministrator(name) == DOMAIN memory.users = {name}

IsLastAdministrator(name) ==
    memory.users[name] /\ \A n \in DOMAIN memory.users : memory.users[n] => n = name

RemoveUser(r, name) ==
    /\ FromOperator(r)
    /\ name \in DOMAIN memory.users
    /\ ~IsLastAdministrator(name)
    /\ Change(r, [memory EXCEPT !.users = Drop(@, name)], "done")
    /\ UNCHANGED minted

MintApiToken(r, token) ==
    /\ FromOperator(r)
    /\ token \notin memory.api_tokens
    /\ Change(r, [memory EXCEPT !.api_tokens = @ \cup {token}], "done")
    /\ UNCHANGED minted

RevokeApiToken(r, token) ==
    /\ FromOperator(r)
    /\ token \in memory.api_tokens
    /\ Change(r, [memory EXCEPT !.api_tokens = @ \ {token}], "done")
    /\ UNCHANGED minted

SetGithub(r, config) ==
    /\ FromOperator(r)
    /\ Change(r, [memory EXCEPT !.github = config], "done")
    /\ UNCHANGED minted

RememberEnrollment(r, code) ==
    /\ FromOperator(r)
    /\ code \notin minted
    /\ Change(r, [memory EXCEPT !.pending_enrollments = @ \cup {code}], "done")
    /\ minted' = minted \cup {code}

FaultySpent(code) == memory.pending_enrollments
Spent(code) == memory.pending_enrollments \ {code}

\* from an agent, which the operators' middleware does not guard
RedeemEnrollment(r, code) ==
    /\ request[r].at = "idle"
    /\ code \in memory.pending_enrollments
    /\ Change(r, [memory EXCEPT !.pending_enrollments = Spent(code),
                                !.agent_tokens = @ \cup {code}], code)
    /\ UNCHANGED minted

SetEnv(r, app, keys) ==
    /\ FromOperator(r)
    /\ Change(r, [memory EXCEPT !.app_env = @ \cup ({app} \X keys)], "done")
    /\ UNCHANGED minted

ClearEnv(r, app) ==
    /\ FromOperator(r)
    /\ Change(r, [memory EXCEPT !.app_env = {v \in @ : v[1] # app}], "done")
    /\ UNCHANGED minted

RemoveEnv(r, app, key) ==
    /\ FromOperator(r)
    /\ Change(r, [memory EXCEPT !.app_env = @ \ {<<app, key>>}], "done")
    /\ UNCHANGED minted

-----------------------------------------------------------------------------
Account(r) ==
    \E name \in Names :
        \/ \E admin \in BOOLEAN : AddUser(r, name, admin)
        \/ Setup(r, name) \/ SetUserPassword(r, name) \/ RemoveUser(r, name)

Setting(r) ==
    \/ \E token \in ApiTokens : MintApiToken(r, token) \/ RevokeApiToken(r, token)
    \/ \E config \in BOOLEAN : SetGithub(r, config)
    \/ \E code \in Codes : RememberEnrollment(r, code) \/ RedeemEnrollment(r, code)
    \/ \E app \in Apps :
          \/ \E keys \in SUBSET Keys \ {{}} : SetEnv(r, app, keys)
          \/ ClearEnv(r, app)
          \/ \E key \in Keys : RemoveEnv(r, app, key)

Flush(r) == OpenTmp(r) \/ WriteTmp(r) \/ ReplaceFile(r) \/ FailToWrite(r)

StoreNext ==
    \/ Open \/ Crash
    \/ \E r \in Requests : CheckUnclaimed(r) \/ Account(r) \/ Setting(r) \/ GoAway(r)
    \/ \E r \in DOMAIN request : Flush(r)

StoreSpec == StoreInit /\ [][StoreNext]_storeVars

-----------------------------------------------------------------------------
(* Properties.  Flushes that overlap break the first three, which therefore say *)
(* how far their effect reaches: until an undisturbed flush has landed, or for  *)
(* ever once a restart has come before it.                                      *)

\* "A crash mid-write must not leave a truncated file": whenever the process stops, the
\* file it leaves can be read again, if the last flush to land had met no other.
NeverTruncated == record = "sound" => IsReadable

\* Every change reported done is in the file, so a restart keeps it, disturbed flushes
\* before the last one notwithstanding.
AckedIsDurable == record = "sound" => Stored.version >= acked

HasAdministrator(d) == \E n \in DOMAIN d.users : d.users[n]

\* A claimed instance keeps an administrator, however removals overlap and
\* whichever snapshot a restart finds.
LastAdministratorStays == memory.users # EmptyTable => HasAdministrator(memory)

\* "An update never locks anyone out": until an account is on disk the shared
\* password is, whenever the migration was interrupted.
SomeoneCanSignIn == \A f \in {path} \ {NoFile} :
    content[f].is = "whole" => content[f].data.operator_hash \/ HasAdministrator(content[f].data)

\* "Single-use on the HTTP side just as it is in the control plane": a code brings at most
\* one agent token to a machine, however redemptions, flushes and restarts overlap, until
\* a restart has read what a disturbed flush had left.
RedeemedOnce == record # "relapsed" => \A c \in Codes : delivered[c] <= 1

\* What its callers rely on: the store is one document, replaced as a whole by the very
\* copy the server works on when a change is reported done, and lost by no crash.
Document == INSTANCE DurableDocument WITH
    kept <- IF IsReadable THEN Stored ELSE Torn,
    running <- process # "down",
    working <- memory,
    told <- acked,
    trusted <- record = "sound"

ImplementsDocument == Document!Spec
=============================================================================
