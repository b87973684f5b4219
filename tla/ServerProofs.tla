----------------------------- MODULE ServerProofs -----------------------------
(***************************************************************************)
(* Proofs about the server process: about the file it keeps (Store), for   *)
(* any number of requests side by side, and about its start (StartUp), for *)
(* every number of releases, identities and faults.                        *)
(***************************************************************************)
EXTENDS Store, StartUp, FiniteSetTheorems, TLAPS

-----------------------------------------------------------------------------
(* A new file is always found: there are more than anyone can hold on to *)

Held == {path} \cup {request[r].file : r \in DOMAIN request}

LEMMA FileTyped == NoFile \notin File /\ File \subseteq Nat /\ IsFiniteSet(File)
                   /\ Cardinality(File) = Cardinality(Requests) + 3
<1>1. Cardinality(Requests) \in Nat BY StoreAssumption, FS_CardinalityType
<1>2. IsFiniteSet(File) /\ Cardinality(File) = Cardinality(Requests) + 3
  BY <1>1, FS_Interval DEF File
<1> QED BY <1>1, <1>2 DEF File, NoFile

LEMMA AFileIsFree == StoreTypeOK => \E f \in File : f \notin Held
<1> SUFFICES ASSUME StoreTypeOK PROVE \E f \in File : f \notin Held
  OBVIOUS
<1> DEFINE S == Requests \cup {Boot}
           held == [r \in S |-> request[r].file]
           T == {held[r] : r \in S}
<1>1. DOMAIN request = S BY DEF StoreTypeOK
<1>2. IsFiniteSet(S) /\ Cardinality(S) = Cardinality(Requests) + 1 /\ Cardinality(Requests) \in Nat
  BY StoreAssumption, FS_AddElement, FS_CardinalityType
<1>3. held \in Surjection(S, T) BY DEF Surjection
<1>4. IsFiniteSet(T) /\ Cardinality(T) <= Cardinality(Requests) + 1
  BY <1>2, <1>3, FS_Surjection
<1>5. Held = T \cup {path} BY <1>1 DEF Held
<1>6. IsFiniteSet(Held) /\ Cardinality(Held) <= Cardinality(Requests) + 2
  <2>1. Cardinality(T) \in Nat BY <1>4, FS_CardinalityType
  <2>2. IsFiniteSet(T \cup {path})
        /\ Cardinality(T \cup {path}) = IF path \in T THEN Cardinality(T) ELSE Cardinality(T) + 1
    BY <1>4, FS_AddElement
  <2> HIDE DEF T
  <2> QED BY <1>2, <1>4, <1>5, <2>1, <2>2
<1>7. ASSUME File \subseteq Held PROVE FALSE
  <2>1. Cardinality(File) <= Cardinality(Held) BY <1>6, <1>7, FS_Subset
  <2>2. Cardinality(Held) \in Nat BY <1>6, FS_CardinalityType
  <2> QED BY <1>2, <1>6, <2>1, <2>2, FileTyped
<1> QED BY <1>7

LEMMA OpenedFileIsNew == StoreTypeOK => OpenedFile \in File /\ OpenedFile # path
<1> SUFFICES ASSUME StoreTypeOK PROVE OpenedFile \in File /\ OpenedFile # path
  OBVIOUS
<1>1. CASE tmp # NoFile
  BY <1>1, FileTyped DEF StoreTypeOK, OpenedFile
<1>2. CASE tmp = NoFile
  <2>1. PICK f \in File : f \notin Held BY AFileIsFree
  <2>2. f # path /\ \A r \in DOMAIN request : request[r].at = "write" => request[r].file # f
    BY <2>1 DEF Held
  <2> QED BY <1>2, <2>2 DEF OpenedFile
<1> QED BY <1>1, <1>2

-----------------------------------------------------------------------------
(* Type correctness *)

Request == [at : {"idle", "claiming", "open", "write", "rename"}, data : Persisted,
            change : Nat, reply : {"done"} \cup Codes, file : File \cup {NoFile},
            gone : BOOLEAN]

LEMMA AccountsTyped ==
    /\ \A S \in SUBSET Names : \A f \in [S -> BOOLEAN] : f \in Accounts
    /\ \A f \in Accounts : DOMAIN f \subseteq Names /\ f \in [DOMAIN f -> BOOLEAN]
BY DEF Accounts

LEMMA PutAccount ==
    ASSUME NEW t \in Accounts, NEW name \in Names, NEW admin \in BOOLEAN
    PROVE  Put(t, name, admin) \in Accounts
<1>1. DOMAIN t \subseteq Names /\ t \in [DOMAIN t -> BOOLEAN] BY AccountsTyped
<1>2. Put(t, name, admin) \in [DOMAIN t \cup {name} -> BOOLEAN] BY <1>1 DEF Put
<1> QED BY <1>1, <1>2, AccountsTyped

LEMMA DropAccount ==
    ASSUME NEW t \in Accounts, NEW name \in Names
    PROVE  Drop(t, name) \in Accounts
<1>1. DOMAIN t \subseteq Names /\ t \in [DOMAIN t -> BOOLEAN] BY AccountsTyped
<1>2. Drop(t, name) \in [DOMAIN t \ {name} -> BOOLEAN] BY <1>1 DEF Drop, Restrict
<1> QED BY <1>1, <1>2, AccountsTyped

LEMMA BlankTyped == Blank \in Persisted /\ Idle \in Request
<1>1. EmptyTable \in Accounts
  <2>1. EmptyTable \in [{} -> BOOLEAN] BY DEF EmptyTable
  <2> QED BY <2>1, AccountsTyped
<1> QED BY <1>1 DEF Blank, Persisted, Idle, Request

LEMMA MigratedTyped == \A d \in Persisted : Migrated(d) \in Persisted
<1> SUFFICES ASSUME NEW d \in Persisted PROVE Migrated(d) \in Persisted
  OBVIOUS
<1>1. Put(d.users, Admin, TRUE) \in Accounts
  BY StoreAssumption, PutAccount DEF Persisted
<1>2. d.version + 1 \in Nat BY DEF Persisted
<1>3. \A t \in Accounts, n \in Nat :
          [d EXCEPT !.operator_hash = FALSE, !.users = t, !.version = n] \in Persisted
  BY DEF Persisted
<1> QED BY <1>1, <1>2, <1>3 DEF Migrated

\* what every change shares
LEMMA ChangeTyped ==
    ASSUME StoreTypeOK, NEW r \in Requests, NEW new \in Persisted,
           NEW reply \in {"done"} \cup Codes, Change(r, new, reply),
           minted' \subseteq Codes
    PROVE  StoreTypeOK'
<1>1. memory' \in Persisted BY DEF Change, Persisted
<1>2. memory'.version \in Nat BY <1>1 DEF Persisted
<1>3. [Idle EXCEPT !.at = "open", !.data = memory', !.change = memory'.version,
                  !.reply = reply] \in Request
  BY <1>1, <1>2, BlankTyped DEF Idle, Request
<1>4. request' \in [Requests \cup {Boot} -> Request]
  BY <1>3 DEF Change, Snapshot, StoreTypeOK, Request
<1>5. disturbed' \subseteq Requests \cup {Boot} BY DEF Change, StoreTypeOK
<1> QED BY <1>1, <1>4, <1>5 DEF Change, StoreTypeOK, Request, disk

LEMMA FoundTyped == Found \subseteq Persisted
<1>1. Put(Blank.users, Admin, TRUE) \in Accounts
  BY BlankTyped, StoreAssumption, PutAccount DEF Persisted
<1> QED BY <1>1, BlankTyped DEF Found, Persisted

LEMMA StoreTypeInit == StoreInit => StoreTypeOK
<1> SUFFICES ASSUME StoreInit PROVE StoreTypeOK OBVIOUS
<1>1. request \in [Requests \cup {Boot} -> Request] BY BlankTyped DEF StoreInit
<1>2. Found \subseteq Persisted BY FoundTyped
<1>3. content \in [File -> [is : {"whole", "empty", "torn"}, data : Persisted]]
  BY <1>2, BlankTyped DEF StoreInit, Whole, Empty
<1>4. 1 \in File
  <2>1. Cardinality(Requests) \in Nat BY StoreAssumption, FS_CardinalityType
  <2> QED BY <2>1 DEF File
<1>5. {path, tmp} \subseteq File \cup {NoFile} /\ (path = tmp => path = NoFile)
  BY <1>4 DEF StoreInit
<1>6. minted \subseteq Codes /\ delivered \in [Codes -> Nat] /\ acked \in Nat
  BY DEF StoreInit
<1>7. /\ process \in {"down", "opening", "serving"} /\ memory \in Persisted
      /\ disturbed \subseteq Requests \cup {Boot} /\ record \in {"sound", "mixed", "relapsed"}
  BY BlankTyped DEF StoreInit
<1> QED BY <1>1, <1>3, <1>5, <1>6, <1>7 DEF StoreTypeOK, Request

LEMMA FlushTyped ==
    ASSUME StoreTypeOK, NEW r \in DOMAIN request, Flush(r)
    PROVE  StoreTypeOK'
<1> DEFINE Content == [is : {"whole", "empty", "torn"}, data : Persisted]
<1>0. /\ r \in Requests \cup {Boot} /\ request \in [Requests \cup {Boot} -> Request]
      /\ content \in [File -> Content]
  BY DEF StoreTypeOK, Request
<1>1. Empty \in Content /\ Torn \in Content /\ \A d \in Persisted : Whole(d) \in Content
  BY BlankTyped DEF Empty, Torn, Whole
<1>2. request[r] \in Request BY <1>0
<1>3. ASSUME Done(r) PROVE /\ request' \in [Requests \cup {Boot} -> Request]
                           /\ disturbed' \subseteq Requests \cup {Boot}
  BY <1>0, <1>3, BlankTyped DEF Done, StoreTypeOK
<1>4. ASSUME Abandoned(r) PROVE /\ request' \in [Requests \cup {Boot} -> Request]
                                /\ process' \in {"down", "opening", "serving"} /\ memory' \in Persisted
                                /\ disturbed' \subseteq Requests \cup {Boot}
                                /\ UNCHANGED <<crashes, told, record>>
  BY <1>3, <1>4, BlankTyped DEF Abandoned, StoreTypeOK
<1>5. CASE OpenTmp(r)
  <2>1. OpenedFile \in File /\ OpenedFile # path BY OpenedFileIsNew
  <2>2. [request[r] EXCEPT !.at = "write", !.file = OpenedFile] \in Request
    BY <1>2, <2>1 DEF Request
  <2>3. request' \in [Requests \cup {Boot} -> Request] BY <1>0, <1>5, <2>2 DEF OpenTmp
  <2>4. content' \in [File -> Content] BY <1>0, <1>1, <1>5 DEF OpenTmp
  <2>5. UNCHANGED <<process, memory, path, minted, delivered, acked, disturbed, record>>
    BY <1>5 DEF OpenTmp, past, told
  <2>6. tmp' = OpenedFile BY <1>5 DEF OpenTmp
  <2> QED BY <2>1, <2>3, <2>4, <2>5, <2>6 DEF StoreTypeOK, Request
<1>6. CASE WriteTmp(r)
  <2>1. request[r].data \in Persisted BY <1>2 DEF Request
  <2>2. content' \in [File -> Content] BY <1>0, <1>1, <1>6, <2>1 DEF WriteTmp
  <2>3. [request[r] EXCEPT !.at = "rename", !.file = NoFile] \in Request
    BY <1>2 DEF Request
  <2>4. /\ request' \in [Requests \cup {Boot} -> Request]
        /\ disturbed' \subseteq Requests \cup {Boot}
    BY <1>0, <1>3, <1>6, <2>3 DEF WriteTmp, StoreTypeOK
  <2> QED BY <1>6, <2>2, <2>4 DEF WriteTmp, StoreTypeOK, Request, told
<1>7. CASE ReplaceFile(r)
  <2>1. CASE tmp = NoFile
    BY <1>4, <1>7, <2>1 DEF ReplaceFile, StoreTypeOK, Request, disk, told
  <2>2. CASE tmp # NoFile
    <3>1. content' \in [File -> Content] BY <1>0, <1>1, <1>7, <2>2 DEF ReplaceFile
    <3>2. request[r].change \in Nat BY <1>2 DEF Request
    <3>3. acked' \in Nat BY <1>7, <2>2, <3>2 DEF ReplaceFile, Answered, StoreTypeOK
    <3>4. delivered' \in [Codes -> Nat] BY <1>7, <2>2 DEF ReplaceFile, Answered, StoreTypeOK
    <3>5. /\ request' \in [Requests \cup {Boot} -> Request]
          /\ disturbed' \subseteq Requests \cup {Boot}
      BY <1>3, <1>7, <2>2 DEF ReplaceFile
    <3>6. record' \in {"sound", "mixed", "relapsed"} BY <1>7, <2>2 DEF ReplaceFile, Landed
    <3> QED BY <1>7, <2>2, <3>1, <3>3, <3>4, <3>5, <3>6 DEF ReplaceFile, StoreTypeOK, Request
  <2> QED BY <2>1, <2>2
<1>8. CASE FailToWrite(r)
  <2>1. content' \in [File -> Content] BY <1>0, <1>1, <1>8 DEF FailToWrite
  <2> QED BY <1>4, <1>8, <2>1 DEF FailToWrite, StoreTypeOK, Request, told
<1> QED BY <1>5, <1>6, <1>7, <1>8 DEF Flush

LEMMA StoreTypeStep == StoreTypeOK /\ [StoreNext]_storeVars => StoreTypeOK'
<1> SUFFICES ASSUME StoreTypeOK, [StoreNext]_storeVars PROVE StoreTypeOK' OBVIOUS
<1>0. memory \in Persisted /\ memory.users \in Accounts /\ request \in [Requests \cup {Boot} -> Request]
      /\ Stored \in Persisted /\ \A r \in Requests : r \in DOMAIN request
  BY BlankTyped DEF StoreTypeOK, Persisted, Request, Stored
<1>1. CASE Open
  <2>1. memory' \in Persisted BY <1>0, <1>1, MigratedTyped DEF Open
  <2>2. [Idle EXCEPT !.at = "open", !.data = memory', !.change = memory'.version] \in Request
    BY <2>1, BlankTyped DEF Request, Persisted
  <2>3. request' \in [Requests \cup {Boot} -> Request] BY <1>0, <1>1, <2>2 DEF Open
  <2>4. record' \in {"sound", "mixed", "relapsed"} BY <1>1 DEF Open, StoreTypeOK
  <2> QED BY <1>1, <2>1, <2>3, <2>4 DEF Open, StoreTypeOK, Request, disk, told
<1>2. CASE Crash
  BY <1>2, BlankTyped DEF Crash, StoreTypeOK, Request, disk, told
<1>3. ASSUME NEW r \in Requests, CheckUnclaimed(r) PROVE StoreTypeOK'
  <2>1. [request[r] EXCEPT !.at = "claiming"] \in Request BY <1>0 DEF Request
  <2>2. request' \in [Requests \cup {Boot} -> Request] BY <1>0, <1>3, <2>1 DEF CheckUnclaimed
  <2> QED BY <1>3, <2>2 DEF CheckUnclaimed, StoreTypeOK, Request, disk, past, told
<1>4. ASSUME NEW r \in Requests, Account(r) PROVE StoreTypeOK'
  <2>0. PICK name \in Names :
          \/ \E admin \in BOOLEAN : AddUser(r, name, admin)
          \/ Setup(r, name) \/ SetUserPassword(r, name) \/ RemoveUser(r, name)
    BY <1>4 DEF Account
  <2>1. \A admin \in BOOLEAN : Put(memory.users, name, admin) \in Accounts
    BY <1>0, PutAccount
  <2>2. ASSUME NEW admin \in BOOLEAN, AddUser(r, name, admin) PROVE StoreTypeOK'
    <3>1. [memory EXCEPT !.users = Put(@, name, admin)] \in Persisted
      BY <1>0, <2>1 DEF Persisted
    <3> QED BY <2>2, <3>1, ChangeTyped DEF AddUser, StoreTypeOK
  <2>3. CASE Setup(r, name)
    <3>1. [memory EXCEPT !.users = Put(@, name, TRUE)] \in Persisted
      BY <1>0, <2>1 DEF Persisted
    <3>2. ASSUME Change(r, [memory EXCEPT !.users = Put(@, name, TRUE)], "done"),
                 minted' = minted
          PROVE  StoreTypeOK'
      BY <3>1, <3>2, ChangeTyped DEF StoreTypeOK
    <3>3. ASSUME Done(r), UNCHANGED <<process, memory, disk, crashes, told, record>>
          PROVE  StoreTypeOK'
      BY <1>0, <3>3, BlankTyped DEF Done, StoreTypeOK, Request, disk, told
    <3> QED BY <2>3, <3>2, <3>3 DEF Setup
  <2>4. CASE SetUserPassword(r, name)
    BY <1>0, <2>4, ChangeTyped DEF SetUserPassword, StoreTypeOK
  <2>5. CASE RemoveUser(r, name)
    <3>1. Drop(memory.users, name) \in Accounts BY <1>0, DropAccount
    <3>2. [memory EXCEPT !.users = Drop(@, name)] \in Persisted BY <1>0, <3>1 DEF Persisted
    <3> QED BY <2>5, <3>2, ChangeTyped DEF RemoveUser, StoreTypeOK
  <2> QED BY <2>0, <2>2, <2>3, <2>4, <2>5
<1>5. ASSUME NEW r \in Requests, Setting(r) PROVE StoreTypeOK'
  <2>1. ASSUME NEW t \in ApiTokens, MintApiToken(r, t) \/ RevokeApiToken(r, t) PROVE StoreTypeOK'
    <3>1. /\ [memory EXCEPT !.api_tokens = @ \cup {t}] \in Persisted
          /\ [memory EXCEPT !.api_tokens = @ \ {t}] \in Persisted
      BY <1>0 DEF Persisted
    <3> QED BY <2>1, <3>1, ChangeTyped DEF MintApiToken, RevokeApiToken, StoreTypeOK
  <2>2. ASSUME NEW g \in BOOLEAN, SetGithub(r, g) PROVE StoreTypeOK'
    <3>1. [memory EXCEPT !.github = g] \in Persisted BY <1>0 DEF Persisted
    <3> QED BY <2>2, <3>1, ChangeTyped DEF SetGithub, StoreTypeOK
  <2>3. ASSUME NEW c \in Codes, RememberEnrollment(r, c) PROVE StoreTypeOK'
    <3>1. [memory EXCEPT !.pending_enrollments = @ \cup {c}] \in Persisted BY <1>0 DEF Persisted
    <3> QED BY <2>3, <3>1, ChangeTyped DEF RememberEnrollment, StoreTypeOK
  <2>4. ASSUME NEW c \in Codes, RedeemEnrollment(r, c) PROVE StoreTypeOK'
    <3>1. [memory EXCEPT !.pending_enrollments = Spent(c), !.agent_tokens = @ \cup {c}] \in Persisted
      BY <1>0 DEF Persisted, Spent
    <3> QED BY <2>4, <3>1, ChangeTyped DEF RedeemEnrollment, StoreTypeOK
  <2>5. ASSUME NEW app \in Apps, NEW keys \in SUBSET Keys, SetEnv(r, app, keys) PROVE StoreTypeOK'
    <3>1. [memory EXCEPT !.app_env = @ \cup ({app} \X keys)] \in Persisted BY <1>0 DEF Persisted
    <3> QED BY <2>5, <3>1, ChangeTyped DEF SetEnv, StoreTypeOK
  <2>6. ASSUME NEW app \in Apps, ClearEnv(r, app) PROVE StoreTypeOK'
    <3>1. [memory EXCEPT !.app_env = {v \in @ : v[1] # app}] \in Persisted BY <1>0 DEF Persisted
    <3> QED BY <2>6, <3>1, ChangeTyped DEF ClearEnv, StoreTypeOK
  <2>7. ASSUME NEW app \in Apps, NEW key \in Keys, RemoveEnv(r, app, key) PROVE StoreTypeOK'
    <3>1. [memory EXCEPT !.app_env = @ \ {<<app, key>>}] \in Persisted BY <1>0 DEF Persisted
    <3> QED BY <2>7, <3>1, ChangeTyped DEF RemoveEnv, StoreTypeOK
  <2> QED BY <1>5, <2>1, <2>2, <2>3, <2>4, <2>5, <2>6, <2>7 DEF Setting
<1>6. ASSUME NEW r \in DOMAIN request, Flush(r) PROVE StoreTypeOK'
  BY <1>6, FlushTyped
<1>7. ASSUME NEW r \in Requests, GoAway(r) PROVE StoreTypeOK'
  <2>1. Idle \in Request /\ [request[r] EXCEPT !.gone = TRUE] \in Request
    BY <1>0, BlankTyped DEF Request
  <2>2. request' \in [Requests \cup {Boot} -> Request]
    BY <1>0, <1>7, <2>1 DEF GoAway, Done
  <2>3. disturbed' \subseteq Requests \cup {Boot} BY <1>7 DEF GoAway, Done, StoreTypeOK
  <2> QED BY <1>7, <2>2, <2>3 DEF GoAway, StoreTypeOK, Request, disk, told
<1>8. CASE UNCHANGED storeVars
  BY <1>8 DEF storeVars, StoreTypeOK, disk, past, told
<1> QED BY <1>1, <1>2, <1>3, <1>4, <1>5, <1>6, <1>7, <1>8 DEF StoreNext

\* Memory, requests in flight and files always hold documents of the program's
\* shape, and digihost.json and its temporary name never share a file.
THEOREM StoreTypeCorrect == StoreSpec => []StoreTypeOK
<1>1. StoreInit => StoreTypeOK BY StoreTypeInit
<1>2. StoreTypeOK /\ [StoreNext]_storeVars => StoreTypeOK' BY StoreTypeStep
<1> QED BY <1>1, <1>2, PTL DEF StoreSpec

-----------------------------------------------------------------------------
(* Someone can always administer the instance *)

IsFresh(d)  == d.users = EmptyTable /\ d.pending_enrollments = {}
IsLegacy(d) == IsFresh(d) /\ d.operator_hash

\* Nothing but an administrated document is ever on its way to the disk: codes
\* are minted, and anything else is changed, only once there is an account.
AdministeredInv ==
    /\ IsFresh(memory) \/ HasAdministrator(memory)
    /\ \A r \in DOMAIN request : IsFlushing(r) => HasAdministrator(request[r].data)
    /\ \A f \in File : content[f].is = "whole" =>
           IsLegacy(content[f].data) \/ HasAdministrator(content[f].data)

LEMMA PutAdministrator ==
    ASSUME NEW t \in Accounts, NEW name
    PROVE  \E n \in DOMAIN Put(t, name, TRUE) : Put(t, name, TRUE)[n]
BY DEF Put

LEMMA AdministeredInit == StoreInit => AdministeredInv
<1> SUFFICES ASSUME StoreInit PROVE AdministeredInv OBVIOUS
<1>1. IsFresh(memory) /\ \A r \in DOMAIN request : ~IsFlushing(r)
  BY DEF StoreInit, IsFresh, Blank, IsFlushing, Idle
<1>2. ASSUME NEW d \in Found PROVE IsLegacy(d) \/ HasAdministrator(d)
  <2>1. Blank.users \in Accounts BY BlankTyped DEF Persisted
  <2>2. CASE d = [Blank EXCEPT !.operator_hash = TRUE]
    BY <2>2 DEF IsLegacy, IsFresh, Blank
  <2>3. CASE d = [Blank EXCEPT !.users = Put(@, Admin, TRUE)]
    <3>1. d.users = Put(Blank.users, Admin, TRUE) BY <2>3 DEF Blank
    <3> QED BY <2>1, <3>1, PutAdministrator DEF HasAdministrator
  <2> QED BY <2>2, <2>3 DEF Found
<1>3. PICK d \in Found : content = [f \in File |-> IF f = path THEN Whole(d) ELSE Empty]
  BY DEF StoreInit
<1>4. \A f \in File : content[f].is = "whole" => content[f].data = d
  BY <1>3 DEF Whole, Empty
<1> QED BY <1>1, <1>2, <1>4 DEF AdministeredInv

LEMMA AdministeredChange ==
    ASSUME StoreTypeOK, AdministeredInv, NEW r \in Requests, NEW new \in Persisted, NEW reply,
           Change(r, new, reply), HasAdministrator(new)
    PROVE  AdministeredInv'
<1>1. memory'.users = new.users BY DEF Change, Persisted
<1>2. HasAdministrator(memory') BY <1>1 DEF HasAdministrator
<1>3. \A q \in DOMAIN request' : q # r => request'[q] = request[q]
  BY DEF Change
<1>4. request'[r].data = memory' BY DEF Change, Snapshot, Idle, StoreTypeOK
<1>5. DOMAIN request' = DOMAIN request BY DEF Change, StoreTypeOK
<1>6. UNCHANGED content BY DEF Change, disk
<1> QED BY <1>2, <1>3, <1>4, <1>5, <1>6 DEF AdministeredInv, IsFlushing, HasAdministrator

LEMMA AdministeredFlush ==
    ASSUME StoreTypeOK, AdministeredInv, NEW r \in DOMAIN request, Flush(r)
    PROVE  AdministeredInv'
<1> USE DEF AdministeredInv, IsFlushing, HasAdministrator, IsLegacy
<1>0. request \in [Requests \cup {Boot} -> Request] /\ DOMAIN request = Requests \cup {Boot}
  BY DEF StoreTypeOK, Request
<1>1. IsFresh(Blank) BY DEF IsFresh, Blank
<1>2. ASSUME Done(r) PROVE \A q \in DOMAIN request' : IsFlushing(q)' =>
                              q \in DOMAIN request /\ IsFlushing(q) /\ request'[q] = request[q]
  BY <1>0, <1>2 DEF Done, Idle
<1>3. ASSUME Abandoned(r), \A f \in File : content'[f].is = "whole" => content'[f] = content[f]
      PROVE  AdministeredInv'
  BY <1>1, <1>2, <1>3 DEF Abandoned, IsFresh
<1>4. CASE OpenTmp(r)
  <2>1. OpenedFile \in File BY OpenedFileIsNew
  <2>2. \A f \in File : content'[f].is = "whole" => content'[f] = content[f]
    BY <1>4, <2>1 DEF OpenTmp, Empty, StoreTypeOK
  <2>3. \A q \in DOMAIN request' : IsFlushing(q)' =>
          q \in DOMAIN request /\ IsFlushing(q) /\ request'[q].data = request[q].data
    BY <1>0, <1>4 DEF OpenTmp, Request
  <2>4. UNCHANGED memory BY <1>4 DEF OpenTmp
  <2> QED BY <2>2, <2>3, <2>4 DEF IsFresh
<1>5. CASE WriteTmp(r)
  <2>1. \A f \in File : content'[f].is = "whole" =>
            content'[f] = content[f] \/ content'[f] = Whole(request[r].data)
    BY <1>5 DEF WriteTmp, Torn, StoreTypeOK
  <2>2. HasAdministrator(request[r].data) BY <1>5 DEF WriteTmp
  <2>3. \A q \in DOMAIN request' : IsFlushing(q)' =>
          q \in DOMAIN request /\ IsFlushing(q) /\ request'[q].data = request[q].data
    <3>1. CASE request[r].gone BY <1>2, <1>5, <3>1 DEF WriteTmp
    <3>2. CASE ~request[r].gone BY <1>0, <1>5, <3>2 DEF WriteTmp, Request
    <3> QED BY <3>1, <3>2
  <2>4. UNCHANGED memory BY <1>5 DEF WriteTmp
  <2> QED BY <2>1, <2>2, <2>3, <2>4 DEF Whole, IsFresh
<1>6. CASE ReplaceFile(r)
  <2>1. CASE tmp = NoFile
    BY <1>3, <1>6, <2>1 DEF ReplaceFile, disk
  <2>2. CASE tmp # NoFile
    <3>1. \A f \in File : content'[f].is = "whole" => content'[f] = content[f]
      BY <1>6, <2>2 DEF ReplaceFile, Empty, StoreTypeOK
    <3>2. Done(r) /\ UNCHANGED memory BY <1>6, <2>2 DEF ReplaceFile
    <3> QED BY <1>2, <3>1, <3>2 DEF IsFresh
  <2> QED BY <2>1, <2>2
<1>7. CASE FailToWrite(r)
  <2>1. \A f \in File : content'[f].is = "whole" => content'[f] = content[f]
    BY <1>7 DEF FailToWrite, Torn, StoreTypeOK
  <2> QED BY <1>3, <1>7, <2>1 DEF FailToWrite
<1> QED BY <1>4, <1>5, <1>6, <1>7 DEF Flush

LEMMA AdministeredStep ==
    StoreTypeOK /\ AdministeredInv /\ [StoreNext]_storeVars => AdministeredInv'
<1> SUFFICES ASSUME StoreTypeOK, AdministeredInv, [StoreNext]_storeVars PROVE AdministeredInv'
  OBVIOUS
<1>0. memory \in Persisted /\ memory.users \in Accounts /\ Stored \in Persisted
      /\ request \in [Requests \cup {Boot} -> Request] /\ IsFresh(Blank)
  BY BlankTyped DEF StoreTypeOK, Persisted, Request, Stored, IsFresh, Blank
<1>1. CASE Open
  <2>1. UNCHANGED content BY <1>1 DEF Open, disk
  <2>2. CASE NeedsMigration(Stored)
    <3>1. memory' = Migrated(Stored) BY <1>1, <2>2 DEF Open
    <3>2. memory'.users = Put(Stored.users, Admin, TRUE) BY <1>0, <3>1 DEF Migrated, Persisted
    <3>3. HasAdministrator(memory')
      BY <1>0, <3>2, PutAdministrator DEF HasAdministrator, Persisted
    <3>4. request' = [request EXCEPT ![Boot] = [Idle EXCEPT !.at = "open", !.data = memory',
                                                            !.change = memory'.version]]
      BY <1>1, <2>2 DEF Open
    <3>5. request'[Boot].data = memory' BY <1>0, <3>4 DEF Idle
    <3>6. \A q \in DOMAIN request' : q # Boot => q \in DOMAIN request /\ request'[q] = request[q]
      BY <3>4
    <3> QED BY <2>1, <3>3, <3>5, <3>6 DEF AdministeredInv, IsFlushing, HasAdministrator
  <2>3. CASE ~NeedsMigration(Stored)
    <3>1. memory' = Stored /\ UNCHANGED request BY <1>1, <2>3 DEF Open
    <3>2. IsFresh(Stored) \/ HasAdministrator(Stored)
      <4>1. CASE path = NoFile BY <1>0, <4>1 DEF Stored
      <4>2. CASE path # NoFile
        <5>1. path \in File /\ content[path].is = "whole" /\ Stored = content[path].data
          BY <1>1, <4>2 DEF Open, IsReadable, Stored, StoreTypeOK
        <5> QED BY <2>3, <5>1 DEF AdministeredInv, IsLegacy, IsFresh, NeedsMigration
      <4> QED BY <4>1, <4>2
    <3> QED BY <2>1, <3>1, <3>2 DEF AdministeredInv, IsFlushing, HasAdministrator, IsFresh
  <2> QED BY <2>2, <2>3
<1>2. CASE Crash
  <2>1. UNCHANGED content /\ memory' = Blank BY <1>2 DEF Crash, disk
  <2>2. \A q \in DOMAIN request' : ~IsFlushing(q)' BY <1>2 DEF Crash, IsFlushing, Idle
  <2> QED BY <1>0, <2>1, <2>2 DEF AdministeredInv, IsFresh
<1>3. ASSUME NEW r \in Requests, CheckUnclaimed(r) PROVE AdministeredInv'
  <2>1. \A q \in DOMAIN request' : IsFlushing(q)' =>
          q \in DOMAIN request /\ IsFlushing(q) /\ request'[q] = request[q]
    BY <1>0, <1>3 DEF CheckUnclaimed, IsFlushing, Request
  <2> QED BY <1>3, <2>1 DEF CheckUnclaimed, AdministeredInv, IsFresh, HasAdministrator, disk
<1>4. ASSUME NEW r, FromOperator(r) PROVE HasAdministrator(memory)
  BY <1>4 DEF FromOperator, AdministeredInv, IsFresh
<1>5. ASSUME NEW r \in Requests, Account(r) PROVE AdministeredInv'
  <2>0. PICK name \in Names :
          \/ \E admin \in BOOLEAN : AddUser(r, name, admin)
          \/ Setup(r, name) \/ SetUserPassword(r, name) \/ RemoveUser(r, name)
    BY <1>5 DEF Account
  <2>1. ASSUME NEW admin \in BOOLEAN, AddUser(r, name, admin) PROVE AdministeredInv'
    <3> DEFINE new == [memory EXCEPT !.users = Put(@, name, admin)]
    <3>1. HasAdministrator(memory) /\ name \notin DOMAIN memory.users /\ Change(r, new, "done")
      BY <1>4, <2>1 DEF AddUser
    <3>2. new \in Persisted /\ new.users = Put(memory.users, name, admin)
      BY <1>0, PutAccount DEF Persisted
    <3>3. HasAdministrator(new) BY <3>1, <3>2 DEF HasAdministrator, Put
    <3> QED BY <3>1, <3>2, <3>3, AdministeredChange
  <2>2. CASE Setup(r, name)
    <3> DEFINE new == [memory EXCEPT !.users = Put(@, name, TRUE)]
    <3>1. new \in Persisted /\ new.users = Put(memory.users, name, TRUE)
      BY <1>0, PutAccount DEF Persisted
    <3>2. HasAdministrator(new) BY <1>0, <3>1, PutAdministrator DEF HasAdministrator
    <3>3. ASSUME Done(r), UNCHANGED <<memory, content>> PROVE AdministeredInv'
      <4>1. \A q \in DOMAIN request' : IsFlushing(q)' =>
              q \in DOMAIN request /\ IsFlushing(q) /\ request'[q] = request[q]
        BY <1>0, <3>3 DEF Done, IsFlushing, Idle
      <4> QED BY <3>3, <4>1 DEF AdministeredInv, IsFresh, HasAdministrator
    <3>4. Change(r, new, "done") \/ (Done(r) /\ UNCHANGED <<memory, content>>)
      BY <2>2 DEF Setup, disk
    <3> QED BY <3>1, <3>2, <3>3, <3>4, AdministeredChange
  <2>3. CASE SetUserPassword(r, name)
    BY <1>0, <1>4, <2>3, AdministeredChange DEF SetUserPassword
  <2>4. CASE RemoveUser(r, name)
    <3> DEFINE new == [memory EXCEPT !.users = Drop(@, name)]
    <3>1. new \in Persisted /\ new.users = Drop(memory.users, name)
      BY <1>0, DropAccount DEF Persisted
    <3>2. HasAdministrator(memory) /\ ~IsLastAdministrator(name) /\ Change(r, new, "done")
      BY <1>4, <2>4 DEF RemoveUser
    <3>3. PICK n \in DOMAIN memory.users : memory.users[n] /\ n # name
      BY <2>4, <3>2 DEF RemoveUser, HasAdministrator, IsLastAdministrator
    <3>4. HasAdministrator(new) BY <3>1, <3>3 DEF HasAdministrator, Drop, Restrict
    <3> QED BY <3>1, <3>2, <3>4, AdministeredChange
  <2> QED BY <2>0, <2>1, <2>2, <2>3, <2>4
<1>6. ASSUME NEW r \in Requests, Setting(r) PROVE AdministeredInv'
  <2>1. PICK new, reply : /\ Change(r, new, reply) /\ new \in Persisted
                          /\ new.users = memory.users
                          /\ FromOperator(r) \/ memory.pending_enrollments # {}
    <3>1. ASSUME NEW t \in ApiTokens
          PROVE  /\ [memory EXCEPT !.api_tokens = @ \cup {t}] \in Persisted
                 /\ [memory EXCEPT !.api_tokens = @ \ {t}] \in Persisted
                 /\ [memory EXCEPT !.api_tokens = @ \cup {t}].users = memory.users
                 /\ [memory EXCEPT !.api_tokens = @ \ {t}].users = memory.users
      BY <1>0 DEF Persisted
    <3>2. ASSUME NEW g \in BOOLEAN
          PROVE  /\ [memory EXCEPT !.github = g] \in Persisted
                 /\ [memory EXCEPT !.github = g].users = memory.users
      BY <1>0 DEF Persisted
    <3>3. ASSUME NEW c \in Codes
          PROVE  /\ [memory EXCEPT !.pending_enrollments = @ \cup {c}] \in Persisted
                 /\ [memory EXCEPT !.pending_enrollments = @ \cup {c}].users = memory.users
                 /\ [memory EXCEPT !.pending_enrollments = Spent(c),
                                   !.agent_tokens = @ \cup {c}] \in Persisted
                 /\ [memory EXCEPT !.pending_enrollments = Spent(c),
                                   !.agent_tokens = @ \cup {c}].users = memory.users
      BY <1>0 DEF Persisted, Spent
    <3>4. ASSUME NEW env \in SUBSET (Apps \X Keys)
          PROVE  /\ [memory EXCEPT !.app_env = env] \in Persisted
                 /\ [memory EXCEPT !.app_env = env].users = memory.users
      BY <1>0 DEF Persisted
    <3>5. memory.app_env \in SUBSET (Apps \X Keys) BY <1>0 DEF Persisted
    <3>6. CASE \E t \in ApiTokens : MintApiToken(r, t) \/ RevokeApiToken(r, t)
      BY <3>1, <3>6 DEF MintApiToken, RevokeApiToken
    <3>7. CASE \E g \in BOOLEAN : SetGithub(r, g)
      BY <3>2, <3>7 DEF SetGithub
    <3>8. CASE \E c \in Codes : RememberEnrollment(r, c) \/ RedeemEnrollment(r, c)
      BY <3>3, <3>8 DEF RememberEnrollment, RedeemEnrollment
    <3>9. CASE \E app \in Apps :
                  \/ \E keys \in SUBSET Keys \ {{}} : SetEnv(r, app, keys)
                  \/ ClearEnv(r, app)
                  \/ \E key \in Keys : RemoveEnv(r, app, key)
      <4>1. PICK app \in Apps :
                  \/ \E keys \in SUBSET Keys \ {{}} : SetEnv(r, app, keys)
                  \/ ClearEnv(r, app)
                  \/ \E key \in Keys : RemoveEnv(r, app, key)
        BY <3>9
      <4>2. \A keys \in SUBSET Keys :
               memory.app_env \cup ({app} \X keys) \in SUBSET (Apps \X Keys)
        BY <3>5
      <4>3. {v \in memory.app_env : v[1] # app} \in SUBSET (Apps \X Keys) BY <3>5
      <4>4. \A key \in Keys : memory.app_env \ {<<app, key>>} \in SUBSET (Apps \X Keys) BY <3>5
      <4>5. CASE \E keys \in SUBSET Keys \ {{}} : SetEnv(r, app, keys)
        BY <3>4, <4>2, <4>5 DEF SetEnv
      <4>6. CASE ClearEnv(r, app) BY <3>4, <4>3, <4>6 DEF ClearEnv
      <4>7. CASE \E key \in Keys : RemoveEnv(r, app, key) BY <3>4, <4>4, <4>7 DEF RemoveEnv
      <4> QED BY <4>1, <4>5, <4>6, <4>7
    <3> QED BY <1>6, <3>6, <3>7, <3>8, <3>9 DEF Setting
  <2>2. HasAdministrator(memory) BY <1>4, <2>1 DEF AdministeredInv, IsFresh
  <2>3. HasAdministrator(new) BY <2>1, <2>2 DEF HasAdministrator
  <2> QED BY <2>1, <2>3, AdministeredChange
<1>7. ASSUME NEW r \in DOMAIN request, Flush(r) PROVE AdministeredInv'
  BY <1>7, AdministeredFlush
<1>8. ASSUME NEW r \in Requests, GoAway(r) PROVE AdministeredInv'
  <2>1. \A q \in DOMAIN request' : IsFlushing(q)' =>
          q \in DOMAIN request /\ IsFlushing(q) /\ request'[q].data = request[q].data
    BY <1>0, <1>8 DEF GoAway, Done, IsFlushing, Idle, Request
  <2> QED BY <1>8, <2>1 DEF GoAway, AdministeredInv, IsFresh, HasAdministrator, disk
<1>9. CASE UNCHANGED storeVars
  BY <1>9 DEF storeVars, disk, AdministeredInv, IsFresh, IsLegacy, IsFlushing, HasAdministrator
<1> QED BY <1>1, <1>2, <1>3, <1>5, <1>6, <1>7, <1>8, <1>9 DEF StoreNext

LEMMA Administered == StoreSpec => [](StoreTypeOK /\ AdministeredInv)
<1>1. StoreInit => StoreTypeOK /\ AdministeredInv BY StoreTypeInit, AdministeredInit
<1>2. StoreTypeOK /\ AdministeredInv /\ [StoreNext]_storeVars => (StoreTypeOK /\ AdministeredInv)'
  BY StoreTypeStep, AdministeredStep
<1> QED BY <1>1, <1>2, PTL DEF StoreSpec

\* Once there is an account there is an administrator, whatever removals
\* overlap, whatever is lost on the way to the disk and found by a restart.
THEOREM AnAdministratorStays == StoreSpec => []LastAdministratorStays
<1>1. StoreTypeOK /\ AdministeredInv => LastAdministratorStays
  BY DEF AdministeredInv, IsFresh, LastAdministratorStays
<1> QED BY <1>1, Administered, PTL

\* A readable digihost.json always lets someone in: its administrator, or the
\* shared password that the next start makes into one.
THEOREM NobodyIsLockedOut == StoreSpec => []SomeoneCanSignIn
<1>1. StoreTypeOK /\ AdministeredInv => SomeoneCanSignIn
  BY DEF AdministeredInv, IsLegacy, SomeoneCanSignIn, StoreTypeOK
<1> QED BY <1>1, Administered, PTL
-----------------------------------------------------------------------------
(* What the disk keeps.  A flush that has met no other has the document in *)
(* memory, and the temporary file to itself; when such a flush was the     *)
(* last to land, nobody is writing to the file in place any more.          *)

Undisturbed(r) ==
    /\ request[r].data = memory /\ request[r].change = memory.version
    /\ request[r].at = "write" => tmp # NoFile /\ request[r].file = tmp /\ content[tmp] = Empty
    /\ request[r].at = "rename" => tmp # NoFile /\ content[tmp] = Whole(memory)

FlushInv ==
    /\ disturbed \subseteq Requests
    /\ \A q, r \in DOMAIN request : IsFlushing(q) /\ IsFlushing(r) => q = r \/ r \in disturbed
    /\ \A r \in DOMAIN request : IsFlushing(r) =>
           process = IF r = Boot THEN "opening" ELSE "serving"
    /\ \A r \in DOMAIN request : IsFlushing(r) /\ r \notin disturbed => Undisturbed(r)

\* a sound file is readable, holds what was acknowledged, and is written by nobody
FileInv == record = "sound" =>
    /\ IsReadable /\ Stored.version >= acked
    /\ \A r \in DOMAIN request : request[r].at = "write" => request[r].file # path

\* what is acknowledged, or will be, is in memory
CopyInv == process # "down" /\ record # "relapsed" =>
    /\ memory.version >= acked
    /\ \A r \in DOMAIN request : IsFlushing(r) => request[r].change <= memory.version

\* A code that has brought a token to an agent is known as minted, and pending neither
\* in memory nor in a sound file; one that is about to is pending in memory no more, and
\* no two requests are about to.
CodesSpent ==
    /\ record # "relapsed" =>
          /\ memory.pending_enrollments \subseteq minted
          /\ \A c \in Codes : delivered[c] # 0 =>
                delivered[c] = 1 /\ c \in minted /\ c \notin memory.pending_enrollments
          /\ \A r \in DOMAIN request, c \in Codes : IsFlushing(r) /\ request[r].reply = c =>
                /\ delivered[c] = 0 /\ c \in minted /\ c \notin memory.pending_enrollments
                /\ \A q \in DOMAIN request \ {r} : IsFlushing(q) => request[q].reply # c
    /\ record = "sound" =>
          /\ Stored.pending_enrollments \subseteq minted
          /\ \A c \in Codes : delivered[c] # 0 => c \notin Stored.pending_enrollments

DurableInv == FlushInv /\ FileInv /\ CopyInv /\ CodesSpent

\* what a change may do to the codes: nothing, mint a new one, or spend a pending one
Lawful(new, reply) ==
    /\ new.version = memory.version
    /\ \/ reply = "done" /\ minted' = minted
          /\ new.pending_enrollments = memory.pending_enrollments
       \/ \E c \in Codes :
             /\ reply = "done" /\ c \notin minted /\ minted' = minted \cup {c}
             /\ new.pending_enrollments = memory.pending_enrollments \cup {c}
       \/ /\ reply \in Codes /\ reply \in memory.pending_enrollments /\ minted' = minted
          /\ new.pending_enrollments = memory.pending_enrollments \ {reply}

LEMMA EveryChangeIsLawful ==
    ASSUME StoreTypeOK, NEW r \in Requests, Account(r) \/ Setting(r)
    PROVE  \/ Done(r) /\ UNCHANGED <<process, memory, disk, crashes, told, record>>
           \/ \E new \in Persisted, reply \in {"done"} \cup Codes :
                  Change(r, new, reply) /\ Lawful(new, reply)
<1> DEFINE Goal == \E new \in Persisted, reply \in {"done"} \cup Codes :
                       Change(r, new, reply) /\ Lawful(new, reply)
<1>0. memory \in Persisted /\ memory.users \in Accounts
      /\ memory.app_env \in SUBSET (Apps \X Keys)
  BY DEF StoreTypeOK, Persisted
<1>1. ASSUME NEW users \in Accounts, Change(r, [memory EXCEPT !.users = users], "done"),
             minted' = minted
      PROVE  Goal
  <2>1. /\ [memory EXCEPT !.users = users] \in Persisted
        /\ [memory EXCEPT !.users = users].version = memory.version
        /\ [memory EXCEPT !.users = users].pending_enrollments = memory.pending_enrollments
    BY <1>0 DEF Persisted
  <2> QED BY <1>1, <2>1 DEF Lawful
<1>2. ASSUME NEW tokens \in SUBSET ApiTokens, minted' = minted,
             Change(r, [memory EXCEPT !.api_tokens = tokens], "done")
      PROVE  Goal
  <2>1. /\ [memory EXCEPT !.api_tokens = tokens] \in Persisted
        /\ [memory EXCEPT !.api_tokens = tokens].version = memory.version
        /\ [memory EXCEPT !.api_tokens = tokens].pending_enrollments = memory.pending_enrollments
    BY <1>0 DEF Persisted
  <2> QED BY <1>2, <2>1 DEF Lawful
<1>3. ASSUME NEW env \in SUBSET (Apps \X Keys), minted' = minted,
             Change(r, [memory EXCEPT !.app_env = env], "done")
      PROVE  Goal
  <2>1. /\ [memory EXCEPT !.app_env = env] \in Persisted
        /\ [memory EXCEPT !.app_env = env].version = memory.version
        /\ [memory EXCEPT !.app_env = env].pending_enrollments = memory.pending_enrollments
    BY <1>0 DEF Persisted
  <2> QED BY <1>3, <2>1 DEF Lawful
<1>4. CASE Account(r)
  <2>0. PICK name \in Names :
          \/ \E admin \in BOOLEAN : AddUser(r, name, admin)
          \/ Setup(r, name) \/ SetUserPassword(r, name) \/ RemoveUser(r, name)
    BY <1>4 DEF Account
  <2>1. \A admin \in BOOLEAN : Put(memory.users, name, admin) \in Accounts
    BY <1>0, PutAccount
  <2>2. CASE \E admin \in BOOLEAN : AddUser(r, name, admin)
    BY <1>1, <2>1, <2>2 DEF AddUser
  <2>3. CASE Setup(r, name)
    BY <1>1, <2>1, <2>3 DEF Setup
  <2>4. CASE SetUserPassword(r, name)
    BY <1>0, <2>4 DEF SetUserPassword, Lawful
  <2>5. CASE RemoveUser(r, name)
    BY <1>0, <1>1, <2>5, DropAccount DEF RemoveUser
  <2> QED BY <2>0, <2>2, <2>3, <2>4, <2>5
<1>5. CASE Setting(r)
  <2>1. CASE \E t \in ApiTokens : MintApiToken(r, t) \/ RevokeApiToken(r, t)
    <3>1. memory.api_tokens \in SUBSET ApiTokens BY <1>0 DEF Persisted
    <3>2. PICK t \in ApiTokens : MintApiToken(r, t) \/ RevokeApiToken(r, t) BY <2>1
    <3>3. memory.api_tokens \cup {t} \in SUBSET ApiTokens /\ memory.api_tokens \ {t} \in SUBSET ApiTokens
      BY <3>1
    <3> QED BY <1>2, <3>2, <3>3 DEF MintApiToken, RevokeApiToken
  <2>2. ASSUME NEW g \in BOOLEAN, SetGithub(r, g) PROVE Goal
    <3>1. /\ [memory EXCEPT !.github = g] \in Persisted
          /\ [memory EXCEPT !.github = g].version = memory.version
          /\ [memory EXCEPT !.github = g].pending_enrollments = memory.pending_enrollments
      BY <1>0 DEF Persisted
    <3> QED BY <2>2, <3>1 DEF SetGithub, Lawful
  <2>3. ASSUME NEW c \in Codes, RememberEnrollment(r, c) PROVE Goal
    <3> DEFINE new == [memory EXCEPT !.pending_enrollments = @ \cup {c}]
    <3>1. /\ new \in Persisted /\ new.version = memory.version
          /\ new.pending_enrollments = memory.pending_enrollments \cup {c}
      BY <1>0 DEF Persisted
    <3>2. Change(r, new, "done") /\ Lawful(new, "done")
      BY <2>3, <3>1 DEF RememberEnrollment, Lawful
    <3> QED BY <3>1, <3>2
  <2>4. ASSUME NEW c \in Codes, RedeemEnrollment(r, c) PROVE Goal
    <3> DEFINE new == [memory EXCEPT !.pending_enrollments = Spent(c), !.agent_tokens = @ \cup {c}]
    <3>1. /\ new \in Persisted /\ new.version = memory.version
          /\ new.pending_enrollments = memory.pending_enrollments \ {c}
      BY <1>0 DEF Persisted, Spent
    <3>2. Change(r, new, c) /\ Lawful(new, c)
      BY <2>4, <3>1 DEF RedeemEnrollment, Lawful
    <3> QED BY <3>1, <3>2
  <2>5. ASSUME NEW app \in Apps, NEW keys \in SUBSET Keys, SetEnv(r, app, keys) PROVE Goal
    <3>1. memory.app_env \cup ({app} \X keys) \in SUBSET (Apps \X Keys) BY <1>0
    <3> QED BY <1>3, <2>5, <3>1 DEF SetEnv
  <2>6. ASSUME NEW app \in Apps, ClearEnv(r, app) PROVE Goal
    <3>1. {v \in memory.app_env : v[1] # app} \in SUBSET (Apps \X Keys) BY <1>0
    <3> QED BY <1>3, <2>6, <3>1 DEF ClearEnv
  <2>7. ASSUME NEW app \in Apps, NEW key \in Keys, RemoveEnv(r, app, key) PROVE Goal
    <3>1. memory.app_env \ {<<app, key>>} \in SUBSET (Apps \X Keys) BY <1>0
    <3> QED BY <1>3, <2>7, <3>1 DEF RemoveEnv
  <2> QED BY <1>5, <2>1, <2>2, <2>3, <2>4, <2>5, <2>6, <2>7 DEF Setting
<1> QED BY <1>4, <1>5

-----------------------------------------------------------------------------
(* Every step keeps the invariant of the flushes *)

LEMMA FlushInvInit == StoreInit => FlushInv
BY DEF StoreInit, FlushInv, IsFlushing, Idle

\* whatever leaves the files and the memory alone, and flushes no more than before
LEMMA FlushInvQuiet ==
    ASSUME FlushInv, UNCHANGED <<process, memory, disk>>, disturbed' \subseteq disturbed,
           \A q \in DOMAIN request' : IsFlushing(q)' =>
               /\ q \in DOMAIN request /\ IsFlushing(q) /\ (q \in disturbed => q \in disturbed')
               /\ request'[q].at = request[q].at /\ request'[q].data = request[q].data
               /\ request'[q].change = request[q].change /\ request'[q].file = request[q].file
    PROVE  FlushInv'
<1>1. UNCHANGED <<tmp, content>> BY DEF disk
<1>2. ASSUME NEW q \in DOMAIN request', IsFlushing(q)', q \notin disturbed'
      PROVE  Undisturbed(q)'
  BY <1>1, <1>2 DEF FlushInv, Undisturbed
<1> QED BY <1>2 DEF FlushInv

LEMMA FlushInvChange ==
    ASSUME StoreTypeOK, FlushInv, NEW r \in Requests, NEW new, NEW reply, Change(r, new, reply)
    PROVE  FlushInv'
<1>0. /\ DOMAIN request = Requests \cup {Boot} /\ DOMAIN request' = DOMAIN request
      /\ r # Boot /\ process = "serving" /\ process' = "serving"
  BY StoreAssumption DEF StoreTypeOK, Change
<1>1. /\ request'[r].at = "open" /\ request'[r].data = memory'
      /\ request'[r].change = memory'.version
      /\ \A q \in DOMAIN request : q # r => request'[q] = request[q]
  BY <1>0 DEF Change, Snapshot, Idle
<1>2. ~IsFlushing(Boot) BY <1>0 DEF FlushInv
<1> DEFINE met == {q \in DOMAIN request : IsFlushing(q)}
<1>3. disturbed' = IF met = {} THEN disturbed ELSE disturbed \cup met \cup {r} BY DEF Change
<1>4. disturbed' \subseteq Requests BY <1>0, <1>2, <1>3 DEF FlushInv
<1>5. ASSUME NEW q \in DOMAIN request', IsFlushing(q)', q # r
      PROVE  q \in disturbed' /\ r \in disturbed' /\ q # Boot
  BY <1>0, <1>1, <1>2, <1>3, <1>5 DEF IsFlushing
<1>6. Undisturbed(r)' BY <1>1 DEF Undisturbed
<1> QED BY <1>0, <1>4, <1>5, <1>6 DEF FlushInv

\* beside a flush that takes a step every other one is disturbed
LEMMA FlushInvFlush ==
    ASSUME StoreTypeOK, FlushInv, NEW r \in DOMAIN request, Flush(r)
    PROVE  FlushInv'
<1>0. /\ request \in [Requests \cup {Boot} -> Request] /\ IsFlushing(r)
      /\ DOMAIN request = Requests \cup {Boot} /\ Boot \notin Requests
      /\ process = IF r = Boot THEN "opening" ELSE "serving"
  BY StoreAssumption
  DEF StoreTypeOK, Request, Flush, OpenTmp, WriteTmp, ReplaceFile, FailToWrite, IsFlushing, FlushInv
<1>1. \A q \in DOMAIN request : q # r /\ IsFlushing(q) => q \in disturbed /\ r \in disturbed
  BY <1>0 DEF FlushInv
<1>2. r = Boot => \A q \in DOMAIN request : IsFlushing(q) => q = Boot
  BY <1>0 DEF FlushInv
<1>3. /\ DOMAIN request' = DOMAIN request
      /\ \A q \in DOMAIN request : q # r => request'[q] = request[q]
      /\ \/ disturbed' = disturbed
         \/ disturbed' = disturbed \ {r} /\ ~IsFlushing(r)'
  BY <1>0
  DEF Flush, OpenTmp, WriteTmp, ReplaceFile, FailToWrite, Abandoned, Done, Idle, IsFlushing, past
<1>4. \A q \in DOMAIN request' : IsFlushing(q)' => q \in DOMAIN request /\ IsFlushing(q)
  BY <1>0, <1>3 DEF IsFlushing
<1>5. \A q \in DOMAIN request' : IsFlushing(q)' => process' = process
  <2>1. CASE r = Boot
    <3>1. OpenTmp(r) \/ WriteTmp(r) \/ ~IsFlushing(r)'
      BY <1>0 DEF Flush, ReplaceFile, FailToWrite, Abandoned, Done, Idle, IsFlushing
    <3>2. OpenTmp(r) \/ WriteTmp(r) => process' = process BY DEF OpenTmp, WriteTmp
    <3> QED BY <1>2, <1>4, <2>1, <3>1, <3>2
  <2>2. CASE r # Boot
    BY <1>0, <2>2 DEF Flush, OpenTmp, WriteTmp, ReplaceFile, FailToWrite, Abandoned
  <2> QED BY <2>1, <2>2
<1>6. ASSUME IsFlushing(r)', r \notin disturbed' PROVE Undisturbed(r)'
  <2>1. r \notin disturbed /\ Undisturbed(r) BY <1>0, <1>3, <1>6 DEF FlushInv
  <2>2. CASE OpenTmp(r)
    <3>1. OpenedFile \in File /\ OpenedFile # NoFile BY OpenedFileIsNew, FileTyped
    <3>2. tmp' = OpenedFile /\ content'[tmp'] = Empty /\ UNCHANGED memory
      BY <2>2, <3>1 DEF OpenTmp, StoreTypeOK
    <3>3. /\ request'[r].at = "write" /\ request'[r].file = tmp'
          /\ request'[r].data = request[r].data /\ request'[r].change = request[r].change
      BY <1>0, <2>2 DEF OpenTmp, Request
    <3> QED BY <2>1, <3>1, <3>2, <3>3 DEF Undisturbed
  <2>3. CASE WriteTmp(r)
    <3>1. ~request[r].gone BY <1>0, <1>6, <2>3 DEF WriteTmp, Done, Idle, IsFlushing
    <3>2. /\ request'[r].at = "rename"
          /\ request'[r].data = request[r].data /\ request'[r].change = request[r].change
      BY <1>0, <2>3, <3>1 DEF WriteTmp, Request
    <3>3. request[r].file = tmp /\ tmp # NoFile /\ content[tmp] = Empty /\ request[r].data = memory
      BY <2>1, <2>3 DEF WriteTmp, Undisturbed
    <3>4. content'[tmp] = Whole(memory) /\ UNCHANGED <<memory, tmp>>
      BY <2>3, <3>3 DEF WriteTmp, StoreTypeOK
    <3> QED BY <2>1, <3>2, <3>3, <3>4 DEF Undisturbed
  <2>4. CASE ReplaceFile(r) \/ FailToWrite(r)
    BY <1>0, <1>6, <2>4 DEF ReplaceFile, FailToWrite, Abandoned, Done, Idle, IsFlushing
  <2> QED BY <2>2, <2>3, <2>4 DEF Flush
<1>7. ASSUME NEW q \in DOMAIN request', IsFlushing(q)', q \notin disturbed'
      PROVE  Undisturbed(q)'
  BY <1>0, <1>1, <1>3, <1>4, <1>6, <1>7
<1>8. disturbed' \subseteq Requests BY <1>3 DEF FlushInv
<1>9. \A p, q \in DOMAIN request' : IsFlushing(p)' /\ IsFlushing(q)' => p = q \/ q \in disturbed'
  BY <1>3, <1>4 DEF FlushInv
<1>10. \A q \in DOMAIN request' : IsFlushing(q)' =>
           process' = IF q = Boot THEN "opening" ELSE "serving"
  BY <1>4, <1>5 DEF FlushInv
<1> QED BY <1>7, <1>8, <1>9, <1>10 DEF FlushInv

LEMMA FlushInvStep == StoreTypeOK /\ FlushInv /\ [StoreNext]_storeVars => FlushInv'
<1> SUFFICES ASSUME StoreTypeOK, FlushInv, [StoreNext]_storeVars PROVE FlushInv' OBVIOUS
<1>0. request \in [Requests \cup {Boot} -> Request] /\ DOMAIN request = Requests \cup {Boot}
  BY DEF StoreTypeOK, Request
<1>1. CASE Open
  <2>1. \A q \in DOMAIN request : ~IsFlushing(q) BY <1>0, <1>1 DEF Open, FlushInv
  <2>2. \A q \in DOMAIN request' : IsFlushing(q)' =>
            /\ q = Boot /\ process' = "opening" /\ request'[q].at = "open"
            /\ request'[q].data = memory' /\ request'[q].change = memory'.version
    BY <1>0, <1>1, <2>1 DEF Open, IsFlushing, Idle
  <2>3. disturbed' = disturbed BY <1>1 DEF Open
  <2> QED BY <2>2, <2>3 DEF FlushInv, Undisturbed
<1>2. CASE Crash
  BY <1>2 DEF Crash, FlushInv, IsFlushing, Idle
<1>3. ASSUME NEW r \in Requests, CheckUnclaimed(r) PROVE FlushInv'
  BY <1>0, <1>3, FlushInvQuiet DEF CheckUnclaimed, past, IsFlushing, Request
<1>4. ASSUME NEW r \in Requests, Account(r) \/ Setting(r) PROVE FlushInv'
  <2>1. CASE Done(r) /\ UNCHANGED <<process, memory, disk, crashes, told, record>>
    BY <1>0, <2>1, FlushInvQuiet DEF Done, IsFlushing, Idle
  <2>2. CASE \E new \in Persisted, reply \in {"done"} \cup Codes :
                 Change(r, new, reply) /\ Lawful(new, reply)
    BY <2>2, FlushInvChange
  <2> QED BY <1>4, <2>1, <2>2, EveryChangeIsLawful
<1>5. ASSUME NEW r \in Requests, GoAway(r) PROVE FlushInv'
  BY <1>0, <1>5, FlushInvQuiet DEF GoAway, Done, IsFlushing, Idle, Request
<1>6. ASSUME NEW r \in DOMAIN request, Flush(r) PROVE FlushInv'
  BY <1>6, FlushInvFlush
<1>7. CASE UNCHANGED storeVars
  BY <1>7, FlushInvQuiet DEF storeVars, past, IsFlushing
<1> QED BY <1>1, <1>2, <1>3, <1>4, <1>5, <1>6, <1>7 DEF StoreNext


-----------------------------------------------------------------------------
(* Every step keeps what is said of the file, the copy and the codes *)

LEMMA DurableInit == StoreInit => DurableInv
<1> SUFFICES ASSUME StoreInit PROVE DurableInv OBVIOUS
<1>1. \A r \in DOMAIN request : ~IsFlushing(r) BY DEF StoreInit, IsFlushing, Idle
<1>2. path \in File \cup {NoFile} BY StoreTypeInit DEF StoreTypeOK
<1>3. PICK d \in Found : content = [f \in File |-> IF f = path THEN Whole(d) ELSE Empty]
  BY DEF StoreInit
<1>4. d.version = 0 /\ d.pending_enrollments = {} BY DEF Found, Blank
<1>5. path # NoFile => content[path] = Whole(d) BY <1>2, <1>3
<1>6. IsReadable /\ Stored.version = 0 /\ Stored.pending_enrollments = {}
  BY <1>4, <1>5 DEF IsReadable, Stored, Whole, Blank
<1>7. FileInv BY <1>1, <1>6 DEF FileInv, StoreInit, IsFlushing
<1>8. CodesSpent BY <1>1, <1>6 DEF CodesSpent, StoreInit, Blank
<1> QED BY <1>7, <1>8, FlushInvInit DEF DurableInv, CopyInv, StoreInit

\* whatever leaves the files, the memory and the codes alone, and flushes no more than before
LEMMA DurableQuiet ==
    ASSUME FileInv, CopyInv, CodesSpent, UNCHANGED <<process, memory, disk, told, record>>,
           \A q \in DOMAIN request' :
               /\ q \in DOMAIN request
               /\ IsFlushing(q)' => /\ IsFlushing(q) /\ request'[q].at = request[q].at
                                    /\ request'[q].change = request[q].change
                                    /\ request'[q].reply = request[q].reply
                                    /\ request'[q].file = request[q].file
    PROVE  FileInv' /\ CopyInv' /\ CodesSpent'
<1>1. UNCHANGED <<path, tmp, content, minted, delivered, acked>> /\ Stored' = Stored
      /\ IsReadable' = IsReadable
  BY DEF disk, told, Stored, IsReadable
<1>2. FileInv' BY <1>1 DEF FileInv, IsFlushing
<1>3. CopyInv' BY <1>1 DEF CopyInv
<1>4. CodesSpent' BY <1>1 DEF CodesSpent
<1> QED BY <1>2, <1>3, <1>4

LEMMA DurableChange ==
    ASSUME StoreTypeOK, FileInv, CopyInv, CodesSpent, NEW r \in Requests,
           NEW new \in Persisted, NEW reply \in {"done"} \cup Codes,
           Change(r, new, reply), Lawful(new, reply)
    PROVE  FileInv' /\ CopyInv' /\ CodesSpent'
<1>0. /\ r \in DOMAIN request /\ DOMAIN request' = DOMAIN request
      /\ memory.version \in Nat /\ acked \in Nat /\ minted \subseteq Codes
      /\ \A q \in DOMAIN request : request[q].change \in Nat
  BY DEF StoreTypeOK, Persisted, Change
<1>1. /\ memory'.version = memory.version + 1
      /\ memory'.pending_enrollments = new.pending_enrollments
  BY <1>0 DEF Change, Lawful, Persisted
<1>2. /\ request'[r].at = "open" /\ request'[r].change = memory'.version
      /\ request'[r].reply = reply
      /\ \A q \in DOMAIN request : q # r => request'[q] = request[q]
  BY <1>0 DEF Change, Snapshot, Idle
<1>3. UNCHANGED <<path, tmp, content, delivered, acked, record>> /\ Stored' = Stored
      /\ process = "serving" /\ process' = process /\ IsReadable' = IsReadable
  BY DEF Change, disk, Stored, IsReadable
<1>4. FileInv' BY <1>0, <1>2, <1>3 DEF FileInv
<1>5. CopyInv'
  <2>1. ASSUME record # "relapsed", NEW q \in DOMAIN request', IsFlushing(q)'
        PROVE  request'[q].change <= memory'.version
    <3>1. CASE q = r BY <1>0, <1>1, <1>2, <3>1
    <3>2. CASE q # r
      BY <1>0, <1>1, <1>2, <1>3, <2>1, <3>2 DEF CopyInv, IsFlushing
    <3> QED BY <3>1, <3>2
  <2> QED BY <1>0, <1>1, <1>3, <2>1 DEF CopyInv
<1>6. CodesSpent'
  <2>1. CASE reply = "done" /\ minted' = minted
             /\ new.pending_enrollments = memory.pending_enrollments
    BY <1>0, <1>1, <1>2, <1>3, <2>1, StoreAssumption DEF CodesSpent, IsFlushing
  <2>2. CASE \E c \in Codes : /\ reply = "done" /\ c \notin minted /\ minted' = minted \cup {c}
                              /\ new.pending_enrollments = memory.pending_enrollments \cup {c}
    BY <1>0, <1>1, <1>2, <1>3, <2>2, StoreAssumption DEF CodesSpent, IsFlushing
  <2>3. CASE /\ reply \in Codes /\ reply \in memory.pending_enrollments /\ minted' = minted
             /\ new.pending_enrollments = memory.pending_enrollments \ {reply}
    <3>1. record # "relapsed" =>
            /\ delivered[reply] = 0 /\ reply \in minted
            /\ \A q \in DOMAIN request : IsFlushing(q) => request[q].reply # reply
      BY <2>3 DEF CodesSpent
    <3>2. record # "relapsed" =>
            \A q \in DOMAIN request', c \in Codes : IsFlushing(q)' /\ request'[q].reply = c =>
                /\ delivered[c] = 0 /\ c \in minted /\ c \notin memory'.pending_enrollments
                /\ \A p \in DOMAIN request' \ {q} : IsFlushing(p)' => request'[p].reply # c
      <4> SUFFICES ASSUME record # "relapsed", NEW q \in DOMAIN request', NEW c \in Codes,
                          IsFlushing(q)', request'[q].reply = c
                   PROVE  /\ delivered[c] = 0 /\ c \in minted /\ c \notin memory'.pending_enrollments
                          /\ \A p \in DOMAIN request' \ {q} : IsFlushing(p)' => request'[p].reply # c
        OBVIOUS
      <4>1. CASE q = r
        BY <1>0, <1>1, <1>2, <2>3, <3>1, <4>1 DEF IsFlushing
      <4>2. CASE q # r
        BY <1>0, <1>1, <1>2, <2>3, <3>1, <4>2 DEF CodesSpent, IsFlushing
      <4> QED BY <4>1, <4>2
    <3> QED BY <1>1, <1>3, <2>3, <3>1, <3>2 DEF CodesSpent
  <2> QED BY <2>1, <2>2, <2>3 DEF Lawful
<1> QED BY <1>4, <1>5, <1>6

\* a landed flush leaves a sound file only if it was alone, which leaves nobody writing
LEMMA DurableLanding ==
    ASSUME StoreTypeOK, DurableInv, NEW r \in DOMAIN request, ReplaceFile(r), tmp # NoFile
    PROVE  FileInv' /\ CopyInv' /\ CodesSpent'
<1>0. /\ request \in [Requests \cup {Boot} -> Request] /\ IsFlushing(r)
      /\ tmp \in File /\ path \in File \cup {NoFile} /\ path # tmp /\ DOMAIN content = File
      /\ memory.version \in Nat /\ acked \in Nat /\ process # "down"
      /\ request[r].change \in Nat /\ DOMAIN delivered = Codes
      /\ \A c \in Codes : delivered[c] \in Nat
  BY DEF StoreTypeOK, Request, Persisted, ReplaceFile, IsFlushing, DurableInv, FlushInv
<1>1. /\ path' = tmp /\ Done(r) /\ process' = "serving" /\ record' = Landed(r)
      /\ content' = IF path = NoFile THEN content ELSE [content EXCEPT ![path] = Empty]
      /\ UNCHANGED <<memory, minted>>
      /\ (request[r].gone /\ UNCHANGED <<acked, delivered>>) \/ Answered(r)
  BY DEF ReplaceFile
<1>2. /\ DOMAIN request' = DOMAIN request /\ ~IsFlushing(r)'
      /\ \A q \in DOMAIN request : q # r => request'[q] = request[q]
  BY <1>1 DEF Done, Idle, IsFlushing
<1>3. content'[tmp] = content[tmp] BY <1>0, <1>1
<1>4. \A c \in Codes : \/ delivered'[c] = delivered[c]
                       \/ delivered'[c] = delivered[c] + 1 /\ request[r].reply = c
  BY <1>0, <1>1 DEF Answered
<1>5. ASSUME record' # "relapsed"
      PROVE  /\ record # "relapsed" /\ acked \in Nat /\ acked' \in Nat
             /\ memory.version >= acked'
             /\ \A q \in DOMAIN request' : IsFlushing(q)' => request'[q].change <= memory.version
  <2>1. record # "relapsed" BY <1>1, <1>5 DEF Landed
  <2>2. memory.version >= acked /\ request[r].change <= memory.version
    BY <1>0, <2>1 DEF DurableInv, CopyInv
  <2>3. acked' \in {acked, request[r].change} BY <1>1 DEF Answered
  <2> QED BY <1>0, <1>2, <2>1, <2>2, <2>3 DEF DurableInv, CopyInv, IsFlushing
<1>6. ASSUME record' = "sound"
      PROVE  /\ IsReadable' /\ Stored' = memory /\ \A q \in DOMAIN request' : ~IsFlushing(q)'
  <2>1. r \notin disturbed BY <1>1, <1>6 DEF Landed
  <2>2. content[tmp] = Whole(memory)
    BY <1>0, <2>1 DEF DurableInv, FlushInv, Undisturbed, ReplaceFile
  <2>3. \A q \in DOMAIN request : q # r => ~IsFlushing(q)
    BY <1>0, <2>1 DEF DurableInv, FlushInv
  <2> QED BY <1>0, <1>1, <1>2, <1>3, <2>2, <2>3, FileTyped
      DEF IsReadable, Stored, Whole, IsFlushing
<1>7. FileInv' BY <1>1, <1>5, <1>6 DEF FileInv, IsFlushing
<1>8. CopyInv' BY <1>1, <1>5 DEF CopyInv
<1>9. CodesSpent'
  <2>1. ASSUME record' # "relapsed", NEW c \in Codes, delivered'[c] # 0
        PROVE  delivered'[c] = 1 /\ c \in minted' /\ c \notin memory'.pending_enrollments
    <3>1. record # "relapsed" BY <1>5, <2>1
    <3>2. CASE delivered'[c] = delivered[c] BY <1>1, <2>1, <3>1, <3>2 DEF DurableInv, CodesSpent
    <3>3. CASE delivered'[c] = delivered[c] + 1 /\ request[r].reply = c
      BY <1>0, <1>1, <3>1, <3>3 DEF DurableInv, CodesSpent
    <3> QED BY <1>4, <3>2, <3>3
  <2>2. ASSUME record' # "relapsed", NEW q \in DOMAIN request', NEW c \in Codes,
               IsFlushing(q)', request'[q].reply = c
        PROVE  /\ delivered'[c] = 0 /\ c \in minted' /\ c \notin memory'.pending_enrollments
               /\ \A p \in DOMAIN request' \ {q} : IsFlushing(p)' => request'[p].reply # c
    <3>1. record # "relapsed" /\ q # r /\ IsFlushing(q) /\ request[q].reply = c
      BY <1>2, <1>5, <2>2 DEF IsFlushing
    <3>2. /\ delivered[c] = 0 /\ c \in minted /\ c \notin memory.pending_enrollments
          /\ \A p \in DOMAIN request \ {q} : IsFlushing(p) => request[p].reply # c
      BY <1>2, <3>1 DEF DurableInv, CodesSpent
    <3>3. request[r].reply # c BY <1>0, <3>1, <3>2
    <3> QED BY <1>1, <1>2, <1>4, <3>2, <3>3 DEF IsFlushing
  <2>3. record' # "relapsed" => memory'.pending_enrollments \subseteq minted'
    BY <1>1, <1>5 DEF DurableInv, CodesSpent
  <2>4. record' = "sound" =>
          /\ Stored'.pending_enrollments \subseteq minted'
          /\ \A c \in Codes : delivered'[c] # 0 => c \notin Stored'.pending_enrollments
    BY <1>1, <1>6, <2>1, <2>3
  <2> QED BY <2>1, <2>2, <2>3, <2>4 DEF CodesSpent
<1> QED BY <1>7, <1>8, <1>9

\* the other steps of a flush leave a sound file alone
LEMMA FileStays ==
    ASSUME StoreTypeOK, FileInv, record = "sound", NEW r \in DOMAIN request,
           OpenTmp(r) \/ WriteTmp(r) \/ FailToWrite(r)
    PROVE  IsReadable' /\ Stored' = Stored
<1>0. /\ path \in File \cup {NoFile} /\ DOMAIN content = File
      /\ request[r].at = "write" => request[r].file # path
  BY DEF StoreTypeOK, FileInv
<1>1. path' = path BY DEF OpenTmp, WriteTmp, FailToWrite
<1>2. path # NoFile => content'[path] = content[path]
  <2>1. CASE OpenTmp(r) BY <1>0, <2>1, OpenedFileIsNew DEF OpenTmp
  <2>2. CASE WriteTmp(r) BY <1>0, <2>2 DEF WriteTmp
  <2>3. CASE FailToWrite(r) BY <1>0, <2>3 DEF FailToWrite
  <2> QED BY <2>1, <2>2, <2>3
<1> QED BY <1>1, <1>2 DEF FileInv, IsReadable, Stored

LEMMA DurableFlush ==
    ASSUME StoreTypeOK, DurableInv, NEW r \in DOMAIN request, Flush(r)
    PROVE  FileInv' /\ CopyInv' /\ CodesSpent'
<1> USE DEF DurableInv
<1>0. /\ request \in [Requests \cup {Boot} -> Request] /\ IsFlushing(r)
      /\ DOMAIN request' = DOMAIN request
      /\ \A q \in DOMAIN request : q # r => request'[q] = request[q]
  BY DEF StoreTypeOK, Request, Flush, OpenTmp, WriteTmp, ReplaceFile, FailToWrite,
         Abandoned, Done, IsFlushing
<1>1. CASE ReplaceFile(r) /\ tmp # NoFile BY <1>1, DurableLanding
<1>2. CASE ~(ReplaceFile(r) /\ tmp # NoFile)
  <2>0. OpenTmp(r) \/ WriteTmp(r) \/ FailToWrite(r)
        \/ (Abandoned(r) /\ UNCHANGED <<path, tmp, content>>)
    BY <1>2 DEF Flush, ReplaceFile, disk
  <2>1. /\ UNCHANGED <<path, minted, delivered, acked, record>>
        /\ \/ memory' = memory /\ process' = process
           \/ memory' = Blank /\ process' = "down"
    BY <2>0 DEF OpenTmp, WriteTmp, FailToWrite, Abandoned, past, told
  <2>2. IsFlushing(r)' => /\ request'[r].change = request[r].change
                          /\ request'[r].reply = request[r].reply
    BY <1>0, <2>0 DEF OpenTmp, WriteTmp, FailToWrite, Abandoned, Done, Idle, IsFlushing, Request
  <2>3. request'[r].at = "write" => request'[r].file # path
    <3>1. CASE OpenTmp(r) BY <1>0, <3>1, OpenedFileIsNew DEF OpenTmp, Request
    <3>2. CASE ~OpenTmp(r)
      BY <1>0, <2>0, <3>2 DEF WriteTmp, FailToWrite, Abandoned, Done, Idle, Request
    <3> QED BY <3>1, <3>2
  <2>4. \A q \in DOMAIN request' : IsFlushing(q)' =>
            /\ q \in DOMAIN request /\ IsFlushing(q)
            /\ request'[q].change = request[q].change /\ request'[q].reply = request[q].reply
    BY <1>0, <2>2 DEF IsFlushing
  <2>5. record = "sound" => IsReadable' /\ Stored' = Stored
    BY <2>0, FileStays DEF FileInv, IsReadable, Stored
  <2>6. FileInv' BY <1>0, <2>1, <2>3, <2>5 DEF FileInv
  <2>7. CopyInv' BY <2>1, <2>4 DEF CopyInv
  <2>8. memory'.pending_enrollments \subseteq memory.pending_enrollments BY <2>1 DEF Blank
  <2>9. CodesSpent' BY <1>0, <2>1, <2>4, <2>5, <2>8 DEF CodesSpent
  <2> QED BY <2>6, <2>7, <2>9
<1> QED BY <1>1, <1>2

LEMMA DurableStep == StoreTypeOK /\ DurableInv /\ [StoreNext]_storeVars => DurableInv'
<1> SUFFICES ASSUME StoreTypeOK, DurableInv, [StoreNext]_storeVars
             PROVE  FileInv' /\ CopyInv' /\ CodesSpent'
  BY FlushInvStep DEF DurableInv
<1> USE DEF DurableInv
<1>0. /\ request \in [Requests \cup {Boot} -> Request] /\ Stored \in Persisted
      /\ Stored.version \in Nat /\ acked \in Nat
  BY BlankTyped DEF StoreTypeOK, Persisted, Request, Stored
<1>1. CASE Open
  <2>1. /\ UNCHANGED <<path, tmp, content, minted, delivered, acked>> /\ Stored' = Stored
        /\ IsReadable' = IsReadable /\ process = "down" /\ DOMAIN request' = DOMAIN request
        /\ record' = "sound" => record = "sound"
        /\ record' # "relapsed" => record = "sound"
    BY <1>1 DEF Open, disk, told, Stored, IsReadable, StoreTypeOK
  <2>2. /\ memory'.version \in Nat /\ memory'.version >= Stored.version
        /\ memory'.pending_enrollments = Stored.pending_enrollments
    <3>1. /\ Migrated(Stored).version = Stored.version + 1
          /\ Migrated(Stored).pending_enrollments = Stored.pending_enrollments
      BY <1>0 DEF Migrated, Persisted
    <3>2. memory' \in {Stored, Migrated(Stored)} BY <1>1 DEF Open
    <3> QED BY <1>0, <3>1, <3>2
  <2>3. \A q \in DOMAIN request : ~IsFlushing(q) BY <2>1 DEF FlushInv
  <2>4. \A q \in DOMAIN request' :
            /\ request'[q].at # "write"
            /\ IsFlushing(q)' => request'[q].change = memory'.version /\ request'[q].reply = "done"
    BY <1>0, <1>1, <2>3 DEF Open, IsFlushing, Idle
  <2>5. FileInv' BY <2>1, <2>4 DEF FileInv
  <2>6. CopyInv' BY <1>0, <2>1, <2>2, <2>4 DEF CopyInv, FileInv
  <2>7. CodesSpent' BY <2>1, <2>2, <2>4, StoreAssumption DEF CodesSpent
  <2> QED BY <2>5, <2>6, <2>7
<1>2. CASE Crash
  <2>1. /\ UNCHANGED <<path, tmp, content, minted, delivered, acked, record>> /\ Stored' = Stored
        /\ IsReadable' = IsReadable /\ process' = "down" /\ memory'.pending_enrollments = {}
    BY <1>2 DEF Crash, disk, told, Stored, IsReadable, Blank
  <2>2. \A q \in DOMAIN request' : ~IsFlushing(q)' /\ request'[q].at # "write"
    BY <1>2 DEF Crash, IsFlushing, Idle
  <2>3. FileInv' BY <2>1, <2>2 DEF FileInv
  <2>4. CopyInv' BY <2>1 DEF CopyInv
  <2>5. CodesSpent' BY <2>1, <2>2 DEF CodesSpent
  <2> QED BY <2>3, <2>4, <2>5
<1>3. ASSUME NEW r \in Requests, CheckUnclaimed(r) PROVE FileInv' /\ CopyInv' /\ CodesSpent'
  <2>1. UNCHANGED <<told, record>> BY <1>3 DEF CheckUnclaimed, past
  <2> QED BY <1>0, <1>3, <2>1, DurableQuiet DEF CheckUnclaimed, IsFlushing, Request
<1>4. ASSUME NEW r \in Requests, Account(r) \/ Setting(r) PROVE FileInv' /\ CopyInv' /\ CodesSpent'
  <2>1. CASE Done(r) /\ UNCHANGED <<process, memory, disk, crashes, told, record>>
    BY <1>0, <2>1, DurableQuiet DEF Done, IsFlushing, Idle
  <2>2. CASE \E new \in Persisted, reply \in {"done"} \cup Codes :
                 Change(r, new, reply) /\ Lawful(new, reply)
    BY <2>2, DurableChange
  <2> QED BY <1>4, <2>1, <2>2, EveryChangeIsLawful
<1>5. ASSUME NEW r \in Requests, GoAway(r) PROVE FileInv' /\ CopyInv' /\ CodesSpent'
  BY <1>0, <1>5, DurableQuiet DEF GoAway, Done, IsFlushing, Idle, Request
<1>6. ASSUME NEW r \in DOMAIN request, Flush(r) PROVE FileInv' /\ CopyInv' /\ CodesSpent'
  BY <1>6, DurableFlush
<1>7. CASE UNCHANGED storeVars
  <2>1. UNCHANGED <<told, record>> BY <1>7 DEF storeVars, past
  <2> QED BY <1>7, <2>1, DurableQuiet DEF storeVars, IsFlushing
<1> QED BY <1>1, <1>2, <1>3, <1>4, <1>5, <1>6, <1>7 DEF StoreNext

LEMMA Durable == StoreSpec => [](StoreTypeOK /\ DurableInv)
<1>1. StoreInit => StoreTypeOK /\ DurableInv BY StoreTypeInit, DurableInit
<1>2. StoreTypeOK /\ DurableInv /\ [StoreNext]_storeVars => (StoreTypeOK /\ DurableInv)'
  BY StoreTypeStep, DurableStep
<1> QED BY <1>1, <1>2, PTL DEF StoreSpec

\* Whatever overlapped, failed or crashed before it, a flush that lands without having met
\* another one leaves a digihost.json that every later crash leaves readable, until flushes
\* overlap again and one of them lands.
THEOREM FilesStayWhole == StoreSpec => []NeverTruncated
<1>1. DurableInv => NeverTruncated BY DEF DurableInv, FileInv, NeverTruncated
<1> QED BY <1>1, Durable, PTL

\* In such a file is every change that was ever reported done, by overlapping flushes too.
THEOREM AnswersAreKept == StoreSpec => []AckedIsDurable
<1>1. DurableInv => AckedIsDurable BY DEF DurableInv, FileInv, AckedIsDurable
<1> QED BY <1>1, Durable, PTL

\* No enrolment code brings a second agent token, although flushes overlap and a crash may
\* take its first redemption back, until a restart has read what overlapping flushes left.
THEOREM CodesPayOnce == StoreSpec => []RedeemedOnce
<1>1. StoreTypeOK /\ DurableInv => RedeemedOnce
  BY DEF DurableInv, CodesSpent, RedeemedOnce, StoreTypeOK
<1> QED BY <1>1, Durable, PTL

-----------------------------------------------------------------------------
(* The store implements the document *)

\* one step of the store is one step of the document, or none
LEMMA DocumentStep ==
    StoreTypeOK /\ DurableInv /\ [StoreNext]_storeVars => [Document!Next]_Document!documentVars
<1> SUFFICES ASSUME StoreTypeOK, DurableInv, [StoreNext]_storeVars
             PROVE  Document!Next \/ UNCHANGED Document!documentVars
  OBVIOUS
<1> USE DEF DurableInv
<1> DEFINE kept == IF IsReadable THEN Stored ELSE Torn
<1>0. /\ request \in [Requests \cup {Boot} -> Request] /\ memory \in Persisted
      /\ Stored \in Persisted /\ memory.version \in Nat /\ acked \in Nat
      /\ process \in {"down", "opening", "serving"}
      /\ record \in {"sound", "mixed", "relapsed"}
  BY BlankTyped DEF StoreTypeOK, Persisted, Request, Stored
<1>s. ASSUME UNCHANGED <<path, content>> PROVE kept' = kept /\ IsReadable' = IsReadable
  BY <1>s DEF Stored, IsReadable
<1>r. IsReadable => kept = Stored BY DEF kept
<1> HIDE DEF kept
<1>q. ASSUME kept' = kept, UNCHANGED <<process, memory, acked, record>>
      PROVE  UNCHANGED Document!documentVars
  BY <1>q DEF Document!documentVars, kept
<1>m. ASSUME process # "down", process' # "down", record' # "sound", memory' = memory
      PROVE  Document!Next
  <2>1. Document!Muddle BY <1>m DEF Document!Muddle
  <2> QED BY <2>1 DEF Document!Next
<1>1. CASE Open
  <2>1. /\ process = "down" /\ process' # "down" /\ acked' = acked /\ kept' = kept /\ kept = Stored
        /\ memory' \in {Stored, Migrated(Stored)} /\ (record' = "sound") = (record = "sound")
    BY <1>1, <1>r, <1>s, <1>0 DEF Open, disk, told
  <2>2. Migrated(Stored).version = Stored.version + 1 BY <1>0 DEF Migrated, Persisted
  <2>3. Document!Start BY <2>1, <2>2 DEF Document!Start, Document!IsChangeOf, kept
  <2> QED BY <2>3 DEF Document!Next
<1>2. CASE Crash
  <2>1. /\ process # "down" /\ process' = "down" /\ acked' = acked /\ record' = record /\ kept' = kept
    BY <1>2, <1>s DEF Crash, disk, told
  <2>2. Document!Stop BY <2>1 DEF Document!Stop, kept
  <2> QED BY <2>2 DEF Document!Next
<1>3. ASSUME NEW r \in Requests, CheckUnclaimed(r) PROVE UNCHANGED Document!documentVars
  BY <1>3, <1>q, <1>s DEF CheckUnclaimed, disk, past, told
<1>4. ASSUME NEW r \in Requests, Account(r) \/ Setting(r)
      PROVE  Document!Next \/ UNCHANGED Document!documentVars
  <2>1. CASE Done(r) /\ UNCHANGED <<process, memory, disk, crashes, told, record>>
    BY <1>q, <1>s, <2>1 DEF disk, told
  <2>2. ASSUME NEW new \in Persisted, NEW reply, Change(r, new, reply), Lawful(new, reply)
        PROVE  Document!Next
    <3>1. memory'.version = memory.version + 1
      BY <1>0, <2>2 DEF Change, Lawful, Persisted
    <3>2. /\ process = "serving" /\ process' = process /\ acked' = acked /\ kept' = kept
          /\ record' = record
      BY <1>s, <2>2 DEF Change, disk
    <3>3. Document!Change BY <3>1, <3>2 DEF Document!Change, Document!IsChangeOf, kept
    <3> QED BY <3>3 DEF Document!Next
  <2> QED BY <1>4, <2>1, <2>2, EveryChangeIsLawful
<1>5. ASSUME NEW r \in Requests, GoAway(r) PROVE UNCHANGED Document!documentVars
  BY <1>5, <1>q, <1>s DEF GoAway, disk, told
<1>6. ASSUME NEW r \in DOMAIN request, Flush(r)
      PROVE  Document!Next \/ UNCHANGED Document!documentVars
  <2>0. /\ IsFlushing(r) /\ process # "down" /\ process = IF r = Boot THEN "opening" ELSE "serving"
        /\ r \notin disturbed => Undisturbed(r)
        /\ r = Boot => r \notin disturbed
    BY <1>6, StoreAssumption
    DEF Flush, OpenTmp, WriteTmp, ReplaceFile, FailToWrite, IsFlushing, FlushInv
  <2>1. /\ path \in File \cup {NoFile} /\ tmp \in File \cup {NoFile}
        /\ path = tmp => path = NoFile
        /\ DOMAIN content = File
    BY DEF StoreTypeOK
  <2>o. ASSUME path' = path, path # NoFile => content'[path] = content[path] PROVE kept' = kept
    BY <2>1, <2>o DEF kept, IsReadable, Stored
  <2>a. ASSUME Abandoned(r), kept' = kept \/ (r # Boot /\ record # "sound")
        PROVE  Document!Next \/ UNCHANGED Document!documentVars
    <3>1. acked' = acked /\ record' = record BY <2>a DEF Abandoned, told
    <3>2. CASE r = Boot
      <4>1. process' = "down" BY <2>a, <3>2 DEF Abandoned
      <4>2. Document!Stop BY <2>0, <2>a, <3>1, <3>2, <4>1 DEF Document!Stop, kept
      <4> QED BY <4>2 DEF Document!Next
    <3>3. CASE r # Boot
      BY <1>m, <1>q, <2>0, <2>a, <3>1, <3>3 DEF Abandoned
    <3> QED BY <3>2, <3>3
  <2>2. CASE OpenTmp(r)
    <3>1. kept' = kept BY <2>1, <2>2, <2>o, OpenedFileIsNew DEF OpenTmp
    <3> QED BY <1>q, <2>2, <3>1 DEF OpenTmp, past, told
  <2>3. CASE WriteTmp(r)
    <3>1. UNCHANGED <<process, memory, path, acked, record>> BY <2>3 DEF WriteTmp, told
    <3>2. CASE request[r].file # path
      <4>1. kept' = kept BY <2>1, <2>3, <2>o, <3>1, <3>2 DEF WriteTmp
      <4> QED BY <1>q, <3>1, <4>1
    <3>3. CASE request[r].file = path
      <4>1. record # "sound" BY <2>3, <3>3 DEF WriteTmp, FileInv
      <4> QED BY <1>m, <2>0, <3>1, <4>1
    <3> QED BY <3>2, <3>3
  <2>4. CASE ReplaceFile(r) /\ tmp # NoFile
    <3>1. /\ path' = tmp /\ process' = "serving" /\ memory' = memory /\ record' = Landed(r)
          /\ content' = IF path = NoFile THEN content ELSE [content EXCEPT ![path] = Empty]
          /\ acked' \in {acked, IF request[r].change > acked THEN request[r].change ELSE acked}
      BY <2>4 DEF ReplaceFile, Answered
    <3>2. CASE record' = "sound"
      <4>1. record # "relapsed" /\ r \notin disturbed BY <3>1, <3>2 DEF Landed
      <4>2. content[tmp] = Whole(memory) /\ request[r].change = memory.version
        BY <2>0, <2>4, <4>1 DEF Undisturbed, ReplaceFile
      <4>3. memory.version >= acked BY <2>0, <4>1 DEF CopyInv
      <4>4. content'[tmp] = Whole(memory) BY <2>1, <2>4, <3>1, <4>2
      <4>5. kept' = memory BY <2>4, <3>1, <4>4 DEF kept, IsReadable, Stored, Whole
      <4>6. acked' \in {acked, memory.version} BY <1>0, <3>1, <4>2, <4>3
      <4>7. Document!Keep BY <2>0, <3>1, <3>2, <4>5, <4>6 DEF Document!Keep, kept
      <4> QED BY <4>7 DEF Document!Next
    <3>3. CASE record' # "sound" BY <1>m, <2>0, <3>1, <3>3
    <3> QED BY <3>2, <3>3
  <2>5. CASE ReplaceFile(r) /\ tmp = NoFile
    <3>1. Abandoned(r) /\ kept' = kept BY <1>s, <2>5 DEF ReplaceFile, disk
    <3> QED BY <2>a, <3>1
  <2>6. CASE FailToWrite(r)
    <3>1. Abandoned(r) /\ path' = path BY <2>6 DEF FailToWrite
    <3>2. CASE request[r].at = "write" => request[r].file # path \/ path = NoFile
      <4>1. kept' = kept BY <2>1, <2>6, <2>o, <3>1, <3>2 DEF FailToWrite
      <4> QED BY <2>a, <3>1, <4>1
    <3>3. CASE request[r].at = "write" /\ request[r].file = path /\ path # NoFile
      <4>1. record # "sound" BY <3>3 DEF FileInv
      <4>2. r # Boot BY <2>0, <2>1, <3>3 DEF Undisturbed
      <4> QED BY <2>a, <3>1, <4>1, <4>2
    <3> QED BY <3>2, <3>3
  <2> QED BY <1>6, <2>2, <2>3, <2>4, <2>5, <2>6 DEF Flush
<1>7. CASE UNCHANGED storeVars
  BY <1>7, <1>q, <1>s DEF storeVars, disk, past, told
<1> QED BY <1>1, <1>2, <1>3, <1>4, <1>5, <1>6, <1>7 DEF StoreNext

\* The store is one document, whatever overlaps: creating, writing and renaming the temporary
\* file, crashes and failed writes put nothing in place but the working copy, all at once, in
\* the step that reports the change done, except while the last flush to land was a disturbed
\* one and after a restart from what such a flush had left.
THEOREM OneDocument == StoreSpec => ImplementsDocument
<1>1. StoreInit => Document!Init
  <2> SUFFICES ASSUME StoreInit PROVE Document!Init OBVIOUS
  <2>1. DurableInv /\ StoreTypeOK BY DurableInit, StoreTypeInit
  <2>2. process = "down" /\ acked = 0 /\ record = "sound" BY DEF StoreInit
  <2>3. IsReadable /\ Stored \in Persisted
    BY <2>1, <2>2, BlankTyped DEF DurableInv, FileInv, StoreTypeOK, Stored
  <2>4. Stored.version \in Nat BY <2>3 DEF Persisted
  <2> QED BY <2>2, <2>3, <2>4 DEF Document!Init
<1>2. StoreTypeOK /\ DurableInv /\ [StoreNext]_storeVars => [Document!Next]_Document!documentVars
  BY DocumentStep
<1> QED BY <1>1, <1>2, Durable, PTL DEF StoreSpec, ImplementsDocument, Document!Spec

-----------------------------------------------------------------------------
(* The start of the server.  The invariant relates the four places a version *)
(* is kept (the marker, the database, the installed files, the newest        *)
(* release) and the three places an identity is kept.                        *)


Versions ==
    /\ managed \in BOOLEAN /\ at \in Stage /\ exists \in BOOLEAN
    /\ marker \in Version \cup {0} /\ published \in Version \cup {0}
    /\ binary \in Version /\ wasm \in Version
    /\ tag \in Version /\ latest \in Version
    /\ spacetime \in {"none", "child", "other"} /\ ready \in BOOLEAN
    /\ updater \in {"idle", "stopping", "binaries", "wasm", "starting"}
    /\ faults \in 0 .. MaxFaults /\ forgotten \in BOOLEAN

\* Nothing is recorded that was not published, nothing published that was not
\* installed, nothing installed that was not released.
Behind ==
    /\ marker <= published /\ published <= wasm
    /\ wasm <= latest /\ tag <= latest
    /\ updater \in {"stopping", "binaries", "wasm"} => wasm <= tag

\* files are only replaced under a server that is stopped
Quiet == updater \in {"binaries", "wasm"} => at = "down"

PastPublishing == at \in {"marking", "connecting", "persisting", "claiming", "serving"}

Current == PastPublishing => published = wasm

SchemaInv == Versions /\ Behind /\ Quiet /\ Current

-----------------------------------------------------------------------------
LEMMA SchemaInit == StartUpInit => SchemaInv
<1> SUFFICES ASSUME StartUpInit PROVE SchemaInv OBVIOUS
<1>1. 1 \in Version /\ 0 \in 0 .. MaxFaults BY StartUpAssumption DEF StartUpAssumption, Version
<1>2. managed \in BOOLEAN /\ ready \in BOOLEAN /\ spacetime \in {"none", "child", "other"}
  BY DEF StartUpInit
<1>3. Versions BY <1>1, <1>2 DEF StartUpInit, Versions, Stage
<1>4. Behind /\ Quiet /\ Current
  BY DEF StartUpInit, Behind, Quiet, Current, PastPublishing
<1> QED BY <1>3, <1>4 DEF SchemaInv

LEMMA SchemaStep == SchemaInv /\ [StartUpNext]_startVars => SchemaInv'
<1> SUFFICES ASSUME SchemaInv, [StartUpNext]_startVars PROVE SchemaInv' OBVIOUS
<1> USE StartUpAssumption
    DEF StartUpAssumption, SchemaInv, Versions, Behind, Quiet, Current, PastPublishing, Version, Stage,
        mainVars, files, installed, database, update, startVars
<1>1. CASE Start
  BY <1>1 DEF Start, MayRun
<1>2. CASE Reachable
  BY <1>2 DEF Reachable
<1>3. CASE Check
  <2>1. exists' \in BOOLEAN BY <1>3 DEF Check
  <2>2. faults' \in 0 .. MaxFaults BY <1>3 DEF Check, Fault
  <2> QED BY <1>3, <2>1, <2>2 DEF Check
<1>4. CASE Publish
  BY <1>4 DEF Publish, UpToDate, Publishes
<1>5. CASE Mark
  BY <1>5 DEF Mark
<1>6. CASE Connect
  BY <1>6 DEF Connect
<1>7. CASE Persist
  BY <1>7 DEF Persist
<1>8. CASE Claim
  BY <1>8 DEF Claim
<1>9. CASE ComesUp
  BY <1>9 DEF ComesUp
<1>10. CASE Bail
  <2>1. ready' \in BOOLEAN /\ spacetime' \in {"none", "child", "other"}
    BY <1>10 DEF Bail, Stopped
  <2>2. at' = "down" /\ exists' = FALSE
    BY <1>10 DEF Bail, Ended
  <2>3. faults' \in 0 .. MaxFaults
    <3>1. Fault BY <1>10 DEF Bail
    <3> QED BY <3>1 DEF Fault
  <2>4. marker' \in {marker, 0} BY <1>10 DEF Bail
  <2>5. UNCHANGED <<managed, binary, wasm, published, updater, tag, latest>>
    BY <1>10 DEF Bail
  <2>6. forgotten' \in BOOLEAN BY <1>10 DEF Bail
  <2>7. exists' \in BOOLEAN /\ managed' \in BOOLEAN BY <2>2, <2>5
  <2>8. Versions' BY <2>1, <2>2, <2>3, <2>4, <2>5, <2>6, <2>7
  <2>9. Behind' /\ Quiet' /\ Current' BY <2>2, <2>4, <2>5
  <2> QED BY <2>8, <2>9
<1>11. CASE PersistFails
  BY <1>11 DEF PersistFails, Fault
<1>12. CASE Killed
  <2>1. ready' \in BOOLEAN /\ spacetime' \in {"none", "child", "other"}
    BY <1>12 DEF Killed, Stopped
  <2>2. at' = "down" /\ exists' = FALSE
    BY <1>12 DEF Killed, Ended
  <2>3. faults' \in 0 .. MaxFaults
    <3>1. Fault BY <1>12 DEF Killed
    <3> QED BY <3>1 DEF Fault
  <2>4. marker' \in {marker, 0} BY <1>12 DEF Killed
  <2>5. UNCHANGED <<managed, binary, wasm, published, updater, tag, latest>>
    BY <1>12 DEF Killed
  <2>6. forgotten' \in BOOLEAN BY <1>12 DEF Killed
  <2>7. exists' \in BOOLEAN /\ managed' \in BOOLEAN BY <2>2, <2>5
  <2>8. Versions' BY <2>1, <2>2, <2>3, <2>4, <2>5, <2>6, <2>7
  <2>9. Behind' /\ Quiet' /\ Current' BY <2>2, <2>4, <2>5
  <2> QED BY <2>8, <2>9
<1>13. CASE Release
  BY <1>13 DEF Release
<1>14. CASE UpdateBegins
  BY <1>14 DEF UpdateBegins
<1>15. CASE StopServer
  BY <1>15 DEF StopServer, Ended, Stopped
<1>16. CASE InstallBinaries
  BY <1>16 DEF InstallBinaries
<1>17. CASE InstallWasm
  BY <1>17 DEF InstallWasm
<1>18. CASE StartServer
  BY <1>18 DEF StartServer
<1>19. CASE UpdateCut
  BY <1>19 DEF UpdateCut, Fault
<1>20. CASE UNCHANGED startVars
  BY <1>20
<1> QED
  BY <1>1, <1>2, <1>3, <1>4, <1>5, <1>6, <1>7, <1>8, <1>9, <1>10,
     <1>11, <1>12, <1>13, <1>14, <1>15, <1>16, <1>17, <1>18, <1>19, <1>20 DEF StartUpNext, Main, Updater

-----------------------------------------------------------------------------
(* Whose identity is kept where *)

KeepsItsPlace == at \in {"persisting", "claiming", "serving"}

Identity ==
    /\ issued \subseteq Identities /\ operator \subseteq issued
    /\ server_token \in issued \cup {NoIdentity}
    /\ who \in issued \cup {NoIdentity}
    /\ KeepsItsPlace => who \in issued
    /\ at = "persisting" => server_token \in {who, NoIdentity}
    /\ ~forgotten => /\ operator \subseteq {server_token}
                     /\ at \in {"claiming", "serving"} => server_token = who
                     /\ at = "serving" => operator # {}

LEMMA IdentityInit == StartUpInit => Identity
BY DEF StartUpInit, Identity, KeepsItsPlace

LEMMA IdentityStep == Identity /\ [StartUpNext]_startVars => Identity'
<1> SUFFICES ASSUME Identity, [StartUpNext]_startVars PROVE Identity' OBVIOUS
<1> USE StartUpAssumption
    DEF StartUpAssumption, Identity, KeepsItsPlace, mainVars, files, installed, database, update, startVars
<1>1. CASE Start
  BY <1>1 DEF Start, MayRun
<1>2. CASE Reachable
  BY <1>2 DEF Reachable
<1>3. CASE Check
  BY <1>3 DEF Check, Fault
<1>4. CASE Publish
  BY <1>4 DEF Publish, UpToDate, Publishes
<1>5. CASE Mark
  BY <1>5 DEF Mark
<1>6. CASE Connect
  <2>1. CASE LoadServerToken # NoIdentity
    BY <1>6, <2>1 DEF Connect, LoadServerToken
  <2>2. CASE LoadServerToken = NoIdentity
    <3>1. \E i \in Identities : i \notin issued BY <1>6, <2>2 DEF Connect
    <3>2. who' \in Identities BY <1>6, <2>2, <3>1 DEF Connect
    <3> QED BY <1>6, <2>2, <3>2 DEF Connect, LoadServerToken
  <2> QED BY <2>1, <2>2
<1>7. CASE Persist
  BY <1>7 DEF Persist
<1>8. CASE Claim
  BY <1>8 DEF Claim
<1>9. CASE ComesUp
  BY <1>9 DEF ComesUp
<1>10. CASE Bail
  BY <1>10 DEF Bail, Fault, Ended, Stopped
<1>11. CASE PersistFails
  BY <1>11 DEF PersistFails, Fault
<1>12. CASE Killed
  BY <1>12 DEF Killed, Fault, Ended, Stopped
<1>13. CASE Release
  BY <1>13 DEF Release
<1>14. CASE UpdateBegins
  BY <1>14 DEF UpdateBegins
<1>15. CASE StopServer
  BY <1>15 DEF StopServer, Ended, Stopped
<1>16. CASE InstallBinaries
  BY <1>16 DEF InstallBinaries
<1>17. CASE InstallWasm
  BY <1>17 DEF InstallWasm
<1>18. CASE StartServer
  BY <1>18 DEF StartServer
<1>19. CASE UpdateCut
  BY <1>19 DEF UpdateCut, Fault
<1>20. CASE UNCHANGED startVars
  BY <1>20
<1> QED
  BY <1>1, <1>2, <1>3, <1>4, <1>5, <1>6, <1>7, <1>8, <1>9, <1>10,
     <1>11, <1>12, <1>13, <1>14, <1>15, <1>16, <1>17, <1>18, <1>19, <1>20 DEF StartUpNext, Main, Updater

-----------------------------------------------------------------------------
(* The theorems *)

\* The specification's variables keep their types.
THEOREM StartUpTyped == StartUpSpec => []StartUpTypeOK
<1>1. SchemaInv /\ Identity => StartUpTypeOK
  BY DEF SchemaInv, Versions, Identity, StartUpTypeOK
<1> QED BY <1>1, SchemaInit, SchemaStep, IdentityInit, IdentityStep, PTL DEF StartUpSpec

\* "republish it when the shipped wasm changes": a server that serves does so over the
\* module installed beside it, after any crash, failed start or half-done update.  It
\* rests on the marker never being ahead of the database and on updates never going
\* back to an earlier release.
THEOREM InstalledModuleServed == StartUpSpec => []ServesInstalledModule
<1>1. SchemaInv => ServesInstalledModule
  BY DEF SchemaInv, Current, PastPublishing, ServesInstalledModule
<1> QED BY <1>1, SchemaInit, SchemaStep, PTL DEF StartUpSpec

\* "Persisted so the server keeps the same identity across restarts": unless the file
\* was lost, the server that serves holds the operator's rights.
THEOREM OperatorServes == StartUpSpec => []ServesAsOperator
<1>1. Identity => ServesAsOperator
  BY DEF Identity, KeepsItsPlace, ServesAsOperator
<1> QED BY <1>1, IdentityInit, IdentityStep, PTL DEF StartUpSpec
=============================================================================
