------------------------------ MODULE Sessions ------------------------------
(***************************************************************************)
(* Who may operate the instance: accounts, browser sessions and API tokens *)
(* (api.rs: Sessions, require_operator, login, setup, the team and token   *)
(* actions; their pages in view.rs).  Requests run side by side, and every *)
(* await between two of their steps lets another one through: the session  *)
(* is read, then the account, then the handler acts on what was read.      *)
(*                                                                         *)
(* A browser acts through the buttons of the page it loaded last, however  *)
(* old; a script posts what it likes.  Changes of the store are atomic     *)
(* here; module Store has their way to the disk.                           *)
(***************************************************************************)
EXTENDS Tables, Naturals, FiniteSets

CONSTANTS
    Names, Passwords, TokenNames,
    Browsers, Scripts,
    NoName,
    MaxAccounts, MaxSessions, MaxTokens   \* bounds: ever created

ASSUME SessionsAssumption ==
    /\ Browsers \cap Scripts = {} /\ NoName \notin Names
    /\ {MaxAccounts, MaxSessions, MaxTokens} \subseteq Nat

VARIABLES
    users,        \* store.rs: the accounts
    sessions,     \* Sessions: whose each session token is, in memory
    api_tokens,   \* store.rs: the name of each API token
    held,         \* the credential each client presents: a session or an API token
    offered,         \* what the page in front of each browser offers
    request,      \* what each client's request is at
    used          \* accounts, sessions and tokens ever created

accessVars == <<users, sessions, api_tokens, held, offered, request, used>>

-----------------------------------------------------------------------------
Clients == Browsers \cup Scripts
NoCredential == 0

\* the account's number, counting those created, is history
Account == [password : Passwords, admin : BOOLEAN, number : 1 .. MaxAccounts]

\* buttons and forms
Action(op, name) == [op |-> op, name |-> name]

Page == {"team", "tokens"}
View(p) == Action("view", p)
OwnPassword == Action("password", NoName)

Nobody == [name |-> NoName, admin |-> FALSE, via_token |-> FALSE, number |-> 0]
Idle == [at |-> "idle", as |-> Nobody]

AccessInit ==
    /\ users = EmptyTable /\ sessions = EmptyTable /\ api_tokens = EmptyTable
    /\ held = [c \in Clients |-> NoCredential]
    /\ offered = [b \in Browsers |-> {}]
    /\ request = [c \in Clients |-> Idle]
    /\ used = [accounts |-> 0, sessions |-> 0, tokens |-> 0]

-----------------------------------------------------------------------------
(* Pages *)

Members == DOMAIN users

FaultyTeamPage(as) ==
    {OwnPassword} \cup
    (IF as.admin THEN {Action("add", n) : n \in Names}
                      \cup {Action(op, n) : op \in {"reset", "remove"}, n \in Members}
     ELSE {})

\* everyone's own password; for administrators the members, but no Remove for oneself
TeamPage(as) ==
    {OwnPassword} \cup
    (IF as.admin THEN {Action("add", n) : n \in Names}
                      \cup {Action("reset", n) : n \in Members}
                      \cup {Action("remove", n) : n \in Members \ {as.name}}
     ELSE {})

TokensPage(as) ==
    IF as.admin THEN {Action("mint", t) : t \in TokenNames}
                     \cup {Action("revoke", t) : t \in Range(api_tokens)}
    ELSE {}

\* sidebar: on every page
Sidebar == {View(q) : q \in Page} \cup {Action("logout", NoName)}

Offers(p, as) ==
    Sidebar \cup (IF p = "team" THEN TeamPage(as) ELSE TokensPage(as))

-----------------------------------------------------------------------------
(* Signing in *)

Step(c, r) == request' = [request EXCEPT ![c] = r]
Done(c) == Step(c, Idle)

\* is_claimed
IsClaimed == users # EmptyTable

\* setup tests first; the password is hashed, slowly, before the account is added
Setup(c) ==
    /\ c \in Browsers /\ request[c].at = "idle" /\ ~IsClaimed
    /\ Step(c, [Idle EXCEPT !.at = "claiming"])
    /\ UNCHANGED <<users, sessions, api_tokens, held, offered, used>>

\* add_user: under the lock, refused when the name is taken
AddUser(n, p, admin) ==
    /\ used.accounts < MaxAccounts
    /\ users' = Put(users, n, [password |-> p, admin |-> admin, number |-> used.accounts + 1])
    /\ used' = [used EXCEPT !.accounts = @ + 1]

Claim(c) ==
    /\ request[c].at = "claiming"
    /\ \E n \in Names, p \in Passwords :
       IF n \in Members
       THEN Done(c) /\ UNCHANGED <<users, used>>
       ELSE /\ AddUser(n, p, TRUE)
            /\ Step(c, [Idle EXCEPT !.at = "issuing", !.as =
                   [Nobody EXCEPT !.name = n, !.number = used.accounts + 1]])
    /\ UNCHANGED <<sessions, api_tokens, held, offered>>

\* verify_login copies the account under the lock and verifies the copy
Login(c) ==
    /\ c \in Browsers /\ request[c].at = "idle" /\ IsClaimed
    /\ \E n \in Members, p \in Passwords :
          IF users[n].password = p
          THEN Step(c, [Idle EXCEPT !.at = "issuing", !.as =
                   [Nobody EXCEPT !.name = n, !.number = users[n].number]])
          ELSE Done(c)
    /\ UNCHANGED <<users, sessions, api_tokens, held, offered, used>>

\* issue_session; the redirect shows a page of links
IssueSession(c) ==
    /\ request[c].at = "issuing"
    /\ used.sessions < MaxSessions
    /\ sessions' = Put(sessions, used.sessions + 1,
                       [name |-> request[c].as.name, number |-> request[c].as.number])
    /\ used' = [used EXCEPT !.sessions = @ + 1]
    /\ held' = [held EXCEPT ![c] = used.sessions + 1]
    /\ offered' = [offered EXCEPT ![c] = Sidebar]
    /\ Done(c)
    /\ UNCHANGED <<users, api_tokens>>

-----------------------------------------------------------------------------
(* require_operator, then the handler *)

\* what a client may ask for: a button of its page, or anything a script can post;
\* which one it was is told when the handler runs
Asks(c) == IF c \in Browsers THEN offered[c]
           ELSE {Action(op, n) : op \in {"add", "reset", "remove"}, n \in Names}
                    \cup {OwnPassword}

Ask(c) ==
    /\ request[c].at = "idle" /\ IsClaimed /\ held[c] # NoCredential
    /\ Step(c, [Idle EXCEPT !.at = IF c \in Browsers THEN "looking" ELSE "admitting"])
    /\ UNCHANGED <<users, sessions, api_tokens, held, offered, used>>

\* user_for: the session of the cookie is read
Look(c) ==
    /\ request[c].at = "looking"
    /\ Step(c, [request[c] EXCEPT !.at = "admitting", !.as =
           IF held[c] \in DOMAIN sessions
           THEN [Nobody EXCEPT !.name = sessions[held[c]].name,
                               !.number = sessions[held[c]].number]
           ELSE Nobody])
    /\ UNCHANGED <<users, sessions, api_tokens, held, offered, used>>

FaultyStillMember(n) == n # NoName

\* user_admin is asked on every request: None when the account no longer exists
StillMember(n) == n \in Members

IsAdmin(n) == n \in Members /\ users[n].admin

\* then the account; a bearer token instead when there is no cookie
Admit(c) ==
    /\ request[c].at = "admitting"
    /\ LET n == request[c].as.name IN
       IF StillMember(n)
       THEN Step(c, [request[c] EXCEPT !.at = "acting", !.as.admin = IsAdmin(n)])
       ELSE IF c \in Scripts /\ held[c] \in DOMAIN api_tokens
       THEN Step(c, [request[c] EXCEPT !.at = "acting", !.as =
                        [Nobody EXCEPT !.name = api_tokens[held[c]], !.via_token = TRUE]])
       ELSE Done(c)
    /\ UNCHANGED <<users, sessions, api_tokens, held, offered, used>>

IsAdded(n, p, admin) == n \notin Members /\ AddUser(n, p, admin)

IsReset(n, p) ==
    /\ n \in Members
    /\ users' = [users EXCEPT ![n].password = p]
    /\ UNCHANGED used

\* remove_user: never the last administrator
MayRemove(n) ==
    /\ n \in Members
    /\ users[n].admin => \E m \in Members \ {n} : users[m].admin

IsRemoved(n) == MayRemove(n) /\ users' = Drop(users, n) /\ UNCHANGED used

\* require_admin and the tests of each handler
RequireAdmin(as) == as.admin

Accepted(as, a) ==
    \/ a.op \in {"add", "reset", "mint", "revoke"} /\ RequireAdmin(as)
    \/ a.op = "remove" /\ RequireAdmin(as) /\ a.name # as.name
    \/ a.op = "password" /\ ~as.via_token
    \/ a.op \in {"view", "logout"}

TeamAction(c) ==
    /\ request[c].at = "acting"
    /\ \E a \in Asks(c) :
          /\ a.op \in {"add", "reset", "remove"}
          /\ \/ /\ Accepted(request[c].as, a)
                /\ \/ a.op = "add" /\ \E p \in Passwords, admin \in BOOLEAN :
                                            IsAdded(a.name, p, admin)
                   \/ a.op = "reset" /\ \E p \in Passwords : IsReset(a.name, p)
                   \/ a.op = "remove" /\ IsRemoved(a.name)
             \/ /\ \/ ~Accepted(request[c].as, a)
                   \/ a.op = "add" /\ (a.name \in Members \/ used.accounts = MaxAccounts)
                   \/ a.op = "reset" /\ a.name \notin Members
                   \/ a.op = "remove" /\ ~MayRemove(a.name)
                /\ UNCHANGED <<users, used>>
    /\ Done(c)
    /\ UNCHANGED <<sessions, api_tokens, held, offered>>

\* change_password: the current one is proved first, then the new one is set
ProvePassword(c) ==
    /\ request[c].at = "acting" /\ OwnPassword \in Asks(c)
    /\ \E current \in Passwords :
          IF /\ Accepted(request[c].as, OwnPassword)
             /\ request[c].as.name \in Members
             /\ users[request[c].as.name].password = current
          THEN Step(c, [request[c] EXCEPT !.at = "verifying"])
          ELSE Done(c)
    /\ UNCHANGED <<users, sessions, api_tokens, held, offered, used>>

ChangePassword(c) ==
    /\ request[c].at = "verifying"
    /\ \/ \E p \in Passwords : IsReset(request[c].as.name, p)
       \/ request[c].as.name \notin Members /\ UNCHANGED <<users, used>>
    /\ Done(c)
    /\ UNCHANGED <<sessions, api_tokens, held, offered>>

\* the token is shown once, and given to a script
TokenAction(c) ==
    /\ request[c].at = "acting"
    /\ \E a \in Asks(c) :
          /\ a.op \in {"mint", "revoke"}
          /\ \/ /\ Accepted(request[c].as, a) /\ a.op = "mint"
                /\ a.name \notin Range(api_tokens) /\ used.tokens < MaxTokens
                /\ api_tokens' = Put(api_tokens, used.tokens + 1, a.name)
                /\ used' = [used EXCEPT !.tokens = @ + 1]
                /\ \E s \in Scripts : held' = [held EXCEPT ![s] = used.tokens + 1]
             \/ /\ Accepted(request[c].as, a) /\ a.op = "revoke"
                /\ api_tokens' = Restrict(api_tokens,
                                     {t \in DOMAIN api_tokens : api_tokens[t] # a.name})
                /\ UNCHANGED <<used, held>>
             \/ /\ \/ ~Accepted(request[c].as, a)
                   \/ a.op = "mint" /\ (a.name \in Range(api_tokens) \/ used.tokens = MaxTokens)
                /\ UNCHANGED <<api_tokens, used, held>>
    /\ Done(c)
    /\ UNCHANGED <<users, sessions, offered>>

\* the page is rendered for the caller as the middleware saw him
ViewPage(c) ==
    /\ request[c].at = "acting"
    /\ \E p \in Page :
          /\ View(p) \in Asks(c)
          /\ offered' = [offered EXCEPT ![c] = Offers(p, request[c].as)]
    /\ Done(c)
    /\ UNCHANGED <<users, sessions, api_tokens, held, used>>

Logout(c) ==
    /\ request[c].at = "acting" /\ Action("logout", NoName) \in Asks(c)
    /\ sessions' = Drop(sessions, held[c])
    /\ held' = [held EXCEPT ![c] = NoCredential]
    /\ offered' = [offered EXCEPT ![c] = {}]
    /\ Done(c)
    /\ UNCHANGED <<users, api_tokens, used>>

\* "a restart signing everyone out is the correct behaviour"
Restart ==
    /\ sessions' = EmptyTable
    /\ request' = [c \in Clients |-> Idle]
    /\ UNCHANGED <<users, api_tokens, held, offered, used>>

-----------------------------------------------------------------------------
Progress(c) ==
    \/ Claim(c) \/ IssueSession(c) \/ Look(c) \/ Admit(c)
    \/ ProvePassword(c) \/ ChangePassword(c)
    \/ TeamAction(c) \/ TokenAction(c) \/ ViewPage(c) \/ Logout(c)

AccessNext ==
    \/ \E c \in Clients : Setup(c) \/ Login(c) \/ Ask(c) \/ Progress(c)
    \/ Restart

\* a browser's request the server has taken up goes on
AccessSpec ==
    AccessInit /\ [][AccessNext]_accessVars /\ \A b \in Browsers : WF_accessVars(Progress(b))

-----------------------------------------------------------------------------
(* Properties *)

\* "deleting a user takes effect immediately, sessions included": once an account is
\* gone for good, a time comes after which no request acts in its name, whatever
\* sessions it had, was being given, or had requests of.
ActsAs(c, n) == request[c].at \in {"acting", "verifying"} /\ ~request[c].as.via_token
                    /\ request[c].as.name = n

RemovedMembersAreOut ==
    \A n \in Names : <>[](n \notin Members) => <>[](\A c \in Clients : ~ActsAs(c, n))

\* No page offers its reader, an account in good standing, a button the server would
\* refuse on the state it was rendered from.
ButtonsWork ==
    \A n \in Members, p \in Page :
        LET as == [Nobody EXCEPT !.name = n, !.admin = users[n].admin] IN
        \A a \in Offers(p, as) :
            /\ Accepted(as, a)
            /\ a.op = "remove" => MayRemove(a.name)
            /\ a.op = "reset" => a.name \in Members
            /\ a.op = "revoke" => a.name \in Range(api_tokens)
=============================================================================
