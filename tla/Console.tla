------------------------------- MODULE Console -------------------------------
(***************************************************************************)
(* What an operator sees.  DigiHost Server subscribes to the tables of the *)
(* control plane, keeps them in a client cache (module_bindings/mod.rs),   *)
(* turns row callbacks into a broadcast (main), and redraws every open     *)
(* fleet page from the cache when it hears one (events, fleet.rs, view.rs, *)
(* assets/app.js).  Updates travel, callbacks run after their rows are     *)
(* applied, a page is loaded before it listens, a redraw reads one table   *)
(* after the other, and the server's own connection may be lost, which     *)
(* main only logs.                                                         *)
(***************************************************************************)
EXTENDS ControlPlane, SequencesExt

CONSTANTS
    server,      \* the operator's identity, which the server holds
    Agents,      \* identities of agents
    Tabs,        \* open in browsers
    Earlier,     \* releases an instance may already have made on its host
    Capacity,    \* the broadcast channel holds 64 changes; any number shows the same
    MaxDialogs,  \* bound: deployments up to this id are queued from dialogs
    MaxLag       \* bound: transactions on their way to the cache

ASSUME ConsoleAssumption ==
    /\ server \in Identities /\ Agents \subseteq Identities \ {server}
    /\ Capacity \in Nat \ {0} /\ MaxLag \in Nat \ {0}
    /\ Earlier \in 0 .. MaxDeployments /\ MaxDialogs \in Nat
    /\ MaxConnections > 0 /\ MaxHosts > 0 /\ MaxApps > 0

VARIABLES
    link,        \* the server's connection; once lost it is never opened again
    errands,     \* second calls of roll backs under way
    stream,      \* transactions the subscription has not applied yet
    cache,       \* the client cache
    callbacks,   \* row callbacks of the applied diff that have not run yet
    at,          \* what each tab is doing
    waiting,     \* changes in its receiver
    lagged,      \* its receiver dropped some
    draft,       \* the rows a redraw has read so far
    page,        \* what the tab shows
    redrawn      \* its stream has redrawn the page since it opened (history)

serverVars  == <<link, errands>>
feedVars    == <<stream, cache, callbacks>>
tabVars     == <<at, waiting, lagged, draft, page, redrawn>>
consoleVars == <<vars, serverVars, feedVars, tabVars>>

-----------------------------------------------------------------------------
(* fleet.rs: rows into what a page says *)

Rows == [application |-> application, host |-> host, workload |-> workload,
         deployment |-> deployment]

Removed == "removed"      \* "app N", "host N"

NameOfApp(t, a) == IF a \in DOMAIN t.application THEN t.application[a] ELSE Removed
NameOfHost(t, h) == IF h \in DOMAIN t.host THEN t.host[h].name ELSE Removed

HostRow(t, h) ==
    [name |-> t.host[h].name, status |-> t.host[h].status, cpu_pct |-> t.host[h].cpu_pct,
     workloads |-> Cardinality({w \in t.workload : w.host_id = h})]

DeploymentRow(t, d) ==
    LET dep == t.deployment[d] IN
    [app |-> NameOfApp(t, dep.app_id), host |-> NameOfHost(t, dep.host_id),
     commit |-> dep.commit_sha, status |-> dep.status,
     lasted |-> dep.started /\ dep.finished]

\* build: the rows, and the counts of the four panels
Body(t) ==
    [hosts |-> [h \in DOMAIN t.host |-> HostRow(t, h)],
     deployments |-> [d \in DOMAIN t.deployment |-> DeploymentRow(t, d)],
     online |-> Cardinality({h \in DOMAIN t.host : t.host[h].status # "Offline"}),
     workloads |-> Cardinality(t.workload),
     failed |-> Cardinality({d \in DOMAIN t.deployment :
                                 t.deployment[d].status = "Failed"})]

Blank == Body([application |-> EmptyTable, host |-> EmptyTable, workload |-> {},
               deployment |-> EmptyTable])

(* view.rs: the buttons of a row *)

FaultyOffersRemove(row) == row.status # "Online"

OffersRemove(row) == row.status = "Offline"
OffersDrain(row) == row.status = "Online"
OffersResume(row) == row.status = "Draining"

OffersRollback(row) == row.status = "Succeeded"

-----------------------------------------------------------------------------
(* A claimed instance, with nothing but enrolment codes or with a host that has had   *)
(* earlier releases and is away; nobody looks yet                                     *)

Unread == [application |-> EmptyTable, host |-> EmptyTable]

Fresh ==
    /\ host = EmptyTable /\ agent_binding = EmptyTable /\ application = EmptyTable
    /\ deployment = EmptyTable
    /\ enrollment_token = [k \in Codes |-> NotConsumed]
    /\ next_id = [host |-> 1, app |-> 1, deployment |-> 1]

Released ==
    \E a \in Agents, code \in Codes, n \in HostNames, p \in AppNames,
       commit \in [1 .. Earlier -> Commits] :
        /\ host = Put(EmptyTable, 1, [name |-> n, status |-> "Offline", cpu_pct |-> 0,
                                      silence |-> 0, workload_count |-> 0])
        /\ agent_binding = Put(EmptyTable, a, 1)
        /\ application = Put(EmptyTable, 1, p)
        /\ deployment = [d \in 1 .. Earlier |->
               [app_id |-> 1, host_id |-> 1, commit_sha |-> commit[d],
                status |-> "Succeeded", started |-> TRUE, finished |-> TRUE]]
        /\ enrollment_token = [k \in Codes |-> IF k = code THEN 1 ELSE NotConsumed]
        /\ next_id = [host |-> 2, app |-> 2, deployment |-> Earlier + 1]

ConsoleInit ==
    /\ Fresh \/ Released
    /\ conn = [s \in Identities |-> IF s = server THEN 1 ELSE 0]
    /\ operator = {server}
    /\ workload = {} /\ deploy_log_line = {}
    /\ since_sweep = 0
    /\ link = TRUE /\ errands = {}
    /\ stream = <<>> /\ cache = Rows /\ callbacks = 0
    /\ at = [b \in Tabs |-> "away"]
    /\ waiting = [b \in Tabs |-> 0]
    /\ lagged = [b \in Tabs |-> FALSE]
    /\ draft = [b \in Tabs |-> Unread]
    /\ page = [b \in Tabs |-> Blank]
    /\ redrawn = [b \in Tabs |-> FALSE]

-----------------------------------------------------------------------------
(* The change stream *)

\* a transaction that writes rows is sent to the subscriber, whom it never reaches once
\* the link is down; `beat' is the host whose row it rewrote with the same contents but
\* for last_seen
Sent(beat) ==
    IF Rows' = Rows /\ beat = {} THEN UNCHANGED stream
    ELSE stream' = Append(stream, [rows |-> Rows', beat |-> beat])

Inserted(old, new) == DOMAIN new \ DOMAIN old
Deleted(old, new)  == DOMAIN old \ DOMAIN new
Updated(old, new)  == {k \in DOMAIN old \cap DOMAIN new : old[k] # new[k]}

FaultyHeard(new, beat) ==
    Cardinality(Inserted(cache.host, new.host))
    + Cardinality(Updated(cache.host, new.host) \cup beat)
    + Cardinality(Inserted(cache.application, new.application))
    + Cardinality(Inserted(cache.deployment, new.deployment))
    + Cardinality(Updated(cache.deployment, new.deployment))

\* the row changes main registered a callback for: hosts and their workloads in full,
\* new and changed deployments, new applications (and new log lines, which no page shows)
Heard(new, beat) ==
    Cardinality(Inserted(cache.host, new.host))
    + Cardinality(Deleted(cache.host, new.host))
    + Cardinality(Updated(cache.host, new.host) \cup beat)
    + Cardinality(new.workload \ cache.workload)
    + Cardinality(cache.workload \ new.workload)
    + Cardinality(Inserted(cache.application, new.application))
    + Cardinality(Inserted(cache.deployment, new.deployment))
    + Cardinality(Updated(cache.deployment, new.deployment))

\* apply_to_client_cache; the callbacks of the diff follow, of which as many count as
\* fill a receiver and then some
Apply ==
    /\ link /\ stream # <<>> /\ callbacks = 0
    /\ cache' = Head(stream).rows
    /\ callbacks' = Min({Capacity + 1, Heard(Head(stream).rows, Head(stream).beat)})
    /\ stream' = Tail(stream)
    /\ UNCHANGED <<vars, serverVars, tabVars>>

\* bump: one message into every receiver, the oldest of a full one is lost
Announce ==
    /\ callbacks > 0
    /\ callbacks' = callbacks - 1
    /\ LET listening == {b \in Tabs : at[b] \in {"live", "drawing"}} IN
       /\ waiting' = [b \in Tabs |-> IF b \in listening /\ waiting[b] < Capacity
                                         THEN waiting[b] + 1 ELSE waiting[b]]
       /\ lagged' = [b \in Tabs |-> lagged[b] \/ (b \in listening /\ waiting[b] = Capacity)]
    /\ UNCHANGED <<vars, serverVars, stream, cache, at, draft, page, redrawn>>

-----------------------------------------------------------------------------
(* A tab *)

\* snapshot reads the applications and hosts, then the workloads and deployments
ReadFirst(b) ==
    draft' = [draft EXCEPT ![b] = [application |-> cache.application, host |-> cache.host]]
ForgetDraft(b) == draft' = [draft EXCEPT ![b] = Unread]
Snapshot(b) ==
    Body([cache EXCEPT !.application = draft[b].application, !.host = draft[b].host])

\* index
Open(b) ==
    /\ at[b] = "away"
    /\ at' = [at EXCEPT ![b] = "loading"]
    /\ ReadFirst(b)
    /\ UNCHANGED <<vars, serverVars, feedVars, waiting, lagged, page, redrawn>>

Load(b) ==
    /\ at[b] = "loading"
    /\ at' = [at EXCEPT ![b] = "loaded"]
    /\ page' = [page EXCEPT ![b] = Snapshot(b)]
    /\ redrawn' = [redrawn EXCEPT ![b] = FALSE]
    /\ ForgetDraft(b)
    /\ UNCHANGED <<vars, serverVars, feedVars, waiting, lagged>>

\* EventSource: the receiver starts with nothing in it
Listen(b) ==
    /\ at[b] = "loaded"
    /\ at' = [at EXCEPT ![b] = "live"]
    /\ UNCHANGED <<vars, serverVars, feedVars, waiting, lagged, draft, page, redrawn>>

\* recv, or Lagged: a change either way
Hear(b) ==
    /\ at[b] = "live"
    /\ lagged[b] \/ waiting[b] > 0
    /\ lagged' = [lagged EXCEPT ![b] = FALSE]
    /\ waiting' = [waiting EXCEPT ![b] = IF lagged[b] THEN @ ELSE @ - 1]
    /\ at' = [at EXCEPT ![b] = "drawing"]
    /\ ReadFirst(b)
    /\ UNCHANGED <<vars, serverVars, feedVars, page, redrawn>>

Redraw(b) ==
    /\ at[b] = "drawing"
    /\ at' = [at EXCEPT ![b] = "live"]
    /\ page' = [page EXCEPT ![b] = Snapshot(b)]
    /\ redrawn' = [redrawn EXCEPT ![b] = TRUE]
    /\ ForgetDraft(b)
    /\ UNCHANGED <<vars, serverVars, feedVars, waiting, lagged>>

\* its receiver and a redraw under way are gone
Detached(b) ==
    /\ waiting' = [waiting EXCEPT ![b] = 0]
    /\ lagged' = [lagged EXCEPT ![b] = FALSE]
    /\ ForgetDraft(b)

\* the stream breaks: "Reconnecting...", and EventSource tries again by itself
Break(b) ==
    /\ at[b] \in {"live", "drawing"}
    /\ at' = [at EXCEPT ![b] = "loaded"]
    /\ redrawn' = [redrawn EXCEPT ![b] = FALSE]
    /\ Detached(b)
    /\ UNCHANGED <<vars, serverVars, feedVars, page>>

Leave(b) ==
    /\ at[b] # "away"
    /\ at' = [at EXCEPT ![b] = "away"]
    /\ page' = [page EXCEPT ![b] = Blank]
    /\ redrawn' = [redrawn EXCEPT ![b] = FALSE]
    /\ Detached(b)
    /\ UNCHANGED <<vars, serverVars, feedVars>>

-----------------------------------------------------------------------------
(* What the operator presses, and what agents report meanwhile *)

Shown(b) == at[b] \in {"loaded", "live", "drawing"}

\* the most recent earlier success of the same application on the same host with a
\* different commit, in the cache
Priors(d) ==
    {p \in DOMAIN cache.deployment :
        /\ p < d
        /\ cache.deployment[p].app_id = cache.deployment[d].app_id
        /\ cache.deployment[p].host_id = cache.deployment[d].host_id
        /\ cache.deployment[p].status = "Succeeded"
        /\ cache.deployment[p].commit_sha # cache.deployment[d].commit_sha}

FindsPrior(d) == d \in DOMAIN cache.deployment /\ Priors(d) # {}

\* api::rollback: without a prior it answers at once, otherwise it marks the deployment,
\* and when that succeeded it queues the prior's commit
Rollback(d) ==
    /\ FindsPrior(d)
    /\ RollbackDeployment(server, d)
    /\ errands' = errands \cup
           {[app_id |-> cache.deployment[d].app_id, host_id |-> cache.deployment[d].host_id,
             commit_sha |-> cache.deployment[Max(Priors(d))].commit_sha]}

\* a button of the page as it is shown; the reducer decides by the rows as they are
Press(b) ==
    /\ Shown(b)
    /\ \/ \E h \in DOMAIN page[b].hosts :
             /\ \/ OffersRemove(page[b].hosts[h]) /\ DeleteHost(server, h)
                \/ OffersDrain(page[b].hosts[h]) /\ SetHostDraining(server, h, TRUE)
                \/ OffersResume(page[b].hosts[h]) /\ SetHostDraining(server, h, FALSE)
             /\ UNCHANGED errands
       \/ \E d \in DOMAIN page[b].deployments :
             OffersRollback(page[b].deployments[d]) /\ Rollback(d)

PutBack(e) ==
    /\ QueueDeployment(server, e.app_id, e.host_id, e.commit_sha)
    /\ errands' = errands \ {e}

\* the first call's answer is late or lost, or the second call is refused
GiveUp ==
    /\ errands # {}
    /\ \E e \in errands : errands' = errands \ {e}
    /\ UNCHANGED <<vars, link, feedVars, tabVars>>

\* the dialogs and the applications page
Elsewhere ==
    \/ /\ next_id.deployment <= MaxDialogs
       /\ \E a \in AppId, h \in HostId, c \in Commits : QueueDeployment(server, a, h, c)
    \/ \E n \in AppNames : RegisterApplication(server, n)
    \/ \E a \in AppId : DeleteApplication(server, a)

\* an agent reports the outcome of a deployment in flight (a report that comes twice
\* shows a page nothing new; module Fleet has it)
Agent(a) ==
    \/ ClientConnected(a) \/ ClientDisconnected(a)
    \/ /\ conn[a] > 0
       /\ \/ \E c \in Codes, n \in HostNames : EnrollHost(a, c, n)
          \/ \E d \in DeploymentId :
                \/ StartDeployment(a, d)
                \/ /\ d \in DOMAIN deployment /\ deployment[d].status \in InFlight
                   /\ \E ok \in BOOLEAN : FinishDeployment(a, d, ok)

Beat(a) ==
    /\ conn[a] > 0
    /\ \E load \in Loads, report \in SUBSET WorkloadNames : Heartbeat(a, load, report)

Transaction ==
    /\ Len(stream) < MaxLag
    /\ \/ /\ link
          /\ \/ \E b \in Tabs : Press(b)
             \/ \E e \in errands : PutBack(e)
             \/ Elsewhere /\ UNCHANGED errands
          /\ Sent({})
       \/ /\ \/ \E a \in Agents : Agent(a) /\ Sent({})
             \/ \E a \in Agents : Beat(a) /\ Sent({agent_binding[a]})
          /\ UNCHANGED errands
    /\ UNCHANGED <<link, cache, callbacks, tabVars>>

\* on_disconnect writes a log line: the server runs on with the rows it has
LoseLink ==
    /\ link
    /\ link' = FALSE
    /\ ClientDisconnected(server)
    /\ UNCHANGED <<errands, feedVars, tabVars>>

Tab(b) == Open(b) \/ Load(b) \/ Listen(b) \/ Hear(b) \/ Redraw(b) \/ Break(b) \/ Leave(b)

ConsoleNext ==
    Transaction \/ LoseLink \/ GiveUp \/ Apply \/ Announce \/ \E b \in Tabs : Tab(b)

ConsoleSpec == ConsoleInit /\ [][ConsoleNext]_consoleVars

-----------------------------------------------------------------------------
(* Properties *)

\* what a page says of a deployment, the name of a removed application aside: nobody is
\* told of a removal
SameDeployment(old, new) == [old EXCEPT !.app = new.app] = new
                            /\ old.app \in {new.app} \cup (IF new.app = Removed THEN AppNames ELSE {})

SaysTheSame(old, new) ==
    /\ [old EXCEPT !.deployments = <<>>] = [new EXCEPT !.deployments = <<>>]
    /\ DOMAIN old.deployments = DOMAIN new.deployments
    /\ \A d \in DOMAIN new.deployments :
          SameDeployment(old.deployments[d], new.deployments[d])

\* the tab has heard everything, nothing is on its way to it or to the cache, and what it
\* shows came over the stream it has open
UpToDate(b) ==
    /\ at[b] = "live" /\ redrawn[b]
    /\ waiting[b] = 0 /\ ~lagged[b] /\ callbacks = 0 /\ stream = <<>>

\* "Lagging only means intermediate states were skipped": a page redrawn over its stream
\* that has heard everything says what the tables say, although its redraws read table
\* after table while updates were applied; but for the removal of an application, of
\* which nobody is told.
LivePagesAreCurrent ==
    \A b \in Tabs : UpToDate(b) => SaysTheSame(page[b], Body(Rows))

\* What an up-to-date page offers is done: no reducer refuses a Remove, Drain or Resume,
\* and Roll back finds its deployment, and if it also finds a release to put back, its
\* mark is not refused.  Offer, look-up and test are written in three places, the rows
\* they look at are three copies, and the page is redrawn only when it hears of a change.
OffersAreAccepted ==
    \A b \in Tabs : UpToDate(b) /\ link =>
        /\ RequireOperator(server)
        /\ \A h \in DOMAIN page[b].hosts :
              /\ OffersRemove(page[b].hosts[h]) => IsRemovable(h)
              /\ OffersDrain(page[b].hosts[h]) \/ OffersResume(page[b].hosts[h]) => IsDrainable(h)
        /\ \A d \in DOMAIN page[b].deployments :
              OffersRollback(page[b].deployments[d]) =>
                  /\ d \in DOMAIN cache.deployment
                  /\ FindsPrior(d) => IsRollbackable(d)
=============================================================================
