------------------------------ MODULE DeployLog ------------------------------
(***************************************************************************)
(* The output of a deployment on its way from the programs an agent runs   *)
(* to an operator's drawer: Executor::run and run_step (agent, deploy.rs), *)
(* append_log and finish_deployment (control plane), the server's client   *)
(* cache and deployment_log (main.rs, fleet.rs), showLog (app.js).         *)
(*                                                                         *)
(* A program writes into two pipes that hold little, and stops while one   *)
(* is full; the agent reads one itself and leaves the other to a thread.   *)
(* The agent may end at any point.  By the time it is started again, what  *)
(* its old connection had sent has been run or is lost, as in module       *)
(* Fleet.                                                                  *)
(***************************************************************************)
EXTENDS ControlPlane, Sequences

CONSTANTS
    agent_id, server_id,   \* the two clients of the control plane
    Programs,              \* how many programs the strategy runs
    MaxLines,              \* bound: lines the programs write
    PipeSize,              \* lines a pipe holds
    Recovery,              \* 4_000_000_000, beyond any number of an attempt
    MaxCalls, MaxLag,      \* bounds: reducer calls and updates on their way
    Fetches,               \* bound: requests for the log at one time
    MaxCrashes             \* bound

ASSUME DeployLogAssumption ==
    /\ {Programs, PipeSize, MaxCalls, MaxLag} \subseteq Nat \ {0}
    /\ {MaxLines, Recovery, MaxCrashes} \subseteq Nat
    /\ Recovery > 3 + 2 * Programs + MaxLines

VARIABLES
    at,          \* where the executor is
    program,     \* the step it has come to
    child,       \* the program: "none", "running", or how it ended
    due,         \* lines the program has yet to write into each pipe
    pipe,        \* numbers of the lines in each pipe
    collected,   \* what the stderr thread has read
    said,        \* what log was called with: the n-th call has seq n - 1
    calls,       \* reducer calls not yet run
    feed,        \* updates the server has not applied
    cache,       \* the server's copy: the deployment's status, its lines by seq
    fetch,       \* the answers being made for the drawer
    drawer,      \* what it shows
    crashes,
    printed      \* history: how many lines the programs wrote into each pipe

executorVars == <<at, program, said>>
childVars    == <<child, due, pipe, collected, printed>>
serverVars   == <<feed, cache, fetch, drawer>>
logVars      == <<vars, executorVars, childVars, calls, serverVars, crashes>>

-----------------------------------------------------------------------------
Stream == {"stdout", "stderr"}
None == [s \in Stream |-> 0]
NoChild == "none"
Total(n) == n["stdout"] + n["stderr"]

Own(stream) == [stream |-> stream, line |-> 0]      \* a line of the agent's own
Line(stream, n) == [stream |-> stream, line |-> n]  \* the n-th a program wrote

StartCall == [kind |-> "start"]
LogCall(seq) == [kind |-> "log", seq |-> seq]
FinishCall(ok) == [kind |-> "finish", ok |-> ok]

d == 1
Status == deployment[d].status
Seen == [status |-> deployment[d].status, rows |-> {l.seq : l \in deploy_log_line}]

NotAsked == [at |-> "idle"]
Closed == [status |-> "none", rows |-> {}]

\* an agent's host with a deployment queued on it
DeployLogInit ==
    /\ \E n \in HostNames : host = Put(EmptyTable, 1,
           [name |-> n, status |-> "Online", cpu_pct |-> 0, silence |-> 0, workload_count |-> 0])
    /\ agent_binding = Put(EmptyTable, agent_id, 1)
    /\ operator = {server_id}
    /\ enrollment_token = EmptyTable /\ workload = {}
    /\ \E n \in AppNames : application = Put(EmptyTable, 1, n)
    /\ \E c \in Commits : deployment = Put(EmptyTable, d,
           [app_id |-> 1, host_id |-> 1, commit_sha |-> c, status |-> "Queued",
            started |-> FALSE, finished |-> FALSE])
    /\ deploy_log_line = {}
    /\ next_id = [host |-> 2, app |-> 2, deployment |-> 2]
    /\ conn = [s \in Identities |-> 1] /\ since_sweep = 0
    /\ at = "idle" /\ program = 1 /\ said = <<>>
    /\ child = NoChild /\ due = None /\ printed = None
    /\ pipe = [s \in Stream |-> <<>>] /\ collected = <<>>
    /\ calls = <<>> /\ feed = <<>> /\ cache = Seen
    /\ fetch = [i \in Fetches |-> NotAsked] /\ drawer = Closed
    /\ crashes = 0

-----------------------------------------------------------------------------
(* Executor::run, execute *)

HasRoom == Len(calls) < MaxCalls

\* the closure log: the next number, and a call that is not waited for
Log(entry) ==
    /\ HasRoom
    /\ said' = Append(said, entry)
    /\ calls' = Append(calls, LogCall(Len(said)))

Claim ==
    /\ at = "idle" /\ HasRoom
    /\ calls' = Append(calls, StartCall)
    /\ at' = "preparing"
    /\ UNCHANGED <<vars, program, said, childVars, serverVars, crashes>>

\* "Fetching", and whatever may fail before the first program
Prepare ==
    /\ at = "preparing"
    /\ Log(Own("stdout"))
    /\ at' \in {"spawning", "failing"}
    /\ UNCHANGED <<vars, program, childVars, serverVars, crashes>>

\* "$ program": it runs, with so much to say, or cannot be run
Spawn ==
    /\ at = "spawning" /\ program <= Programs
    /\ Log(Own("stdout"))
    /\ \/ /\ child' = "running"
          /\ due' \in {n \in [Stream -> 0 .. MaxLines] : Total(n) + Total(printed) <= MaxLines}
          /\ at' = "reading"
       \/ at' = "failing" /\ UNCHANGED <<child, due>>
    /\ UNCHANGED <<vars, program, pipe, collected, printed, serverVars, crashes>>

AllAccepted ==
    /\ at = "spawning" /\ program > Programs
    /\ at' = "succeeding"
    /\ UNCHANGED <<vars, program, said, childVars, calls, serverVars, crashes>>

-----------------------------------------------------------------------------
(* run_step *)

\* the program, which waits when the pipe is full
Write(s) ==
    /\ child = "running" /\ due[s] > 0 /\ Len(pipe[s]) < PipeSize
    /\ due' = [due EXCEPT ![s] = @ - 1]
    /\ printed' = [printed EXCEPT ![s] = @ + 1]
    /\ pipe' = [pipe EXCEPT ![s] = Append(@, printed[s] + 1)]
    /\ UNCHANGED <<vars, executorVars, child, collected, calls, serverVars, crashes>>

\* an exit code the step accepts, one it tolerates, or one it does not
Exit ==
    /\ child = "running" /\ due = None
    /\ child' \in {"accepted", "tolerated", "rejected"}
    /\ UNCHANGED <<vars, executorVars, due, pipe, collected, printed, calls, serverVars, crashes>>

FaultyMayCollect == at = "waiting"

\* the thread that drains stderr runs from the start
MayCollect == at \in {"reading", "waiting"}

Collect ==
    /\ MayCollect /\ pipe["stderr"] # <<>>
    /\ collected' = Append(collected, Head(pipe["stderr"]))
    /\ pipe' = [pipe EXCEPT !["stderr"] = Tail(@)]
    /\ UNCHANGED <<vars, executorVars, child, due, printed, calls, serverVars, crashes>>

ReadLine ==
    /\ at = "reading" /\ pipe["stdout"] # <<>>
    /\ Log(Line("stdout", Head(pipe["stdout"])))
    /\ pipe' = [pipe EXCEPT !["stdout"] = Tail(@)]
    /\ UNCHANGED <<vars, at, program, child, due, collected, printed, serverVars, crashes>>

\* stdout ends with the program, whose status is taken
Wait ==
    /\ at = "reading" /\ pipe["stdout"] = <<>> /\ child # "running"
    /\ at' = "waiting"
    /\ UNCHANGED <<vars, program, said, childVars, calls, serverVars, crashes>>

Join ==
    /\ at = "waiting" /\ pipe["stderr"] = <<>>
    /\ at' = "relaying"
    /\ UNCHANGED <<vars, program, said, childVars, calls, serverVars, crashes>>

Relay ==
    /\ at = "relaying" /\ collected # <<>>
    /\ Log(Line("stderr", Head(collected)))
    /\ collected' = Tail(collected)
    /\ UNCHANGED <<vars, at, program, child, due, pipe, printed, serverVars, crashes>>

FaultyMayJudge == at = "relaying" /\ (collected = <<>> \/ child = "rejected")

MayJudge == at = "relaying" /\ collected = <<>>

\* the status is looked at once everything has been said; a tolerated one is noted
Judge ==
    /\ MayJudge
    /\ \/ child = "rejected" /\ at' = "failing" /\ UNCHANGED <<program, said, calls>>
       \/ /\ child \in {"accepted", "tolerated"}
          /\ at' = "spawning" /\ program' = program + 1
          /\ IF child = "tolerated" THEN Log(Own("stdout")) ELSE UNCHANGED <<said, calls>>
    /\ child' = NoChild
    /\ UNCHANGED <<vars, due, pipe, collected, printed, serverVars, crashes>>

\* the last line, and report
Conclude ==
    /\ HasRoom
    /\ \/ at = "succeeding" /\ said' = Append(said, Own("stdout"))
          /\ calls' = calls \o <<LogCall(Len(said)), FinishCall(TRUE)>>
       \/ at = "failing" /\ said' = Append(said, Own("stderr"))
          /\ calls' = calls \o <<LogCall(Len(said)), FinishCall(FALSE)>>
    /\ at' = "done"
    /\ UNCHANGED <<vars, program, childVars, serverVars, crashes>>

-----------------------------------------------------------------------------
(* The agent ends; the next one fails what it finds Running *)

Crash ==
    /\ crashes < MaxCrashes /\ at # "down"
    /\ crashes' = crashes + 1
    /\ at' = "down"
    /\ child' = NoChild /\ due' = None
    /\ pipe' = [s \in Stream |-> <<>>] /\ collected' = <<>>
    /\ \E n \in 0 .. Len(calls) : calls' = SubSeq(calls, 1, n)
    /\ UNCHANGED <<vars, program, said, printed, serverVars>>

\* recover_stranded, or the deployment is still there to be claimed
Restart ==
    /\ at = "down" /\ calls = <<>>
    /\ \/ /\ Status = "Running"
          /\ calls' = <<LogCall(Recovery), FinishCall(FALSE)>>
          /\ at' = "done"
          /\ UNCHANGED <<program, said, printed>>
       \/ /\ Status = "Queued"
          /\ at' = "idle" /\ program' = 1 /\ said' = <<>> /\ printed' = None
          /\ UNCHANGED calls
       \/ /\ Status \notin InFlight
          /\ at' = "done" /\ UNCHANGED <<program, said, printed, calls>>
    /\ UNCHANGED <<vars, child, due, pipe, collected, serverVars, crashes>>

-----------------------------------------------------------------------------
(* The control plane, and the server's copy of it *)

\* a call that is refused changes nothing
Runs(call) ==
    \/ /\ call.kind = "start"
       /\ IF IsClaimable(agent_id, d) THEN StartDeployment(agent_id, d) ELSE UNCHANGED vars
    \/ call.kind = "log" /\ AppendLog(agent_id, d, call.seq)
    \/ call.kind = "finish" /\ FinishDeployment(agent_id, d, call.ok)

Deliver ==
    /\ calls # <<>> /\ Len(feed) < MaxLag
    /\ Runs(Head(calls))
    /\ calls' = Tail(calls)
    /\ feed' = Append(feed, Seen')
    /\ UNCHANGED <<executorVars, childVars, cache, fetch, drawer, crashes>>

Apply ==
    /\ feed # <<>>
    /\ cache' = Head(feed) /\ feed' = Tail(feed)
    /\ UNCHANGED <<vars, executorVars, childVars, calls, fetch, drawer, crashes>>

-----------------------------------------------------------------------------
(* The drawer *)

Goes(i, f) == fetch' = [fetch EXCEPT ![i] = f]
executorSide == <<vars, executorVars, childVars, calls, feed, cache, crashes>>

\* showLog: a click on the row, or an event while the drawer is open; deployment_log
\* reads the deployment's row first, then its lines
ShowLog(i) ==
    /\ fetch[i] = NotAsked
    /\ Goes(i, [at |-> "reading", status |-> cache.status])
    /\ UNCHANGED <<executorSide, drawer>>

BuildDetail(i) ==
    /\ fetch[i].at = "reading"
    /\ Goes(i, [at |-> "answered", status |-> fetch[i].status, rows |-> cache.rows])
    /\ UNCHANGED <<executorSide, drawer>>

\* answers arrive in any order, also after closeLog
Land(i) ==
    /\ fetch[i].at = "answered"
    /\ drawer' = [status |-> fetch[i].status, rows |-> fetch[i].rows]
    /\ Goes(i, NotAsked)
    /\ UNCHANGED executorSide

CloseLog ==
    /\ drawer # Closed
    /\ drawer' = Closed
    /\ UNCHANGED <<executorSide, fetch>>

\* lines.sort_by_key(seq)
Sorted(rows) ==
    [i \in 1 .. Cardinality(rows) |->
        CHOOSE n \in rows : Cardinality({m \in rows : m < n}) = i - 1]

Shown(rows) ==
    [i \in 1 .. Cardinality(rows) |->
        LET n == Sorted(rows)[i] IN IF n = Recovery THEN Own("stderr") ELSE said[n + 1]]

-----------------------------------------------------------------------------
Executor ==
    \/ Claim \/ Prepare \/ Spawn \/ AllAccepted \/ ReadLine \/ Wait \/ Join
    \/ Relay \/ Judge \/ Conclude \/ Restart

Child == Exit \/ \E s \in Stream : Write(s)

Drawer == CloseLog \/ \E i \in Fetches :
              ShowLog(i) \/ BuildDetail(i) \/ Land(i)

DeployLogNext == Executor \/ Child \/ Collect \/ Crash \/ Deliver \/ Apply \/ Drawer

\* threads run, a program that is not kept waiting comes to its end, the service
\* manager starts the agent again, calls and updates arrive
DeployLogSpec ==
    /\ DeployLogInit /\ [][DeployLogNext]_logVars
    /\ WF_logVars(Executor) /\ WF_logVars(Child) /\ WF_logVars(Collect)
    /\ WF_logVars(Deliver) /\ WF_logVars(Apply)

-----------------------------------------------------------------------------
(* Properties *)

\* the lines say the first n that a program wrote into s, in that order and no others
Tells(lines, s, n) ==
    LET own == {i \in DOMAIN lines : lines[i].stream = s /\ lines[i].line > 0} IN
    /\ \A m \in 1 .. n : \E i \in own : lines[i].line = m
    /\ \A i \in own : lines[i].line <= n
    /\ \A i, j \in own : i < j => lines[i].line < lines[j].line

\* A drawer that says a deployment has ended shows every line its programs wrote, each
\* stream in the order it was written, although lines, outcome and updates travel by
\* themselves and the page reads the row and the lines one after the other; unless the
\* log says that the agent was restarted half way.
FinishedLogsAreWhole ==
    drawer.status \in {"Succeeded", "Failed"} /\ Recovery \notin drawer.rows =>
        \A s \in Stream : Tells(Shown(drawer.rows), s, printed[s])

\* whose next step is open, by the guards of the actions; where one asks for room among
\* the calls there is some when none is on its way
ExecutorGoesOn ==
    \/ at \in {"idle", "preparing", "spawning", "failing", "succeeding", "down"}
    \/ at = "reading" /\ (pipe["stdout"] # <<>> \/ child # "running")
    \/ at = "waiting" /\ pipe["stderr"] = <<>>
    \/ MayJudge /\ child \in {"accepted", "tolerated", "rejected"}
    \/ at = "relaying" /\ collected # <<>>
ChildGoesOn ==
    /\ child = "running"
    /\ due = None \/ \E s \in Stream : due[s] > 0 /\ Len(pipe[s]) < PipeSize
ThreadGoesOn == MayCollect /\ pipe["stderr"] # <<>>

\* Nobody waits for somebody who waits for him: as long as the deployment has no outcome
\* a call is on its way, or one of the executor, the program and the thread can go on,
\* however full the pipes are and wherever the agent had ended.
NeverStuck ==
    Status \in InFlight => calls # <<>> \/ ExecutorGoesOn \/ ChildGoesOn \/ ThreadGoesOn

\* "otherwise a chatty build fills the pipe buffer and the child blocks forever": every
\* deployment comes to an outcome, however much its programs write, and wherever.
DeploymentsAreHeardOut == <>[](Status \notin InFlight)
=============================================================================
