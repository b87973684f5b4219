---------------------------- MODULE DeployLogProofs ----------------------------
(***************************************************************************)
(* Proofs about DeployLog, for any number of programs, lines, requests for *)
(* the log and crashes, and for pipes and queues of any size.  The         *)
(* invariant follows a line from the pipe to the drawer: what the agent    *)
(* said, which of it the control plane has, and who has seen the end.      *)
(***************************************************************************)
EXTENDS DeployLog, Integers, FiniteSetTheorems, TLAPS

Outcome == {"Succeeded", "Failed"}
Statuses == {"Queued", "Running"} \cup Outcome

Said == [stream : Stream, line : Nat]
LogCalls == {LogCall(n) : n \in Nat}
FinishCalls == {FinishCall(TRUE), FinishCall(FALSE)}
View == [status : Statuses, rows : SUBSET Nat]
Answer == {NotAsked} \cup [at : {"reading"}, status : Statuses]
                     \cup [at : {"answered"}, status : Statuses, rows : SUBSET Nat]

\* the numbers of the lines the control plane has; Seen is these and the status
Logged == {l.seq : l \in deploy_log_line}

\* the agent speaks for the deployment's host, as it did from the start
MayReport ==
    /\ deployment \in [{d} -> [app_id : {1}, host_id : {1}, commit_sha : Commits, status : Statuses,
                               started : BOOLEAN, finished : BOOLEAN]]
    /\ agent_id \in DOMAIN agent_binding /\ agent_binding[agent_id] = 1 /\ 1 \in DOMAIN host

DeployLogTyped ==
    /\ at \in {"idle", "preparing", "spawning", "reading", "waiting", "relaying", "failing",
               "succeeding", "done", "down"}
    /\ program \in Nat /\ crashes \in 0 .. MaxCrashes
    /\ said \in Seq(Said) /\ printed \in [Stream -> Nat]
    /\ child \in {NoChild, "running", "accepted", "tolerated", "rejected"}
    /\ due \in [Stream -> Nat] /\ pipe \in [Stream -> Seq(Nat)] /\ collected \in Seq(Nat)
    /\ calls \in Seq({StartCall} \cup LogCalls \cup FinishCalls)
    /\ Seen \in View /\ feed \in Seq(View) /\ cache \in View
    /\ fetch \in [Fetches -> Answer] /\ drawer \in View \cup {Closed}

-----------------------------------------------------------------------------
(* From the programs to the agent's log *)

AllTold == \A s \in Stream : Tells(said, s, printed[s])

\* what has been written, and is not yet told, is in the pipe or with the stderr thread
Untold(s) == Len(pipe[s]) + IF s = "stderr" THEN Len(collected) ELSE 0
Told(s) == printed[s] - Untold(s)

Waiting ==
    /\ \A s \in Stream : \A i \in 1 .. Len(pipe[s]) :
           pipe[s][i] = printed[s] - Len(pipe[s]) + i
    /\ \A i \in 1 .. Len(collected) : collected[i] = Told("stderr") + i
    /\ \A s \in Stream : Told(s) \in Nat /\ Tells(said, s, Told(s))

\* nothing is under way between two programs, and the streams run dry one after the other
Stages ==
    /\ child = "running" => at = "reading"
    /\ at \in {"waiting", "relaying"} => pipe["stdout"] = <<>>
    /\ at = "relaying" => pipe["stderr"] = <<>>
    /\ at \in {"idle", "preparing", "spawning", "failing", "succeeding", "down"} =>
           \A s \in Stream : Untold(s) = 0
    /\ at = "idle" => said = <<>> /\ printed = None

Executing == Stages /\ (at \notin {"done", "down"} => Waiting)

-----------------------------------------------------------------------------
(* From the agent to the control plane *)

\* the calls of an attempt: 0 starts it, 1 .. Len(said) are its lines, the next its outcome
IsCall(p, call) ==
    \/ p = 0 /\ call = StartCall
    \/ p \in 1 .. Len(said) /\ call = LogCall(p - 1)
    \/ p = Len(said) + 1 /\ call \in FinishCalls

\* what the database says when the calls up to f have run
RunUpTo(f) ==
    /\ f = -1 => Status = "Queued" /\ Logged = {}
    /\ f \in 0 .. Len(said) => Status = "Running" /\ Logged = 0 .. f - 1
    /\ f = Len(said) + 1 => Status \in Outcome /\ Logged = 0 .. Len(said) - 1

\* the calls up to f have run, the next ones are on their way; all there are, unless the
\* agent has ended
Underway(f) ==
    /\ f \in -1 .. Len(said) + 1 /\ RunUpTo(f)
    /\ \A i \in 1 .. Len(calls) : IsCall(f + i, calls[i])
    /\ f + Len(calls) <= Len(said) + 1
    /\ at = "idle" => f + Len(calls) = -1
    /\ at \notin {"idle", "done", "down"} => f + Len(calls) = Len(said)
    /\ at = "done" => f + Len(calls) = Len(said) + 1
    /\ f + Len(calls) = Len(said) + 1 => at \in {"done", "down"} /\ AllTold

\* the agent came back to a deployment it had left half way
Recovered ==
    /\ at \in {"done", "down"} /\ Status # "Queued"
    /\ Status \in Outcome => calls = <<>> /\ Recovery \in Logged
    /\ \/ calls \in {<<>>, <<LogCall(Recovery)>>, <<LogCall(Recovery), FinishCall(FALSE)>>}
       \/ calls = <<FinishCall(FALSE)>> /\ Recovery \in Logged

Reporting == Recovered \/ \E f \in Int : Underway(f)

-----------------------------------------------------------------------------
(* From the control plane to the drawer *)

\* whoever has seen an outcome has seen all there is to see
Watching ==
    /\ \A i \in 1 .. Len(feed) : feed[i].status \in Outcome => i = Len(feed) /\ feed[i] = Seen
    /\ cache.status \in Outcome => feed = <<>> /\ cache = Seen
    /\ \A i \in Fetches :
          /\ fetch[i].at # "idle" /\ fetch[i].status \in Outcome => cache.status = fetch[i].status
          /\ fetch[i].at = "answered" /\ fetch[i].status \in Outcome => fetch[i].rows = Logged
    /\ drawer.status \in Outcome => Status \in Outcome /\ drawer.rows = Logged

DeployLogInv ==
    MayReport /\ DeployLogTyped /\ Executing /\ Reporting /\ Watching
-----------------------------------------------------------------------------
(* Small facts *)

\* what one more line does to what has been told of a stream
LEMMA OneMoreLine ==
    ASSUME NEW lines \in Seq(Said), NEW s \in Stream, NEW n \in Nat, NEW entry \in Said,
           Tells(lines, s, n)
    PROVE  /\ entry = Line(s, n + 1) => Tells(Append(lines, entry), s, n + 1)
           /\ entry.stream # s \/ entry.line = 0 => Tells(Append(lines, entry), s, n)
<1> DEFINE more == Append(lines, entry)
           own == {i \in DOMAIN lines : lines[i].stream = s /\ lines[i].line > 0}
           all == {i \in DOMAIN more : more[i].stream = s /\ more[i].line > 0}
<1>1. /\ Len(lines) \in Nat /\ DOMAIN lines = 1 .. Len(lines) /\ DOMAIN more = 1 .. Len(lines) + 1
      /\ \A i \in DOMAIN lines : more[i] = lines[i] /\ lines[i].line \in Nat
      /\ more[Len(lines) + 1] = entry /\ entry.line \in Nat
  <2>1. Len(lines) \in Nat /\ DOMAIN lines = 1 .. Len(lines) /\ \A i \in DOMAIN lines : lines[i] \in Said
    OBVIOUS
  <2>2. /\ DOMAIN more = 1 .. Len(lines) + 1 /\ more[Len(lines) + 1] = entry
        /\ \A i \in DOMAIN lines : more[i] = lines[i]
    BY <2>1
  <2>3. \A e \in Said : e.line \in Nat BY DEF Said
  <2> QED BY <2>1, <2>2, <2>3
<1>2. /\ \A m \in 1 .. n : \E i \in own : lines[i].line = m
      /\ \A i \in own : lines[i].line <= n
      /\ \A i, j \in own : i < j => lines[i].line < lines[j].line
  BY DEF Tells
<1>3. /\ own \subseteq DOMAIN lines /\ own \subseteq all
      /\ all \subseteq own \cup {Len(lines) + 1}
  BY <1>1
<1> HIDE DEF more
<1>4. CASE entry = Line(s, n + 1)
  <2>1. entry.stream = s /\ entry.line = n + 1 BY <1>4 DEF Line
  <2>2. Len(lines) + 1 \in all BY <1>1, <2>1
  <2> HIDE DEF own, all
  <2>3. ASSUME NEW m \in 1 .. n + 1 PROVE \E i \in all : more[i].line = m
    <3>1. CASE m = n + 1 BY <1>1, <2>1, <2>2, <3>1
    <3>2. CASE m \in 1 .. n BY <1>1, <1>2, <1>3, <3>2
    <3> QED BY <3>1, <3>2
  <2>4. \A i \in all : more[i].line <= n + 1
    BY <1>1, <1>2, <1>3, <2>1
  <2>5. \A i, j \in all : i < j => more[i].line < more[j].line
    BY <1>1, <1>2, <1>3, <2>1
  <2>6. Tells(more, s, n + 1) BY <2>3, <2>4, <2>5 DEF Tells, all
  <2>7. ~(entry.stream # s \/ entry.line = 0) BY <2>1
  <2> QED BY <2>6, <2>7 DEF more
<1>5. CASE entry.stream # s \/ entry.line = 0
  <2>1. all = own BY <1>1, <1>3, <1>5
  <2>2. entry # Line(s, n + 1) BY <1>5 DEF Line
  <2> HIDE DEF own
  <2>3. Tells(more, s, n)
    <3>1. \A m \in 1 .. n : \E i \in all : more[i].line = m BY <1>1, <1>2, <1>3, <2>1
    <3>2. \A i \in all : more[i].line <= n BY <1>1, <1>2, <1>3, <2>1
    <3>3. \A i, j \in all : i < j => more[i].line < more[j].line BY <1>1, <1>2, <1>3, <2>1
    <3> QED BY <3>1, <3>2, <3>3 DEF Tells
  <2> QED BY <2>2, <2>3 DEF more
<1> QED BY <1>4, <1>5 DEF more

LEMMA NothingToTell == \A s \in Stream : Tells(<<>>, s, 0)
BY DEF Tells

\* what a call of the agent does to the row and its lines
LEMMA CallRuns ==
    ASSUME MayReport, NEW call \in {StartCall} \cup LogCalls \cup FinishCalls, Runs(call)
    PROVE  /\ MayReport'
           /\ call = StartCall =>
                  Status' = (IF Status = "Queued" THEN "Running" ELSE Status) /\ Logged' = Logged
           /\ \A n \in Nat : call = LogCall(n) => Status' = Status /\ Logged' = Logged \cup {n}
           /\ \A ok \in BOOLEAN : call = FinishCall(ok) =>
                  Status' = (IF ok THEN "Succeeded" ELSE "Failed") /\ Logged' = Logged
<1> DEFINE Row == [app_id : {1}, host_id : {1}, commit_sha : Commits, status : Statuses,
                   started : BOOLEAN, finished : BOOLEAN]
           Goal == /\ MayReport'
                   /\ call = StartCall =>
                          Status' = (IF Status = "Queued" THEN "Running" ELSE Status)
                          /\ Logged' = Logged
                   /\ \A n \in Nat :
                          call = LogCall(n) => Status' = Status /\ Logged' = Logged \cup {n}
                   /\ \A ok \in BOOLEAN : call = FinishCall(ok) =>
                          Status' = (IF ok THEN "Succeeded" ELSE "Failed") /\ Logged' = Logged
<1> SUFFICES Goal
  OBVIOUS
<1>0. /\ d \in DOMAIN deployment /\ deployment \in [{d} -> Row] /\ Status \in Statuses
      /\ OwnedDeployment(agent_id, d)
  BY DEF MayReport, Status, OwnedDeployment, CallerHost, IsBound, d
<1>1. CASE call = StartCall
  <2>1. CASE Status = "Queued"
    <3>1. StartDeployment(agent_id, d)
      BY <1>0, <1>1, <2>1 DEF Runs, IsClaimable, Status, StartCall
    <3>2. deployment' \in [{d} -> Row] /\ deployment'[d].status = "Running"
      BY <1>0, <3>1 DEF StartDeployment, Statuses
    <3>3. MayReport' /\ Logged' = Logged
      BY <3>1, <3>2 DEF StartDeployment, deploymentFrame, MayReport, Logged
    <3> QED BY <1>1, <2>1, <3>2, <3>3 DEF Status, StartCall, LogCall, FinishCall
  <2>2. CASE Status # "Queued"
    <3>1. UNCHANGED vars
      BY <1>1, <2>2 DEF Runs, IsClaimable, Status, StartCall
    <3>2. MayReport' /\ Logged' = Logged /\ Status' = Status
      BY <3>1 DEF vars, MayReport, Logged, Status
    <3> QED BY <1>1, <2>2, <3>2 DEF StartCall, LogCall, FinishCall
  <2> QED BY <2>1, <2>2
<1>2. ASSUME NEW n \in Nat, call = LogCall(n) PROVE Goal
  <2>1. AppendLog(agent_id, d, n) BY <1>2 DEF Runs, LogCall
  <2>2. Logged' = Logged \cup {n}
    <3>1. deploy_log_line' = deploy_log_line \cup {[deployment_id |-> d, seq |-> n]}
      BY <2>1 DEF AppendLog
    <3>2. [deployment_id |-> d, seq |-> n].seq = n OBVIOUS
    <3> QED BY <3>1, <3>2 DEF Logged
  <2>3. MayReport' /\ Status' = Status BY <2>1 DEF AppendLog, MayReport, Status
  <2> QED BY <1>2, <2>2, <2>3 DEF StartCall, LogCall, FinishCall
<1>3. ASSUME NEW ok \in BOOLEAN, call = FinishCall(ok) PROVE Goal
  <2>1. FinishDeployment(agent_id, d, ok) BY <1>3 DEF Runs, FinishCall
  <2>2. deployment' \in [{d} -> Row] /\ deployment'[d].status = IF ok THEN "Succeeded" ELSE "Failed"
    BY <1>0, <2>1 DEF FinishDeployment, Statuses, Outcome
  <2>3. MayReport' /\ Logged' = Logged
    BY <2>1, <2>2 DEF FinishDeployment, deploymentFrame, MayReport, Logged
  <2> QED BY <1>3, <2>2, <2>3 DEF Status, StartCall, LogCall, FinishCall
<1> QED BY <1>1, <1>2, <1>3 DEF LogCalls, FinishCalls
-----------------------------------------------------------------------------
(* Types *)

LEMMA SeenIs == Seen = [status |-> Status, rows |-> Logged]
BY DEF Seen, Status, Logged

LEMMA StartsWell == DeployLogInit => DeployLogInv
<1> SUFFICES ASSUME DeployLogInit PROVE DeployLogInv
  OBVIOUS
<1>1. MayReport
  BY DEF DeployLogInit, MayReport, Put, EmptyTable, d, Statuses
<1>2. Status = "Queued" /\ Logged = {}
  BY DEF DeployLogInit, Status, Logged, Put, EmptyTable, d
<1>3. DeployLogTyped
  <2>1. Seen \in View BY <1>2, SeenIs DEF View, Statuses
  <2>2. crashes \in 0 .. MaxCrashes /\ program \in Nat
    BY DeployLogAssumption DEF DeployLogInit
  <2> QED BY <2>1, <2>2
          DEF DeployLogTyped, DeployLogInit, None, NoChild, Answer, NotAsked, Closed
<1>4. \A s \in Stream : Untold(s) = 0 /\ Told(s) = 0 /\ Tells(said, s, 0)
  BY NothingToTell DEF DeployLogInit, Untold, Told, None, Stream
<1>5. Executing
  BY <1>4 DEF DeployLogInit, Executing, Stages, Waiting, None, NoChild, Stream
<1>6. Underway(-1)
  BY <1>2 DEF DeployLogInit, Underway, RunUpTo
<1>7. Watching
  BY <1>2 DEF DeployLogInit, Watching, Seen, Outcome, NotAsked, Closed
<1> QED BY <1>1, <1>3, <1>5, <1>6, <1>7 DEF DeployLogInv, Reporting

LEMMA LogTyped ==
    ASSUME DeployLogTyped, NEW entry \in Said, Log(entry)
    PROVE  /\ said' \in Seq(Said) /\ Len(said') = Len(said) + 1
           /\ calls' \in Seq({StartCall} \cup LogCalls \cup FinishCalls)
           /\ Len(calls') = Len(calls) + 1
           /\ calls'[Len(calls) + 1] = LogCall(Len(said))
           /\ \A i \in 1 .. Len(calls) : calls'[i] = calls[i]
<1> DEFINE AnyCall == {StartCall} \cup LogCalls \cup FinishCalls
<1>1. said \in Seq(Said) /\ calls \in Seq(AnyCall) /\ Len(said) \in Nat /\ Len(calls) \in Nat
  BY DEF DeployLogTyped
<1>2. LogCall(Len(said)) \in AnyCall
  BY <1>1 DEF LogCalls
<1> HIDE DEF AnyCall
<1>3. said' = Append(said, entry) /\ calls' = Append(calls, LogCall(Len(said)))
  BY DEF Log
<1>4. said' \in Seq(Said) /\ Len(said') = Len(said) + 1
  BY <1>1, <1>3
<1>5. calls' \in Seq(AnyCall) /\ Len(calls') = Len(calls) + 1
      /\ calls'[Len(calls) + 1] = LogCall(Len(said))
      /\ \A i \in 1 .. Len(calls) : calls'[i] = calls[i]
  BY <1>1, <1>2, <1>3
<1> QED BY <1>4, <1>5 DEF AnyCall

LEMMA Lines ==
    /\ \A s \in Stream : Own(s) \in Said /\ Own(s).line = 0
    /\ \A s \in Stream, n \in Nat : Line(s, n) \in Said /\ Line(s, n).stream = s
BY DEF Own, Line, Said

\* the executor, its programs and its thread leave the control plane and the page alone
Elsewhere == UNCHANGED <<vars, serverVars>>

LEMMA ElsewhereTyped ==
    ASSUME MayReport, DeployLogTyped, Elsewhere
    PROVE  /\ MayReport' /\ Status' = Status /\ Logged' = Logged /\ Seen' = Seen
           /\ Seen' \in View /\ feed' \in Seq(View) /\ cache' \in View
           /\ fetch' \in [Fetches -> Answer] /\ drawer' \in View \cup {Closed}
BY DEF Elsewhere, vars, serverVars, MayReport, DeployLogTyped, Seen, Status, Logged

LEMMA AgentTyped ==
    ASSUME MayReport, DeployLogTyped,
           \/ Claim \/ Prepare \/ Spawn \/ AllAccepted \/ ReadLine \/ Wait \/ Join \/ Relay
           \/ Judge \/ Conclude \/ Restart \/ Child \/ Collect \/ Crash
    PROVE  MayReport' /\ DeployLogTyped' /\ Elsewhere
<1> DEFINE AnyCall == {StartCall} \cup LogCalls \cup FinishCalls
<1>0. Elsewhere
  BY DEF Elsewhere, Claim, Prepare, Spawn, AllAccepted, ReadLine, Wait, Join, Relay, Judge, Conclude,
         Restart, Child, Exit, Write, Collect, Crash
<1>t. /\ calls \in Seq(AnyCall) /\ said \in Seq(Said) /\ Len(said) \in Nat /\ Len(calls) \in Nat
      /\ Recovery \in Nat /\ MaxCrashes \in Nat
  BY DeployLogAssumption DEF DeployLogTyped
<1>c. /\ StartCall \in AnyCall /\ FinishCall(TRUE) \in AnyCall /\ FinishCall(FALSE) \in AnyCall
      /\ \A n \in Nat : LogCall(n) \in AnyCall
  BY DEF LogCalls, FinishCalls
<1>s. "stdout" \in Stream /\ "stderr" \in Stream
  BY DEF Stream
<1> HIDE DEF AnyCall
<1>1. CASE Claim
  <2>1. calls' \in Seq(AnyCall) BY <1>t, <1>c, <1>1 DEF Claim
  <2> QED BY <1>0, <1>1, <2>1, ElsewhereTyped DEF Claim, DeployLogTyped, childVars, AnyCall
<1>2. CASE Prepare
  BY <1>0, <1>s, <1>2, ElsewhereTyped, LogTyped, Lines DEF Prepare, DeployLogTyped, childVars
<1>3. CASE Spawn
  <2>1. due' \in [Stream -> Nat] /\ child' \in {child, "running"}
    BY <1>3 DEF Spawn, DeployLogTyped, Total
  <2> QED BY <1>0, <1>s, <1>3, <2>1, ElsewhereTyped, LogTyped, Lines DEF Spawn, DeployLogTyped
<1>4. CASE AllAccepted \/ Wait \/ Join
  BY <1>0, <1>4, ElsewhereTyped DEF AllAccepted, Wait, Join, DeployLogTyped, childVars
<1>5. CASE ReadLine
  <2>1. pipe' \in [Stream -> Seq(Nat)] /\ Head(pipe["stdout"]) \in Nat
    BY <1>s, <1>5 DEF ReadLine, DeployLogTyped
  <2> QED BY <1>0, <1>s, <1>5, <2>1, ElsewhereTyped, LogTyped, Lines DEF ReadLine, DeployLogTyped
<1>6. CASE Relay
  <2>1. collected' \in Seq(Nat) /\ Head(collected) \in Nat
    BY <1>6 DEF Relay, DeployLogTyped
  <2> QED BY <1>0, <1>s, <1>6, <2>1, ElsewhereTyped, LogTyped, Lines DEF Relay, DeployLogTyped
<1>7. CASE Judge
  <2>1. Log(Own("stdout")) \/ UNCHANGED <<said, calls>>
    BY <1>7 DEF Judge
  <2>2. said' \in Seq(Said) /\ calls' \in Seq({StartCall} \cup LogCalls \cup FinishCalls)
    BY <1>s, <2>1, LogTyped, Lines DEF DeployLogTyped
  <2>3. program' \in Nat
    BY <1>7 DEF Judge, DeployLogTyped
  <2> QED BY <1>0, <1>7, <2>2, <2>3, ElsewhereTyped DEF Judge, DeployLogTyped
<1>8. CASE Conclude
  <2>1. \E s \in Stream : said' = Append(said, Own(s))
    BY <1>s, <1>8 DEF Conclude
  <2>2. said' \in Seq(Said)
    BY <1>t, <2>1, Lines
  <2>3. calls' \in Seq(AnyCall)
    <3>1. PICK ok \in BOOLEAN : calls' = calls \o <<LogCall(Len(said)), FinishCall(ok)>>
      BY <1>8 DEF Conclude
    <3>2. FinishCall(ok) \in AnyCall /\ LogCall(Len(said)) \in AnyCall BY <1>t, <1>c
    <3>3. <<LogCall(Len(said)), FinishCall(ok)>> \in Seq(AnyCall) BY <3>2
    <3> QED BY <1>t, <3>1, <3>3
  <2> QED BY <1>0, <1>8, <2>2, <2>3, ElsewhereTyped DEF Conclude, DeployLogTyped, childVars, AnyCall
<1>9. CASE Restart
  <2>1. calls' \in Seq(AnyCall)
    <3>1. (\E p, q \in AnyCall : calls' = <<p, q>>) \/ calls' = calls
      BY <1>t, <1>c, <1>9 DEF Restart
    <3>2. \A p, q \in AnyCall : <<p, q>> \in Seq(AnyCall) OBVIOUS
    <3> QED BY <1>t, <3>1, <3>2
  <2>2. said' \in Seq(Said) /\ printed' \in [Stream -> Nat] /\ program' \in Nat
    <3>1. \/ said' = said /\ printed' = printed /\ program' = program
          \/ said' = <<>> /\ printed' = None /\ program' = 1
      BY <1>9 DEF Restart
    <3>2. None \in [Stream -> Nat] /\ <<>> \in Seq(Said) BY DEF None
    <3>3. said \in Seq(Said) /\ printed \in [Stream -> Nat] /\ program \in Nat /\ 1 \in Nat
      BY DEF DeployLogTyped
    <3> QED BY <3>1, <3>2, <3>3
  <2> QED BY <1>0, <1>9, <2>1, <2>2, ElsewhereTyped DEF Restart, DeployLogTyped, AnyCall
<1>10. CASE Exit
  BY <1>0, <1>10, ElsewhereTyped DEF Exit, DeployLogTyped, executorVars
<1>11. ASSUME NEW s \in Stream, Write(s) PROVE MayReport' /\ DeployLogTyped'
  <2>1. pipe' \in [Stream -> Seq(Nat)] /\ due' \in [Stream -> Nat] /\ printed' \in [Stream -> Nat]
    BY <1>11 DEF Write, DeployLogTyped
  <2> QED BY <1>0, <1>11, <2>1, ElsewhereTyped DEF Write, DeployLogTyped, executorVars
<1>12. CASE Collect
  <2>1. pipe' \in [Stream -> Seq(Nat)] /\ collected' \in Seq(Nat)
    BY <1>s, <1>12 DEF Collect, DeployLogTyped
  <2> QED BY <1>0, <1>12, <2>1, ElsewhereTyped DEF Collect, DeployLogTyped, executorVars
<1>13. CASE Crash
  <2>1. calls' \in Seq(AnyCall)
    BY <1>t, <1>13 DEF Crash
  <2>2. crashes' \in 0 .. MaxCrashes
    BY <1>t, <1>13 DEF Crash, DeployLogTyped
  <2> QED BY <1>0, <1>13, <2>1, <2>2, ElsewhereTyped
          DEF Crash, DeployLogTyped, AnyCall, None, NoChild
<1> QED BY <1>0, <1>1, <1>2, <1>3, <1>4, <1>5, <1>6, <1>7, <1>8, <1>9, <1>10, <1>11, <1>12, <1>13
        DEF Child
-----------------------------------------------------------------------------
(* The agent: nothing is lost or reordered between a program and the log *)

LEMMA Lengths ==
    ASSUME DeployLogTyped
    PROVE  /\ \A s \in Stream : /\ pipe[s] \in Seq(Nat) /\ Len(pipe[s]) \in Nat
                                /\ printed[s] \in Nat /\ Untold(s) \in Nat /\ Told(s) \in Int
           /\ collected \in Seq(Nat) /\ Len(collected) \in Nat
           /\ said \in Seq(Said) /\ Len(said) \in Nat /\ Len(calls) \in Nat
BY DEF DeployLogTyped, Untold, Told

LEMMA Streams ==
    /\ Stream = {"stdout", "stderr"}
    /\ Untold("stdout") = Len(pipe["stdout"])
    /\ Untold("stderr") = Len(pipe["stderr"]) + Len(collected)
BY DEF Stream, Untold

\* a line of the agent's own tells nothing of the programs
LEMMA OwnLinesAside ==
    ASSUME DeployLogTyped, Waiting, NEW t \in Stream,
           said' = Append(said, Own(t)) \/ said' = said,
           UNCHANGED <<pipe, collected, printed>>
    PROVE  Waiting'
<1>1. \A s \in Stream : Told(s)' = Told(s)
  BY DEF Told, Untold
<1>2. ASSUME NEW s \in Stream PROVE Tells(said', s, Told(s))
  <2>1. Told(s) \in Nat /\ Tells(said, s, Told(s)) BY DEF Waiting
  <2>2. Tells(Append(said, Own(t)), s, Told(s)) BY <2>1, Lengths, OneMoreLine, Lines
  <2> QED BY <2>1, <2>2
<1>3. \A s \in Stream : Tells(said, s, Told(s))' <=> Tells(said', s, Told(s))
  BY <1>1 DEF Tells
<1>4. \A s \in Stream : Told(s)' \in Nat /\ Tells(said, s, Told(s))'
  BY <1>1, <1>2, <1>3 DEF Waiting
<1>5. \A i \in 1 .. Len(collected) : collected[i] = Told("stderr")' + i
  BY <1>1 DEF Waiting, Stream
<1> QED BY <1>4, <1>5 DEF Waiting

LEMMA WriteWaits ==
    ASSUME DeployLogTyped, Waiting, NEW s \in Stream, Write(s)
    PROVE  Waiting'
<1>1. /\ Len(pipe'[s]) = Len(pipe[s]) + 1 /\ printed'[s] = printed[s] + 1
      /\ pipe'[s][Len(pipe[s]) + 1] = printed[s] + 1
      /\ \A i \in 1 .. Len(pipe[s]) : pipe'[s][i] = pipe[s][i]
      /\ \A t \in Stream \ {s} : pipe'[t] = pipe[t] /\ printed'[t] = printed[t]
      /\ said' = said /\ collected' = collected
  BY Lengths DEF Write, DeployLogTyped, executorVars
<1>2. ASSUME NEW t \in Stream PROVE Told(t)' = Told(t)
  <2>1. Len(pipe[t]) \in Nat /\ printed[t] \in Nat /\ Len(collected) \in Nat
    BY Lengths
  <2>2. CASE t = s
    <3>1. Len(pipe'[t]) = Len(pipe[t]) + 1 /\ printed'[t] = printed[t] + 1 /\ collected' = collected
      BY <1>1, <2>2
    <3>2. CASE t = "stderr" BY <2>1, <3>1, <3>2 DEF Told, Untold
    <3>3. CASE t # "stderr" BY <2>1, <3>1, <3>3 DEF Told, Untold
    <3> QED BY <3>2, <3>3
  <2>3. CASE t # s
    BY <1>1, <2>3 DEF Told, Untold
  <2> QED BY <2>2, <2>3
<1>3. ASSUME NEW t \in Stream, NEW i \in 1 .. Len(pipe'[t])
      PROVE  pipe'[t][i] = printed'[t] - Len(pipe'[t]) + i
  <2>0. Len(pipe[s]) \in Nat /\ printed[s] \in Nat BY Lengths
  <2>1. CASE t = s /\ i = Len(pipe[s]) + 1 BY <1>1, <2>0, <2>1
  <2>2. CASE t = s /\ i \in 1 .. Len(pipe[s])
    <3>1. pipe[s][i] = printed[s] - Len(pipe[s]) + i BY <2>2 DEF Waiting
    <3> QED BY <1>1, <2>0, <2>2, <3>1
  <2>3. CASE t # s BY <1>1, <1>3, <2>3 DEF Waiting
  <2> QED BY <1>1, <1>3, <2>1, <2>2, <2>3, Lengths
<1>4. \A t \in Stream : Told(t)' \in Nat /\ Tells(said, t, Told(t))'
  BY <1>1, <1>2 DEF Waiting, Tells
<1>5. \A i \in 1 .. Len(collected') : collected'[i] = Told("stderr")' + i
  BY <1>1, <1>2 DEF Waiting, Stream
<1> QED BY <1>3, <1>4, <1>5 DEF Waiting

LEMMA CollectWaits ==
    ASSUME DeployLogTyped, Waiting, Collect
    PROVE  Waiting'
<1>s. "stdout" \in Stream /\ "stderr" \in Stream BY Streams
<1>1. /\ Len(pipe["stderr"]) > 0 /\ Len(pipe'["stderr"]) = Len(pipe["stderr"]) - 1
      /\ \A i \in 1 .. Len(pipe'["stderr"]) : pipe'["stderr"][i] = pipe["stderr"][i + 1]
      /\ \A t \in Stream \ {"stderr"} : pipe'[t] = pipe[t]
      /\ said' = said /\ printed' = printed
  BY <1>s, Lengths DEF Collect, DeployLogTyped, executorVars
<1>2. /\ Len(collected') = Len(collected) + 1
      /\ collected'[Len(collected) + 1] = pipe["stderr"][1]
      /\ \A i \in 1 .. Len(collected) : collected'[i] = collected[i]
  BY <1>s, Lengths DEF Collect
<1>3. ASSUME NEW t \in Stream PROVE Told(t)' = Told(t)
  <2>1. Len(pipe["stderr"]) \in Nat /\ Len(collected) \in Nat
    BY <1>s, Lengths
  <2>2. Untold(t)' = Untold(t)
    <3>1. CASE t = "stderr"
      <4>1. Len(pipe'["stderr"]) + Len(collected') = Len(pipe["stderr"]) + Len(collected)
        <5> DEFINE a == Len(pipe["stderr"])   b == Len(collected)
                   x == Len(pipe'["stderr"])  y == Len(collected')
        <5>1. a \in Nat /\ b \in Nat /\ x = a - 1 /\ y = b + 1 BY <1>1, <1>2, <2>1
        <5> HIDE DEF a, b, x, y
        <5>2. x + y = a + b BY <5>1
        <5> QED BY <5>2 DEF a, b, x, y
      <4> QED BY <3>1, <4>1 DEF Untold
    <3>2. CASE t # "stderr" BY <1>1, <3>2 DEF Untold
    <3> QED BY <3>1, <3>2
  <2> QED BY <1>1, <2>2 DEF Told
<1>4. ASSUME NEW t \in Stream, NEW i \in 1 .. Len(pipe'[t])
      PROVE  pipe'[t][i] = printed'[t] - Len(pipe'[t]) + i
  <2>1. CASE t = "stderr"
    <3>0. Len(pipe["stderr"]) \in Nat /\ printed["stderr"] \in Nat BY <1>s, Lengths
    <3>1. i \in 1 .. Len(pipe["stderr"]) - 1 BY <1>1, <1>4, <2>1
    <3>2. i + 1 \in 1 .. Len(pipe["stderr"]) BY <3>0, <3>1
    <3>3. pipe["stderr"][i + 1] = printed["stderr"] - Len(pipe["stderr"]) + (i + 1)
      BY <1>s, <3>2 DEF Waiting
    <3>4. pipe'["stderr"][i] = pipe["stderr"][i + 1] BY <1>1, <1>4, <2>1
    <3>5. printed'["stderr"] - Len(pipe'["stderr"]) = printed["stderr"] - Len(pipe["stderr"]) + 1
      BY <1>1, <3>0
    <3>6. Len(pipe'["stderr"]) \in Nat /\ printed'["stderr"] \in Nat /\ i \in Nat BY <1>1, <3>0, <3>1
    <3>7. pipe'["stderr"][i] = printed'["stderr"] - Len(pipe'["stderr"]) + i
      <4> DEFINE a == Len(pipe["stderr"])   p == printed["stderr"]
                 x == Len(pipe'["stderr"])  q == printed'["stderr"]
      <4>1. a \in Nat /\ p \in Nat /\ x = a - 1 /\ q = p /\ i \in Nat
            /\ pipe["stderr"][i + 1] = p - a + (i + 1)
        BY <1>1, <3>0, <3>3, <3>6
      <4> HIDE DEF a, p, x, q
      <4>2. pipe["stderr"][i + 1] = q - x + i BY <4>1
      <4> QED BY <3>4, <4>2 DEF x, q
    <3> QED BY <2>1, <3>7
  <2>2. CASE t # "stderr" BY <1>1, <1>4, <2>2 DEF Waiting
  <2> QED BY <2>1, <2>2
<1>5. \A t \in Stream : Told(t)' \in Nat /\ Tells(said, t, Told(t))'
  BY <1>1, <1>3 DEF Waiting, Tells
<1>6. ASSUME NEW i \in 1 .. Len(collected') PROVE collected'[i] = Told("stderr")' + i
  <2>1. CASE i = Len(collected) + 1
    <3>1. pipe["stderr"][1] = printed["stderr"] - Len(pipe["stderr"]) + 1
      BY <1>s, <1>1, Lengths DEF Waiting
    <3>2. Told("stderr") = printed["stderr"] - (Len(pipe["stderr"]) + Len(collected))
      BY Streams DEF Told
    <3>3. Len(pipe["stderr"]) \in Nat /\ printed["stderr"] \in Nat /\ Len(collected) \in Nat
      BY <1>s, Lengths
    <3>4. Told("stderr")' = Told("stderr") BY <1>s, <1>3
    <3> QED BY <1>2, <2>1, <3>1, <3>2, <3>3, <3>4
  <2>2. CASE i \in 1 .. Len(collected) BY <1>s, <1>2, <1>3, <2>2 DEF Waiting
  <2> QED BY <1>2, <1>6, <2>1, <2>2, Lengths
<1> QED BY <1>4, <1>5, <1>6 DEF Waiting

LEMMA ReadLineWaits ==
    ASSUME DeployLogTyped, Waiting, ReadLine
    PROVE  Waiting'
<1>s. "stdout" \in Stream /\ "stderr" \in Stream BY Streams
<1> DEFINE n == Told("stdout")
<1>1. /\ Len(pipe["stdout"]) > 0 /\ Len(pipe'["stdout"]) = Len(pipe["stdout"]) - 1
      /\ \A i \in 1 .. Len(pipe'["stdout"]) : pipe'["stdout"][i] = pipe["stdout"][i + 1]
      /\ \A t \in Stream \ {"stdout"} : pipe'[t] = pipe[t]
      /\ collected' = collected /\ printed' = printed
  BY <1>s, Lengths DEF ReadLine, DeployLogTyped
<1>2. n \in Nat /\ said' = Append(said, Line("stdout", n + 1))
  <2>1. pipe["stdout"][1] = printed["stdout"] - Len(pipe["stdout"]) + 1
    BY <1>s, <1>1, Lengths DEF Waiting
  <2>2. Head(pipe["stdout"]) = n + 1
    BY <1>s, <1>1, <2>1, Lengths, Streams DEF Told
  <2> QED BY <1>s, <2>2 DEF ReadLine, Log, Waiting
<1>3. Told("stdout")' = n + 1 /\ Told("stderr")' = Told("stderr")
  <2>1. Len(pipe["stdout"]) \in Nat /\ printed["stdout"] \in Nat BY <1>s, Lengths
  <2>2. Told("stdout")' = n + 1 BY <1>1, <2>1 DEF Told, Untold
  <2>3. Told("stderr")' = Told("stderr") BY <1>s, <1>1 DEF Told, Untold
  <2> QED BY <2>2, <2>3
<1>4. Tells(said', "stdout", n + 1) /\ Tells(said', "stderr", Told("stderr"))
  BY <1>s, <1>2, Lengths, OneMoreLine, Lines DEF Waiting
<1>5. \A t \in Stream : Told(t)' \in Nat /\ Tells(said, t, Told(t))'
  <2>1. Told("stdout")' \in Nat /\ Told("stderr")' \in Nat
    BY <1>s, <1>2, <1>3 DEF Waiting
  <2>2. Tells(said, "stdout", Told("stdout"))' /\ Tells(said, "stderr", Told("stderr"))'
    BY <1>3, <1>4 DEF Tells
  <2> QED BY <2>1, <2>2, Streams
<1>6. ASSUME NEW t \in Stream, NEW i \in 1 .. Len(pipe'[t])
      PROVE  pipe'[t][i] = printed'[t] - Len(pipe'[t]) + i
  <2>1. CASE t = "stdout"
    <3>0. Len(pipe["stdout"]) \in Nat /\ printed["stdout"] \in Nat BY <1>s, Lengths
    <3>1. i \in 1 .. Len(pipe["stdout"]) - 1 BY <1>1, <1>6, <2>1
    <3>2. i + 1 \in 1 .. Len(pipe["stdout"]) BY <3>0, <3>1
    <3>3. pipe["stdout"][i + 1] = printed["stdout"] - Len(pipe["stdout"]) + (i + 1)
      BY <1>s, <3>2 DEF Waiting
    <3>4. pipe'["stdout"][i] = pipe["stdout"][i + 1] BY <1>1, <1>6, <2>1
    <3>5. printed'["stdout"] - Len(pipe'["stdout"]) = printed["stdout"] - Len(pipe["stdout"]) + 1
      BY <1>1, <3>0
    <3>6. Len(pipe'["stdout"]) \in Nat /\ printed'["stdout"] \in Nat /\ i \in Nat BY <1>1, <3>0, <3>1
    <3>7. pipe'["stdout"][i] = printed'["stdout"] - Len(pipe'["stdout"]) + i
      <4> DEFINE a == Len(pipe["stdout"])   p == printed["stdout"]
                 x == Len(pipe'["stdout"])  q == printed'["stdout"]
      <4>1. a \in Nat /\ p \in Nat /\ x = a - 1 /\ q = p /\ i \in Nat
            /\ pipe["stdout"][i + 1] = p - a + (i + 1)
        BY <1>1, <3>0, <3>3, <3>6
      <4> HIDE DEF a, p, x, q
      <4>2. pipe["stdout"][i + 1] = q - x + i BY <4>1
      <4> QED BY <3>4, <4>2 DEF x, q
    <3> QED BY <2>1, <3>7
  <2>2. CASE t # "stdout" BY <1>1, <1>6, <2>2 DEF Waiting
  <2> QED BY <2>1, <2>2
<1>7. \A i \in 1 .. Len(collected') : collected'[i] = Told("stderr")' + i
  BY <1>1, <1>3 DEF Waiting
<1> QED BY <1>5, <1>6, <1>7 DEF Waiting

LEMMA RelayWaits ==
    ASSUME DeployLogTyped, Waiting, Stages, Relay
    PROVE  Waiting'
<1>s. "stdout" \in Stream /\ "stderr" \in Stream BY Streams
<1> DEFINE n == Told("stderr")
<1>1. /\ Len(collected) > 0 /\ Len(collected') = Len(collected) - 1
      /\ \A i \in 1 .. Len(collected') : collected'[i] = collected[i + 1]
      /\ pipe' = pipe /\ printed' = printed
  BY Lengths DEF Relay
<1>2. n \in Nat /\ said' = Append(said, Line("stderr", n + 1))
  <2>1. Head(collected) = n + 1
    BY <1>s, <1>1, Lengths DEF Waiting
  <2> QED BY <1>s, <2>1 DEF Relay, Log, Waiting
<1>3. Told("stderr")' = n + 1 /\ Told("stdout")' = Told("stdout")
  <2>1. Len(pipe["stderr"]) \in Nat /\ printed["stderr"] \in Nat /\ Len(collected) \in Nat
    BY <1>s, Lengths
  <2>2. Told("stderr")' = n + 1 BY <1>1, <2>1 DEF Told, Untold
  <2>3. Told("stdout")' = Told("stdout") BY <1>s, <1>1 DEF Told, Untold
  <2> QED BY <2>2, <2>3
<1>4. Tells(said', "stderr", n + 1) /\ Tells(said', "stdout", Told("stdout"))
  <2>1. Tells(said, "stderr", n) /\ Tells(said, "stdout", Told("stdout")) /\ Told("stdout") \in Nat
    BY <1>s DEF Waiting
  <2>2. Line("stderr", n + 1) \in Said /\ Line("stderr", n + 1).stream # "stdout"
    BY <1>s, <1>2, Lines
  <2> HIDE DEF n
  <2>3. Tells(said', "stderr", n + 1) BY <1>s, <1>2, <2>1, <2>2, Lengths, OneMoreLine
  <2>4. Tells(said', "stdout", Told("stdout")) BY <1>s, <1>2, <2>1, <2>2, Lengths, OneMoreLine
  <2> QED BY <2>3, <2>4
<1>5. \A t \in Stream : Told(t)' \in Nat /\ Tells(said, t, Told(t))'
  <2>1. Told("stdout")' \in Nat /\ Told("stderr")' \in Nat
    BY <1>s, <1>2, <1>3 DEF Waiting
  <2>2. Tells(said, "stdout", Told("stdout"))' /\ Tells(said, "stderr", Told("stderr"))'
    BY <1>3, <1>4 DEF Tells
  <2> QED BY <2>1, <2>2, Streams
<1>6. ASSUME NEW i \in 1 .. Len(collected') PROVE collected'[i] = Told("stderr")' + i
  <2>1. i + 1 \in 1 .. Len(collected) BY <1>1, <1>6, Lengths
  <2> QED BY <1>1, <1>2, <1>3, <1>6, <2>1 DEF Waiting
<1>7. \A t \in Stream : \A i \in 1 .. Len(pipe'[t]) :
          pipe'[t][i] = printed'[t] - Len(pipe'[t]) + i
  BY <1>1 DEF Waiting
<1> QED BY <1>5, <1>6, <1>7 DEF Waiting
AgentStep ==
    \/ Claim \/ Prepare \/ Spawn \/ AllAccepted \/ ReadLine \/ Wait \/ Join \/ Relay
    \/ Judge \/ Conclude \/ Restart \/ Child \/ Collect \/ Crash

LEMMA NothingLeft ==
    ASSUME DeployLogTyped
    PROVE  /\ (\A s \in Stream : pipe[s] = <<>>) /\ collected = <<>> => \A s \in Stream : Untold(s) = 0
           /\ (\A s \in Stream : Untold(s) = 0) =>
                  (\A s \in Stream : Len(pipe[s]) = 0) /\ Len(collected) = 0
<1>1. ASSUME \A s \in Stream : pipe[s] = <<>>, collected = <<>>
      PROVE  \A s \in Stream : Untold(s) = 0
  BY <1>1 DEF Untold
<1>2. ASSUME \A s \in Stream : Untold(s) = 0
      PROVE  (\A s \in Stream : Len(pipe[s]) = 0) /\ Len(collected) = 0
  <2> DEFINE out == Len(pipe["stdout"])  err == Len(pipe["stderr"])  read == Len(collected)
  <2>1. out \in Nat /\ err \in Nat /\ read \in Nat /\ out = 0 /\ err + read = 0
    BY <1>2, Streams, Lengths
  <2> HIDE DEF out, err, read
  <2>2. out = 0 /\ err = 0 /\ read = 0 BY <2>1
  <2> QED BY <2>2, Streams DEF out, err, read
<1> QED BY <1>1, <1>2

LEMMA ExecutingStep ==
    ASSUME DeployLogTyped, Executing, AgentStep
    PROVE  Executing'
<1>s. "stdout" \in Stream /\ "stderr" \in Stream BY Streams
<1>e. Stages /\ (at \notin {"done", "down"} => Waiting) BY DEF Executing
<1>0. ASSUME UNCHANGED <<pipe, collected>> PROVE \A s \in Stream : Untold(s)' = Untold(s)
  BY <1>0 DEF Untold
<1>1. CASE Claim \/ AllAccepted
  <2>1. Waiting' BY <1>e, <1>s, <1>1, OwnLinesAside DEF Claim, AllAccepted, childVars
  <2>2. \A s \in Stream : Untold(s)' = 0
    BY <1>e, <1>0, <1>1 DEF Claim, AllAccepted, childVars, Stages
  <2> QED BY <1>e, <1>1, <2>1, <2>2 DEF Claim, AllAccepted, childVars, Stages, Executing
<1>2. CASE Prepare
  <2>1. Waiting' BY <1>e, <1>s, <1>2, OwnLinesAside DEF Prepare, Log, childVars
  <2>2. \A s \in Stream : Untold(s)' = 0
    BY <1>e, <1>0, <1>2 DEF Prepare, childVars, Stages
  <2> QED BY <1>e, <1>2, <2>1, <2>2 DEF Prepare, childVars, Stages, Executing
<1>3. CASE Spawn
  <2>1. Waiting' BY <1>e, <1>s, <1>3, OwnLinesAside DEF Spawn, Log
  <2>2. \A s \in Stream : Untold(s)' = 0
    BY <1>e, <1>0, <1>3 DEF Spawn, Stages
  <2> QED BY <1>e, <1>3, <2>1, <2>2 DEF Spawn, Stages, Executing
<1>4. CASE ReadLine
  <2>1. Waiting' BY <1>e, <1>4, ReadLineWaits DEF ReadLine
  <2> QED BY <1>e, <1>4, <2>1 DEF ReadLine, Stages, Executing
<1>5. CASE Wait \/ Join
  <2>1. Waiting' BY <1>e, <1>s, <1>5, OwnLinesAside DEF Wait, Join, childVars
  <2> QED BY <1>e, <1>5, <2>1 DEF Wait, Join, childVars, Stages, Executing
<1>6. CASE Relay
  <2>1. Waiting' BY <1>e, <1>6, RelayWaits DEF Relay
  <2> QED BY <1>e, <1>6, <2>1 DEF Relay, Stages, Executing
<1>7. CASE Judge
  <2>1. Waiting' BY <1>e, <1>s, <1>7, OwnLinesAside DEF Judge, Log, MayJudge
  <2>2. \A s \in Stream : pipe[s] = <<>> /\ collected = <<>>
    BY <1>e, <1>7, Streams DEF Judge, MayJudge, Stages
  <2>3. \A s \in Stream : Untold(s) = 0
    BY <1>s, <2>2, NothingLeft
  <2>4. \A s \in Stream : Untold(s)' = 0
    BY <1>0, <1>7, <2>3 DEF Judge
  <2> QED BY <1>e, <1>7, <2>1, <2>4 DEF Judge, MayJudge, Stages, Executing, NoChild
<1>8. CASE Conclude
  BY <1>e, <1>8 DEF Conclude, childVars, Stages, Executing
<1>9. CASE Restart
  <2>1. CASE at' = "idle"
    <3>1. /\ said' = <<>> /\ printed' = None /\ UNCHANGED <<pipe, collected, child>> /\ at = "down"
      BY <1>9, <2>1 DEF Restart
    <3>2. \A s \in Stream : Untold(s) = 0
      BY <1>e, <3>1 DEF Stages
    <3>3. /\ \A s \in Stream : Len(pipe[s]) = 0 /\ Untold(s)' = 0 /\ Told(s)' = 0
          /\ Len(collected) = 0
      <4>1. (\A s \in Stream : Len(pipe[s]) = 0) /\ Len(collected) = 0
        BY <3>2, NothingLeft
      <4>2. \A s \in Stream : Untold(s)' = 0
        BY <1>0, <3>1, <3>2
      <4>3. \A s \in Stream : Told(s)' = 0
        BY <3>1, <4>2 DEF Told, None
      <4> QED BY <4>1, <4>2, <4>3
    <3>4. \A s \in Stream : Told(s)' \in Nat /\ Tells(said, s, Told(s))'
      BY <3>1, <3>3, NothingToTell DEF Tells
    <3>5. Waiting'
      BY <3>1, <3>3, <3>4 DEF Waiting
    <3> QED BY <1>e, <2>1, <3>1, <3>3, <3>5 DEF Executing, Stages
  <2>2. CASE at' = "done"
    BY <1>e, <1>9, <2>2 DEF Restart, Executing, Stages
  <2> QED BY <1>9, <2>1, <2>2 DEF Restart
<1>10. CASE Exit
  <2>1. Waiting' BY <1>e, <1>s, <1>10, OwnLinesAside DEF Exit, executorVars, Stages
  <2> QED BY <1>e, <1>10, <2>1 DEF Exit, executorVars, Stages, Executing
<1>11. ASSUME NEW s \in Stream, Write(s) PROVE Executing'
  <2>1. at = "reading" BY <1>e, <1>11 DEF Write, Stages
  <2>2. Waiting' BY <1>e, <1>11, <2>1, WriteWaits
  <2> QED BY <1>e, <1>11, <2>1, <2>2 DEF Write, executorVars, Stages, Executing
<1>12. CASE Collect
  <2>1. Waiting' BY <1>e, <1>12, CollectWaits DEF Collect, MayCollect
  <2>2. pipe'["stdout"] = pipe["stdout"]
    BY <1>s, <1>12 DEF Collect, DeployLogTyped
  <2> QED BY <1>e, <1>12, <2>1, <2>2 DEF Collect, MayCollect, executorVars, Stages, Executing
<1>13. CASE Crash
  <2>1. \A s \in Stream : Untold(s)' = 0
    BY <1>13 DEF Crash, Untold
  <2> QED BY <1>13, <2>1 DEF Crash, Stages, Executing, NoChild
<1> QED BY <1>1, <1>2, <1>3, <1>4, <1>5, <1>6, <1>7, <1>8, <1>9, <1>10, <1>11, <1>12, <1>13
        DEF AgentStep, Child
-----------------------------------------------------------------------------
(* The agent: its calls follow what it says *)

Working == at \notin {"idle", "done", "down"}
SameRow == Status' = Status /\ Logged' = Logged

LEMMA QuietlyUnderway ==
    ASSUME DeployLogTyped, NEW f \in Int, Underway(f), SameRow, UNCHANGED <<said, calls>>,
           Working, Working'
    PROVE  Underway(f)'
<1>1. Len(said) \in Nat BY Lengths
<1>2. f + Len(calls) = Len(said) BY DEF Underway, Working
<1>3. RunUpTo(f)' BY DEF Underway, RunUpTo, SameRow
<1>4. \A i \in 1 .. Len(calls) : IsCall(f + i, calls[i])'
  BY DEF Underway, IsCall
<1>5. Len(said') = Len(said) /\ Len(calls') = Len(calls) OBVIOUS
<1>6. f \in -1 .. Len(said') + 1 /\ f + Len(calls') = Len(said')
  BY <1>2, <1>5 DEF Underway
<1> QED BY <1>1, <1>3, <1>4, <1>5, <1>6 DEF Underway, Working

LEMMA SaysAndCalls ==
    ASSUME DeployLogTyped, NEW f \in Int, Underway(f), SameRow, Working, Working',
           NEW entry \in Said, Log(entry)
    PROVE  Underway(f)'
<1> DEFINE n == Len(said)  c == Len(calls)
<1>1. n \in Nat /\ c \in Nat /\ f + c = n /\ f <= n
  BY Lengths DEF Underway, Working
<1>2. /\ Len(said') = n + 1 /\ Len(calls') = c + 1 /\ calls'[c + 1] = LogCall(n)
      /\ \A i \in 1 .. c : calls'[i] = calls[i]
  BY LogTyped
<1>3. \A i \in 1 .. c : IsCall(f + i, calls[i])
  BY DEF Underway
<1>4. RunUpTo(f) /\ f \in -1 .. n + 1
  BY DEF Underway
<1> HIDE DEF n, c
<1>5. RunUpTo(f)'
  <2>1. f = -1 => Status' = "Queued" /\ Logged' = {} BY <1>4 DEF RunUpTo, SameRow
  <2>2. f \in 0 .. n + 1 => Status' = "Running" /\ Logged' = 0 .. f - 1
    BY <1>1, <1>4 DEF RunUpTo, SameRow, n
  <2>3. f # n + 2 BY <1>1
  <2> QED BY <1>1, <1>2, <2>1, <2>2, <2>3 DEF RunUpTo
<1>6. ASSUME NEW i \in 1 .. c + 1 PROVE IsCall(f + i, calls[i])'
  <2>1. CASE i = c + 1
    <3>1. f + i = n + 1 BY <1>1, <2>1
    <3>2. f + i \in 1 .. n + 1 /\ (f + i) - 1 = n BY <1>1, <3>1
    <3> QED BY <1>2, <2>1, <3>2 DEF IsCall
  <2>2. CASE i \in 1 .. c
    <3>1. IsCall(f + i, calls[i]) /\ f + i <= n /\ f + i \in Int BY <1>1, <1>3, <2>2
    <3>2. \/ f + i = 0 /\ calls[i] = StartCall
          \/ f + i \in 1 .. n /\ calls[i] = LogCall((f + i) - 1)
      BY <1>1, <3>1 DEF IsCall, n
    <3>3. f + i \in 1 .. n => f + i \in 1 .. n + 1 BY <1>1
    <3> QED BY <1>2, <2>2, <3>2, <3>3 DEF IsCall
  <2> QED BY <1>1, <1>6, <2>1, <2>2
<1>7. f \in -1 .. (n + 1) + 1 /\ f + (c + 1) = n + 1
  BY <1>1, <1>4
<1>8. f + (c + 1) # (n + 1) + 1 /\ f + (c + 1) <= (n + 1) + 1
  BY <1>1
<1> QED BY <1>2, <1>5, <1>6, <1>7, <1>8 DEF Underway, Working

LEMMA ClaimReports ==
    ASSUME DeployLogTyped, Executing, NEW f \in Int, Underway(f), SameRow, Claim
    PROVE  Underway(f)'
<1>1. said = <<>> BY DEF Executing, Stages, Claim
<1>2. f + Len(calls) = -1 /\ Len(calls) \in Nat /\ f >= -1
  BY Lengths DEF Underway, Claim
<1>3. f = -1 /\ Len(calls) = 0 BY <1>2
<1>4. said' = <<>> /\ at' = "preparing" /\ Len(calls') = 1 /\ calls'[1] = StartCall
  BY <1>1, <1>3, DeployLogAssumption DEF Claim, DeployLogTyped
<1>5. RunUpTo(f)' BY <1>1, <1>3, <1>4 DEF Underway, RunUpTo, SameRow
<1>6. \A i \in 1 .. Len(calls') : IsCall(f + i, calls[i])'
  BY <1>3, <1>4 DEF IsCall
<1> QED BY <1>3, <1>4, <1>5, <1>6 DEF Underway

LEMMA ConcludeReports ==
    ASSUME DeployLogTyped, Executing, NEW f \in Int, Underway(f), SameRow, Conclude
    PROVE  Underway(f)'
<1> DEFINE n == Len(said)  c == Len(calls)
<1>0. Working /\ at \in {"succeeding", "failing"} /\ at' = "done"
  BY DEF Working, Conclude
<1>1. n \in Nat /\ c \in Nat /\ f + c = n /\ f <= n
  BY <1>0, Lengths DEF Underway, Working
<1>2. PICK t \in Stream, ok \in BOOLEAN :
          said' = Append(said, Own(t)) /\ calls' = calls \o <<LogCall(n), FinishCall(ok)>>
  BY Streams DEF Conclude
<1>3. /\ Len(said') = n + 1 /\ Len(calls') = c + 2
      /\ \A i \in 1 .. c : calls'[i] = calls[i]
      /\ calls'[c + 1] = LogCall(n) /\ calls'[c + 2] = FinishCall(ok)
  BY <1>2, Lengths DEF DeployLogTyped
<1>4. AllTold'
  <2>1. ASSUME NEW s \in Stream PROVE Tells(said', s, printed'[s])
    <3>1. Told(s) = printed[s] /\ Tells(said, s, Told(s)) /\ printed[s] \in Nat
      BY <1>0, Lengths DEF Executing, Stages, Waiting, Told
    <3>2. Tells(Append(said, Own(t)), s, printed[s])
      BY <3>1, Lengths, OneMoreLine, Lines
    <3> QED BY <1>2, <3>2 DEF Conclude, childVars
  <2> QED BY <2>1 DEF AllTold, Tells
<1>5. \A i \in 1 .. c : IsCall(f + i, calls[i])
  BY DEF Underway
<1>6. RunUpTo(f) /\ f \in -1 .. n + 1
  BY DEF Underway
<1>7. FinishCall(ok) \in FinishCalls
  BY DEF FinishCalls
<1> HIDE DEF n, c
<1>8. RunUpTo(f)'
  <2>1. f = -1 => Status' = "Queued" /\ Logged' = {} BY <1>6 DEF RunUpTo, SameRow
  <2>2. f \in 0 .. n + 1 => Status' = "Running" /\ Logged' = 0 .. f - 1
    BY <1>1, <1>6 DEF RunUpTo, SameRow, n
  <2>3. f # n + 2 BY <1>1
  <2> QED BY <1>1, <1>3, <2>1, <2>2, <2>3 DEF RunUpTo
<1>9. ASSUME NEW i \in 1 .. c + 2 PROVE IsCall(f + i, calls[i])'
  <2>1. CASE i = c + 1
    <3>1. f + i \in 1 .. n + 1 /\ (f + i) - 1 = n BY <1>1, <2>1
    <3> QED BY <1>3, <2>1, <3>1 DEF IsCall
  <2>2. CASE i = c + 2
    <3>1. f + i = (n + 1) + 1 BY <1>1, <2>2
    <3> QED BY <1>3, <1>7, <2>2, <3>1 DEF IsCall
  <2>3. CASE i \in 1 .. c
    <3>1. IsCall(f + i, calls[i]) /\ f + i <= n /\ f + i \in Int BY <1>1, <1>5, <2>3
    <3>2. \/ f + i = 0 /\ calls[i] = StartCall
          \/ f + i \in 1 .. n /\ calls[i] = LogCall((f + i) - 1)
      BY <1>1, <3>1 DEF IsCall, n
    <3>3. f + i \in 1 .. n => f + i \in 1 .. n + 1 BY <1>1
    <3> QED BY <1>3, <2>3, <3>2, <3>3 DEF IsCall
  <2> QED BY <1>1, <1>9, <2>1, <2>2, <2>3
<1>10. f \in -1 .. (n + 1) + 1 /\ f + (c + 2) = (n + 1) + 1 /\ f + (c + 2) <= (n + 1) + 1
  BY <1>1, <1>6
<1> QED BY <1>0, <1>3, <1>4, <1>8, <1>9, <1>10 DEF Underway
LEMMA ShortSequences ==
    \A S : \A s \in Seq(S) : /\ Len(s) = 0 => s = <<>>
                             /\ Len(s) = 1 => s = <<s[1]>>
                             /\ Len(s) = 2 => s = <<s[1], s[2]>>
OBVIOUS

LEMMA CrashReports ==
    ASSUME DeployLogTyped, Executing, Reporting, SameRow, Crash
    PROVE  Reporting'
<1>1. PICK k \in 0 .. Len(calls) : calls' = SubSeq(calls, 1, k)
  BY DEF Crash
<1>2. /\ Len(calls) \in Nat /\ Len(calls') = k /\ \A i \in 1 .. k : calls'[i] = calls[i]
      /\ at' = "down" /\ said' = said /\ printed' = printed /\ Len(said) \in Nat
  BY <1>1, Lengths DEF Crash, DeployLogTyped
<1>3. CASE Recovered
  <2>1. Status \in Outcome => calls' = <<>>
    BY <1>1, <1>3 DEF Recovered
  <2>2. \/ calls' \in {<<>>, <<LogCall(Recovery)>>, <<LogCall(Recovery), FinishCall(FALSE)>>}
        \/ calls' = <<FinishCall(FALSE)>> /\ Recovery \in Logged
    <3> DEFINE l == LogCall(Recovery)  e == FinishCall(FALSE)
    <3>1. \/ calls \in {<<>>, <<l>>, <<l, e>>}
          \/ calls = <<e>> /\ Recovery \in Logged
      BY <1>3 DEF Recovered
    <3> DEFINE AnyCall == {StartCall} \cup LogCalls \cup FinishCalls
    <3>2. calls' \in Seq(AnyCall)
      <4>1. calls \in Seq(AnyCall) BY DEF DeployLogTyped
      <4> HIDE DEF AnyCall
      <4> QED BY <1>1, <4>1
    <3> HIDE DEF AnyCall
    <3>3. /\ k = 0 => calls' = <<>>
          /\ k = 1 => calls' = <<calls[1]>>
          /\ k = 2 => calls' = <<calls[1], calls[2]>>
      BY <1>2, <3>2, ShortSequences
    <3> HIDE DEF l, e
    <3>4. CASE calls = <<>>
      <4>1. k = 0 BY <1>1, <3>4
      <4> QED BY <3>3, <4>1
    <3>5. CASE calls = <<l>>
      <4>1. k \in {0, 1} /\ calls[1] = l BY <1>1, <3>5
      <4> QED BY <3>3, <4>1 DEF l
    <3>6. CASE calls = <<l, e>>
      <4>1. k \in {0, 1, 2} /\ calls[1] = l /\ calls[2] = e BY <1>1, <3>6
      <4> QED BY <3>3, <4>1 DEF l, e
    <3>7. CASE calls = <<e>> /\ Recovery \in Logged
      <4>1. k \in {0, 1} /\ calls[1] = e BY <1>1, <3>7
      <4> QED BY <3>3, <3>7, <4>1 DEF e
    <3> QED BY <3>1, <3>4, <3>5, <3>6, <3>7
  <2> QED BY <1>2, <1>3, <2>1, <2>2 DEF Recovered, Reporting, SameRow
<1>4. ASSUME NEW f \in Int, Underway(f) PROVE Underway(f)'
  <2> DEFINE n == Len(said)  c == Len(calls)
  <2>1. n \in Nat /\ c \in Nat /\ k \in 0 .. c /\ f \in -1 .. n + 1 /\ f + c <= n + 1
    BY <1>2, <1>4 DEF Underway
  <2>2. f + c = n + 1 => AllTold
    BY <1>4 DEF Underway
  <2>3. RunUpTo(f)' BY <1>2, <1>4 DEF Underway, RunUpTo, SameRow
  <2>4. \A i \in 1 .. k : IsCall(f + i, calls[i])
    BY <1>2, <1>4 DEF Underway
  <2>5. \A i \in 1 .. k : IsCall(f + i, calls[i])'
    BY <1>2, <2>4 DEF IsCall
  <2> HIDE DEF n, c
  <2>6. f + k <= n + 1 /\ (f + k = n + 1 => f + c = n + 1)
    BY <2>1
  <2>7. f + k = n + 1 => AllTold'
    BY <1>2, <2>2, <2>6 DEF AllTold, Tells
  <2> QED BY <1>2, <2>1, <2>3, <2>5, <2>6, <2>7 DEF Underway, n
<1> QED BY <1>3, <1>4 DEF Reporting

LEMMA RestartReports ==
    ASSUME DeployLogTyped, Executing, Reporting, SameRow, Restart
    PROVE  Reporting'
<1>0. at = "down" /\ calls = <<>> /\ Len(calls) = 0 /\ Len(said) \in Nat
  BY Lengths DEF Restart
<1>1. CASE Status = "Running"
  <2>1. calls' = <<LogCall(Recovery), FinishCall(FALSE)>> /\ at' = "done"
    BY <1>1 DEF Restart, InFlight
  <2> QED BY <1>1, <2>1 DEF Reporting, Recovered, SameRow, Outcome
<1>2. CASE Status = "Queued"
  <2>1. calls' = <<>> /\ said' = <<>> /\ at' = "idle"
    BY <1>0, <1>2 DEF Restart, InFlight
  <2>2. PICK f \in Int : Underway(f)
    BY <1>2 DEF Reporting, Recovered
  <2>3. f \in -1 .. Len(said) + 1 /\ RunUpTo(f)
    BY <2>2 DEF Underway
  <2>4. f = -1 /\ Logged = {}
    <3>1. f \notin 0 .. Len(said) BY <1>2, <2>3 DEF RunUpTo
    <3>2. f # Len(said) + 1 BY <1>2, <2>3 DEF RunUpTo, Outcome
    <3>3. f = -1 BY <1>0, <2>3, <3>1, <3>2
    <3> QED BY <2>3, <3>3 DEF RunUpTo
  <2>5. Underway(-1)'
    BY <1>2, <2>1, <2>4 DEF Underway, RunUpTo, SameRow
  <2> QED BY <2>5 DEF Reporting
<1>3. CASE Status \notin InFlight
  <2>1. UNCHANGED <<calls, said, printed>> /\ at' = "done"
    BY <1>3 DEF Restart, InFlight
  <2>2. CASE Recovered
    BY <2>1, <2>2 DEF Recovered, Reporting, SameRow
  <2>3. ASSUME NEW f \in Int, Underway(f) PROVE Underway(f)'
    <3>1. f \in -1 .. Len(said) + 1 /\ RunUpTo(f) /\ f + Len(calls) = f
      BY <1>0, <2>3 DEF Underway
    <3>2. f = Len(said) + 1
      <4>1. f # -1 BY <1>3, <3>1 DEF RunUpTo, InFlight
      <4>2. f \notin 0 .. Len(said) BY <1>3, <3>1 DEF RunUpTo, InFlight
      <4> QED BY <1>0, <3>1, <4>1, <4>2
    <3>3. AllTold BY <2>3, <3>1, <3>2 DEF Underway
    <3>4. RunUpTo(f)' BY <2>1, <3>1 DEF RunUpTo, SameRow
    <3>5. AllTold' BY <2>1, <3>3 DEF AllTold, Tells
    <3> QED BY <1>0, <2>1, <3>1, <3>2, <3>4, <3>5 DEF Underway
  <2> QED BY <2>2, <2>3 DEF Reporting
<1> QED BY <1>1, <1>2, <1>3 DEF Restart

LEMMA ReportingStep ==
    ASSUME MayReport, DeployLogTyped, Executing, Reporting, AgentStep
    PROVE  Reporting'
<1>0. SameRow BY AgentTyped, ElsewhereTyped DEF AgentStep, SameRow
<1>s. \A t \in Stream : Own(t) \in Said BY Lines
<1>1. CASE Crash BY <1>0, <1>1, CrashReports
<1>2. CASE Restart BY <1>0, <1>2, RestartReports
<1>3. CASE ~Crash /\ ~Restart
  <2>1. at \notin {"done", "down"}
    BY <1>3 DEF AgentStep, Claim, Prepare, Spawn, AllAccepted, ReadLine, Wait, Join, Relay, Judge,
                MayJudge, Conclude, Child, Exit, Write, Collect, MayCollect, Executing, Stages
  <2>2. PICK f \in Int : Underway(f)
    BY <2>1 DEF Reporting, Recovered
  <2>3. CASE Claim BY <1>0, <2>2, <2>3, ClaimReports DEF Reporting
  <2>4. CASE Conclude BY <1>0, <2>2, <2>4, ConcludeReports DEF Reporting
  <2>5. CASE Prepare \/ Spawn
    <3>1. Working /\ Working' /\ Log(Own("stdout"))
      BY <2>5 DEF Prepare, Spawn, Working
    <3> QED BY <1>0, <1>s, <2>2, <3>1, Streams, SaysAndCalls DEF Reporting
  <2>6. CASE ReadLine
    <3>1. Working /\ Working' /\ Log(Line("stdout", Head(pipe["stdout"])))
      BY <2>6 DEF ReadLine, Working
    <3>2. Head(pipe["stdout"]) \in Nat
      BY <2>6, Streams DEF ReadLine, DeployLogTyped
    <3> QED BY <1>0, <2>2, <3>1, <3>2, Streams, Lines, SaysAndCalls DEF Reporting
  <2>7. CASE Relay
    <3>1. Working /\ Working' /\ Log(Line("stderr", Head(collected)))
      BY <2>7 DEF Relay, Working
    <3>2. Head(collected) \in Nat
      BY <2>7 DEF Relay, DeployLogTyped
    <3> QED BY <1>0, <2>2, <3>1, <3>2, Streams, Lines, SaysAndCalls DEF Reporting
  <2>8. CASE Judge
    <3>1. Working /\ Working' /\ (Log(Own("stdout")) \/ UNCHANGED <<said, calls>>)
      BY <2>8 DEF Judge, MayJudge, Working
    <3> QED BY <1>0, <1>s, <2>2, <3>1, Streams, SaysAndCalls, QuietlyUnderway DEF Reporting
  <2>9. CASE AllAccepted \/ Wait \/ Join \/ Child \/ Collect
    <3>1. Working /\ Working' /\ UNCHANGED <<said, calls>>
      BY <2>1, <2>9 DEF AllAccepted, Wait, Join, Child, Exit, Write, Collect, MayCollect, Working,
                        Executing, Stages, executorVars
    <3> QED BY <1>0, <2>2, <3>1, QuietlyUnderway DEF Reporting
  <2> QED BY <1>3, <2>3, <2>4, <2>5, <2>6, <2>7, <2>8, <2>9 DEF AgentStep
<1> QED BY <1>1, <1>2, <1>3
-----------------------------------------------------------------------------
(* The control plane: calls run in the order in which they were sent *)

LEMMA FirstCall ==
    ASSUME DeployLogTyped, calls # <<>>
    PROVE  /\ Head(calls) = calls[1] /\ Head(calls) \in {StartCall} \cup LogCalls \cup FinishCalls
           /\ Tail(calls) \in Seq({StartCall} \cup LogCalls \cup FinishCalls)
           /\ Len(calls) > 0 /\ Len(Tail(calls)) = Len(calls) - 1
           /\ \A i \in 1 .. Len(calls) - 1 : Tail(calls)[i] = calls[i + 1]
<1> DEFINE AnyCall == {StartCall} \cup LogCalls \cup FinishCalls
<1>1. calls \in Seq(AnyCall) BY DEF DeployLogTyped
<1> HIDE DEF AnyCall
<1>2. /\ Head(calls) = calls[1] /\ Head(calls) \in AnyCall /\ Tail(calls) \in Seq(AnyCall)
      /\ Len(calls) > 0 /\ Len(Tail(calls)) = Len(calls) - 1
      /\ \A i \in 1 .. Len(calls) - 1 : Tail(calls)[i] = calls[i + 1]
  BY <1>1
<1> QED BY <1>2 DEF AnyCall

\* what has an outcome is not changed any more
LEMMA OutcomesAreFinal ==
    ASSUME DeployLogTyped, Reporting, Status \in Outcome
    PROVE  calls = <<>>
<1>1. CASE Recovered BY <1>1 DEF Recovered
<1>2. ASSUME NEW f \in Int, Underway(f) PROVE calls = <<>>
  <2>1. f \in -1 .. Len(said) + 1 /\ RunUpTo(f) /\ Len(said) \in Nat /\ Len(calls) \in Nat
        /\ f + Len(calls) <= Len(said) + 1
    BY <1>2, Lengths DEF Underway
  <2>2. f # -1 /\ f \notin 0 .. Len(said)
    BY <2>1 DEF RunUpTo, Outcome
  <2>3. Len(calls) = 0
    BY <2>1, <2>2
  <2> QED BY <2>3, ShortSequences DEF DeployLogTyped
<1> QED BY <1>1, <1>2 DEF Reporting

LEMMA DeliverTyped ==
    ASSUME MayReport, DeployLogTyped, Deliver
    PROVE  MayReport' /\ DeployLogTyped'
<1> DEFINE call == Head(calls)
<1>1. calls # <<>> /\ Runs(call) /\ calls' = Tail(calls) /\ feed' = Append(feed, Seen')
      /\ UNCHANGED <<executorVars, childVars, cache, fetch, drawer, crashes>>
  BY DEF Deliver
<1>2. call \in {StartCall} \cup LogCalls \cup FinishCalls
  BY <1>1, FirstCall
<1>3. Status \in Statuses /\ Logged \in SUBSET Nat
  BY SeenIs DEF DeployLogTyped, View
<1> HIDE DEF call
<1>4. MayReport' /\ Status' \in Statuses /\ Logged' \in SUBSET Nat
  <2>1. CASE call = StartCall BY <1>1, <1>2, <1>3, <2>1, CallRuns DEF Statuses
  <2>2. ASSUME NEW n \in Nat, call = LogCall(n)
        PROVE  MayReport' /\ Status' \in Statuses /\ Logged' \in SUBSET Nat
    BY <1>1, <1>2, <1>3, <2>2, CallRuns
  <2>3. ASSUME NEW ok \in BOOLEAN, call = FinishCall(ok)
        PROVE  MayReport' /\ Status' \in Statuses /\ Logged' \in SUBSET Nat
    BY <1>1, <1>2, <1>3, <2>3, CallRuns DEF Statuses, Outcome
  <2> QED BY <1>2, <2>1, <2>2, <2>3 DEF LogCalls, FinishCalls
<1>5. Seen' \in View
  BY <1>4, SeenIs DEF View, Seen, Status, Logged
<1>6. feed' \in Seq(View)
  BY <1>1, <1>5 DEF DeployLogTyped
<1>7. calls' \in Seq({StartCall} \cup LogCalls \cup FinishCalls)
  BY <1>1, FirstCall
<1> QED BY <1>1, <1>4, <1>5, <1>6, <1>7 DEF DeployLogTyped, executorVars, childVars

LEMMA DeliverReports ==
    ASSUME MayReport, DeployLogTyped, Reporting, Deliver
    PROVE  Reporting'
<1> DEFINE call == Head(calls)  n == Len(said)  c == Len(calls)
<1>1. calls # <<>> /\ Runs(call) /\ calls' = Tail(calls)
      /\ UNCHANGED <<at, said, printed>>
  BY DEF Deliver, executorVars, childVars
<1>2. /\ call = calls[1] /\ call \in {StartCall} \cup LogCalls \cup FinishCalls
      /\ n \in Nat /\ c \in Nat \ {0} /\ Len(calls') = c - 1
      /\ \A i \in 1 .. c - 1 : calls'[i] = calls[i + 1]
  BY <1>1, FirstCall, Lengths
<1>o. Status \notin Outcome BY <1>1, OutcomesAreFinal
<1>3. ASSUME Recovered PROVE Recovered'
  <2> DEFINE l == LogCall(Recovery)  e == FinishCall(FALSE)
  <2>0. Recovery \in Nat BY DeployLogAssumption
  <2>1. CASE calls = <<l>>
    <3>1. call = l /\ calls' = <<>> BY <1>1, <2>1
    <3>2. Status' = Status /\ Logged' = Logged \cup {Recovery}
      BY <1>1, <1>2, <2>0, <3>1, CallRuns
    <3> QED BY <1>1, <1>3, <1>o, <3>1, <3>2 DEF Recovered
  <2>2. CASE calls = <<l, e>>
    <3>1. call = l /\ calls' = <<e>>
      <4> HIDE DEF l, e
      <4> QED BY <1>1, <2>2
    <3>2. Status' = Status /\ Logged' = Logged \cup {Recovery}
      BY <1>1, <1>2, <2>0, <3>1, CallRuns
    <3> QED BY <1>1, <1>3, <1>o, <3>1, <3>2 DEF Recovered
  <2>3. CASE calls = <<e>> /\ Recovery \in Logged
    <3>1. call = e /\ calls' = <<>>
      <4> HIDE DEF e
      <4> QED BY <1>1, <2>3
    <3>2. Status' = "Failed" /\ Logged' = Logged
      BY <1>1, <1>2, <3>1, CallRuns
    <3> QED BY <1>1, <1>3, <2>3, <3>1, <3>2 DEF Recovered
  <2> QED BY <1>1, <1>3, <2>1, <2>2, <2>3 DEF Recovered
<1>4. ASSUME NEW f \in Int, Underway(f) PROVE Underway(f + 1)'
  <2> HIDE DEF call, n, c
  <2>1. /\ f \in -1 .. n + 1 /\ RunUpTo(f) /\ f + c <= n + 1
        /\ \A i \in 1 .. c : IsCall(f + i, calls[i])
    BY <1>4 DEF Underway, n, c
  <2>2. Len(said') = n /\ Len(calls') = c - 1 /\ f <= n /\ f + 1 \in 0 .. n + 1
        /\ (f + 1) + (c - 1) = f + c
    BY <1>1, <1>2, <2>1 DEF n
  <2>3. ASSUME NEW i \in 1 .. c - 1 PROVE IsCall((f + 1) + i, calls[i])'
    <3>1. i + 1 \in 1 .. c /\ f + (i + 1) = (f + 1) + i BY <1>2, <2>3
    <3>2. IsCall((f + 1) + i, calls[i + 1]) BY <2>1, <3>1
    <3> QED BY <1>1, <1>2, <3>2 DEF IsCall
  <2>4. IsCall(f + 1, call)
    BY <1>2, <2>1
  <2>5. RunUpTo(f + 1)'
    <3>1. CASE f = -1
      <4>1. Status = "Queued" /\ Logged = {} BY <2>1, <3>1 DEF RunUpTo
      <4>2. call = StartCall BY <1>2, <2>4, <3>1 DEF IsCall, n
      <4>3. Status' = "Running" /\ Logged' = {} BY <1>1, <1>2, <4>1, <4>2, CallRuns
      <4>4. f + 1 = 0 BY <3>1
      <4>5. 0 .. 0 - 1 = {} OBVIOUS
      <4>6. 0 # n + 1 /\ 0 # -1 BY <1>2
      <4> QED BY <2>2, <4>3, <4>4, <4>5, <4>6 DEF RunUpTo
    <3>2. CASE f \in 0 .. n - 1
      <4>1. Status = "Running" /\ Logged = 0 .. f - 1
        <5>1. f \in 0 .. n BY <1>2, <3>2
        <5> QED BY <2>1, <5>1 DEF RunUpTo, n
      <4>2. call = LogCall(f)
        <5>1. f + 1 # 0 /\ f + 1 # n + 1 /\ (f + 1) - 1 = f BY <1>2, <3>2
        <5> QED BY <2>4, <5>1 DEF IsCall, n
      <4>3. Status' = "Running" /\ Logged' = (0 .. f - 1) \cup {f}
        <5>1. f \in Nat BY <1>2, <3>2
        <5> QED BY <1>1, <1>2, <4>1, <4>2, <5>1, CallRuns
      <4>4. (0 .. f - 1) \cup {f} = 0 .. (f + 1) - 1 BY <3>2
      <4>5. f + 1 # -1 /\ f + 1 # n + 1 BY <1>2, <3>2
      <4> QED BY <2>2, <4>3, <4>4, <4>5 DEF RunUpTo
    <3>3. CASE f = n
      <4>1. Status = "Running" /\ Logged = 0 .. n - 1
        <5>1. f \in 0 .. n BY <1>2, <3>3
        <5> QED BY <2>1, <3>3, <5>1 DEF RunUpTo, n
      <4>2. call \in FinishCalls
        <5>1. f + 1 # 0 /\ f + 1 \notin 1 .. n BY <1>2, <3>3
        <5> QED BY <2>4, <5>1 DEF IsCall, n
      <4>3. PICK ok \in BOOLEAN : call = FinishCall(ok) BY <4>2 DEF FinishCalls
      <4>4. Status' \in Outcome /\ Logged' = 0 .. n - 1
        BY <1>1, <1>2, <4>1, <4>3, CallRuns DEF Outcome
      <4>5. f + 1 = n + 1 /\ f + 1 # -1 /\ f + 1 \notin 0 .. n BY <1>2, <3>3
      <4> QED BY <2>2, <4>4, <4>5 DEF RunUpTo
    <3> QED BY <1>2, <2>1, <2>2, <3>1, <3>2, <3>3
  <2>6. f + c = n + 1 => at \in {"done", "down"} /\ AllTold
    BY <1>4 DEF Underway, n, c
  <2>7. f + c = n + 1 => at' \in {"done", "down"} /\ AllTold'
    BY <1>1, <2>6 DEF AllTold, Tells
  <2>8. /\ at' = "idle" => f + c = -1
        /\ at' \notin {"idle", "done", "down"} => f + c = n
        /\ at' = "done" => f + c = n + 1
    BY <1>1, <1>4 DEF Underway, n, c
  <2>9. f + 1 \in -1 .. n + 1 BY <1>2, <2>2
  <2> QED BY <2>1, <2>2, <2>3, <2>5, <2>7, <2>8, <2>9 DEF Underway
<1> QED BY <1>3, <1>4 DEF Reporting
\* the executor is where it was
LEMMA DeliverExecutes ==
    ASSUME Executing, UNCHANGED <<executorVars, childVars>>
    PROVE  Executing'
<1>1. \A s \in Stream : Untold(s)' = Untold(s) /\ Told(s)' = Told(s)
  BY DEF Untold, Told, childVars
<1>2. Waiting => Waiting'
  <2>1. ASSUME Waiting, NEW s \in Stream PROVE Told(s)' \in Nat /\ Tells(said, s, Told(s))'
    BY <1>1, <2>1 DEF Waiting, Tells, executorVars
  <2> QED BY <1>1, <2>1, Streams DEF Waiting, childVars
<1> QED BY <1>1, <1>2 DEF Executing, Stages, executorVars, childVars

-----------------------------------------------------------------------------
(* The page *)

LEMMA WatchingAgent ==
    ASSUME MayReport, DeployLogTyped, Watching, Elsewhere
    PROVE  Watching'
BY ElsewhereTyped DEF Watching, Elsewhere, serverVars

LEMMA WatchingDeliver ==
    ASSUME DeployLogTyped, Reporting, Watching, Deliver
    PROVE  Watching'
<1>1. Status \notin Outcome BY OutcomesAreFinal DEF Deliver
<1>2. Seen.status = Status BY SeenIs
<1>3. /\ \A i \in 1 .. Len(feed) : feed[i].status \notin Outcome
      /\ cache.status \notin Outcome /\ drawer.status \notin Outcome
  BY <1>1, <1>2 DEF Watching
<1>4. /\ feed' = Append(feed, Seen') /\ feed \in Seq(View)
      /\ UNCHANGED <<cache, fetch, drawer>>
  BY DEF Deliver, DeployLogTyped
<1>5. /\ Len(feed) \in Nat /\ Len(feed') = Len(feed) + 1 /\ feed'[Len(feed) + 1] = Seen'
      /\ \A i \in 1 .. Len(feed) : feed'[i] = feed[i]
  BY <1>4
<1>6. ASSUME NEW i \in 1 .. Len(feed'), feed'[i].status \in Outcome
      PROVE  i = Len(feed') /\ feed'[i] = Seen'
  <2>1. i \notin 1 .. Len(feed) BY <1>3, <1>5, <1>6
  <2>2. i = Len(feed) + 1 BY <1>5, <2>1
  <2> QED BY <1>5, <2>2
<1>7. \A i \in Fetches : ~(fetch[i].at # "idle" /\ fetch[i].status \in Outcome)
  BY <1>3 DEF Watching
<1> QED BY <1>3, <1>4, <1>6, <1>7 DEF Watching

LEMMA ApplyStep ==
    ASSUME MayReport, DeployLogTyped, Executing, Reporting, Watching, Apply
    PROVE  MayReport' /\ DeployLogTyped' /\ Executing' /\ Reporting' /\ Watching'
<1>1. /\ feed # <<>> /\ cache' = Head(feed) /\ feed' = Tail(feed)
      /\ UNCHANGED <<vars, executorVars, childVars, calls, fetch, drawer, crashes>>
  BY DEF Apply
<1>2. feed \in Seq(View) /\ cache' \in View /\ feed' \in Seq(View)
  BY <1>1 DEF DeployLogTyped
<1>3. /\ Len(feed) \in Nat /\ Len(feed) > 0 /\ Head(feed) = feed[1] /\ Len(feed') = Len(feed) - 1
      /\ \A i \in 1 .. Len(feed) - 1 : feed'[i] = feed[i + 1]
  BY <1>1, <1>2
<1>4. Seen' = Seen /\ Status' = Status /\ Logged' = Logged /\ MayReport'
  BY <1>1 DEF vars, Seen, Status, Logged, MayReport
<1>5. DeployLogTyped'
  BY <1>1, <1>2, <1>4 DEF DeployLogTyped, executorVars, childVars
<1>6. Executing' BY <1>1, DeliverExecutes
<1>7. Reporting'
  <2>1. Recovered => Recovered' BY <1>1, <1>4 DEF Recovered, executorVars
  <2>2. ASSUME NEW f \in Int, Underway(f) PROVE Underway(f)'
    <3>1. RunUpTo(f)' BY <1>1, <1>4, <2>2 DEF Underway, RunUpTo, executorVars
    <3>2. AllTold => AllTold' BY <1>1 DEF AllTold, Tells, executorVars, childVars
    <3>3. \A i \in 1 .. Len(calls) : IsCall(f + i, calls[i])'
      BY <1>1, <2>2 DEF Underway, IsCall, executorVars
    <3> QED BY <1>1, <2>2, <3>1, <3>2, <3>3 DEF Underway, executorVars
  <2> QED BY <2>1, <2>2 DEF Reporting
<1>8. Watching'
  <2>1. cache.status \notin Outcome BY <1>1 DEF Watching
  <2>2. cache'.status \in Outcome => feed' = <<>> /\ cache' = Seen'
    <3>1. ASSUME cache'.status \in Outcome PROVE feed' = <<>> /\ cache' = Seen'
      <4> DEFINE n == Len(feed)
                 m == Len(feed')
      <4>0. n \in Nat /\ n > 0 /\ m = n - 1 BY <1>3
      <4>a. \A i \in 1 .. n : feed[i].status \in Outcome => i = n /\ feed[i] = Seen
        BY DEF Watching
      <4>b. feed[1].status \in Outcome BY <1>1, <1>3, <3>1
      <4> HIDE DEF n, m
      <4>c. 1 \in 1 .. n BY <4>0
      <4>d. 1 = n /\ feed[1] = Seen BY <4>a, <4>b, <4>c
      <4>e. m = 0 BY <4>0, <4>d
      <4>1. 1 = Len(feed) /\ feed[1] = Seen BY <4>d DEF n
      <4>2. Len(feed') = 0 BY <4>e DEF m
      <4> QED BY <1>1, <1>2, <1>3, <1>4, <4>1, <4>2, ShortSequences
    <3> QED BY <3>1
  <2>3. ASSUME NEW i \in 1 .. Len(feed'), feed'[i].status \in Outcome
        PROVE  i = Len(feed') /\ feed'[i] = Seen'
    <3>1. i \in 1 .. Len(feed) - 1 BY <1>3
    <3>2. i + 1 \in 1 .. Len(feed) /\ feed'[i] = feed[i + 1] BY <1>3, <3>1
    <3>3. i + 1 = Len(feed) /\ feed[i + 1] = Seen BY <2>3, <3>2 DEF Watching
    <3> QED BY <1>3, <1>4, <3>1, <3>2, <3>3
  <2>4. \A i \in Fetches : ~(fetch[i].at # "idle" /\ fetch[i].status \in Outcome)
    BY <2>1 DEF Watching
  <2> QED BY <1>1, <1>4, <2>2, <2>3, <2>4 DEF Watching
<1> QED BY <1>4, <1>5, <1>6, <1>7, <1>8

LEMMA DrawerStep ==
    ASSUME MayReport, DeployLogTyped, Executing, Reporting, Watching, Drawer
    PROVE  MayReport' /\ DeployLogTyped' /\ Executing' /\ Reporting' /\ Watching'
<1>0. /\ UNCHANGED <<vars, executorVars, childVars, calls, feed, cache, crashes>>
      /\ \/ CloseLog
         \/ \E i \in Fetches : ShowLog(i) \/ BuildDetail(i) \/ Land(i)
  BY DEF Drawer, CloseLog, ShowLog, BuildDetail, Land, executorSide
<1>1. Seen' = Seen /\ Status' = Status /\ Logged' = Logged /\ MayReport'
  BY <1>0 DEF vars, Seen, Status, Logged, MayReport
<1>2. Executing' BY <1>0, DeliverExecutes
<1>3. Reporting'
  <2>1. Recovered => Recovered' BY <1>0, <1>1 DEF Recovered, executorVars
  <2>2. ASSUME NEW f \in Int, Underway(f) PROVE Underway(f)'
    <3>1. RunUpTo(f)' BY <1>0, <1>1, <2>2 DEF Underway, RunUpTo, executorVars
    <3>2. AllTold => AllTold' BY <1>0 DEF AllTold, Tells, executorVars, childVars
    <3>3. \A i \in 1 .. Len(calls) : IsCall(f + i, calls[i])'
      BY <1>0, <2>2 DEF Underway, IsCall, executorVars
    <3> QED BY <1>0, <2>2, <3>1, <3>2, <3>3 DEF Underway, executorVars
  <2> QED BY <2>1, <2>2 DEF Reporting
<1>4. cache \in View /\ fetch \in [Fetches -> Answer] /\ drawer \in View \cup {Closed}
      /\ NotAsked \in Answer /\ NotAsked.at = "idle" /\ Closed.status \notin Outcome
  BY DEF DeployLogTyped, Answer, NotAsked, Closed, Outcome
<1>5. ASSUME fetch' \in [Fetches -> Answer], drawer' \in View \cup {Closed} PROVE DeployLogTyped'
  BY <1>0, <1>1, <1>5 DEF DeployLogTyped, executorVars, childVars
<1>6. Seen.rows = Logged
  BY SeenIs
<1>7. CASE CloseLog
  BY <1>0, <1>1, <1>2, <1>3, <1>4, <1>5, <1>7 DEF CloseLog, Watching
<1>8. ASSUME NEW i \in Fetches, NEW answer \in Answer, Goes(i, answer), drawer' = drawer,
             answer.at # "idle",
             answer.status \in Outcome => cache.status = answer.status,
             answer.at = "answered" /\ answer.status \in Outcome => answer.rows = Logged
      PROVE  DeployLogTyped' /\ Watching'
  <2>1. fetch'[i] = answer /\ fetch' \in [Fetches -> Answer]
        /\ \A j \in Fetches : j # i => fetch'[j] = fetch[j]
    BY <1>4, <1>8 DEF Goes
  <2> QED BY <1>0, <1>1, <1>4, <1>5, <1>8, <2>1 DEF Watching
<1>9. ASSUME NEW i \in Fetches, ShowLog(i) PROVE DeployLogTyped' /\ Watching'
  <2> DEFINE answer == [at |-> "reading", status |-> cache.status]
  <2>1. answer \in Answer /\ answer.at = "reading" /\ answer.status = cache.status
    BY <1>4 DEF Answer, View
  <2>2. Goes(i, answer) /\ drawer' = drawer BY <1>9 DEF ShowLog
  <2> HIDE DEF answer
  <2> QED BY <1>8, <2>1, <2>2
<1>10. ASSUME NEW i \in Fetches, BuildDetail(i) PROVE DeployLogTyped' /\ Watching'
  <2> DEFINE answer == [at |-> "answered", status |-> fetch[i].status, rows |-> cache.rows]
  <2>0. fetch[i].at = "reading" /\ fetch[i] \in Answer BY <1>4, <1>10 DEF BuildDetail
  <2>1. answer \in Answer /\ answer.at = "answered" /\ answer.status = fetch[i].status
        /\ answer.rows = cache.rows
    BY <1>4, <2>0 DEF Answer, View, NotAsked
  <2>2. Goes(i, answer) /\ drawer' = drawer BY <1>10 DEF BuildDetail
  <2>3. fetch[i].status \in Outcome => cache.status = fetch[i].status /\ cache.rows = Logged
    BY <1>6, <2>0 DEF Watching
  <2> HIDE DEF answer
  <2> QED BY <1>8, <2>1, <2>2, <2>3
<1>11. ASSUME NEW i \in Fetches, Land(i) PROVE DeployLogTyped' /\ Watching'
  <2>0. fetch[i].at = "answered" /\ fetch[i] \in Answer BY <1>4, <1>11 DEF Land
  <2>1. drawer' = [status |-> fetch[i].status, rows |-> fetch[i].rows] BY <1>11 DEF Land
  <2>2. drawer' \in View BY <2>0, <2>1 DEF Answer, View, NotAsked
  <2>3. drawer'.status = fetch[i].status /\ drawer'.rows = fetch[i].rows BY <2>1
  <2>4. drawer'.status \in Outcome => Status \in Outcome /\ drawer'.rows = Logged
    <3>1. ASSUME fetch[i].status \in Outcome PROVE Status \in Outcome /\ fetch[i].rows = Logged
      <4>1. cache.status = fetch[i].status /\ fetch[i].rows = Logged
        BY <2>0, <3>1 DEF Watching
      <4>2. cache = Seen BY <3>1, <4>1 DEF Watching
      <4> QED BY <3>1, <4>1, <4>2, SeenIs
    <3> QED BY <2>3, <3>1
  <2>5. fetch'[i] = NotAsked /\ fetch' \in [Fetches -> Answer]
        /\ \A j \in Fetches : j # i => fetch'[j] = fetch[j]
    BY <1>4, <1>11 DEF Land, Goes
  <2> QED BY <1>0, <1>1, <1>4, <1>5, <2>2, <2>4, <2>5 DEF Watching
<1> QED BY <1>0, <1>1, <1>2, <1>3, <1>7, <1>9, <1>10, <1>11

-----------------------------------------------------------------------------
(* The theorems *)

LEMMA DeployLogStep == DeployLogInv /\ [DeployLogNext]_logVars => DeployLogInv'
<1> SUFFICES ASSUME DeployLogInv, [DeployLogNext]_logVars PROVE DeployLogInv'
  OBVIOUS
<1>0. MayReport /\ DeployLogTyped /\ Executing /\ Reporting /\ Watching
  BY DEF DeployLogInv
<1>1. CASE AgentStep
  <2>1. MayReport' /\ DeployLogTyped' /\ Elsewhere
    BY <1>0, <1>1, AgentTyped DEF AgentStep
  <2>2. Executing' BY <1>0, <1>1, ExecutingStep
  <2>3. Reporting' BY <1>0, <1>1, ReportingStep
  <2>4. Watching' BY <1>0, <2>1, WatchingAgent
  <2> QED BY <2>1, <2>2, <2>3, <2>4 DEF DeployLogInv
<1>2. CASE Deliver
  <2>1. MayReport' /\ DeployLogTyped' BY <1>0, <1>2, DeliverTyped
  <2>2. Executing' BY <1>0, <1>2, DeliverExecutes DEF Deliver
  <2>3. Reporting' BY <1>0, <1>2, DeliverReports
  <2>4. Watching' BY <1>0, <1>2, WatchingDeliver
  <2> QED BY <2>1, <2>2, <2>3, <2>4 DEF DeployLogInv
<1>3. CASE Apply
  BY <1>0, <1>3, ApplyStep DEF DeployLogInv
<1>4. CASE Drawer
  BY <1>0, <1>4, DrawerStep DEF DeployLogInv
<1>5. CASE UNCHANGED logVars
  <2>1. UNCHANGED <<vars, executorVars, childVars, calls, serverVars, crashes>>
    BY <1>5 DEF logVars
  <2>2. Elsewhere BY <2>1 DEF Elsewhere
  <2>3. MayReport' /\ SameRow BY <1>0, <2>2, ElsewhereTyped DEF SameRow
  <2>4. DeployLogTyped'
    BY <1>0, <2>1, <2>2, ElsewhereTyped DEF DeployLogTyped, executorVars, childVars
  <2>5. Executing' BY <1>0, <2>1, DeliverExecutes
  <2>6. Reporting'
    <3>1. Recovered => Recovered' BY <2>1, <2>3 DEF Recovered, SameRow, executorVars
    <3>2. ASSUME NEW f \in Int, Underway(f) PROVE Underway(f)'
      <4>1. RunUpTo(f)' BY <2>1, <2>3, <3>2 DEF Underway, RunUpTo, SameRow, executorVars
      <4>2. AllTold => AllTold' BY <2>1 DEF AllTold, Tells, executorVars, childVars
      <4>3. \A i \in 1 .. Len(calls) : IsCall(f + i, calls[i])'
        BY <2>1, <3>2 DEF Underway, IsCall, executorVars
      <4> QED BY <2>1, <3>2, <4>1, <4>2, <4>3 DEF Underway, executorVars
    <3> QED BY <1>0, <3>1, <3>2 DEF Reporting
  <2>7. Watching' BY <1>0, <2>2, WatchingAgent
  <2> QED BY <2>3, <2>4, <2>5, <2>6, <2>7 DEF DeployLogInv
<1> QED BY <1>1, <1>2, <1>3, <1>4, <1>5 DEF DeployLogNext, AgentStep, Executor
LEMMA DeployLogAlways == DeployLogSpec => []DeployLogInv
<1>1. DeployLogInit => DeployLogInv BY StartsWell
<1>2. DeployLogInv /\ [DeployLogNext]_logVars => DeployLogInv' BY DeployLogStep
<1> QED BY <1>1, <1>2, PTL DEF DeployLogSpec

\* lines numbered without a gap are sorted into the order of their numbers
LEMMA InOrder ==
    ASSUME NEW k \in Nat
    PROVE  /\ Cardinality(0 .. k - 1) = k
           /\ \A i \in 1 .. k : Sorted(0 .. k - 1)[i] = i - 1
<1> DEFINE rows == 0 .. k - 1
<1>1. \A n \in 0 .. k : Cardinality(0 .. n - 1) = n
  BY FS_Interval
<1>2. Cardinality(rows) = k
  BY <1>1
<1>3. ASSUME NEW n \in rows PROVE Cardinality({m \in rows : m < n}) = n
  <2>1. n \in 0 .. k /\ {m \in rows : m < n} = 0 .. n - 1 OBVIOUS
  <2>2. Cardinality(0 .. n - 1) = n BY <1>1, <2>1
  <2> QED BY <2>1, <2>2
<1>4. ASSUME NEW i \in 1 .. k PROVE Sorted(rows)[i] = i - 1
  <2>1. Sorted(rows)[i] = CHOOSE n \in rows : Cardinality({m \in rows : m < n}) = i - 1
    BY <1>2 DEF Sorted
  <2>2. i - 1 \in rows OBVIOUS
  <2> HIDE DEF rows
  <2>3. Cardinality({m \in rows : m < i - 1}) = i - 1 BY <1>3, <2>2
  <2>4. \A n \in rows : Cardinality({m \in rows : m < n}) = i - 1 => n = i - 1 BY <1>3
  <2> DEFINE P(n) == n \in rows /\ Cardinality({m \in rows : m < n}) = i - 1
  <2>5. P(i - 1) /\ \A n : P(n) => n = i - 1 BY <2>2, <2>3, <2>4
  <2>6. Sorted(rows)[i] = CHOOSE n : P(n) BY <2>1
  <2> HIDE DEF P
  <2> QED BY <2>5, <2>6
<1> QED BY <1>2, <1>4

\* so an untouched log shows what was said
LEMMA ShownAsSaid ==
    ASSUME said \in Seq(Said), Recovery \notin 0 .. Len(said) - 1
    PROVE  Shown(0 .. Len(said) - 1) = said
<1> DEFINE k == Len(said)
           rows == 0 .. k - 1
<1>1. k \in Nat /\ said = [i \in 1 .. k |-> said[i]] OBVIOUS
<1> HIDE DEF k
<1>2. Cardinality(rows) = k /\ \A i \in 1 .. k : Sorted(rows)[i] = i - 1 BY <1>1, InOrder
<1>3. \A i \in 1 .. k : i - 1 \in rows /\ i - 1 # Recovery /\ (i - 1) + 1 = i BY <1>1 DEF k
<1> HIDE DEF rows
<1>4. Shown(rows) = [i \in 1 .. k |-> said[i]] BY <1>2, <1>3 DEF Shown
<1> QED BY <1>1, <1>4 DEF k, rows

\* FinishedLogsAreWhole, for any number of programs and lines, pipes of any size, any number
\* of calls and updates on their way, of requests by the page and of crashes of the agent:
\* whoever reads that a deployment has ended reads all that its programs wrote, in order.
THEOREM FinishedLogsAreTold == DeployLogSpec => []FinishedLogsAreWhole
<1>1. ASSUME DeployLogInv PROVE FinishedLogsAreWhole
  <2> SUFFICES ASSUME drawer.status \in Outcome, Recovery \notin drawer.rows
               PROVE  \A s \in Stream : Tells(Shown(drawer.rows), s, printed[s])
    BY DEF FinishedLogsAreWhole, Outcome
  <2> DEFINE k == Len(said)
             l == Len(calls)
  <2>1. Status \in Outcome /\ drawer.rows = Logged BY <1>1 DEF DeployLogInv, Watching
  <2>2. ~Recovered BY <2>1 DEF Recovered
  <2>3. PICK f \in Int : Underway(f) BY <1>1, <2>2 DEF DeployLogInv, Reporting
  <2>4. said \in Seq(Said) /\ k \in Nat /\ l \in Nat BY <1>1 DEF DeployLogInv, DeployLogTyped
  <2>5. f \in -1 .. k + 1 /\ f + l <= k + 1 /\ (f + l = k + 1 => AllTold) BY <2>3 DEF Underway
  <2>6. f # -1 /\ f \notin 0 .. k BY <2>1, <2>3 DEF Underway, RunUpTo, Outcome
  <2>7. f = k + 1 => Logged = 0 .. k - 1 BY <2>3 DEF Underway, RunUpTo
  <2> HIDE DEF k, l
  <2>8. f = k + 1 /\ l = 0 BY <2>4, <2>5, <2>6
  <2>9. AllTold /\ Logged = 0 .. k - 1 BY <2>4, <2>5, <2>7, <2>8
  <2>10. Shown(drawer.rows) = said BY <2>1, <2>4, <2>9, ShownAsSaid DEF k
  <2> QED BY <2>9, <2>10 DEF AllTold
<1> QED BY <1>1, DeployLogAlways, PTL

\* what travels is always of the kind it should be: numbered lines between one start and one
\* outcome on the way to the database, whole snapshots on the way to the page
THEOREM DeployLogTypeCorrect == DeployLogSpec => []DeployLogTyped
<1>1. DeployLogInv => DeployLogTyped BY DEF DeployLogInv
<1> QED BY <1>1, DeployLogAlways, PTL
\* Whatever the agent sends, and whenever it ends, the control plane runs nothing but what it
\* lets any client do: Runs is start_deployment, append_log and finish_deployment.
THEOREM LoggingIsAClient ==
    ASSUME agent_id \in Identities, MaxDeployments > 0, Nat \subseteq Seqs
    PROVE  DeployLogSpec => [][Next]_vars
<1> DEFINE Connects == conn[agent_id] = 1
<1>1. DeployLogInit => Connects BY DEF DeployLogInit
<1>2. ASSUME DeployLogInv, Connects, [DeployLogNext]_logVars PROVE [Next]_vars /\ Connects'
  <2>1. CASE Deliver
    <3>1. PICK call \in {StartCall} \cup LogCalls \cup FinishCalls : Runs(call)
      BY <1>2, <2>1, FirstCall DEF DeployLogInv, Deliver, DeployLogTyped
    <3>2. d \in DeploymentId BY BoundAssumption DEF d, DeploymentId
    <3>3. \/ UNCHANGED vars
          \/ StartDeployment(agent_id, d)
          \/ \E n \in Nat : AppendLog(agent_id, d, n)
          \/ \E ok \in BOOLEAN : FinishDeployment(agent_id, d, ok)
      <4>1. CASE call = StartCall BY <3>1, <4>1 DEF Runs, StartCall
      <4>2. CASE call \in LogCalls BY <3>1, <4>2 DEF Runs, LogCalls, LogCall
      <4>3. ASSUME NEW ok \in BOOLEAN, call = FinishCall(ok) PROVE FinishDeployment(agent_id, d, ok)
        BY <3>1, <4>3 DEF Runs, FinishCall
      <4> QED BY <3>1, <4>1, <4>2, <4>3 DEF FinishCalls
    <3>4. UNCHANGED vars \/ AgentReducer(agent_id) BY <3>2, <3>3 DEF AgentReducer
    <3>5. agent_id \in Connected BY <1>2 DEF Connected
    <3>6. Connects'
      BY <1>2, <3>3 DEF vars, StartDeployment, AppendLog, FinishDeployment, deploymentFrame
    <3> QED BY <3>4, <3>5, <3>6 DEF Next
  <2>2. ASSUME UNCHANGED vars PROVE [Next]_vars /\ Connects'
    BY <1>2, <2>2 DEF vars
  <2>3. ASSUME AgentStep \/ Apply \/ Drawer \/ UNCHANGED logVars PROVE UNCHANGED vars
    <3>1. CASE AgentStep
      BY <1>2, <3>1, AgentTyped DEF AgentStep, DeployLogInv, Elsewhere
    <3>2. CASE Apply BY <3>2 DEF Apply
    <3>3. CASE Drawer
      BY <3>3 DEF Drawer, CloseLog, ShowLog, BuildDetail, Land, executorSide
    <3> QED BY <2>3, <3>1, <3>2, <3>3 DEF logVars
  <2> QED BY <1>2, <2>1, <2>2, <2>3 DEF DeployLogNext, AgentStep, Executor
<1> QED BY <1>1, <1>2, DeployLogAlways, PTL DEF DeployLogSpec
-----------------------------------------------------------------------------
(* Nobody waits for somebody who waits for him *)

\* while output is read there is a program, or how it ended; when the executor is done an
\* outcome is on its way or has arrived
OutcomeComes ==
    /\ at \in {"reading", "waiting", "relaying"} => child # NoChild
    /\ at = "done" /\ Status \notin Outcome => calls # <<>> /\ calls[Len(calls)] \in FinishCalls

LEMMA OutcomeComesByAgent ==
    ASSUME DeployLogInv, OutcomeComes, AgentStep
    PROVE  OutcomeComes'
<1>0. DeployLogTyped /\ Status' = Status
  BY AgentTyped, ElsewhereTyped DEF DeployLogInv, AgentStep
<1> USE DEF NoChild
<1>1. CASE Claim \/ Prepare \/ Spawn \/ AllAccepted \/ Judge \/ Crash
  BY <1>1 DEF Claim, Prepare, Spawn, AllAccepted, Judge, Crash, OutcomeComes
<1>2. CASE ReadLine \/ Wait \/ Join \/ Relay
  BY <1>2 DEF ReadLine, Wait, Join, Relay, OutcomeComes, childVars
<1>3. CASE Child \/ Collect
  BY <1>0, <1>3 DEF Child, Exit, Write, Collect, OutcomeComes, executorVars
<1>4. ASSUME NEW c \in LogCalls, NEW o \in FinishCalls, at' = "done",
             calls' = calls \o <<c, o>> \/ calls' = <<c, o>>
      PROVE  OutcomeComes'
  <2> DEFINE AnyCall == {StartCall} \cup LogCalls \cup FinishCalls
  <2>1. calls \in Seq(AnyCall) BY <1>0 DEF DeployLogTyped
  <2>2. c \in AnyCall /\ o \in AnyCall OBVIOUS
  <2> HIDE DEF AnyCall
  <2>3. \A q \in Seq(AnyCall) : Len(q \o <<c, o>>) = Len(q) + 2 /\ (q \o <<c, o>>)[Len(q) + 2] = o
    BY <2>2
  <2>4. calls' = calls \o <<c, o>> => Len(calls') = Len(calls) + 2 /\ calls'[Len(calls) + 2] = o
    BY <2>1, <2>3
  <2>5. calls' = <<c, o>> => Len(calls') = 2 /\ calls'[2] = o
    OBVIOUS
  <2>6. calls' # <<>> /\ calls'[Len(calls')] = o
    BY <1>4, <2>1, <2>4, <2>5
  <2> QED BY <1>4, <2>6 DEF OutcomeComes
<1>5. CASE Conclude
  <2>1. PICK o \in FinishCalls : calls' = calls \o <<LogCall(Len(said)), o>>
    BY <1>5 DEF Conclude, FinishCalls
  <2>2. LogCall(Len(said)) \in LogCalls BY <1>0, Lengths DEF LogCalls
  <2> QED BY <1>4, <1>5, <2>1, <2>2 DEF Conclude
<1>6. CASE Restart
  <2>1. CASE calls' = <<LogCall(Recovery), FinishCall(FALSE)>> /\ at' = "done"
    <3>1. LogCall(Recovery) \in LogCalls /\ FinishCall(FALSE) \in FinishCalls
      BY DeployLogAssumption DEF LogCalls, FinishCalls
    <3> QED BY <1>4, <2>1, <3>1
  <2>2. CASE at' = "idle" BY <2>2 DEF OutcomeComes
  <2>3. CASE Status \notin InFlight /\ at' = "done"
    <3>1. Status \in Statuses BY DEF DeployLogInv, MayReport, Status
    <3>2. Status \in Outcome BY <2>3, <3>1 DEF Statuses, InFlight
    <3> QED BY <1>0, <2>3, <3>2 DEF OutcomeComes
  <2> QED BY <1>6, <2>1, <2>2, <2>3 DEF Restart
<1> QED BY <1>1, <1>2, <1>3, <1>5, <1>6 DEF AgentStep

LEMMA OutcomeComesByDelivery ==
    ASSUME DeployLogInv, OutcomeComes, Deliver
    PROVE  OutcomeComes'
<1> DEFINE call == Head(calls)  l == Len(calls)  rest == Tail(calls)
<1>1. DeployLogTyped /\ MayReport /\ calls # <<>> /\ calls' = rest /\ Runs(call)
      /\ UNCHANGED <<at, child>>
  BY DEF DeployLogInv, Deliver, executorVars, childVars
<1>2. /\ call = calls[1] /\ call \in {StartCall} \cup LogCalls \cup FinishCalls
      /\ l \in Nat /\ l > 0 /\ Len(rest) = l - 1
      /\ \A i \in 1 .. l - 1 : rest[i] = calls[i + 1]
  BY <1>1, FirstCall, Lengths
<1>3. Status \in Outcome => FALSE
  BY <1>1, OutcomesAreFinal DEF DeployLogInv
<1>4. ASSUME at = "done", Status' \notin Outcome
      PROVE  rest # <<>> /\ rest[Len(rest)] \in FinishCalls
  <2>1. calls[l] \in FinishCalls BY <1>3, <1>4 DEF OutcomeComes
  <2>2. l # 1
    <3>1. call \in FinishCalls => Status' \in Outcome
      <4>1. ASSUME NEW ok \in BOOLEAN, call = FinishCall(ok) PROVE Status' \in Outcome
        <5>1. Status' = IF ok THEN "Succeeded" ELSE "Failed" BY <1>1, <1>2, <4>1, CallRuns
        <5> QED BY <5>1 DEF Outcome
      <4> QED BY <4>1 DEF FinishCalls
    <3> QED BY <1>2, <1>4, <2>1, <3>1
  <2> HIDE DEF l, rest
  <2>3. l - 1 \in 1 .. l - 1 /\ (l - 1) + 1 = l /\ Len(rest) # 0 BY <1>2, <2>2
  <2>4. rest[l - 1] = calls[l] BY <1>2, <2>3
  <2> QED BY <1>2, <2>1, <2>3, <2>4
<1>5. calls' # <<>> /\ calls'[Len(calls')] \in FinishCalls
      <=> rest # <<>> /\ rest[Len(rest)] \in FinishCalls
  BY <1>1
<1> HIDE DEF call, l, rest
<1> QED BY <1>1, <1>4, <1>5 DEF OutcomeComes

LEMMA OutcomeAlwaysComes == DeployLogSpec => []OutcomeComes
<1>1. DeployLogInit => OutcomeComes BY DEF DeployLogInit, OutcomeComes
<1>2. DeployLogInv /\ OutcomeComes /\ [DeployLogNext]_logVars => OutcomeComes'
  <2> SUFFICES ASSUME DeployLogInv, OutcomeComes, [DeployLogNext]_logVars PROVE OutcomeComes'
    OBVIOUS
  <2>1. ASSUME UNCHANGED <<vars, executorVars, childVars, calls>> PROVE OutcomeComes'
    BY <2>1 DEF OutcomeComes, executorVars, childVars, vars, Status
  <2>2. CASE Apply \/ Drawer \/ UNCHANGED logVars
    BY <2>1, <2>2 DEF Apply, Drawer, CloseLog, ShowLog, BuildDetail, Land, executorSide, logVars
  <2> QED BY <2>2, OutcomeComesByAgent, OutcomeComesByDelivery
          DEF DeployLogNext, AgentStep, Executor
<1> QED BY <1>1, <1>2, DeployLogAlways, PTL DEF DeployLogSpec

\* However much the programs write and however little a pipe holds: as long as a deployment
\* has no outcome, somebody's next step is open.  A program held up by a full pipe is
\* held up by one that the executor or the thread is about to read.
THEOREM NobodyIsStuck == DeployLogSpec => []NeverStuck
<1>1. ASSUME DeployLogInv, OutcomeComes PROVE NeverStuck
  <2> SUFFICES ASSUME Status \in InFlight, calls = <<>>
               PROVE  ExecutorGoesOn \/ ChildGoesOn \/ ThreadGoesOn
    BY DEF NeverStuck
  <2>0. DeployLogTyped /\ Stages /\ Status \notin Outcome
    BY <1>1 DEF DeployLogInv, Executing, InFlight, Outcome
  <2>1. /\ at # "done"
        /\ at \in {"reading", "waiting", "relaying"} => child # NoChild
    BY <1>1, <2>0 DEF OutcomeComes
  <2>2. CASE at = "reading" /\ child = "running" /\ pipe["stdout"] = <<>>
    <3>1. CASE due = None BY <2>2, <3>1 DEF ChildGoesOn
    <3>2. CASE pipe["stderr"] # <<>> BY <2>2, <3>2 DEF ThreadGoesOn, MayCollect
    <3>3. CASE due # None /\ pipe["stderr"] = <<>>
      <4>1. due \in [Stream -> Nat] BY <2>0 DEF DeployLogTyped
      <4>2. PICK s \in Stream : due[s] # 0 BY <3>3, <4>1 DEF None
      <4>3. pipe[s] = <<>> BY <2>2, <3>3 DEF Stream
      <4>4. PipeSize \in Nat \ {0} BY DeployLogAssumption
      <4>5. due[s] > 0 /\ Len(pipe[s]) < PipeSize BY <4>1, <4>2, <4>3, <4>4
      <4> QED BY <2>2, <4>5 DEF ChildGoesOn
    <3> QED BY <3>1, <3>2, <3>3
  <2>3. CASE at = "reading" /\ ~(child = "running" /\ pipe["stdout"] = <<>>)
    BY <2>3 DEF ExecutorGoesOn
  <2>4. CASE at = "waiting"
    BY <2>4 DEF ExecutorGoesOn, ThreadGoesOn, MayCollect
  <2>5. CASE at = "relaying"
    <3>1. child \in {"accepted", "tolerated", "rejected"}
      BY <2>0, <2>1, <2>5 DEF DeployLogTyped, Stages
    <3> QED BY <2>5, <3>1 DEF ExecutorGoesOn, MayJudge
  <2>6. CASE at \in {"idle", "preparing", "spawning", "failing", "succeeding", "down"}
    BY <2>6 DEF ExecutorGoesOn
  <2> QED BY <2>0, <2>1, <2>2, <2>3, <2>4, <2>5, <2>6 DEF DeployLogTyped
<1> QED BY <1>1, DeployLogAlways, OutcomeAlwaysComes, PTL
=============================================================================
