--------------------------- MODULE ReleasesProofs ---------------------------
(***************************************************************************)
(* Proofs about Releases for any commits, environments, targets and exits. *)
(***************************************************************************)
EXTENDS Releases, TLAPS

-----------------------------------------------------------------------------
(* Directories *)

LEMMA DirectoryTyped ==
    /\ \A S \in SUBSET Names : \A d \in [S -> Contents] : d \in Directory
    /\ \A d \in Directory : DOMAIN d \subseteq Names /\ d \in [DOMAIN d -> Contents]
BY DEF Directory

LEMMA NothingTyped == Nothing \in Directory /\ DOMAIN Nothing = {}
<1>1. Nothing \in [{} -> Contents] /\ DOMAIN Nothing = {} BY DEF Nothing, EmptyTable
<1> QED BY <1>1, DirectoryTyped

LEMMA PutFile ==
    ASSUME NEW d \in Directory, NEW f \in Names, NEW c \in Contents
    PROVE  /\ Put(d, f, c) \in Directory
           /\ DOMAIN Put(d, f, c) = DOMAIN d \cup {f}
           /\ Put(d, f, c)[f] = c
           /\ \A g \in DOMAIN d \ {f} : Put(d, f, c)[g] = d[g]
<1>1. DOMAIN d \subseteq Names /\ d \in [DOMAIN d -> Contents] BY DirectoryTyped
<1>2. Put(d, f, c) \in [DOMAIN d \cup {f} -> Contents] BY <1>1 DEF Put
<1>3. Put(d, f, c) \in Directory BY <1>1, <1>2, DirectoryTyped
<1> QED BY <1>3 DEF Put

LEMMA RestrictFiles ==
    ASSUME NEW d \in Directory, NEW S \in SUBSET DOMAIN d
    PROVE  /\ Restrict(d, S) \in Directory
           /\ DOMAIN Restrict(d, S) = S
           /\ \A f \in S : Restrict(d, S)[f] = d[f]
<1>1. DOMAIN d \subseteq Names /\ d \in [DOMAIN d -> Contents] BY DirectoryTyped
<1>2. Restrict(d, S) \in [S -> Contents] BY <1>1 DEF Restrict
<1>3. Restrict(d, S) \in Directory BY <1>1, <1>2, DirectoryTyped
<1> QED BY <1>3 DEF Restrict

LEMMA OverlayFiles ==
    ASSUME NEW d \in Directory, NEW e \in Directory
    PROVE  /\ Overlay(d, e) \in Directory
           /\ DOMAIN Overlay(d, e) = DOMAIN d \cup DOMAIN e
           /\ \A f \in DOMAIN d : Overlay(d, e)[f] = d[f]
           /\ \A f \in DOMAIN e \ DOMAIN d : Overlay(d, e)[f] = e[f]
<1>1. DOMAIN d \subseteq Names /\ d \in [DOMAIN d -> Contents] BY DirectoryTyped
<1>2. DOMAIN e \subseteq Names /\ e \in [DOMAIN e -> Contents] BY DirectoryTyped
<1>3. Overlay(d, e) \in [DOMAIN d \cup DOMAIN e -> Contents] BY <1>1, <1>2 DEF Overlay
<1>4. Overlay(d, e) \in Directory BY <1>1, <1>2, <1>3, DirectoryTyped
<1> QED BY <1>4 DEF Overlay

LEMMA ExactlyTyped ==
    ASSUME NEW c \in Commits, NEW e \in Environments \cup {NoEnv}
    PROVE  Exactly(c, e) \in Directory
<1> DEFINE S == TreeOf[c] \cup (IF e = NoEnv THEN {} ELSE {EnvFile})
<1>1. S \in SUBSET Names BY ReleasesAssumption DEF Names
<1>2. Exactly(c, e) \in [S -> Contents] BY ReleasesAssumption DEF Exactly, Contents
<1> QED BY <1>1, <1>2, DirectoryTyped

\* equal where they are defined, and defined at the same places
LEMMA SameDirectory ==
    ASSUME NEW d \in Directory, NEW e \in Directory, DOMAIN d = DOMAIN e,
           \A f \in DOMAIN d : d[f] = e[f]
    PROVE  d = e
<1>1. d \in [DOMAIN d -> Contents] /\ e \in [DOMAIN d -> Contents] BY DirectoryTyped
<1> QED BY <1>1

-----------------------------------------------------------------------------
(* What the release directory holds at each stage *)

Prepared ==
    /\ target \in Targets
    /\ stage \in {"idle", "clear", "fetch", "unpack", "steps", "mark", "record"}
    /\ commit \in Commits /\ env \in Environments \cup {NoEnv}
    /\ IsTable(releases, Commits, Directory)
    /\ stage \notin {"idle", "clear"} => commit \in DOMAIN releases
    /\ stage = "fetch" => Release = Nothing
    /\ stage = "unpack" => /\ DOMAIN Release \subseteq TreeOf[commit]
                           /\ \A f \in DOMAIN Release : Release[f] = commit
    /\ RetriesInheritNothing

LEMMA PreparedInit == ReleasesInit => Prepared
BY DEF ReleasesInit, Prepared, RetriesInheritNothing, IsTable, EmptyTable

\* changing the directory of the commit at hand
LEMMA ReleaseChanged ==
    ASSUME IsTable(releases, Commits, Directory), commit \in DOMAIN releases,
           NEW d \in Directory, releases' = [releases EXCEPT ![commit] = d], UNCHANGED commit
    PROVE  /\ IsTable(releases', Commits, Directory)
           /\ commit' \in DOMAIN releases'
           /\ Release' = d
BY DEF IsTable, Release

LEMMA PreparedStep == Prepared /\ [ReleasesNext]_relVars => Prepared'
<1> SUFFICES ASSUME Prepared, [ReleasesNext]_relVars PROVE Prepared' OBVIOUS
<1> USE DEF Prepared, RetriesInheritNothing, attempt
<1>1. ASSUME NEW c \in Commits, Begin(c) PROVE Prepared'
  BY <1>1 DEF Begin
<1>2. ASSUME NEW f \in Names, ClearEntry(f) PROVE Prepared'
  <2>1. Release \in Directory /\ f \in DOMAIN Release BY <1>2 DEF ClearEntry, MustClear, IsTable, Release
  <2>2. Drop(Release, f) \in Directory BY <2>1, RestrictFiles DEF Drop
  <2>3. releases' = [releases EXCEPT ![commit] = Drop(Release, f)] BY <1>2 DEF ClearEntry, Release
  <2>4. IsTable(releases', Commits, Directory) /\ UNCHANGED commit
    BY <1>2, <2>2, <2>3, ReleaseChanged DEF ClearEntry, MustClear
  <2> QED BY <1>2, <2>4 DEF ClearEntry
<1>3. CASE CreateRelease
  <2>1. CASE commit \in DOMAIN releases
    BY <1>3, <2>1 DEF CreateRelease, MustClear, Release
  <2>2. CASE commit \notin DOMAIN releases
    <3>1. releases' = Put(releases, commit, Nothing) BY <1>3, <2>2 DEF CreateRelease
    <3>2. IsTable(releases', Commits, Directory) /\ commit \in DOMAIN releases'
          /\ releases'[commit] = Nothing
      BY <3>1, NothingTyped DEF IsTable, Put
    <3> QED BY <1>3, <3>2 DEF CreateRelease, Release
  <2> QED BY <2>1, <2>2
<1>4. ASSUME NEW e \in Environments \cup {NoEnv}, Fetch(e) PROVE Prepared'
  BY <1>4, NothingTyped DEF Fetch, Release
<1>5. ASSUME NEW f \in Names, UnpackEntry(f) PROVE Prepared'
  <2>1. Release \in Directory /\ commit \in Contents /\ f \in TreeOf[commit]
    BY <1>5 DEF UnpackEntry, IsTable, Release, Contents
  <2> DEFINE d == Put(Release, f, commit)
  <2>2. /\ d \in Directory
        /\ DOMAIN d = DOMAIN Release \cup {f}
        /\ \A g \in DOMAIN d : d[g] = commit
    <3>1. d[f] = commit /\ \A g \in DOMAIN Release \ {f} : d[g] = Release[g] BY <2>1, PutFile
    <3>2. d \in Directory /\ DOMAIN d = DOMAIN Release \cup {f} BY <2>1, PutFile
    <3> QED BY <1>5, <3>1, <3>2 DEF UnpackEntry
  <2>3. releases' = [releases EXCEPT ![commit] = d] /\ UNCHANGED commit
    BY <1>5 DEF UnpackEntry, Release, attempt
  <2>4. IsTable(releases', Commits, Directory) /\ commit' \in DOMAIN releases' /\ Release' = d
    <3> HIDE DEF d
    <3> QED BY <1>5, <2>2, <2>3, ReleaseChanged DEF UnpackEntry
  <2> HIDE DEF d
  <2> QED BY <1>5, <2>1, <2>2, <2>4 DEF UnpackEntry
<1>6. CASE WriteEnv \/ RefuseStrategy
  <2>1. Release \in Directory BY <1>6 DEF WriteEnv, RefuseStrategy, IsTable, Release
  <2>2. DOMAIN Release = TreeOf[commit] /\ \A f \in DOMAIN Release : Release[f] = commit
    BY <1>6 DEF WriteEnv, RefuseStrategy, Unpacked
  <2>3. EnvFile \notin TreeOf[commit] BY ReleasesAssumption
  <2> DEFINE d == EnvWritten(Release, env)
  <2>4. d \in Directory /\ d = Exactly(commit, env)
    <3>1. Exactly(commit, env) \in Directory BY ExactlyTyped
    <3>2. CASE env = NoEnv
      <4>1. d = Release BY <3>2 DEF EnvWritten
      <4> QED BY <2>1, <2>2, <2>3, <3>1, <3>2, <4>1, SameDirectory DEF Exactly
    <3>3. CASE env # NoEnv
      <4>1. d = Put(Release, EnvFile, env) /\ EnvFile \in Names /\ env \in Contents
        BY <3>3 DEF EnvWritten, Names, Contents
      <4>2. d \in Directory /\ DOMAIN d = TreeOf[commit] \cup {EnvFile} /\ d[EnvFile] = env
            /\ \A g \in TreeOf[commit] : d[g] = commit
        <5> DEFINE w == Put(Release, EnvFile, env)
        <5>1. /\ w \in Directory /\ DOMAIN w = DOMAIN Release \cup {EnvFile} /\ w[EnvFile] = env
              /\ \A g \in DOMAIN Release \ {EnvFile} : w[g] = Release[g]
          BY <2>1, <4>1, PutFile
        <5>2. d = w BY <4>1
        <5> HIDE DEF d, w
        <5> QED BY <2>2, <2>3, <5>1, <5>2
      <4> HIDE DEF d
      <4> QED BY <2>3, <3>1, <3>3, <4>2, SameDirectory DEF Exactly
    <3> QED BY <3>2, <3>3
  <2>5. releases' = [releases EXCEPT ![commit] = d] /\ UNCHANGED <<commit, env>>
    BY <1>6 DEF WriteEnv, RefuseStrategy, Release
  <2>6. IsTable(releases', Commits, Directory) /\ commit' \in DOMAIN releases' /\ Release' = d
    <3> HIDE DEF d
    <3> QED BY <1>6, <2>4, <2>5, ReleaseChanged DEF WriteEnv, RefuseStrategy
  <2> HIDE DEF d
  <2>7. Exactly(commit, env)' = Exactly(commit, env) BY <2>5 DEF Exactly
  <2> QED BY <1>6, <2>4, <2>5, <2>6, <2>7 DEF WriteEnv, RefuseStrategy
<1>7. ASSUME UNCHANGED <<target, attempt, releases>>,
             stage' \in {"idle", "mark", "record"} \cup {stage},
             stage' \in {"mark", "record"} => stage \in {"steps", "mark", "record"}
      PROVE  Prepared'
  <2>1. Release' = Release /\ Exactly(commit, env)' = Exactly(commit, env)
    BY <1>7 DEF Release, Exactly
  <2> QED BY <1>7, <2>1
<1>8. ASSUME NEW s \in Statuses, StepAccepted(s) \/ StepRejected(s) PROVE Prepared'
  BY <1>7, <1>8 DEF StepAccepted, StepRejected
<1>9. CASE OpenCurrent BY <1>7, <1>9 DEF OpenCurrent
<1>10. CASE MarkCurrent BY <1>7, <1>10 DEF MarkCurrent
<1>11. CASE Fail BY <1>7, <1>11 DEF Fail
<1>12. CASE Crash BY <1>7, <1>12 DEF Crash
<1>13. CASE UNCHANGED relVars BY <1>7, <1>13 DEF relVars
<1> QED BY <1>1, <1>2, <1>3, <1>4, <1>5, <1>6, <1>8, <1>9, <1>10, <1>11, <1>12, <1>13
        DEF ReleasesNext

\* A retry inherits nothing of earlier attempts at the same commit, whatever
\* failed, crashed or changed in the environment between them (deploy.rs:182).
THEOREM RetriesStartClean == ReleasesSpec => []RetriesInheritNothing
<1>1. Prepared => RetriesInheritNothing BY DEF Prepared
<1> QED BY <1>1, PreparedInit, PreparedStep, PTL DEF ReleasesSpec

-----------------------------------------------------------------------------
(* CURRENT *)

Marked == (stage \in {"mark", "record"} => commit \in applied) /\ CurrentWasApplied

LEMMA MarkedInit == ReleasesInit => Marked
BY DEF ReleasesInit, Marked, CurrentWasApplied

LEMMA MarkedStep == Marked /\ [ReleasesNext]_relVars => Marked'
<1> SUFFICES ASSUME Marked, [ReleasesNext]_relVars PROVE Marked' OBVIOUS
<1> USE DEF Marked, CurrentWasApplied, attempt
<1>1. ASSUME NEW c \in Commits, Begin(c) PROVE Marked' BY <1>1 DEF Begin
<1>2. ASSUME NEW f \in Names, ClearEntry(f) \/ UnpackEntry(f) PROVE Marked'
  BY <1>2 DEF ClearEntry, UnpackEntry
<1>3. ASSUME NEW e \in Environments \cup {NoEnv}, Fetch(e) PROVE Marked' BY <1>3 DEF Fetch
<1>4. CASE CreateRelease \/ WriteEnv \/ RefuseStrategy
  BY <1>4 DEF CreateRelease, WriteEnv, RefuseStrategy
<1>5. ASSUME NEW s \in Statuses, StepAccepted(s) PROVE Marked'
  BY <1>5 DEF StepAccepted, IsLast
<1>6. ASSUME NEW s \in Statuses, StepRejected(s) PROVE Marked' BY <1>6 DEF StepRejected
<1>7. CASE OpenCurrent \/ MarkCurrent BY <1>7 DEF OpenCurrent, MarkCurrent
<1>8. CASE Fail \/ Crash BY <1>8 DEF Fail, Crash
<1>9. CASE UNCHANGED relVars BY <1>9 DEF relVars
<1> QED BY <1>1, <1>2, <1>3, <1>4, <1>5, <1>6, <1>7, <1>8, <1>9 DEF ReleasesNext

\* CURRENT names only a commit every step of which was accepted at some time,
\* however many attempts failed or were cut off since.
THEOREM CurrentIsHonest == ReleasesSpec => []CurrentWasApplied
<1>1. Marked => CurrentWasApplied BY DEF Marked
<1> QED BY <1>1, MarkedInit, MarkedStep, PTL DEF ReleasesSpec

-----------------------------------------------------------------------------
(* The plans *)

Doings == {"merge", "mirror", "build", "remove", "run", "up", "stop", "create", "write",
           "start", "restart", "reload", "enable"}

\* how the plan p of a target begins and ends, and what it accepts
Plan(t, p) ==
    /\ Len(p) \in Nat \ {0}
    /\ \A i \in 1 .. Len(p) : p[i].does \in Doings
    /\ t.strategy \in {"Dockerfile", "Docker Compose"} =>
          /\ Len(p) # 1 /\ p[1].does = "build" /\ p[Len(p)].does \in {"run", "up"}
          /\ \A i \in 1 .. Len(p) : i # 1 => p[i].does \in {"remove", "run", "up"}
    /\ t.strategy = "Static files" => Len(p) = 1 /\ p[1].does \in {"merge", "mirror"}
    /\ t.strategy = "systemd unit" =>
          /\ Len(p) # 1 /\ p[1].does = "merge" /\ p[Len(p)].does = "restart"
          /\ \A i \in 1 .. Len(p) :
                i # 1 => p[i].does \in {"write", "reload", "enable", "restart"}
    /\ t.strategy \in {"IIS site swap", "Windows Service"} =>
          /\ Len(p) \notin {1, 2} /\ p[1].does = "stop" /\ p[2].does = "mirror" /\ p[Len(p)].does = "start"
          /\ \A i \in 1 .. Len(p) : i \notin {1, 2} => p[i].does \in {"create", "start"}
    /\ \A i \in 1 .. Len(p) :
          /\ p[i].does = "mirror" => p[i].ok = "Robocopy"
          /\ p[i].does \in {"merge", "build", "run", "up", "restart", "start"} => p[i].ok = "Zero"

LEMMA PlanOfOne ==
    ASSUME NEW p, NEW a, p = <<a>>
    PROVE  Len(p) = 1 /\ p[1] = a /\ \A i \in 1 .. 1 : i = 1
OBVIOUS

LEMMA PlanOfTwo ==
    ASSUME NEW p, NEW a, NEW b, p = <<a, b>>
    PROVE  Len(p) = 2 /\ p[1] = a /\ p[2] = b /\ \A i \in 1 .. 2 : i \in {1, 2}
OBVIOUS

LEMMA PlanOfThree ==
    ASSUME NEW p, NEW a, NEW b, NEW c, p = <<a, b, c>>
    PROVE  Len(p) = 3 /\ p[1] = a /\ p[2] = b /\ p[3] = c /\ \A i \in 1 .. 3 : i \in {1, 2, 3}
OBVIOUS

LEMMA PlanOfFour ==
    ASSUME NEW p, NEW a, NEW b, NEW c, NEW d, p = <<a, b, c, d>>
    PROVE  /\ Len(p) = 4 /\ p[1] = a /\ p[2] = b /\ p[3] = c /\ p[4] = d
           /\ \A i \in 1 .. 4 : i \in {1, 2, 3, 4}
OBVIOUS

LEMMA PlanOfFive ==
    ASSUME NEW p, NEW a, NEW b, NEW c, NEW d, NEW e, p = <<a, b, c, d, e>>
    PROVE  /\ Len(p) = 5 /\ p[1] = a /\ p[2] = b /\ p[3] = c /\ p[4] = d /\ p[5] = e
           /\ \A i \in 1 .. 5 : i \in {1, 2, 3, 4, 5}
OBVIOUS

LEMMA Plans == \A t \in Target : t.strategy # "other" => Plan(t, steps(t))
<1> SUFFICES ASSUME NEW t \in Target, t.strategy # "other" PROVE Plan(t, steps(t)) OBVIOUS
<1> DEFINE p == steps(t)
<1>1. CASE t.strategy = "Static files" /\ t.windows
  <2>1. p = <<Does("mirror", "Robocopy")>>
    BY <1>1 DEF steps
  <2> HIDE DEF p
  <2>2. /\ Len(p) = 1 /\ p[1] = Does("mirror", "Robocopy")
        /\ \A i \in 1 .. 1 : i \in {1}
    BY <2>1, PlanOfOne
  <2>3. /\ p[1].does = "mirror" /\ p[1].ok = "Robocopy"
    BY <2>2 DEF Does
  <2>4. Len(p) \in Nat \ {0} /\ p[Len(p)].does = "mirror"
    BY <2>2, <2>3
  <2>5. \A i \in 1 .. Len(p) :
          /\ p[i].does \in Doings
          /\ p[i].does = "mirror" => p[i].ok = "Robocopy"
          /\ p[i].does \in {"merge", "build", "run", "up", "restart", "start"} => p[i].ok = "Zero"
    BY <2>2, <2>3 DEF Doings
  <2>6. Plan(t, p) BY <1>1, <2>2, <2>3, <2>4, <2>5 DEF Plan
  <2> QED BY <2>6 DEF p
<1>2. CASE t.strategy = "Static files" /\ ~t.windows
  <2>1. p = <<Does("merge", "Zero")>>
    BY <1>2 DEF steps
  <2> HIDE DEF p
  <2>2. /\ Len(p) = 1 /\ p[1] = Does("merge", "Zero")
        /\ \A i \in 1 .. 1 : i \in {1}
    BY <2>1, PlanOfOne
  <2>3. /\ p[1].does = "merge" /\ p[1].ok = "Zero"
    BY <2>2 DEF Does
  <2>4. Len(p) \in Nat \ {0} /\ p[Len(p)].does = "merge"
    BY <2>2, <2>3
  <2>5. \A i \in 1 .. Len(p) :
          /\ p[i].does \in Doings
          /\ p[i].does = "mirror" => p[i].ok = "Robocopy"
          /\ p[i].does \in {"merge", "build", "run", "up", "restart", "start"} => p[i].ok = "Zero"
    BY <2>2, <2>3 DEF Doings
  <2>6. Plan(t, p) BY <1>2, <2>2, <2>3, <2>4, <2>5 DEF Plan
  <2> QED BY <2>6 DEF p
<1>3. CASE t.strategy = "Dockerfile"
  <2>1. p = <<Does("build", "Zero"), Does("remove", "Tolerant"), Does("run", "Zero")>>
    BY <1>3 DEF steps
  <2> HIDE DEF p
  <2>2. /\ Len(p) = 3 /\ p[1] = Does("build", "Zero") /\ p[2] = Does("remove", "Tolerant")
        /\ p[3] = Does("run", "Zero")
        /\ \A i \in 1 .. 3 : i \in {1, 2, 3}
    BY <2>1, PlanOfThree
  <2>3. /\ p[1].does = "build" /\ p[1].ok = "Zero"
        /\ p[2].does = "remove" /\ p[2].ok = "Tolerant"
        /\ p[3].does = "run" /\ p[3].ok = "Zero"
    BY <2>2 DEF Does
  <2>4. Len(p) \in Nat \ {0} /\ p[Len(p)].does = "run" /\ Len(p) # 1
    BY <2>2, <2>3
  <2>5. \A i \in 1 .. Len(p) :
          /\ p[i].does \in Doings
          /\ p[i].does = "mirror" => p[i].ok = "Robocopy"
          /\ p[i].does \in {"merge", "build", "run", "up", "restart", "start"} => p[i].ok = "Zero"
          /\ i # 1 => p[i].does \in {"remove", "run", "up"}
    BY <2>2, <2>3 DEF Doings
  <2>6. Plan(t, p) BY <1>3, <2>2, <2>3, <2>4, <2>5 DEF Plan
  <2> QED BY <2>6 DEF p
<1>4. CASE t.strategy = "Docker Compose"
  <2>1. p = <<Does("build", "Zero"), Does("up", "Zero")>>
    BY <1>4 DEF steps
  <2> HIDE DEF p
  <2>2. /\ Len(p) = 2 /\ p[1] = Does("build", "Zero") /\ p[2] = Does("up", "Zero")
        /\ \A i \in 1 .. 2 : i \in {1, 2}
    BY <2>1, PlanOfTwo
  <2>3. /\ p[1].does = "build" /\ p[1].ok = "Zero"
        /\ p[2].does = "up" /\ p[2].ok = "Zero"
    BY <2>2 DEF Does
  <2>4. Len(p) \in Nat \ {0} /\ p[Len(p)].does = "up" /\ Len(p) # 1
    BY <2>2, <2>3
  <2>5. \A i \in 1 .. Len(p) :
          /\ p[i].does \in Doings
          /\ p[i].does = "mirror" => p[i].ok = "Robocopy"
          /\ p[i].does \in {"merge", "build", "run", "up", "restart", "start"} => p[i].ok = "Zero"
          /\ i # 1 => p[i].does \in {"remove", "run", "up"}
    BY <2>2, <2>3 DEF Doings
  <2>6. Plan(t, p) BY <1>4, <2>2, <2>3, <2>4, <2>5 DEF Plan
  <2> QED BY <2>6 DEF p
<1>5. CASE t.strategy = "systemd unit" /\ t.entrypoint
  <2>1. p = <<Does("merge", "Zero"), Does("write", "Zero"), Does("reload", "Zero"),
              Does("enable", "Zero"), Does("restart", "Zero")>>
    BY <1>5 DEF steps
  <2> HIDE DEF p
  <2>2. /\ Len(p) = 5 /\ p[1] = Does("merge", "Zero") /\ p[2] = Does("write", "Zero")
        /\ p[3] = Does("reload", "Zero") /\ p[4] = Does("enable", "Zero")
        /\ p[5] = Does("restart", "Zero")
        /\ \A i \in 1 .. 5 : i \in {1, 2, 3, 4, 5}
    BY <2>1, PlanOfFive
  <2>3. /\ p[1].does = "merge" /\ p[1].ok = "Zero"
        /\ p[2].does = "write" /\ p[2].ok = "Zero"
        /\ p[3].does = "reload" /\ p[3].ok = "Zero"
        /\ p[4].does = "enable" /\ p[4].ok = "Zero"
        /\ p[5].does = "restart" /\ p[5].ok = "Zero"
    BY <2>2 DEF Does
  <2>4. Len(p) \in Nat \ {0} /\ p[Len(p)].does = "restart" /\ Len(p) # 1
    BY <2>2, <2>3
  <2>5. \A i \in 1 .. Len(p) :
          /\ p[i].does \in Doings
          /\ p[i].does = "mirror" => p[i].ok = "Robocopy"
          /\ p[i].does \in {"merge", "build", "run", "up", "restart", "start"} => p[i].ok = "Zero"
          /\ i # 1 => p[i].does \in {"write", "reload", "enable", "restart"}
    BY <2>2, <2>3 DEF Doings
  <2>6. Plan(t, p) BY <1>5, <2>2, <2>3, <2>4, <2>5 DEF Plan
  <2> QED BY <2>6 DEF p
<1>6. CASE t.strategy = "systemd unit" /\ ~t.entrypoint
  <2>1. p = <<Does("merge", "Zero"), Does("reload", "Zero"), Does("restart", "Zero")>>
    BY <1>6 DEF steps
  <2> HIDE DEF p
  <2>2. /\ Len(p) = 3 /\ p[1] = Does("merge", "Zero") /\ p[2] = Does("reload", "Zero")
        /\ p[3] = Does("restart", "Zero")
        /\ \A i \in 1 .. 3 : i \in {1, 2, 3}
    BY <2>1, PlanOfThree
  <2>3. /\ p[1].does = "merge" /\ p[1].ok = "Zero"
        /\ p[2].does = "reload" /\ p[2].ok = "Zero"
        /\ p[3].does = "restart" /\ p[3].ok = "Zero"
    BY <2>2 DEF Does
  <2>4. Len(p) \in Nat \ {0} /\ p[Len(p)].does = "restart" /\ Len(p) # 1
    BY <2>2, <2>3
  <2>5. \A i \in 1 .. Len(p) :
          /\ p[i].does \in Doings
          /\ p[i].does = "mirror" => p[i].ok = "Robocopy"
          /\ p[i].does \in {"merge", "build", "run", "up", "restart", "start"} => p[i].ok = "Zero"
          /\ i # 1 => p[i].does \in {"write", "reload", "enable", "restart"}
    BY <2>2, <2>3 DEF Doings
  <2>6. Plan(t, p) BY <1>6, <2>2, <2>3, <2>4, <2>5 DEF Plan
  <2> QED BY <2>6 DEF p
<1>7. CASE t.strategy = "IIS site swap" /\ t.port
  <2>1. p = <<Does("stop", "Tolerant"), Does("mirror", "Robocopy"),
              Does("create", "Tolerant"), Does("start", "Zero")>>
    BY <1>7 DEF steps
  <2> HIDE DEF p
  <2>2. /\ Len(p) = 4 /\ p[1] = Does("stop", "Tolerant")
        /\ p[2] = Does("mirror", "Robocopy") /\ p[3] = Does("create", "Tolerant")
        /\ p[4] = Does("start", "Zero")
        /\ \A i \in 1 .. 4 : i \in {1, 2, 3, 4}
    BY <2>1, PlanOfFour
  <2>3. /\ p[1].does = "stop" /\ p[1].ok = "Tolerant"
        /\ p[2].does = "mirror" /\ p[2].ok = "Robocopy"
        /\ p[3].does = "create" /\ p[3].ok = "Tolerant"
        /\ p[4].does = "start" /\ p[4].ok = "Zero"
    BY <2>2 DEF Does
  <2>4. Len(p) \in Nat \ {0} /\ p[Len(p)].does = "start" /\ Len(p) \notin {1, 2}
    BY <2>2, <2>3
  <2>5. \A i \in 1 .. Len(p) :
          /\ p[i].does \in Doings
          /\ p[i].does = "mirror" => p[i].ok = "Robocopy"
          /\ p[i].does \in {"merge", "build", "run", "up", "restart", "start"} => p[i].ok = "Zero"
          /\ i \notin {1, 2} => p[i].does \in {"create", "start"}
    BY <2>2, <2>3 DEF Doings
  <2>6. Plan(t, p) BY <1>7, <2>2, <2>3, <2>4, <2>5 DEF Plan
  <2> QED BY <2>6 DEF p
<1>8. CASE t.strategy = "IIS site swap" /\ ~t.port
  <2>1. p = <<Does("stop", "Tolerant"), Does("mirror", "Robocopy"), Does("start", "Zero")>>
    BY <1>8 DEF steps
  <2> HIDE DEF p
  <2>2. /\ Len(p) = 3 /\ p[1] = Does("stop", "Tolerant")
        /\ p[2] = Does("mirror", "Robocopy") /\ p[3] = Does("start", "Zero")
        /\ \A i \in 1 .. 3 : i \in {1, 2, 3}
    BY <2>1, PlanOfThree
  <2>3. /\ p[1].does = "stop" /\ p[1].ok = "Tolerant"
        /\ p[2].does = "mirror" /\ p[2].ok = "Robocopy"
        /\ p[3].does = "start" /\ p[3].ok = "Zero"
    BY <2>2 DEF Does
  <2>4. Len(p) \in Nat \ {0} /\ p[Len(p)].does = "start" /\ Len(p) \notin {1, 2}
    BY <2>2, <2>3
  <2>5. \A i \in 1 .. Len(p) :
          /\ p[i].does \in Doings
          /\ p[i].does = "mirror" => p[i].ok = "Robocopy"
          /\ p[i].does \in {"merge", "build", "run", "up", "restart", "start"} => p[i].ok = "Zero"
          /\ i \notin {1, 2} => p[i].does \in {"create", "start"}
    BY <2>2, <2>3 DEF Doings
  <2>6. Plan(t, p) BY <1>8, <2>2, <2>3, <2>4, <2>5 DEF Plan
  <2> QED BY <2>6 DEF p
<1>9. CASE t.strategy = "Windows Service" /\ t.entrypoint
  <2>1. p = <<Does("stop", "Tolerant"), Does("mirror", "Robocopy"), Does("create", "Also"),
              Does("start", "Zero")>>
    BY <1>9 DEF steps
  <2> HIDE DEF p
  <2>2. /\ Len(p) = 4 /\ p[1] = Does("stop", "Tolerant")
        /\ p[2] = Does("mirror", "Robocopy") /\ p[3] = Does("create", "Also")
        /\ p[4] = Does("start", "Zero")
        /\ \A i \in 1 .. 4 : i \in {1, 2, 3, 4}
    BY <2>1, PlanOfFour
  <2>3. /\ p[1].does = "stop" /\ p[1].ok = "Tolerant"
        /\ p[2].does = "mirror" /\ p[2].ok = "Robocopy"
        /\ p[3].does = "create" /\ p[3].ok = "Also"
        /\ p[4].does = "start" /\ p[4].ok = "Zero"
    BY <2>2 DEF Does
  <2>4. Len(p) \in Nat \ {0} /\ p[Len(p)].does = "start" /\ Len(p) \notin {1, 2}
    BY <2>2, <2>3
  <2>5. \A i \in 1 .. Len(p) :
          /\ p[i].does \in Doings
          /\ p[i].does = "mirror" => p[i].ok = "Robocopy"
          /\ p[i].does \in {"merge", "build", "run", "up", "restart", "start"} => p[i].ok = "Zero"
          /\ i \notin {1, 2} => p[i].does \in {"create", "start"}
    BY <2>2, <2>3 DEF Doings
  <2>6. Plan(t, p) BY <1>9, <2>2, <2>3, <2>4, <2>5 DEF Plan
  <2> QED BY <2>6 DEF p
<1>10. CASE t.strategy = "Windows Service" /\ ~t.entrypoint
  <2>1. p = <<Does("stop", "Tolerant"), Does("mirror", "Robocopy"), Does("start", "Zero")>>
    BY <1>10 DEF steps
  <2> HIDE DEF p
  <2>2. /\ Len(p) = 3 /\ p[1] = Does("stop", "Tolerant")
        /\ p[2] = Does("mirror", "Robocopy") /\ p[3] = Does("start", "Zero")
        /\ \A i \in 1 .. 3 : i \in {1, 2, 3}
    BY <2>1, PlanOfThree
  <2>3. /\ p[1].does = "stop" /\ p[1].ok = "Tolerant"
        /\ p[2].does = "mirror" /\ p[2].ok = "Robocopy"
        /\ p[3].does = "start" /\ p[3].ok = "Zero"
    BY <2>2 DEF Does
  <2>4. Len(p) \in Nat \ {0} /\ p[Len(p)].does = "start" /\ Len(p) \notin {1, 2}
    BY <2>2, <2>3
  <2>5. \A i \in 1 .. Len(p) :
          /\ p[i].does \in Doings
          /\ p[i].does = "mirror" => p[i].ok = "Robocopy"
          /\ p[i].does \in {"merge", "build", "run", "up", "restart", "start"} => p[i].ok = "Zero"
          /\ i \notin {1, 2} => p[i].does \in {"create", "start"}
    BY <2>2, <2>3 DEF Doings
  <2>6. Plan(t, p) BY <1>10, <2>2, <2>3, <2>4, <2>5 DEF Plan
  <2> QED BY <2>6 DEF p
<1> QED
  BY <1>1, <1>2, <1>3, <1>4, <1>5, <1>6, <1>7, <1>8, <1>9, <1>10 DEF Target, Strategies

-----------------------------------------------------------------------------
(* The machine *)

\* what a program of the plan can change
LEMMA WhatProgramsChange ==
    ASSUME host \in Host, Release \in Directory, NEW does \in Doings,
           NEW h, h = Done(does) \/ h \in Partly(does) \/ h = host
    PROVE  /\ h \in Host
           /\ does \notin {"merge", "mirror"} => h.installed = host.installed
           /\ does # "build" => h.image = host.image
           /\ does \in {"merge", "mirror", "build", "create", "write", "reload", "enable"} =>
                 h.serving = host.serving
<1> USE DEF Host
<1>1. /\ host.installed \in Directory /\ host.image \in Directory /\ host.serving \in Directory
      /\ host.exists \in BOOLEAN /\ Nothing \in Directory
  BY NothingTyped
<1>2. ASSUME NEW d \in Directory
      PROVE  /\ [host EXCEPT !.installed = d] \in Host
             /\ [host EXCEPT !.installed = d].image = host.image
             /\ [host EXCEPT !.installed = d].serving = host.serving
  OBVIOUS
<1>3. CASE h = host BY <1>3
<1>4. CASE h # host /\ does = "merge"
  <2>1. PICK S \in SUBSET DOMAIN Release : \/ h = [host EXCEPT !.installed = Overlay(Release, @)]
                                           \/ h = [host EXCEPT !.installed = Overlay(Restrict(Release, S), @)]
    BY <1>4 DEF Done, Partly
  <2>2. Restrict(Release, S) \in Directory BY RestrictFiles
  <2>3. /\ Overlay(Release, host.installed) \in Directory
        /\ Overlay(Restrict(Release, S), host.installed) \in Directory
    BY <1>1, <2>2, OverlayFiles
  <2> QED BY <1>2, <1>4, <2>1, <2>3
<1>5. CASE h # host /\ does = "mirror"
  <2>1. PICK S \in SUBSET DOMAIN Release, K \in SUBSET DOMAIN host.installed :
          \/ h = [host EXCEPT !.installed = Release]
          \/ h = [host EXCEPT !.installed = Overlay(Restrict(Release, S), Restrict(@, K))]
    BY <1>5 DEF Done, Partly
  <2>2. Restrict(Release, S) \in Directory BY RestrictFiles
  <2>3. Restrict(host.installed, K) \in Directory BY <1>1, RestrictFiles
  <2>4. Overlay(Restrict(Release, S), Restrict(host.installed, K)) \in Directory
    BY <2>2, <2>3, OverlayFiles
  <2> QED BY <1>2, <1>5, <2>1, <2>4
<1>6. CASE h # host /\ does \in {"run", "up"}
  <2> DEFINE started == Overlay(Restrict(Release, {EnvFile} \cap DOMAIN Release),
                                Restrict(host.image, Files \cap DOMAIN host.image))
  <2>1. Restrict(Release, {EnvFile} \cap DOMAIN Release) \in Directory BY RestrictFiles
  <2>2. Restrict(host.image, Files \cap DOMAIN host.image) \in Directory BY <1>1, RestrictFiles
  <2>3. started \in Directory BY <2>1, <2>2, OverlayFiles
  <2>4. \/ h = [host EXCEPT !.exists = TRUE, !.serving = started]
        \/ h = [host EXCEPT !.exists = TRUE]
        \/ h = [host EXCEPT !.serving = Nothing]
    BY <1>6 DEF Done, Partly
  <2> HIDE DEF started
  <2> QED BY <1>1, <1>6, <2>3, <2>4
<1>7. CASE h # host /\ does \in {"start", "restart"}
  <2>1. h = [host EXCEPT !.serving = host.installed] \/ h = [host EXCEPT !.serving = Nothing]
    BY <1>7 DEF Done, Partly
  <2> QED BY <1>1, <1>7, <2>1
<1>8. CASE h # host /\ does \in {"build", "remove", "stop", "create", "write", "reload", "enable"}
  <2>1. h = Done(does) BY <1>8 DEF Partly
  <2>2. CASE does = "build" BY <1>1, <2>1, <2>2 DEF Done
  <2>3. CASE does = "remove" BY <1>1, <2>1, <2>3 DEF Done
  <2>4. CASE does = "stop" BY <1>1, <2>1, <2>4 DEF Done
  <2>5. CASE does \in {"create", "write"} BY <1>1, <2>1, <2>5 DEF Done
  <2>6. CASE does \in {"reload", "enable"} BY <1>8, <2>1, <2>6 DEF Done
  <2> QED BY <1>8, <2>2, <2>3, <2>4, <2>5, <2>6
<1> QED BY <1>3, <1>4, <1>5, <1>6, <1>7, <1>8 DEF Doings

LEMMA HowProgramsEnd ==
    ASSUME NEW does, NEW status, NEW h \in After(does, status)
    PROVE  h = Done(does) \/ h \in Partly(does) \/ h = host
BY DEF After

-----------------------------------------------------------------------------
(* The steps in order: a container's image is built before the container goes *)

IsContainer == target.strategy \in {"Dockerfile", "Docker Compose"}

OnTrack ==
    /\ Prepared
    /\ host \in Host
    /\ stage \in {"steps", "mark", "record"} => target.strategy # "other"
    /\ stage = "steps" => next \in 1 .. Len(steps(target))
    /\ stage = "steps" /\ IsContainer /\ next # 1 => host.image = Release

LEMMA OnTrackInit == ReleasesInit => OnTrack
BY PreparedInit, NothingTyped DEF ReleasesInit, OnTrack, Host

\* the step at hand
LEMMA StepAtHand ==
    ASSUME OnTrack, stage = "steps"
    PROVE  /\ Plan(target, steps(target)) /\ next \in 1 .. Len(steps(target))
           /\ step.does \in Doings
           /\ Release \in Directory /\ Release = Exactly(commit, env)
<1>1. Plan(target, steps(target)) BY Plans, ReleasesAssumption DEF OnTrack, Prepared
<1>2. next \in 1 .. Len(steps(target)) BY DEF OnTrack
<1>3. Release \in Directory /\ Release = Exactly(commit, env)
  BY DEF OnTrack, Prepared, IsTable, Release, RetriesInheritNothing
<1> QED BY <1>1, <1>2, <1>3 DEF Plan, step

\* what a program, however it ends, leaves alone
LEMMA StepLeaves ==
    ASSUME OnTrack, stage = "steps",
           \/ \E status \in Statuses : host' \in After(step.does, status)
           \/ host' \in Partly(step.does)
    PROVE  /\ host' \in Host
           /\ step.does \notin {"merge", "mirror"} => host'.installed = host.installed
           /\ step.does # "build" => host'.image = host.image
           /\ step.does \in {"merge", "mirror", "build", "create", "write", "reload", "enable"} =>
                 host'.serving = host.serving
<1>1. host' = Done(step.does) \/ host' \in Partly(step.does) \/ host' = host
  BY HowProgramsEnd
<1>2. host \in Host BY DEF OnTrack
<1>3. step.does \in Doings /\ Release \in Directory BY StepAtHand
<1> QED BY <1>1, <1>2, <1>3, WhatProgramsChange

\* a program whose exit 0 is required and accepted did all of its work
LEMMA ZeroIsDone ==
    ASSUME NEW status, step.ok = "Zero", step.does # "mirror", accepts(step.ok, status),
           host' \in After(step.does, status)
    PROVE  host' = Done(step.does)
BY DEF accepts, After, Completed

LEMMA OnTrackStep == OnTrack /\ [ReleasesNext]_relVars => OnTrack'
<1> SUFFICES ASSUME OnTrack, [ReleasesNext]_relVars PROVE OnTrack' OBVIOUS
<1>1. Prepared' BY PreparedStep DEF OnTrack
<1>2. ASSUME NEW status \in Statuses, StepAccepted(status) PROVE OnTrack'
  <2>1. stage = "steps" /\ UNCHANGED <<target, attempt, releases>>
        /\ accepts(step.ok, status) /\ host' \in After(step.does, status)
    BY <1>2 DEF StepAccepted
  <2>2. /\ Plan(target, steps(target)) /\ next \in 1 .. Len(steps(target))
    BY <2>1, StepAtHand
  <2>3. host' \in Host /\ (step.does # "build" => host'.image = host.image)
    BY <2>1, StepLeaves
  <2>4. CASE IsLast
    BY <1>1, <1>2, <2>1, <2>3, <2>4 DEF OnTrack, StepAccepted
  <2>5. CASE ~IsLast
    <3>1. next' = next + 1 /\ stage' = "steps" BY <1>2, <2>1, <2>5 DEF StepAccepted
    <3>2. Len(steps(target)) \in Nat BY <2>2 DEF Plan
    <3>3. next' \in 1 .. Len(steps(target)) BY <2>2, <2>5, <3>1, <3>2 DEF IsLast
    <3>4. Release' = Release BY <2>1 DEF Release, attempt
    <3>5. ASSUME IsContainer PROVE host'.image = Release
      <4>1. CASE next = 1
        <5>1. step.does = "build" /\ step.ok = "Zero"
          BY <2>2, <3>5, <4>1 DEF Plan, IsContainer, step
        <5>2. host' = Done("build") BY <2>1, <5>1, ZeroIsDone
        <5>3. host' = [host EXCEPT !.image = Release] BY <5>2 DEF Done
        <5> QED BY <5>3 DEF OnTrack, Host
      <4>2. CASE next # 1
        <5>1. step.does # "build" BY <2>2, <3>5, <4>2 DEF Plan, IsContainer, step
        <5> QED BY <2>1, <2>3, <3>5, <4>2, <5>1 DEF OnTrack
      <4> QED BY <4>1, <4>2
    <3> QED BY <1>1, <2>1, <2>3, <3>1, <3>3, <3>4, <3>5 DEF OnTrack, IsContainer
  <2> QED BY <2>4, <2>5
<1>3. ASSUME NEW status \in Statuses, StepRejected(status) PROVE OnTrack'
  <2>1. stage = "steps" /\ host' \in After(step.does, status) /\ stage' = "idle"
    BY <1>3 DEF StepRejected
  <2>2. host' \in Host BY <2>1, StepLeaves
  <2> QED BY <1>1, <2>1, <2>2 DEF OnTrack
<1>4. CASE Crash
  <2>1. stage' = "idle" /\ (stage # "steps" => host' = host) BY <1>4 DEF Crash
  <2>2. stage = "steps" => host' \in Partly(step.does) BY <1>4 DEF Crash
  <2>3. host' \in Host BY <2>1, <2>2, StepLeaves DEF OnTrack
  <2> QED BY <1>1, <2>1, <2>3 DEF OnTrack
<1>5. CASE WriteEnv
  <2>1. target \in Target /\ target.strategy # "other"
    BY <1>5, ReleasesAssumption DEF WriteEnv, OnTrack, Prepared
  <2>2. Plan(target, steps(target)) BY <2>1, Plans
  <2>3. Len(steps(target)) \in Nat \ {0} BY <2>2 DEF Plan
  <2>4. 1 \in 1 .. Len(steps(target)) BY <2>3
  <2> QED BY <1>1, <1>5, <2>1, <2>4 DEF WriteEnv, OnTrack
<1>6. ASSUME UNCHANGED <<target, host>>, stage' # "steps",
             stage' \in {"mark", "record"} => stage \in {"mark", "record"}
      PROVE  OnTrack'
  BY <1>1, <1>6 DEF OnTrack
<1>7. ASSUME NEW c \in Commits, Begin(c) PROVE OnTrack' BY <1>6, <1>7 DEF Begin
<1>8. ASSUME NEW f \in Names, ClearEntry(f) \/ UnpackEntry(f) PROVE OnTrack'
  BY <1>6, <1>8 DEF ClearEntry, UnpackEntry
<1>9. ASSUME NEW e \in Environments \cup {NoEnv}, Fetch(e) PROVE OnTrack' BY <1>6, <1>9 DEF Fetch
<1>10. CASE CreateRelease BY <1>6, <1>10 DEF CreateRelease
<1>11. CASE OpenCurrent BY <1>6, <1>11 DEF OpenCurrent
<1>12. CASE MarkCurrent BY <1>6, <1>12 DEF MarkCurrent
<1>13. CASE Fail \/ RefuseStrategy BY <1>6, <1>13 DEF Fail, RefuseStrategy
<1>14. CASE UNCHANGED relVars
  BY <1>14 DEF relVars, attempt, OnTrack, Prepared, RetriesInheritNothing, Release, Exactly,
               IsContainer, IsTable
<1> QED BY <1>2, <1>3, <1>4, <1>5, <1>7, <1>8, <1>9, <1>10, <1>11, <1>12, <1>13, <1>14
        DEF ReleasesNext

-----------------------------------------------------------------------------
(* Types *)

Typed ==
    /\ current \in Commits \cup {"none", "empty"}
    /\ outcome \in {"none", "succeeded", "failed", "lost"}
    /\ attempts \in 0 .. MaxAttempts
    /\ applied \subseteq Commits

LEMMA TypedInit == ReleasesInit => Typed
BY ReleasesAssumption DEF ReleasesInit, Typed

LEMMA TypedStep == OnTrack /\ Typed /\ [ReleasesNext]_relVars => Typed'
<1> SUFFICES ASSUME OnTrack, Typed, [ReleasesNext]_relVars PROVE Typed' OBVIOUS
<1>1. commit \in Commits BY DEF OnTrack, Prepared
<1>2. ASSUME UNCHANGED <<current, attempts, applied>>,
             outcome' \in {outcome, "none", "succeeded", "failed", "lost"}
      PROVE  Typed'
  BY <1>2 DEF Typed
<1>3. ASSUME NEW c \in Commits, Begin(c) PROVE Typed'
  <2>1. attempts' \in 0 .. MaxAttempts BY <1>3, ReleasesAssumption DEF Begin, Typed
  <2> QED BY <1>3, <2>1 DEF Begin, Typed
<1>4. ASSUME NEW f \in Names, ClearEntry(f) \/ UnpackEntry(f) PROVE Typed'
  BY <1>2, <1>4 DEF ClearEntry, UnpackEntry
<1>5. ASSUME NEW e \in Environments \cup {NoEnv}, Fetch(e) PROVE Typed' BY <1>2, <1>5 DEF Fetch
<1>6. CASE CreateRelease \/ WriteEnv \/ RefuseStrategy
  BY <1>2, <1>6 DEF CreateRelease, WriteEnv, RefuseStrategy
<1>7. ASSUME NEW status \in Statuses, StepAccepted(status) PROVE Typed'
  BY <1>1, <1>7 DEF StepAccepted, Typed
<1>8. ASSUME NEW status \in Statuses, StepRejected(status) PROVE Typed'
  BY <1>2, <1>8 DEF StepRejected
<1>9. CASE OpenCurrent BY <1>9 DEF OpenCurrent, Typed
<1>10. CASE MarkCurrent BY <1>1, <1>10 DEF MarkCurrent, Typed
<1>11. CASE Fail \/ Crash BY <1>2, <1>11 DEF Fail, Crash
<1>12. CASE UNCHANGED relVars BY <1>2, <1>12 DEF relVars
<1> QED BY <1>3, <1>4, <1>5, <1>6, <1>7, <1>8, <1>9, <1>10, <1>11, <1>12 DEF ReleasesNext

\* Every reachable state has its types, and the step that runs is one of the
\* plan (deploy.rs:216).
THEOREM ReleasesTyped == ReleasesSpec => []ReleasesTypeOK
<1>1. OnTrack /\ Typed => ReleasesTypeOK BY DEF OnTrack, Prepared, Typed, ReleasesTypeOK
<1> QED BY <1>1, OnTrackInit, OnTrackStep, TypedInit, TypedStep, PTL DEF ReleasesSpec

-----------------------------------------------------------------------------
(* What is replaced *)

ReplacesWhenReady ==
    Live' # Live =>
        /\ Release = Exactly(commit, env)
        /\ target.strategy \in {"Dockerfile", "Docker Compose"} => host.image = Release

LEMMA ReplacedStep == OnTrack /\ [ReleasesNext]_relVars => [ReplacesWhenReady]_relVars
<1> SUFFICES ASSUME OnTrack, ReleasesNext PROVE ReplacesWhenReady
  BY DEF relVars, attempt, ReplacesWhenReady, Live
<1>1. ASSUME stage = "steps", UNCHANGED target,
             \/ \E status \in Statuses : host' \in After(step.does, status)
             \/ host' \in Partly(step.does)
      PROVE  ReplacesWhenReady
  <2>1. Release = Exactly(commit, env) BY <1>1, StepAtHand
  <2>2. CASE IsContainer /\ next = 1
    <3>1. step.does = "build" BY <1>1, <2>2, StepAtHand DEF Plan, IsContainer, step
    <3>2. host'.serving = host.serving BY <1>1, <3>1, StepLeaves
    <3>3. Live' = Live BY <1>1, <2>2, <3>2 DEF Live, IsContainer
    <3> QED BY <3>3 DEF ReplacesWhenReady
  <2>3. CASE IsContainer /\ next # 1
    BY <1>1, <2>1, <2>3 DEF OnTrack, ReplacesWhenReady
  <2>4. CASE ~IsContainer BY <2>1, <2>4 DEF IsContainer, ReplacesWhenReady
  <2> QED BY <2>2, <2>3, <2>4
<1>2. ASSUME UNCHANGED <<target, host>> PROVE ReplacesWhenReady
  BY <1>2 DEF ReplacesWhenReady, Live
<1>3. ASSUME NEW status \in Statuses, StepAccepted(status) \/ StepRejected(status)
      PROVE  ReplacesWhenReady
  BY <1>1, <1>3 DEF StepAccepted, StepRejected
<1>4. CASE Crash
  <2>1. CASE stage = "steps" BY <1>1, <1>4, <2>1 DEF Crash
  <2>2. CASE stage # "steps" BY <1>2, <1>4, <2>2 DEF Crash
  <2> QED BY <2>1, <2>2
<1>5. ASSUME NEW c \in Commits, Begin(c) PROVE ReplacesWhenReady BY <1>2, <1>5 DEF Begin
<1>6. ASSUME NEW f \in Names, ClearEntry(f) \/ UnpackEntry(f) PROVE ReplacesWhenReady
  BY <1>2, <1>6 DEF ClearEntry, UnpackEntry
<1>7. ASSUME NEW e \in Environments \cup {NoEnv}, Fetch(e) PROVE ReplacesWhenReady
  BY <1>2, <1>7 DEF Fetch
<1>8. CASE CreateRelease \/ WriteEnv \/ RefuseStrategy
  BY <1>2, <1>8 DEF CreateRelease, WriteEnv, RefuseStrategy
<1>9. CASE OpenCurrent \/ MarkCurrent BY <1>2, <1>9 DEF OpenCurrent, MarkCurrent
<1>10. CASE Fail BY <1>2, <1>10 DEF Fail
<1> QED BY <1>3, <1>4, <1>5, <1>6, <1>7, <1>8, <1>9, <1>10 DEF ReleasesNext

\* What runs is touched only when the release is whole and, for a container,
\* its image is built, whatever failed or was cut off before.
THEOREM ReplacementsAreReady == ReleasesSpec => ReplacedOnlyWhenReady
<1>1. ReleasesSpec => [][ReplacesWhenReady]_relVars
  BY OnTrackInit, OnTrackStep, ReplacedStep, PTL DEF ReleasesSpec
<1> QED BY <1>1 DEF ReplacedOnlyWhenReady, ReplacesWhenReady

-----------------------------------------------------------------------------
(* What runs after a success *)

Covers(d, e) == \A f \in DOMAIN e : f \in DOMAIN d /\ d[f] = e[f]

Copies == steps(target)[1].does = "merge"

\* the application runs with the attempt's files and environment
Runs == IF Copies THEN Covers(Live, Exactly(commit, env)) ELSE Live = Exactly(commit, env)

Served ==
    /\ OnTrack
    /\ stage = "steps" /\ target.strategy = "systemd unit" /\ next # 1 =>
          Covers(host.installed, Release)
    /\ stage = "steps" /\ target.strategy \in {"IIS site swap", "Windows Service"}
         /\ next \notin {1, 2} => host.installed = Release
    /\ stage \in {"mark", "record"} \/ outcome = "succeeded" => Runs
    /\ outcome = "succeeded" => stage = "idle" /\ current = commit

LEMMA ServedInit == ReleasesInit => Served
BY OnTrackInit DEF ReleasesInit, Served

\* a container's files come from its image, its environment from the release
LEMMA StartedContainer ==
    ASSUME NEW d \in Directory
    PROVE  Overlay(Restrict(d, {EnvFile} \cap DOMAIN d), Restrict(d, Files \cap DOMAIN d)) = d
<1> DEFINE a == Restrict(d, {EnvFile} \cap DOMAIN d)
           b == Restrict(d, Files \cap DOMAIN d)
<1>1. a \in Directory /\ DOMAIN a = {EnvFile} \cap DOMAIN d /\ \A f \in DOMAIN a : a[f] = d[f]
  BY RestrictFiles
<1>2. b \in Directory /\ DOMAIN b = Files \cap DOMAIN d /\ \A f \in DOMAIN b : b[f] = d[f]
  BY RestrictFiles
<1>3. DOMAIN d \subseteq Files \cup {EnvFile} BY DirectoryTyped DEF Names
<1> HIDE DEF a, b
<1>4. /\ Overlay(a, b) \in Directory
      /\ DOMAIN Overlay(a, b) = DOMAIN a \cup DOMAIN b
      /\ \A f \in DOMAIN a : Overlay(a, b)[f] = a[f]
      /\ \A f \in DOMAIN b \ DOMAIN a : Overlay(a, b)[f] = b[f]
  BY <1>1, <1>2, OverlayFiles
<1>5. DOMAIN Overlay(a, b) = DOMAIN d BY <1>1, <1>2, <1>3, <1>4
<1>6. \A f \in DOMAIN d : Overlay(a, b)[f] = d[f] BY <1>1, <1>2, <1>4, <1>5
<1>7. Overlay(a, b) = d BY <1>4, <1>5, <1>6, SameDirectory
<1> QED BY <1>7 DEF a, b

\* an accepted program of one of these kinds did all of its work
LEMMA AcceptedIsDone ==
    ASSUME ExitCodes \subseteq Nat, OnTrack, stage = "steps", NEW status \in Statuses,
           accepts(step.ok, status), host' \in After(step.does, status),
           step.does \in {"merge", "mirror", "build", "run", "up", "restart", "start"}
    PROVE  host' = Done(step.does)
<1>1. Plan(target, steps(target)) /\ next \in 1 .. Len(steps(target)) BY StepAtHand
<1>2. CASE step.does = "mirror"
  <2>1. step.ok = "Robocopy" BY <1>1, <1>2 DEF Plan, step
  <2>2. PICK c \in status : c < 8 BY <2>1 DEF accepts
  <2>3. c \in Nat BY DEF Statuses
  <2>4. Completed("mirror", status) BY <2>2, <2>3 DEF Completed
  <2> QED BY <1>2, <2>4 DEF After
<1>3. CASE step.does # "mirror"
  <2>1. step.ok = "Zero" BY <1>1, <1>3 DEF Plan, step
  <2> QED BY <1>3, <2>1, ZeroIsDone
<1> QED BY <1>2, <1>3

LEMMA MergedCovers ==
    ASSUME OnTrack, stage = "steps", host' = Done("merge")
    PROVE  Covers(host'.installed, Release)
<1>1. Release \in Directory BY StepAtHand
<1>2. host \in Host /\ host.installed \in Directory BY DEF OnTrack, Host
<1>3. host'.installed = Overlay(Release, host.installed) BY <1>2 DEF Done, Host
<1>4. /\ DOMAIN Overlay(Release, host.installed) = DOMAIN Release \cup DOMAIN host.installed
      /\ \A f \in DOMAIN Release : Overlay(Release, host.installed)[f] = Release[f]
  BY <1>1, <1>2, OverlayFiles
<1>5. Covers(Overlay(Release, host.installed), Release) BY <1>4 DEF Covers
<1> QED BY <1>3, <1>5

\* the last step accepted leaves the application running with all of it
LEMMA LastStep ==
    ASSUME ExitCodes \subseteq Nat, Served, NEW status \in Statuses, StepAccepted(status), IsLast
    PROVE  Runs'
<1>1. /\ stage = "steps" /\ UNCHANGED <<target, attempt>>
      /\ accepts(step.ok, status) /\ host' \in After(step.does, status)
  BY DEF StepAccepted
<1>2. OnTrack /\ Plan(target, steps(target)) /\ Release \in Directory /\ Release = Exactly(commit, env)
  BY <1>1, StepAtHand DEF Served
<1>3. Copies' = Copies /\ Exactly(commit, env)' = Exactly(commit, env)
  BY <1>1 DEF Copies, attempt, Exactly
<1>4. step = steps(target)[Len(steps(target))] BY DEF IsLast, step
<1>5. host \in Host BY <1>2 DEF OnTrack
<1>6. CASE target.strategy = "Static files"
  <2>1. step = steps(target)[1] /\ step.does \in {"merge", "mirror"}
    BY <1>2, <1>4, <1>6 DEF Plan
  <2>2. host' = Done(step.does) BY <1>1, <1>2, <2>1, AcceptedIsDone
  <2>3. Live' = host'.installed BY <1>1, <1>6 DEF Live
  <2>4. CASE step.does = "merge"
    <3>1. Covers(host'.installed, Release) BY <1>1, <1>2, <2>2, <2>4, MergedCovers
    <3> QED BY <1>2, <1>3, <2>1, <2>3, <2>4, <3>1 DEF Runs, Copies
  <2>5. CASE step.does = "mirror"
    <3>1. host'.installed = Release BY <1>5, <2>2, <2>5 DEF Done, Host
    <3> QED BY <1>2, <1>3, <2>1, <2>3, <2>5, <3>1 DEF Runs, Copies
  <2> QED BY <2>1, <2>4, <2>5
<1>7. CASE target.strategy \in {"Dockerfile", "Docker Compose"}
  <2>1. step.does \in {"run", "up"} /\ steps(target)[1].does = "build" /\ next # 1
    BY <1>2, <1>4, <1>7 DEF Plan, IsLast
  <2>2. host.image = Release BY <1>1, <1>2, <1>7, <2>1 DEF OnTrack, IsContainer
  <2>3. host' = Done(step.does) BY <1>1, <1>2, <2>1, AcceptedIsDone
  <2>4. host'.serving = Overlay(Restrict(Release, {EnvFile} \cap DOMAIN Release),
                                Restrict(Release, Files \cap DOMAIN Release))
    BY <1>5, <2>1, <2>2, <2>3 DEF Done, Host
  <2>5. Live' = Release BY <1>1, <1>2, <1>7, <2>4, StartedContainer DEF Live
  <2> QED BY <1>2, <1>3, <2>1, <2>5 DEF Runs, Copies
<1>8. CASE target.strategy = "systemd unit"
  <2>1. step.does = "restart" /\ steps(target)[1].does = "merge" /\ next # 1
    BY <1>2, <1>4, <1>8 DEF Plan, IsLast
  <2>2. Covers(host.installed, Release) BY <1>1, <1>8, <2>1 DEF Served
  <2>3. host' = Done("restart") BY <1>1, <1>2, <2>1, AcceptedIsDone
  <2>4. Live' = host.installed BY <1>1, <1>5, <1>8, <2>3 DEF Done, Host, Live
  <2> QED BY <1>2, <1>3, <2>1, <2>2, <2>4 DEF Runs, Copies
<1>9. CASE target.strategy \in {"IIS site swap", "Windows Service"}
  <2>1. step.does = "start" /\ steps(target)[1].does = "stop" /\ next \notin {1, 2}
    BY <1>2, <1>4, <1>9 DEF Plan, IsLast
  <2>2. host.installed = Release BY <1>1, <1>9, <2>1 DEF Served
  <2>3. host' = Done("start") BY <1>1, <1>2, <2>1, AcceptedIsDone
  <2>4. Live' = host.installed BY <1>1, <1>5, <1>9, <2>3 DEF Done, Host, Live
  <2> QED BY <1>2, <1>3, <2>1, <2>2, <2>4 DEF Runs, Copies
<1>10. target \in Target /\ target.strategy # "other"
  BY <1>1, <1>2, ReleasesAssumption DEF OnTrack, Prepared
<1> QED BY <1>6, <1>7, <1>8, <1>9, <1>10 DEF Target, Strategies

\* an accepted step that is not the last keeps what its plan relies on
LEMMA EarlierStep ==
    ASSUME ExitCodes \subseteq Nat, Served, NEW status \in Statuses, StepAccepted(status), ~IsLast
    PROVE  /\ target.strategy = "systemd unit" => Covers(host'.installed, Release)
           /\ target.strategy \in {"IIS site swap", "Windows Service"} /\ next' \notin {1, 2} =>
                 host'.installed = Release
<1>1. /\ stage = "steps" /\ accepts(step.ok, status) /\ host' \in After(step.does, status)
      /\ next' = next + 1
  BY DEF StepAccepted
<1>2. OnTrack /\ Plan(target, steps(target)) /\ next \in 1 .. Len(steps(target))
  BY <1>1, StepAtHand DEF Served
<1>3. host \in Host BY <1>2 DEF OnTrack
<1>4. ASSUME target.strategy = "systemd unit" PROVE Covers(host'.installed, Release)
  <2>1. CASE next = 1
    <3>1. step.does = "merge" BY <1>2, <1>4, <2>1 DEF Plan, step
    <3>2. host' = Done("merge") BY <1>1, <1>2, <3>1, AcceptedIsDone
    <3> QED BY <1>1, <1>2, <3>2, MergedCovers
  <2>2. CASE next # 1
    <3>1. step.does \notin {"merge", "mirror"} BY <1>2, <1>4, <2>2 DEF Plan, step
    <3>2. host'.installed = host.installed BY <1>1, <1>2, <3>1, StepLeaves
    <3> QED BY <1>1, <1>4, <2>2, <3>2 DEF Served
  <2> QED BY <2>1, <2>2
<1>5. ASSUME target.strategy \in {"IIS site swap", "Windows Service"}, next' \notin {1, 2}
      PROVE  host'.installed = Release
  <2>1. CASE next = 2
    <3>1. step.does = "mirror" BY <1>2, <1>5, <2>1 DEF Plan, step
    <3>2. host' = Done("mirror") BY <1>1, <1>2, <3>1, AcceptedIsDone
    <3> QED BY <1>3, <3>2 DEF Done, Host
  <2>2. CASE next \notin {1, 2}
    <3>1. step.does \notin {"merge", "mirror"} BY <1>2, <1>5, <2>2 DEF Plan, step
    <3>2. host'.installed = host.installed BY <1>1, <1>2, <3>1, StepLeaves
    <3> QED BY <1>1, <1>5, <2>2, <3>2 DEF Served
  <2>3. next # 1
    <3>1. next = 1 => next' = 2 BY <1>1
    <3> QED BY <1>5, <3>1
  <2> QED BY <2>1, <2>2, <2>3
<1> QED BY <1>4, <1>5

LEMMA ServedStep ==
    ASSUME ExitCodes \subseteq Nat, Served, [ReleasesNext]_relVars
    PROVE  Served'
<1>1. OnTrack' BY OnTrackStep DEF Served
<1>2. ASSUME UNCHANGED <<target, attempt, host>> PROVE Runs' = Runs
  BY <1>2 DEF Runs, Copies, Covers, Live, Exactly, attempt
<1>3. ASSUME NEW status \in Statuses, StepAccepted(status) PROVE Served'
  <2>1. stage = "steps" /\ UNCHANGED <<target, attempt, releases, outcome>>
    BY <1>3 DEF StepAccepted
  <2>2. outcome' # "succeeded" BY <2>1 DEF Served
  <2>3. CASE IsLast
    <3>1. stage' = "mark" BY <1>3, <2>3 DEF StepAccepted
    <3>2. Runs' BY <1>3, <2>3, LastStep
    <3> QED BY <1>1, <2>2, <3>1, <3>2 DEF Served
  <2>4. CASE ~IsLast
    <3>1. stage' = "steps" BY <1>3, <2>1, <2>4 DEF StepAccepted
    <3>2. Release' = Release BY <2>1 DEF Release, attempt
    <3>3. /\ target.strategy = "systemd unit" => Covers(host'.installed, Release)
          /\ target.strategy \in {"IIS site swap", "Windows Service"} /\ next' \notin {1, 2} =>
                host'.installed = Release
      BY <1>3, <2>4, EarlierStep
    <3> QED BY <1>1, <2>1, <2>2, <3>1, <3>2, <3>3 DEF Served, Covers
  <2> QED BY <2>3, <2>4
<1>4. ASSUME stage' \notin {"steps", "mark", "record"}, outcome' # "succeeded" PROVE Served'
  BY <1>1, <1>4 DEF Served
<1>5. ASSUME NEW status \in Statuses, StepRejected(status) PROVE Served'
  BY <1>4, <1>5 DEF StepRejected
<1>6. CASE Fail \/ Crash \/ RefuseStrategy BY <1>4, <1>6 DEF Fail, Crash, RefuseStrategy
<1>7. CASE WriteEnv
  <2>1. stage' = "steps" /\ next' = 1 /\ outcome' = outcome /\ stage # "idle"
    BY <1>7 DEF WriteEnv
  <2> QED BY <1>1, <2>1 DEF Served
<1>8. CASE OpenCurrent
  <2>1. stage = "mark" /\ stage' = "record" /\ outcome' = outcome
        /\ UNCHANGED <<target, attempt, host>>
    BY <1>8 DEF OpenCurrent
  <2> QED BY <1>1, <1>2, <2>1 DEF Served
<1>9. CASE MarkCurrent
  <2>1. stage = "record" /\ stage' = "idle" /\ current' = commit
        /\ UNCHANGED <<target, attempt, host>>
    BY <1>9 DEF MarkCurrent
  <2> QED BY <1>1, <1>2, <2>1 DEF Served, attempt
<1>10. ASSUME NEW c \in Commits, Begin(c) PROVE Served' BY <1>4, <1>10 DEF Begin
<1>11. ASSUME stage \in {"clear", "fetch", "unpack"}, stage' \in {"clear", "fetch", "unpack"},
              outcome' = outcome
       PROVE  Served'
  BY <1>4, <1>11 DEF Served
<1>12. ASSUME NEW f \in Names, ClearEntry(f) \/ UnpackEntry(f) PROVE Served'
  BY <1>11, <1>12 DEF ClearEntry, UnpackEntry
<1>13. ASSUME NEW e \in Environments \cup {NoEnv}, Fetch(e) PROVE Served'
  BY <1>11, <1>13 DEF Fetch
<1>14. CASE CreateRelease BY <1>11, <1>14 DEF CreateRelease
<1>15. CASE UNCHANGED relVars
  <2>1. UNCHANGED <<target, stage, attempt, next, releases, current, host, outcome>>
    BY <1>15 DEF relVars
  <2>2. Release' = Release BY <2>1 DEF Release, attempt
  <2> QED BY <1>1, <1>2, <2>1, <2>2 DEF Served, Covers, attempt
<1> QED BY <1>3, <1>5, <1>6, <1>7, <1>8, <1>9, <1>10, <1>12, <1>13, <1>14, <1>15 DEF ReleasesNext

LEMMA ServedAlways ==
    ASSUME ExitCodes \subseteq Nat
    PROVE  ReleasesSpec => []Served
<1>1. Served /\ [ReleasesNext]_relVars => Served' BY ServedStep
<1> QED BY <1>1, ServedInit, PTL DEF ReleasesSpec

\* For programs that exit with codes that are not negative, "Deployment
\* succeeded." is true under every strategy: the application runs with every
\* file of the commit and every variable of the attempt, and CURRENT says so.
THEOREM SuccessIsTrue ==
    ASSUME ExitCodes \subseteq Nat
    PROVE  ReleasesSpec => []SuccessIsServed
<1>1. Served => SuccessIsServed BY DEF Served, Runs, Covers, SuccessIsServed
<1> QED BY <1>1, ServedAlways, PTL

\* And for the strategies that replace what was there it runs with nothing else.
THEOREM NothingOldRemains ==
    ASSUME ExitCodes \subseteq Nat
    PROVE  ReleasesSpec => []NothingOldIsServed
<1>1. Served => NothingOldIsServed BY DEF Served, Runs, Copies, NothingOldIsServed
<1> QED BY <1>1, ServedAlways, PTL
=============================================================================
