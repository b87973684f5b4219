---------------------------- MODULE ReleasePolicy ----------------------------
(***************************************************************************)
(* What an operator may rely on when deployments are asked for by hand, by *)
(* pushes and by rollbacks: where one may go and what it may replace.      *)
(***************************************************************************)
EXTENDS Naturals, Tables

CONSTANTS
    Deployments,    \* numbered in the order they were queued
    Places,         \* an application on a host
    Commits

VARIABLES
    release,        \* of every deployment: the place and the commit
    good,           \* those that succeeded, also if they were undone later
    undone,         \* those taken back
    reason          \* why each one asked for was queued

policyVars == <<release, good, undone, reason>>

Init == good \subseteq DOMAIN release /\ undone = {} /\ reason = EmptyTable

Queue(e, place, commit, why) ==
    /\ e \notin DOMAIN release
    /\ release' = Put(release, e, [place |-> place, commit |-> commit])
    /\ reason' = Put(reason, e, why)
    /\ UNCHANGED <<good, undone>>

Deploy(e, place, commit) == Queue(e, place, commit, [by |-> "deploy"])

HasWorked(place) == \E p \in good : release[p].place = place

\* "DigiHost will not invent a target"
Push(e, place, commit) == HasWorked(place) /\ Queue(e, place, commit, [by |-> "push"])

Succeed(d) ==
    /\ d \in DOMAIN release \ good
    /\ good' = good \cup {d}
    /\ UNCHANGED <<release, undone, reason>>

TakeBack(d) ==
    /\ d \in good \ undone
    /\ undone' = undone \cup {d}
    /\ UNCHANGED <<release, good, reason>>

IsReplaced(d) == \E e \in DOMAIN reason : reason[e] = [by |-> "rollback", of |-> d]

\* once, after it was taken back, by an earlier release that had succeeded there
Replace(e, d, p) ==
    /\ d \in undone /\ ~IsReplaced(d)
    /\ p \in good /\ p < d
    /\ release[p].place = release[d].place
    /\ release[p].commit # release[d].commit
    /\ Queue(e, release[p].place, release[p].commit, [by |-> "rollback", of |-> d])

Next ==
    \/ \E e \in Deployments :
          \/ \E place \in Places, commit \in Commits :
                Deploy(e, place, commit) \/ Push(e, place, commit)
          \/ \E d \in undone, p \in good : Replace(e, d, p)
    \/ \E d \in Deployments : Succeed(d) \/ TakeBack(d)

Spec == Init /\ [][Next]_policyVars
=============================================================================
