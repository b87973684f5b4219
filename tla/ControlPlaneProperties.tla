------------------------ MODULE ControlPlaneProperties ------------------------
(***************************************************************************)
(* What the control plane promises whoever its clients are and whatever    *)
(* they call in whatever order.                                            *)
(***************************************************************************)
EXTENDS ControlPlane

-----------------------------------------------------------------------------
(* State invariants *)

\* Hosts and agent identities stay in bijection through enrolment, decommission
\* and re-enrolment, so caller_host can never meet the "binding points at
\* missing host" error, no host is left without an agent able to report for it,
\* and no two hosts share a name.
BindingIntegrity ==
    /\ IsInjective(agent_binding)
    /\ Range(agent_binding) = DOMAIN host
    /\ \A g, h \in DOMAIN host : host[g].name = host[h].name => g = h

\* Every host ever enrolled, decommissioned ones included, was admitted by one
\* code of its own: a code is never spent twice and never becomes usable again
\* when its host is deleted.
EveryHostSpentItsOwnCode ==
    /\ \A h \in 1 .. next_id.host - 1 :
          \E code \in DOMAIN enrollment_token : enrollment_token[code] = h
    /\ \A c, d \in DOMAIN enrollment_token :
          enrollment_token[c] = enrollment_token[d] /\ enrollment_token[c] # NotConsumed
             => c = d
    /\ \A code \in DOMAIN enrollment_token : enrollment_token[code] < next_id.host

\* The workload rows and the count shown beside the host agree, for every host,
\* whatever reports, deletions and enrolments came before; a decommissioned
\* host leaves no rows behind.
WorkloadsMatchTheirHost ==
    /\ \A w \in workload : w.host_id \in DOMAIN host
    /\ \A h \in DOMAIN host :
          host[h].workload_count = Cardinality({w \in workload : w.host_id = h})

\* delete_application's busy check and queue_deployment's existence check
\* between them keep the application of every deployment in flight: the server
\* can always find the repository to fetch for it.
InFlightHasItsApplication ==
    \A d \in DOMAIN deployment :
        deployment[d].status \in InFlight => deployment[d].app_id \in DOMAIN application

\* The status and the two optional timestamps of a deployment tell one story,
\* although finish_deployment checks no status and rollback writes no time.
TimesAgreeWithStatus ==
    \A d \in DOMAIN deployment :
        LET dep == deployment[d] IN
        /\ dep.finished <=> dep.status \notin InFlight
        /\ dep.status = "Running" => dep.started
        /\ dep.status = "Queued" => ~dep.started

-----------------------------------------------------------------------------
(* What a step may never do *)

\* A host shown as reachable although it has been silent for longer than the
\* staleness window plus the time since the last sweep.
Overdue(h) ==
    /\ h \in DOMAIN host
    /\ host[h].status # "Offline"
    /\ host[h].silence > STALE_AFTER + since_sweep

\* Draining a host that is already Offline, the one call that makes a silent
\* host look reachable.
DrainsAnOfflineHost(h) ==
    /\ host[h].status = "Offline"
    /\ \E s \in Connected : SetHostDraining(s, h, TRUE)

\* No host becomes overdue by itself: connecting, heartbeats, the clock and the
\* sweeps always notice silence in time, and each sweep leaves no host overdue.
\* Only an operator draining an Offline host makes one, until the next sweep: the code
\* does not keep its promise there ("Never resurrects an offline host", lib.rs:390),
\* since clearing the flag then makes the host Online (lib.rs:404).
NoticesSilence ==
    \A h \in HostId :
        Overdue(h)' => \/ Overdue(h) /\ ~ReapStaleHosts
                       \/ h \in DOMAIN host /\ DrainsAnOfflineHost(h)

SilenceIsNoticed == [][NoticesSilence]_vars

\* What is recorded about host h, the deployments that target it included.
RowsOf(h) ==
    <<{host[g] : g \in DOMAIN host \cap {h}},
      {s \in DOMAIN agent_binding : agent_binding[s] = h},
      {w \in workload : w.host_id = h},
      {<<d, deployment[d]>> : d \in {e \in DOMAIN deployment : deployment[e].host_id = h}},
      {l \in deploy_log_line : /\ l.deployment_id \in DOMAIN deployment
                               /\ deployment[l.deployment_id].host_id = h}>>

\* "An agent can only ever touch its own host": no agent-side call, enrolment
\* included, changes what is recorded about another host that exists.
TouchesOnlyOwnHost ==
    \A s \in Connected : AgentReducer(s) =>
        \A h \in DOMAIN host :
            (s \in DOMAIN agent_binding => agent_binding[s] # h) => UNCHANGED RowsOf(h)

AgentsTouchOnlyTheirHost == [][TouchesOnlyOwnHost]_vars

\* A deployment's row outlives its application and its host, never changes what
\* it deploys or where, is never queued again, runs only after being queued and
\* is rolled back only after having succeeded.
KeepsHistory ==
    \A d \in DOMAIN deployment :
        /\ d \in DOMAIN deployment'
        /\ LET old == deployment[d]
               new == deployment'[d] IN
           /\ new.app_id = old.app_id
           /\ new.host_id = old.host_id
           /\ new.commit_sha = old.commit_sha
           /\ old.started => new.started
           /\ old.finished => new.finished
           /\ new.status # old.status =>
                 /\ new.status # "Queued"
                 /\ new.status = "Running" => old.status = "Queued"
                 /\ new.status = "RolledBack" => old.status = "Succeeded"

DeploymentHistory == [][KeepsHistory]_vars
=============================================================================
