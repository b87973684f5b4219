------------------------- MODULE DeploymentLifecycle -------------------------
(***************************************************************************)
(* What an operator expects of a deployment: once queued it is started,    *)
(* once started it finishes, and it finishes once.                         *)
(***************************************************************************)
CONSTANT Deployments

VARIABLE status

Init == status = [d \in Deployments |-> "Absent"]

Move(d, from, to) == status[d] = from /\ status' = [status EXCEPT ![d] = to]

Queue(d)    == Move(d, "Absent", "Queued")
Start(d)    == Move(d, "Queued", "Running")
Finish(d)   == Move(d, "Running", "Succeeded") \/ Move(d, "Running", "Failed")
RollBack(d) == Move(d, "Succeeded", "RolledBack")

Next == \E d \in Deployments : Queue(d) \/ Start(d) \/ Finish(d) \/ RollBack(d)

Spec == /\ Init /\ [][Next]_status
        /\ \A d \in Deployments : WF_status(Start(d)) /\ WF_status(Finish(d))
=============================================================================
