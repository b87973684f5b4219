---------------------------- MODULE MCEnrolment ----------------------------
EXTENDS Enrolment

CONSTANTS m1, m2, n1, n2, site, stopped, vendor

Names == m1 :> n1 @@ m2 :> n2

\* a stopped container, a unit DigiHost deployed, and one it did not
Installed ==
    {[name |-> site, kind |-> "unit", running |-> TRUE, managed |-> TRUE, automatic |-> TRUE],
     [name |-> stopped, kind |-> "docker", running |-> FALSE, managed |-> FALSE,
      automatic |-> FALSE],
     [name |-> vendor, kind |-> "unit", running |-> TRUE, managed |-> FALSE,
      automatic |-> TRUE]}

NoFailure == {{}}
=============================================================================
