------------------------------- MODULE MCFleet -------------------------------
EXTENDS Fleet

CONSTANTS m1, m2, n1, n2, c1, c2

OneMachine  == [m \in {m1} |-> n1]
OneCode     == [m \in {m1} |-> c1]
TwoNames    == m1 :> n1 @@ m2 :> n2
TwoCodes    == m1 :> c1 @@ m2 :> c2

\* the two machines may change places, each with its name and its code
Exchange    == m1 :> m2 @@ m2 :> m1 @@ n1 :> n2 @@ n2 :> n1 @@ c1 :> c2 @@ c2 :> c1
Exchanged   == {[v \in DOMAIN Exchange |-> IF swap THEN Exchange[v] ELSE v] : swap \in BOOLEAN}
=============================================================================
