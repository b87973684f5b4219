------------------------------- MODULE Tables -------------------------------
(***************************************************************************)
(* A database table with a primary key is a function from the keys present *)
(* to their rows.  These are the three operations the reducers use on one. *)
(***************************************************************************)
EXTENDS Functions

EmptyTable == [k \in {} |-> k]

\* insert or update: the row of key k becomes r
Put(t, k, r) == [x \in DOMAIN t \cup {k} |-> IF x = k THEN r ELSE t[x]]

\* delete by key (a no-op when the key is absent)
Drop(t, k) == Restrict(t, DOMAIN t \ {k})

\* t is a table with keys in K and rows in R
IsTable(t, K, R) == DOMAIN t \subseteq K /\ t \in [DOMAIN t -> R]
=============================================================================
