--------------------------- MODULE DurableDocument ---------------------------
(***************************************************************************)
(* What the callers of the store rely on: one document that is always in   *)
(* place, of which a running server has a copy that may be ahead of it.    *)
(* A change is reported done when the copy is put in place, all at once;   *)
(* a stop loses what was ahead and nothing else.  A server that muddles    *)
(* its document can no longer be trusted, until it keeps its copy again.   *)
(***************************************************************************)
EXTENDS Naturals

VARIABLES
    kept,       \* the document in place
    running,    \* there is a server
    working,    \* its copy
    told,       \* the latest change reported done
    trusted     \* the document in place was kept, and so was every one a server began with

documentVars == <<kept, running, working, told, trusted>>

IsChangeOf(new, old) == new.version = old.version + 1

Init == ~running /\ told = 0 /\ kept.version \in Nat /\ trusted = TRUE

\* an instance of an older release is migrated as it starts
Start ==
    /\ ~running /\ running'
    /\ working' = kept \/ IsChangeOf(working', kept)
    /\ UNCHANGED <<kept, told, trusted>>

Change ==
    /\ running /\ running'
    /\ IsChangeOf(working', working)
    /\ UNCHANGED <<kept, told, trusted>>

\* nobody may be left to be told
Keep ==
    /\ running /\ running'
    /\ kept' = working /\ told' \in {told, working.version} /\ trusted'
    /\ UNCHANGED working

\* anything may be in place, and anything have been told
Muddle ==
    /\ running /\ running' /\ ~trusted'
    /\ UNCHANGED working

Stop ==
    /\ running /\ ~running'
    /\ UNCHANGED <<kept, told, trusted>>

Next == Start \/ Change \/ Keep \/ Muddle \/ Stop

Spec == Init /\ [][Next]_documentVars
=============================================================================
