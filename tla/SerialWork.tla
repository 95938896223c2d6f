----------------------------- MODULE SerialWork -----------------------------
(***************************************************************************)
(* What the subscription lease promises the code that uses it: the         *)
(* lifecycle work of one provider key, remote effects still under way      *)
(* included, happens one call at a time, and a call works at most once.    *)
(***************************************************************************)
CONSTANT Calls      \* the lifecycle calls made for one key, over all replicas

VARIABLES active,   \* the calls whose work, or remote effect, is under way
          spent     \* the calls that are over

vars == <<active, spent>>

Init == /\ active = {}
        /\ spent = {}

Enter(c) == /\ active = {}
            /\ c \notin spent
            /\ active' = {c}
            /\ UNCHANGED spent

Leave(c) == /\ active = {c}
            /\ active' = {}
            /\ spent' = spent \cup {c}

\* A call that never gets to work gives up, or needs no turn.
Forgo(c) == /\ c \notin active \cup spent
            /\ spent' = spent \cup {c}
            /\ UNCHANGED active

Next == \E c \in Calls : Enter(c) \/ Leave(c) \/ Forgo(c)

Spec == Init /\ [][Next]_vars
=============================================================================
