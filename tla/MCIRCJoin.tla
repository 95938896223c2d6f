----------------------------- MODULE MCIRCJoin -----------------------------
(***************************************************************************)
(* Two calls on one replica or on two, whose clocks are ahead of the       *)
(* database's and behind.                                                  *)
(***************************************************************************)
EXTENDS IRCJoin, TLC

CONSTANTS a, b, r1, r2

MCJoins == {a, b}
MCReplicas == {r1, r2}
MCDiffer == r1 :> 1 @@ r2 :> -1
MCSymmetry == Permutations(MCJoins)

\* The age of a slot matters nothing to a connection, nor a connection to the gate:
\* while a client is connected the slots are old.
MCApart ==
    (\E j \in Joins, n \in Attempts : conn[j][n] \in {"up", "ready"}) =>
        \A s \in Accounts : slot[s].age = Old
=============================================================================
