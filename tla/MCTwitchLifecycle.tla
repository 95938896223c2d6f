------------------------- MODULE MCTwitchLifecycle -------------------------
(***************************************************************************)
(* Two replicas, a type that needs authorization and one that does not.    *)
(***************************************************************************)
EXTENDS TwitchLifecycle, TLC

CONSTANTS r1, r2

MCReplicas == {r1, r2}
MCSymmetry == Permutations(MCReplicas)
MCTypes == {"channel.follow", "stream.online"}
MCScoped == {"channel.follow"}
=============================================================================
