---------------------------- MODULE MCTwitchQueue ----------------------------
(***************************************************************************)
(* TwitchQueue with a growing backoff.                                     *)
(***************************************************************************)
EXTENDS TwitchQueue
MCBackoff == [n \in 1..MaxAttempts |-> n]
=============================================================================
