-------------------------- MODULE MCRequestManager --------------------------
(***************************************************************************)
(* The providers of the channels: kick stands for one without readers.     *)
(***************************************************************************)
EXTENDS RequestManager
CONSTANTS twitch, youtube, kick
MCProvider == [k \in Keys |-> IF k = twitch THEN "twitch"
                              ELSE IF k = youtube THEN "youtube" ELSE "kick"]
=============================================================================
