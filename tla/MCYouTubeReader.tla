-------------------------- MODULE MCYouTubeReader --------------------------
(***************************************************************************)
(* Two clients and one video whose chat has a message and its deletion.    *)
(***************************************************************************)
EXTENDS YouTubeReader

CONSTANTS a, b

MCReaders == {a, b}
MCFeed == <<[kind |-> "message", id |-> 1], [kind |-> "tombstone", id |-> 1]>>
=============================================================================
