------------------------ MODULE MCKickSubscriptions ------------------------
(***************************************************************************)
(* Two requests and a cleanup over two channels of which Kick allows one.  *)
(***************************************************************************)
EXTENDS KickSubscriptions, TLC

CONSTANTS a, b, p, q

MCChannels == {a, b}
MCCallers == {p, q}
MCEvents == {"chat.message.sent", "channel.followed"}
MCSymmetry == Permutations(MCChannels) \cup Permutations(MCCallers)
=============================================================================
