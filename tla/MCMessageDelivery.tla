------------------------- MODULE MCMessageDelivery -------------------------
(***************************************************************************)
(* Two requests at a time: an event of Kick, one of Twitch that has fields *)
(* for the channel, two notifications of one follower, and one message of  *)
(* an IRC reader; and a poll on a clock that is ahead or behind.           *)
(***************************************************************************)
EXTENDS MessageDelivery, TLC

CONSTANTS a, b, f1, f2

MCHandlers == {a, b}
MCSymmetry == Permutations(MCHandlers) \cup Permutations({f1, f2})
MCEvents == {"status", "update", "chat", f1, f2}
MCKind(e) == CASE e \in {f1, f2} -> "follow"
               [] e = "status" -> "kick"
               [] e = "update" -> "twitch"
               [] e = "chat" -> "irc"
MCDoc(e) == IF e \in {f1, f2} THEN "follow" ELSE e
MCFields(e) == e \in {"status", "update"}

\* A poll sees the channel and no messages: beside it there are two deliveries,
\* of one attempt each.
MCBesidePoll ==
    polls > 0 => sent <= 2 /\ \A h \in Handlers : Len(at[h].tries) <= 1
=============================================================================
