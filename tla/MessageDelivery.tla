--------------------------- MODULE MessageDelivery ---------------------------
(***************************************************************************)
(* How events become documents of one channel: the webhooks of Twitch and  *)
(* Kick (agent/internal/webhook), the hedged creation of a message         *)
(* (agent/internal/chatmessage), which the IRC readers use too, and the    *)
(* scheduled poll that refreshes the channel's metadata                    *)
(* (agent/internal/jobs/metadata.go) beside them.                          *)
(*                                                                         *)
(* Providers deliver an event again when it was not acknowledged, and      *)
(* sometimes when it was.  A request whose caller has given up may still   *)
(* reach the database.  A message document expires after days.             *)
(*                                                                         *)
(* The poll compares its replica's clock with the database's; instants are *)
(* those of the database, counted from the start of the poll; what happens *)
(* while it runs is at instant 1 or later.                                 *)
(***************************************************************************)
EXTENDS Integers, Sequences, FiniteSets

CONSTANTS
    Handlers,     \* requests that are served at a time
    Events,
    Kind(_),      \* of an event: kick, irc, twitch, or follow (of Twitch)
    Doc(_),       \* its document: follows are keyed by follower
    Fields(_),    \* whether it has metadata of the channel
    MaxAttempts,  \* attempts that one creation may start
    MaxSkew,      \* a replica's clock is at most this far off the database's
    MaxDeliveries, MaxPolls, MaxTime,  \* bounds; MaxTime is a poll's
    None

ASSUME DeliveryAssumption ==
    /\ MaxAttempts \in Nat \ {0} /\ MaxDeliveries \in Nat /\ MaxPolls \in Nat
    /\ MaxSkew \in Nat /\ MaxTime \in Nat \ {0}
    /\ \A e \in Events : Kind(e) \in {"kick", "irc", "twitch", "follow"}
    /\ \A e \in Events : Kind(e) = "follow" => ~Fields(e)
    /\ None \notin Handlers \cup Events \cup {Doc(e) : e \in Events} \cup {"gone"}
    /\ "gone" \notin Handlers /\ "poll" \notin Events

VARIABLES
    sent,      \* the deliveries so far
    acked,     \* the events that were answered with 200
    at,        \* what each handler does
    maker,     \* of each document: the handler that made it, itself gone, or None
    merged,    \* the events whose fields are in the channel document, or were
    field,     \* whose metadata the channel document has: an event's, or a poll's
    count,     \* of each document there is: how often followerCount was raised
    key,       \* Kick's public key, the one that is cached, and whether that is new
    late,      \* the document that an abandoned attempt may still create, or None
    poll,      \* the metadata poll, how long it takes already, how much its
               \* replica's clock is ahead
    stamp,     \* the UpdateTime that a webhook has given the channel document
    polls

provider == <<sent, acked>>
channel == <<merged, field, count, stamp>>
vars == <<provider, at, maker, late, channel, key, poll, polls>>

Documents == {Doc(e) : e \in Events}
Outcomes == {"sent", "ok", "exists", "error"}
Idle == [pc |-> "idle", event |-> None, tries |-> <<>>]
Skews == (-MaxSkew)..MaxSkew
NoPoll == [pc |-> "idle", changed |-> FALSE, time |-> 0, skew |-> 0]

TypeOK ==
    /\ sent \in 0..MaxDeliveries /\ acked \subseteq Events
    /\ at \in [Handlers -> [pc : {"idle", "verify", "message", "channel"},
                            event : Events \cup {None},
                            tries : Seq(Outcomes \cup {"taken"})]]
    /\ \A h \in Handlers : Len(at[h].tries) <= MaxAttempts
    /\ maker \in [Documents -> Handlers \cup {None, "gone"}]
    /\ late \in Documents \cup {None}
    /\ merged \subseteq Events /\ field \in Events \cup {None, "poll"}
    /\ count \in [Documents -> Nat]
    /\ stamp \in (-MaxSkew)..MaxTime
    /\ key \in [current : 0..1, cached : {0, 1, None}, new : BOOLEAN]
    /\ poll \in [pc : {"idle", "fetched", "read"}, changed : BOOLEAN,
                 time : 0..MaxTime, skew : Skews]
    /\ polls \in 0..MaxPolls

Init ==
    /\ sent = 0 /\ acked = {}
    /\ at = [h \in Handlers |-> Idle]
    /\ maker = [d \in Documents |-> None] /\ late = None
    /\ merged = {} /\ field = None /\ stamp = 0
    /\ count = [d \in Documents |-> 0]
    /\ key = [current |-> 0, cached |-> None, new |-> FALSE]
    /\ poll = NoPoll /\ polls = 0
-----------------------------------------------------------------------------
Exists(d) == maker[d] # None

\* A handler is done; the documents it made are now those of an earlier one.
Answer(h, ok, made) ==
    /\ at' = [at EXCEPT ![h] = Idle]
    /\ acked' = IF ok THEN acked \cup {at[h].event} ELSE acked
    /\ maker' = [d \in Documents |-> IF made[d] = h THEN "gone" ELSE made[d]]

Begin(h, e, pc, tries) ==
    /\ at[h] = Idle
    /\ sent < MaxDeliveries
    /\ sent' = sent + 1
    /\ at' = [at EXCEPT ![h] = [pc |-> pc, event |-> e, tries |-> tries]]
    /\ UNCHANGED <<acked, maker, late, channel, key, poll, polls>>

\* ServeHTTP.  What it acknowledges without writing anything (a challenge, a
\* revocation, a delivery that names no broadcaster) is not an event here.
Deliver(h, e) ==
    \/ Kind(e) = "kick" /\ Begin(h, e, "verify", <<>>)
    \/ Kind(e) \in {"twitch", "follow"} /\ Begin(h, e, "message", <<>>)

\* A replica's IRC reader receives a message and starts to write it.
Receive(h, e) == Kind(e) = "irc" /\ Begin(h, e, "message", <<"sent">>)

\* Kick signs with its current key.
Verified == key.cached = key.current

\* getPublicKey: a signature that does not match the cached key has it fetched
\* again, at most once a minute.
Verify(h) ==
    /\ at[h].pc = "verify"
    /\ LET fetch == key.cached = None \/ (~Verified /\ ~key.new)
           ok == fetch \/ Verified IN
       /\ key' = IF fetch THEN [key EXCEPT !.cached = key.current, !.new = TRUE]
                 ELSE key
       /\ IF ok THEN /\ at' = [at EXCEPT ![h].pc = "message", ![h].tries = <<"sent">>]
                     /\ UNCHANGED <<maker, acked>>
          ELSE Answer(h, FALSE, maker)
    /\ UNCHANGED <<sent, late, channel, poll, polls>>

\* The key cannot be fetched, the signature is wrong, the event is not mapped.
Refuse(h) ==
    /\ at[h].pc = "verify" \/ (at[h].pc = "message" /\ at[h].tries = <<>>)
    /\ Answer(h, FALSE, maker)
    /\ UNCHANGED <<sent, late, channel, key, poll, polls>>

\* Kick changes its key; a minute passes since the last fetch.
Rotate ==
    /\ key.current = 0
    /\ key' = [key EXCEPT !.current = 1]
    /\ UNCHANGED <<provider, at, maker, late, channel, poll, polls>>

Minute ==
    /\ key.new
    /\ key' = [key EXCEPT !.new = FALSE]
    /\ UNCHANGED <<provider, at, maker, late, channel, poll, polls>>
-----------------------------------------------------------------------------
\* What follows the message: the channel, if the event has something for it.
Written(h, made) ==
    IF Fields(at[h].event) \/ Kind(at[h].event) = "follow"
    THEN /\ at' = [at EXCEPT ![h].pc = "channel", ![h].tries = <<>>]
         /\ maker' = made
         /\ UNCHANGED acked
    ELSE Answer(h, TRUE, made)

Make(d, h) == [maker EXCEPT ![d] = IF @ = None THEN h ELSE @]

\* Create: an attempt reaches the database, and its answer may be lost; or it
\* does not get there.
Attempt(h, i) ==
    LET d == Doc(at[h].event) IN
    /\ i \in DOMAIN at[h].tries /\ at[h].tries[i] = "sent"
    /\ \/ /\ maker' = Make(d, h)
          /\ \E outcome \in {"error", IF Exists(d) THEN "exists" ELSE "ok"} :
                at' = [at EXCEPT ![h].tries[i] = outcome]
       \/ at' = [at EXCEPT ![h].tries[i] = "error"] /\ UNCHANGED maker
    /\ UNCHANGED <<provider, late, channel, key, poll, polls>>

MayHedge(h) == Len(at[h].tries) < MaxAttempts

\* Another attempt is started beside a slow one, or after one that failed.
Hedge(h) ==
    /\ at[h].tries # <<>> /\ MayHedge(h)
    /\ at' = [at EXCEPT ![h].tries = Append(@, "sent")]
    /\ UNCHANGED <<provider, maker, late, channel, key, poll, polls>>

\* Mutant of Duplicate: whatever exists is a duplicate.
DuplicateAlways(h) == TRUE

\* A document that exists is this write's own unless there was one attempt.
Duplicate(h) == Len(at[h].tries) = 1

\* The first attempt that lands ends the write.
Created(h, i) ==
    /\ i \in DOMAIN at[h].tries /\ at[h].tries[i] \in {"ok", "exists"}
    /\ Written(h, maker)
    /\ UNCHANGED <<sent, late, channel, key, poll, polls>>

\* An attempt that failed is taken, or ends the write: the error is final, all
\* attempts are used up, or the time is over.  Those under way may still land.
Failed(h, i) ==
    /\ i \in DOMAIN at[h].tries /\ at[h].tries[i] = "error"
    /\ at' = [at EXCEPT ![h].tries[i] = "taken"]
    /\ UNCHANGED <<provider, maker, late, channel, key, poll, polls>>

GiveUp(h) ==
    /\ at[h].tries # <<>>
    /\ Answer(h, FALSE, maker)
    /\ late' = IF late = None /\ \E i \in DOMAIN at[h].tries : at[h].tries[i] = "sent"
               THEN Doc(at[h].event) ELSE late
    /\ UNCHANGED <<sent, channel, key, poll, polls>>

Land ==
    /\ late # None
    /\ maker' = Make(late, "gone")
    /\ late' = None
    /\ UNCHANGED <<provider, at, channel, key, poll, polls>>

\* A message document has lived its days.  (One that expires beside a request for
\* it might as well do so before or after that.)
MessageExpires(d) ==
    /\ Exists(d) /\ late # d
    /\ \A h \in Handlers : at[h].pc # "idle" => Doc(at[h].event) # d
    /\ maker' = [maker EXCEPT ![d] = None]
    /\ count' = [count EXCEPT ![d] = 0]
    /\ acked' = {e \in acked : Doc(e) # d}
    /\ UNCHANGED <<sent, at, late, merged, field, stamp, key, poll, polls>>

\* Mutant of Recorded: a follow is written like any other message.
RecordedAlways(h) == FALSE

\* The follower has a document: the rest of the notification is skipped.
Recorded(h) == Kind(at[h].event) = "follow" /\ Exists(Doc(at[h].event))

\* writeNotification: Twitch's messages are written in one attempt, whose answer
\* may be lost, and are written again by a redelivery.
TwitchMessage(h) ==
    LET made == Make(Doc(at[h].event), h) IN
    /\ at[h].pc = "message" /\ at[h].tries = <<>>
    /\ \/ Recorded(h) /\ Answer(h, TRUE, maker)
       \/ ~Recorded(h) /\ (Written(h, made) \/ Answer(h, FALSE, made))
    /\ UNCHANGED <<sent, late, channel, key, poll, polls>>
-----------------------------------------------------------------------------
\* A webhook has written the channel document.
Touched ==
    /\ stamp' = poll.time
    /\ poll' = [poll EXCEPT !.changed = TRUE]

\* The fields are merged, Kick's only if they change something; a follower is
\* counted.
ChannelWrite(h) ==
    LET e == at[h].event IN
    IF Kind(e) = "follow"
    THEN /\ count' = [count EXCEPT ![Doc(e)] = @ + 1]
         /\ Touched
         /\ UNCHANGED <<merged, field>>
    ELSE /\ merged' = merged \cup {e}
         /\ \/ field' = e /\ Touched
            \/ /\ Kind(e) = "kick" /\ field # None
               /\ UNCHANGED <<field, stamp, poll>>
         /\ UNCHANGED count

\* An error of the count is ignored.
WriteChannel(h) ==
    /\ at[h].pc = "channel"
    /\ Answer(h, TRUE, maker)
    /\ \/ ChannelWrite(h)
       \/ Kind(at[h].event) = "follow" /\ UNCHANGED <<channel, poll>>
    /\ UNCHANGED <<sent, late, key, polls>>

\* Mutant of Acknowledged: an error is only logged.
AcknowledgedAnyway == TRUE

\* A delivery whose channel could not be written is answered with 500.
Acknowledged == FALSE

\* The write fails, with or without effect, or the replica dies.
ChannelFails(h) ==
    /\ at[h].pc = "channel"
    /\ Answer(h, Acknowledged, maker)
    /\ ChannelWrite(h) \/ UNCHANGED <<channel, poll>>
    /\ UNCHANGED <<sent, late, key, polls>>
-----------------------------------------------------------------------------
\* The scheduled job notes its replica's time and fetches the channel's metadata.
\* The document was updated before; how long before tells nothing from MaxSkew on.
PollStart ==
    /\ poll.pc = "idle" /\ polls < MaxPolls
    /\ \E skew \in Skews :
          poll' = [pc |-> "fetched", changed |-> FALSE, time |-> 1, skew |-> skew]
    /\ stamp' \in (-MaxSkew)..0
    /\ polls' = polls + 1
    /\ UNCHANGED <<provider, at, maker, late, merged, field, count, key>>

\* It takes its time.
PollTakes ==
    /\ poll.pc # "idle" /\ poll.time < MaxTime
    /\ poll' = [poll EXCEPT !.time = @ + 1]
    /\ UNCHANGED <<provider, at, maker, late, channel, key, polls>>

\* Mutant of Newer: the poll's data is always newer.
NewerNever == FALSE

\* UpdateTime.After(started): the document was updated after the poll started,
\* as far as the replica's clock can tell.
Newer == stamp > poll.skew

\* It reads the document, which a newer webhook wins or which needs nothing ...
PollRead ==
    /\ poll.pc = "fetched"
    /\ poll' = IF Newer THEN NoPoll ELSE [poll EXCEPT !.pc = "read", !.changed = FALSE]
    /\ UNCHANGED <<provider, at, maker, late, channel, key, polls>>

PollUnchanged ==
    /\ poll.pc = "fetched"
    /\ poll' = NoPoll
    /\ UNCHANGED <<provider, at, maker, late, channel, key, polls>>

\* ... and writes it, on the condition that it is still the one that was read.
PollWrite ==
    /\ poll.pc = "read"
    /\ poll' = NoPoll
    /\ field' = IF poll.changed THEN field ELSE "poll"
    /\ UNCHANGED <<provider, at, maker, late, merged, count, stamp, key, polls>>
-----------------------------------------------------------------------------
Next ==
    \/ Rotate \/ Minute \/ Land
    \/ PollStart \/ PollTakes \/ PollRead \/ PollUnchanged \/ PollWrite
    \/ \E d \in Documents : MessageExpires(d)
    \/ \E h \in Handlers :
          \/ \E e \in Events : Deliver(h, e) \/ Receive(h, e)
          \/ Verify(h) \/ Refuse(h) \/ Hedge(h) \/ GiveUp(h) \/ TwitchMessage(h)
          \/ \E i \in 1..MaxAttempts : Attempt(h, i) \/ Created(h, i) \/ Failed(h, i)
          \/ WriteChannel(h) \/ ChannelFails(h)

Spec == Init /\ [][Next]_vars
-----------------------------------------------------------------------------
\* An event that was acknowledged has its document, until that expires, and its
\* fields reached the channel: the provider will not deliver it again.
AckWritten ==
    \A e \in acked : Exists(Doc(e)) /\ (Fields(e) => e \in merged)

\* A write is never reported as a duplicate of what it made itself, whichever of
\* its attempts landed and whichever answer was lost.
NoFalseDuplicate ==
    \A h \in Handlers : \A i \in DOMAIN at[h].tries :
        at[h].tries[i] = "exists" /\ Duplicate(h) => maker[Doc(at[h].event)] # h

\* Until his message expires a follower is counted at most once, however many
\* notifications there are of him and however often each is delivered, on
\* whichever replicas; and the state is well-formed.
FollowInv == TypeOK /\ \A d \in Documents : count[d] <= 1

\* A poll never overwrites what a webhook wrote after the poll started, unless
\* the webhook came so soon that the difference of the clocks hides it.  (A
\* delivery of Kick that changes nothing writes nothing, and is not protected.)
PollYields == [][field' = "poll" /\ field # "poll" => stamp <= MaxSkew]_vars
=============================================================================
