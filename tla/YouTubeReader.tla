---------------------------- MODULE YouTubeReader ----------------------------
(***************************************************************************)
(* agent/internal/youtube: the readers of one channel.  Each replica has a *)
(* client; the one that has the channel's lease looks for a live video,    *)
(* writes its chat and its online and offline messages, and keeps the      *)
(* channel document current, with a goroutine that follows the metadata.   *)
(*                                                                         *)
(* A failed request or write is retried, and a step that is not taken is   *)
(* one that still fails.  Nothing stops a write that is under way when its *)
(* context ends: it may land later, after another reader's.                *)
(***************************************************************************)
EXTENDS Naturals, Sequences, FiniteSets

CONSTANTS
    Readers,    \* the replicas' clients
    Videos,     \* the channel's videos are 1..Videos, one after the other
    Feed,       \* the actions of a video's chat: kind and id of the message
    None, Left, \* no owner; a client that is gone
    MaxFaults   \* bounds crashes, late and failed renewals

Video == 1..Videos
Unknown == "unrecognized"
DocIDs == Video \X (0..Len(Feed)) \X {"message", "tombstone", "online", "offline"}

\* The messages of a chat are numbered from 1.
ASSUME ReaderAssumption ==
    /\ Videos \in Nat /\ MaxFaults \in Nat
    /\ Feed \in Seq([kind : {"message", "tombstone", Unknown}, id : 1..Len(Feed)])
    /\ {None, Left} \cap Readers = {} /\ None # Left
    /\ None \notin Video \cup DocIDs

VARIABLES
    air,      \* what each video is: none, upcoming, live or ended
    chat,     \* the number of actions in its chat
    lease,    \* youtube-readers/<channel>: owner, and whether it has expired
    at,       \* what each client does
    docs,     \* the messages: document id to its content
    channel,  \* onlineAt of the channel document: the video it is from, or None
    flight,   \* writes whose callers are gone
    guessed,  \* videos that were called online or offline without metadata
    faults

youtube == <<air, chat>>
store == <<docs, channel, flight>>
vars == <<youtube, lease, at, store, guessed, faults>>

Idle == [pc |-> "idle", alive |-> FALSE, video |-> 0, pos |-> 0,
         online |-> FALSE, meta |-> "off"]
Searching == [Idle EXCEPT !.pc = "discover", !.alive = TRUE]
PCs == {"idle", "discover", "open", "online", "merge", "chat", "confirm",
        "offline", "clear", "release"}

\* Mutant of DocID: a tombstone has the id of the message it deletes.
DocIDShared(v, a) == <<v, a.id, "message">>

\* stream: a tombstone has a document of its own.
DocID(v, a) == <<v, a.id, a.kind>>

\* actionData: an action is a message or a deletion, or is not recognized.
Message(v, a) == [id |-> DocID(v, a), data |-> a.kind]
State(v, kind) == [id |-> <<v, 0, kind>>, data |-> kind]
Fields(v) == [id |-> None, data |-> v]

TypeOK ==
    /\ air \in [Video -> {"none", "upcoming", "live", "ended"}]
    /\ chat \in [Video -> 0..Len(Feed)]
    /\ lease \in [owner : Readers \cup {None, Left}, expired : BOOLEAN]
    /\ at \in [Readers ->
         [pc : PCs, alive : BOOLEAN, video : 0..Videos, pos : 0..Len(Feed),
          online : BOOLEAN, meta : {"off", "wait", "live", "merge"}]]
    /\ \A r \in Readers : at[r].meta # "off" => at[r].pc = "chat"
    /\ DOMAIN docs \subseteq DocIDs
    /\ channel \in Video \cup {None}
    /\ Cardinality(flight) <= 1
    /\ guessed \subseteq Video
    /\ faults \in 0..MaxFaults

Init ==
    /\ air = [v \in Video |-> "none"]
    /\ chat = [v \in Video |-> 0]
    /\ lease = [owner |-> None, expired |-> FALSE]
    /\ at = [r \in Readers |-> Idle]
    /\ docs = <<>>
    /\ channel = None
    /\ flight = {}
    /\ guessed = {}
    /\ faults = 0
-----------------------------------------------------------------------------
\* The channel at YouTube: a video is announced, starts and ends, and people
\* chat before or while it is live (here at most once, all of the feed).
Air(v) ==
    /\ \A u \in 1..(v - 1) : air[u] = "ended"
    /\ \E next \in CASE air[v] = "none" -> {"upcoming", "live"}
                     [] air[v] = "upcoming" -> {"live"}
                     [] air[v] = "live" -> {"ended"}
                     [] air[v] = "ended" -> {} :
          air' = [air EXCEPT ![v] = next]
    /\ UNCHANGED <<chat, lease, at, store, guessed, faults>>

Chat(v) ==
    /\ air[v] \in {"upcoming", "live"} /\ chat[v] < Len(Feed)
    /\ chat' = [chat EXCEPT ![v] = Len(Feed)]
    /\ UNCHANGED <<air, lease, at, store, guessed, faults>>
-----------------------------------------------------------------------------
\* leaseAvailable: absent, expired, or our own.
Available(r) == lease.owner \in {None, r} \/ lease.expired

Taken(r) == lease' = [owner |-> r, expired |-> FALSE]

\* run: the client takes the lease and begins to read.
Acquire(r) ==
    /\ at[r].pc = "idle" /\ Available(r)
    /\ Taken(r)
    /\ at' = [at EXCEPT ![r] = Searching]
    /\ UNCHANGED <<youtube, store, guessed, faults>>

\* ownedSession's heartbeat: a lease that another has ends the reader's context.
Renew(r) ==
    /\ at[r].alive
    /\ lease # [owner |-> r, expired |-> FALSE]
    /\ \/ Available(r) /\ Taken(r) /\ UNCHANGED at
       \/ ~Available(r) /\ at' = [at EXCEPT ![r].alive = FALSE] /\ UNCHANGED lease
    /\ UNCHANGED <<youtube, store, guessed, faults>>

\* A renewal fails, or the client is closed.
Cancel(r) ==
    /\ at[r].alive /\ faults < MaxFaults
    /\ at' = [at EXCEPT ![r].alive = FALSE]
    /\ faults' = faults + 1
    /\ UNCHANGED <<youtube, lease, store, guessed>>

Renewing(r) == r \in Readers /\ at[r].pc # "idle"

\* A renewal is late, or nobody is left to renew.
Expire ==
    /\ lease.owner # None /\ ~lease.expired
    /\ IF Renewing(lease.owner) THEN faults < MaxFaults /\ faults' = faults + 1
       ELSE UNCHANGED faults
    /\ lease' = [lease EXCEPT !.expired = TRUE]
    /\ UNCHANGED <<youtube, at, store, guessed>>

\* Mutant of Mine: whoever has the lease loses it.
MineAny(r) == TRUE

\* Release deletes the lease only if it is still this owner's; it may fail.
Mine(r) == lease.owner = r

Release(r) ==
    /\ at[r].pc = "release"
    /\ at' = [at EXCEPT ![r] = Idle]
    /\ \/ Mine(r) /\ lease' = [owner |-> None, expired |-> FALSE]
       \/ UNCHANGED lease
    /\ UNCHANGED <<youtube, store, guessed, faults>>
-----------------------------------------------------------------------------
\* Create keeps the document that is there, which retryWrite takes for success.
Created(w) == IF w.id \in DOMAIN docs THEN docs
              ELSE [i \in DOMAIN docs \cup {w.id} |->
                      IF i = w.id THEN w.data ELSE docs[i]]

Apply(w) == IF w.id = None THEN channel' = w.data /\ UNCHANGED docs
            ELSE docs' = Created(w) /\ UNCHANGED channel

\* The fields that a session merges.
Current(r) == Fields(IF at[r].online THEN at[r].video ELSE None)

\* The write that the goroutine which follows the metadata is at.
MetaWrite(r) ==
    IF at[r].meta = "live" THEN {State(at[r].video, "online")}
    ELSE IF at[r].meta = "merge" THEN {Current(r)}
    ELSE {}

\* The next action of the chat, which is skipped if it is not recognized.
NextAction(r) == Feed[at[r].pos + 1]
Read(r) == at[r].pc = "chat" /\ at[r].pos < chat[at[r].video]

\* The write that the reader is at.
MainWrite(r) ==
    IF at[r].pc \in {"online", "offline"} THEN {State(at[r].video, at[r].pc)}
    ELSE IF at[r].pc = "merge" THEN {Current(r)}
    ELSE IF at[r].pc = "clear" THEN {Fields(None)}
    ELSE IF Read(r) /\ NextAction(r).kind # Unknown
         THEN {Message(at[r].video, NextAction(r))}
    ELSE {}

\* The writes whose context ends, of which one may still be on its way.
Abandon(W) == \/ UNCHANGED flight
              \/ flight = {} /\ \E w \in W : flight' = {w}

\* read, session and stream return once the context is over, and the metadata
\* goroutine is waited for.
Leave(r) ==
    /\ at[r].pc \notin {"idle", "release"} /\ ~at[r].alive
    /\ Abandon(MainWrite(r) \cup MetaWrite(r))
    /\ at' = [at EXCEPT ![r] = [Idle EXCEPT !.pc = "release"]]
    /\ UNCHANGED <<youtube, lease, docs, channel, guessed, faults>>

\* The replica is gone; its next client has another owner.
Crash(r) ==
    /\ at[r].pc # "idle" /\ faults < MaxFaults
    /\ faults' = faults + 1
    /\ Abandon(MainWrite(r) \cup MetaWrite(r))
    /\ at' = [at EXCEPT ![r] = Idle]
    /\ lease' = IF lease.owner = r THEN [lease EXCEPT !.owner = Left] ELSE lease
    /\ UNCHANGED <<youtube, docs, channel, guessed>>

Land ==
    /\ \E w \in flight : Apply(w)
    /\ flight' = {}
    /\ UNCHANGED <<youtube, lease, at, guessed, faults>>
-----------------------------------------------------------------------------
Go(r, from, to) ==
    /\ at[r].alive /\ at[r].pc = from
    /\ at' = [at EXCEPT ![r] = IF to = "discover" THEN Searching
                               ELSE [@ EXCEPT !.pc = to]]

\* Mutant of Offline: only the end of a session is written.
OfflineUnseen == "discover"

\* What the page of an offline channel leads to.
Offline == "clear"

\* read: the /live page names the video, or is that of an offline channel.
Airing == {v \in Video : air[v] \in {"upcoming", "live"}}

Discover(r) ==
    /\ at[r].alive /\ at[r].pc = "discover"
    /\ \/ \E v \in Airing : at' = [at EXCEPT ![r].pc = "open", ![r].video = v]
       \/ Airing = {} /\ at' = [at EXCEPT ![r].pc = Offline]
    /\ UNCHANGED <<youtube, lease, store, guessed, faults>>

\* The chat cannot be opened: the page is read again.
Reopen(r) ==
    /\ Go(r, "open", "discover")
    /\ UNCHANGED <<youtube, lease, store, guessed, faults>>

Guess(known, v, said) ==
    guessed' = IF known \/ said THEN guessed ELSE guessed \cup {v}

\* session: without metadata, a video with an open chat is taken to be live.
Open(r) ==
    LET v == at[r].video IN
    /\ at[r].alive /\ at[r].pc = "open"
    /\ \E known \in BOOLEAN :
          LET live == known => air[v] = "live" IN
          /\ at' = [at EXCEPT ![r].online = live,
                              ![r].pc = IF live THEN "online" ELSE "merge"]
          /\ Guess(known, v, air[v] = "live")
    /\ UNCHANGED <<youtube, lease, store, faults>>

\* The writes of session and read, each retried until it succeeds.
Write(r, from, to) ==
    /\ Go(r, from, to)
    /\ \A w \in MainWrite(r) : Apply(w)
    /\ UNCHANGED <<youtube, lease, flight, guessed, faults>>

WriteOnline(r) == Write(r, "online", "merge")
WriteOffline(r) == Write(r, "offline", "clear")
WriteClear(r) == Write(r, "clear", "discover")

WriteChannel(r) ==
    /\ at[r].alive /\ at[r].pc = "merge"
    /\ at' = [at EXCEPT ![r].pc = "chat", ![r].meta = "wait"]
    /\ \A w \in MainWrite(r) : Apply(w)
    /\ UNCHANGED <<youtube, lease, flight, guessed, faults>>

\* stream: the next action of the pages that were polled is passed when its
\* document is there, or when it is skipped.
WriteAction(r) ==
    /\ at[r].alive /\ Read(r)
    /\ at' = [at EXCEPT ![r].pos = @ + 1]
    /\ IF MainWrite(r) = {} THEN UNCHANGED <<docs, channel>>
       ELSE \E w \in MainWrite(r) : Apply(w)
    /\ UNCHANGED <<youtube, lease, flight, guessed, faults>>

\* The metadata goroutine, once it has been cancelled and waited for.
MetadataJoined(r) == "off"

\* A page without a continuation ends the chat; what the metadata goroutine was
\* writing may still be under way.
ChatEnds(r) ==
    /\ at[r].alive /\ at[r].pc = "chat" /\ at[r].pos = chat[at[r].video]
    /\ at' = [at EXCEPT ![r].meta = MetadataJoined(r), ![r].pos = 0,
                        ![r].pc = IF at[r].online THEN "confirm" ELSE "clear"]
    /\ Abandon(MetaWrite(r))
    /\ UNCHANGED <<youtube, lease, docs, channel, guessed, faults>>

\* Mutant of StillLive: the end of the chat is that of the stream.
StillLiveNever(v) == FALSE

\* session: what the player says of the video whose chat has stopped.
StillLive(v) == air[v] = "live"

\* Only a stream that is not known to be live goes offline.
Confirm(r) ==
    LET v == at[r].video IN
    /\ \E known \in BOOLEAN :
          /\ Go(r, "confirm", IF known /\ StillLive(v) THEN "discover" ELSE "offline")
          /\ Guess(known, v, air[v] = "ended")
    /\ UNCHANGED <<youtube, lease, store, faults>>
-----------------------------------------------------------------------------
\* Mutant of WentLive: the fields are all that an update changes.
WentLiveNever(r) == FALSE

\* An update says that the stream has begun.
WentLive(r) == air[at[r].video] = "live" /\ ~at[r].online

\* The metadata goroutine: an upcoming stream goes live; any other update
\* merges the fields again.
MetaUpdate(r) ==
    /\ at[r].alive /\ at[r].meta = "wait"
    /\ IF WentLive(r)
       THEN at' = [at EXCEPT ![r].meta = "live", ![r].online = TRUE]
       ELSE at' = [at EXCEPT ![r].meta = "merge"]
    /\ UNCHANGED <<youtube, lease, store, guessed, faults>>

MetaWrites(r) ==
    /\ at[r].alive /\ at[r].meta \in {"live", "merge"}
    /\ \A w \in MetaWrite(r) : Apply(w)
    /\ at' = [at EXCEPT ![r].meta = IF @ = "live" THEN "merge" ELSE "wait"]
    /\ UNCHANGED <<youtube, lease, flight, guessed, faults>>
-----------------------------------------------------------------------------
Reading(r) ==
    \/ Discover(r) \/ Open(r) \/ WriteOnline(r) \/ WriteChannel(r)
    \/ WriteAction(r) \/ Confirm(r)
    \/ WriteOffline(r) \/ WriteClear(r)

Next ==
    \/ \E v \in Video : Air(v) \/ Chat(v)
    \/ Expire \/ Land
    \/ \E r \in Readers :
          \/ Acquire(r) \/ Renew(r) \/ Cancel(r) \/ Release(r)
          \/ Leave(r) \/ Crash(r) \/ Reopen(r) \/ Reading(r)
          \/ ChatEnds(r) \/ MetaUpdate(r) \/ MetaWrites(r)

\* Timers fire, requests are answered in the end, and so is the end of the
\* stream with that of its chat.
Fairness ==
    /\ WF_vars(Expire) /\ WF_vars(Land)
    /\ \A r \in Readers :
          /\ WF_vars(Acquire(r)) /\ WF_vars(Renew(r)) /\ WF_vars(Release(r))
          /\ WF_vars(Leave(r)) /\ SF_vars(Open(r)) /\ WF_vars(Reading(r))
          /\ WF_vars(ChatEnds(r) /\ air[at[r].video] = "ended")
          /\ WF_vars(MetaUpdate(r)) /\ WF_vars(MetaWrites(r))

Spec == Init /\ [][Next]_vars /\ Fairness
-----------------------------------------------------------------------------
\* A reader that goes on to the next page has left no action of the chat
\* behind: each one has its own document with its own content, whatever was
\* retried, lost its lease or was written by another reader before.
NothingSkipped ==
    \A r \in Readers : at[r].pc = "chat" =>
        \A i \in 1..at[r].pos :
            LET w == Message(at[r].video, Feed[i]) IN
            Feed[i].kind # Unknown => w.id \in DOMAIN docs /\ docs[w.id] = w.data

\* The offline message of a video says that it ended: it is there before the
\* end only if YouTube did not say what the video was.  The state is well-formed.
OfflineInv ==
    /\ TypeOK
    /\ \A v \in Video : State(v, "offline").id \in DOMAIN docs =>
          air[v] = "ended" \/ v \in guessed

\* A lease that has not expired is taken away only by its owner or its crash:
\* a reader that has lost it does not release another's.
LeaseKept ==
    [][lease.owner # None /\ ~lease.expired /\ lease'.owner # lease.owner =>
          \E r \in Readers : r = lease.owner /\ at[r].pc # "idle" /\ at'[r] = Idle]_vars

\* A live stream is announced, whoever reads it.
LiveShown ==
    \A v \in Video :
        air[v] = "live" ~> (State(v, "online").id \in DOMAIN docs \/ air[v] = "ended")

\* Once nothing is on air the channel stays offline, although writes of readers
\* that are gone may land late.
EndShown == <>[]((\A v \in Video : air[v] \in {"none", "ended"}) => channel = None)
=============================================================================
