-------------------------- MODULE ChatReaders_proofs --------------------------
(***************************************************************************)
(* The readers of chats.  One that reads YouTube skips nothing, whoever    *)
(* has the channel's lease: proofs for any number of clients, videos and   *)
(* faults and any chat that satisfies ReaderAssumption.  One that joins a  *)
(* Twitch channel does so through a gate that spaces logins: proofs for    *)
(* any number of calls, replicas, attempts and shutdowns.                  *)
(***************************************************************************)
EXTENDS YouTubeReader, IRCJoin, FiniteSetTheorems, TLAPS

Record == [pc : PCs, alive : BOOLEAN, video : 0..Videos, pos : 0..Len(Feed),
           online : BOOLEAN, meta : {"off", "wait", "live", "merge"}]

\* The constants, in the form in which the steps need them.
LEMMA Numbers ==
    /\ Videos \in Nat /\ Len(Feed) \in Nat /\ MaxFaults \in Nat
    /\ \A v \in Video : v \in 0..Videos
    /\ \A n \in 1..Len(Feed) :
          /\ Feed[n].kind \in {"message", "tombstone", Unknown}
          /\ Feed[n].id \in 0..Len(Feed)
    /\ None \notin Readers /\ None \notin Video
    /\ \A i \in DocIDs : i # None
    /\ Idle \in Record /\ Searching \in Record
    /\ Idle.pc = "idle" /\ ~Idle.online /\ Idle.pos = 0 /\ Idle.meta = "off"
    /\ Searching.pc = "discover" /\ ~Searching.online /\ Searching.pos = 0
    /\ Searching.meta = "off"
<1>1. /\ Videos \in Nat /\ Len(Feed) \in Nat /\ MaxFaults \in Nat
      /\ None \notin Readers /\ None \notin Video
      /\ \A i \in DocIDs : i # None
  BY ReaderAssumption
<1>2. \A v \in Video : v \in 0..Videos
  BY <1>1 DEF Video
<1>3. \A n \in 1..Len(Feed) :
          Feed[n] \in [kind : {"message", "tombstone", Unknown}, id : 1..Len(Feed)]
  <2> DEFINE Actions == [kind : {"message", "tombstone", Unknown}, id : 1..Len(Feed)]
  <2>1. Feed \in Seq(Actions)
    BY ReaderAssumption
  <2> HIDE DEF Actions
  <2>2. \A n \in 1..Len(Feed) : Feed[n] \in Actions
    BY <2>1
  <2> QED BY <2>2 DEF Actions
<1>4. Idle \in Record /\ Searching \in Record
  <2>1. 0 \in 0..Videos /\ 0 \in 0..Len(Feed)
    BY <1>1
  <2> QED BY <2>1 DEF Idle, Searching, Record, PCs
<1> QED BY <1>1, <1>2, <1>3, <1>4 DEF Idle, Searching

\* A document's id is a video, a number and the kind of its content.
LEMMA Identifiers ==
    /\ \A v \in Video, n \in 0..Len(Feed),
          k \in {"message", "tombstone", "online", "offline"} :
          <<v, n, k>> \in DocIDs /\ <<v, n, k>>[1] = v /\ <<v, n, k>>[3] = k
    /\ \A i \in DocIDs : i[1] \in Video /\ i = <<i[1], i[2], i[3]>>
  BY DEF DocIDs
-----------------------------------------------------------------------------
\* A video that may be called ended.
Ended(v) == air[v] = "ended" \/ v \in guessed

\* Where a reader is, it has a video; one that it calls online was live, and one
\* that it calls offline has ended.
Place(r) ==
    /\ at[r].pc \in {"open", "online", "merge", "chat", "confirm", "offline"} =>
          at[r].video \in Video
    /\ at[r].pc # "chat" => at[r].pos = 0
    /\ at[r].online => at[r].video \in Video
                       /\ (air[at[r].video] = "live" \/ Ended(at[r].video))
    /\ at[r].pc = "discover" => ~at[r].online
    /\ at[r].pc = "confirm" => at[r].online
    /\ at[r].pc = "offline" => Ended(at[r].video)

\* The actions that a reader has passed.
Passed(r) ==
    at[r].pc = "chat" =>
        \A i \in 1..at[r].pos :
            LET w == Message(at[r].video, Feed[i]) IN
            Feed[i].kind # Unknown => w.id \in DOMAIN docs /\ docs[w.id] = w.data

\* A document has the content that its id names.
Right(i) == i[3] = "offline" => Ended(i[1])
Docs == \A i \in DOMAIN docs : i \in DocIDs /\ docs[i] = i[3] /\ Right(i)

\* A write does what it may, whenever it lands.
Good(w) ==
    \/ w.id = None /\ w.data \in Video \cup {None}
    \/ w.id \in DocIDs /\ w.data = w.id[3] /\ Right(w.id)
Flights == (flight = {} \/ \E w : flight = {w}) /\ \A w \in flight : Good(w)

IndInv == TypeOK /\ (\A r \in Readers : Place(r) /\ Passed(r)) /\ Docs /\ Flights

\* What a reader is about to write is right.
LEMMA WritesGood ==
    ASSUME IndInv, NEW r \in Readers
    PROVE  \A w \in MainWrite(r) \cup MetaWrite(r) : Good(w)
<1> USE DEF IndInv
<1>0. at[r] \in Record /\ Place(r)
  BY DEF TypeOK, Record
<1>00. 0 \in 0..Len(Feed)
  BY Numbers
<1>1. \A v \in Video : Good(State(v, "online"))
  <2> TAKE v \in Video
  <2>1. State(v, "online").id = <<v, 0, "online">> /\ State(v, "online").data = "online"
    BY DEF State
  <2>2. /\ <<v, 0, "online">> \in DocIDs /\ <<v, 0, "online">>[1] = v
        /\ <<v, 0, "online">>[3] = "online"
    BY <1>00 DEF DocIDs
  <2> QED BY <2>1, <2>2 DEF Good, Right
<1>2. \A v \in Video : Ended(v) => Good(State(v, "offline"))
  <2> TAKE v \in Video
  <2>1. State(v, "offline").id = <<v, 0, "offline">> /\ State(v, "offline").data = "offline"
    BY DEF State
  <2>2. /\ <<v, 0, "offline">> \in DocIDs /\ <<v, 0, "offline">>[1] = v
        /\ <<v, 0, "offline">>[3] = "offline"
    BY <1>00 DEF DocIDs
  <2> QED BY <2>1, <2>2 DEF Good, Right
<1>3. \A v \in Video \cup {None} : Good(Fields(v))
  BY DEF Good, Fields
<1>4. Good(Current(r))
  BY <1>0, <1>3 DEF Current, Place
<1>5. \A w \in MetaWrite(r) : Good(w)
  <2>1. at[r].meta # "off" => at[r].video \in Video
    BY <1>0 DEF TypeOK, Place
  <2> QED BY <1>0, <1>1, <1>4, <2>1 DEF MetaWrite, Record
<1>6. ASSUME Read(r), NextAction(r).kind # Unknown
      PROVE  Good(Message(at[r].video, NextAction(r)))
  <2>1. at[r].video \in Video /\ at[r].pos + 1 \in 1..Len(Feed)
    BY <1>0, <1>6, Numbers DEF Read, Place, TypeOK, Record
  <2>2. /\ NextAction(r).kind \in {"message", "tombstone"}
        /\ NextAction(r).id \in 0..Len(Feed)
    BY <1>6, <2>1, Numbers DEF NextAction
  <2> QED BY <2>1, <2>2, Identifiers DEF Good, Message, DocID, Right
<1>7. \A w \in MainWrite(r) : Good(w)
  <2>1. CASE at[r].pc = "online"
    BY <1>0, <1>1, <2>1 DEF MainWrite, Place
  <2>2. CASE at[r].pc = "offline"
    BY <1>0, <1>2, <2>2 DEF MainWrite, Place
  <2>3. CASE at[r].pc = "merge"
    BY <1>4, <2>3 DEF MainWrite
  <2>4. CASE at[r].pc = "clear"
    BY <1>3, <2>4 DEF MainWrite
  <2>5. CASE at[r].pc \notin {"online", "offline", "merge", "clear"}
    BY <1>6, <2>5 DEF MainWrite
  <2> QED BY <2>1, <2>2, <2>3, <2>4, <2>5
<1> QED BY <1>5, <1>7
-----------------------------------------------------------------------------
\* Documents stay as they are, and what has been live stays so or ends.
Grows == \A i \in DOMAIN docs : i \in DOMAIN docs' /\ docs'[i] = docs[i]
Later ==
    \A v \in Video : /\ Ended(v) => Ended(v)'
                     /\ air[v] = "live" => air'[v] = "live" \/ Ended(v)'

\* A step that leaves a reader alone does not spoil what it has.
LEMMA Elsewhere ==
    ASSUME TypeOK, NEW r \in Readers, Place(r), Passed(r), Grows, Later, at'[r] = at[r]
    PROVE  Place(r)' /\ Passed(r)'
<1>1. Place(r)'
  BY DEF Place, Later
<1>2. Passed(r)'
  BY DEF Passed, Grows, Message, DocID
<1> QED BY <1>1, <1>2

\* Documents that are right stay right, ...
LEMMA DocsLater ==
    ASSUME Docs, Later, docs' = docs
    PROVE  Docs' /\ Grows
  BY Identifiers DEF Docs, Later, Right, Grows

\* ... and so do the writes on their way, ...
LEMMA FlightsLater ==
    ASSUME Flights, Later, flight' = flight \/ flight' = {}
    PROVE  Flights'
<1>1. ASSUME NEW w \in flight PROVE Good(w)'
  BY Identifiers DEF Flights, Good, Right, Later
<1> QED BY <1>1 DEF Flights

\* ... also when another one is abandoned.
LEMMA FlightsAbandoned ==
    ASSUME Flights, NEW W, \A w \in W : Good(w), Abandon(W),
           air' = air, guessed' = guessed
    PROVE  Flights'
<1>1. \A w : Good(w) => Good(w)'
  BY DEF Good, Right, Ended
<1> QED BY <1>1 DEF Flights, Abandon

\* A write keeps what is there, and its document is there then.
LEMMA Applied ==
    ASSUME Docs, NEW w, Good(w), Apply(w), channel \in Video \cup {None},
           air' = air, guessed' = guessed
    PROVE  /\ Docs' /\ Grows
           /\ channel' \in Video \cup {None}
           /\ w.id \in DocIDs => w.id \in DOMAIN docs' /\ docs'[w.id] = w.id[3]
<1>0. \A i : Right(i)' <=> Right(i)
  BY DEF Right, Ended
<1>1. CASE w.id = None
  <2>1. docs' = docs /\ channel' = w.data /\ w.data \in Video \cup {None}
    BY <1>1, Numbers DEF Apply, Good
  <2> QED BY <1>0, <1>1, <2>1, Numbers DEF Docs, Grows
<1>2. CASE w.id # None
  <2>1. /\ docs' = Created(w) /\ channel' = channel
        /\ w.id \in DocIDs /\ w.data = w.id[3] /\ Right(w.id)
    BY <1>2 DEF Apply, Good
  <2>2. CASE w.id \in DOMAIN docs
    <3>1. docs' = docs
      BY <2>1, <2>2 DEF Created
    <3> QED BY <1>0, <2>1, <2>2, <3>1 DEF Docs, Grows
  <2>3. CASE w.id \notin DOMAIN docs
    <3>1. docs' = [i \in DOMAIN docs \cup {w.id} |->
                     IF i = w.id THEN w.data ELSE docs[i]]
      BY <2>1, <2>3 DEF Created
    <3> QED BY <1>0, <2>1, <2>3, <3>1 DEF Docs, Grows
  <2> QED BY <2>2, <2>3
<1> QED BY <1>1, <1>2

\* What a step that moves one reader has to keep.
LEMMA Moved ==
    ASSUME IndInv, TypeOK', NEW r \in Readers, Place(r)', Passed(r)',
           \A s \in Readers \ {r} : at'[s] = at[s],
           Grows, Later, Docs', Flights'
    PROVE  IndInv'
  BY Elsewhere DEF IndInv

\* Air and chat are not a reader's to change.
LEMMA Still == ASSUME air' = air, guessed' = guessed PROVE Later
  BY DEF Later, Ended
-----------------------------------------------------------------------------
\* One write at most is on its way.
LEMMA FewFlights ==
    ASSUME NEW F, F = {} \/ \E w : F = {w}
    PROVE  Cardinality(F) <= 1
<1>1. CASE F = {}
  BY <1>1, FS_EmptySet
<1>2. ASSUME NEW w, F = {w} PROVE Cardinality(F) = 1
  BY <1>2, FS_Singleton
<1> QED BY <1>1, <1>2

Leases == [owner : Readers \cup {None, Left}, expired : BOOLEAN]

\* The leases that steps write.
LEMMA LeaseTypes ==
    /\ \A r \in Readers \cup {None, Left} : [owner |-> r, expired |-> FALSE] \in Leases
    /\ \A l \in Leases : /\ [l EXCEPT !.expired = TRUE] \in Leases
                         /\ [l EXCEPT !.owner = Left] \in Leases
                         /\ l.owner \in Readers \cup {None, Left}
  BY DEF Leases

\* The types of what a step of a reader leaves, but for the messages' store.
Typed(r) ==
    /\ lease' \in Leases
    /\ at' \in [Readers -> Record]
    /\ at'[r].meta # "off" => at'[r].pc = "chat"
    /\ \A s \in Readers \ {r} : at'[s] = at[s]
    /\ guessed' \subseteq Video /\ faults' \in 0..MaxFaults

\* A step of a reader that writes no message.
LEMMA Silent ==
    ASSUME IndInv, NEW r \in Readers, UNCHANGED <<youtube, docs, channel>>,
           Typed(r), Place(r)', Passed(r)', Later, Flights'
    PROVE  IndInv'
<1>1. Docs' /\ Grows
  BY DocsLater DEF IndInv
<1>2. Cardinality(flight') <= 1
  BY FewFlights DEF Flights
<1>3. TypeOK'
  BY <1>2 DEF Typed, TypeOK, IndInv, youtube, Record, Leases
<1> QED BY <1>1, <1>3, Moved DEF Typed

\* The lease is taken, renewed, lost and given up.
LEMMA LeaseStep ==
    ASSUME IndInv, NEW r \in Readers,
           Acquire(r) \/ Renew(r) \/ Cancel(r) \/ Release(r)
    PROVE  IndInv'
<1> USE Numbers, LeaseTypes DEF IndInv
<1>0. Later
  BY Still DEF Acquire, Renew, Cancel, Release, youtube
<1>1. Flights'
  BY <1>0, FlightsLater DEF Acquire, Renew, Cancel, Release, store
<1>2. /\ Place(r) /\ Passed(r) /\ at[r] \in Record /\ at \in [Readers -> Record]
      /\ at[r].meta # "off" => at[r].pc = "chat"
      /\ lease \in Leases /\ guessed \subseteq Video /\ faults \in 0..MaxFaults
  BY DEF TypeOK, Record, Leases
<1>3. ASSUME at'[r] = at[r] PROVE Place(r)' /\ Passed(r)'
  <2>1. Grows
    BY DEF Acquire, Renew, Cancel, Release, store, Grows
  <2> QED BY <1>0, <1>2, <1>3, <2>1, Elsewhere
<1>4. CASE Acquire(r)
  <2>1. Typed(r) /\ at'[r] = Searching
    BY <1>2, <1>4 DEF Acquire, Taken, Typed
  <2>2. Place(r)' /\ Passed(r)'
    BY <2>1 DEF Place, Passed
  <2> QED BY <1>0, <1>1, <1>4, <2>1, <2>2, Silent DEF Acquire, store
<1>5. ASSUME Renew(r) \/ Cancel(r) PROVE IndInv'
  <2>0. /\ [at[r] EXCEPT !.alive = FALSE] \in Record
        /\ [at[r] EXCEPT !.alive = FALSE].meta = at[r].meta
        /\ [at[r] EXCEPT !.alive = FALSE].pc = at[r].pc
    BY <1>2 DEF Record
  <2>1. Typed(r) /\ (at'[r] = at[r] \/ at'[r] = [at[r] EXCEPT !.alive = FALSE])
    <3>1. CASE Renew(r)
      <4>1. CASE Taken(r) /\ UNCHANGED at
        BY <1>2, <3>1, <4>1 DEF Renew, Taken, Typed
      <4>2. CASE at' = [at EXCEPT ![r].alive = FALSE] /\ UNCHANGED lease
        BY <1>2, <2>0, <3>1, <4>2 DEF Renew, Typed
      <4> QED BY <3>1, <4>1, <4>2 DEF Renew
    <3>2. CASE Cancel(r)
      BY <1>2, <2>0, <3>2 DEF Cancel, Typed
    <3> QED BY <1>5, <3>1, <3>2
  <2>2. Place(r)' /\ Passed(r)'
    <3>1. CASE at'[r] = at[r]
      BY <1>3, <3>1
    <3>2. CASE at'[r] = [at[r] EXCEPT !.alive = FALSE]
      <4>1. /\ at'[r].pc = at[r].pc /\ at'[r].video = at[r].video
            /\ at'[r].pos = at[r].pos /\ at'[r].online = at[r].online
        BY <1>2, <3>2 DEF Record
      <4>3. air' = air /\ docs' = docs /\ guessed' = guessed
        BY <1>5 DEF Renew, Cancel, youtube, store
      <4>4. Place(r)'
        BY <1>2, <4>1, <4>3 DEF Place, Ended
      <4> QED BY <1>2, <4>1, <4>3, <4>4 DEF Passed
    <3> QED BY <2>1, <3>1, <3>2
  <2> QED BY <1>0, <1>1, <1>5, <2>1, <2>2, Silent DEF Renew, Cancel, store
<1>6. CASE Release(r)
  <2>1. Typed(r) /\ at'[r] = Idle
    BY <1>2, <1>6 DEF Release, Typed
  <2>2. Place(r)' /\ Passed(r)'
    BY <2>1 DEF Place, Passed
  <2> QED BY <1>0, <1>1, <1>6, <2>1, <2>2, Silent DEF Release, store
<1> QED BY <1>4, <1>5, <1>6
-----------------------------------------------------------------------------
\* What a reader has, in the form in which its steps need it.
LEMMA Reader ==
    ASSUME IndInv, NEW r \in Readers
    PROVE  /\ Place(r) /\ Passed(r) /\ at[r] \in Record /\ at \in [Readers -> Record]
           /\ at[r].meta # "off" => at[r].pc = "chat"
           /\ lease \in Leases /\ guessed \subseteq Video /\ faults \in 0..MaxFaults
           /\ channel \in Video \cup {None} /\ Docs /\ Flights
           /\ at[r].pc \in PCs /\ at[r].pos \in 0..Len(Feed)
           /\ at[r].video \in Video => chat[at[r].video] \in 0..Len(Feed)
  BY DEF IndInv, TypeOK, Record, Leases

\* A video is found, or none; its chat cannot be opened; its metadata follow.
LEMMA FindStep ==
    ASSUME IndInv, NEW r \in Readers, Discover(r) \/ Reopen(r) \/ MetaUpdate(r)
    PROVE  IndInv'
<1> USE Numbers
<1>0. Later
  BY Still DEF Discover, Reopen, MetaUpdate, youtube
<1>1. Flights'
  BY <1>0, FlightsLater, Reader DEF Discover, Reopen, MetaUpdate, store
<1>2. air' = air /\ guessed' = guessed /\ docs' = docs /\ lease' = lease /\ faults' = faults
  BY DEF Discover, Reopen, MetaUpdate, youtube, store
<1>3. Typed(r) /\ Place(r)' /\ Passed(r)'
  <2>1. CASE Discover(r)
    <3>1. PICK x \in Record :
            /\ at' = [at EXCEPT ![r] = x]
            /\ x.pos = at[r].pos /\ x.online = at[r].online /\ x.meta = at[r].meta
            /\ x.pc \in {"open", "clear"}
            /\ x.pc = "open" => x.video \in Video
            /\ x.pc = "clear" => x.video = at[r].video
      <4>1. CASE \E v \in Airing : at' = [at EXCEPT ![r].pc = "open", ![r].video = v]
        <5>1. PICK v \in Airing : at' = [at EXCEPT ![r].pc = "open", ![r].video = v]
          BY <4>1
        <5>2. v \in Video
          BY DEF Airing
        <5>3. [at[r] EXCEPT !.pc = "open", !.video = v] \in Record
          BY <5>2, Reader DEF Record, PCs
        <5> QED BY <5>1, <5>2, <5>3, Reader DEF Record
      <4>2. CASE at' = [at EXCEPT ![r].pc = Offline]
        <5>1. [at[r] EXCEPT !.pc = "clear"] \in Record
          BY Reader DEF Record, PCs
        <5> QED BY <4>2, <5>1, Reader DEF Record, Offline
      <4> QED BY <2>1, <4>1, <4>2 DEF Discover
    <3>2. at[r].pc = "discover"
      BY <2>1 DEF Discover
    <3>3. ~at[r].online /\ at[r].meta = "off" /\ at[r].pos = 0
      BY <3>2, Reader DEF Place
    <3>4. Typed(r) /\ at'[r] = x
      BY <1>2, <3>1, <3>2, Reader DEF Typed
    <3> QED BY <1>2, <3>1, <3>2, <3>4, Reader DEF Place, Passed
  <2>2. CASE Reopen(r)
    <3>1. at' = [at EXCEPT ![r] = Searching]
      BY <2>2 DEF Reopen, Go
    <3>2. Typed(r) /\ at'[r] = Searching
      BY <1>2, <3>1, Reader DEF Typed
    <3> QED BY <3>2 DEF Place, Passed
  <2>3. CASE MetaUpdate(r)
    <3>1. at[r].pc = "chat" /\ at[r].video \in Video
      BY <2>3, Reader DEF MetaUpdate, Place
    <3>2. PICK x \in Record :
            /\ at' = [at EXCEPT ![r] = x]
            /\ x.pos = at[r].pos /\ x.pc = "chat" /\ x.video = at[r].video
            /\ x.online => at[r].online \/ air[at[r].video] = "live"
      <4>1. CASE WentLive(r)
        <5>1. [at[r] EXCEPT !.meta = "live", !.online = TRUE] \in Record
          BY Reader DEF Record
        <5> QED BY <2>3, <3>1, <4>1, <5>1, Reader DEF MetaUpdate, WentLive, Record
      <4>2. CASE ~WentLive(r)
        <5>1. [at[r] EXCEPT !.meta = "merge"] \in Record
          BY Reader DEF Record
        <5> QED BY <2>3, <3>1, <4>2, <5>1, Reader DEF MetaUpdate, Record
      <4> QED BY <4>1, <4>2
    <3>3. Typed(r) /\ at'[r] = x
      BY <1>2, <3>2, Reader DEF Typed
    <3>4. Place(r)'
      BY <1>2, <3>1, <3>2, <3>3, Reader DEF Place, Ended
    <3> QED BY <1>2, <3>1, <3>2, <3>3, <3>4, Reader DEF Passed
  <2> QED BY <2>1, <2>2, <2>3
<1> QED BY <1>0, <1>1, <1>3, Silent DEF Discover, Reopen, MetaUpdate, store
\* A guess adds a video, or what was guessed is known.
LEMMA Guessing ==
    ASSUME IndInv, NEW known \in BOOLEAN, NEW v \in Video, NEW said, Guess(known, v, said),
           air' = air
    PROVE  /\ Later /\ guessed' \subseteq Video
           /\ known \/ said \/ v \in guessed'
<1>1. guessed' = guessed \/ guessed' = guessed \cup {v}
  BY DEF Guess
<1>2. guessed \subseteq guessed' /\ guessed' \subseteq Video
  BY <1>1 DEF IndInv, TypeOK
<1>3. known \/ said \/ v \in guessed'
  BY DEF Guess
<1> QED BY <1>2, <1>3 DEF Later, Ended

\* A video is opened; a chat that has stopped is looked at.
LEMMA AskStep ==
    ASSUME IndInv, NEW r \in Readers, Open(r) \/ Confirm(r)
    PROVE  IndInv'
<1> USE Numbers
<1>2. air' = air /\ docs' = docs /\ lease' = lease /\ faults' = faults
      /\ flight' = flight /\ UNCHANGED <<youtube, docs, channel>>
  BY DEF Open, Confirm, youtube, store
<1>3. at[r].video \in Video
  BY Reader DEF Open, Confirm, Go, Place
<1>4. CASE Open(r)
  <2>1. PICK known \in BOOLEAN :
          LET live == known => air[at[r].video] = "live" IN
          /\ at' = [at EXCEPT ![r].online = live,
                              ![r].pc = IF live THEN "online" ELSE "merge"]
          /\ Guess(known, at[r].video, air[at[r].video] = "live")
    BY <1>4 DEF Open
  <2>2. /\ Later /\ guessed' \subseteq Video
        /\ known \/ air[at[r].video] = "live" \/ at[r].video \in guessed'
    BY <1>2, <1>3, <2>1, Guessing
  <2> DEFINE live == known => air[at[r].video] = "live"
             x == [at[r] EXCEPT !.online = live,
                                !.pc = IF live THEN "online" ELSE "merge"]
  <2>3. live \in BOOLEAN /\ x \in Record /\ at' = [at EXCEPT ![r] = x]
        /\ x.pos = at[r].pos /\ x.meta = at[r].meta /\ x.video = at[r].video
        /\ x.online = live /\ x.pc \in {"online", "merge"}
    BY <2>1, Reader DEF Record, PCs
  <2>4. at[r].pc = "open"
    BY <1>4 DEF Open
  <2> HIDE DEF x
  <2>5. Typed(r) /\ at'[r] = x
    BY <1>2, <2>2, <2>3, <2>4, Reader DEF Typed
  <2>6. Place(r)' /\ Passed(r)'
    BY <1>2, <1>3, <2>2, <2>3, <2>4, <2>5, Reader DEF Place, Passed, Ended
  <2>7. Flights'
    BY <1>2, <2>2, FlightsLater, Reader
  <2> QED BY <1>2, <2>2, <2>5, <2>6, <2>7, Silent
<1>5. CASE Confirm(r)
  <2>1. PICK known \in BOOLEAN :
          /\ Go(r, "confirm", IF known /\ StillLive(at[r].video)
                              THEN "discover" ELSE "offline")
          /\ Guess(known, at[r].video, air[at[r].video] = "ended")
    BY <1>5 DEF Confirm
  <2>2. /\ Later /\ guessed' \subseteq Video
        /\ known \/ air[at[r].video] = "ended" \/ at[r].video \in guessed'
    BY <1>2, <1>3, <2>1, Guessing
  <2>3. at[r].pc = "confirm" /\ at[r].online
    BY <2>1, Reader DEF Go, Place
  <2>4. Flights'
    BY <1>2, <2>2, FlightsLater, Reader
  <2>5. CASE known /\ StillLive(at[r].video)
    <3>1. at' = [at EXCEPT ![r] = Searching]
      BY <2>1, <2>5 DEF Go
    <3>2. Typed(r) /\ at'[r] = Searching
      BY <1>2, <2>2, <3>1, Reader DEF Typed
    <3>3. Place(r)' /\ Passed(r)'
      BY <3>2 DEF Place, Passed
    <3> QED BY <1>2, <2>2, <2>4, <3>2, <3>3, Silent
  <2>6. CASE ~(known /\ StillLive(at[r].video))
    <3> DEFINE x == [at[r] EXCEPT !.pc = "offline"]
    <3>1. x \in Record /\ at' = [at EXCEPT ![r] = x]
          /\ x.pos = at[r].pos /\ x.meta = at[r].meta /\ x.video = at[r].video
          /\ x.online = at[r].online /\ x.pc = "offline"
      BY <2>1, <2>6, Reader DEF Record, PCs, Go
    <3> HIDE DEF x
    <3>2. Typed(r) /\ at'[r] = x
      BY <1>2, <2>2, <2>3, <3>1, Reader DEF Typed
    <3>3. Ended(at[r].video)' /\ at'[r].video = at[r].video
      <4>1. air[at[r].video] = "live" \/ Ended(at[r].video)
        BY <2>3, Reader DEF Place
      <4>2. guessed \subseteq guessed'
        BY <2>1 DEF Guess
      <4>3. known => Ended(at[r].video)
        BY <2>6, <4>1 DEF StillLive
      <4>4. known => air[at[r].video] = "ended" \/ at[r].video \in guessed'
        BY <4>2, <4>3 DEF Ended
      <4> QED BY <1>2, <2>2, <3>1, <3>2, <4>4 DEF Ended
    <3>4. Place(r)' /\ Passed(r)'
      BY <1>2, <1>3, <2>3, <3>1, <3>2, <3>3, Reader DEF Place, Passed
    <3> QED BY <1>2, <2>2, <2>4, <3>2, <3>4, Silent
  <2> QED BY <2>5, <2>6
<1> QED BY <1>4, <1>5
\* A reader leaves, its replica crashes, or the chat ends: what it was writing
\* may land later.
LEMMA LeaveStep ==
    ASSUME IndInv, NEW r \in Readers, Leave(r) \/ Crash(r) \/ ChatEnds(r)
    PROVE  IndInv'
<1> USE Numbers, LeaseTypes
<1>1. /\ air' = air /\ docs' = docs /\ guessed' = guessed
      /\ UNCHANGED <<youtube, docs, channel>>
  BY DEF Leave, Crash, ChatEnds, youtube
<1>2. Later
  BY <1>1, Still
<1>3. Flights'
  BY <1>1, WritesGood, FlightsAbandoned, Reader DEF Leave, Crash, ChatEnds
<1>4. CASE Leave(r)
  <2> DEFINE x == [Idle EXCEPT !.pc = "release"]
  <2>1. x \in Record /\ x.pc = "release" /\ x.pos = 0 /\ ~x.online /\ x.meta = "off"
    BY DEF Record, PCs, Idle
  <2>2. at' = [at EXCEPT ![r] = x] /\ lease' = lease /\ faults' = faults
    BY <1>4 DEF Leave
  <2> HIDE DEF x
  <2>3. Typed(r) /\ at'[r] = x
    BY <1>1, <2>1, <2>2, Reader DEF Typed
  <2>4. Place(r)' /\ Passed(r)'
    BY <2>1, <2>3 DEF Place, Passed
  <2> QED BY <1>1, <1>2, <1>3, <2>3, <2>4, Silent
<1>5. CASE Crash(r)
  <2>1. faults' \in 0..MaxFaults
    BY <1>5, Reader DEF Crash
  <2>2. at' = [at EXCEPT ![r] = Idle]
        /\ (lease' = lease \/ lease' = [lease EXCEPT !.owner = Left])
    BY <1>5 DEF Crash
  <2>5. lease' \in Leases
    BY <2>2, Reader DEF Leases
  <2>3. Typed(r) /\ at'[r] = Idle
    BY <1>1, <2>1, <2>2, <2>5, Reader DEF Typed
  <2>4. Place(r)' /\ Passed(r)'
    BY <2>3 DEF Place, Passed
  <2> QED BY <1>1, <1>2, <1>3, <2>3, <2>4, Silent
<1>6. CASE ChatEnds(r)
  <2> DEFINE x == [at[r] EXCEPT !.meta = "off", !.pos = 0,
                                !.pc = IF at[r].online THEN "confirm" ELSE "clear"]
  <2>1. /\ x \in Record /\ x.pos = 0 /\ x.meta = "off" /\ x.online = at[r].online
        /\ x.video = at[r].video /\ x.pc \in {"confirm", "clear"}
        /\ x.pc = "confirm" => x.online
    BY Reader DEF Record, PCs
  <2>2. at' = [at EXCEPT ![r] = x] /\ lease' = lease /\ faults' = faults
    BY <1>6, Reader DEF ChatEnds, MetadataJoined, Record
  <2>3. at[r].pc = "chat"
    BY <1>6 DEF ChatEnds
  <2> HIDE DEF x
  <2>4. Typed(r) /\ at'[r] = x
    BY <1>1, <2>1, <2>2, Reader DEF Typed
  <2>5. Place(r)' /\ Passed(r)'
    BY <1>1, <2>1, <2>3, <2>4, Reader DEF Place, Passed, Ended
  <2> QED BY <1>1, <1>2, <1>3, <2>4, <2>5, Silent
<1> QED BY <1>4, <1>5, <1>6
-----------------------------------------------------------------------------
\* A step of a reader that writes.
LEMMA Writing ==
    ASSUME IndInv, NEW r \in Readers, NEW w, Good(w), Apply(w),
           UNCHANGED <<youtube, flight, guessed>>, Typed(r), Place(r)', Passed(r)'
    PROVE  IndInv'
<1>1. air' = air /\ guessed' = guessed
  BY DEF youtube
<1>2. Later
  BY <1>1, Still
<1>3. Docs' /\ Grows /\ channel' \in Video \cup {None}
  BY <1>1, Applied, Reader
<1>4. Flights'
  BY <1>2, FlightsLater, Reader
<1>5. Cardinality(flight') <= 1
  BY <1>4, FewFlights DEF Flights
<1>6. TypeOK'
  BY <1>3, <1>5 DEF Typed, TypeOK, IndInv, youtube, Record, Leases, Docs
<1> QED BY <1>2, <1>3, <1>4, <1>6, Moved DEF Typed

\* The messages and fields that session writes, and the metadata's.
LEMMA SessionStep ==
    ASSUME IndInv, NEW r \in Readers,
           WriteOnline(r) \/ WriteOffline(r) \/ WriteClear(r) \/ WriteChannel(r)
             \/ MetaWrites(r)
    PROVE  IndInv'
<1> USE Numbers
<1>1. /\ air' = air /\ guessed' = guessed /\ lease' = lease /\ faults' = faults
      /\ UNCHANGED <<youtube, flight, guessed>>
  BY DEF WriteOnline, WriteOffline, WriteClear, WriteChannel, MetaWrites, Write, youtube
<1>2. \E w : Good(w) /\ Apply(w)
  <2>1. ASSUME MetaWrites(r) PROVE \E w \in MetaWrite(r) : Apply(w)
    BY <2>1 DEF MetaWrites, MetaWrite
  <2>2. ASSUME ~MetaWrites(r) PROVE \E w \in MainWrite(r) : Apply(w)
    BY <2>2 DEF WriteOnline, WriteOffline, WriteClear, WriteChannel, Write, Go, MainWrite
  <2> QED BY <2>1, <2>2, WritesGood
<1>3. Grows
  BY <1>1, <1>2, Applied, Reader
<1>4. CASE MetaWrites(r)
  <2> DEFINE x == [at[r] EXCEPT !.meta = IF at[r].meta = "live" THEN "merge" ELSE "wait"]
  <2>1. /\ x \in Record /\ x.pos = at[r].pos /\ x.online = at[r].online
        /\ x.video = at[r].video /\ x.pc = at[r].pc
    BY Reader DEF Record
  <2>2. at' = [at EXCEPT ![r] = x] /\ at[r].pc = "chat"
    BY <1>4, Reader DEF MetaWrites
  <2> HIDE DEF x
  <2>3. Typed(r) /\ at'[r] = x
    BY <1>1, <2>1, <2>2, Reader DEF Typed
  <2>4. Place(r)'
    BY <1>1, <2>1, <2>3, Reader DEF Place, Ended
  <2>5. Passed(r)'
    <3>1. at'[r].pos = at[r].pos /\ at'[r].video = at[r].video /\ at'[r].pc = at[r].pc
      BY <2>1, <2>3
    <3>2. SUFFICES ASSUME NEW i \in 1..at[r].pos, Feed[i].kind # Unknown
                   PROVE  LET w == Message(at[r].video, Feed[i]) IN
                          w.id \in DOMAIN docs' /\ docs'[w.id] = w.data
      BY <3>1 DEF Passed
    <3>3. LET w == Message(at[r].video, Feed[i]) IN
          w.id \in DOMAIN docs /\ docs[w.id] = w.data
      BY <2>2, <3>2, Reader DEF Passed
    <3> QED BY <1>3, <3>3 DEF Grows
  <2> QED BY <1>1, <1>2, <2>3, <2>4, <2>5, Writing
<1>5. CASE WriteClear(r)
  <2>1. at' = [at EXCEPT ![r] = Searching]
    BY <1>5 DEF WriteClear, Write, Go
  <2>2. Typed(r) /\ at'[r] = Searching
    BY <1>1, <2>1, Reader DEF Typed
  <2>3. Place(r)' /\ Passed(r)'
    BY <2>2 DEF Place, Passed
  <2> QED BY <1>1, <1>2, <2>2, <2>3, Writing
<1>6. CASE WriteOnline(r) \/ WriteOffline(r) \/ WriteChannel(r)
  <2>1. PICK x \in Record :
          /\ at' = [at EXCEPT ![r] = x]
          /\ x.pos = at[r].pos /\ x.online = at[r].online /\ x.video = at[r].video
          /\ x.pc \in {"merge", "clear", "chat"}
          /\ x.pc # "chat" => x.meta = at[r].meta
          /\ x.pc \in {"merge", "chat"} => at[r].pc \in {"online", "merge"}
          /\ at[r].pc # "chat"
    <3>1. CASE WriteOnline(r)
      <4>1. [at[r] EXCEPT !.pc = "merge"] \in Record
        BY Reader DEF Record, PCs
      <4> QED BY <3>1, <4>1, Reader DEF WriteOnline, Write, Go, Record
    <3>2. CASE WriteOffline(r)
      <4>1. [at[r] EXCEPT !.pc = "clear"] \in Record
        BY Reader DEF Record, PCs
      <4> QED BY <3>2, <4>1, Reader DEF WriteOffline, Write, Go, Record
    <3>3. CASE WriteChannel(r)
      <4>1. [at[r] EXCEPT !.pc = "chat", !.meta = "wait"] \in Record
        BY Reader DEF Record, PCs
      <4> QED BY <3>3, <4>1, Reader DEF WriteChannel, Record
    <3> QED BY <1>6, <3>1, <3>2, <3>3
  <2>2. at[r].pos = 0 /\ at[r].meta = "off"
    BY <2>1, Reader DEF Place
  <2>3. Typed(r) /\ at'[r] = x
    BY <1>1, <2>1, <2>2, Reader DEF Typed
  <2>4. Place(r)'
    BY <1>1, <2>1, <2>2, <2>3, Reader DEF Place, Ended
  <2>5. Passed(r)'
    BY <2>1, <2>2, <2>3 DEF Passed
  <2> QED BY <1>1, <1>2, <2>3, <2>4, <2>5, Writing
<1> QED BY <1>4, <1>5, <1>6
\* The next action of the chat gets its document, or is not recognized.
LEMMA ActionStep ==
    ASSUME IndInv, NEW r \in Readers, WriteAction(r)
    PROVE  IndInv'
<1> USE Numbers
<1> DEFINE x == [at[r] EXCEPT !.pos = at[r].pos + 1]
           msg(i) == Message(at[r].video, Feed[i])
<1>1. /\ air' = air /\ guessed' = guessed /\ lease' = lease /\ faults' = faults
      /\ UNCHANGED <<youtube, flight, guessed>>
  BY DEF WriteAction, youtube
<1>2. at[r].pc = "chat" /\ at[r].video \in Video /\ at[r].pos + 1 \in 1..Len(Feed)
      /\ Read(r) /\ at[r].pos \in Nat
  BY Reader DEF WriteAction, Read, Place
<1>3. /\ x \in Record /\ x.pos = at[r].pos + 1 /\ x.online = at[r].online
      /\ x.video = at[r].video /\ x.pc = at[r].pc /\ x.meta = at[r].meta
  BY <1>2, Reader DEF Record
<1>4. at' = [at EXCEPT ![r] = x]
  BY <1>2, Reader DEF WriteAction
<1> HIDE DEF x
<1>5. Typed(r) /\ at'[r] = x
  BY <1>1, <1>2, <1>3, <1>4, Reader DEF Typed
<1>6. Place(r)'
  BY <1>1, <1>2, <1>3, <1>5, Reader DEF Place, Ended
<1>7. MainWrite(r) = IF Feed[at[r].pos + 1].kind # Unknown
                     THEN {msg(at[r].pos + 1)} ELSE {}
  BY <1>2 DEF MainWrite, NextAction
<1>8. \A i \in 1..at[r].pos : Feed[i].kind # Unknown =>
          msg(i).id \in DOMAIN docs /\ docs[msg(i).id] = msg(i).data
  BY <1>2, Reader DEF Passed
<1>9. ASSUME Grows, Feed[at[r].pos + 1].kind # Unknown =>
                      /\ msg(at[r].pos + 1).id \in DOMAIN docs'
                      /\ docs'[msg(at[r].pos + 1).id] = msg(at[r].pos + 1).data
      PROVE  Passed(r)'
  <2>1. SUFFICES ASSUME NEW i \in 1..(at[r].pos + 1), Feed[i].kind # Unknown
                 PROVE  msg(i).id \in DOMAIN docs' /\ docs'[msg(i).id] = msg(i).data
    BY <1>3, <1>5 DEF Passed
  <2>2. CASE i = at[r].pos + 1
    BY <1>9, <2>1, <2>2
  <2>3. CASE i # at[r].pos + 1
    <3>1. i \in 1..at[r].pos
      BY <1>2, <2>3
    <3> QED BY <1>8, <1>9, <2>1, <3>1 DEF Grows
  <2> QED BY <2>2, <2>3
<1>10. CASE Feed[at[r].pos + 1].kind = Unknown
  <2>1. UNCHANGED <<docs, channel>>
    BY <1>7, <1>10 DEF WriteAction
  <2>2. Later /\ Grows
    BY <1>1, <2>1, Still DEF Grows
  <2>3. Flights'
    BY <1>1, <2>2, FlightsLater, Reader
  <2>4. Passed(r)'
    BY <1>9, <1>10, <2>2
  <2> QED BY <1>1, <1>5, <1>6, <2>1, <2>2, <2>3, <2>4, Silent
<1>11. CASE Feed[at[r].pos + 1].kind # Unknown
  <2> DEFINE w == msg(at[r].pos + 1)
  <2>1. Apply(w) /\ w \in MainWrite(r)
    BY <1>7, <1>11 DEF WriteAction
  <2>2. Good(w)
    BY <2>1, WritesGood
  <2>3. w.id \in DocIDs /\ w.id[3] = w.data
    <3>1. /\ Feed[at[r].pos + 1].kind \in {"message", "tombstone"}
          /\ Feed[at[r].pos + 1].id \in 0..Len(Feed)
      BY <1>2, <1>11
    <3> QED BY <1>2, <3>1, Identifiers DEF Message, DocID
  <2>4. Grows /\ w.id \in DOMAIN docs' /\ docs'[w.id] = w.data
    <3> HIDE DEF w
    <3> QED BY <1>1, <2>1, <2>2, <2>3, Applied, Reader
  <2>5. Passed(r)'
    BY <1>9, <2>4
  <2> QED BY <1>1, <1>5, <1>6, <2>1, <2>2, <2>5, Writing
<1> QED BY <1>10, <1>11
-----------------------------------------------------------------------------
\* What happens without a reader: the video goes on, the lease expires, a late
\* write lands.
LEMMA WorldStep ==
    ASSUME IndInv, (\E v \in Video : Air(v) \/ Chat(v)) \/ Expire \/ Land
    PROVE  IndInv'
<1> USE Numbers
<1>0. at' = at /\ guessed' = guessed
  BY DEF Air, Chat, Expire, Land
<1>1. Later
  <2>1. ASSUME NEW v \in Video, Air(v) PROVE Later
    <3>1. PICK next : /\ air' = [air EXCEPT ![v] = next]
                      /\ air[v] = "live" => next = "ended"
                      /\ air[v] # "ended"
      BY <2>1 DEF Air
    <3> QED BY <1>0, <3>1 DEF Later, Ended, IndInv, TypeOK
  <2>2. ASSUME Expire \/ Land \/ \E v \in Video : Chat(v) PROVE Later
    BY <1>0, <2>2, Still DEF Expire, Land, Chat, youtube
  <2> QED BY <2>1, <2>2
<1>2. Docs' /\ Grows /\ channel' \in Video \cup {None}
  <2>1. CASE Land
    <3>1. PICK w \in flight : Apply(w)
      BY <2>1 DEF Land
    <3>2. Good(w) /\ Docs /\ channel \in Video \cup {None}
      BY DEF IndInv, Flights, TypeOK
    <3> QED BY <1>0, <2>1, <3>1, <3>2, Applied DEF Land, youtube
  <2>2. CASE ~Land
    <3>1. docs' = docs /\ channel' = channel
      BY <2>2 DEF Air, Chat, Expire, store
    <3> QED BY <1>1, <3>1, DocsLater DEF IndInv, TypeOK
  <2> QED BY <2>1, <2>2
<1>3. Flights'
  BY <1>1, FlightsLater DEF IndInv, Air, Chat, Expire, Land, store
<1>4. \A r \in Readers : Place(r)' /\ Passed(r)'
  BY <1>0, <1>1, <1>2, Elsewhere DEF IndInv
<1>5. TypeOK'
  <2>1. Cardinality(flight') <= 1
    BY <1>3, FewFlights DEF Flights
  <2>2. air' \in [Video -> {"none", "upcoming", "live", "ended"}]
    <3>1. ASSUME NEW v \in Video, Air(v)
          PROVE  air' \in [Video -> {"none", "upcoming", "live", "ended"}]
      <4>1. PICK next \in {"upcoming", "live", "ended"} : air' = [air EXCEPT ![v] = next]
        BY <3>1 DEF Air, IndInv, TypeOK
      <4> QED BY <4>1 DEF IndInv, TypeOK
    <3> QED BY <3>1 DEF IndInv, TypeOK, Chat, Expire, Land, youtube
  <2>3. chat' \in [Video -> 0..Len(Feed)]
    <3>1. Len(Feed) \in 0..Len(Feed)
      OBVIOUS
    <3> QED BY <3>1 DEF IndInv, TypeOK, Air, Chat, Expire, Land, youtube
  <2>4. lease' \in [owner : Readers \cup {None, Left}, expired : BOOLEAN]
    BY DEF IndInv, TypeOK, Air, Chat, Expire, Land
  <2>5. faults' \in 0..MaxFaults
    BY DEF IndInv, TypeOK, Air, Chat, Expire, Land
  <2> QED BY <1>0, <1>2, <2>1, <2>2, <2>3, <2>4, <2>5 DEF IndInv, TypeOK, Docs
<1> QED BY <1>2, <1>3, <1>4, <1>5 DEF IndInv
-----------------------------------------------------------------------------
\* The invariant the theorems rest on.
LEMMA Invariance == Spec => []IndInv
<1>1. Init => IndInv
  <2> SUFFICES ASSUME Init PROVE IndInv
    OBVIOUS
  <2>1. Docs /\ Flights
    BY DEF Init, Docs, Flights
  <2>2. TypeOK
    <3>1. Cardinality(flight) <= 1
      BY FewFlights DEF Init
    <3>2. 0 \in 0..Len(Feed) /\ 0 \in 0..MaxFaults
      BY Numbers
    <3> QED BY <2>1, <3>1, <3>2, Numbers DEF Init, TypeOK, Record, Docs
  <2>3. \A r \in Readers : at[r] = Idle
    BY DEF Init
  <2>4. \A r \in Readers : Place(r) /\ Passed(r)
    BY <2>3, Numbers DEF Place, Passed
  <2> QED BY <2>1, <2>2, <2>4 DEF IndInv
<1>2. IndInv /\ [Next]_vars => IndInv'
  <2> SUFFICES ASSUME IndInv, [Next]_vars PROVE IndInv'
    OBVIOUS
  <2>1. CASE UNCHANGED vars
    <3>1. Later /\ Grows
      BY <2>1, Still DEF vars, youtube, store, Grows
    <3>2. Docs' /\ Flights'
      BY <2>1, <3>1, DocsLater, FlightsLater DEF IndInv, vars, store
    <3>3. \A r \in Readers : Place(r)' /\ Passed(r)'
      BY <2>1, <3>1, Elsewhere DEF IndInv, vars
    <3> QED BY <2>1, <3>2, <3>3 DEF IndInv, TypeOK, vars, youtube, store
  <2>2. CASE Next
    BY <2>2, WorldStep, LeaseStep, FindStep, AskStep, LeaveStep, SessionStep, ActionStep
       DEF Next, Reading
  <2> QED BY <2>1, <2>2
<1> QED BY <1>1, <1>2, PTL DEF Spec

\* A reader that goes on to the next page of a chat has left no action behind,
\* whoever wrote it and whatever was retried (client.go: stream).
THEOREM ChatComplete == Spec => []NothingSkipped
<1>1. IndInv => NothingSkipped
  BY DEF IndInv, NothingSkipped, Passed
<1> QED BY <1>1, Invariance, PTL

\* A video that is called offline has ended, unless YouTube did not say what it
\* was; and the state is well-formed (client.go: session).
THEOREM OfflineHasEnded == Spec => []OfflineInv
<1>1. IndInv => OfflineInv
  <2> SUFFICES ASSUME IndInv, NEW v \in Video, State(v, "offline").id \in DOMAIN docs
               PROVE  air[v] = "ended" \/ v \in guessed
    BY DEF OfflineInv, IndInv
  <2>1. State(v, "offline").id[3] = "offline" /\ State(v, "offline").id[1] = v
    BY DEF State
  <2> QED BY <2>1 DEF IndInv, Docs, Right, Ended
<1> QED BY <1>1, Invariance, PTL

\* A lease that has not expired is lost only by its owner's release or crash
\* (store.go: Release deletes only what it owns).
THEOREM LeaseStays == Spec => LeaseKept
<1>1. IndInv /\ [Next]_vars =>
        [lease.owner # None /\ ~lease.expired /\ lease'.owner # lease.owner =>
          \E r \in Readers : r = lease.owner /\ at[r].pc # "idle" /\ at'[r] = Idle]_vars
  <2> SUFFICES ASSUME IndInv, Next, lease.owner # None, ~lease.expired,
                      lease'.owner # lease.owner
               PROVE  \E r \in Readers :
                        r = lease.owner /\ at[r].pc # "idle" /\ at'[r] = Idle
    BY DEF vars
  <2>1. lease' # lease
    OBVIOUS
  <2>2. ~Expire
    BY DEF Expire, IndInv, TypeOK
  <2>3. PICK r \in Readers : Acquire(r) \/ Renew(r) \/ Release(r) \/ Crash(r)
    BY <2>1, <2>2 DEF Next, Reading, Air, Chat, Land, Cancel, Leave, Reopen, Discover, Open,
       WriteOnline, WriteChannel, WriteAction, Confirm, WriteOffline, WriteClear, Write,
       ChatEnds, MetaUpdate, MetaWrites
  <2>4. ASSUME Acquire(r) \/ Renew(r) PROVE FALSE
    <3>1. lease' = [owner |-> r, expired |-> FALSE] /\ Available(r)
      BY <2>1, <2>4 DEF Acquire, Renew, Taken
    <3> QED BY <3>1 DEF Available
  <2>5. CASE Release(r)
    BY <2>1, <2>5, Reader DEF Release, Mine
  <2>6. CASE Crash(r)
    BY <2>1, <2>6, Reader DEF Crash
  <2> QED BY <2>3, <2>4, <2>5, <2>6
<1> QED BY <1>1, Invariance, PTL DEF Spec, LeaseKept
-----------------------------------------------------------------------------
\* Joining a Twitch channel.

\* The numbers of the attempts, and the accounts they log in as.
LEMMA JoinNumbers ==
    /\ Anonymous \in Nat /\ 1 \in Attempts /\ Last \in Attempts
    /\ \A n \in Attempts : n \in Nat /\ n <= Last
    /\ \A n \in Attempts : n # Last => n + 1 \in Attempts
    /\ \A n \in Attempts : Account(n) \in Accounts
  BY JoinAssumption DEF Attempts, Last, Account, Accounts

\* The clocks, and the documents of the slots.
Slots == [version : Nat, age : 0..Old]

LEMMA JoinClocks ==
    /\ Second \in Nat /\ MaxSkew \in Nat /\ Old \in Nat
    /\ \A r \in Replicas : Skew[r] \in Int /\ -MaxSkew <= Skew[r] /\ Skew[r] <= MaxSkew
  BY JoinAssumption DEF Old

States == {"none", "dialing", "up", "ready", "ended"}

Steps == {"next", "lock", "reserve", "commit", "join", "exists",
          "joined", "failed", "closed"}

\* The step of a call moves it alone, and keeps what it is.
Moves(j) ==
    /\ call' \in [Joins -> [n : Attempts, entered : BOOLEAN, pc : Steps]]
    /\ \A i \in Joins : i # j => call'[i] = call[i]

\* Another step of a call, with or without having entered, is a value of its type.
LEMMA CallMoves ==
    ASSUME JoinTypeOK, NEW j \in Joins, NEW to \in Steps, NEW e \in BOOLEAN,
           call' = [call EXCEPT ![j] = [call[j] EXCEPT !.pc = to, !.entered = e]]
    PROVE  Moves(j) /\ call'[j].pc = to /\ call'[j].n = call[j].n
<1> DEFINE R == [n : Attempts, entered : BOOLEAN, pc : Steps]
           r == [call[j] EXCEPT !.pc = to, !.entered = e]
<1>1. call \in [Joins -> R]
  BY DEF JoinTypeOK, Steps
<1>2. call[j] \in R
  BY <1>1
<1>3. r \in R /\ r.pc = to /\ r.n = call[j].n
  BY <1>2
<1>4. call' = [call EXCEPT ![j] = r]
  OBVIOUS
<1> HIDE DEF R, r
<1>5. call' \in [Joins -> R] /\ call'[j] = r
  BY <1>1, <1>3, <1>4
<1>6. \A i \in Joins : i # j => call'[i] = call[i]
  BY <1>1, <1>4
<1> QED BY <1>3, <1>5, <1>6 DEF Moves, R

\* A call that changes its step stays at its attempt.
LEMMA GoesMoves ==
    ASSUME JoinTypeOK, NEW j \in Joins, NEW from, NEW to \in Steps,
           Goes(j, from, to)
    PROVE  /\ Moves(j) /\ call[j].pc = from
           /\ call'[j].pc = to /\ call'[j].n = call[j].n
<1> DEFINE e == call[j].entered
<1>1. call[j] \in [n : Attempts, entered : BOOLEAN, pc : Steps]
  BY DEF JoinTypeOK, Steps
<1>2. [call[j] EXCEPT !.pc = to] = [call[j] EXCEPT !.pc = to, !.entered = e]
  BY <1>1
<1>3. call' = [call EXCEPT ![j] = [call[j] EXCEPT !.pc = to]] /\ call[j].pc = from
  BY DEF Goes
<1>4. call' = [call EXCEPT ![j] = [call[j] EXCEPT !.pc = to, !.entered = e]]
  BY <1>2, <1>3
<1>5. e \in BOOLEAN
  BY <1>1
<1> HIDE DEF e
<1> QED BY <1>3, <1>4, <1>5, CallMoves

\* A call that gives up has failed at its attempt.
LEMMA GiveUpMoves ==
    ASSUME JoinTypeOK, NEW j \in Joins, GiveUp(j)
    PROVE  Moves(j) /\ call'[j].pc = "failed" /\ call'[j].n = call[j].n
<1>1. call' = [call EXCEPT ![j] = [call[j] EXCEPT !.pc = "failed", !.entered = FALSE]]
  BY DEF GiveUp
<1>2. "failed" \in Steps
  BY DEF Steps
<1> QED BY <1>1, <1>2, CallMoves

\* A call that leaves what it entered moves as the others do.
LEMMA LeaveMoves ==
    ASSUME JoinTypeOK, NEW j \in Joins, NEW to \in Steps,
           call' = [call EXCEPT ![j].pc = to, ![j].entered = FALSE]
    PROVE  Moves(j) /\ call'[j].pc = to /\ call'[j].n = call[j].n
<1>1. call' = [call EXCEPT ![j] = [call[j] EXCEPT !.pc = to, !.entered = FALSE]]
  OBVIOUS
<1> QED BY <1>1, CallMoves

USE DEF Steps

\* After a failed attempt the call gives up or turns to the next one.
LEMMA FailMoves ==
    ASSUME JoinTypeOK, NEW j \in Joins, Fail(j)
    PROVE  /\ Moves(j)
           /\ \/ call'[j].pc = "failed" /\ call'[j].n = call[j].n
              \/ call'[j].pc = "next" /\ call'[j].n = call[j].n + 1
<1>1. CASE call[j].n = Last \/ (call[j].n < Anonymous /\ Over(j))
  BY <1>1, GiveUpMoves DEF Fail
<1>2. CASE ~(call[j].n = Last \/ (call[j].n < Anonymous /\ Over(j)))
  <2>1. call' = [call EXCEPT ![j] = Attempt(call[j].n + 1)]
    BY <1>2 DEF Fail
  <2>2. call[j].n + 1 \in Attempts
    BY <1>2, JoinNumbers DEF JoinTypeOK
  <2> QED BY <2>1, <2>2 DEF Attempt, Moves, JoinTypeOK
<1> QED BY <1>1, <1>2

\* Changing one entry of a table keeps its type.
LEMMA Table ==
    ASSUME NEW A, NEW B, NEW C, NEW f \in [A -> [B -> C]],
           NEW a \in A, NEW b \in B, NEW c \in C
    PROVE  [f EXCEPT ![a][b] = c] \in [A -> [B -> C]]
  OBVIOUS

\* A call has an attempt, an account for it, and a replica.
LEMMA Numbering ==
    ASSUME JoinTypeOK, NEW j \in Joins
    PROVE  call[j].n \in Attempts /\ Me(j) \in Accounts /\ home[j] \in Replicas
  BY JoinNumbers DEF JoinTypeOK, Me

\* Disconnecting a client ends it or marks it as given up.
LEMMA DisconnectTypes ==
    ASSUME JoinTypeOK, NEW j \in Joins, Disconnect(j, call[j].n)
    PROVE  /\ conn' \in [Joins -> [Attempts -> States]]
           /\ gone' \in [Joins -> SUBSET Attempts]
<1>1. CASE conn[j][call[j].n] = "dialing"
  <2>1. gone' = [gone EXCEPT ![j] = gone[j] \cup {call[j].n}] /\ conn' = conn
    BY <1>1 DEF Disconnect, GivenUp
  <2> QED BY <2>1, Numbering DEF JoinTypeOK, States
<1>2. CASE conn[j][call[j].n] # "dialing"
  <2>1. conn' = [conn EXCEPT ![j][call[j].n] = "ended"] /\ gone' = gone
    BY <1>2 DEF Disconnect
  <2> QED BY <2>1, Numbering, Table DEF JoinTypeOK, States
<1> QED BY <1>1, <1>2
-----------------------------------------------------------------------------
\* A claim makes another version, which is new.
LEMMA ClaimTypes ==
    ASSUME JoinTypeOK, NEW j \in Joins, slot' = Claimed(j)
    PROVE  /\ slot' \in [Accounts -> Slots]
           /\ slot'[Me(j)].version = slot[Me(j)].version + 1
           /\ \A a \in Accounts : a # Me(j) => slot'[a] = slot[a]
<1>1. slot \in [Accounts -> Slots] /\ Me(j) \in Accounts /\ slot[Me(j)].version \in Nat
  BY Numbering DEF JoinTypeOK, Slots
<1>2. slot' = [slot EXCEPT ![Me(j)] = [version |-> slot[Me(j)].version + 1, age |-> 0]]
  BY DEF Claimed
<1>3. [version |-> slot[Me(j)].version + 1, age |-> 0] \in Slots
  BY <1>1, JoinClocks DEF Slots
<1> QED BY <1>1, <1>2, <1>3

\* Time makes a document older.
LEMMA ElapseTypes ==
    ASSUME JoinTypeOK, NEW a \in Accounts, Elapse(a)
    PROVE  /\ slot' \in [Accounts -> Slots]
           /\ \A b \in Accounts : /\ slot'[b].version = slot[b].version
                                  /\ slot[b].age <= slot'[b].age
<1>1. slot \in [Accounts -> Slots] /\ slot[a] \in Slots
  BY DEF JoinTypeOK, Slots
<1> DEFINE older == [slot[a] EXCEPT !.age = slot[a].age + 1]
<1>2. slot[a].age < Old /\ slot' = [slot EXCEPT ![a] = older]
  BY DEF Elapse
<1>3. older \in Slots /\ older.version = slot[a].version /\ slot[a].age <= older.age
  BY <1>1, <1>2, JoinClocks DEF Slots
<1>4. \A b \in Accounts : slot[b].age \in Nat
  BY <1>1, JoinClocks DEF Slots
<1> HIDE DEF older
<1> QED BY <1>1, <1>2, <1>3, <1>4

\* Every step keeps the types.
LEMMA TypingStep ==
    JoinTypeOK /\ [JoinNext]_joinVars => JoinTypeOK'
<1> SUFFICES ASSUME JoinTypeOK, [JoinNext]_joinVars PROVE JoinTypeOK'
  OBVIOUS
<1> USE JoinNumbers
<1>1. ASSUME NEW r \in Replicas, Shutdown(r) PROVE JoinTypeOK'
  BY <1>1 DEF Shutdown, JoinTypeOK, clients, gate
<1>2. ASSUME NEW a \in Accounts, Elapse(a) PROVE JoinTypeOK'
  <2>1. slot' \in [Accounts -> Slots]
    BY <1>2, ElapseTypes
  <2> QED BY <1>2, <2>1 DEF Elapse, JoinTypeOK, Slots, clients
<1>3. ASSUME NEW j \in Joins, Start(j) PROVE JoinTypeOK'
  <2>1. Moves(j)
    BY <1>3, GoesMoves, GiveUpMoves, FailMoves DEF Start
  <2>2. conn' \in [Joins -> [Attempts -> States]]
        /\ gone' = gone /\ missed' = missed
    <3>1. CASE UNCHANGED clients
      BY <3>1 DEF clients, JoinTypeOK, States
    <3>2. CASE Connect(j)
      BY <3>2, Numbering, Table DEF Connect, JoinTypeOK, States
    <3> QED BY <1>3, <3>1, <3>2 DEF Start
  <2> QED BY <1>3, <2>1, <2>2 DEF Start, Moves, JoinTypeOK, States, gate
<1>4. ASSUME NEW j \in Joins, Lock(j) PROVE JoinTypeOK'
  <2>1. Moves(j)
    BY <1>4, GoesMoves DEF Lock
  <2>2. lock' \in [Replicas -> [Accounts -> Joins \cup {NoJoin}]]
    BY <1>4, Numbering DEF Lock, JoinTypeOK
  <2> QED BY <1>4, <2>1, <2>2 DEF Lock, Moves, JoinTypeOK, clients
<1>5. ASSUME NEW j \in Joins, Reserve(j) PROVE JoinTypeOK'
  <2>1. Moves(j)
    BY <1>5, GoesMoves DEF Reserve
  <2>2. saw' \in [Joins -> Nat]
    BY <1>5, Numbering DEF Reserve, JoinTypeOK
  <2> QED BY <1>5, <2>1, <2>2 DEF Reserve, Moves, JoinTypeOK, clients
<1>6. ASSUME NEW j \in Joins, Claim(j) PROVE JoinTypeOK'
  <2>1. Moves(j)
    BY <1>6, GoesMoves, FailMoves DEF Claim
  <2>2. conn' \in [Joins -> [Attempts -> States]]
        /\ gone' = gone /\ missed' = missed
    <3>1. CASE UNCHANGED clients
      BY <3>1 DEF clients, JoinTypeOK, States
    <3>2. CASE Connect(j)
      BY <3>2, Numbering, Table DEF Connect, JoinTypeOK, States
    <3> QED BY <1>6, <3>1, <3>2 DEF Claim
  <2>3. lock' \in [Replicas -> [Accounts -> Joins \cup {NoJoin}]]
        /\ slot' \in [Accounts -> Slots]
    <3>1. CASE UNCHANGED <<lock, slot>>
      BY <3>1 DEF JoinTypeOK, Slots
    <3>2. CASE /\ slot' = Claimed(j)
               /\ lock' = [lock EXCEPT ![home[j]][Me(j)] = NoJoin]
      BY <3>2, Numbering, Table, ClaimTypes DEF JoinTypeOK
    <3> QED BY <1>6, <3>1, <3>2 DEF Claim
  <2>4. saw' \in [Joins -> Nat]
    BY <1>6 DEF Claim, JoinTypeOK
  <2> QED BY <1>6, <2>1, <2>2, <2>3, <2>4 DEF Claim, Moves, JoinTypeOK, States, Slots
<1>7. ASSUME NEW j \in Joins, GateFails(j) PROVE JoinTypeOK'
  <2>1. Moves(j)
    BY <1>7, FailMoves DEF GateFails
  <2>2. lock' \in [Replicas -> [Accounts -> Joins \cup {NoJoin}]]
    BY <1>7, Numbering DEF GateFails, Unlocked, JoinTypeOK
  <2>3. slot' \in [Accounts -> Slots] /\ saw' \in [Joins -> Nat]
    BY <1>7, ClaimTypes DEF GateFails, JoinTypeOK, Slots
  <2> QED BY <1>7, <2>1, <2>2, <2>3 DEF GateFails, Moves, JoinTypeOK, Slots, clients
<1>8. ASSUME NEW j \in Joins, Joined(j) PROVE JoinTypeOK'
  BY <1>8 DEF Joined, JoinTypeOK, clients, gate
<1>9. ASSUME NEW j \in Joins, Finished(j) PROVE JoinTypeOK'
  BY <1>9, FailMoves DEF Finished, Moves, JoinTypeOK, clients, gate
<1>10. ASSUME NEW j \in Joins, Timeout(j) PROVE JoinTypeOK'
  <2>1. Moves(j)
    <3>1. CASE call' = [call EXCEPT ![j].pc = "exists", ![j].entered = FALSE]
      BY <3>1, LeaveMoves
    <3> QED BY <1>10, <3>1, FailMoves, GiveUpMoves DEF Timeout
  <2>2. /\ conn' \in [Joins -> [Attempts -> States]]
        /\ gone' \in [Joins -> SUBSET Attempts]
    BY <1>10, DisconnectTypes DEF Timeout
  <2> QED BY <1>10, <2>1, <2>2 DEF Timeout, Moves, JoinTypeOK, States, gate
<1>11. ASSUME NEW j \in Joins, Exists(j) PROVE JoinTypeOK'
  <2>1. Moves(j)
    BY <1>11, FailMoves, GoesMoves DEF Exists
  <2> QED BY <1>11, <2>1 DEF Exists, Moves, JoinTypeOK, clients, gate
<1>12. ASSUME NEW j \in Joins, Close(j) PROVE JoinTypeOK'
  <2>1. Moves(j)
    BY <1>12, GoesMoves DEF Close
  <2>2. /\ conn' \in [Joins -> [Attempts -> States]]
        /\ gone' \in [Joins -> SUBSET Attempts]
        /\ missed' \in [Joins -> SUBSET Attempts]
    BY <1>12, DisconnectTypes, Numbering DEF Close, JoinTypeOK
  <2> QED BY <1>12, <2>1, <2>2 DEF Close, Moves, JoinTypeOK, States, gate
<1>13. ASSUME NEW j \in Joins, NEW n \in Attempts, OnRoomState(j, n) PROVE JoinTypeOK'
  BY <1>13 DEF OnRoomState, JoinTypeOK, clients, gate
<1>14. ASSUME NEW j \in Joins, NEW n \in Attempts,
              NEW from, NEW to \in {"up", "ready", "ended", "dialing"},
              Set(j, n, from, to)
       PROVE  JoinTypeOK'
  BY <1>14 DEF Set, JoinTypeOK, gate
<1>15. CASE UNCHANGED joinVars
  BY <1>15 DEF joinVars, clients, gate, JoinTypeOK
<1> QED BY <1>1, <1>2, <1>3, <1>4, <1>5, <1>6, <1>7, <1>8, <1>9, <1>10, <1>11,
           <1>12, <1>13, <1>14, <1>15
     DEF JoinNext, Dialed, OnConnect, ConnectFails, Reconnect
-----------------------------------------------------------------------------
\* A lock is held by a call that is past it at the gate.
Held ==
    \A r \in Replicas, a \in Accounts : lock[r][a] # NoJoin =>
        LET j == lock[r][a] IN
        home[j] = r /\ Me(j) = a /\ call[j].pc \in {"reserve", "commit"}

\* A step of a call elsewhere does not disturb the locks.
LEMMA HeldElsewhere ==
    ASSUME JoinTypeOK, Held, NEW j \in Joins, Moves(j), lock' = lock, home' = home,
           call[j].pc \notin {"reserve", "commit"}
    PROVE  Held'
<1> SUFFICES ASSUME NEW r \in Replicas, NEW a \in Accounts, lock[r][a] # NoJoin
             PROVE  LET i == lock[r][a] IN
                    home[i] = r /\ Account(call'[i].n) = a /\ call'[i].pc \in {"reserve", "commit"}
  BY DEF Held, Me
<1>1. lock[r][a] \in Joins
  BY DEF JoinTypeOK
<1>2. lock[r][a] # j
  BY DEF Held
<1> QED BY <1>1, <1>2 DEF Held, Moves, Me

\* Nor does a call that gives its own lock back.
LEMMA HeldGivenBack ==
    ASSUME JoinTypeOK, Held, NEW j \in Joins, Moves(j), home' = home,
           lock' = [lock EXCEPT ![home[j]][Me(j)] = NoJoin]
    PROVE  Held'
<1> SUFFICES ASSUME NEW r \in Replicas, NEW a \in Accounts, lock'[r][a] # NoJoin
             PROVE  LET i == lock'[r][a] IN
                    home[i] = r /\ Account(call'[i].n) = a /\ call'[i].pc \in {"reserve", "commit"}
  BY DEF Held, Me
<1>1. ~(r = home[j] /\ a = Me(j)) /\ lock'[r][a] = lock[r][a]
  BY Numbering DEF JoinTypeOK
<1>2. lock[r][a] \in Joins
  BY <1>1 DEF JoinTypeOK
<1>3. lock[r][a] # j
  BY <1>1 DEF Held
<1> QED BY <1>1, <1>2, <1>3 DEF Held, Moves, Me

\* A lock is given back on every way out of the gate.
LEMMA HeldStep ==
    JoinTypeOK /\ Held /\ [JoinNext]_joinVars => Held'
<1> SUFFICES ASSUME JoinTypeOK, Held, [JoinNext]_joinVars PROVE Held'
  OBVIOUS
<1>1. ASSUME UNCHANGED <<home, call, lock>> PROVE Held'
  BY <1>1 DEF Held, Me
<1>2. ASSUME NEW j \in Joins, Start(j) PROVE Held'
  <2>1. Moves(j)
    BY <1>2, GoesMoves, GiveUpMoves, FailMoves DEF Start
  <2> QED BY <1>2, <2>1, HeldElsewhere DEF Start, gate
<1>3. ASSUME NEW j \in Joins, Lock(j) PROVE Held'
  <2>1. Moves(j) /\ call[j].pc = "lock" /\ call'[j].pc = "reserve" /\ call'[j].n = call[j].n
    BY <1>3, GoesMoves DEF Lock
  <2>2. home' = home /\ lock' = [lock EXCEPT ![home[j]][Me(j)] = j]
    BY <1>3 DEF Lock
  <2> SUFFICES ASSUME NEW r \in Replicas, NEW a \in Accounts, lock'[r][a] # NoJoin
               PROVE  LET i == lock'[r][a] IN
                      home[i] = r /\ Account(call'[i].n) = a /\ call'[i].pc \in {"reserve", "commit"}
    BY <2>2 DEF Held, Me
  <2>3. CASE r = home[j] /\ a = Me(j)
    <3>1. lock'[r][a] = j
      BY <2>2, <2>3, Numbering DEF JoinTypeOK
    <3> QED BY <2>1, <2>3, <3>1 DEF Me
  <2>4. CASE ~(r = home[j] /\ a = Me(j))
    <3>1. lock'[r][a] = lock[r][a] /\ lock[r][a] \in Joins
      BY <2>2, <2>4, Numbering DEF JoinTypeOK
    <3>2. lock[r][a] # j
      BY <2>1, <3>1 DEF Held
    <3> QED BY <2>1, <3>1, <3>2 DEF Held, Moves, Me
  <2> QED BY <2>3, <2>4
<1>4. ASSUME NEW j \in Joins, Goes(j, "reserve", "commit") \/ Goes(j, "commit", "reserve"),
             home' = home, lock' = lock
      PROVE  Held'
  <2>1. Moves(j) /\ call'[j].pc \in {"reserve", "commit"} /\ call'[j].n = call[j].n
    BY <1>4, GoesMoves
  <2> SUFFICES ASSUME NEW r \in Replicas, NEW a \in Accounts, lock[r][a] # NoJoin
               PROVE  LET i == lock[r][a] IN
                      home[i] = r /\ Account(call'[i].n) = a /\ call'[i].pc \in {"reserve", "commit"}
    BY <1>4 DEF Held, Me
  <2>2. lock[r][a] \in Joins
    BY DEF JoinTypeOK
  <2> QED BY <2>1, <2>2 DEF Held, Moves, Me
<1>5. ASSUME NEW j \in Joins, Claim(j) PROVE Held'
  <2>1. CASE Conflict(j)
    BY <1>4, <1>5, <2>1 DEF Claim, gate
  <2>2. CASE ~Conflict(j)
    <3>1. Moves(j)
      BY <1>5, GoesMoves, FailMoves DEF Claim
    <3> QED BY <1>5, <2>2, <3>1, HeldGivenBack DEF Claim
  <2> QED BY <2>1, <2>2
<1>6. ASSUME NEW j \in Joins, GateFails(j) PROVE Held'
  <2>1. Moves(j) /\ home' = home /\ lock' = Unlocked(j)
    BY <1>6, FailMoves DEF GateFails
  <2>2. CASE lock[home[j]][Me(j)] = j
    BY <2>1, <2>2, HeldGivenBack DEF Unlocked
  <2>3. CASE lock[home[j]][Me(j)] # j
    <3> SUFFICES ASSUME NEW r \in Replicas, NEW a \in Accounts, lock[r][a] # NoJoin
                 PROVE  LET i == lock[r][a] IN
                        home[i] = r /\ Account(call'[i].n) = a /\ call'[i].pc \in {"reserve", "commit"}
      BY <2>1, <2>3 DEF Held, Me, Unlocked
    <3>1. lock[r][a] \in Joins /\ lock[r][a] # j
      BY <2>3 DEF JoinTypeOK, Held
    <3> QED BY <2>1, <3>1 DEF Held, Moves, Me
  <2> QED BY <2>2, <2>3
<1>7. ASSUME NEW j \in Joins, Joined(j) \/ Finished(j) \/ Timeout(j) \/ Exists(j) \/ Close(j)
      PROVE  Held'
  <2>1. Moves(j)
    <3>1. CASE call' = [call EXCEPT ![j].pc = "exists", ![j].entered = FALSE]
      BY <3>1, LeaveMoves
    <3>2. CASE call' = [call EXCEPT ![j].pc = "joined", ![j].entered = FALSE]
      BY <3>2, LeaveMoves
    <3> QED BY <1>7, <3>1, <3>2, FailMoves, GiveUpMoves, GoesMoves
         DEF Joined, Finished, Timeout, Exists, Close
  <2>2. call[j].pc \notin {"reserve", "commit"} /\ home' = home /\ lock' = lock
    BY <1>7 DEF Joined, Finished, Timeout, Exists, Close, Goes, gate
  <2> QED BY <2>1, <2>2, HeldElsewhere
<1>8. ASSUME NEW j \in Joins, NEW n \in Attempts, OnRoomState(j, n) PROVE Held'
  <2>1. Moves(j)
    BY <1>8 DEF OnRoomState, Moves, JoinTypeOK
  <2> QED BY <1>8, <2>1, HeldElsewhere DEF OnRoomState, gate
<1> QED BY <1>1, <1>2, <1>3, <1>4, <1>5, <1>6, <1>7, <1>8
     DEF JoinNext, Shutdown, Elapse, Reserve, Dialed, OnConnect, ConnectFails,
         Reconnect, Set, gate, joinVars
-----------------------------------------------------------------------------
\* A transaction has read no later version than there is; the document it has
\* read, if that is still the one there, was a second old on the replica's clock.
HasRead(j) ==
    /\ saw[j] <= slot[Me(j)].version
    /\ saw[j] = slot[Me(j)].version => slot[Me(j)].age + Skew[home[j]] >= Second

ReadInv == \A j \in Joins : call[j].pc = "commit" => HasRead(j)

\* A step that does not move a call keeps what it has read: the document grows
\* older, or another version takes its place.
LEMMA ReadKept ==
    ASSUME JoinTypeOK, ReadInv, NEW i \in Joins, call[i].pc = "commit",
           call'[i] = call[i], home' = home, saw'[i] = saw[i],
           \/ slot' = slot
           \/ \E j \in Joins : slot' = Claimed(j)
           \/ \E a \in Accounts : Elapse(a)
    PROVE  HasRead(i)'
<1> DEFINE a == Me(i)
<1>1. HasRead(i) /\ Me(i)' = a /\ a \in Accounts
  BY Numbering DEF ReadInv, Me
<1>2. /\ slot[a].version \in Nat /\ slot[a].age \in Nat /\ saw[i] \in Nat
      /\ Skew[home[i]] \in Int /\ Second \in Nat
  BY <1>1, Numbering, JoinClocks DEF JoinTypeOK
<1>3. CASE slot' = slot
  BY <1>1, <1>3 DEF HasRead
<1>4. ASSUME NEW j \in Joins, slot' = Claimed(j) PROVE HasRead(i)'
  <2>1. slot'[a].version = slot[a].version + 1 \/ slot'[a] = slot[a]
    BY <1>1, <1>4, ClaimTypes
  <2>2. CASE slot'[a] = slot[a]
    BY <1>1, <2>2 DEF HasRead
  <2>3. CASE slot'[a].version = slot[a].version + 1
    BY <1>1, <1>2, <2>3 DEF HasRead
  <2> QED BY <2>1, <2>2, <2>3
<1>5. ASSUME NEW b \in Accounts, Elapse(b) PROVE HasRead(i)'
  <2>1. slot'[a].version = slot[a].version /\ slot[a].age <= slot'[a].age
        /\ slot'[a].age \in Nat
    BY <1>1, <1>5, ElapseTypes, JoinClocks DEF Slots
  <2> QED BY <1>1, <1>2, <2>1 DEF HasRead
<1> QED BY <1>3, <1>4, <1>5

\* Calls other than the one that moves keep what they have read.
LEMMA ReadOthers ==
    ASSUME JoinTypeOK, ReadInv, NEW j \in Joins, Moves(j), home' = home,
           \A i \in Joins \ {j} : saw'[i] = saw[i],
           slot' = slot \/ slot' = Claimed(j),
           call'[j].pc = "commit" => HasRead(j)'
    PROVE  ReadInv'
<1> SUFFICES ASSUME NEW i \in Joins, call'[i].pc = "commit" PROVE HasRead(i)'
  BY DEF ReadInv
<1>1. CASE i = j
  BY <1>1
<1>2. CASE i # j
  <2>1. call'[i] = call[i] /\ saw'[i] = saw[i]
    BY <1>2 DEF Moves
  <2> QED BY <2>1, ReadKept
<1> QED BY <1>1, <1>2

\* Every step keeps what the transactions know.
LEMMA ReadStep ==
    JoinTypeOK /\ ReadInv /\ [JoinNext]_joinVars => ReadInv'
<1> SUFFICES ASSUME JoinTypeOK, ReadInv, [JoinNext]_joinVars PROVE ReadInv'
  OBVIOUS
<1>1. ASSUME UNCHANGED <<home, call, saw>>, slot' = slot \/ \E a \in Accounts : Elapse(a)
      PROVE  ReadInv'
  BY <1>1, ReadKept DEF ReadInv
<1>2. ASSUME NEW j \in Joins, Moves(j), call'[j].pc # "commit", home' = home,
             saw' = saw \/ saw' = [saw EXCEPT ![j] = 0],
             slot' = slot \/ slot' = Claimed(j)
      PROVE  ReadInv'
  <2>1. \A i \in Joins \ {j} : saw'[i] = saw[i]
    BY <1>2 DEF JoinTypeOK
  <2> QED BY <1>2, <2>1, ReadOthers
<1>3. ASSUME NEW j \in Joins, Reserve(j) PROVE ReadInv'
  <2>1. Moves(j) /\ call'[j].n = call[j].n /\ home' = home /\ slot' = slot
    BY <1>3, GoesMoves DEF Reserve
  <2>2. saw' \in [Joins -> Nat] /\ saw'[j] = slot[Me(j)].version
        /\ \A i \in Joins \ {j} : saw'[i] = saw[i]
    BY <1>3, Numbering DEF Reserve, JoinTypeOK
  <2>3. Me(j)' = Me(j) /\ slot[Me(j)].version \in Nat
    BY <2>1, Numbering DEF Me, JoinTypeOK
  <2>4. slot[Me(j)].age + Skew[home[j]] >= Second
    BY <1>3 DEF Reserve
  <2>5. HasRead(j)'
    BY <2>1, <2>2, <2>3, <2>4 DEF HasRead
  <2> QED BY <2>1, <2>2, <2>5, ReadOthers
<1>4. ASSUME NEW j \in Joins, Start(j) \/ Lock(j) \/ Claim(j) \/ GateFails(j) \/ Exists(j)
      PROVE  ReadInv'
  <2>1. Moves(j) /\ call'[j].pc # "commit"
    BY <1>4, GoesMoves, GiveUpMoves, FailMoves
       DEF Start, Lock, Claim, GateFails, Exists
  <2>2. home' = home /\ (saw' = saw \/ saw' = [saw EXCEPT ![j] = 0])
        /\ (slot' = slot \/ slot' = Claimed(j))
    BY <1>4 DEF Start, Lock, Claim, GateFails, Exists, gate
  <2> QED BY <1>2, <2>1, <2>2
<1>5. ASSUME NEW j \in Joins, Joined(j) \/ Finished(j) \/ Timeout(j) \/ Close(j)
      PROVE  ReadInv'
  <2>1. Moves(j) /\ call'[j].pc # "commit"
    <3>1. CASE call' = [call EXCEPT ![j].pc = "exists", ![j].entered = FALSE]
      BY <3>1, LeaveMoves
    <3>2. CASE call' = [call EXCEPT ![j].pc = "joined", ![j].entered = FALSE]
      BY <3>2, LeaveMoves
    <3> QED BY <1>5, <3>1, <3>2, FailMoves, GiveUpMoves, GoesMoves
         DEF Joined, Finished, Timeout, Close
  <2> QED BY <1>2, <1>5, <2>1 DEF Joined, Finished, Timeout, Close, gate
<1>6. ASSUME NEW j \in Joins, NEW n \in Attempts, OnRoomState(j, n) PROVE ReadInv'
  <2>1. Moves(j) /\ call'[j].pc # "commit"
    BY <1>6 DEF OnRoomState, Moves, JoinTypeOK
  <2> QED BY <1>2, <1>6, <2>1 DEF OnRoomState, gate
<1> QED BY <1>1, <1>3, <1>4, <1>5, <1>6
     DEF JoinNext, Shutdown, Elapse, Dialed, OnConnect, ConnectFails, Reconnect, Set,
         gate, joinVars
-----------------------------------------------------------------------------
\* The client of attempt n is being connected or reads, and was not given up.
Live(j, n) == conn[j][n] \in {"dialing", "up", "ready"} /\ n \notin gone[j]

\* The call has turned away from attempt n.
Behind(j, n) ==
    \/ n < call[j].n
    \/ n = call[j].n /\ call[j].pc \in {"exists", "failed", "closed"}

\* A client is given up when the call turns away from it: the one a call waits
\* for, or hands out, is not.
GoneBehind ==
    \A j \in Joins, n \in Attempts : n \in gone[j] \cup missed[j] => Behind(j, n)

ReaderInv == GoneBehind /\ OneReader

\* The call does not come back to what it has turned away from.
Forward(j) ==
    \/ call'[j].n = call[j].n + 1
    \/ /\ call'[j].n = call[j].n
       /\ call[j].pc \in {"exists", "failed", "closed"} =>
             call'[j].pc \in {"exists", "failed", "closed"}

\* The attempts that a call has left behind stay behind.
LEMMA BehindKept ==
    ASSUME JoinTypeOK, NEW j \in Joins, Moves(j), Forward(j)
    PROVE  \A i \in Joins, n \in Attempts : Behind(i, n) => Behind(i, n)'
<1> SUFFICES ASSUME NEW i \in Joins, NEW n \in Attempts, Behind(i, n)
             PROVE  Behind(i, n)'
  OBVIOUS
<1>1. CASE i # j
  BY <1>1 DEF Moves, Behind
<1>2. CASE i = j
  <2>1. n \in Nat /\ call[j].n \in Nat
    BY JoinNumbers, Numbering
  <2> QED BY <1>2, <2>1 DEF Forward, Behind
<1> QED BY <1>1, <1>2

\* A call that leaves its clients alone may leave an attempt whose client is
\* not live.
LEMMA ReaderLeft ==
    ASSUME JoinTypeOK, ReaderInv, NEW j \in Joins, Moves(j), Forward(j),
           conn' = conn, gone' = gone, missed' = missed,
           \/ ~Live(j, call[j].n)
           \/ call'[j].n = call[j].n /\ call'[j].pc \in {"join", "joined"}
    PROVE  ReaderInv'
<1>1. GoneBehind'
  BY BehindKept DEF ReaderInv, GoneBehind
<1>2. OneReader'
  <2> SUFFICES ASSUME NEW i \in Joins, NEW n \in Attempts, Live(i, n)
               PROVE  n = call'[i].n /\ call'[i].pc \in {"join", "joined"}
    BY DEF OneReader, ReaderInv, Live
  <2>1. n = call[i].n /\ call[i].pc \in {"join", "joined"}
    BY DEF OneReader, ReaderInv, Live
  <2> QED BY <2>1 DEF Moves
<1> QED BY <1>1, <1>2 DEF ReaderInv

\* A call that makes a client has none for this attempt yet.
LEMMA ReaderMade ==
    ASSUME JoinTypeOK, ReaderInv, NEW j \in Joins, NEW from \in {"next", "commit"},
           Goes(j, from, "join"), Connect(j)
    PROVE  ReaderInv'
<1>1. Moves(j) /\ Forward(j) /\ call'[j].n = call[j].n /\ call'[j].pc = "join"
  BY GoesMoves DEF Forward
<1>2. /\ conn' = [conn EXCEPT ![j][call[j].n] = "dialing"]
      /\ gone' = gone /\ missed' = missed
  BY DEF Connect
<1>3. call[j].n \notin gone[j] \cup missed[j]
  <2>1. ~Behind(j, call[j].n)
    BY JoinNumbers, Numbering DEF Behind, Goes
  <2> QED BY <2>1, Numbering DEF ReaderInv, GoneBehind
<1>4. GoneBehind'
  BY <1>1, <1>2, BehindKept DEF ReaderInv, GoneBehind
<1>5. ASSUME NEW i \in Joins, NEW n \in Attempts
      PROVE  /\ Live(i, n)' => n = call'[i].n /\ call'[i].pc \in {"join", "joined"}
             /\ n \in gone[i] \ missed[i] => conn'[i][n] \in {"dialing", "up"}
  <2>1. CASE i = j /\ n = call[j].n
    BY <1>1, <1>3, <2>1
  <2>2. CASE ~(i = j /\ n = call[j].n)
    <3>1. conn'[i][n] = conn[i][n]
      BY <1>2, <2>2, Numbering DEF JoinTypeOK
    <3>2. Live(i, n) => n = call[i].n /\ i # j
      BY <2>2 DEF ReaderInv, OneReader, Live
    <3> QED BY <1>1, <1>2, <3>1, <3>2 DEF ReaderInv, OneReader, Live, Moves
  <2> QED BY <2>1, <2>2
<1> QED BY <1>2, <1>4, <1>5 DEF ReaderInv, OneReader, Live

\* A call that disconnects the client of its attempt and turns away from it.
LEMMA ReaderDropped ==
    ASSUME JoinTypeOK, ReaderInv, NEW j \in Joins, Moves(j), Forward(j),
           Disconnect(j, call[j].n), call[j].pc \in {"join", "joined"},
           NEW m \in Attempts, m = call[j].n, Behind(j, m)',
           \/ missed' = missed
           \/ missed' = [missed EXCEPT ![j] = missed[j] \cup {call[j].n}]
    PROVE  ReaderInv'
<1>1. m \notin gone[j] \cup missed[j]
  <2>1. ~Behind(j, m)
    BY JoinNumbers, Numbering DEF Behind
  <2> QED BY <2>1, Numbering DEF ReaderInv, GoneBehind
<1>2. \/ /\ conn[j][m] = "dialing" /\ conn' = conn
         /\ gone' = [gone EXCEPT ![j] = gone[j] \cup {m}]
      \/ conn' = [conn EXCEPT ![j][m] = "ended"] /\ gone' = gone
  BY DEF Disconnect, GivenUp
<1>3. GoneBehind'
  <2> SUFFICES ASSUME NEW i \in Joins, NEW n \in Attempts,
                      n \in gone'[i] \cup missed'[i]
               PROVE  Behind(i, n)'
    BY DEF GoneBehind
  <2>1. n \in gone[i] \cup missed[i] \/ (i = j /\ n = m)
    BY <1>2 DEF JoinTypeOK
  <2> QED BY <2>1, BehindKept DEF ReaderInv, GoneBehind
<1>4. ASSUME NEW i \in Joins, NEW n \in Attempts
      PROVE  /\ Live(i, n)' => n = call'[i].n /\ call'[i].pc \in {"join", "joined"}
             /\ n \in gone'[i] \ missed'[i] => conn'[i][n] \in {"dialing", "up"}
  <2>1. CASE i = j /\ n = m
    BY <1>1, <1>2, <2>1 DEF JoinTypeOK, Live
  <2>2. CASE ~(i = j /\ n = m)
    <3>1. /\ conn'[i][n] = conn[i][n]
          /\ n \in gone'[i] <=> n \in gone[i]
          /\ n \in missed[i] => n \in missed'[i]
      BY <1>1, <1>2, <2>2 DEF JoinTypeOK
    <3>2. Live(i, n) => n = call[i].n /\ i # j
      BY <2>2 DEF ReaderInv, OneReader, Live
    <3>3. Live(i, n)' => n = call'[i].n /\ call'[i].pc \in {"join", "joined"}
      <4>1. Live(i, n)' => Live(i, n)
        BY <3>1 DEF Live
      <4>2. Live(i, n) => n = call[i].n /\ call[i].pc \in {"join", "joined"}
        BY DEF ReaderInv, OneReader, Live
      <4> QED BY <3>2, <4>1, <4>2 DEF Moves
    <3>4. n \in gone'[i] \ missed'[i] => conn'[i][n] \in {"dialing", "up"}
      BY <3>1 DEF ReaderInv, OneReader
    <3> QED BY <3>3, <3>4
  <2> QED BY <2>1, <2>2
<1> QED BY <1>3, <1>4 DEF ReaderInv, OneReader, Live

\* The library and its callbacks change a connection.
LEMMA ReaderSet ==
    ASSUME JoinTypeOK, ReaderInv, NEW j \in Joins, NEW m \in Attempts,
           Dialed(j, m) \/ OnConnect(j, m) \/ ConnectFails(j, m) \/ Reconnect(j, m)
    PROVE  ReaderInv'
<1>1. PICK to \in {"up", "ready", "ended", "dialing"} :
         /\ conn[j][m] \in {"dialing", "up", "ready"}
         /\ conn' = [conn EXCEPT ![j][m] = to]
         /\ gone' = IF to = "ended" THEN [gone EXCEPT ![j] = gone[j] \ {m}] ELSE gone
         /\ call' = call /\ missed' = missed
         /\ m \in gone[j] \ missed[j] => to # "ready"
  BY DEF Dialed, OnConnect, ConnectFails, Reconnect, Set, Abandoned
<1>2. GoneBehind'
  BY <1>1 DEF ReaderInv, GoneBehind, Behind, JoinTypeOK
<1>3. ASSUME NEW i \in Joins, NEW n \in Attempts
      PROVE  /\ Live(i, n)' => n = call'[i].n /\ call'[i].pc \in {"join", "joined"}
             /\ n \in gone'[i] \ missed'[i] => conn'[i][n] \in {"dialing", "up"}
  <2>1. CASE i = j /\ n = m
    <3>1. conn'[i][n] = to /\ (to = "ended" => n \notin gone'[i])
      BY <1>1, <2>1 DEF JoinTypeOK
    <3> QED BY <1>1, <2>1, <3>1 DEF ReaderInv, OneReader, Live
  <2>2. CASE ~(i = j /\ n = m)
    <3>1. conn'[i][n] = conn[i][n] /\ (n \in gone'[i] <=> n \in gone[i])
      BY <1>1, <2>2 DEF JoinTypeOK
    <3> QED BY <1>1, <3>1 DEF ReaderInv, OneReader, Live
  <2> QED BY <2>1, <2>2
<1> QED BY <1>2, <1>3 DEF ReaderInv, OneReader, Live

\* Every step keeps the readers apart.
LEMMA ReaderStep ==
    JoinTypeOK /\ ReaderInv /\ [JoinNext]_joinVars => ReaderInv'
<1> SUFFICES ASSUME JoinTypeOK, ReaderInv, [JoinNext]_joinVars PROVE ReaderInv'
  OBVIOUS
<1>1. ASSUME UNCHANGED <<call, clients>> PROVE ReaderInv'
  BY <1>1 DEF clients, ReaderInv, GoneBehind, Behind, OneReader
<1>2. ASSUME NEW j \in Joins, call[j].pc \notin {"join", "joined"}
      PROVE  ~Live(j, call[j].n)
  BY <1>2, Numbering DEF ReaderInv, OneReader, Live
<1>3. ASSUME NEW j \in Joins, call[j].pc \notin {"join", "joined", "failed", "closed"},
             Fail(j), UNCHANGED clients
      PROVE  ReaderInv'
  <2>1. Moves(j) /\ Forward(j)
    BY <1>3, FailMoves DEF Forward
  <2> QED BY <1>2, <1>3, <2>1, ReaderLeft DEF clients
<1>4. ASSUME NEW j \in Joins, NEW from \in {"next", "lock", "reserve", "commit", "exists"},
             NEW to \in {"lock", "reserve", "commit", "failed"},
             Goes(j, from, to), from = "exists" => to = "failed", UNCHANGED clients
      PROVE  ReaderInv'
  <2>1. Moves(j) /\ Forward(j) /\ call[j].pc = from
    BY <1>4, GoesMoves DEF Forward
  <2> QED BY <1>2, <1>4, <2>1, ReaderLeft DEF clients
<1>5. ASSUME NEW j \in Joins, Start(j) PROVE ReaderInv'
  <2>1. CASE Goes(j, "next", "join") /\ Connect(j)
    BY <2>1, ReaderMade
  <2>2. CASE GiveUp(j) /\ UNCHANGED clients
    <3>1. Moves(j) /\ Forward(j) /\ call[j].pc = "next"
      BY <1>5, <2>2, GiveUpMoves DEF Forward, Start
    <3> QED BY <1>2, <2>2, <3>1, ReaderLeft DEF clients
  <2> QED BY <1>3, <1>4, <1>5, <2>1, <2>2 DEF Start
<1>6. ASSUME NEW j \in Joins, Claim(j) PROVE ReaderInv'
  <2>1. CASE Goes(j, "commit", "join") /\ Connect(j)
    BY <2>1, ReaderMade
  <2> QED BY <1>3, <1>4, <1>6, <2>1 DEF Claim
<1>7. ASSUME NEW j \in Joins, Joined(j) PROVE ReaderInv'
  <2>1. Moves(j) /\ Forward(j) /\ call'[j].n = call[j].n /\ call'[j].pc = "joined"
    BY <1>7 DEF Joined, Moves, Forward, JoinTypeOK
  <2> QED BY <1>7, <2>1, ReaderLeft DEF Joined, clients
<1>8. ASSUME NEW j \in Joins, Finished(j) PROVE ReaderInv'
  <2>1. Moves(j) /\ Forward(j)
    BY <1>8, FailMoves DEF Forward, Finished
  <2>2. ~Live(j, call[j].n)
    BY <1>8 DEF Finished, Live
  <2> QED BY <1>8, <2>1, <2>2, ReaderLeft DEF Finished, clients
<1>9. ASSUME NEW j \in Joins, Timeout(j) PROVE ReaderInv'
  <2>1. /\ Moves(j)
        /\ \/ call'[j].n = call[j].n /\ call'[j].pc \in {"exists", "failed"}
           \/ call'[j].n = call[j].n + 1
    <3>1. CASE call' = [call EXCEPT ![j].pc = "exists", ![j].entered = FALSE]
      BY <3>1, LeaveMoves
    <3> QED BY <1>9, <3>1, FailMoves, GiveUpMoves DEF Timeout
  <2> PICK m \in Attempts : m = call[j].n
    BY Numbering
  <2>2. Forward(j) /\ Behind(j, m)'
    BY <2>1, JoinNumbers DEF Forward, Behind
  <2> QED BY <1>9, <2>1, <2>2, ReaderDropped DEF Timeout
<1>10. ASSUME NEW j \in Joins, Close(j) PROVE ReaderInv'
  <2>1. Moves(j) /\ call'[j].n = call[j].n /\ call'[j].pc = "closed" /\ call[j].pc = "joined"
    BY <1>10, GoesMoves DEF Close
  <2> PICK m \in Attempts : m = call[j].n
    BY Numbering
  <2>2. Forward(j) /\ Behind(j, m)'
    BY <2>1 DEF Forward, Behind
  <2> QED BY <1>10, <2>1, <2>2, ReaderDropped DEF Close
<1>11. ASSUME NEW j \in Joins, NEW n \in Attempts, OnRoomState(j, n) PROVE ReaderInv'
  <2>1. Moves(j) /\ Forward(j) /\ call'[j].n = call[j].n /\ call'[j].pc = "join"
    BY <1>11 DEF OnRoomState, Moves, Forward, JoinTypeOK
  <2> QED BY <1>11, <2>1, ReaderLeft DEF OnRoomState, clients
<1>12. ASSUME NEW j \in Joins, Lock(j) \/ Reserve(j) \/ GateFails(j) \/ Exists(j)
       PROVE  ReaderInv'
  BY <1>3, <1>4, <1>12 DEF Lock, Reserve, GateFails, Exists
<1> QED BY <1>1, <1>5, <1>6, <1>7, <1>8, <1>9, <1>10, <1>11, <1>12, ReaderSet
     DEF JoinNext, Shutdown, Elapse, joinVars
-----------------------------------------------------------------------------
JoinInv == JoinTypeOK /\ Held /\ ReadInv /\ ReaderInv

\* The invariant the theorems rest on.
LEMMA JoinInvariance ==
    JoinSpec => []JoinInv
<1>1. JoinInit => JoinInv
  <2> SUFFICES ASSUME JoinInit PROVE JoinInv
    OBVIOUS
  <2>1. JoinTypeOK
    BY JoinNumbers, JoinClocks DEF JoinInit, JoinTypeOK, Attempt
  <2>2. Held /\ ReadInv
    BY DEF JoinInit, Held, ReadInv, Attempt
  <2>3. ReaderInv
    BY DEF JoinInit, ReaderInv, GoneBehind, OneReader
  <2> QED BY <2>1, <2>2, <2>3 DEF JoinInv
<1>2. JoinInv /\ [JoinNext]_joinVars => JoinInv'
  BY TypingStep, HeldStep, ReadStep, ReaderStep DEF JoinInv
<1> QED BY <1>1, <1>2, PTL DEF JoinSpec

\* Gate.Wait (ircauth/gate.go) gives its local lock back on every way out: a
\* lock is held only by a call of that replica that waits for that account.
THEOREM GateGivesBack ==
    JoinSpec => []GateInv
<1>1. JoinInv => GateInv
  BY DEF JoinInv, Held, GateInv
<1>2. JoinSpec => []JoinInv
  BY JoinInvariance
<1> QED BY <1>1, <1>2, PTL

\* joinWithContext (handler/twitch.go) leaves no client behind: of the clients
\* of one call at most the one that is handed out goes on reading, and one that is
\* given up never enters.  (A reader that is closed between two connections of its
\* library is not given up, but missed, and excepted.)
THEOREM OneReaderOnly ==
    JoinSpec => []OneReader
<1>1. JoinInv => OneReader
  BY DEF JoinInv, ReaderInv
<1>2. JoinSpec => []JoinInv
  BY JoinInvariance
<1> QED BY <1>1, <1>2, PTL

\* The gate (ircauth/gate.go) spaces the claims of an account's slot: what a
\* transaction has read was a second old on its replica's clock, and it commits only
\* if that is still there.
THEOREM LoginsSpaced ==
    JoinSpec => Spaced
<1>1. JoinInv /\ [JoinNext]_joinVars =>
        [\A a \in Accounts : slot'[a].version # slot[a].version =>
              slot[a].age >= Second - MaxSkew]_joinVars
  <2> SUFFICES ASSUME JoinTypeOK, ReadInv, JoinNext, NEW a \in Accounts,
                      slot'[a].version # slot[a].version
               PROVE  slot[a].age >= Second - MaxSkew
    BY DEF JoinInv
  <2>1. ASSUME NEW j \in Joins, call[j].pc = "commit", ~Conflict(j), slot' = Claimed(j)
        PROVE  slot[a].age >= Second - MaxSkew
    <3>1. a = Me(j)
      BY <2>1, ClaimTypes
    <3>2. slot[a].age + Skew[home[j]] >= Second
      BY <2>1, <3>1 DEF ReadInv, HasRead, Conflict
    <3>3. slot[a].age \in Nat
      BY JoinClocks DEF JoinTypeOK
    <3>4. Skew[home[j]] \in Int /\ Skew[home[j]] <= MaxSkew /\ Second \in Nat /\ MaxSkew \in Nat
      BY Numbering, JoinClocks
    <3> QED BY <3>2, <3>3, <3>4
  <2>2. ASSUME NEW b \in Accounts, Elapse(b) PROVE FALSE
    BY <2>2, ElapseTypes
  <2>3. slot' # slot
    OBVIOUS
  <2> QED BY <2>1, <2>2, <2>3 DEF JoinNext, Shutdown, Start, Lock, Reserve, Claim,
         GateFails, Joined, Finished, Timeout, Exists, Close, OnRoomState, Dialed,
         OnConnect, ConnectFails, Reconnect, Set, gate
<1>2. JoinSpec => []JoinInv
  BY JoinInvariance
<1> QED BY <1>1, <1>2, PTL DEF JoinSpec, Spaced
===============================================================================
