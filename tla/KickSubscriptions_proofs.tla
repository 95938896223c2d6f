----------------------- MODULE KickSubscriptions_proofs -----------------------
(***************************************************************************)
(* The subscriptions of Kick channels and the documents that track them:   *)
(* none is leaked, the documents do not claim too much, admissions stay    *)
(* within the limit, and the cleanup takes nothing from a channel in use.  *)
(* Proofs for any set of channels, requests and events, and any number of  *)
(* uncertain requests and overtaken leases.                                *)
(***************************************************************************)
EXTENDS KickSubscriptions, FiniteSetTheorems, TLAPS

Cleaning == {"clean", "delete", "drop"}

At == [pc : Steps, chan : Channels, seen : SUBSET KickEvents]
Request == [chan : Channels, events : SUBSET KickEvents, method : {"POST", "DELETE"}]

\* The names of things are different.
LEMMA Names ==
    /\ None # Left /\ None \notin Doc /\ None \notin Channels
    /\ None \notin Processes /\ Left \notin Processes
    /\ Cleaner \in Processes /\ Cleaner \notin Callers /\ Callers \subseteq Processes
    /\ \A x \in Processes : x # Cleaner => x \in Callers
    /\ Chat \in KickEvents /\ Limit \in Nat
    /\ Idle.pc = "idle" /\ Idle.chan = None /\ Idle \notin At /\ "idle" \notin Steps
  BY KickAssumption DEF Processes, Idle, At, Steps

\* A process is idle or somewhere.
LEMMA AtTypes ==
    ASSUME TypeOK
    PROVE  /\ at \in [Processes -> At \cup {Idle}]
           /\ \A x \in Processes :
                \/ at[x] = Idle /\ at[x].pc = "idle" /\ at[x].chan = None
                \/ /\ at[x] \in At /\ at[x] # Idle /\ at[x].pc \in Steps
                   /\ at[x].pc # "idle"
                   /\ at[x].chan \in Channels /\ at[x].seen \in SUBSET KickEvents
<1>1. at \in [Processes -> At \cup {Idle}]
  BY DEF TypeOK, At
<1>2. \A a \in At : a.pc \in Steps /\ a.chan \in Channels /\ a.seen \in SUBSET KickEvents
  BY DEF At
<1> QED BY <1>1, <1>2, Names

\* A document has its fields.
LEMMA DocTypes ==
    ASSUME TypeOK, NEW c \in Channels
    PROVE  /\ doc[c] = None \/ doc[c] \in Doc
           /\ Tracked(c) => doc[c] \in Doc
           /\ \A d \in Doc : /\ d.ids \in SUBSET KickEvents /\ d # None
                             /\ d.checked \in {"fresh", "stale"}
                             /\ d.active \in {"recent", "idle"}
  BY Names DEF TypeOK, Tracked, Doc

\* A document written from a listing is one, and recent.
LEMMA ListedTypes ==
    ASSUME NEW ids \in SUBSET KickEvents
    PROVE  /\ Listed(ids) \in Doc /\ Listed(ids).ids = ids /\ Listed(ids).active = "recent"
           /\ Listed(ids).checked = "fresh" => Missing(ids) = {}
           /\ [Listed(ids) EXCEPT !.checked = "stale"] \in Doc
           /\ [Listed(ids) EXCEPT !.checked = "stale"].active = "recent"
           /\ [Listed(ids) EXCEPT !.checked = "stale"].checked = "stale"
  BY DEF Listed, Doc
-----------------------------------------------------------------------------
\* What a step does to the processes: one of them moves, or ends.
Moved(x, to, seen) ==
    /\ at' \in [Processes -> At \cup {Idle}]
    /\ at'[x].pc = to /\ at'[x].chan = at[x].chan /\ at'[x].seen = seen
    /\ at'[x] # Idle
    /\ \A y \in Processes \ {x} : at'[y] = at[y]

\* One step of a process, of ensureKick or of the cleanup, is a move.
LEMMA Moves ==
    ASSUME TypeOK, NEW x \in Processes, at[x] # Idle
    PROVE  /\ \A from, to \in Steps :
                 Step(x, from, to) => Moved(x, to, at[x].seen) /\ at[x].pc = from
           /\ List(x) => Moved(x, IF at[x].pc = "relist" THEN "save"
                                  ELSE IF Missing(kick[at[x].chan]) = {} THEN "record"
                                  ELSE "capacity", kick[at[x].chan])
           /\ CleanList /\ x = Cleaner =>
                 Moved(x, "delete", doc[at[x].chan].ids \cup kick[at[x].chan])
<1>1. /\ at \in [Processes -> At \cup {Idle}] /\ at[x] \in At
      /\ at[x].chan \in Channels /\ at[x].seen \in SUBSET KickEvents
      /\ kick[at[x].chan] \in SUBSET KickEvents
  BY AtTypes DEF TypeOK
<1>2. ASSUME NEW to \in Steps, NEW s \in SUBSET KickEvents, NEW r,
             r = [at[x] EXCEPT !.pc = to, !.seen = s] \/ r = [at[x] EXCEPT !.seen = s, !.pc = to],
             at' = [at EXCEPT ![x] = r]
      PROVE  Moved(x, to, s)
  <2>1. r \in At /\ r.pc = to /\ r.seen = s /\ r.chan = at[x].chan
    BY <1>1, <1>2 DEF At
  <2> QED BY <1>1, <1>2, <2>1, Names DEF Moved
<1>3. ASSUME NEW to \in Steps, at' = [at EXCEPT ![x].pc = to]
      PROVE  Moved(x, to, at[x].seen)
  <2>1. [at[x] EXCEPT !.pc = to] \in At /\ [at[x] EXCEPT !.pc = to].pc = to
        /\ [at[x] EXCEPT !.pc = to].seen = at[x].seen
        /\ [at[x] EXCEPT !.pc = to].chan = at[x].chan
    BY <1>1 DEF At
  <2> QED BY <1>1, <1>3, <2>1, Names DEF Moved
<1>4. \A from, to \in Steps :
         Step(x, from, to) => Moved(x, to, at[x].seen) /\ at[x].pc = from
  BY <1>3 DEF Step
<1>5. ASSUME List(x)
      PROVE  Moved(x, IF at[x].pc = "relist" THEN "save"
                      ELSE IF Missing(kick[at[x].chan]) = {} THEN "record"
                      ELSE "capacity", kick[at[x].chan])
  <2> DEFINE events == kick[at[x].chan]
             to == IF at[x].pc = "relist" THEN "save"
                   ELSE IF Missing(events) = {} THEN "record" ELSE "capacity"
  <2>1. to \in Steps
    BY DEF Steps
  <2>2. at' = [at EXCEPT ![x].seen = events, ![x].pc = to]
    BY <1>5 DEF List
  <2> HIDE DEF to, events
  <2>3. at' = [at EXCEPT ![x] = [at[x] EXCEPT !.seen = events, !.pc = to]]
    BY <2>2
  <2>4. Moved(x, to, events)
    BY <1>1, <1>2, <2>1, <2>3 DEF events
  <2> QED BY <2>4 DEF to, events
<1>6. ASSUME CleanList, x = Cleaner
      PROVE  Moved(x, "delete", doc[at[x].chan].ids \cup kick[at[x].chan])
  <2> DEFINE s == doc[at[x].chan].ids \cup kick[at[x].chan]
  <2>1. s \in SUBSET KickEvents
    BY <1>1, <1>6, DocTypes DEF CleanList, StillIdle
  <2>2. at' = [at EXCEPT ![x] = [at[x] EXCEPT !.pc = "delete", !.seen = s]]
    BY <1>6 DEF CleanList
  <2> HIDE DEF s
  <2>3. "delete" \in Steps
    BY DEF Steps
  <2>4. Moved(x, "delete", s)
    BY <1>2, <2>1, <2>2, <2>3
  <2> QED BY <2>4 DEF s
<1> QED BY <1>4, <1>5, <1>6

\* What Kick creates anew is not what the cleanup is about to delete.
LEMMA UnseenIs ==
    ASSUME TypeOK, NEW c \in Channels, NEW events
    PROVE  /\ Unseen(c, events) \in [Processes -> At \cup {Idle}]
           /\ \A x \in Processes \ {Cleaner} : Unseen(c, events)[x] = at[x]
           /\ at[Cleaner].chan # c => Unseen(c, events) = at
           /\ at[Cleaner] = Idle => Unseen(c, events)[Cleaner] = Idle
           /\ at[Cleaner] # Idle => /\ Unseen(c, events)[Cleaner] # Idle
                                    /\ Unseen(c, events)[Cleaner].pc = at[Cleaner].pc
                                    /\ Unseen(c, events)[Cleaner].chan = at[Cleaner].chan
<1> DEFINE s == IF at[Cleaner].chan = c THEN at[Cleaner].seen \ (events \ kick[c])
                                        ELSE at[Cleaner].seen
           r == [at[Cleaner] EXCEPT !.seen = s]
<1>0. at \in [Processes -> At \cup {Idle}] /\ Cleaner \in Processes
  BY AtTypes, Names
<1>1. Unseen(c, events) = [at EXCEPT ![Cleaner] = r]
  BY DEF Unseen
<1>2. CASE at[Cleaner] = Idle
  <2>1. at[Cleaner].chan # c
    BY <1>2, Names
  <2>2. r = at[Cleaner]
    BY <1>2, <2>1 DEF Idle
  <2> HIDE DEF r
  <2>3. Unseen(c, events) = at
    BY <1>0, <1>1, <2>2
  <2> QED BY <1>0, <1>2, <2>1, <2>3
<1>3. CASE at[Cleaner] # Idle
  <2>1. at[Cleaner] \in At /\ at[Cleaner].seen \in SUBSET KickEvents
    BY <1>3, AtTypes, Names
  <2>2. s \in SUBSET KickEvents /\ (at[Cleaner].chan # c => s = at[Cleaner].seen)
    BY <2>1
  <2> HIDE DEF s
  <2>3. r \in At /\ r.pc = at[Cleaner].pc /\ r.chan = at[Cleaner].chan /\ r.seen = s
    BY <2>1, <2>2 DEF At
  <2>4. at[Cleaner].chan # c => r = at[Cleaner]
    BY <2>1, <2>2 DEF At
  <2> HIDE DEF r
  <2>5. at[Cleaner].chan # c => Unseen(c, events) = at
    BY <1>0, <1>1, <2>4
  <2> QED BY <1>0, <1>1, <1>3, <2>3, <2>5, Names
<1> QED BY <1>2, <1>3
-----------------------------------------------------------------------------
Recent(c) == Tracked(c) /\ doc[c].active = "recent"

\* At work on a channel whose lease was never overtaken.
Undisturbed(x) == at[x] # Idle /\ at[x].chan \notin disturbed

\* Which steps are the cleanup's, and who has the lease.
Process(x) ==
    /\ at[x] # Idle => (at[x].pc \in Cleaning <=> x = Cleaner)
    /\ Undisturbed(x) => lease[at[x].chan] = x

\* A request under way when its caller gave up is covered by the lease left for it.
Guarded(f) == f.chan \notin disturbed => lease[f.chan] = Left

\* A request has written the document before it creates anything, holds the
\* capacity from its admission on and, unless its lease is overtaken, what it
\* listed is what Kick has.
Caller(x) ==
    /\ at[x].pc \in {"post", "relist", "save"} => Recent(at[x].chan)
    /\ at[x].pc \in {"admit", "reserve", "post", "relist", "save"} => capacity = x
    /\ Undisturbed(x) =>
        /\ at[x].pc = "touch" => Tracked(at[x].chan)
        /\ at[x].pc \in {"record", "capacity", "admit", "reserve", "save"} =>
              at[x].seen = kick[at[x].chan]
        /\ at[x].pc = "record" => Missing(at[x].seen) = {}

\* A document that nobody wrote since the cleanup read it is idle, and covers
\* what Kick has.
Cleanup ==
    at[Cleaner].pc \in {"delete", "drop"} =>
        /\ Tracked(at[Cleaner].chan)
        /\ same => /\ StillIdle(at[Cleaner].chan)
                   /\ at[Cleaner].pc = "delete" =>
                         kick[at[Cleaner].chan] \subseteq at[Cleaner].seen
                   /\ at[Cleaner].pc = "drop" => kick[at[Cleaner].chan] = {}
        /\ Undisturbed(Cleaner) => same

\* A POST that may still land has its document; a DELETE that may still land is
\* for an idle one.
Flying(f) ==
    /\ f.method = "POST" => Recent(f.chan)
    /\ f.method = "DELETE" /\ f.chan \notin disturbed => StillIdle(f.chan)

Channel(c) ==
    /\ kick[c] # {} => Tracked(c)
    /\ StillIdle(c) => doc[c].checked = "stale"
    /\ c \notin disturbed /\ ActiveCheck(c) => kick[c] = KickEvents

Documents == {c \in Channels : Tracked(c)}

\* The one that is admitted, and has yet to write its document, has room.
Room ==
    disturbed = {} =>
        /\ Cardinality(Documents) <= Limit
        /\ \A x \in Callers : at[x].pc = "reserve" =>
              Tracked(at[x].chan) \/ Cardinality(Documents) < Limit

Leases ==
    /\ \A x \in Processes : Process(x)
    /\ \A f \in flight : Guarded(f)

Records ==
    /\ \A x \in Callers : Caller(x)
    /\ Cleanup
    /\ \A f \in flight : Flying(f)
    /\ \A c \in Channels : Channel(c)

IndInv == TypeOK /\ Leases /\ Records /\ Room
-----------------------------------------------------------------------------
\* Nobody else is at work on a channel whose lease was never overtaken.
LEMMA Alone ==
    ASSUME TypeOK, Leases, NEW x \in Processes, Undisturbed(x)
    PROVE  /\ \A y \in Processes \ {x} : at[y].chan # at[x].chan
           /\ \A f \in flight : f.chan # at[x].chan
           /\ lease[at[x].chan] = x /\ at[x].chan \in Channels
<1>1. /\ lease[at[x].chan] = x /\ at[x].chan \in Channels
      /\ x # Left
  BY AtTypes, Names DEF Leases, Process, Undisturbed
<1>2. ASSUME NEW y \in Processes \ {x}, at[y].chan = at[x].chan PROVE FALSE
  <2>1. at[y] # Idle
    BY <1>1, <1>2, Names
  <2> QED BY <1>1, <1>2, <2>1 DEF Leases, Process, Undisturbed
<1>3. ASSUME NEW f \in flight, f.chan = at[x].chan PROVE FALSE
  BY <1>1, <1>3 DEF Leases, Guarded, Undisturbed
<1> QED BY <1>1, <1>2, <1>3

\* The work of a process is over, with its leases.
LEMMA EndIs ==
    ASSUME TypeOK, NEW x \in Processes, NEW to \in {None, Left}, End(x, to)
    PROVE  /\ at' \in [Processes -> At \cup {Idle}] /\ at'[x] = Idle
           /\ \A y \in Processes \ {x} : at'[y] = at[y]
           /\ lease' \in [Channels -> Processes \cup {None, Left}]
           /\ \A c \in Channels : lease'[c] = IF lease[c] = x THEN to ELSE lease[c]
           /\ capacity' \in Callers \cup {None, Left}
           /\ \A y \in Processes \ {x} : capacity = y => capacity' = y
           /\ disturbed' = disturbed
<1>1. at \in [Processes -> At \cup {Idle}]
  BY AtTypes
<1> QED BY <1>1 DEF End, TypeOK

\* Whoever works on a channel, or comes to it.
LEMMA EnterIs ==
    ASSUME TypeOK, NEW x \in Processes, NEW c \in Channels, NEW where \in Steps,
           Enter(x, c, where)
    PROVE  /\ at[x] = Idle /\ at' \in [Processes -> At \cup {Idle}]
           /\ at'[x].pc = where /\ at'[x].chan = c /\ at'[x] # Idle
           /\ \A y \in Processes \ {x} : at'[y] = at[y]
           /\ lease' \in [Channels -> Processes \cup {None, Left}] /\ lease'[c] = x
           /\ \A d \in Channels \ {c} : lease'[d] = lease[d]
           /\ disturbed \subseteq disturbed' /\ disturbed' \subseteq Channels
           /\ lease[c] = None \/ c \in disturbed'
           /\ UNCHANGED <<kick, flight, doc, capacity, same>>
<1>1. at \in [Processes -> At \cup {Idle}]
  BY AtTypes
<1> DEFINE r == [pc |-> where, chan |-> c, seen |-> {}]
<1>2. r \in At /\ r.pc = where /\ r.chan = c
  BY DEF At
<1>3. at[x] = Idle /\ at' = [at EXCEPT ![x] = r] /\ lease' = [lease EXCEPT ![c] = x]
      /\ UNCHANGED <<kick, flight, doc, capacity, same>>
  BY DEF Enter
<1> HIDE DEF r
<1>4. /\ at' \in [Processes -> At \cup {Idle}] /\ at'[x] = r
      /\ \A y \in Processes \ {x} : at'[y] = at[y]
  BY <1>1, <1>2, <1>3
<1>5. /\ disturbed \subseteq disturbed' /\ disturbed' \subseteq Channels
      /\ lease[c] = None \/ c \in disturbed'
  BY DEF Enter, TypeOK
<1>6. /\ lease' \in [Channels -> Processes \cup {None, Left}] /\ lease'[c] = x
      /\ \A d \in Channels \ {c} : lease'[d] = lease[d]
  BY <1>3 DEF TypeOK
<1> QED BY <1>2, <1>3, <1>4, <1>5, <1>6, Names

\* A process that acts is not idle.
LEMMA Acting ==
    ASSUME TypeOK, NEW x \in Processes
    PROVE  at[x].pc \in Steps => at[x] # Idle
  BY Names

\* A write to a channel's document.
LEMMA WriteIs ==
    ASSUME TypeOK, NEW c \in Channels, NEW d \in Doc, Write(c, d)
    PROVE  /\ doc' \in [Channels -> Doc \cup {None}] /\ doc'[c] = d
           /\ \A e \in Channels \ {c} : doc'[e] = doc[e]
           /\ same' \in BOOLEAN
           /\ at[Cleaner].chan = c => ~same'
           /\ at[Cleaner].chan # c => same' = same
<1>1. same \in BOOLEAN
  BY DEF TypeOK
<1>2. same' \in BOOLEAN /\ (at[Cleaner].chan = c => ~same')
      /\ (at[Cleaner].chan # c => same' = same)
  BY <1>1 DEF Write
<1> QED BY <1>2 DEF Write, TypeOK

\* What Touch writes.
LEMMA TouchIs ==
    ASSUME TypeOK, NEW x \in Callers, Touch(x)
    PROVE  \E d \in Doc : /\ Write(at[x].chan, d) /\ at[x].chan \in Channels
                          /\ End(x, None) /\ d.active = "recent" /\ at[x].pc = "touch"
                          /\ \/ Tracked(at[x].chan) /\ d.checked = doc[at[x].chan].checked
                                /\ d.ids = doc[at[x].chan].ids
                             \/ d.checked = "stale"
<1>0. at[x].chan \in Channels /\ at[x].pc = "touch"
  BY AtTypes, Names DEF Touch, Steps
<1>1. CASE Tracked(at[x].chan)
  <2> DEFINE d == [doc[at[x].chan] EXCEPT !.active = "recent"]
  <2>1. doc[at[x].chan] \in Doc
    BY <1>0, <1>1, DocTypes
  <2>2. d \in Doc /\ d.active = "recent" /\ d.checked = doc[at[x].chan].checked
        /\ d.ids = doc[at[x].chan].ids
    BY <2>1 DEF Doc
  <2>3. Write(at[x].chan, d) /\ End(x, None)
    BY <1>1 DEF Touch
  <2> QED BY <1>0, <1>1, <2>2, <2>3
<1>2. CASE ~Tracked(at[x].chan)
  <2> DEFINE d == [ids |-> {}, checked |-> "stale", active |-> "recent"]
  <2>1. d \in Doc /\ d.active = "recent" /\ d.checked = "stale"
    BY DEF Doc
  <2>2. Write(at[x].chan, d) /\ End(x, None)
    BY <1>2 DEF Touch
  <2> QED BY <1>0, <2>1, <2>2
<1> QED BY <1>1, <1>2

\* A request that is under way when its caller gives up.
LEMMA UncertainIs ==
    ASSUME TypeOK, NEW x \in Processes, Uncertain(x)
    PROVE  \E f \in Request :
              /\ flight' = flight \cup {f} /\ f.chan = at[x].chan
              /\ f.method = IF x = Cleaner THEN "DELETE" ELSE "POST"
              /\ End(x, Left) /\ at[x].pc \in {"post", "delete"} /\ at[x] # Idle
              /\ UNCHANGED <<kick, doc, todo, same>>
<1> DEFINE f == [chan |-> at[x].chan,
                 method |-> IF x = Cleaner THEN "DELETE" ELSE "POST",
                 events |-> IF x = Cleaner THEN at[x].seen ELSE Missing(at[x].seen)]
<1>0. at[x].pc \in {"post", "delete"} /\ at[x] # Idle
  BY Names DEF Uncertain
<1>1. at[x].chan \in Channels /\ at[x].seen \in SUBSET KickEvents
  BY <1>0, AtTypes
<1>2. f \in Request /\ f.chan = at[x].chan /\ f.method = IF x = Cleaner THEN "DELETE" ELSE "POST"
  BY <1>1 DEF Request, Missing
<1>3. flight' = flight \cup {f} /\ End(x, Left) /\ UNCHANGED <<kick, doc, todo, same>>
  BY DEF Uncertain, Retained, job
<1> HIDE DEF f
<1> QED BY <1>0, <1>2, <1>3

\* A request that lands.
LEMMA LandIs ==
    ASSUME TypeOK, NEW f \in flight, Land(f)
    PROVE  /\ f \in Request /\ flight' = flight \ {f}
           /\ kick' \in [Channels -> SUBSET KickEvents]
           /\ \A c \in Channels \ {f.chan} : kick'[c] = kick[c]
           /\ \/ /\ f.method = "POST" /\ kick[f.chan] \subseteq kick'[f.chan]
                 /\ \E events : at' = Unseen(f.chan, events)
              \/ /\ f.method = "DELETE" /\ kick'[f.chan] \subseteq kick[f.chan]
                 /\ at' = at
           /\ UNCHANGED <<doc, lease, capacity, disturbed, todo, same>>
<1>1. f \in Request /\ f.chan \in Channels /\ f.events \in SUBSET KickEvents
      /\ f.method \in {"POST", "DELETE"}
  BY DEF TypeOK, Request
<1>2. PICK events \in SUBSET f.events :
          \/ /\ f.method = "POST"
             /\ kick' = [kick EXCEPT ![f.chan] = @ \cup events]
             /\ at' = Unseen(f.chan, events)
          \/ /\ f.method = "DELETE"
             /\ kick' = [kick EXCEPT ![f.chan] = @ \ events]
             /\ UNCHANGED at
  BY DEF Land
<1>3. kick' \in [Channels -> SUBSET KickEvents]
      /\ \A c \in Channels \ {f.chan} : kick'[c] = kick[c]
  BY <1>1, <1>2 DEF TypeOK
<1>4. \/ f.method = "POST" /\ kick[f.chan] \subseteq kick'[f.chan]
         /\ \E e : at' = Unseen(f.chan, e)
      \/ f.method = "DELETE" /\ kick'[f.chan] \subseteq kick[f.chan] /\ at' = at
  BY <1>1, <1>2 DEF TypeOK
<1> QED BY <1>1, <1>3, <1>4 DEF Land, leases, job

\* A request that is answered.
LEMMA PostIs ==
    ASSUME TypeOK, NEW x \in Callers, Post(x)
    PROVE  /\ at[x].pc = "post" /\ at[x] # Idle /\ at[x].chan \in Channels
           /\ kick' \in [Channels -> SUBSET KickEvents]
           /\ \A c \in Channels \ {at[x].chan} : kick'[c] = kick[c]
           /\ kick[at[x].chan] \subseteq kick'[at[x].chan]
           /\ at' \in [Processes -> At \cup {Idle}]
           /\ at'[x].pc = "relist" /\ at'[x].chan = at[x].chan /\ at'[x] # Idle
           /\ \A y \in Processes \ {x, Cleaner} : at'[y] = at[y]
           /\ \E events : at'[Cleaner] = Unseen(at[x].chan, events)[Cleaner]
           /\ UNCHANGED <<flight, doc, lease, capacity, disturbed, todo, same>>
<1> DEFINE c == at[x].chan
<1>1. PICK events \in SUBSET Missing(at[x].seen) :
         /\ at[x].pc = "post"
         /\ kick' = [kick EXCEPT ![c] = @ \cup events]
         /\ at' = [Unseen(c, events) EXCEPT ![x].pc = "relist"]
         /\ UNCHANGED <<flight, doc, leases, job>>
  BY DEF Post
<1>2. /\ x \in Processes /\ x # Cleaner /\ at[x] # Idle /\ at[x] \in At /\ c \in Channels
      /\ events \in SUBSET KickEvents /\ Cleaner \in Processes
  BY <1>1, AtTypes, Names DEF Missing
<1>3. /\ kick' \in [Channels -> SUBSET KickEvents] /\ kick[c] \subseteq kick'[c]
      /\ \A d \in Channels \ {c} : kick'[d] = kick[d]
  BY <1>1, <1>2 DEF TypeOK
<1>4. /\ Unseen(c, events) \in [Processes -> At \cup {Idle}] /\ Unseen(c, events)[x] = at[x]
      /\ \A y \in Processes \ {Cleaner} : Unseen(c, events)[y] = at[y]
  BY <1>2, UnseenIs
<1> DEFINE r == [at[x] EXCEPT !.pc = "relist"]
<1>5. r \in At /\ r.pc = "relist" /\ r.chan = c /\ at' = [Unseen(c, events) EXCEPT ![x] = r]
  BY <1>1, <1>2, <1>4 DEF At, Steps
<1> HIDE DEF r, c
<1>6. /\ at' \in [Processes -> At \cup {Idle}] /\ at'[x] = r
      /\ \A y \in Processes \ {x, Cleaner} : at'[y] = at[y]
      /\ at'[Cleaner] = Unseen(c, events)[Cleaner]
  BY <1>2, <1>4, <1>5
<1> QED BY <1>1, <1>2, <1>3, <1>5, <1>6, Names DEF c, leases, job
-----------------------------------------------------------------------------
\* Every step keeps the types.
LEMMA TypingStep == ASSUME IndInv, [Next]_vars PROVE TypeOK'
<1> USE DEF leases, job
<1>0. TypeOK /\ Cleaner \in Processes /\ Callers \subseteq Processes
  BY Names DEF IndInv
<1>1. ASSUME UNCHANGED <<kick, flight, doc, lease, disturbed, todo, same>>,
             capacity' \in Callers \cup {None, Left}, at' \in [Processes -> At \cup {Idle}]
      PROVE  TypeOK'
  BY <1>0, <1>1 DEF TypeOK, At
<1>2. ASSUME NEW x \in Processes, NEW from \in Steps, NEW to \in Steps, Step(x, from, to)
      PROVE  at' \in [Processes -> At \cup {Idle}] /\ at[x] # Idle /\ at[x].chan \in Channels
             /\ at[x].seen \in SUBSET KickEvents
  <2>1. at[x] # Idle
    BY <1>0, <1>2, Names DEF Step
  <2> QED BY <1>0, <1>2, <2>1, Moves, AtTypes DEF Moved
<1> USE DEF Steps
<1>3. ASSUME NEW x \in Callers, Get(x) \/ List(x) \/ AcquireCapacity(x) \/ Admit(x)
      PROVE  TypeOK'
  <2>1. at' \in [Processes -> At \cup {Idle}]
    <3>1. CASE List(x)
      <4>1. at[x] # Idle
        BY <1>0, <3>1, Names DEF List
      <4> QED BY <1>0, <3>1, <4>1, Moves DEF Moved
    <3>2. CASE Get(x) \/ AcquireCapacity(x) \/ Admit(x)
      BY <1>0, <1>2, <3>2 DEF Get, AcquireCapacity, Admit
    <3> QED BY <1>3, <3>1, <3>2
  <2>2. capacity' \in Callers \cup {None, Left}
    BY <1>0, <1>3 DEF Get, List, AcquireCapacity, Admit, TypeOK
  <2> QED BY <1>1, <1>3, <2>1, <2>2 DEF Get, List, AcquireCapacity, Admit
<1>4. ASSUME NEW x \in Processes, NEW c \in Channels, NEW where \in Steps, Enter(x, c, where),
             todo' \subseteq Channels
      PROVE  TypeOK'
  <2>1. /\ at' \in [Processes -> At \cup {Idle}] /\ disturbed' \subseteq Channels
        /\ lease' \in [Channels -> Processes \cup {None, Left}]
        /\ UNCHANGED <<kick, flight, doc, capacity, same>>
    BY <1>0, <1>4, EnterIs
  <2> QED BY <1>0, <1>4, <2>1 DEF TypeOK, At
<1>5. ASSUME NEW x \in Processes, NEW to \in {None, Left}, End(x, to),
             doc' \in [Channels -> Doc \cup {None}], same' \in BOOLEAN,
             flight' \subseteq Request, UNCHANGED <<kick, todo>>
      PROVE  TypeOK'
  <2>1. /\ at' \in [Processes -> At \cup {Idle}] /\ disturbed' = disturbed
        /\ lease' \in [Channels -> Processes \cup {None, Left}]
        /\ capacity' \in Callers \cup {None, Left}
    BY <1>0, <1>5, EndIs
  <2> QED BY <1>0, <1>5, <2>1 DEF TypeOK, At, Request
<1>6. flight \subseteq Request /\ doc \in [Channels -> Doc \cup {None}] /\ same \in BOOLEAN
  BY <1>0 DEF TypeOK, Request
<1>7. ASSUME NEW x \in Callers, Touch(x) PROVE TypeOK'
  <2>1. PICK d \in Doc : Write(at[x].chan, d) /\ at[x].chan \in Channels /\ End(x, None)
    BY <1>0, <1>7, TouchIs
  <2>2. doc' \in [Channels -> Doc \cup {None}] /\ same' \in BOOLEAN
    BY <1>0, <2>1, WriteIs
  <2> QED BY <1>0, <1>5, <1>6, <1>7, <2>1, <2>2 DEF Touch
<1>8. ASSUME NEW x \in Callers, Record(x) PROVE TypeOK'
  <2>1. at[x].chan \in Channels /\ at[x].seen \in SUBSET KickEvents
    BY <1>0, <1>8, AtTypes DEF Record
  <2>2. doc' \in [Channels -> Doc \cup {None}] /\ same' \in BOOLEAN
    BY <1>0, <1>8, <2>1, WriteIs, ListedTypes DEF Record
  <2> QED BY <1>0, <1>5, <1>6, <1>8, <2>2 DEF Record
<1>9. ASSUME NEW x \in Callers, Reserve(x) PROVE TypeOK'
  <2>1. /\ at' \in [Processes -> At \cup {Idle}] /\ at[x].chan \in Channels
        /\ at[x].seen \in SUBSET KickEvents
    BY <1>0, <1>2, <1>9 DEF Reserve
  <2>2. doc' \in [Channels -> Doc \cup {None}] /\ same' \in BOOLEAN
    BY <1>0, <1>9, <2>1, WriteIs, ListedTypes DEF Reserve
  <2> QED BY <1>0, <1>9, <2>1, <2>2 DEF Reserve, TypeOK, At
<1>10. ASSUME NEW x \in Callers, Post(x) PROVE TypeOK'
  <2>1. /\ kick' \in [Channels -> SUBSET KickEvents] /\ at' \in [Processes -> At \cup {Idle}]
        /\ UNCHANGED <<flight, doc, lease, capacity, disturbed, todo, same>>
    BY <1>0, <1>10, PostIs
  <2> QED BY <1>0, <2>1 DEF TypeOK, At
<1>11. ASSUME NEW x \in Processes, Fail(x) PROVE TypeOK'
  BY <1>5, <1>6, <1>11 DEF Fail, Retained
<1>12. ASSUME NEW x \in Processes, Uncertain(x) PROVE TypeOK'
  <2>1. PICK f \in Request : flight' = flight \cup {f} /\ End(x, Left)
                             /\ UNCHANGED <<kick, doc, todo, same>>
    BY <1>0, <1>12, UncertainIs
  <2> QED BY <1>5, <1>6, <2>1
<1>13. ASSUME NEW c \in Channels, Expire(c) PROVE TypeOK'
  BY <1>0, <1>13 DEF Expire, TypeOK
<1>14. ASSUME ExpireCapacity PROVE TypeOK'
  BY <1>0, <1>14 DEF ExpireCapacity, TypeOK
<1>15. ASSUME NEW c \in Channels, Age(c) PROVE TypeOK'
  <2>1. doc[c] \in Doc
    BY <1>0, <1>15, DocTypes DEF Age
  <2>2. /\ [doc[c] EXCEPT !.checked = "stale"] \in Doc
        /\ [doc[c] EXCEPT !.active = "idle", !.checked = "stale"] \in Doc
    BY <2>1 DEF Doc
  <2>3. doc' \in [Channels -> Doc \cup {None}]
    BY <1>6, <1>15, <2>2 DEF Age
  <2> QED BY <1>0, <1>15, <2>3 DEF Age, TypeOK
<1>16. ASSUME NEW f \in flight, Land(f) PROVE TypeOK'
  <2>1. /\ f.chan \in Channels /\ flight' \subseteq flight
        /\ kick' \in [Channels -> SUBSET KickEvents]
        /\ UNCHANGED <<doc, lease, capacity, disturbed, todo, same>>
    BY <1>0, <1>16, LandIs DEF Request
  <2>2. at' = at \/ \E e : at' = Unseen(f.chan, e)
    BY <1>0, <1>16, LandIs
  <2>3. at' \in [Processes -> At \cup {Idle}]
    BY <1>0, <2>1, <2>2, UnseenIs, AtTypes
  <2> QED BY <1>0, <2>1, <2>3 DEF TypeOK, At
<1>17. ASSUME Query PROVE TypeOK'
  BY <1>0, <1>17 DEF Query, TypeOK
<1>18. ASSUME Skip PROVE TypeOK'
  BY <1>0, <1>5, <1>6, <1>18 DEF Skip
<1>19. ASSUME CleanList PROVE TypeOK'
  <2>1. at[Cleaner] # Idle
    BY <1>19, Names DEF CleanList
  <2>2. at' \in [Processes -> At \cup {Idle}]
    BY <1>0, <1>19, <2>1, Moves DEF Moved
  <2> QED BY <1>0, <1>19, <2>2 DEF CleanList, TypeOK, At
<1>20. ASSUME Delete PROVE TypeOK'
  <2>1. at' \in [Processes -> At \cup {Idle}] /\ at[Cleaner].chan \in Channels
    BY <1>0, <1>2, <1>20 DEF Delete
  <2>2. kick' \in [Channels -> SUBSET KickEvents]
    BY <1>0, <1>20, <2>1 DEF Delete, TypeOK
  <2> QED BY <1>0, <1>20, <2>1, <2>2 DEF Delete, TypeOK, At
<1>21. ASSUME Drop PROVE TypeOK'
  <2>1. at[Cleaner].chan \in Channels /\ Tracked(at[Cleaner].chan)
    BY <1>0, <1>21, AtTypes DEF Drop, IndInv, Records, Cleanup
  <2>2. [doc[at[Cleaner].chan] EXCEPT !.checked = "stale"] \in Doc
    <3>1. doc[at[Cleaner].chan] \in Doc
      BY <1>0, <2>1, DocTypes
    <3> QED BY <3>1 DEF Doc
  <2>3. doc' \in [Channels -> Doc \cup {None}]
    BY <1>6, <1>21, <2>1, <2>2 DEF Drop
  <2> QED BY <1>0, <1>5, <1>6, <1>21, <2>3 DEF Drop
<1>22. ASSUME NEW x \in Callers, NEW c \in Channels, Subscribe(x, c) PROVE TypeOK'
  BY <1>0, <1>4, <1>22 DEF Subscribe, TypeOK
<1>23. ASSUME NEW c \in Channels, NextIdle(c) PROVE TypeOK'
  BY <1>0, <1>4, <1>23 DEF NextIdle, TypeOK
<1>24. CASE UNCHANGED vars
  BY <1>0, <1>24 DEF vars, TypeOK
<1> QED BY <1>3, <1>7, <1>8, <1>9, <1>10, <1>11, <1>12, <1>13, <1>14, <1>15, <1>16, <1>17,
           <1>18, <1>19, <1>20, <1>21, <1>22, <1>23, <1>24
     DEF Next
-----------------------------------------------------------------------------
\* Who stays on its channel keeps its lease.
Stays(x) ==
    /\ at[x] = Idle <=> at'[x] = Idle
    /\ at'[x].chan = at[x].chan
    /\ at[x].pc \in Cleaning <=> at'[x].pc \in Cleaning

\* A step that leaves everyone on its channel keeps the leases right.
LEMMA StayKeeps ==
    ASSUME IndInv, UNCHANGED <<lease, disturbed>>, flight' \subseteq flight,
           \A x \in Processes : Stays(x)
    PROVE  Leases'
<1>0. Leases
  BY DEF IndInv
<1> QED BY <1>0 DEF Leases, Process, Guarded, Undisturbed, Stays

\* A process that ends leaves the others theirs.
LEMMA EndKeeps ==
    ASSUME IndInv, NEW x \in Processes, NEW to \in {None, Left}, End(x, to),
           \A f \in flight' : f \in flight \/ (to = Left /\ f.chan = at[x].chan /\ at[x] # Idle)
    PROVE  Leases'
<1>0. TypeOK /\ Leases /\ flight \subseteq Request
  BY DEF IndInv, TypeOK, Request
<1>1. /\ at'[x] = Idle /\ disturbed' = disturbed
      /\ \A y \in Processes \ {x} : at'[y] = at[y]
      /\ \A c \in Channels : lease'[c] = IF lease[c] = x THEN to ELSE lease[c]
  BY <1>0, EndIs
<1>2. ASSUME NEW y \in Processes PROVE Process(y)'
  <2>1. CASE y = x
    BY <1>1, <2>1 DEF Process, Undisturbed
  <2>2. CASE y # x
    <3>1. Process(y) /\ at'[y] = at[y] /\ (at[y] # Idle => at[y].chan \in Channels)
      BY <1>0, <1>1, <2>2, AtTypes DEF Leases
    <3> QED BY <1>1, <2>2, <3>1 DEF Process, Undisturbed
  <2> QED BY <2>1, <2>2
<1>3. ASSUME NEW f \in flight' PROVE Guarded(f)'
  <2>1. CASE f \in flight
    <3>1. f.chan \in Channels /\ Guarded(f) /\ x # Left
      BY <1>0, <2>1, Names DEF Request, Leases
    <3> QED BY <1>1, <3>1 DEF Guarded
  <2>2. CASE to = Left /\ f.chan = at[x].chan /\ at[x] # Idle
    <3>1. Process(x) /\ at[x].chan \in Channels
      BY <1>0, <2>2, AtTypes DEF Leases
    <3> QED BY <1>1, <2>2, <3>1 DEF Guarded, Process, Undisturbed
  <2> QED BY <1>3, <2>1, <2>2
<1> QED BY <1>2, <1>3 DEF Leases

\* A process that comes to a channel finds it free, or disturbs it.
LEMMA EnterKeeps ==
    ASSUME IndInv, NEW x \in Processes, NEW c \in Channels, NEW where \in Steps,
           Enter(x, c, where), where \in Cleaning <=> x = Cleaner
    PROVE  Leases'
<1>0. TypeOK /\ Leases /\ flight \subseteq Request
  BY DEF IndInv, TypeOK, Request
<1>1. /\ at[x] = Idle /\ at'[x].pc = where /\ at'[x].chan = c
      /\ \A y \in Processes \ {x} : at'[y] = at[y]
      /\ lease'[c] = x /\ \A d \in Channels \ {c} : lease'[d] = lease[d]
      /\ disturbed \subseteq disturbed' /\ (lease[c] = None \/ c \in disturbed')
      /\ flight' = flight
  BY <1>0, EnterIs
<1>2. ASSUME NEW y \in Processes PROVE Process(y)'
  <2>1. CASE y = x
    BY <1>1, <2>1 DEF Process, Undisturbed
  <2>2. CASE y # x
    <3>1. Process(y) /\ at'[y] = at[y] /\ (at[y] # Idle => at[y].chan \in Channels) /\ y # None
      BY <1>0, <1>1, <2>2, AtTypes, Names DEF Leases
    <3> QED BY <1>1, <2>2, <3>1 DEF Process, Undisturbed
  <2> QED BY <2>1, <2>2
<1>3. ASSUME NEW f \in flight PROVE Guarded(f)'
  <2>1. f.chan \in Channels /\ Guarded(f) /\ None # Left
    BY <1>0, Names DEF Request, Leases
  <2> QED BY <1>1, <2>1 DEF Guarded
<1> QED BY <1>1, <1>2, <1>3 DEF Leases

\* Every step keeps the leases with those who work.
LEMMA LeasesStep == ASSUME IndInv, [Next]_vars PROVE Leases'
<1> USE DEF leases, job
<1>0. TypeOK /\ Leases /\ Cleaner \in Processes /\ Callers \subseteq Processes
  BY Names DEF IndInv
<1>1. ASSUME NEW x \in Processes, NEW to, NEW s, Moved(x, to, s), at[x] # Idle,
             to \in Cleaning <=> x = Cleaner,
             UNCHANGED <<lease, disturbed, flight>>
      PROVE  Leases'
  <2>1. Process(x)
    BY <1>0 DEF Leases
  <2>2. ASSUME NEW y \in Processes PROVE Stays(y)
    BY <1>1, <2>1 DEF Moved, Stays, Process
  <2> QED BY <1>1, <2>2, StayKeeps
<1>2. ASSUME NEW x \in Processes, NEW from \in Steps, NEW to \in Steps, Step(x, from, to),
             to \in Cleaning <=> x = Cleaner, UNCHANGED <<lease, disturbed, flight>>
      PROVE  Leases'
  <2>1. at[x] # Idle
    BY <1>0, <1>2, Names DEF Step
  <2> QED BY <1>0, <1>1, <1>2, <2>1, Moves
<1>3. ASSUME NEW x \in Callers, Get(x) \/ AcquireCapacity(x) \/ Admit(x) \/ Reserve(x)
      PROVE  Leases'
  <2>1. x # Cleaner
    BY Names
  <2> QED BY <1>0, <1>2, <1>3, <2>1 DEF Get, AcquireCapacity, Admit, Reserve, Steps, Cleaning
<1>4. ASSUME NEW x \in Callers, List(x) PROVE Leases'
  <2>1. at[x] # Idle /\ x # Cleaner
    BY <1>0, <1>4, Names DEF List
  <2> DEFINE to == IF at[x].pc = "relist" THEN "save"
                   ELSE IF Missing(kick[at[x].chan]) = {} THEN "record" ELSE "capacity"
  <2>2. Moved(x, to, kick[at[x].chan])
    BY <1>0, <1>4, <2>1, Moves
  <2>3. to \notin Cleaning
    BY DEF Cleaning
  <2> HIDE DEF to
  <2> QED BY <1>0, <1>1, <1>4, <2>1, <2>2, <2>3 DEF List
<1>5. ASSUME NEW x \in Callers, Touch(x) \/ Record(x) PROVE Leases'
  BY <1>0, <1>5, EndKeeps DEF Touch, Record
<1>6. ASSUME NEW x \in Callers, Post(x) PROVE Leases'
  <2>1. /\ at[x].pc = "post" /\ at[x] # Idle /\ at[x].chan \in Channels
        /\ at'[x].pc = "relist" /\ at'[x].chan = at[x].chan /\ at'[x] # Idle
        /\ \A y \in Processes \ {x, Cleaner} : at'[y] = at[y]
        /\ UNCHANGED <<flight, lease, disturbed>> /\ x # Cleaner
    BY <1>0, <1>6, PostIs, Names
  <2>2. PICK events : at'[Cleaner] = Unseen(at[x].chan, events)[Cleaner]
    BY <1>0, <1>6, PostIs
  <2>3. Stays(Cleaner)
    <3>1. CASE at[Cleaner] = Idle
      BY <1>0, <2>1, <2>2, <3>1, UnseenIs DEF Stays
    <3>2. CASE at[Cleaner] # Idle
      BY <1>0, <2>1, <2>2, <3>2, UnseenIs DEF Stays
    <3> QED BY <3>1, <3>2
  <2>4. ASSUME NEW y \in Processes PROVE Stays(y)
    BY <2>1, <2>3 DEF Stays, Cleaning
  <2> QED BY <2>1, <2>4, StayKeeps
<1>7. ASSUME NEW x \in Processes, Fail(x) PROVE Leases'
  BY <1>0, <1>7, EndKeeps DEF Fail, Retained
<1>8. ASSUME NEW x \in Processes, Uncertain(x) PROVE Leases'
  <2>1. PICK f \in Request : flight' = flight \cup {f} /\ f.chan = at[x].chan
                             /\ End(x, Left) /\ at[x] # Idle
    BY <1>0, <1>8, UncertainIs
  <2> QED BY <1>0, <2>1, EndKeeps
<1>9. ASSUME NEW c \in Channels, Expire(c) PROVE Leases'
  <2>1. /\ lease[c] = Left /\ flight' = {f \in flight : f.chan # c}
        /\ \A d \in Channels \ {c} : lease'[d] = lease[d]
        /\ UNCHANGED <<at, disturbed>>
    BY <1>0, <1>9 DEF Expire, TypeOK
  <2>2. ASSUME NEW y \in Processes PROVE Process(y)'
    <3>1. Process(y) /\ y # Left /\ (at[y] # Idle => at[y].chan \in Channels)
      BY <1>0, Names, AtTypes DEF Leases
    <3> QED BY <2>1, <3>1 DEF Process, Undisturbed
  <2>3. ASSUME NEW f \in flight, f.chan # c PROVE Guarded(f)'
    <3>1. f.chan \in Channels \ {c} /\ Guarded(f)
      BY <1>0, <2>3 DEF Leases, TypeOK
    <3> QED BY <2>1, <3>1 DEF Guarded
  <2> QED BY <2>1, <2>2, <2>3 DEF Leases
<1>10. ASSUME UNCHANGED <<at, lease, disturbed, flight>> PROVE Leases'
  BY <1>0, <1>10 DEF Leases, Process, Guarded, Undisturbed
<1>11. ASSUME NEW f \in flight, Land(f) PROVE Leases'
  <2>1. f.chan \in Channels /\ flight' \subseteq flight /\ UNCHANGED <<lease, disturbed>>
    BY <1>0, <1>11, LandIs DEF Request
  <2>2. at' = at \/ \E e : at' = Unseen(f.chan, e)
    BY <1>0, <1>11, LandIs
  <2>3. ASSUME NEW e, at' = Unseen(f.chan, e), NEW y \in Processes PROVE Stays(y)
    <3>1. CASE y # Cleaner
      BY <1>0, <2>1, <2>3, <3>1, UnseenIs DEF Stays
    <3>2. CASE y = Cleaner /\ at[Cleaner] = Idle
      BY <1>0, <2>1, <2>3, <3>2, UnseenIs DEF Stays
    <3>3. CASE y = Cleaner /\ at[Cleaner] # Idle
      BY <1>0, <2>1, <2>3, <3>3, UnseenIs DEF Stays
    <3> QED BY <3>1, <3>2, <3>3
  <2>4. ASSUME at' = at, NEW y \in Processes PROVE Stays(y)
    BY <2>4 DEF Stays
  <2> QED BY <2>1, <2>2, <2>3, <2>4, StayKeeps
<1>12. ASSUME Skip \/ Drop PROVE Leases'
  BY <1>0, <1>12, EndKeeps DEF Skip, Drop
<1>13. ASSUME CleanList PROVE Leases'
  <2>1. at[Cleaner] # Idle
    BY <1>13, Names DEF CleanList
  <2>2. "delete" \in Cleaning
    BY DEF Cleaning
  <2> QED BY <1>0, <1>1, <1>13, <2>1, <2>2, Moves DEF CleanList
<1>14. ASSUME Delete PROVE Leases'
  BY <1>0, <1>2, <1>14 DEF Delete, Steps, Cleaning
<1>15. ASSUME NEW x \in Callers, NEW c \in Channels, Subscribe(x, c) PROVE Leases'
  <2>1. x # Cleaner /\ "get" \in Steps /\ "get" \notin Cleaning
    BY Names DEF Steps, Cleaning
  <2> QED BY <1>0, <1>15, <2>1, EnterKeeps DEF Subscribe
<1>16. ASSUME NEW c \in Channels, NextIdle(c) PROVE Leases'
  <2>1. "clean" \in Steps /\ "clean" \in Cleaning
    BY DEF Steps, Cleaning
  <2> QED BY <1>0, <1>16, <2>1, EnterKeeps DEF NextIdle
<1>17. ASSUME ExpireCapacity \/ Query \/ UNCHANGED vars PROVE Leases'
  BY <1>10, <1>17 DEF ExpireCapacity, Query, vars
<1>18. ASSUME NEW c \in Channels, Age(c) PROVE Leases'
  BY <1>10, <1>18 DEF Age
<1> QED BY <1>3, <1>4, <1>5, <1>6, <1>7, <1>8, <1>9, <1>11, <1>12, <1>13, <1>14, <1>15, <1>16,
           <1>17, <1>18
     DEF Next
-----------------------------------------------------------------------------
\* A channel that a step leaves alone.
Untouched(c) == doc'[c] = doc[c] /\ kick'[c] = kick[c]

\* A channel that a step leaves alone keeps its records right.
LEMMA ChannelKept ==
    ASSUME IndInv, NEW c \in Channels, Untouched(c), disturbed \subseteq disturbed'
    PROVE  Channel(c)'
<1>0. Channel(c)
  BY DEF IndInv, Records
<1> QED BY <1>0 DEF Channel, Untouched, Tracked, StillIdle, ActiveCheck

\* A request that does not move is not disturbed by what a step does to the
\* channels of D, ...
LEMMA CallerKept ==
    ASSUME IndInv, NEW x \in Callers, at'[x] = at[x], capacity = x => capacity' = x,
           disturbed \subseteq disturbed', NEW D, \A d \in Channels \ D : Untouched(d),
           \A d \in D : at[x].chan = d => d \in disturbed /\ (Recent(d) => Recent(d)')
    PROVE  Caller(x)'
<1>0. TypeOK /\ Caller(x) /\ x \in Processes
  BY Names DEF IndInv, Records
<1>1. CASE at[x] = Idle
  BY <1>1, Names DEF Caller, Undisturbed
<1>2. CASE at[x] # Idle
  <2>1. PICK c \in Channels : c = at[x].chan
    BY <1>0, <1>2, AtTypes
  <2>2. Untouched(c) => Recent(c)' = Recent(c) /\ Tracked(c)' = Tracked(c) /\ kick'[c] = kick[c]
    BY DEF Untouched, Recent, Tracked
  <2>3. CASE c \in D
    <3>1. c \in disturbed' /\ (Recent(c) => Recent(c)')
      BY <2>1, <2>3
    <3>2. at[x].pc \in {"post", "relist", "save"} => Recent(c)
      BY <1>0, <2>1 DEF Caller
    <3>3. at'[x].pc \in {"post", "relist", "save"} => Recent(at[x].chan)'
      BY <2>1, <3>1, <3>2 DEF Recent, Tracked
    <3> QED BY <1>0, <2>1, <3>1, <3>3 DEF Caller, Undisturbed
  <2>4. CASE c \notin D
    <3>1. Untouched(c)
      BY <2>4
    <3> QED BY <1>0, <2>1, <2>2, <3>1 DEF Caller, Undisturbed, Recent, Tracked, Untouched
  <2> QED BY <2>3, <2>4
<1> QED BY <1>1, <1>2

\* ... and neither is a request that its caller gave up, ...
LEMMA FlyingKept ==
    ASSUME IndInv, NEW f \in flight, disturbed \subseteq disturbed', NEW D,
           \A d \in Channels \ D : Untouched(d),
           \A d \in D : f.chan = d => d \in disturbed /\ (Recent(d) => Recent(d)')
    PROVE  Flying(f)'
<1>0. TypeOK /\ Flying(f) /\ f.chan \in Channels
  BY DEF IndInv, Records, TypeOK
<1>1. CASE f.chan \in D
  BY <1>0, <1>1 DEF Flying
<1>2. CASE f.chan \notin D
  BY <1>0, <1>2 DEF Flying, Untouched, Recent, Tracked, StillIdle
<1> QED BY <1>1, <1>2

\* ... or the cleanup, ...
LEMMA CleanupKept ==
    ASSUME IndInv, at'[Cleaner] = at[Cleaner], same' = same, disturbed \subseteq disturbed',
           NEW D, \A d \in Channels \ D : Untouched(d), at[Cleaner].chan \notin D
    PROVE  Cleanup'
<1>0. TypeOK /\ Cleanup /\ Cleaner \in Processes
  BY Names DEF IndInv, Records
<1>1. CASE at[Cleaner] = Idle
  BY <1>1, Names DEF Cleanup
<1>2. CASE at[Cleaner] # Idle
  <2>1. PICK c \in Channels : c = at[Cleaner].chan
    BY <1>0, <1>2, AtTypes
  <2>2. Untouched(c)
    BY <2>1
  <2> QED BY <1>0, <2>1, <2>2 DEF Cleanup, Untouched, Tracked, StillIdle, Undisturbed
<1> QED BY <1>1, <1>2

\* ... unless its document is written, which it will notice.
LEMMA CleanupWarned ==
    ASSUME IndInv, NEW c, c = at[Cleaner].chan, at'[Cleaner].chan = c, ~same',
           Tracked(c)', c \in disturbed'
    PROVE  Cleanup'
  BY DEF Cleanup, Tracked, Undisturbed

\* Where two are at work on one channel, its lease was overtaken.
LEMMA Shared ==
    ASSUME IndInv, NEW x \in Processes, NEW c, c = at[x].chan, at[x] # Idle
    PROVE  /\ \A y \in Processes \ {x} : at[y].chan = c => c \in disturbed
           /\ \A f \in flight : f.chan = c => c \in disturbed
           /\ c \in Channels
<1>1. TypeOK /\ Leases
  BY DEF IndInv
<1> QED BY <1>1, Alone, AtTypes DEF Undisturbed

\* A step that writes nothing, and that one process at most makes.
LEMMA QuietKeeps ==
    ASSUME IndInv, UNCHANGED <<doc, kick>>, disturbed \subseteq disturbed',
           flight' \subseteq flight, NEW x,
           \A y \in Processes \ {x} : at'[y] = at[y] /\ (capacity = y => capacity' = y),
           x \in Callers => Caller(x)', x = Cleaner => Cleanup',
           x # Cleaner => same' = same
    PROVE  Records'
<1>0. Cleaner \in Processes /\ Callers \subseteq Processes
  BY Names
<1>1. PICK D : D = {}
  OBVIOUS
<1>2. \A d \in Channels \ D : Untouched(d)
  BY DEF Untouched
<1>3. ASSUME NEW y \in Callers PROVE Caller(y)'
  <2>1. CASE y = x
    BY <1>3, <2>1
  <2>2. CASE y # x
    <3>1. at'[y] = at[y] /\ (capacity = y => capacity' = y)
      BY <1>0, <2>2
    <3>2. \A d \in D : at[y].chan = d => d \in disturbed /\ (Recent(d) => Recent(d)')
      BY <1>1
    <3> QED BY <1>2, <3>1, <3>2, CallerKept
  <2> QED BY <2>1, <2>2
<1>4. Cleanup'
  <2>1. CASE x # Cleaner
    <3>1. at'[Cleaner] = at[Cleaner] /\ same' = same /\ at[Cleaner].chan \notin D
      BY <1>0, <1>1, <2>1
    <3> QED BY <1>2, <3>1, CleanupKept
  <2> QED BY <2>1
<1>5. ASSUME NEW f \in flight PROVE Flying(f)'
  <2>1. \A d \in D : f.chan = d => d \in disturbed /\ (Recent(d) => Recent(d)')
    BY <1>1
  <2> QED BY <1>2, <2>1, FlyingKept
<1>6. \A c \in Channels : Channel(c)'
  BY <1>1, <1>2, ChannelKept
<1> QED BY <1>3, <1>4, <1>5, <1>6 DEF Records

\* Steps that write nothing.
LEMMA QuietStep ==
    ASSUME IndInv,
           \/ \E x \in Callers :
                 \/ \E c \in Channels : Subscribe(x, c)
                 \/ Get(x) \/ List(x) \/ AcquireCapacity(x) \/ Admit(x)
           \/ \E x \in Processes : Fail(x)
           \/ \E c \in Channels : NextIdle(c) \/ Expire(c)
           \/ ExpireCapacity \/ Query \/ Skip \/ CleanList \/ UNCHANGED vars
    PROVE  Records'
<1> USE DEF leases, job
<1>0. TypeOK /\ Records /\ Cleaner \in Processes /\ Callers \subseteq Processes
  BY Names DEF IndInv
<1>1. ASSUME NEW x \in Callers, Moved(x, at'[x].pc, at'[x].seen), at[x] # Idle,
             UNCHANGED <<doc, kick, flight, disturbed, same>>,
             \A y \in Processes \ {x} : capacity = y => capacity' = y,
             Caller(x)'
      PROVE  Records'
  <2>1. x # Cleaner
    BY Names
  <2> QED BY <1>1, <2>1, QuietKeeps DEF Moved
<1>2. ASSUME NEW x \in Callers, NEW c \in Channels, Subscribe(x, c) PROVE Records'
  <2>1. "get" \in Steps /\ x \in Processes /\ x # Cleaner
    BY <1>0, Names DEF Steps
  <2>2. /\ at'[x].pc = "get" /\ \A y \in Processes \ {x} : at'[y] = at[y]
        /\ disturbed \subseteq disturbed' /\ UNCHANGED <<kick, flight, doc, capacity, same>>
    BY <1>0, <1>2, <2>1, EnterIs DEF Subscribe
  <2>3. Caller(x)'
    BY <2>2 DEF Caller
  <2> QED BY <2>1, <2>2, <2>3, QuietKeeps
<1>3. ASSUME NEW x \in Callers, Get(x) PROVE Records'
  <2>1. at[x].pc = "get" /\ at[x] # Idle /\ x \in Processes
    BY <1>0, <1>3, Names DEF Get, Step
  <2>2. PICK c : c = at[x].chan
    OBVIOUS
  <2> DEFINE to == IF ActiveCheck(c) THEN "touch" ELSE "list"
  <2>3. to \in Steps /\ "get" \in Steps
    BY DEF Steps
  <2>4. Moved(x, to, at[x].seen)
    BY <1>0, <1>3, <2>1, <2>2, <2>3, Moves DEF Get
  <2>5. UNCHANGED <<kick, flight, doc, lease, capacity, disturbed, same>>
    BY <1>3 DEF Get
  <2>6. Caller(x)'
    BY <2>2, <2>4, <2>5 DEF Caller, Moved, ActiveCheck, Tracked
  <2> QED BY <1>1, <2>1, <2>4, <2>5, <2>6 DEF Moved
<1>4. ASSUME NEW x \in Callers, List(x) PROVE Records'
  <2>1. at[x].pc \in {"list", "relist"} /\ at[x] # Idle /\ x \in Processes
    BY <1>0, <1>4, Names DEF List
  <2>2. PICK c : c = at[x].chan
    OBVIOUS
  <2> DEFINE to == IF at[x].pc = "relist" THEN "save"
                   ELSE IF Missing(kick[c]) = {} THEN "record" ELSE "capacity"
  <2>3. Moved(x, to, kick[c])
    BY <1>0, <1>4, <2>1, <2>2, Moves
  <2>4. UNCHANGED <<kick, flight, doc, lease, capacity, disturbed, same>>
    BY <1>4 DEF List
  <2>5. Caller(x)
    BY <1>0 DEF Records
  <2>6. Caller(x)'
    <3>1. CASE at[x].pc = "relist"
      BY <2>2, <2>3, <2>4, <2>5, <3>1 DEF Caller, Moved, Undisturbed, Recent, Tracked
    <3>2. CASE at[x].pc = "list"
      BY <2>2, <2>3, <2>4, <3>2 DEF Caller, Moved, Undisturbed, Missing
    <3> QED BY <2>1, <3>1, <3>2
  <2> QED BY <1>1, <2>1, <2>3, <2>4, <2>6 DEF Moved
<1>5. ASSUME NEW x \in Callers, AcquireCapacity(x) \/ Admit(x) PROVE Records'
  <2>0. {"capacity", "admit", "reserve"} \subseteq Steps /\ x \in Processes
    BY <1>0 DEF Steps
  <2>1. at[x].pc \in {"capacity", "admit"} /\ at[x] # Idle
    BY <1>5, Names DEF AcquireCapacity, Admit, Step
  <2>2. PICK to \in {"admit", "reserve"} : Moved(x, to, at[x].seen)
    BY <1>0, <1>5, <2>0, <2>1, Moves DEF AcquireCapacity, Admit
  <2>3. /\ UNCHANGED <<kick, flight, doc, lease, disturbed, same>>
        /\ capacity' = x
        /\ \A y \in Processes \ {x} : capacity = y => capacity' = y
    <3>1. Caller(x)
      BY <1>0 DEF Records
    <3> QED BY <1>5, <3>1, Names DEF AcquireCapacity, Admit, Step, Caller
  <2>4. Caller(x)'
    <3>1. Caller(x)
      BY <1>0 DEF Records
    <3> QED BY <2>1, <2>2, <2>3, <3>1 DEF Caller, Moved, Undisturbed
  <2> QED BY <1>1, <2>1, <2>2, <2>3, <2>4 DEF Moved
<1>6. ASSUME NEW x \in Processes, NEW to \in {None, Left}, End(x, to),
             UNCHANGED <<doc, kick, flight, same>>
      PROVE  Records'
  <2>1. /\ at'[x] = Idle /\ disturbed' = disturbed
        /\ \A y \in Processes \ {x} : at'[y] = at[y] /\ (capacity = y => capacity' = y)
    BY <1>0, <1>6, EndIs
  <2>2. x \in Callers => Caller(x)'
    BY <2>1, Names DEF Caller, Undisturbed
  <2>3. x = Cleaner => Cleanup'
    BY <2>1, Names DEF Cleanup
  <2> QED BY <1>6, <2>1, <2>2, <2>3, QuietKeeps
<1>7. ASSUME (\E x \in Processes : Fail(x)) \/ Skip PROVE Records'
  BY <1>0, <1>6, <1>7 DEF Fail, Skip, Retained
<1>8. ASSUME NEW c \in Channels, NextIdle(c) PROVE Records'
  <2>1. "clean" \in Steps
    BY DEF Steps
  <2>2. /\ at'[Cleaner].pc = "clean" /\ \A y \in Processes \ {Cleaner} : at'[y] = at[y]
        /\ disturbed \subseteq disturbed' /\ UNCHANGED <<kick, flight, doc, capacity, same>>
    BY <1>0, <1>8, <2>1, EnterIs DEF NextIdle
  <2>3. Cleanup'
    BY <2>2 DEF Cleanup
  <2> QED BY <2>2, <2>3, QuietKeeps, Names
<1>9. ASSUME UNCHANGED <<doc, kick, disturbed, at, same>>, flight' \subseteq flight,
             \A y \in Processes : capacity = y => capacity' = y
      PROVE  Records'
  <2>1. \A x \in Processes : None # x
    BY Names
  <2> QED BY <1>0, <1>9, <2>1, QuietKeeps
<1>10. ASSUME NEW c \in Channels, Expire(c) PROVE Records'
  BY <1>9, <1>10 DEF Expire
<1>11. ASSUME ExpireCapacity \/ Query \/ UNCHANGED vars PROVE Records'
  BY <1>9, <1>11, Names DEF ExpireCapacity, Query, vars
<1>12. ASSUME CleanList PROVE Records'
  <2>1. at[Cleaner].pc = "clean" /\ at[Cleaner] # Idle
    BY <1>12, Names DEF CleanList
  <2>2. PICK c : c = at[Cleaner].chan
    OBVIOUS
  <2>3. Moved(Cleaner, "delete", doc[c].ids \cup kick[c])
    BY <1>0, <1>12, <2>1, <2>2, Moves
  <2>4. /\ UNCHANGED <<kick, flight, doc, lease, capacity, disturbed>>
        /\ same' = TRUE /\ StillIdle(c)
    BY <1>12, <2>2 DEF CleanList
  <2>5. Cleanup'
    BY <2>2, <2>3, <2>4 DEF Cleanup, Moved, StillIdle, Tracked
  <2> QED BY <2>3, <2>4, <2>5, QuietKeeps, Names DEF Moved
<1> QED BY <1>2, <1>3, <1>4, <1>5, <1>7, <1>8, <1>10, <1>11, <1>12
-----------------------------------------------------------------------------
\* A step on one channel: who else works on it was overtaken.
LEMMA TouchedKeeps ==
    ASSUME IndInv, NEW c \in Channels, \A d \in Channels \ {c} : Untouched(d),
           disturbed' = disturbed, NEW x,
           \A y \in Callers \ {x} :
              /\ at'[y] = at[y] /\ (capacity = y => capacity' = y)
              /\ at[y].chan = c => c \in disturbed /\ (Recent(c) => Recent(c)'),
           x \in Callers => Caller(x)', Cleanup', Channel(c)',
           \A f \in flight' :
              \/ Flying(f)'
              \/ f \in flight /\ (f.chan = c => c \in disturbed /\ (Recent(c) => Recent(c)'))
    PROVE  Records'
<1>1. PICK D : D = {c}
  OBVIOUS
<1>2. \A d \in Channels \ D : Untouched(d)
  BY <1>1
<1>3. ASSUME NEW y \in Callers PROVE Caller(y)'
  <2>1. CASE y = x
    BY <1>3, <2>1
  <2>2. CASE y # x
    <3>1. at'[y] = at[y] /\ (capacity = y => capacity' = y)
      BY <2>2
    <3>2. \A d \in D : at[y].chan = d => d \in disturbed /\ (Recent(d) => Recent(d)')
      BY <1>1, <2>2
    <3> QED BY <1>2, <3>1, <3>2, CallerKept
  <2> QED BY <2>1, <2>2
<1>4. ASSUME NEW f \in flight' PROVE Flying(f)'
  <2>1. CASE f \in flight /\ (f.chan = c => c \in disturbed /\ (Recent(c) => Recent(c)'))
    <3>1. \A d \in D : f.chan = d => d \in disturbed /\ (Recent(d) => Recent(d)')
      BY <1>1, <2>1
    <3> QED BY <1>2, <2>1, <3>1, FlyingKept
  <2> QED BY <1>4, <2>1
<1>5. ASSUME NEW d \in Channels PROVE Channel(d)'
  BY ChannelKept
<1> QED BY <1>3, <1>4, <1>5 DEF Records

\* A request writes its channel's document.
LEMMA WriteKeeps ==
    ASSUME IndInv, NEW x \in Callers, at[x] # Idle, NEW c, c = at[x].chan,
           NEW d \in Doc, Write(c, d), d.active = "recent",
           c \notin disturbed /\ d.ids = KickEvents /\ d.checked = "fresh" => kick[c] = KickEvents,
           \A y \in Processes \ {x} : at'[y] = at[y] /\ (capacity = y => capacity' = y),
           Caller(x)', UNCHANGED <<kick, flight, disturbed>>
    PROVE  Records'
<1>0. TypeOK /\ Records /\ x \in Processes /\ x # Cleaner /\ Cleaner \in Processes
      /\ Callers \subseteq Processes
  BY Names DEF IndInv
<1>1. /\ c \in Channels /\ \A y \in Processes \ {x} : at[y].chan = c => c \in disturbed
      /\ \A f \in flight : f.chan = c => c \in disturbed
  BY <1>0, Shared
<1>2. /\ doc'[c] = d /\ \A e \in Channels \ {c} : doc'[e] = doc[e]
      /\ at[Cleaner].chan = c => ~same'
      /\ at[Cleaner].chan # c => same' = same
  BY <1>0, <1>1, WriteIs
<1>3. \A e \in Channels \ {c} : Untouched(e)
  BY <1>2 DEF Untouched
<1>4. Tracked(c)' /\ Recent(c)'
  BY <1>2, Names DEF Tracked, Recent
<1>5. Cleanup'
  <2>1. CASE at[Cleaner].chan = c
    BY <1>0, <1>1, <1>2, <1>4, <2>1, CleanupWarned
  <2>2. CASE at[Cleaner].chan # c
    <3>1. PICK D : D = {c}
      OBVIOUS
    <3>2. /\ at'[Cleaner] = at[Cleaner] /\ same' = same /\ at[Cleaner].chan \notin D
          /\ \A e \in Channels \ D : Untouched(e)
      BY <1>0, <1>2, <1>3, <2>2, <3>1
    <3> QED BY <3>2, CleanupKept
  <2> QED BY <2>1, <2>2
<1>6. Channel(c)'
  BY <1>2, <1>4 DEF Channel, StillIdle, ActiveCheck, Tracked
<1>7. \A y \in Callers \ {x} :
         /\ at'[y] = at[y] /\ (capacity = y => capacity' = y)
         /\ at[y].chan = c => c \in disturbed /\ (Recent(c) => Recent(c)')
  BY <1>0, <1>1, <1>4
<1>8. \A f \in flight' :
         f \in flight /\ (f.chan = c => c \in disturbed /\ (Recent(c) => Recent(c)'))
  BY <1>1, <1>4
<1> QED BY <1>1, <1>3, <1>5, <1>6, <1>7, <1>8, TouchedKeeps

\* Kick creates events of a channel.
LEMMA GrowKeeps ==
    ASSUME IndInv, NEW c \in Channels, Recent(c), kick[c] \subseteq kick'[c],
           kick' \in [Channels -> SUBSET KickEvents],
           \A d \in Channels \ {c} : kick'[d] = kick[d], NEW x,
           \A y \in Processes \ {x} : at[y].chan = c => c \in disturbed,
           flight' \subseteq flight,
           \A y \in Callers \ {x} : at'[y] = at[y],
           x # Cleaner, x \in Callers => Caller(x)',
           NEW events, at'[Cleaner] = Unseen(c, events)[Cleaner],
           UNCHANGED <<doc, capacity, disturbed, same>>
    PROVE  Records'
<1>0. TypeOK /\ Records /\ Cleaner \in Processes /\ Callers \subseteq Processes
  BY Names DEF IndInv
<1>1. \A e \in Channels \ {c} : Untouched(e)
  BY DEF Untouched
<1>2. Tracked(c)' /\ Recent(c)' /\ Tracked(c)
  BY DEF Tracked, Recent
<1>3. Cleanup'
  <2>1. CASE at[Cleaner].chan # c
    <3>1. PICK D : D = {c}
      OBVIOUS
    <3>2. at'[Cleaner] = at[Cleaner]
      BY <1>0, <2>1, UnseenIs
    <3>3. at[Cleaner].chan \notin D /\ \A e \in Channels \ D : Untouched(e)
      BY <1>1, <2>1, <3>1
    <3> QED BY <3>2, <3>3, CleanupKept
  <2>2. CASE at[Cleaner].chan = c
    <3>1. /\ at[Cleaner] # Idle /\ c \in disturbed
          /\ at'[Cleaner].pc = at[Cleaner].pc /\ at'[Cleaner].chan = c
      BY <1>0, <2>2, UnseenIs, Names
    <3>2. CASE at[Cleaner].pc \in {"delete", "drop"}
      <4>1. ~same
        BY <1>0, <2>2, <3>2 DEF Records, Cleanup, StillIdle, Recent
      <4> QED BY <1>2, <2>2, <3>1, <4>1, CleanupWarned
    <3>3. CASE at[Cleaner].pc \notin {"delete", "drop"}
      BY <3>1, <3>3 DEF Cleanup
    <3> QED BY <3>2, <3>3
  <2> QED BY <2>1, <2>2
<1>4. Channel(c)'
  <2>1. Channel(c) /\ kick'[c] \subseteq KickEvents
    BY <1>0 DEF Records
  <2> QED BY <1>2, <2>1 DEF Channel, StillIdle, ActiveCheck, Tracked
<1>5. \A y \in Callers \ {x} :
         /\ at'[y] = at[y] /\ (capacity = y => capacity' = y)
         /\ at[y].chan = c => c \in disturbed /\ (Recent(c) => Recent(c)')
  BY <1>0, <1>2
<1>6. ASSUME NEW f \in flight' PROVE Flying(f)'
  BY <1>0 DEF Records, Flying, Recent, StillIdle, Tracked
<1> QED BY <1>1, <1>3, <1>4, <1>5, <1>6, TouchedKeeps

\* Kick removes events of a channel.
LEMMA ShrinkKeeps ==
    ASSUME IndInv, NEW c \in Channels, kick'[c] \subseteq kick[c],
           \A d \in Channels \ {c} : kick'[d] = kick[d],
           c \notin disturbed => StillIdle(c),
           \A y \in Callers : at[y].chan = c => c \in disturbed,
           \A y \in Callers : at'[y] = at[y], flight' \subseteq flight, Cleanup',
           UNCHANGED <<doc, capacity, disturbed>>
    PROVE  Records'
<1>0. TypeOK /\ Records /\ None \notin Callers
  BY Names DEF IndInv
<1>1. \A e \in Channels \ {c} : Untouched(e)
  BY DEF Untouched
<1>2. Recent(c) => Recent(c)'
  BY DEF Tracked, Recent
<1>3. Channel(c)'
  <2>1. Channel(c)
    BY <1>0 DEF Records
  <2> QED BY <2>1 DEF Channel, StillIdle, ActiveCheck, Tracked
<1>4. \A y \in Callers \ {None} :
         /\ at'[y] = at[y] /\ (capacity = y => capacity' = y)
         /\ at[y].chan = c => c \in disturbed /\ (Recent(c) => Recent(c)')
  BY <1>2
<1>5. ASSUME NEW f \in flight' PROVE Flying(f)'
  BY <1>0 DEF Records, Flying, Recent, StillIdle, Tracked
<1> QED BY <1>0, <1>1, <1>3, <1>4, <1>5, TouchedKeeps

\* Steps of a request that write.
LEMMA WritingStep ==
    ASSUME IndInv, NEW x \in Callers,
           Touch(x) \/ Record(x) \/ Reserve(x) \/ Post(x)
    PROVE  Records'
<1> USE DEF leases, job
<1>0. /\ TypeOK /\ Records /\ Leases /\ x \in Processes /\ x # Cleaner
      /\ Cleaner \in Processes /\ Callers \subseteq Processes
  BY Names DEF IndInv
<1>1. PICK c : c = at[x].chan
  OBVIOUS
<1>2. Caller(x) /\ at[x] # Idle /\ c \in Channels /\ at[x].seen \in SUBSET KickEvents
      /\ Channel(c)
  <2>1. at[x] # Idle
    BY Names DEF Touch, Record, Reserve, Post, Step
  <2> QED BY <1>0, <1>1, <2>1, AtTypes DEF Records
<1>3. ASSUME End(x, None)
      PROVE  /\ \A y \in Processes \ {x} : at'[y] = at[y] /\ (capacity = y => capacity' = y)
             /\ Caller(x)' /\ disturbed' = disturbed
  <2>1. /\ at'[x] = Idle /\ disturbed' = disturbed
        /\ \A y \in Processes \ {x} : at'[y] = at[y] /\ (capacity = y => capacity' = y)
    BY <1>0, <1>3, EndIs
  <2>2. Caller(x)'
    BY <2>1, Names DEF Caller, Undisturbed
  <2> QED BY <2>1, <2>2
<1>4. CASE Touch(x)
  <2>1. PICK d \in Doc : /\ Write(c, d) /\ End(x, None) /\ d.active = "recent"
                         /\ \/ Tracked(c) /\ d.checked = doc[c].checked /\ d.ids = doc[c].ids
                            \/ d.checked = "stale"
    BY <1>0, <1>1, <1>4, TouchIs
  <2>2. c \notin disturbed /\ d.ids = KickEvents /\ d.checked = "fresh" => kick[c] = KickEvents
    BY <1>2, <2>1 DEF Channel, ActiveCheck
  <2>3. UNCHANGED <<kick, flight>>
    BY <1>4 DEF Touch
  <2> QED BY <1>1, <1>2, <1>3, <2>1, <2>2, <2>3, WriteKeeps
<1>5. CASE Record(x)
  <2>1. PICK d : d = Listed(at[x].seen)
    OBVIOUS
  <2>2. /\ d \in Doc /\ d.active = "recent" /\ d.ids = at[x].seen
        /\ d.checked = "fresh" => Missing(at[x].seen) = {}
    BY <1>2, <2>1, ListedTypes
  <2>3. /\ at[x].pc \in {"record", "save"} /\ Write(c, d) /\ End(x, None)
        /\ UNCHANGED <<kick, flight>>
    BY <1>1, <1>5, <2>1 DEF Record
  <2>4. c \notin disturbed => at[x].seen = kick[c]
    BY <1>1, <1>2, <2>3 DEF Caller, Undisturbed
  <2>5. c \notin disturbed /\ d.ids = KickEvents /\ d.checked = "fresh" => kick[c] = KickEvents
    BY <2>2, <2>4
  <2> QED BY <1>1, <1>2, <1>3, <2>2, <2>3, <2>5, WriteKeeps
<1>6. CASE Reserve(x)
  <2>1. PICK d : d = [Listed(at[x].seen) EXCEPT !.checked = "stale"]
    OBVIOUS
  <2>2. d \in Doc /\ d.active = "recent" /\ d.checked = "stale"
    BY <1>2, <2>1, ListedTypes
  <2>3. /\ Step(x, "reserve", "post") /\ Write(c, d)
        /\ UNCHANGED <<kick, flight, lease, capacity, disturbed>>
    BY <1>1, <1>6, <2>1 DEF Reserve
  <2>4. "reserve" \in Steps /\ "post" \in Steps
    BY DEF Steps
  <2>5. Moved(x, "post", at[x].seen) /\ at[x].pc = "reserve"
    BY <1>0, <1>2, <2>3, <2>4, Moves
  <2>6. doc'[c] = d
    BY <1>0, <1>2, <2>2, <2>3, WriteIs
  <2>7. Caller(x)'
    BY <1>1, <1>2, <2>2, <2>3, <2>5, <2>6, Names DEF Caller, Moved, Recent, Tracked
  <2> QED BY <1>1, <1>2, <2>2, <2>3, <2>5, <2>7, WriteKeeps DEF Moved
<1>7. CASE Post(x)
  <2>1. /\ at[x].pc = "post" /\ kick' \in [Channels -> SUBSET KickEvents]
        /\ \A d \in Channels \ {c} : kick'[d] = kick[d]
        /\ kick[c] \subseteq kick'[c]
        /\ at'[x].pc = "relist" /\ at'[x].chan = c /\ at'[x] # Idle
        /\ \A y \in Processes \ {x, Cleaner} : at'[y] = at[y]
        /\ UNCHANGED <<flight, doc, lease, capacity, disturbed, same>>
    BY <1>0, <1>1, <1>7, PostIs
  <2>2. PICK events : at'[Cleaner] = Unseen(c, events)[Cleaner]
    BY <1>0, <1>1, <1>7, PostIs
  <2>3. Recent(c) /\ capacity = x
    BY <1>1, <1>2, <2>1 DEF Caller
  <2>4. Caller(x)'
    BY <2>1, <2>3 DEF Caller, Recent, Tracked
  <2>5. \A y \in Processes \ {x} : at[y].chan = c => c \in disturbed
    BY <1>0, <1>1, <1>2, Shared
  <2>6. \A y \in Callers \ {x} : at'[y] = at[y]
    BY <1>0, <2>1, Names
  <2> QED BY <1>0, <1>2, <2>1, <2>2, <2>3, <2>4, <2>5, <2>6, GrowKeeps
<1> QED BY <1>4, <1>5, <1>6, <1>7

\* A caller gives up, and its request may still land.
LEMMA UncertainStep ==
    ASSUME IndInv, NEW x \in Processes, Uncertain(x)
    PROVE  Records'
<1>0. /\ TypeOK /\ Records /\ Leases /\ Cleaner \in Processes /\ Callers \subseteq Processes
      /\ Cleaner \notin Callers /\ (x # Cleaner => x \in Callers)
  BY Names DEF IndInv
<1>1. PICK c : c = at[x].chan
  OBVIOUS
<1>2. PICK f \in Request :
         /\ flight' = flight \cup {f} /\ f.chan = c
         /\ f.method = IF x = Cleaner THEN "DELETE" ELSE "POST"
         /\ End(x, Left) /\ at[x].pc \in {"post", "delete"} /\ at[x] # Idle
         /\ UNCHANGED <<kick, doc, same>>
  BY <1>0, <1>1, UncertainIs
<1>3. /\ at'[x] = Idle /\ disturbed' = disturbed
      /\ \A y \in Processes \ {x} : at'[y] = at[y] /\ (capacity = y => capacity' = y)
  BY <1>0, <1>2, EndIs
<1>4. /\ c \in Channels
      /\ \A y \in Processes \ {x} : at[y].chan = c => c \in disturbed
      /\ \A g \in flight : g.chan = c => c \in disturbed
  BY <1>1, <1>2, Shared
<1>5. (\A e \in Channels : Untouched(e)) /\ (Recent(c) => Recent(c)')
  BY <1>2 DEF Untouched, Recent, Tracked
<1>6. x \in Callers => Caller(x)'
  BY <1>3, Names DEF Caller, Undisturbed
<1>7. Cleanup'
  <2>1. CASE x = Cleaner
    BY <1>3, <2>1, Names DEF Cleanup
  <2>2. CASE x # Cleaner
    <3>1. PICK D : D = {}
      OBVIOUS
    <3>2. /\ at'[Cleaner] = at[Cleaner] /\ same' = same /\ at[Cleaner].chan \notin D
          /\ \A e \in Channels \ D : Untouched(e)
      BY <1>0, <1>2, <1>3, <1>5, <2>2, <3>1
    <3> QED BY <1>3, <3>2, CleanupKept
  <2> QED BY <2>1, <2>2
<1>8. Flying(f)'
  <2>0. Process(x)
    BY <1>0 DEF Leases
  <2>1. CASE x = Cleaner
    <3>1. at[x].pc = "delete"
      BY <1>2, <2>0, <2>1 DEF Process, Cleaning
    <3>2. c \notin disturbed => StillIdle(c)
      BY <1>0, <1>1, <1>2, <2>1, <3>1 DEF Records, Cleanup, Undisturbed
    <3> QED BY <1>2, <1>3, <2>1, <3>2 DEF Flying, StillIdle, Tracked
  <2>2. CASE x # Cleaner
    <3>1. at[x].pc = "post"
      BY <1>2, <2>0, <2>2 DEF Process, Cleaning
    <3>2. Recent(c)
      BY <1>0, <1>1, <2>2, <3>1 DEF Records, Caller
    <3> QED BY <1>2, <1>5, <2>2, <3>2 DEF Flying, Recent, Tracked
  <2> QED BY <2>1, <2>2
<1>9. Channel(c)'
  BY <1>3, <1>4, <1>5, ChannelKept
<1>10. \A y \in Callers \ {x} :
         /\ at'[y] = at[y] /\ (capacity = y => capacity' = y)
         /\ at[y].chan = c => c \in disturbed /\ (Recent(c) => Recent(c)')
  BY <1>0, <1>3, <1>4, <1>5
<1>11. \A g \in flight' :
         \/ Flying(g)'
         \/ g \in flight /\ (g.chan = c => c \in disturbed /\ (Recent(c) => Recent(c)'))
  BY <1>2, <1>4, <1>5, <1>8
<1> QED BY <1>3, <1>4, <1>5, <1>6, <1>7, <1>9, <1>10, <1>11, TouchedKeeps

\* ... and lands: on a document that is recent, or for one that is idle.
LEMMA LandStep ==
    ASSUME IndInv, NEW f \in flight, Land(f)
    PROVE  Records'
<1>0. /\ TypeOK /\ Records /\ Leases /\ Cleaner \in Processes /\ Callers \subseteq Processes
      /\ None # Cleaner /\ None \notin Processes
  BY Names DEF IndInv
<1>1. PICK c : c = f.chan
  OBVIOUS
<1>2. /\ f \in Request /\ flight' = flight \ {f}
      /\ kick' \in [Channels -> SUBSET KickEvents]
      /\ \A d \in Channels \ {c} : kick'[d] = kick[d]
      /\ UNCHANGED <<doc, lease, capacity, disturbed, same>>
  BY <1>0, <1>1, LandIs
<1>3. c \in Channels /\ Flying(f) /\ Guarded(f)
  BY <1>0, <1>1, <1>2 DEF Records, Leases, Request
<1>4. ASSUME NEW y \in Processes, at[y].chan = c PROVE c \in disturbed
  <2>1. at[y] # Idle /\ Process(y) /\ y # Left
    BY <1>0, <1>3, <1>4, Names DEF Leases
  <2> QED BY <1>1, <1>3, <1>4, <2>1 DEF Process, Undisturbed, Guarded
<1>5. CASE f.method = "POST"
  <2>1. kick[c] \subseteq kick'[c] /\ \E events : at' = Unseen(c, events)
    BY <1>0, <1>1, <1>5, LandIs
  <2>2. PICK events : at' = Unseen(c, events)
    BY <2>1
  <2>3. /\ at'[Cleaner] = Unseen(c, events)[Cleaner]
        /\ \A y \in Callers : at'[y] = at[y]
    BY <1>0, <1>3, <2>2, UnseenIs, Names
  <2>4. Recent(c)
    BY <1>1, <1>3, <1>5 DEF Flying
  <2> QED BY <1>0, <1>2, <1>3, <1>4, <2>1, <2>3, <2>4, GrowKeeps
<1>6. CASE f.method = "DELETE"
  <2>1. kick'[c] \subseteq kick[c] /\ at' = at
    BY <1>0, <1>1, <1>6, LandIs
  <2>2. c \notin disturbed => StillIdle(c)
    BY <1>1, <1>3, <1>6 DEF Flying
  <2>3. Cleanup'
    <3>1. Cleanup
      BY <1>0 DEF Records
    <3>2. ASSUME NEW e \in Channels PROVE kick'[e] \subseteq kick[e]
      BY <1>2, <2>1
    <3>3. at[Cleaner].pc \in {"delete", "drop"} => at[Cleaner].chan \in Channels
      BY <1>0, AtTypes
    <3> QED BY <1>2, <2>1, <3>1, <3>2, <3>3 DEF Cleanup, Tracked, StillIdle, Undisturbed
  <2> QED BY <1>0, <1>2, <1>3, <1>4, <2>1, <2>2, <2>3, ShrinkKeeps
<1> QED BY <1>2, <1>5, <1>6 DEF Request

\* The cleanup deletes what Kick has, ...
LEMMA DeleteStep ==
    ASSUME IndInv, Delete
    PROVE  Records'
<1>0. /\ TypeOK /\ Records /\ Cleaner \in Processes /\ Callers \subseteq Processes
      /\ Cleaner \notin Callers
  BY Names DEF IndInv
<1>1. PICK c : c = at[Cleaner].chan
  OBVIOUS
<1>2. /\ Step(Cleaner, "delete", "drop") /\ kick' = [kick EXCEPT ![c] = @ \ at[Cleaner].seen]
      /\ UNCHANGED <<flight, doc, lease, capacity, disturbed, todo, same>>
  BY <1>1 DEF Delete, leases, job
<1>3. at[Cleaner].pc = "delete" /\ at[Cleaner] # Idle /\ "delete" \in Steps /\ "drop" \in Steps
  BY <1>2, Names DEF Step, Steps
<1>4. Moved(Cleaner, "drop", at[Cleaner].seen)
  BY <1>0, <1>2, <1>3, Moves
<1>5. c \in Channels /\ \A y \in Processes \ {Cleaner} : at[y].chan = c => c \in disturbed
  BY <1>0, <1>1, <1>3, Shared
<1>6. /\ kick'[c] \subseteq kick[c] /\ \A d \in Channels \ {c} : kick'[d] = kick[d]
      /\ kick[c] \subseteq at[Cleaner].seen => kick'[c] = {}
  BY <1>0, <1>2, <1>5 DEF TypeOK
<1>7. /\ Tracked(c) /\ (same => StillIdle(c) /\ kick[c] \subseteq at[Cleaner].seen)
      /\ c \notin disturbed => same
  BY <1>0, <1>1, <1>3 DEF Records, Cleanup, Undisturbed
<1>8. Cleanup'
  BY <1>1, <1>2, <1>4, <1>6, <1>7 DEF Cleanup, Moved, Tracked, StillIdle, Undisturbed
<1>9. \A y \in Callers : at'[y] = at[y] /\ (at[y].chan = c => c \in disturbed)
  BY <1>0, <1>4, <1>5 DEF Moved
<1> QED BY <1>2, <1>5, <1>6, <1>7, <1>8, <1>9, ShrinkKeeps

\* ... and then the document, unless it was written meanwhile.
LEMMA DropStep ==
    ASSUME IndInv, Drop
    PROVE  Records'
<1>0. /\ TypeOK /\ Records /\ Cleaner \in Processes /\ Callers \subseteq Processes
      /\ Cleaner \notin Callers
  BY Names DEF IndInv
<1>1. PICK c : c = at[Cleaner].chan
  OBVIOUS
<1>2. /\ at[Cleaner].pc = "drop" /\ End(Cleaner, None) /\ UNCHANGED <<kick, flight, todo, same>>
      /\ \/ same /\ doc' = [doc EXCEPT ![c] = None]
         \/ ~same /\ doc' = [doc EXCEPT ![c].checked = "stale"]
  BY <1>1 DEF Drop, Unwritten, job
<1>3. at[Cleaner] # Idle
  BY <1>2, Names
<1>4. /\ c \in Channels /\ \A y \in Processes \ {Cleaner} : at[y].chan = c => c \in disturbed
      /\ \A g \in flight : g.chan = c => c \in disturbed
  BY <1>0, <1>1, <1>3, Shared
<1>5. Tracked(c) /\ (same => StillIdle(c) /\ kick[c] = {}) /\ Channel(c)
  BY <1>0, <1>1, <1>2, <1>4 DEF Records, Cleanup
<1>6. doc[c] \in Doc /\ doc \in [Channels -> Doc \cup {None}]
  BY <1>0, <1>4, <1>5, DocTypes DEF TypeOK
<1>7. \A e \in Channels \ {c} : Untouched(e)
  BY <1>2, <1>4, <1>6 DEF Untouched
<1>8. (Recent(c) => Recent(c)') /\ Channel(c)'
  <2>1. CASE same
    <3>1. doc'[c] = None /\ kick'[c] = {} /\ ~Recent(c)
      BY <1>2, <1>4, <1>5, <1>6, <2>1 DEF StillIdle, Recent
    <3> QED BY <3>1 DEF Channel, Tracked, StillIdle, ActiveCheck
  <2>2. CASE ~same
    <3>1. /\ doc'[c] = [doc[c] EXCEPT !.checked = "stale"] /\ kick'[c] = kick[c]
      BY <1>2, <1>4, <1>6, <2>2
    <3>2. doc'[c] \in Doc /\ doc'[c].active = doc[c].active /\ doc'[c].checked = "stale"
      BY <1>6, <3>1 DEF Doc
    <3> QED BY <1>5, <3>1, <3>2, Names DEF Channel, Tracked, StillIdle, ActiveCheck, Recent
  <2> QED BY <2>1, <2>2
<1>9. /\ at'[Cleaner] = Idle /\ disturbed' = disturbed
      /\ \A y \in Processes \ {Cleaner} : at'[y] = at[y] /\ (capacity = y => capacity' = y)
  BY <1>0, <1>2, EndIs
<1>10. Cleanup'
  BY <1>9, Names DEF Cleanup
<1>11. \A y \in Callers \ {Cleaner} :
         /\ at'[y] = at[y] /\ (capacity = y => capacity' = y)
         /\ at[y].chan = c => c \in disturbed /\ (Recent(c) => Recent(c)')
  BY <1>0, <1>4, <1>8, <1>9
<1>12. \A g \in flight' :
         g \in flight /\ (g.chan = c => c \in disturbed /\ (Recent(c) => Recent(c)'))
  BY <1>2, <1>4, <1>8
<1> QED BY <1>0, <1>4, <1>7, <1>8, <1>9, <1>10, <1>11, <1>12, TouchedKeeps

\* Time passes for a channel that nobody has the lease of.
LEMMA AgeStep ==
    ASSUME IndInv, NEW c \in Channels, Age(c)
    PROVE  Records'
<1>0. /\ TypeOK /\ Records /\ Leases /\ Cleaner \in Processes /\ Callers \subseteq Processes
      /\ None \notin Callers /\ None # Left
  BY Names DEF IndInv
<1>1. /\ Tracked(c) /\ lease[c] = None /\ UNCHANGED <<kick, flight, capacity, disturbed, at, same>>
  BY DEF Age, leases, job
<1>2. doc[c] \in Doc /\ doc \in [Channels -> Doc \cup {None}] /\ Channel(c)
  BY <1>0, <1>1, DocTypes DEF TypeOK, Records
<1>3. ASSUME NEW y \in Processes, at[y].chan = c PROVE c \in disturbed
  <2>1. at[y] # Idle /\ Process(y) /\ y # None
    BY <1>0, <1>3, Names DEF Leases
  <2> QED BY <1>1, <1>3, <2>1 DEF Process, Undisturbed
<1>4. ASSUME NEW f \in flight, f.chan = c PROVE c \in disturbed
  BY <1>0, <1>1, <1>4 DEF Leases, Guarded
<1>5. /\ doc'[c] \in Doc /\ doc'[c].checked = "stale" /\ doc'[c].ids = doc[c].ids
      /\ \/ doc'[c].active = doc[c].active
         \/ (\A y \in Processes : at[y].chan # c) /\ (\A f \in flight : f.chan # c)
      /\ \A e \in Channels \ {c} : doc'[e] = doc[e]
  <2>1. CASE doc' = [doc EXCEPT ![c].checked = "stale"]
    <3>1. doc'[c] = [doc[c] EXCEPT !.checked = "stale"]
      BY <1>2, <2>1
    <3> QED BY <1>2, <2>1, <3>1 DEF Doc
  <2>2. CASE /\ \A y \in Processes : at[y].chan # c
             /\ \A f \in flight : f.chan # c
             /\ doc' = [doc EXCEPT ![c].active = "idle", ![c].checked = "stale"]
    <3>1. doc'[c] = [doc[c] EXCEPT !.active = "idle", !.checked = "stale"]
      BY <1>2, <2>2
    <3> QED BY <1>2, <2>2, <3>1 DEF Doc
  <2> QED BY <2>1, <2>2 DEF Age
<1>6. \A e \in Channels \ {c} : Untouched(e)
  BY <1>1, <1>5 DEF Untouched
<1>7. Tracked(c)' /\ (doc'[c].active = doc[c].active => (Recent(c) => Recent(c)'))
  BY <1>1, <1>5, Names DEF Tracked, Recent
<1>8. Channel(c)'
  BY <1>1, <1>5, <1>7 DEF Channel, StillIdle, ActiveCheck
<1>9. \A y \in Callers \ {None} :
         /\ at'[y] = at[y] /\ (capacity = y => capacity' = y)
         /\ at[y].chan = c => c \in disturbed /\ (Recent(c) => Recent(c)')
  BY <1>0, <1>1, <1>3, <1>5, <1>7
<1>10. \A f \in flight' :
         f \in flight /\ (f.chan = c => c \in disturbed /\ (Recent(c) => Recent(c)'))
  BY <1>1, <1>4, <1>5, <1>7
<1>11. Cleanup'
  <2>1. CASE at[Cleaner].chan # c
    <3>1. PICK D : D = {c}
      OBVIOUS
    <3>2. at[Cleaner].chan \notin D /\ \A e \in Channels \ D : Untouched(e)
      BY <1>6, <2>1, <3>1
    <3> QED BY <1>1, <3>2, CleanupKept
  <2>2. CASE at[Cleaner].chan = c
    <3>1. doc'[c].active = doc[c].active /\ Cleanup /\ c \in disturbed
      BY <1>0, <1>3, <1>5, <2>2 DEF Records
    <3> QED BY <1>1, <1>7, <2>2, <3>1 DEF Cleanup, StillIdle, Undisturbed, Tracked
  <2> QED BY <2>1, <2>2
<1> QED BY <1>0, <1>1, <1>6, <1>8, <1>9, <1>10, <1>11, TouchedKeeps

\* Every step keeps the records.
LEMMA RecordsStep == ASSUME IndInv, [Next]_vars PROVE Records'
  BY QuietStep, WritingStep, UncertainStep, LandStep, DeleteStep, DropStep, AgeStep DEF Next
-----------------------------------------------------------------------------
\* There are finitely many documents.
LEMMA Counting ==
    /\ IsFiniteSet(Documents) /\ Cardinality(Documents) \in Nat
    /\ \A D : D \subseteq Documents => IsFiniteSet(D) /\ Cardinality(D) \in Nat
                                        /\ Cardinality(D) <= Cardinality(Documents)
    /\ \A D, c : D \subseteq Documents \cup {c} /\ c \notin Documents =>
                  Cardinality(D) \in Nat /\ Cardinality(D) <= Cardinality(Documents) + 1
<1>1. IsFiniteSet(Channels) /\ Documents \subseteq Channels
  BY KickAssumption DEF Documents
<1>2. IsFiniteSet(Documents) /\ Cardinality(Documents) \in Nat
  BY <1>1, FS_Subset, FS_CardinalityType
<1>3. ASSUME NEW S, IsFiniteSet(S), NEW D, D \subseteq S
      PROVE  IsFiniteSet(D) /\ Cardinality(D) \in Nat /\ Cardinality(D) <= Cardinality(S)
  BY <1>3, FS_Subset, FS_CardinalityType
<1>4. ASSUME NEW D, NEW c, D \subseteq Documents \cup {c}, c \notin Documents
      PROVE  Cardinality(D) \in Nat /\ Cardinality(D) <= Cardinality(Documents) + 1
  <2>1. PICK S : S = Documents \cup {c}
    OBVIOUS
  <2>2. IsFiniteSet(S) /\ Cardinality(S) = Cardinality(Documents) + 1
    BY <1>2, <1>4, <2>1, FS_AddElement
  <2> QED BY <1>3, <1>4, <2>1, <2>2
<1> QED BY <1>2, <1>3, <1>4

\* A step that tracks no other channel, and admits none, leaves the room there is.
LEMMA RoomKept ==
    ASSUME IndInv, disturbed \subseteq disturbed', NEW x,
           x \in Callers => at'[x].pc # "reserve",
           \A y \in Callers \ {x} : at'[y] = at[y],
           disturbed = {} =>
              /\ \A c \in Channels : Tracked(c)' => Tracked(c)
              /\ \A y \in Callers \ {x} : \A c \in Channels :
                    c = at[y].chan /\ Tracked(c) => Tracked(c)'
    PROVE  Room'
<1> SUFFICES ASSUME disturbed' = {} PROVE Room'
  BY DEF Room
<1>0. TypeOK /\ Room /\ disturbed = {} /\ Callers \subseteq Processes /\ Limit \in Nat
  BY Names DEF IndInv
<1>1. PICK D : D = Documents'
  OBVIOUS
<1>2. D \subseteq Documents
  BY <1>0, <1>1 DEF Documents
<1>3. /\ Cardinality(D) \in Nat /\ Cardinality(D) <= Cardinality(Documents)
      /\ Cardinality(Documents) \in Nat
  BY <1>2, Counting
<1>4. Cardinality(D) <= Limit
  BY <1>0, <1>3 DEF Room
<1>5. ASSUME NEW y \in Callers, at'[y].pc = "reserve"
      PROVE  Tracked(at[y].chan)' \/ Cardinality(D) < Limit
  <2>1. y # x /\ at'[y] = at[y]
    BY <1>5
  <2>2. PICK c \in Channels : c = at[y].chan
    BY <1>0, <1>5, <2>1, AtTypes, Names
  <2>3. Tracked(c) \/ Cardinality(Documents) < Limit
    BY <1>0, <1>5, <2>1, <2>2 DEF Room
  <2>4. CASE Tracked(c)
    <3>1. Tracked(c)'
      BY <1>0, <2>1, <2>2, <2>4
    <3> QED BY <2>1, <2>2, <3>1 DEF Tracked
  <2>5. CASE Cardinality(Documents) < Limit
    BY <1>0, <1>3, <2>5
  <2> QED BY <2>3, <2>4, <2>5
<1> QED BY <1>1, <1>4, <1>5 DEF Room

\* A request is admitted where there is room.
LEMMA AdmitRoom == ASSUME IndInv, NEW x \in Callers, Admit(x) PROVE Room'
<1>0. /\ TypeOK /\ Room /\ Records /\ x \in Processes /\ Callers \subseteq Processes
  BY Names DEF IndInv
<1>1. /\ Step(x, "admit", "reserve") /\ UNCHANGED <<doc, disturbed>>
      /\ at[x].pc = "admit" /\ at[x] # Idle /\ "admit" \in Steps /\ "reserve" \in Steps
  BY Names DEF Admit, Step, leases, Steps
<1>2. Moved(x, "reserve", at[x].seen)
  BY <1>0, <1>1, Moves
<1>3. PICK c \in Channels : c = at[x].chan
  BY <1>0, <1>1, AtTypes
<1>4. PICK D : D = Documents
  OBVIOUS
<1>5. D = Documents' /\ Tracked(c)' = Tracked(c) /\ at'[x].chan = c
  BY <1>1, <1>2, <1>3, <1>4 DEF Documents, Tracked, Moved
<1>6. disturbed = {} => Tracked(c) \/ Cardinality(D) < Limit
  <2>1. disturbed = {} => at[x].seen = kick[c]
    BY <1>0, <1>1, <1>3 DEF Records, Caller, Undisturbed
  <2>2. Chat \in kick[c] => Tracked(c)
    BY <1>0 DEF Records, Channel
  <2>3. Chat \in at[x].seen \/ Tracked(c) \/ Cardinality(D) < Limit
    BY <1>3, <1>4 DEF Admit, Admitted, Documents
  <2> QED BY <2>1, <2>2, <2>3
<1>7. ASSUME NEW y \in Callers, at'[y].pc = "reserve", disturbed = {}
      PROVE  Tracked(at[y].chan)' \/ Cardinality(D) < Limit
  <2>1. CASE y = x
    BY <1>3, <1>5, <1>6, <1>7, <2>1 DEF Tracked
  <2>2. CASE y # x
    <3>1. at'[y] = at[y]
      BY <1>0, <1>2, <2>2 DEF Moved
    <3> QED BY <1>0, <1>1, <1>4, <1>7, <3>1 DEF Room, Tracked
  <2> QED BY <2>1, <2>2
<1> QED BY <1>0, <1>1, <1>4, <1>5, <1>7 DEF Room

\* The one that is admitted takes it.
LEMMA ReserveRoom == ASSUME IndInv, NEW x \in Callers, Reserve(x) PROVE Room'
<1>0. /\ TypeOK /\ Room /\ Records /\ x \in Processes /\ Callers \subseteq Processes
      /\ Limit \in Nat
  BY Names DEF IndInv
<1>1. /\ Step(x, "reserve", "post") /\ UNCHANGED <<capacity, disturbed>>
      /\ at[x].pc = "reserve" /\ at[x] # Idle /\ "reserve" \in Steps /\ "post" \in Steps
  BY Names DEF Reserve, Step, leases, Steps
<1>2. Moved(x, "post", at[x].seen)
  BY <1>0, <1>1, Moves
<1>3. PICK c \in Channels : c = at[x].chan
  BY <1>0, <1>1, AtTypes
<1>4. \A e \in Channels \ {c} : doc'[e] = doc[e]
  <2>1. at[x].seen \in SUBSET KickEvents
    BY <1>0, <1>1, AtTypes
  <2>2. PICK d : d = [Listed(at[x].seen) EXCEPT !.checked = "stale"]
    OBVIOUS
  <2>3. d \in Doc /\ Write(c, d)
    BY <1>3, <2>1, <2>2, ListedTypes DEF Reserve
  <2> QED BY <1>0, <2>3, WriteIs
<1>5. PICK D : D = Documents'
  OBVIOUS
<1>6. D \subseteq Documents \cup {c}
  BY <1>4, <1>5 DEF Documents, Tracked
<1>7. disturbed = {} => Cardinality(D) <= Limit
  <2>1. CASE Tracked(c)
    <3>1. D \subseteq Documents
      BY <1>6, <2>1 DEF Documents
    <3>2. /\ Cardinality(D) \in Nat /\ Cardinality(D) <= Cardinality(Documents)
          /\ Cardinality(Documents) \in Nat
      BY <3>1, Counting
    <3> QED BY <1>0, <3>2 DEF Room
  <2>2. CASE ~Tracked(c)
    <3>1. c \notin Documents
      BY <2>2 DEF Documents
    <3>2. /\ Cardinality(D) \in Nat /\ Cardinality(D) <= Cardinality(Documents) + 1
          /\ Cardinality(Documents) \in Nat
      BY <1>6, <3>1, Counting
    <3>3. disturbed = {} => Cardinality(Documents) < Limit
      BY <1>0, <1>1, <1>3, <2>2 DEF Room
    <3> QED BY <1>0, <3>2, <3>3
  <2> QED BY <2>1, <2>2
<1>8. ASSUME NEW y \in Callers, at'[y].pc = "reserve" PROVE FALSE
  <2>1. y # x
    BY <1>2, <1>8 DEF Moved
  <2>2. at'[y] = at[y]
    BY <1>0, <1>2, <2>1 DEF Moved
  <2> QED BY <1>0, <1>1, <1>8, <2>1, <2>2 DEF Records, Caller
<1> QED BY <1>1, <1>5, <1>7, <1>8 DEF Room

\* Every step keeps the room for those that are admitted.
LEMMA RoomStep == ASSUME IndInv, [Next]_vars PROVE Room'
<1> USE DEF leases, job
<1>0. /\ TypeOK /\ Records /\ Leases /\ Cleaner \in Processes /\ Callers \subseteq Processes
      /\ Cleaner \notin Callers /\ None \notin Callers /\ Idle.pc # "reserve"
  BY Names DEF IndInv
<1>1. ASSUME NEW x, x \in Callers => at'[x].pc # "reserve",
             \A y \in Callers \ {x} : at'[y] = at[y], doc' = doc, disturbed \subseteq disturbed'
      PROVE  Room'
  <2>1. \A c \in Channels : Tracked(c)' = Tracked(c)
    BY <1>1 DEF Tracked
  <2> QED BY <1>1, <2>1, RoomKept
<1>2. ASSUME NEW x \in Processes, NEW to \in {None, Left}, End(x, to)
      PROVE  /\ x \in Callers => at'[x].pc # "reserve"
             /\ \A y \in Callers \ {x} : at'[y] = at[y]
             /\ disturbed' = disturbed
  BY <1>0, <1>2, EndIs
<1>3. ASSUME NEW x \in Callers, NEW c \in Channels, Subscribe(x, c) PROVE Room'
  <2>1. "get" \in Steps
    BY DEF Steps
  <2>2. /\ at'[x].pc = "get" /\ (\A y \in Processes \ {x} : at'[y] = at[y])
        /\ disturbed \subseteq disturbed' /\ doc' = doc
    BY <1>0, <1>3, <2>1, EnterIs DEF Subscribe
  <2> QED BY <1>0, <1>1, <2>2
<1>4. ASSUME NEW c \in Channels, NextIdle(c) PROVE Room'
  <2>1. "clean" \in Steps
    BY DEF Steps
  <2>2. /\ \A y \in Processes \ {Cleaner} : at'[y] = at[y]
        /\ disturbed \subseteq disturbed' /\ doc' = doc
    BY <1>0, <1>4, <2>1, EnterIs DEF NextIdle
  <2> QED BY <1>0, <1>1, <2>2
<1>5. ASSUME NEW x \in Callers, Get(x) \/ AcquireCapacity(x) PROVE Room'
  <2>0. at[x] # Idle /\ {"get", "touch", "list", "capacity", "admit"} \subseteq Steps
    BY <1>5, Names DEF Get, AcquireCapacity, Step, Steps
  <2>1. PICK to \in {"touch", "list", "admit"} : Moved(x, to, at[x].seen)
    BY <1>0, <1>5, <2>0, Moves DEF Get, AcquireCapacity
  <2>2. doc' = doc /\ disturbed' = disturbed
    BY <1>5 DEF Get, AcquireCapacity
  <2> QED BY <1>0, <1>1, <2>1, <2>2 DEF Moved
<1>6. ASSUME NEW x \in Callers, List(x) PROVE Room'
  <2>1. at[x] # Idle
    BY <1>6, Names DEF List
  <2>2. PICK to \in {"save", "record", "capacity"} : Moved(x, to, kick[at[x].chan])
    BY <1>0, <1>6, <2>1, Moves
  <2>3. doc' = doc /\ disturbed' = disturbed
    BY <1>6 DEF List
  <2> QED BY <1>0, <1>1, <2>2, <2>3 DEF Moved
<1>7. ASSUME NEW x \in Callers, Post(x) PROVE Room'
  <2>1. /\ at'[x].pc = "relist" /\ (\A y \in Processes \ {x, Cleaner} : at'[y] = at[y])
        /\ doc' = doc /\ disturbed' = disturbed
    BY <1>0, <1>7, PostIs
  <2>2. \A y \in Callers \ {x} : at'[y] = at[y]
    BY <1>0, <2>1
  <2> QED BY <1>1, <2>1, <2>2
<1>8. ASSUME NEW x \in Processes, Fail(x) \/ Uncertain(x) PROVE Room'
  <2>1. doc' = doc /\ \E to \in {None, Left} : End(x, to)
    BY <1>8 DEF Fail, Uncertain, Retained
  <2> QED BY <1>1, <1>2, <2>1
<1>9. ASSUME Skip PROVE Room'
  BY <1>0, <1>1, <1>2, <1>9 DEF Skip
<1>10. ASSUME UNCHANGED <<at, doc, disturbed>> PROVE Room'
  BY <1>0, <1>1, <1>10
<1>11. ASSUME NEW c \in Channels, Expire(c) PROVE Room'
  BY <1>10, <1>11 DEF Expire
<1>12. ASSUME ExpireCapacity \/ Query \/ UNCHANGED vars PROVE Room'
  BY <1>10, <1>12 DEF ExpireCapacity, Query, vars
<1>13. ASSUME NEW f \in flight, Land(f) PROVE Room'
  <2>1. /\ f.chan \in Channels /\ doc' = doc /\ disturbed' = disturbed
        /\ at' = at \/ \E events : at' = Unseen(f.chan, events)
    BY <1>0, <1>13, LandIs DEF Request
  <2>2. \A y \in Callers : at'[y] = at[y]
    BY <1>0, <2>1, UnseenIs
  <2> QED BY <1>0, <1>1, <2>1, <2>2
<1>14. ASSUME CleanList \/ Delete PROVE Room'
  <2>1. at[Cleaner] # Idle /\ "delete" \in Steps /\ "drop" \in Steps
    BY <1>14, Names DEF CleanList, Delete, Step, Steps
  <2>2. \A y \in Processes \ {Cleaner} : at'[y] = at[y]
    BY <1>0, <1>14, <2>1, Moves DEF Moved, Delete
  <2>3. doc' = doc /\ disturbed' = disturbed
    BY <1>14 DEF CleanList, Delete
  <2> QED BY <1>0, <1>1, <2>2, <2>3
<1>15. ASSUME NEW x \in Callers, Touch(x) \/ Record(x) PROVE Room'
  <2>1. at[x].pc \in {"touch", "record", "save"} /\ at[x] # Idle /\ End(x, None)
    BY <1>15, Names DEF Touch, Record
  <2>2. PICK c \in Channels : c = at[x].chan
    BY <1>0, <2>1, AtTypes
  <2>3. PICK d \in Doc : Write(c, d)
    <3>1. CASE Touch(x)
      BY <1>0, <2>2, <3>1, TouchIs
    <3>2. CASE Record(x)
      <4>1. at[x].seen \in SUBSET KickEvents
        BY <1>0, <2>1, AtTypes
      <4> QED BY <2>2, <3>2, <4>1, ListedTypes DEF Record
    <3> QED BY <1>15, <3>1, <3>2
  <2>4. doc'[c] = d /\ d # None /\ \A e \in Channels \ {c} : doc'[e] = doc[e]
    BY <1>0, <2>3, WriteIs, Names
  <2>5. disturbed = {} => Tracked(c)
    <3>1. Caller(x) /\ Channel(c) /\ Chat \in KickEvents
      BY <1>0, Names DEF Records
    <3>2. CASE at[x].pc = "touch"
      BY <2>1, <2>2, <3>1, <3>2 DEF Caller, Undisturbed
    <3>3. CASE at[x].pc = "save"
      BY <2>2, <3>1, <3>3 DEF Caller, Recent
    <3>4. CASE at[x].pc = "record"
      <4>1. disturbed = {} => Chat \in kick[c]
        BY <2>1, <2>2, <3>1, <3>4 DEF Caller, Undisturbed, Missing
      <4> QED BY <3>1, <4>1 DEF Channel
    <3> QED BY <2>1, <3>2, <3>3, <3>4
  <2>6. /\ disturbed = {} => \A e \in Channels : Tracked(e)' => Tracked(e)
        /\ \A e \in Channels : Tracked(e) => Tracked(e)'
    BY <2>4, <2>5 DEF Tracked
  <2>7. /\ at'[x].pc # "reserve" /\ disturbed' = disturbed
        /\ \A y \in Callers \ {x} : at'[y] = at[y]
    BY <1>0, <1>2, <2>1
  <2> QED BY <2>6, <2>7, RoomKept
<1>16. ASSUME Drop PROVE Room'
  <2>1. at[Cleaner].pc = "drop" /\ at[Cleaner] # Idle /\ End(Cleaner, None)
    BY <1>16, Names DEF Drop
  <2>2. PICK c \in Channels : c = at[Cleaner].chan
    BY <1>0, <2>1, AtTypes
  <2>3. Tracked(c) /\ \A y \in Processes \ {Cleaner} : at[y].chan = c => c \in disturbed
    BY <1>0, <2>1, <2>2, Shared DEF Records, Cleanup
  <2>4. \A e \in Channels \ {c} : doc'[e] = doc[e]
    BY <1>0, <1>16, <2>2 DEF Drop, TypeOK
  <2>5. \A e \in Channels : Tracked(e)' => Tracked(e)
    BY <2>3, <2>4 DEF Tracked
  <2>6. disturbed = {} => \A y \in Callers \ {Cleaner} : \A e \in Channels :
                             e = at[y].chan /\ Tracked(e) => Tracked(e)'
    BY <1>0, <2>3, <2>4 DEF Tracked
  <2>7. /\ disturbed' = disturbed /\ \A y \in Callers \ {Cleaner} : at'[y] = at[y]
    BY <1>0, <1>2, <2>1
  <2> QED BY <1>0, <2>5, <2>6, <2>7, RoomKept
<1>17. ASSUME NEW c \in Channels, Age(c) PROVE Room'
  <2>1. /\ Tracked(c) /\ UNCHANGED <<at, disturbed>>
        /\ \A e \in Channels \ {c} : doc'[e] = doc[e]
    BY <1>0, <1>17 DEF Age, TypeOK
  <2>2. doc'[c] # None
    <3>1. doc[c] \in Doc /\ doc \in [Channels -> Doc \cup {None}]
      BY <1>0, <2>1, DocTypes DEF TypeOK
    <3>2. /\ [doc[c] EXCEPT !.checked = "stale"] \in Doc
          /\ [doc[c] EXCEPT !.active = "idle", !.checked = "stale"] \in Doc
      BY <3>1 DEF Doc
    <3>3. doc'[c] \in Doc
      BY <1>17, <3>1, <3>2 DEF Age
    <3> QED BY <3>3, Names
  <2>3. \A e \in Channels : Tracked(e)' = Tracked(e)
    BY <2>1, <2>2 DEF Tracked
  <2> QED BY <1>0, <2>1, <2>3, RoomKept
<1> QED BY <1>3, <1>4, <1>5, <1>6, <1>7, <1>8, <1>9, <1>11, <1>12, <1>13, <1>14, <1>15, <1>16,
           <1>17, AdmitRoom, ReserveRoom
     DEF Next
-----------------------------------------------------------------------------
\* At the start nobody works and nothing is recorded.
LEMMA Initially == Init => IndInv
<1> SUFFICES ASSUME Init PROVE IndInv
  OBVIOUS
<1>1. TypeOK
  BY DEF Init, TypeOK
<1>2. ASSUME NEW x \in Processes PROVE at[x] = Idle /\ at[x].pc = "idle"
  BY Names DEF Init
<1>3. Leases
  BY <1>2 DEF Init, Leases, Process, Undisturbed
<1>4. \A c \in Channels : ~Tracked(c) /\ kick[c] = {}
  BY DEF Init, Tracked
<1>5. Records
  <2>1. \A x \in Callers : Caller(x)
    BY <1>2, Names DEF Caller, Undisturbed
  <2>2. Cleanup
    BY <1>2, Names DEF Cleanup
  <2>3. \A c \in Channels : Channel(c)
    BY <1>4 DEF Channel, StillIdle, ActiveCheck
  <2> QED BY <2>1, <2>2, <2>3 DEF Records, Init
<1>6. Room
  <2>1. Documents = {}
    BY <1>4 DEF Documents
  <2>2. Cardinality(Documents) = 0 /\ Limit \in Nat
    BY <2>1, FS_EmptySet, Names
  <2>3. \A x \in Callers : at[x].pc # "reserve"
    BY <1>2, Names
  <2> QED BY <2>2, <2>3 DEF Room
<1> QED BY <1>1, <1>3, <1>5, <1>6 DEF IndInv

\* Every step keeps the inductive invariant.
LEMMA Stepwise == ASSUME IndInv, [Next]_vars PROVE IndInv'
  BY TypingStep, LeasesStep, RecordsStep, RoomStep DEF IndInv

\* The inductive invariant holds in every state.
THEOREM Invariance == Spec => []IndInv
  BY Initially, Stepwise, PTL DEF Spec

\* A channel with subscriptions at Kick, or with a request that may still
\* create some, has a document, whatever fails and whichever leases are
\* overtaken: the reservation before the POST and the cleanup's precondition
\* on the document's deletion keep every subscription in the cleanup's sight.
THEOREM SubscriptionsTracked == Spec => []NothingLeaked
<1>1. ASSUME IndInv PROVE NothingLeaked
  BY <1>1 DEF IndInv, Records, Channel, Flying, Recent, NothingLeaked
<1> QED BY <1>1, Invariance, PTL

\* The documents say what is at Kick: where no lease is overtaken, no more
\* channels are admitted than Kick allows, on however many replicas; and a
\* complete set that was checked within the hour is complete, on every channel
\* whose own lease was not overtaken.
THEOREM DocumentsTrue == Spec => []DocumentInv
<1>1. ASSUME IndInv PROVE DocumentInv
  <2>1. \A c \in Channels : Chat \in kick[c] => Tracked(c)
    BY <1>1 DEF IndInv, Records, Channel
  <2>2. {c \in Channels : Chat \in kick[c] \/ Tracked(c)} = Documents
    BY <2>1 DEF Documents
  <2>3. WithinCapacity
    BY <1>1, <2>2 DEF IndInv, Room, WithinCapacity
  <2>4. FreshComplete
    BY <1>1 DEF IndInv, Records, Channel, FreshComplete
  <2> QED BY <1>1, <2>3, <2>4 DEF IndInv, DocumentInv
<1> QED BY <1>1, Invariance, PTL

\* Only a DELETE takes events from a channel.
LEMMA Removing ==
    ASSUME IndInv, [Next]_vars, NEW c \in Channels, ~(kick[c] \subseteq kick'[c])
    PROVE  \/ Delete
           \/ \E f \in flight : Land(f) /\ f.method = "DELETE" /\ f.chan = c
<1>0. TypeOK
  BY DEF IndInv
<1>1. kick' # kick
  OBVIOUS
<1>2. ASSUME NEW x \in Callers, Post(x) PROVE FALSE
  BY <1>0, <1>2, PostIs
<1>3. ASSUME NEW f \in flight, Land(f) PROVE f.method = "DELETE" /\ f.chan = c
  BY <1>0, <1>3, LandIs
<1>4. ASSUME NEW x \in Callers,
             \/ \E d \in Channels : Subscribe(x, d)
             \/ Get(x) \/ Touch(x) \/ List(x) \/ Record(x)
             \/ AcquireCapacity(x) \/ Admit(x) \/ Reserve(x)
      PROVE  FALSE
  BY <1>1, <1>4 DEF Subscribe, Enter, Get, Touch, List, Record, AcquireCapacity, Admit, Reserve
<1>5. ASSUME NEW x \in Processes, Fail(x) \/ Uncertain(x) PROVE FALSE
  BY <1>1, <1>5 DEF Fail, Uncertain
<1>6. ASSUME NEW d \in Channels, NextIdle(d) \/ Expire(d) \/ Age(d) PROVE FALSE
  BY <1>1, <1>6 DEF NextIdle, Enter, Expire, Age
<1>7. ASSUME ExpireCapacity \/ Query \/ Skip \/ CleanList \/ Drop \/ UNCHANGED vars PROVE FALSE
  BY <1>1, <1>7 DEF ExpireCapacity, Query, Skip, CleanList, Drop, vars
<1> QED BY <1>2, <1>3, <1>4, <1>5, <1>6, <1>7 DEF Next

\* The cleanup, and a DELETE of its that lands late, takes nothing from a
\* channel that is used again, unless the channel's lease was overtaken: it
\* reads the document again under the lease, and keeps the lease for as long
\* as the DELETE may land.
THEOREM InUseIsKept == Spec => OnlyIdleRemoved
<1>1. ASSUME IndInv, [Next]_vars, NEW c \in Channels \ disturbed', ~(kick[c] \subseteq kick'[c])
      PROVE  doc[c].active = "idle"
  <2>0. TypeOK /\ Records /\ Cleaner \in Processes
    BY <1>1, Names DEF IndInv
  <2>1. CASE Delete
    <3>1. /\ at[Cleaner].pc = "delete" /\ at[Cleaner] # Idle /\ disturbed' = disturbed
          /\ kick' = [kick EXCEPT ![at[Cleaner].chan] = @ \ at[Cleaner].seen]
      BY <2>1, Names DEF Delete, Step, leases
    <3>2. at[Cleaner].chan = c
      BY <1>1, <2>0, <3>1 DEF TypeOK
    <3> QED BY <1>1, <2>0, <3>1, <3>2 DEF Records, Cleanup, Undisturbed, StillIdle
  <2>2. ASSUME NEW f \in flight, Land(f), f.method = "DELETE", f.chan = c
        PROVE  doc[c].active = "idle"
    <3>1. disturbed' = disturbed
      BY <2>0, <2>2, LandIs
    <3> QED BY <1>1, <2>0, <2>2, <3>1 DEF Records, Flying, StillIdle
  <2> QED BY <1>1, <2>1, <2>2, Removing
<1>2. ASSUME IndInv, [Next]_vars
      PROVE  \A c \in Channels \ disturbed' :
                ~(kick[c] \subseteq kick'[c]) => doc[c].active = "idle"
  BY <1>1, <1>2
<1> QED BY <1>2, Invariance, PTL DEF Spec, OnlyIdleRemoved
=============================================================================
