-------------------------- MODULE KickSubscriptions --------------------------
(***************************************************************************)
(* agent/internal/subscriptions/kick.go and agent/internal/jobs/cleanup.go:*)
(* the event subscriptions a channel has at Kick, and the Firestore        *)
(* document that tracks them.  Subscribe requests create what is missing   *)
(* under the channel's lease and, for admissions, the capacity lease; the  *)
(* daily cleanup removes channels that nobody used for a week.             *)
(*                                                                         *)
(* A lease is its owner: SubscriptionLock shows that it excludes other     *)
(* work, and that a request whose outcome is uncertain is over when the    *)
(* lease left behind for it expires.  Where the clocks of two replicas     *)
(* disagree by more than that protocol allows for, a lease is overtaken    *)
(* while its holder still works.  Subscription ids are abstracted to the   *)
(* events they deliver; Kick keeps one per event of a channel.             *)
(***************************************************************************)
EXTENDS Naturals, FiniteSets

CONSTANTS
    Channels, Callers,
    Cleaner,          \* the one cleanup under way (jobs.Run holds a lease)
    KickEvents, Chat, \* the events wanted, and the one Kick limits
    Limit,            \* KickChannelLimit
    None, Left,       \* nobody; a holder that died or kept its lease
    MaxDisturbed,     \* bound: channels whose lease is overtaken, once each
    MaxFlight         \* bound: uncertain requests under way at once

Doc == [ids : SUBSET KickEvents, checked : {"fresh", "stale"},
        active : {"recent", "idle"}]

ASSUME KickAssumption ==
    /\ Chat \in KickEvents
    /\ IsFiniteSet(Channels)
    /\ Cleaner \notin Callers
    /\ {None, Left} \cap (Channels \cup Callers \cup {Cleaner}) = {}
    /\ None # Left /\ None \notin Doc
    /\ Limit \in Nat \ {0}

VARIABLES
    kick,       \* the events each channel is subscribed to, at Kick
    flight,     \* requests under way when their caller gave up
    doc,        \* webhooks/kick:<channel>, or None
    lease,      \* subscriptionLeases/kick:<channel>
    capacity,   \* subscriptionLeases/kick-capacity
    at,         \* of each process: its step, channel, and the events it listed
    todo,       \* the channels the cleanup's query returned
    same,       \* the cleanup's channel has the document it read
    disturbed   \* the channels whose lease was overtaken

leases == <<lease, capacity, disturbed>>
job == <<todo, same>>
vars == <<kick, flight, doc, leases, at, job>>

Processes == Callers \cup {Cleaner}
Steps == {"get", "touch", "list", "record", "capacity", "admit", "reserve",
          "post", "relist", "save", "clean", "delete", "drop"}
Idle == [pc |-> "idle", chan |-> None, seen |-> {}]

TypeOK ==
    /\ kick \in [Channels -> SUBSET KickEvents]
    /\ flight \subseteq [chan : Channels, events : SUBSET KickEvents,
                         method : {"POST", "DELETE"}]
    /\ doc \in [Channels -> Doc \cup {None}]
    /\ lease \in [Channels -> Processes \cup {None, Left}]
    /\ capacity \in Callers \cup {None, Left}
    /\ at \in [Processes -> [pc : Steps, chan : Channels,
                             seen : SUBSET KickEvents] \cup {Idle}]
    /\ todo \subseteq Channels
    /\ same \in BOOLEAN
    /\ disturbed \subseteq Channels

Init ==
    /\ kick = [c \in Channels |-> {}]
    /\ flight = {}
    /\ doc = [c \in Channels |-> None]
    /\ lease = [c \in Channels |-> None]
    /\ capacity = None
    /\ at = [p \in Processes |-> Idle]
    /\ todo = {}
    /\ same = FALSE
    /\ disturbed = {}
-----------------------------------------------------------------------------
Tracked(c) == doc[c] # None
Missing(events) == KickEvents \ events

\* activeCheck: a complete set of ids, checked within the hour.
ActiveCheck(c) == Tracked(c) /\ doc[c].ids = KickEvents /\ doc[c].checked = "fresh"

Step(p, from, to) == at[p].pc = from /\ at' = [at EXCEPT ![p].pc = to]

\* Set(..., MergeAll) on the channel's document.
Write(c, d) ==
    /\ doc' = [doc EXCEPT ![c] = d]
    /\ same' = (same /\ at[Cleaner].chan # c)

\* The work of p is over; its leases become `to` (a release deletes only what
\* p still owns), and the caller answers or the cleanup turns to the next.
End(p, to) ==
    /\ at' = [at EXCEPT ![p] = Idle]
    /\ lease' = [c \in Channels |-> IF lease[c] = p THEN to ELSE lease[c]]
    /\ capacity' = IF capacity = p THEN to ELSE capacity
    /\ UNCHANGED disturbed

\* Mutant of Retained: an uncertain request releases its leases.
RetainedNot == None

\* The lease of work that died or ended uncertain stays until it expires.
Retained == Left
-----------------------------------------------------------------------------
\* The lease is free, or a clock far ahead sees it expired while its holder is
\* still at work.
Enter(p, c, where) ==
    /\ at[p] = Idle
    /\ \/ lease[c] = None /\ UNCHANGED disturbed
       \/ /\ lease[c] # None
          /\ c \notin disturbed /\ Cardinality(disturbed) < MaxDisturbed
          /\ disturbed' = disturbed \cup {c}
    /\ lease' = [lease EXCEPT ![c] = p]
    /\ at' = [at EXCEPT ![p] = [pc |-> where, chan |-> c, seen |-> {}]]
    /\ UNCHANGED <<kick, flight, doc, capacity, same>>

\* Subscribe gets the lease of a Kick channel; a request that waits for it, or
\* is refused after ten seconds (ErrBusy), changes nothing.
Subscribe(p, c) == Enter(p, c, "get") /\ UNCHANGED todo

\* The cleanup queries the documents idle for a week ...
Query ==
    /\ at[Cleaner] = Idle /\ todo = {}
    /\ todo' = {c \in Channels : Tracked(c) /\ doc[c].active = "idle"}
    /\ UNCHANGED <<kick, flight, doc, leases, at, same>>

\* ... and works its way through them, one lease at a time.
NextIdle(c) == c \in todo /\ Enter(Cleaner, c, "clean") /\ todo' = todo \ {c}

\* A call that fails for certain (a full capacity included) releases its
\* leases; one that dies or runs into its deadline leaves them behind.
Fail(p) ==
    /\ at[p] # Idle
    /\ End(p, None) \/ End(p, Retained)
    /\ UNCHANGED <<kick, flight, doc, job>>

\* A lease left behind expires; the requests sent under it are over.
Expire(c) ==
    /\ lease[c] = Left
    /\ lease' = [lease EXCEPT ![c] = None]
    /\ flight' = {f \in flight : f.chan # c}
    /\ UNCHANGED <<kick, doc, capacity, disturbed, at, job>>

ExpireCapacity ==
    /\ capacity = Left
    /\ capacity' = None
    /\ UNCHANGED <<kick, flight, doc, lease, disturbed, at, job>>
-----------------------------------------------------------------------------
\* ensureKick reads the document; within the hour it is believed.
Get(p) ==
    /\ Step(p, "get", IF ActiveCheck(at[p].chan) THEN "touch" ELSE "list")
    /\ UNCHANGED <<kick, flight, doc, leases, job>>

\* Merges lastActiveAt alone; the document may have gone since it was read.
Touch(p) ==
    LET c == at[p].chan IN
    /\ at[p].pc = "touch"
    /\ Write(c, IF Tracked(c) THEN [doc[c] EXCEPT !.active = "recent"]
                ELSE [ids |-> {}, checked |-> "stale", active |-> "recent"])
    /\ End(p, None)
    /\ UNCHANGED <<kick, flight, todo>>

\* listKick, before the POST and again after it whatever it answered.
List(p) ==
    LET events == kick[at[p].chan] IN
    /\ at[p].pc \in {"list", "relist"}
    /\ at' = [at EXCEPT ![p].seen = events,
                        ![p].pc = IF at[p].pc = "relist" THEN "save"
                                  ELSE IF Missing(events) = {} THEN "record"
                                  ELSE "capacity"]
    /\ UNCHANGED <<kick, flight, doc, leases, job>>

\* What is recorded of a set of ids that was listed.
Listed(ids) == [ids |-> ids, active |-> "recent",
                checked |-> IF Missing(ids) = {} THEN "fresh" ELSE "stale"]

Record(p) ==
    /\ at[p].pc \in {"record", "save"}
    /\ Write(at[p].chan, Listed(at[p].seen))
    /\ End(p, None)
    /\ UNCHANGED <<kick, flight, todo>>

AcquireCapacity(p) ==
    /\ capacity = None
    /\ Step(p, "capacity", "admit")
    /\ capacity' = p
    /\ UNCHANGED <<kick, flight, doc, lease, disturbed, job>>

\* The documents are counted when chat has to be created.
Admitted(p) ==
    \/ Chat \in at[p].seen
    \/ Tracked(at[p].chan)
    \/ Cardinality({c \in Channels : Tracked(c)}) < Limit

Admit(p) ==
    /\ Step(p, "admit", "reserve")
    /\ Admitted(p)
    /\ UNCHANGED <<kick, flight, doc, leases, job>>

\* The document is written before the POST, with a check in 1970.
Reserve(p) ==
    /\ Step(p, "reserve", "post")
    /\ Write(at[p].chan, [Listed(at[p].seen) EXCEPT !.checked = "stale"])
    /\ UNCHANGED <<kick, flight, leases, todo>>

\* What the cleanup is about to delete, once Kick has created `events`: a
\* subscription that replaces a removed one has an id the cleanup never saw.
Unseen(c, events) ==
    [at EXCEPT ![Cleaner].seen =
        IF at[Cleaner].chan = c THEN @ \ (events \ kick[c]) ELSE @]

\* Kick creates some of the events asked for.
Post(p) ==
    LET c == at[p].chan IN
    \E events \in SUBSET Missing(at[p].seen) :
        /\ at[p].pc = "post"
        /\ kick' = [kick EXCEPT ![c] = @ \cup events]
        /\ at' = [Unseen(c, events) EXCEPT ![p].pc = "relist"]
        /\ UNCHANGED <<flight, doc, leases, job>>

\* A POST or DELETE fails in a way that does not tell whether it took effect:
\* the leases are kept until they expire ...
Uncertain(p) ==
    /\ at[p].pc \in {"post", "delete"}
    /\ Cardinality(flight) < MaxFlight
    /\ flight' = flight \cup
         {[chan |-> at[p].chan,
           method |-> IF p = Cleaner THEN "DELETE" ELSE "POST",
           events |-> IF p = Cleaner THEN at[p].seen ELSE Missing(at[p].seen)]}
    /\ End(p, Retained)
    /\ UNCHANGED <<kick, doc, job>>

\* ... and the request may still land, whole or in part.
Land(f) ==
    /\ flight' = flight \ {f}
    /\ \E events \in SUBSET f.events :
          \/ /\ f.method = "POST"
             /\ kick' = [kick EXCEPT ![f.chan] = @ \cup events]
             /\ at' = Unseen(f.chan, events)
          \/ /\ f.method = "DELETE"
             /\ kick' = [kick EXCEPT ![f.chan] = @ \ events]
             /\ UNCHANGED at
    /\ UNCHANGED <<doc, leases, job>>
-----------------------------------------------------------------------------
\* Mutant of StillIdle: the query's answer is believed.
StillIdleAsQueried(c) == Tracked(c)

\* Under the lease, the cleanup reads the document again.
StillIdle(c) == Tracked(c) /\ doc[c].active = "idle"

\* What is gone or was used since the query is left alone.
Skip ==
    /\ at[Cleaner].pc = "clean" /\ ~StillIdle(at[Cleaner].chan)
    /\ End(Cleaner, None)
    /\ UNCHANGED <<kick, flight, doc, job>>

\* Kick's state is listed, and deleted together with the recorded ids.
CleanList ==
    LET c == at[Cleaner].chan IN
    /\ at[Cleaner].pc = "clean" /\ StillIdle(c)
    /\ same' = TRUE
    /\ at' = [at EXCEPT ![Cleaner].pc = "delete",
                        ![Cleaner].seen = doc[c].ids \cup kick[c]]
    /\ UNCHANGED <<kick, flight, doc, leases, todo>>

\* Absent ids are no error; nothing is sent when there are none.
Delete ==
    /\ Step(Cleaner, "delete", "drop")
    /\ kick' = [kick EXCEPT ![at[Cleaner].chan] = @ \ at[Cleaner].seen]
    /\ UNCHANGED <<flight, doc, leases, job>>

\* Mutant of Unwritten: a deletion without a precondition.
UnwrittenOrNot == TRUE

\* firestore.LastUpdateTime(current.UpdateTime)
Unwritten == same

\* The document is deleted.  If a subscribe wrote it meanwhile it stays, and
\* its check is invalidated.
Drop ==
    LET c == at[Cleaner].chan IN
    /\ at[Cleaner].pc = "drop"
    /\ \/ Unwritten /\ doc' = [doc EXCEPT ![c] = None]
       \/ ~Unwritten /\ doc' = [doc EXCEPT ![c].checked = "stale"]
    /\ End(Cleaner, None)
    /\ UNCHANGED <<kick, flight, job>>
-----------------------------------------------------------------------------
\* Time passes for a channel nobody works on, an hour or a week; no check is
\* younger than the last activity.
Age(c) ==
    /\ Tracked(c) /\ lease[c] = None
    /\ \/ doc' = [doc EXCEPT ![c].checked = "stale"]
       \/ /\ \A p \in Processes : at[p].chan # c
          /\ \A f \in flight : f.chan # c
          /\ doc' = [doc EXCEPT ![c].active = "idle", ![c].checked = "stale"]
    /\ UNCHANGED <<kick, flight, leases, at, job>>

Next ==
    \/ \E p \in Callers :
          \/ \E c \in Channels : Subscribe(p, c)
          \/ Get(p) \/ Touch(p) \/ List(p) \/ Record(p)
          \/ AcquireCapacity(p) \/ Admit(p) \/ Reserve(p) \/ Post(p)
    \/ \E p \in Processes : Fail(p) \/ Uncertain(p)
    \/ \E c \in Channels : NextIdle(c) \/ Expire(c) \/ Age(c)
    \/ \E f \in flight : Land(f)
    \/ ExpireCapacity \/ Query \/ Skip \/ CleanList \/ Delete \/ Drop

Spec == Init /\ [][Next]_vars
-----------------------------------------------------------------------------
\* No subscription is leaked: a channel that has any at Kick, or a request
\* that may still create some, has a document the cleanup will find, however
\* requests fail, replicas die, or a lease is overtaken.
NothingLeaked ==
    \A c \in Channels :
        kick[c] # {} \/ (\E f \in flight : f.chan = c /\ f.method = "POST")
            => Tracked(c)

\* Admissions of different channels on different replicas never share the
\* last of the channels that Kick allows.
WithinCapacity ==
    disturbed = {} =>
        Cardinality({c \in Channels : Chat \in kick[c] \/ Tracked(c)}) <= Limit

\* A document that claims a complete set checked within the hour is right:
\* partial creations, lost answers and half-done cleanups never leave a claim
\* that the next subscribe would believe.
FreshComplete ==
    \A c \in Channels \ disturbed : ActiveCheck(c) => kick[c] = KickEvents

\* The documents say what is at Kick, well enough to admit channels and to skip
\* checks: WithinCapacity and FreshComplete hold in every well-formed state.
DocumentInv == TypeOK /\ WithinCapacity /\ FreshComplete

\* The cleanup takes nothing from a channel that is in use again: what its
\* query found idle may have been subscribed to since, and a DELETE may land
\* after its caller gave up.
OnlyIdleRemoved ==
    [][\A c \in Channels \ disturbed' :
          ~(kick[c] \subseteq kick'[c]) => doc[c].active = "idle"]_vars
=============================================================================
