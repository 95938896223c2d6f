--------------------------- MODULE RequestManager ---------------------------
(***************************************************************************)
(* agent/cmd: the assignments a replica reads.  The snapshot loop of       *)
(* main.go turns changes of the `assignments` collection into work,        *)
(* requests.go applies it with one goroutine per channel that opens and    *)
(* closes the channel's chat reader, and ready.go holds the health check   *)
(* back until every channel of the first snapshot has been applied.        *)
(***************************************************************************)
EXTENDS Naturals, FiniteSets

CONSTANTS
    Keys,         \* assignments: "provider:channel"
    Provider,     \* the provider of each key
    Clients,      \* names for readers; a closed one's is used again
    Goroutines,   \* names for the goroutines that submit starts
    None,
    Slow,         \* keys whose joins may hang for good
    MaxChanges    \* bound on the changes after the first snapshot

Kinds == {"added", "modified", "removed"}
Modes == {"anonymous", "authenticated", "youtube"}
Providers == {"twitch", "youtube", "kick"}

ASSUME ManagerAssumption ==
    /\ Provider \in [Keys -> Providers]
    /\ None \notin Keys \cup Clients \cup Goroutines \cup Kinds \cup {"closed"}
    /\ Slow \subseteq Keys
    /\ MaxChanges \in Nat

VARIABLES
    doc,       \* the assignments there are, as the snapshot loop has seen them
    loop,      \* where the snapshot loop is, and the key it submits
    todo,      \* what is left of the first snapshot
    queued,    \* m.queued: the latest change of each key not taken up yet
    running,   \* m.running
    work,      \* the goroutines of submit
    clients,   \* m.clients
    mode,      \* what each reader is, or that it is closed
    pending,   \* initialJoins.pending
    sealed,    \* initialJoins.sealed
    ready,     \* initialJoins.fired; onDone stores it as the health check's ready
    changes,   \* how many changes may still happen
    \* What the properties speak of; no step of the code depends on them.
    firsts,    \* the channels of the first snapshot
    last,      \* the last change submitted for each key
    applied,   \* keys that some change was applied for
    failed     \* keys whose last join failed

readers == <<clients, mode, failed>>
manager == <<queued, running, work, readers, applied>>
initial == <<pending, sealed, ready>>
vars == <<doc, loop, todo, manager, initial, changes, firsts, last>>

At(where) == [at |-> where, key |-> None]
Idle == [at |-> "idle", key |-> None, kind |-> None, old |-> None]

TypeOK ==
    /\ doc \in [Keys -> BOOLEAN]
    /\ loop \in [at : {"first", "submit", "check", "listen"}, key : Keys \cup {None}]
    /\ todo \subseteq Keys
    /\ queued \in [Keys -> Kinds \cup {None}]
    /\ running \in [Keys -> BOOLEAN]
    /\ work \in [Goroutines ->
         [at : {"idle", "take", "apply", "join", "close", "done", "check"},
          key : Keys \cup {None}, kind : Kinds \cup {None},
          old : Clients \cup {None}]]
    /\ clients \in [Keys -> Clients \cup {None}]
    /\ mode \in [Clients -> Modes \cup {"closed"}]
    /\ pending \subseteq Keys
    /\ sealed \in BOOLEAN /\ ready \in BOOLEAN
    /\ changes \in 0..MaxChanges
    /\ firsts \subseteq Keys
    /\ last \in [Keys -> Kinds \cup {None}]
    /\ applied \subseteq Keys
    /\ failed \subseteq Keys

\* The first snapshot holds the assignments there are when the agent starts.
Init ==
    /\ doc \in [Keys -> BOOLEAN]
    /\ loop = At("first")
    /\ todo = {k \in Keys : doc[k]}
    /\ firsts = todo
    /\ queued = [k \in Keys |-> None]
    /\ running = [k \in Keys |-> FALSE]
    /\ work = [g \in Goroutines |-> Idle]
    /\ clients = [k \in Keys |-> None]
    /\ mode = [c \in Clients |-> "closed"]
    /\ pending = {}
    /\ sealed = FALSE /\ ready = FALSE
    /\ changes = MaxChanges
    /\ last = [k \in Keys |-> None]
    /\ applied = {} /\ failed = {}
-----------------------------------------------------------------------------
(* The snapshot loop.                                                      *)

\* Mutant of submit: a change that is queued already is kept.
submitFirstWins(k, kind) ==
    /\ queued' = [queued EXCEPT ![k] = IF @ = None THEN kind ELSE @]
    /\ last' = [last EXCEPT ![k] = kind]
    /\ \/ running[k] /\ UNCHANGED <<running, work>>
       \/ /\ ~running[k]
          /\ running' = [running EXCEPT ![k] = TRUE]
          /\ \E g \in Goroutines :
               /\ work[g] = Idle
               /\ work' = [work EXCEPT ![g] = [Idle EXCEPT !.at = "take", !.key = k]]

\* Keep the latest change of the key; start a goroutine unless it has one.
submit(k, kind) ==
    /\ queued' = [queued EXCEPT ![k] = kind]
    /\ last' = [last EXCEPT ![k] = kind]
    /\ \/ running[k] /\ UNCHANGED <<running, work>>
       \/ /\ ~running[k]
          /\ running' = [running EXCEPT ![k] = TRUE]
          /\ \E g \in Goroutines :
               /\ work[g] = Idle
               /\ work' = [work EXCEPT ![g] = [Idle EXCEPT !.at = "take", !.key = k]]

\* initialJoins.check: who finds everything applied fires, once.
check == /\ ready' = (ready \/ (sealed /\ pending = {}))
         /\ UNCHANGED <<pending, sealed>>

\* initialJoins.add, before the submit.
Add(k) ==
    /\ loop.at = "first" /\ k \in todo
    /\ loop' = [at |-> "submit", key |-> k]
    /\ pending' = pending \cup {k}
    /\ UNCHANGED <<doc, todo, manager, sealed, ready, changes, firsts, last>>

SubmitFirst ==
    /\ loop.at = "submit"
    /\ submit(loop.key, "added")
    /\ todo' = todo \ {loop.key}
    /\ loop' = At("first")
    /\ UNCHANGED <<doc, readers, applied, initial, changes, firsts>>

\* The first snapshot is through: seal, and check whether all is applied.
Seal ==
    /\ loop.at = "first" /\ todo = {}
    /\ sealed' = TRUE
    /\ loop' = At("check")
    /\ UNCHANGED <<doc, todo, manager, pending, ready, changes, firsts, last>>

\* Mutant of SealCheck: the loop leaves the check to the goroutines.
SealNoCheck ==
    /\ loop.at = "check"
    /\ loop' = At("listen")
    /\ UNCHANGED <<doc, todo, manager, initial, changes, firsts, last>>

SealCheck ==
    /\ loop.at = "check"
    /\ check
    /\ loop' = At("listen")
    /\ UNCHANGED <<doc, todo, manager, changes, firsts, last>>

\* A change of a later snapshot.
Change(k, kind) ==
    /\ loop.at = "listen"
    /\ changes > 0
    /\ changes' = changes - 1
    /\ doc[k] <=> kind # "added"
    /\ doc' = [doc EXCEPT ![k] = kind # "removed"]
    /\ submit(k, kind)
    /\ UNCHANGED <<loop, todo, readers, applied, initial, firsts>>
-----------------------------------------------------------------------------
(* The goroutines of submit, and applyLocked.                              *)

Keep == UNCHANGED <<doc, loop, todo, changes, firsts, last>>

\* g goes on to `where`, with what else changes of it.
Goes(g, new) == work' = [work EXCEPT ![g] = new]

\* Mutant of Take: one goroutine at a time is past the queue.
TakeInTurn(g) ==
    LET k == work[g].key IN
    /\ work[g].at = "take" /\ queued[k] # None
    /\ \A h \in Goroutines : work[h].at \in {"idle", "take"}
    /\ queued' = [queued EXCEPT ![k] = None]
    /\ Goes(g, [work[g] EXCEPT !.at = "apply", !.kind = queued[k]])
    /\ Keep /\ UNCHANGED <<running, readers, initial, applied>>

\* The goroutine takes its key's change.
Take(g) ==
    LET k == work[g].key IN
    /\ work[g].at = "take" /\ queued[k] # None
    /\ queued' = [queued EXCEPT ![k] = None]
    /\ Goes(g, [work[g] EXCEPT !.at = "apply", !.kind = queued[k]])
    /\ Keep /\ UNCHANGED <<running, readers, initial, applied>>

\* Nothing is queued: it ends, in the critical section that found this.
End(g) ==
    LET k == work[g].key IN
    /\ work[g].at = "take" /\ queued[k] = None
    /\ running' = [running EXCEPT ![k] = FALSE]
    /\ Goes(g, Idle)
    /\ Keep /\ UNCHANGED <<queued, readers, initial, applied>>

\* applyLocked holds m.locks for the key and m.mu whenever it looks at the map.
\* What it does to the map and its readers between two slow calls is one step.
Apply(g, removal) == work[g].at = "apply" /\ (work[g].kind = "removed") = removal

Applying == Keep /\ UNCHANGED <<queued, running, initial, applied>>

\* Where a goroutine goes that has replaced or removed the reader `old`.
AfterReader(old) == IF old = None THEN "done" ELSE "close"

\* Mutant of Remove: the reader is taken out of the map and left open.
RemoveOpen(g) ==
    /\ Apply(g, TRUE)
    /\ clients' = [clients EXCEPT ![work[g].key] = None]
    /\ Goes(g, [work[g] EXCEPT !.at = "done"])
    /\ Applying /\ UNCHANGED <<mode, failed>>

Remove(g) ==
    LET old == clients[work[g].key] IN
    /\ Apply(g, TRUE)
    /\ clients' = [clients EXCEPT ![work[g].key] = None]
    /\ Goes(g, [work[g] EXCEPT !.old = old, !.at = AfterReader(old)])
    /\ Applying /\ UNCHANGED <<mode, failed>>

\* The reader there is serves the key: YouTube's, an anonymous one and, three
\* times in four, an authenticated one.  Other providers have no reader.
Serves(k, c) ==
    \/ Provider[k] = "kick"
    \/ Provider[k] = "youtube" /\ c # None
    \/ Provider[k] = "twitch" /\ c # None /\ mode[c] = "anonymous"
MayServe(k, c) == Serves(k, c) \/ (c # None /\ mode[c] = "authenticated")

KeepReader(g) ==
    /\ Apply(g, FALSE) /\ MayServe(work[g].key, clients[work[g].key])
    /\ Goes(g, [work[g] EXCEPT !.at = "done"])
    /\ Applying /\ UNCHANGED readers

StartJoin(g) ==
    /\ Apply(g, FALSE) /\ ~Serves(work[g].key, clients[work[g].key])
    /\ Goes(g, [work[g] EXCEPT !.at = "join", !.old = clients[work[g].key]])
    /\ Applying /\ UNCHANGED readers

\* newClient returns a reader, which takes the place of the old one.
Join(g) ==
    LET k == work[g].key IN
    /\ work[g].at = "join"
    /\ \E c \in Clients, m \in Modes :
         /\ mode[c] = "closed"
         /\ (m = "youtube") <=> (Provider[k] = "youtube")
         /\ mode' = [mode EXCEPT ![c] = m]
         /\ clients' = [clients EXCEPT ![k] = c]
    /\ Goes(g, [work[g] EXCEPT !.at = AfterReader(work[g].old)])
    /\ failed' = failed \ {k}
    /\ Applying

\* newClient returns an error; the reader there was stays.
JoinFails(g) ==
    /\ work[g].at = "join"
    /\ Goes(g, [work[g] EXCEPT !.at = "done", !.old = None])
    /\ failed' = failed \cup {work[g].key}
    /\ Applying /\ UNCHANGED <<clients, mode>>

Close(g) ==
    /\ work[g].at = "close"
    /\ mode' = [mode EXCEPT ![work[g].old] = "closed"]
    /\ Goes(g, [work[g] EXCEPT !.at = "done", !.old = None])
    /\ Applying /\ UNCHANGED <<clients, failed>>

\* m.applied: initialJoins.done takes the key out, then checks.
Done(g) ==
    /\ work[g].at = "done"
    /\ pending' = pending \ {work[g].key}
    /\ applied' = applied \cup {work[g].key}
    /\ Goes(g, [work[g] EXCEPT !.at = "check", !.kind = None])
    /\ Keep /\ UNCHANGED <<queued, running, readers, sealed, ready>>

DoneCheck(g) ==
    /\ work[g].at = "check"
    /\ check
    /\ Goes(g, [work[g] EXCEPT !.at = "take"])
    /\ Keep /\ UNCHANGED <<queued, running, readers, applied>>

Loop == (\E k \in Keys : Add(k)) \/ SubmitFirst \/ Seal \/ SealCheck

Answers(g) == Join(g) \/ JoinFails(g)

Steps(g) ==
    \/ Take(g) \/ End(g) \/ Remove(g) \/ KeepReader(g) \/ StartJoin(g)
    \/ Close(g) \/ Done(g) \/ DoneCheck(g)

Next ==
    \/ Loop
    \/ \E k \in Keys, kind \in Kinds : Change(k, kind)
    \/ \E g \in Goroutines : Steps(g) \/ Answers(g)

Spec == Init /\ [][Next]_vars

\* The loop and the goroutines are scheduled; joins are answered, by the 10 s
\* limit of each attempt at the latest, except those of the slow keys.
Fairness ==
    /\ WF_vars(Loop)
    /\ \A g \in Goroutines :
         /\ WF_vars(Steps(g))
         /\ WF_vars(work[g].key \notin Slow /\ Answers(g))

FairSpec == Spec /\ Fairness
-----------------------------------------------------------------------------
Open == {c \in Clients : mode[c] # "closed"}

\* No reader is lost or used after it is closed: the map holds open readers,
\* each under one key, and an open one that is not in the map is just about to
\* be closed, by one goroutine.
Accounted ==
    LET Held(c) == {k \in Keys : clients[k] = c}
        Closing(c) == {g \in Goroutines : work[g].at = "close" /\ work[g].old = c}
    IN \A c \in Clients : Cardinality(Held(c)) + Cardinality(Closing(c))
                            = IF c \in Open THEN 1 ELSE 0

\* A channel never has two goroutines, so its changes are applied in order.
OneWorker ==
    \A g, h \in Goroutines :
        work[g].key = work[h].key /\ work[g].key # None => g = h

\* When a channel comes to rest it is as its latest change says: removed ones
\* are not read, and the others are unless the last join failed.
Settled ==
    \A k \in Keys : ~running[k] /\ last[k] # None =>
        /\ queued[k] = None
        /\ last[k] = "removed" => clients[k] = None
        /\ last[k] # "removed" /\ Provider[k] # "kick"
             => clients[k] # None \/ k \in failed

\* The health check passes only once every channel of the first snapshot has
\* been submitted and applied.
ReadySound == ready => firsts \subseteq applied

\* The state is well-formed: Accounted, OneWorker and ReadySound hold.
ReadersInv == TypeOK /\ Accounted /\ OneWorker /\ ReadySound

\* The health check does pass, whichever of seal and the last done comes last.
EventuallyReady == firsts \cap Slow = {} => <>ready

\* A join that hangs holds up no other channel: their changes are applied.
Unblocked == \A k \in Keys \ Slow : running[k] ~> ~running[k]
=============================================================================
