------------------------ MODULE RequestManager_proofs ------------------------
(***************************************************************************)
(* The assignments a replica reads: no reader is lost, a channel at rest   *)
(* is as its latest change says, and the health check waits for the first  *)
(* snapshot.  Proofs for any set of channels, readers and goroutines.      *)
(***************************************************************************)
EXTENDS RequestManager, FiniteSetTheorems, TLAPS

Places == {"idle", "take", "apply", "join", "close", "done", "check"}

Work == [at : Places, key : Keys \cup {None}, kind : Kinds \cup {None},
         old : Clients \cup {None}]

\* The names are different, and where they are used does not matter.
LEMMA Names ==
    /\ None \notin Keys /\ None \notin Clients /\ None \notin Kinds
    /\ "removed" \in Kinds /\ "added" \in Kinds
    /\ \A k \in Keys : Provider[k] \in Providers
    /\ Idle \in Work /\ Idle.at = "idle" /\ Idle.key = None
  BY ManagerAssumption DEF Kinds, Idle, Work, Places

\* A goroutine is at a place, with a channel, a change and a reader, or none.
LEMMA WorkTypes ==
    ASSUME TypeOK
    PROVE  /\ work \in [Goroutines -> Work]
           /\ \A g \in Goroutines :
                /\ work[g] \in Work
                /\ work[g].at \in Places /\ work[g].key \in Keys \cup {None}
                /\ work[g].kind \in Kinds \cup {None}
                /\ work[g].old \in Clients \cup {None}
<1>1. work \in [Goroutines -> Work]
  BY DEF TypeOK, Work, Places
<1> QED BY <1>1 DEF Work
-----------------------------------------------------------------------------
Busy(g) == work[g].at # "idle"

\* A goroutine at work has a key, which is marked as running and has no other.
Worker(g) ==
    /\ Busy(g) => work[g].key \in Keys /\ running[work[g].key]
    /\ ~Busy(g) => work[g] = Idle

Workers ==
    /\ OneWorker
    /\ \A g \in Goroutines : Worker(g)
    /\ \A k \in Keys : running[k] => \E g \in Goroutines : work[g].key = k

\* The reader that a goroutine replaces is the one in the map, and the one that
\* it closes is in the map no more, open, and closed by nobody else.
Closing(g) == work[g].at = "close"

Old(g) ==
    /\ work[g].at = "join" =>
          work[g].kind # "removed" /\ work[g].old = clients[work[g].key]
    /\ Closing(g) =>
          /\ work[g].old \in Open
          /\ \A k \in Keys : clients[k] # work[g].old
          /\ \A h \in Goroutines : Closing(h) /\ work[h].old = work[g].old => h = g

\* The map holds open readers, each under one key.
Mapped(k) ==
    clients[k] # None =>
        /\ clients[k] \in Open
        /\ \A l \in Keys : clients[l] = clients[k] => l = k

Kept(c) == \/ \E k \in Keys : clients[k] = c
           \/ \E g \in Goroutines : Closing(g) /\ work[g].old = c

Readers ==
    /\ \A g \in Goroutines : Old(g)
    /\ \A k \in Keys : Mapped(k)
    /\ \A c \in Open : Kept(c)

\* The channel is as its latest change says.
Served(k) ==
    /\ last[k] = "removed" => clients[k] = None
    /\ last[k] # "removed" /\ Provider[k] # "kick" => clients[k] # None \/ k \in failed

\* What is queued is the latest change, and its goroutine will see it; what is
\* not queued is being applied or was applied.
Latest(g) ==
    Busy(g) /\ queued[work[g].key] = None =>
        /\ work[g].at \in {"apply", "join"} => work[g].kind = last[work[g].key]
        /\ work[g].at \notin {"apply", "join"} => Served(work[g].key)

Resting(k) ==
    /\ queued[k] # None => running[k] /\ queued[k] = last[k]
    /\ ~running[k] /\ last[k] # None => Served(k)

Changes ==
    /\ \A g \in Goroutines : Latest(g)
    /\ \A k \in Keys : Resting(k)

\* A channel of the first snapshot is to be submitted, pending or applied.
First ==
    /\ firsts \subseteq todo \cup pending \cup applied
    /\ loop.at = "submit" => loop.key \in Keys /\ loop.key \in pending \cup applied
    /\ sealed => todo = {}

IndInv == TypeOK /\ Workers /\ Readers /\ Changes /\ First /\ ReadySound
-----------------------------------------------------------------------------
\* What a goroutine of submit does is to move, or to end.
Moved(g, where, kind, old) ==
    /\ work' \in [Goroutines -> Work]
    /\ work'[g].at = where /\ work'[g].key = work[g].key
    /\ work'[g].kind = kind /\ work'[g].old = old
    /\ \A h \in Goroutines \ {g} : work'[h] = work[h]

\* Every step of a goroutine is a move, or its end.
LEMMA Moves ==
    ASSUME TypeOK, NEW g \in Goroutines, work[g].key \in Keys
    PROVE  /\ Take(g) => Moved(g, "apply", queued[work[g].key], work[g].old)
           /\ Remove(g) => Moved(g, AfterReader(clients[work[g].key]), work[g].kind,
                                 clients[work[g].key])
           /\ KeepReader(g) => Moved(g, "done", work[g].kind, work[g].old)
           /\ StartJoin(g) => Moved(g, "join", work[g].kind, clients[work[g].key])
           /\ Join(g) => Moved(g, AfterReader(work[g].old), work[g].kind, work[g].old)
           /\ JoinFails(g) \/ Close(g) => Moved(g, "done", work[g].kind, None)
           /\ Done(g) => Moved(g, "check", None, work[g].old)
           /\ DoneCheck(g) => Moved(g, "take", work[g].kind, work[g].old)
<1>1. /\ work \in [Goroutines -> Work] /\ work[g] \in Work
      /\ work[g].kind \in Kinds \cup {None} /\ work[g].old \in Clients \cup {None}
      /\ queued[work[g].key] \in Kinds \cup {None}
      /\ clients[work[g].key] \in Clients \cup {None}
  BY WorkTypes DEF TypeOK
<1>2. ASSUME NEW where \in Places, Goes(g, [work[g] EXCEPT !.at = where])
      PROVE  Moved(g, where, work[g].kind, work[g].old)
  BY <1>1, <1>2 DEF Goes, Moved, Work
<1>3. ASSUME NEW where \in Places, NEW kind \in Kinds \cup {None},
             Goes(g, [work[g] EXCEPT !.at = where, !.kind = kind])
      PROVE  Moved(g, where, kind, work[g].old)
  BY <1>1, <1>3 DEF Goes, Moved, Work
<1>4. ASSUME NEW where \in Places, NEW old \in Clients \cup {None},
             Goes(g, [work[g] EXCEPT !.at = where, !.old = old])
      PROVE  Moved(g, where, work[g].kind, old)
  BY <1>1, <1>4 DEF Goes, Moved, Work
<1>5. ASSUME NEW where \in Places, NEW old \in Clients \cup {None},
             Goes(g, [work[g] EXCEPT !.old = old, !.at = where])
      PROVE  Moved(g, where, work[g].kind, old)
  BY <1>1, <1>5 DEF Goes, Moved, Work
<1>6. /\ \A old : AfterReader(old) \in Places
      /\ {"apply", "join", "done", "check", "take"} \subseteq Places
  BY DEF AfterReader, Places
<1>7. Take(g) => Moved(g, "apply", queued[work[g].key], work[g].old)
  BY <1>1, <1>3, <1>6 DEF Take
<1>8. Remove(g) => Moved(g, AfterReader(clients[work[g].key]), work[g].kind,
                         clients[work[g].key])
  BY <1>1, <1>5, <1>6 DEF Remove
<1>9. KeepReader(g) => Moved(g, "done", work[g].kind, work[g].old)
  BY <1>2, <1>6 DEF KeepReader
<1>10. StartJoin(g) => Moved(g, "join", work[g].kind, clients[work[g].key])
  BY <1>1, <1>4, <1>6 DEF StartJoin
<1>11. Join(g) => Moved(g, AfterReader(work[g].old), work[g].kind, work[g].old)
  BY <1>2, <1>6 DEF Join
<1>12. JoinFails(g) \/ Close(g) => Moved(g, "done", work[g].kind, None)
  BY <1>4, <1>6 DEF JoinFails, Close
<1>13. Done(g) => Moved(g, "check", None, work[g].old)
  BY <1>3, <1>6 DEF Done
<1>14. DoneCheck(g) => Moved(g, "take", work[g].kind, work[g].old)
  BY <1>2, <1>6 DEF DoneCheck
<1> QED BY <1>7, <1>8, <1>9, <1>10, <1>11, <1>12, <1>13, <1>14

\* The goroutine that submit starts, unless the channel has one.
Started(g, k) ==
    /\ work[g] = Idle /\ work' \in [Goroutines -> Work]
    /\ work'[g].at = "take" /\ work'[g].key = k
    /\ \A h \in Goroutines \ {g} : work'[h] = work[h]

\* submit queues the change, and starts a goroutine where none runs.
LEMMA Submits ==
    ASSUME TypeOK, NEW k \in Keys, NEW kind \in Kinds, submit(k, kind)
    PROVE  /\ queued' \in [Keys -> Kinds \cup {None}] /\ queued'[k] = kind
           /\ last' \in [Keys -> Kinds \cup {None}] /\ last'[k] = kind
           /\ \A l \in Keys \ {k} : queued'[l] = queued[l] /\ last'[l] = last[l]
           /\ running' \in [Keys -> BOOLEAN] /\ running'[k]
           /\ \A l \in Keys \ {k} : running'[l] = running[l]
           /\ work' \in [Goroutines -> Work]
           /\ \/ running[k] /\ work' = work
              \/ ~running[k] /\ \E g \in Goroutines : Started(g, k)
<1>1. work \in [Goroutines -> Work]
  BY WorkTypes
<1>2. /\ queued' \in [Keys -> Kinds \cup {None}] /\ queued'[k] = kind
      /\ last' \in [Keys -> Kinds \cup {None}] /\ last'[k] = kind
      /\ \A l \in Keys \ {k} : queued'[l] = queued[l] /\ last'[l] = last[l]
  BY DEF submit, TypeOK
<1>3. CASE running[k] /\ UNCHANGED <<running, work>>
  BY <1>1, <1>2, <1>3 DEF TypeOK
<1>4. CASE ~running[k]
  <2>1. /\ running' \in [Keys -> BOOLEAN] /\ running'[k]
        /\ \A l \in Keys \ {k} : running'[l] = running[l]
    <3>1. running' = [running EXCEPT ![k] = TRUE]
      BY <1>4 DEF submit
    <3>2. running \in [Keys -> BOOLEAN]
      BY DEF TypeOK
    <3> QED BY <3>1, <3>2
  <2> DEFINE r == [Idle EXCEPT !.at = "take", !.key = k]
  <2>2. PICK g \in Goroutines : work[g] = Idle /\ work' = [work EXCEPT ![g] = r]
    BY <1>4 DEF submit
  <2>3. r \in Work /\ r.at = "take" /\ r.key = k
    BY Names DEF Work, Places
  <2> HIDE DEF r
  <2>4. Started(g, k)
    BY <1>1, <2>2, <2>3 DEF Started
  <2> QED BY <1>2, <1>4, <2>1, <2>4 DEF Started
<1> QED BY <1>3, <1>4 DEF submit

\* A goroutine that acts has a key.
LEMMA Acting ==
    ASSUME IndInv, NEW g \in Goroutines, Steps(g) \/ Answers(g)
    PROVE  Busy(g) /\ work[g].key \in Keys /\ running[work[g].key]
<1>1. Busy(g)
  BY DEF Steps, Answers, Take, End, Remove, KeepReader, StartJoin, Close, Done, DoneCheck,
         Join, JoinFails, Apply, Busy
<1> QED BY <1>1 DEF IndInv, Workers, Worker

\* Every step keeps the types.
LEMMA TypingStep == ASSUME IndInv, [Next]_vars PROVE TypeOK'
<1> USE DEF manager, initial, readers
<1>0. TypeOK /\ work \in [Goroutines -> Work]
  BY WorkTypes DEF IndInv
<1>1. ASSUME NEW k \in Keys, Add(k) PROVE TypeOK'
  BY <1>0, <1>1 DEF Add, TypeOK
<1>2. ASSUME SubmitFirst PROVE TypeOK'
  <2>1. loop.key \in Keys /\ "added" \in Kinds
    BY <1>2 DEF SubmitFirst, IndInv, First, Kinds
  <2>2. /\ queued' \in [Keys -> Kinds \cup {None}] /\ last' \in [Keys -> Kinds \cup {None}]
        /\ running' \in [Keys -> BOOLEAN] /\ work' \in [Goroutines -> Work]
    BY <1>0, <1>2, <2>1, Submits DEF SubmitFirst
  <2> QED BY <1>0, <1>2, <2>2 DEF SubmitFirst, At, TypeOK, Work, Places
<1>3. ASSUME Seal \/ SealCheck PROVE TypeOK'
  <2>1. loop' \in [at : {"first", "submit", "check", "listen"}, key : Keys \cup {None}]
    BY <1>3 DEF Seal, SealCheck, At
  <2>2. sealed' \in BOOLEAN /\ ready' \in BOOLEAN /\ pending' = pending
    BY <1>0, <1>3 DEF Seal, SealCheck, check, TypeOK
  <2> QED BY <1>0, <1>3, <2>1, <2>2 DEF Seal, SealCheck, TypeOK
<1>4. ASSUME NEW k \in Keys, NEW kind \in Kinds, Change(k, kind) PROVE TypeOK'
  <2>1. /\ queued' \in [Keys -> Kinds \cup {None}] /\ last' \in [Keys -> Kinds \cup {None}]
        /\ running' \in [Keys -> BOOLEAN] /\ work' \in [Goroutines -> Work]
    BY <1>0, <1>4, Submits DEF Change
  <2>2. changes' \in 0..MaxChanges
    BY <1>0, <1>4, ManagerAssumption DEF Change, TypeOK
  <2> QED BY <1>0, <1>4, <2>1, <2>2 DEF Change, TypeOK, Work, Places
<1>5. ASSUME NEW g \in Goroutines, work' \in [Goroutines -> Work],
             Take(g) \/ End(g) \/ Remove(g) \/ KeepReader(g) \/ StartJoin(g) \/ Join(g)
             \/ JoinFails(g) \/ Close(g) \/ Done(g) \/ DoneCheck(g)
      PROVE  TypeOK'
  <2>1. work[g].key \in Keys /\ work[g].old \in Clients \cup {None}
    BY <1>0, <1>5, Acting, WorkTypes DEF Steps, Answers
  <2>2. CASE Take(g) \/ End(g) \/ KeepReader(g) \/ StartJoin(g) \/ DoneCheck(g)
    BY <1>0, <1>5, <2>2
       DEF Take, End, KeepReader, StartJoin, DoneCheck, Keep, Applying, check, TypeOK,
           Work, Places
  <2>3. CASE Remove(g) \/ JoinFails(g) \/ Done(g) \/ Close(g)
    BY <1>0, <1>5, <2>1, <2>3
       DEF Remove, JoinFails, Done, Close, Keep, Applying, TypeOK, Work, Places
  <2>4. CASE Join(g)
    <3>1. mode' \in [Clients -> Modes \cup {"closed"}]
          /\ clients' \in [Keys -> Clients \cup {None}] /\ failed' \subseteq Keys
      BY <1>0, <2>1, <2>4 DEF Join, TypeOK
    <3> QED BY <1>0, <1>5, <2>4, <3>1 DEF Join, Keep, Applying, TypeOK, Work, Places
  <2> QED BY <1>5, <2>2, <2>3, <2>4
<1>6. ASSUME NEW g \in Goroutines, Steps(g) \/ Answers(g) PROVE work' \in [Goroutines -> Work]
  <2>1. work[g].key \in Keys
    BY <1>6, Acting
  <2>2. End(g) => work' \in [Goroutines -> Work]
    BY <1>0, Names DEF End, Goes
  <2> QED BY <1>0, <1>6, <2>1, <2>2, Moves DEF Steps, Answers, Moved
<1>7. CASE UNCHANGED vars
  BY <1>0, <1>7 DEF vars, TypeOK
<1> QED BY <1>1, <1>2, <1>3, <1>4, <1>5, <1>6, <1>7 DEF Next, Loop, Steps, Answers
-----------------------------------------------------------------------------
\* The goroutine that submit starts is the first one of its channel.
LEMMA StartKeeps ==
    ASSUME IndInv, NEW k \in Keys, NEW kind \in Kinds, submit(k, kind)
    PROVE  Workers'
<1>0. TypeOK /\ Workers
  BY DEF IndInv
<1>1. /\ running'[k] /\ \A l \in Keys \ {k} : running'[l] = running[l]
      /\ \/ running[k] /\ work' = work
         \/ ~running[k] /\ \E g \in Goroutines : Started(g, k)
  BY <1>0, Submits
<1>2. CASE running[k] /\ work' = work
  BY <1>0, <1>1, <1>2 DEF Workers, OneWorker, Worker, Busy
<1>3. CASE ~running[k]
  <2>1. PICK g \in Goroutines : Started(g, k)
    BY <1>1, <1>3
  <2>2. /\ work'[g].at = "take" /\ work'[g].key = k /\ work[g] = Idle
        /\ \A h \in Goroutines \ {g} : work'[h] = work[h]
    BY <2>1 DEF Started
  <2>3. ASSUME NEW h \in Goroutines PROVE work[h].key # k
    BY <1>0, <1>3, Names DEF Workers, Worker
  <2>4. OneWorker'
    BY <1>0, <2>2, <2>3 DEF Workers, OneWorker
  <2>5. ASSUME NEW h \in Goroutines PROVE Worker(h)'
    BY <1>0, <1>1, <2>2 DEF Workers, Worker, Busy
  <2>6. ASSUME NEW l \in Keys, running'[l] PROVE \E h \in Goroutines : work'[h].key = l
    <3>1. CASE l = k
      BY <2>2, <3>1
    <3>2. CASE l # k
      <4>1. PICK h \in Goroutines : work[h].key = l
        BY <1>0, <1>1, <2>6, <3>2 DEF Workers
      <4>2. h # g
        BY <2>2, <4>1, Names
      <4> QED BY <2>2, <4>1, <4>2
    <3> QED BY <3>1, <3>2
  <2> QED BY <2>4, <2>5, <2>6 DEF Workers
<1> QED BY <1>1, <1>2, <1>3

\* A goroutine that moves keeps its channel.
LEMMA MoveKeeps ==
    ASSUME IndInv, NEW g \in Goroutines, Busy(g), work'[g].at # "idle",
           work'[g].key = work[g].key, \A h \in Goroutines \ {g} : work'[h] = work[h],
           running' = running
    PROVE  Workers'
<1>0. Workers
  BY DEF IndInv
<1>1. \A h \in Goroutines : work'[h].key = work[h].key
  OBVIOUS
<1> QED BY <1>0, <1>1 DEF Workers, OneWorker, Worker, Busy

\* Every step keeps one goroutine for each channel that runs.
LEMMA WorkersStep == ASSUME IndInv, [Next]_vars PROVE Workers'
<1> USE DEF manager, initial, readers
<1>0. TypeOK /\ Workers
  BY DEF IndInv
<1>1. ASSUME UNCHANGED <<work, running>> PROVE Workers'
  BY <1>0, <1>1 DEF Workers, OneWorker, Worker, Busy
<1>2. ASSUME SubmitFirst PROVE Workers'
  <2>1. loop.key \in Keys
    BY <1>2 DEF SubmitFirst, IndInv, First
  <2> QED BY <1>2, <2>1, StartKeeps, Names DEF SubmitFirst
<1>3. ASSUME NEW k \in Keys, NEW kind \in Kinds, Change(k, kind) PROVE Workers'
  BY <1>3, StartKeeps DEF Change
<1>4. ASSUME NEW g \in Goroutines, Steps(g) \/ Answers(g), ~End(g) PROVE Workers'
  <2>1. Busy(g) /\ work[g].key \in Keys
    BY <1>4, Acting
  <2>2. running' = running
    BY <1>4 DEF Steps, Answers, Take, Remove, KeepReader, StartJoin, Join, JoinFails,
                Close, Done, DoneCheck, Applying
  <2>3. \A old : AfterReader(old) # "idle"
    BY DEF AfterReader
  <2>4. /\ work'[g].at # "idle" /\ work'[g].key = work[g].key
        /\ \A h \in Goroutines \ {g} : work'[h] = work[h]
    BY <1>0, <1>4, <2>1, <2>3, Moves DEF Moved, Steps, Answers
  <2> QED BY <2>1, <2>2, <2>4, MoveKeeps
<1>5. ASSUME NEW g \in Goroutines, End(g) PROVE Workers'
  <2>1. work[g].key \in Keys
    BY <1>5, Acting DEF Steps
  <2> DEFINE k == work[g].key
  <2>2. /\ work'[g] = Idle /\ \A h \in Goroutines \ {g} : work'[h] = work[h]
        /\ running'[k] = FALSE /\ \A l \in Keys \ {k} : running'[l] = running[l]
    BY <1>0, <1>5, <2>1 DEF End, Goes, TypeOK
  <2>3. \A h \in Goroutines \ {g} : work[h].key # k
    BY <1>0, <2>1, Names DEF Workers, OneWorker
  <2> HIDE DEF k
  <2>4. OneWorker'
    BY <1>0, <2>2, Names DEF Workers, OneWorker
  <2>5. ASSUME NEW h \in Goroutines PROVE Worker(h)'
    <3>1. CASE h = g
      BY <2>2, <3>1, Names DEF Worker, Busy
    <3>2. CASE h # g
      BY <1>0, <2>2, <2>3, <3>2 DEF Workers, Worker, Busy
    <3> QED BY <3>1, <3>2
  <2>6. ASSUME NEW l \in Keys, running'[l] PROVE \E h \in Goroutines : work'[h].key = l
    <3>1. l # k
      BY <2>2, <2>6
    <3>2. PICK h \in Goroutines : work[h].key = l
      BY <1>0, <2>2, <2>6, <3>1 DEF Workers
    <3>3. h # g
      BY <3>1, <3>2 DEF k
    <3> QED BY <2>2, <3>2, <3>3
  <2> QED BY <2>4, <2>5, <2>6 DEF Workers
<1> QED BY <1>1, <1>2, <1>3, <1>4, <1>5 DEF Next, Loop, Add, Seal, SealCheck, vars
-----------------------------------------------------------------------------
\* A step that leaves the map, the readers and the goroutines that replace or
\* close one as they are.
LEMMA QuietKeeps ==
    ASSUME IndInv, UNCHANGED <<clients, mode>>,
           \A h \in Goroutines : /\ work'[h].at \in {"join", "close"} => work'[h] = work[h]
                                 /\ Closing(h) => work'[h] = work[h]
    PROVE  Readers'
<1>0. Readers
  BY DEF IndInv
<1>1. Open' = Open
  BY DEF Open
<1>2. \A h \in Goroutines : Closing(h)' => Closing(h) /\ work'[h] = work[h]
  BY DEF Closing
<1>3. ASSUME NEW g \in Goroutines PROVE Old(g)'
  <2>1. Old(g)
    BY <1>0 DEF Readers
  <2>2. CASE work'[g].at = "join"
    BY <2>1, <2>2 DEF Old, Closing
  <2>3. CASE work'[g].at = "close"
    BY <1>1, <1>2, <2>1, <2>3 DEF Old, Closing
  <2>4. CASE work'[g].at \notin {"join", "close"}
    BY <2>4 DEF Old, Closing
  <2> QED BY <2>2, <2>3, <2>4
<1>4. ASSUME NEW k \in Keys PROVE Mapped(k)'
  BY <1>0, <1>1 DEF Readers, Mapped
<1>5. ASSUME NEW c \in Open PROVE Kept(c)'
  <2>1. Kept(c)
    BY <1>0 DEF Readers
  <2> QED BY <2>1 DEF Kept, Closing
<1> QED BY <1>1, <1>3, <1>4, <1>5 DEF Readers

\* Two goroutines have different channels.
LEMMA Apart ==
    ASSUME IndInv, NEW g \in Goroutines, Busy(g), NEW h \in Goroutines \ {g}
    PROVE  work[h].key # work[g].key
  BY Names DEF IndInv, Workers, Worker, OneWorker

\* The reader of a channel leaves the map, for another or none, and its goroutine
\* closes it.
LEMMA OutKeeps ==
    ASSUME IndInv, NEW g \in Goroutines, NEW k \in Keys, k = work[g].key, Busy(g),
           ~Closing(g), NEW new,
           clients' = [clients EXCEPT ![k] = new],
           new = None \/ new \in Clients \ Open,
           Open' = IF new = None THEN Open ELSE Open \cup {new},
           work'[g].at = AfterReader(clients[k]), work'[g].old = clients[k],
           \A h \in Goroutines \ {g} : work'[h] = work[h]
    PROVE  Readers'
<1>0. /\ TypeOK /\ Readers /\ Open \subseteq Clients /\ None \notin Clients
      /\ clients \in [Keys -> Clients \cup {None}]
  BY Names DEF IndInv, TypeOK, Open
<1>1. /\ clients'[k] = new /\ \A l \in Keys \ {k} : clients'[l] = clients[l]
      /\ new \notin Open /\ Open \subseteq Open'
  BY <1>0
<1>2. /\ Closing(g)' => clients[k] # None
      /\ clients[k] # None => Closing(g)'
      /\ work'[g].at # "join"
      /\ \A h \in Goroutines \ {g} : Closing(h)' = Closing(h)
  BY DEF Closing, AfterReader
<1>3. \A h \in Goroutines \ {g} : work[h].key # k
  BY Apart
<1>4. /\ \A h \in Goroutines : Old(h)
      /\ \A l \in Keys : Mapped(l)
      /\ \A c \in Open : Kept(c)
  BY <1>0 DEF Readers
<1>5. \A l \in Keys : clients[l] # None => clients[l] \in Open /\ clients[l] # new
  BY <1>1, <1>4 DEF Mapped
<1>6. \A h \in Goroutines : Closing(h) => work[h].old # None /\ work[h].old # new
  BY <1>0, <1>1, <1>4 DEF Old
<1>7. Old(g)'
  <2>1. SUFFICES ASSUME clients[k] # None
                 PROVE  /\ clients[k] \in Open'
                        /\ \A l \in Keys : clients'[l] # clients[k]
                        /\ \A h \in Goroutines : Closing(h)' /\ work'[h].old = clients[k] => h = g
    BY <1>2 DEF Old
  <2>2. clients[k] \in Open'
    BY <1>1, <1>5, <2>1
  <2>3. \A l \in Keys : clients'[l] # clients[k]
    BY <1>1, <1>4, <1>5, <2>1 DEF Mapped
  <2>4. \A h \in Goroutines \ {g} : ~(Closing(h) /\ work[h].old = clients[k])
    BY <1>4 DEF Old
  <2> QED BY <1>2, <2>2, <2>3, <2>4
<1>8. ASSUME NEW h \in Goroutines \ {g} PROVE Old(h)'
  <2>1. work[h].at = "join" => work[h].key \in Keys \ {k}
    BY <1>3 DEF IndInv, Workers, Worker, Busy
  <2>2. work'[h].at = "join" =>
           work'[h].kind # "removed" /\ work'[h].old = clients'[work'[h].key]
    BY <1>1, <1>4, <2>1 DEF Old
  <2>3. Closing(h) => /\ work[h].old \in Open'
                      /\ \A l \in Keys : clients'[l] # work[h].old
    BY <1>1, <1>4, <1>6 DEF Old
  <2>4. Closing(h) => \A e \in Goroutines : Closing(e)' /\ work'[e].old = work[h].old => e = h
    BY <1>2, <1>4 DEF Old
  <2> QED BY <1>2, <2>2, <2>3, <2>4 DEF Old
<1>9. ASSUME NEW l \in Keys PROVE Mapped(l)'
  <2>1. CASE l = k
    BY <1>1, <1>5, <2>1 DEF Mapped
  <2>2. CASE l # k
    BY <1>1, <1>4, <1>5, <2>2 DEF Mapped
  <2> QED BY <2>1, <2>2
<1>10. ASSUME NEW c \in Open' PROVE Kept(c)'
  <2>1. CASE c = new /\ new # None
    BY <1>1, <2>1 DEF Kept
  <2>2. CASE c \in Open
    <3>1. CASE c = clients[k]
      BY <1>0, <1>2, <2>2, <3>1 DEF Kept
    <3>2. ASSUME NEW l \in Keys \ {k}, clients[l] = c PROVE Kept(c)'
      BY <1>1, <3>2 DEF Kept
    <3>3. ASSUME NEW h \in Goroutines, Closing(h), work[h].old = c PROVE Kept(c)'
      BY <1>2, <3>3 DEF Kept
    <3> QED BY <1>4, <2>2, <3>1, <3>2, <3>3 DEF Kept
  <2> QED BY <2>1, <2>2
<1> QED BY <1>7, <1>8, <1>9, <1>10 DEF Readers

\* Every step keeps the readers accounted for.
LEMMA ReadersStep == ASSUME IndInv, [Next]_vars PROVE Readers'
<1> USE DEF manager, initial, readers
<1>0. TypeOK /\ Readers /\ Workers
  BY DEF IndInv
<1>1. ASSUME UNCHANGED <<work, clients, mode>> PROVE Readers'
  BY <1>1, QuietKeeps
<1>2. ASSUME NEW k \in Keys, NEW kind \in Kinds, submit(k, kind), UNCHANGED <<clients, mode>>
      PROVE  Readers'
  <2>1. CASE work' = work
    BY <1>1, <1>2, <2>1
  <2>2. ASSUME NEW g \in Goroutines, Started(g, k) PROVE Readers'
    BY <1>2, <2>2, QuietKeeps, Names DEF Started, Closing
  <2> QED BY <1>0, <1>2, <2>1, <2>2, Submits
<1>3. ASSUME SubmitFirst PROVE Readers'
  <2>1. loop.key \in Keys
    BY <1>3 DEF SubmitFirst, IndInv, First
  <2> QED BY <1>2, <1>3, <2>1, Names DEF SubmitFirst
<1>4. ASSUME NEW k \in Keys, NEW kind \in Kinds, Change(k, kind) PROVE Readers'
  BY <1>2, <1>4 DEF Change
<1>5. ASSUME NEW g \in Goroutines,
             Take(g) \/ KeepReader(g) \/ JoinFails(g) \/ Done(g) \/ DoneCheck(g)
      PROVE  Readers'
  <2>1. work[g].key \in Keys
    BY <1>5, Acting DEF Steps, Answers
  <2>2. /\ work'[g].at \notin {"join", "close"} /\ ~Closing(g)
        /\ \A h \in Goroutines \ {g} : work'[h] = work[h]
    BY <1>0, <1>5, <2>1, Moves
       DEF Moved, Closing, Take, KeepReader, JoinFails, Done, DoneCheck, Apply
  <2>3. UNCHANGED <<clients, mode>>
    BY <1>5 DEF Take, KeepReader, JoinFails, Done, DoneCheck
  <2> QED BY <2>2, <2>3, QuietKeeps DEF Closing
<1>6. ASSUME NEW g \in Goroutines, End(g) PROVE Readers'
  <2>1. /\ work'[g] = Idle /\ ~Closing(g) /\ UNCHANGED <<clients, mode>>
        /\ \A h \in Goroutines \ {g} : work'[h] = work[h]
    BY <1>0, <1>6 DEF End, Goes, Closing, TypeOK
  <2> QED BY <2>1, QuietKeeps, Names DEF Closing
<1>7. ASSUME NEW g \in Goroutines, Remove(g) PROVE Readers'
  <2>1. work[g].key \in Keys /\ Busy(g) /\ ~Closing(g)
    BY <1>7, Acting DEF Steps, Remove, Apply, Closing
  <2>2. /\ work'[g].at = AfterReader(clients[work[g].key])
        /\ work'[g].old = clients[work[g].key]
        /\ \A h \in Goroutines \ {g} : work'[h] = work[h]
    BY <1>0, <1>7, <2>1, Moves DEF Moved
  <2>3. clients' = [clients EXCEPT ![work[g].key] = None] /\ Open' = Open
    BY <1>7 DEF Remove, Open
  <2> QED BY <2>1, <2>2, <2>3, OutKeeps
<1>8. ASSUME NEW g \in Goroutines, Join(g) PROVE Readers'
  <2>1. work[g].key \in Keys /\ Busy(g) /\ ~Closing(g) /\ work[g].at = "join"
    BY <1>8, Acting DEF Answers, Join, Closing
  <2>2. work[g].old = clients[work[g].key]
    BY <1>0, <2>1 DEF Readers, Old
  <2>3. /\ work'[g].at = AfterReader(clients[work[g].key])
        /\ work'[g].old = clients[work[g].key]
        /\ \A h \in Goroutines \ {g} : work'[h] = work[h]
    BY <1>0, <1>8, <2>1, <2>2, Moves DEF Moved
  <2>4. PICK c \in Clients, m \in Modes :
           /\ mode[c] = "closed" /\ mode' = [mode EXCEPT ![c] = m]
           /\ clients' = [clients EXCEPT ![work[g].key] = c]
    BY <1>8 DEF Join
  <2>5. c \in Clients \ Open /\ Open' = Open \cup {c} /\ c # None
    BY <1>0, <2>4, Names DEF Open, TypeOK, Modes
  <2> QED BY <2>1, <2>3, <2>4, <2>5, OutKeeps
<1>9. ASSUME NEW g \in Goroutines, StartJoin(g) PROVE Readers'
  <2>1. work[g].key \in Keys /\ Busy(g) /\ work[g].at = "apply" /\ work[g].kind # "removed"
    BY <1>9, Acting DEF Steps, StartJoin, Apply
  <2>2. /\ work'[g].at = "join" /\ work'[g].old = clients[work[g].key]
        /\ work'[g].kind = work[g].kind /\ work'[g].key = work[g].key
        /\ \A h \in Goroutines \ {g} : work'[h] = work[h]
    BY <1>0, <1>9, <2>1, Moves DEF Moved
  <2>3. UNCHANGED <<clients, mode>> /\ Open' = Open
    BY <1>9 DEF StartJoin, Open
  <2>4. \A h \in Goroutines : /\ Closing(h)' = Closing(h)
                              /\ Closing(h) => work'[h] = work[h]
    BY <2>1, <2>2 DEF Closing
  <2>5. ASSUME NEW h \in Goroutines PROVE Old(h)'
    <3>1. CASE h = g
      BY <2>1, <2>2, <2>3, <3>1 DEF Old, Closing
    <3>2. CASE h # g
      BY <1>0, <2>2, <2>3, <2>4, <3>2 DEF Readers, Old
    <3> QED BY <3>1, <3>2
  <2>6. ASSUME NEW k \in Keys PROVE Mapped(k)'
    BY <1>0, <2>3 DEF Readers, Mapped
  <2>7. ASSUME NEW c \in Open PROVE Kept(c)'
    BY <1>0, <2>3, <2>4 DEF Readers, Kept
  <2> QED BY <2>3, <2>5, <2>6, <2>7 DEF Readers
<1>10. ASSUME NEW g \in Goroutines, Close(g) PROVE Readers'
  <2>1. work[g].key \in Keys /\ Closing(g)
    BY <1>10, Acting DEF Steps, Close, Closing
  <2>2. /\ work'[g].at = "done" /\ clients' = clients
        /\ \A h \in Goroutines \ {g} : work'[h] = work[h]
    BY <1>0, <1>10, <2>1, Moves DEF Moved, Close
  <2> DEFINE old == work[g].old
  <2>3. /\ old \in Open /\ \A k \in Keys : clients[k] # old
        /\ \A h \in Goroutines : Closing(h) /\ work[h].old = old => h = g
    BY <1>0, <2>1 DEF Readers, Old
  <2>4. Open' = Open \ {old}
    BY <1>0, <1>10, <2>3 DEF Close, Open, TypeOK
  <2>5. ~Closing(g)' /\ \A h \in Goroutines \ {g} : Closing(h)' = Closing(h)
    BY <2>2 DEF Closing
  <2> HIDE DEF old
  <2>6. ASSUME NEW h \in Goroutines PROVE Old(h)'
    <3>1. CASE h = g
      BY <2>2, <2>5, <3>1 DEF Old
    <3>2. CASE h # g
      BY <1>0, <2>2, <2>3, <2>4, <2>5, <3>2 DEF Readers, Old
    <3> QED BY <3>1, <3>2
  <2>7. ASSUME NEW k \in Keys PROVE Mapped(k)'
    BY <1>0, <2>2, <2>3, <2>4 DEF Readers, Mapped
  <2>8. ASSUME NEW c \in Open \ {old} PROVE Kept(c)'
    BY <1>0, <2>2, <2>5 DEF Readers, Kept, old
  <2> QED BY <2>4, <2>6, <2>7, <2>8 DEF Readers
<1> QED BY <1>1, <1>3, <1>4, <1>5, <1>6, <1>7, <1>8, <1>9, <1>10
     DEF Next, Loop, Add, Seal, SealCheck, Steps, Answers, vars
-----------------------------------------------------------------------------
\* What a goroutine does to its channel leaves the others alone.
LEMMA LocalKeeps ==
    ASSUME IndInv, NEW g \in Goroutines, NEW k \in Keys, k = work[g].key, Busy(g),
           \A h \in Goroutines \ {g} : work'[h] = work[h],
           last' = last, running' = running,
           \A l \in Keys \ {k} : /\ queued'[l] = queued[l] /\ clients'[l] = clients[l]
                                 /\ l \in failed => l \in failed',
           queued'[k] = None \/ queued'[k] = queued[k],
           Latest(g)'
    PROVE  Changes'
<1>0. Changes /\ Workers
  BY DEF IndInv
<1>1. \A h \in Goroutines \ {g} : work[h].key # k /\ (Busy(h) => work[h].key \in Keys)
  BY <1>0, Apart DEF Workers, Worker
<1>2. ASSUME NEW l \in Keys \ {k}, Served(l) PROVE Served(l)'
  BY <1>2 DEF Served
<1>3. ASSUME NEW h \in Goroutines \ {g} PROVE Latest(h)'
  <2>1. SUFFICES ASSUME Busy(h)' PROVE Latest(h)'
    BY DEF Latest
  <2>2. PICK m : m = work[h].key
    OBVIOUS
  <2>3. /\ m \in Keys \ {k} /\ queued'[m] = queued[m] /\ work'[h] = work[h]
        /\ work'[h].key = m /\ Busy(h)
    BY <1>1, <2>1, <2>2 DEF Busy
  <2>4. queued[m] = None => /\ work[h].at \in {"apply", "join"} => work[h].kind = last[m]
                            /\ work[h].at \notin {"apply", "join"} => Served(m)
    BY <1>0, <2>2, <2>3 DEF Changes, Latest
  <2>5. Served(m) => Served(m)'
    BY <1>2, <2>3
  <2> QED BY <2>3, <2>4, <2>5 DEF Latest, Served
<1>4. running[k]
  BY <1>0 DEF Workers, Worker
<1>5. ASSUME NEW l \in Keys PROVE Resting(l)'
  <2>1. CASE l = k
    BY <1>0, <1>4, <2>1 DEF Changes, Resting
  <2>2. CASE l # k
    BY <1>0, <1>2, <2>2 DEF Changes, Resting
  <2> QED BY <2>1, <2>2
<1> QED BY <1>3, <1>5 DEF Changes

\* A change that is submitted is the latest one, and has a goroutine.
LEMMA SubmitKeeps ==
    ASSUME IndInv, NEW k \in Keys, NEW kind \in Kinds, submit(k, kind),
           UNCHANGED <<clients, failed>>
    PROVE  Changes'
<1>0. TypeOK /\ Changes /\ Workers
  BY DEF IndInv
<1>1. /\ queued'[k] = kind /\ last'[k] = kind /\ running'[k] /\ kind # None
      /\ \A l \in Keys \ {k} : /\ queued'[l] = queued[l] /\ last'[l] = last[l]
                               /\ running'[l] = running[l]
  BY <1>0, Submits, Names
<1>2. ASSUME NEW h \in Goroutines PROVE work'[h] = work[h] \/ work'[h].key = k
  BY <1>0, Submits DEF Started
<1>3. ASSUME NEW l \in Keys \ {k}, Served(l) PROVE Served(l)'
  BY <1>1, <1>3 DEF Served
<1>4. ASSUME NEW h \in Goroutines PROVE Latest(h)'
  <2>1. CASE work'[h].key = k
    BY <1>1, <2>1 DEF Latest
  <2>2. CASE work'[h] = work[h] /\ work[h].key # k /\ Busy(h)
    <3>1. PICK m : m = work[h].key
      OBVIOUS
    <3>2. /\ m \in Keys \ {k} /\ queued'[m] = queued[m] /\ last'[m] = last[m]
          /\ work'[h].key = m
      BY <1>0, <1>1, <2>2, <3>1 DEF Workers, Worker
    <3>3. queued[m] = None => /\ work[h].at \in {"apply", "join"} => work[h].kind = last[m]
                              /\ work[h].at \notin {"apply", "join"} => Served(m)
      BY <1>0, <2>2, <3>1 DEF Changes, Latest
    <3>4. Served(m) => Served(m)'
      BY <1>3, <3>2
    <3> QED BY <2>2, <3>2, <3>3, <3>4 DEF Latest, Served
  <2>3. CASE work'[h] = work[h] /\ ~Busy(h)
    BY <2>3 DEF Latest, Busy
  <2> QED BY <1>2, <2>1, <2>2, <2>3
<1>5. ASSUME NEW l \in Keys PROVE Resting(l)'
  <2>1. CASE l = k
    BY <1>1, <2>1 DEF Resting
  <2>2. CASE l # k
    BY <1>0, <1>1, <1>3, <2>2 DEF Changes, Resting
  <2> QED BY <2>1, <2>2
<1> QED BY <1>4, <1>5 DEF Changes

\* A goroutine applies the latest change of its channel.
LEMMA ApplyKeeps ==
    ASSUME IndInv, NEW g \in Goroutines, (Steps(g) \/ Answers(g)) /\ ~End(g)
    PROVE  Changes'
<1> USE DEF manager, initial, readers
<1>0. TypeOK /\ Changes /\ Readers /\ Latest(g) /\ Old(g)
  BY DEF IndInv, Changes, Readers
<1>1. PICK k : k = work[g].key
  OBVIOUS
<1>2. Busy(g) /\ k \in Keys /\ running[k]
  BY <1>1, Acting
<1>3. /\ work'[g].key = k /\ \A h \in Goroutines \ {g} : work'[h] = work[h]
  BY <1>0, <1>1, <1>2, Moves DEF Moved, Steps, Answers
<1>4. last' = last /\ running' = running
  BY DEF Steps, Answers, Take, Remove, KeepReader, StartJoin, Join, JoinFails,
         Close, Done, DoneCheck, Applying, Keep
<1>5. /\ queued'[k] = None \/ queued'[k] = queued[k]
      /\ \A l \in Keys \ {k} : /\ queued'[l] = queued[l] /\ clients'[l] = clients[l]
                               /\ l \in failed => l \in failed'
  <2>1. CASE Take(g)
    BY <1>0, <1>1, <2>1 DEF Take, TypeOK
  <2>2. CASE Remove(g)
    BY <1>0, <1>1, <2>2 DEF Remove, Applying, TypeOK
  <2>3. CASE Join(g) \/ JoinFails(g)
    BY <1>0, <1>1, <2>3 DEF Join, JoinFails, Applying, TypeOK
  <2>4. CASE KeepReader(g) \/ StartJoin(g) \/ Close(g) \/ Done(g) \/ DoneCheck(g)
    BY <2>4 DEF KeepReader, StartJoin, Close, Done, DoneCheck, Applying
  <2> QED BY <2>1, <2>2, <2>3, <2>4 DEF Steps, Answers
<1>6. queued[k] = None => /\ work[g].at \in {"apply", "join"} => work[g].kind = last[k]
                          /\ work[g].at \notin {"apply", "join"} => Served(k)
  BY <1>0, <1>1, <1>2 DEF Latest
<1>7. ASSUME queued'[k] = None
      PROVE  /\ work'[g].at \in {"apply", "join"} => work'[g].kind = last[k]
             /\ work'[g].at \notin {"apply", "join"} => Served(k)'
  <2>0. \A old : AfterReader(old) \notin {"apply", "join"}
    BY DEF AfterReader
  <2>1. CASE Take(g)
    <3>1. work'[g].at = "apply" /\ work'[g].kind = queued[k] /\ queued[k] # None
      BY <1>0, <1>1, <1>2, <2>1, Moves DEF Moved, Take
    <3> QED BY <1>0, <1>2, <3>1 DEF Changes, Resting
  <2>2. CASE ~Take(g)
    <3>0. queued[k] = None
      BY <1>7, <2>2 DEF Steps, Answers, Remove, KeepReader, StartJoin, Join, JoinFails,
                        Close, Done, DoneCheck, Applying
    <3>1. CASE Remove(g)
      <4>1. work'[g].at \notin {"apply", "join"} /\ last[k] = "removed" /\ clients'[k] = None
        <5>1. work'[g].at = AfterReader(clients[k])
          BY <1>0, <1>1, <1>2, <3>1, Moves DEF Moved
        <5>2. work[g].at = "apply" /\ work[g].kind = "removed"
          BY <3>1 DEF Remove, Apply
        <5>3. clients'[k] = None
          BY <1>0, <1>1, <1>2, <3>1 DEF Remove, TypeOK
        <5> QED BY <1>6, <2>0, <3>0, <5>1, <5>2, <5>3
      <4> QED BY <1>4, <4>1 DEF Served
    <3>2. CASE KeepReader(g)
      <4>1. work'[g].at = "done" /\ last[k] # "removed" /\ MayServe(k, clients[k])
            /\ clients' = clients
        BY <1>0, <1>1, <1>2, <1>6, <3>0, <3>2, Moves DEF Moved, KeepReader, Apply
      <4>2. Provider[k] = "kick" \/ clients[k] # None
        BY <4>1 DEF MayServe, Serves
      <4> QED BY <1>4, <4>1, <4>2 DEF Served
    <3>3. CASE StartJoin(g)
      <4>1. work'[g].at = "join" /\ work'[g].kind = work[g].kind /\ work[g].at = "apply"
        BY <1>0, <1>1, <1>2, <3>3, Moves DEF Moved, StartJoin, Apply
      <4> QED BY <1>6, <3>0, <4>1
    <3>4. CASE Join(g)
      <4>1. work'[g].at \notin {"apply", "join"} /\ last[k] # "removed"
        <5>1. work'[g].at = AfterReader(work[g].old)
          BY <1>0, <1>1, <1>2, <3>4, Moves DEF Moved
        <5>2. work[g].at = "join" /\ work[g].kind # "removed"
          BY <1>0, <3>4 DEF Join, Old
        <5> QED BY <1>6, <2>0, <3>0, <5>1, <5>2
      <4>2. clients'[k] # None
        BY <1>0, <1>1, <1>2, <3>4, Names DEF Join, TypeOK
      <4> QED BY <1>4, <4>1, <4>2 DEF Served
    <3>5. CASE JoinFails(g)
      <4>1. work'[g].at = "done" /\ last[k] # "removed" /\ k \in failed'
        BY <1>0, <1>1, <1>2, <1>6, <3>0, <3>5, Moves DEF Moved, JoinFails, Old
      <4> QED BY <1>4, <4>1 DEF Served
    <3>6. CASE Close(g) \/ Done(g) \/ DoneCheck(g)
      <4>1. work[g].at \notin {"apply", "join"} /\ work'[g].at \notin {"apply", "join"}
            /\ UNCHANGED <<clients, failed>>
        BY <1>0, <1>1, <1>2, <3>6, Moves DEF Moved, Close, Done, DoneCheck
      <4> QED BY <1>4, <1>6, <3>0, <4>1 DEF Served
    <3> QED BY <2>2, <3>1, <3>2, <3>3, <3>4, <3>5, <3>6 DEF Steps, Answers
  <2> QED BY <2>1, <2>2
<1>8. Latest(g)'
  BY <1>3, <1>4, <1>7 DEF Latest, Served
<1> QED BY <1>1, <1>2, <1>3, <1>4, <1>5, <1>8, LocalKeeps

\* Every step keeps the channels as their latest changes say.
LEMMA ChangesStep == ASSUME IndInv, [Next]_vars PROVE Changes'
<1> USE DEF manager, initial, readers
<1>0. TypeOK /\ Changes /\ Workers
  BY DEF IndInv
<1>1. ASSUME UNCHANGED <<work, queued, last, running, clients, failed>> PROVE Changes'
  BY <1>0, <1>1 DEF Changes, Latest, Resting, Served, Busy
<1>2. ASSUME SubmitFirst PROVE Changes'
  <2>1. loop.key \in Keys
    BY <1>2 DEF SubmitFirst, IndInv, First
  <2> QED BY <1>2, <2>1, SubmitKeeps, Names DEF SubmitFirst
<1>3. ASSUME NEW k \in Keys, NEW kind \in Kinds, Change(k, kind) PROVE Changes'
  BY <1>3, SubmitKeeps DEF Change
<1>4. ASSUME NEW g \in Goroutines, End(g) PROVE Changes'
  <2>1. PICK k : k = work[g].key
    OBVIOUS
  <2>2. k \in Keys /\ Busy(g)
    BY <1>4, <2>1, Acting DEF Steps
  <2>3. /\ work'[g] = Idle /\ \A h \in Goroutines \ {g} : work'[h] = work[h]
        /\ queued[k] = None /\ work[g].at = "take"
        /\ \A l \in Keys \ {k} : running'[l] = running[l]
        /\ UNCHANGED <<queued, last, clients, failed>>
    BY <1>0, <1>4, <2>1, <2>2 DEF End, Goes, Keep, TypeOK
  <2>4. Served(k)
    BY <1>0, <2>1, <2>2, <2>3 DEF Changes, Latest
  <2>5. \A l \in Keys : Served(l)' = Served(l)
    BY <2>3 DEF Served
  <2>6. ASSUME NEW h \in Goroutines PROVE Latest(h)'
    <3>1. CASE h = g
      BY <2>3, <3>1, Names DEF Latest, Busy
    <3>2. CASE h # g
      BY <1>0, <2>3, <3>2 DEF Changes, Latest, Busy, Served
    <3> QED BY <3>1, <3>2
  <2>7. ASSUME NEW l \in Keys PROVE Resting(l)'
    BY <1>0, <2>2, <2>3, <2>4, <2>5 DEF Changes, Resting
  <2> QED BY <2>6, <2>7 DEF Changes
<1> QED BY <1>1, <1>2, <1>3, <1>4, ApplyKeeps DEF Next, Loop, Add, Seal, SealCheck, vars
-----------------------------------------------------------------------------
\* Every step keeps the channels of the first snapshot accounted for, and the
\* health check honest.
LEMMA FirstStep == ASSUME IndInv, [Next]_vars PROVE First' /\ ReadySound'
<1> USE DEF manager, initial, readers
<1>0. TypeOK /\ First /\ ReadySound
  BY DEF IndInv
<1>1. ASSUME UNCHANGED <<firsts, todo, loop, pending, applied, sealed, ready>>
      PROVE  First' /\ ReadySound'
  BY <1>0, <1>1 DEF First, ReadySound
<1>2. ASSUME check, UNCHANGED <<firsts, todo, applied>>,
             loop' = loop \/ loop' = At("listen")
      PROVE  First' /\ ReadySound'
  <2>1. pending' = pending /\ sealed' = sealed
    BY <1>2 DEF check
  <2>2. ready' => ready \/ (sealed /\ pending = {})
    BY <1>2 DEF check
  <2>3. sealed /\ pending = {} => firsts \subseteq applied
    BY <1>0 DEF First
  <2>4. ReadySound'
    BY <1>0, <1>2, <2>2, <2>3 DEF ReadySound
  <2>5. loop'.at = "submit" => loop' = loop
    BY <1>2 DEF At
  <2> QED BY <1>0, <1>2, <2>1, <2>4, <2>5 DEF First
<1>3. ASSUME NEW k \in Keys, Add(k) PROVE First' /\ ReadySound'
  BY <1>0, <1>3 DEF Add, First, ReadySound
<1>4. ASSUME SubmitFirst PROVE First' /\ ReadySound'
  <2>1. /\ todo' = todo \ {loop.key} /\ loop' = At("first")
        /\ UNCHANGED <<firsts, pending, applied, sealed, ready>>
        /\ loop.key \in pending \cup applied
    BY <1>0, <1>4 DEF SubmitFirst, First
  <2>2. loop'.at # "submit"
    BY <2>1 DEF At
  <2> QED BY <1>0, <2>1, <2>2 DEF First, ReadySound
<1>5. ASSUME Seal PROVE First' /\ ReadySound'
  <2>1. loop'.at # "submit"
    BY <1>5 DEF Seal, At
  <2> QED BY <1>0, <1>5, <2>1 DEF Seal, First, ReadySound
<1>6. ASSUME SealCheck PROVE First' /\ ReadySound'
  BY <1>2, <1>6 DEF SealCheck
<1>7. ASSUME NEW k \in Keys, NEW kind \in Kinds, Change(k, kind) PROVE First' /\ ReadySound'
  BY <1>1, <1>7 DEF Change
<1>8. ASSUME NEW g \in Goroutines, Done(g) PROVE First' /\ ReadySound'
  <2>1. /\ pending' = pending \ {work[g].key} /\ applied' = applied \cup {work[g].key}
        /\ UNCHANGED <<firsts, todo, loop, sealed, ready>>
    BY <1>8 DEF Done, Keep
  <2> QED BY <1>0, <2>1 DEF First, ReadySound
<1>9. ASSUME NEW g \in Goroutines, DoneCheck(g) PROVE First' /\ ReadySound'
  BY <1>2, <1>9 DEF DoneCheck, Keep
<1>10. ASSUME NEW g \in Goroutines,
              Take(g) \/ End(g) \/ Remove(g) \/ KeepReader(g) \/ StartJoin(g) \/ Join(g)
              \/ JoinFails(g) \/ Close(g)
       PROVE  First' /\ ReadySound'
  BY <1>1, <1>10 DEF Take, End, Remove, KeepReader, StartJoin, Join, JoinFails, Close,
                     Applying, Keep
<1>11. CASE UNCHANGED vars
  BY <1>1, <1>11 DEF vars
<1> QED BY <1>3, <1>4, <1>5, <1>6, <1>7, <1>8, <1>9, <1>10, <1>11
     DEF Next, Loop, Steps, Answers
-----------------------------------------------------------------------------
\* At the start there is no reader, no goroutine and no change.
LEMMA Initially == Init => IndInv
<1> SUFFICES ASSUME Init PROVE IndInv
  OBVIOUS
<1>1. TypeOK
  <2>1. work \in [Goroutines -> Work]
    BY Names DEF Init
  <2>2. MaxChanges \in 0..MaxChanges
    BY ManagerAssumption
  <2>3. loop \in [at : {"first", "submit", "check", "listen"}, key : Keys \cup {None}]
    BY DEF Init, At
  <2> QED BY <2>1, <2>2, <2>3 DEF Init, TypeOK, Work, Places
<1>2. \A g \in Goroutines : work[g] = Idle /\ ~Busy(g) /\ ~Closing(g) /\ work[g].at # "join"
                            /\ work[g].key = None
  BY Names DEF Init, Busy, Closing
<1>3. Workers
  BY <1>2 DEF Init, Workers, OneWorker, Worker
<1>4. Open = {} /\ \A k \in Keys : clients[k] = None
  BY DEF Init, Open
<1>5. Readers
  BY <1>2, <1>4 DEF Readers, Old, Mapped
<1>6. Changes
  BY <1>2 DEF Init, Changes, Latest, Resting
<1>7. First /\ ReadySound
  BY DEF Init, First, ReadySound, At
<1> QED BY <1>1, <1>3, <1>5, <1>6, <1>7 DEF IndInv

\* The inductive invariant holds in every state.
LEMMA Invariance == Spec => []IndInv
<1>1. IndInv /\ [Next]_vars => IndInv'
  BY TypingStep, WorkersStep, ReadersStep, ChangesStep, FirstStep DEF IndInv
<1> QED BY <1>1, Initially, PTL DEF Spec

\* The map and the goroutines account for every open reader, once.
LEMMA AllAccounted == IndInv => Accounted
<1> SUFFICES ASSUME IndInv, NEW c \in Clients
             PROVE  Cardinality({k \in Keys : clients[k] = c})
                      + Cardinality({g \in Goroutines : work[g].at = "close" /\ work[g].old = c})
                      = IF c \in Open THEN 1 ELSE 0
  BY DEF Accounted
<1> DEFINE H == {k \in Keys : clients[k] = c}
           C == {g \in Goroutines : work[g].at = "close" /\ work[g].old = c}
<1>0. Readers /\ c # None
  BY Names DEF IndInv
<1>1. /\ \A k \in H : c \in Open /\ H = {k} /\ C = {}
      /\ \A g \in C : c \in Open /\ C = {g} /\ H = {}
  BY <1>0 DEF Readers, Old, Mapped, Closing
<1>2. c \in Open => H # {} \/ C # {}
  BY <1>0 DEF Readers, Kept, Closing
<1>3. Cardinality({}) = 0 /\ \A x : Cardinality({x}) = 1
  BY FS_EmptySet, FS_Singleton
<1> HIDE DEF H, C
<1>4. Cardinality(H) + Cardinality(C) = IF c \in Open THEN 1 ELSE 0
  <2>1. CASE H # {}
    <3>1. PICK k : H = {k} /\ C = {} /\ c \in Open
      BY <1>1, <2>1
    <3>2. Cardinality(H) = 1 /\ Cardinality(C) = 0
      BY <1>3, <3>1
    <3> QED BY <3>1, <3>2
  <2>2. CASE C # {}
    <3>1. PICK g : C = {g} /\ H = {} /\ c \in Open
      BY <1>1, <2>2
    <3>2. Cardinality(C) = 1 /\ Cardinality(H) = 0
      BY <1>3, <3>1
    <3> QED BY <3>1, <3>2
  <2>3. CASE H = {} /\ C = {}
    BY <1>2, <1>3, <2>3
  <2> QED BY <2>1, <2>2, <2>3
<1> QED BY <1>4 DEF H, C

\* No reader is lost or used after it is closed, no channel has two goroutines,
\* and the health check passes only once the first snapshot is applied.
THEOREM ReadersAccounted == Spec => []ReadersInv
<1>1. IndInv => ReadersInv
  BY AllAccounted DEF IndInv, ReadersInv, Workers
<1> QED BY <1>1, Invariance, PTL

\* A channel that comes to rest is as its latest change says.
THEOREM ChannelsSettle == Spec => []Settled
<1>1. IndInv => Settled
  BY DEF IndInv, Changes, Resting, Served, Settled
<1> QED BY <1>1, Invariance, PTL
=============================================================================
