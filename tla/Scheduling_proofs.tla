-------------------------- MODULE Scheduling_proofs --------------------------
(***************************************************************************)
(* What a replica runs, and when.  The queue of Twitch work loses no       *)
(* request, for any number of broadcasters and requests and any delays.    *)
(* A scheduled job is run by one replica at a time, for any number of      *)
(* replicas, any clocks and any limits that satisfy JobAssumption, and     *)
(* without a bound on time.                                                *)
(***************************************************************************)
EXTENDS TwitchQueue, JobLease, SequenceTheorems, TLAPS

\* The assumption, one constant at a time.
LEMMA Constants ==
    /\ Capacity \in Nat /\ BusyDelay \in Nat /\ LeaseTTL \in Nat
    /\ Minute \in Nat /\ MaxReset \in Nat /\ CostInterval \in Nat
    /\ RemovedTTL \in Nat /\ Idle \in Nat /\ MaxRequests \in Nat
    /\ MaxAttempts \in Nat /\ Backoff \in [1..MaxAttempts -> Nat]
  BY QueueAssumption
-----------------------------------------------------------------------------
(* What becomes of an item.                                                *)

\* A request for the job its item has: noted, and marked as changed if the
\* removal it repeats is running.
LEMMA KeptItem ==
    ASSUME NEW k \in Keys, NEW job \in JobKinds, item[k] \in Items
    PROVE /\ Kept(k, job) \in Items
          /\ Kept(k, job).job = item[k].job
          /\ Kept(k, job).running = item[k].running
          /\ Kept(k, job).reconcile <=> item[k].reconcile \/ job = "reconcile"
          /\ Kept(k, job).changed
               <=> item[k].changed \/ (job = "remove" /\ item[k].running)
  BY DEF Kept, Items

\* A request for another job: the item takes it, and remembers a reconcile.
LEMMA SwitchedItem ==
    ASSUME NEW k \in Keys, NEW job \in JobKinds, item[k] \in Items
    PROVE /\ Switched(k, job) \in Items
          /\ Switched(k, job).job = job
          /\ Switched(k, job).running = item[k].running
          /\ Switched(k, job).reconcile <=> item[k].reconcile \/ job = "reconcile"
          /\ Switched(k, job).changed = item[k].running
  BY DEF Switched, Items

\* A request for a key that has no item.
LEMMA NewItem ==
    ASSUME NEW job \in JobKinds
    PROVE /\ New(job) \in Items
          /\ New(job).job = job
          /\ New(job).reconcile <=> job = "reconcile"
  BY DEF New, Items

\* Marking an item running keeps what it was queued for.
LEMMA PickedItem ==
    ASSUME NEW k \in Keys, item[k] \in Items
    PROVE /\ Picked(k) \in Items
          /\ Picked(k).job = item[k].job
          /\ Picked(k).running = TRUE
          /\ Picked(k).changed = FALSE
          /\ Picked(k).reconcile = item[k].reconcile
  BY DEF Picked, Items

\* An item that stays after its run keeps its job and its request.
SameRequest(new, old) ==
    new \in Items /\ new.job = old.job /\ new.reconcile = old.reconcile

\* Unmarking an item, with any delay, keeps what it was queued for.
LEMMA StoppedItem ==
    ASSUME NEW k \in Keys, item[k] \in Items, NEW t \in Nat
    PROVE /\ SameRequest([Stopped(k) EXCEPT !.ready = t], item[k])
          /\ SameRequest([Stopped(k) EXCEPT !.held = TRUE], item[k])
          /\ SameRequest([Stopped(k) EXCEPT !.attempts = item[k].attempts + 1,
                                            !.ready = t], item[k])
<1>1. /\ Stopped(k) \in Items
      /\ Stopped(k).job = item[k].job /\ Stopped(k).reconcile = item[k].reconcile
  BY DEF Stopped, Items
<1>2. ASSUME NEW r \in Items, NEW n \in Nat
      PROVE /\ SameRequest([r EXCEPT !.ready = t], r)
            /\ SameRequest([r EXCEPT !.held = TRUE], r)
            /\ SameRequest([r EXCEPT !.attempts = n, !.ready = t], r)
  <2>1. SameRequest([r EXCEPT !.ready = t], r)
    BY DEF SameRequest, Items
  <2>2. SameRequest([r EXCEPT !.held = TRUE], r)
    BY DEF SameRequest, Items
  <2>3. SameRequest([r EXCEPT !.attempts = n, !.ready = t], r)
    BY DEF SameRequest, Items
  <2> QED BY <2>1, <2>2, <2>3
<1>3. item[k].attempts + 1 \in Nat
  BY DEF Items
<1> QED BY <1>1, <1>2, <1>3 DEF SameRequest

\* And so does the cost check that releases it,
LEMMA ReleasedItem ==
    ASSUME NEW k \in Keys, item[k] \in Items
    PROVE SameRequest([item[k] EXCEPT !.held = FALSE, !.ready = 0], item[k])
  BY DEF SameRequest, Items

\* and so does queueing it afresh, as itself or as the reconcile it replaced.
LEMMA FreshItem ==
    ASSUME NEW k \in Keys, item[k] \in Items
    PROVE /\ SameRequest(Fresh(k), item[k])
          /\ [Fresh(k) EXCEPT !.job = "reconcile"] \in Items
          /\ [Fresh(k) EXCEPT !.job = "reconcile"].reconcile = item[k].reconcile
  BY DEF SameRequest, Fresh, Stopped, Items, JobKinds
-----------------------------------------------------------------------------
(* Types.                                                                  *)

Workers == [at : {"loop", "asleep", "cost", "next", "run", "stopped"},
            key : Keys \cup {Nobody}, job : JobKinds, deleted : BOOLEAN]

\* The places of the worker between runs.
LEMMA AtType ==
    ASSUME NEW where \in {"loop", "asleep", "cost", "next", "run", "stopped"}
    PROVE At(where) \in Workers
  BY DEF At, Workers, JobKinds

\* The queue starts empty, with types in order.
LEMMA TypeInit == Init => TypeOK
<1> SUFFICES ASSUME Init PROVE TypeOK
  OBVIOUS
<1>1. worker \in Workers
  BY AtType DEF Init
<1>2. order \in Seq(Keys)
  BY EmptySeq DEF Init
<1>3. /\ item \in [Keys -> Items \cup {NoItem}]
      /\ removed \in [Keys -> Nat]
      /\ intent \in [Keys -> JobKinds \cup {"none"}]
  BY DEF Init
<1>4. wanted \in [Keys -> BOOLEAN]
  BY DEF Init
<1> QED BY <1>1, <1>2, <1>3, <1>4, Constants DEF Init, TypeOK, Workers

\* A step that puts an item, or none, under one key.
LEMMA PutType ==
    ASSUME item \in [Keys -> Items \cup {NoItem}],
           NEW k \in Keys, NEW new \in Items \cup {NoItem},
           item' = [item EXCEPT ![k] = new]
    PROVE /\ item' \in [Keys -> Items \cup {NoItem}]
          /\ item'[k] = new
          /\ \A j \in Keys \ {k} : item'[j] = item[j]
  OBVIOUS

\* What a request asks for is recorded as a request.
LEMMA AskType ==
    ASSUME TypeOK, NEW k \in Keys, NEW job \in JobKinds, Ask(k, job)
    PROVE /\ intent' \in [Keys -> JobKinds \cup {"none"}]
          /\ wanted' \in [Keys -> BOOLEAN]
  BY DEF TypeOK, Ask

\* Requests keep the types.
LEMMA TypeRequest ==
    ASSUME TypeOK, NEW k \in Keys, NEW job \in JobKinds, Request(k, job)
    PROVE TypeOK'
<1>1. /\ requests' \in Nat
      /\ UNCHANGED <<removed, costCheck, capped, budget, worker, sleep, freed>>
  BY DEF TypeOK, Request, limits
<1>2. CASE KeepItem(k, job)
  <2>1. item[k] \in Items
    BY <1>2 DEF TypeOK, KeepItem, Pending
  <2>2. item' \in [Keys -> Items \cup {NoItem}]
    BY <1>2, <2>1, KeptItem, PutType DEF TypeOK, KeepItem
  <2> QED BY <1>1, <1>2, <2>2, AskType DEF KeepItem, TypeOK
<1>3. CASE SwitchItem(k, job)
  <2>1. item[k] \in Items
    BY <1>3 DEF TypeOK, SwitchItem, Pending
  <2>2. item' \in [Keys -> Items \cup {NoItem}]
    BY <1>3, <2>1, SwitchedItem, PutType DEF TypeOK, SwitchItem
  <2> QED BY <1>1, <1>3, <2>2, AskType DEF SwitchItem, TypeOK
<1>4. CASE AddItem(k, job)
  <2>1. item' \in [Keys -> Items \cup {NoItem}]
    BY <1>4, NewItem, PutType DEF TypeOK, AddItem
  <2>2. order' \in Seq(Keys)
    BY <1>4, AppendProperties DEF AddItem, TypeOK
  <2> QED BY <1>1, <1>4, <2>1, <2>2, AskType DEF AddItem, TypeOK
<1>5. CASE RefuseItem(k, job)
  BY <1>1, <1>5 DEF RefuseItem, TypeOK
<1> QED BY <1>2, <1>3, <1>4, <1>5 DEF Request, enqueue

\* Taking the finished key out leaves a sequence of keys.
LEMMA WithoutNthType ==
    ASSUME order \in Seq(Keys), NEW i \in 1..Len(order)
    PROVE WithoutNth(i) \in Seq(Keys)
<1>1. \A j \in 1..Len(order) : order[j] \in Keys
  BY ElementOfSeq
<1>2. Len(order) \in Nat
  BY LenProperties
<1>3. SubSeq(order, 1, i - 1) \in Seq(Keys)
  <2>1. \A j \in 1..(i - 1) : order[j] \in Keys
    BY <1>1, <1>2
  <2> QED BY <2>1, <1>2, SubSeqProperties
<1>4. SubSeq(order, i + 1, Len(order)) \in Seq(Keys)
  <2>1. \A j \in (i + 1)..Len(order) : order[j] \in Keys
    BY <1>1, <1>2
  <2> QED BY <2>1, <1>2, SubSeqProperties
<1> QED BY <1>3, <1>4, ConcatProperties DEF WithoutNth

\* The end of a run keeps the types of what it touches.
LEMMA OverType ==
    ASSUME TypeOK, NEW k \in Keys, NEW new \in Items \cup {NoItem}, Over(k, new)
    PROVE /\ item' \in [Keys -> Items \cup {NoItem}]
          /\ order' \in Seq(Keys)
          /\ worker' \in Workers
          /\ UNCHANGED <<wake, sleep, requests, intent>>
<1>1. item' \in [Keys -> Items \cup {NoItem}]
  BY PutType DEF Over, TypeOK
<1>2. order' \in Seq(Keys)
  <2>1. CASE UNCHANGED order
    BY <2>1 DEF TypeOK
  <2>2. CASE \E i \in 1..Len(order) : order[i] = k /\ order' = WithoutNth(i)
    BY <2>2, WithoutNthType DEF TypeOK
  <2> QED BY <2>1, <2>2 DEF Over
<1>3. worker' \in Workers
  BY AtType DEF Over
<1> QED BY <1>1, <1>2, <1>3 DEF Over

\* A delay is a number of time units.
LEMMA DelayType ==
    ASSUME NEW k \in Keys, item[k] \in Items,
           item[k].attempts + 1 < MaxAttempts,
           NEW t \in Delays(item[k].attempts + 1)
    PROVE t \in Nat
<1>1. item[k].attempts + 1 \in 1..MaxAttempts
  BY Constants DEF Items
<1>2. Backoff[item[k].attempts + 1] \in Nat
  BY <1>1, Constants
<1> QED BY <1>2, Constants DEF Delays, Larger

\* Twitch's answers keep the types.
LEMMA TypeAnswer ==
    ASSUME TypeOK, NEW k \in Keys, Answer(k)
    PROVE TypeOK'
<1>1. item[k] \in Items
  BY DEF TypeOK, Answer, Pending, Superseded, Busy, CostHeld, Reauthorized,
         Complete, RateLimited, Rejected, Retry, GiveUp
<1>2. ASSUME NEW new \in Items \cup {NoItem}, Over(k, new),
             removed' \in [Keys -> Nat], costCheck' \in Nat, capped' \in Nat,
             budget' \in Nat, freed' \in BOOLEAN,
             wanted' \in [Keys -> BOOLEAN]
      PROVE TypeOK'
  BY <1>2, OverType DEF TypeOK, Workers
<1>3. Observe => budget' \in Nat
  BY Constants DEF Observe
<1>4. Freed(k) => costCheck' \in Nat /\ capped' \in Nat
  BY DEF Freed, TypeOK
<1>5. CASE Superseded(k)
  BY <1>1, <1>2, <1>3, <1>4, <1>5, FreshItem
     DEF Superseded, SameRequest, TypeOK
<1>6. CASE Busy(k)
  BY <1>1, <1>2, <1>6, StoppedItem, Constants
     DEF Busy, SameRequest, TypeOK, limits
<1>7. CASE CostHeld(k)
  BY <1>1, <1>2, <1>3, <1>7, StoppedItem, Constants
     DEF CostHeld, SameRequest, TypeOK
<1>8. CASE Reauthorized(k)
  BY <1>1, <1>2, <1>3, <1>8, FreshItem DEF Reauthorized, TypeOK
<1>9. CASE Complete(k)
  <2>1. removed' \in [Keys -> Nat]
    BY <1>9, Constants DEF Complete, TypeOK
  <2>2. wanted' \in [Keys -> BOOLEAN]
    BY <1>9 DEF Complete, TypeOK
  <2>3. Over(k, NoItem) /\ Observe /\ Freed(k) /\ UNCHANGED freed
    BY <1>9 DEF Complete
  <2> QED BY <1>2, <1>3, <1>4, <2>1, <2>2, <2>3 DEF TypeOK
<1>10. CASE RateLimited(k)
  <2>1. PICK at \in {budget'} \cup 0..MaxReset :
          Over(k, [Stopped(k) EXCEPT !.ready = After(at)])
    BY <1>10 DEF RateLimited
  <2>2. After(at) \in Nat
    BY <1>3, <1>10, Constants DEF After, RateLimited
  <2>3. [Stopped(k) EXCEPT !.ready = After(at)] \in Items
    BY <1>1, <2>2, StoppedItem DEF SameRequest
  <2> QED BY <1>2, <1>3, <1>4, <1>10, <2>1, <2>3 DEF RateLimited, TypeOK
<1>11. CASE Rejected(k)
  <2>1. wanted' \in [Keys -> BOOLEAN]
    BY <1>11 DEF Rejected, TypeOK
  <2>2. /\ Over(k, NoItem) /\ Observe /\ Freed(k)
        /\ UNCHANGED <<removed, freed>>
    BY <1>11 DEF Rejected
  <2> QED BY <1>2, <1>3, <1>4, <2>1, <2>2 DEF TypeOK
<1>12. CASE Retry(k)
  <2>1. PICK t \in Delays(item[k].attempts + 1) :
          Over(k, [Stopped(k) EXCEPT !.attempts = item[k].attempts + 1, !.ready = t])
    BY <1>12 DEF Retry
  <2>2. t \in Nat
    BY <1>1, <1>12, DelayType DEF Retry
  <2>3. [Stopped(k) EXCEPT !.attempts = item[k].attempts + 1, !.ready = t] \in Items
    BY <1>1, <2>2, StoppedItem DEF SameRequest
  <2> QED BY <1>2, <1>3, <1>4, <1>12, <2>1, <2>3 DEF Retry, TypeOK
<1>13. CASE GiveUp(k)
  <2>1. wanted' \in [Keys -> BOOLEAN]
    BY <1>13 DEF GiveUp, TypeOK
  <2>2. /\ Over(k, NoItem) /\ Observe /\ Freed(k)
        /\ UNCHANGED <<removed, freed>>
    BY <1>13 DEF GiveUp
  <2> QED BY <1>2, <1>3, <1>4, <2>1, <2>2 DEF TypeOK
<1> QED BY <1>5, <1>6, <1>7, <1>8, <1>9, <1>10, <1>11, <1>12, <1>13 DEF Answer

\* The worker's own steps keep the types.
LEMMA TypeWorker ==
    ASSUME TypeOK,
           \/ BudgetWait \/ StartCheck \/ FailCheck \/ EndCheck \/ Sleep \/ Wake
           \/ RemoveOne \/ Shutdown
    PROVE TypeOK'
<1>1. ASSUME worker' \in Workers, costCheck' \in Nat, capped' \in Nat,
             budget' \in Nat, sleep' \in Nat, wake' \in BOOLEAN, freed' \in BOOLEAN,
             item' \in [Keys -> Items \cup {NoItem}],
             UNCHANGED <<order, removed, requests, intent, wanted>>
      PROVE TypeOK'
  BY <1>1 DEF TypeOK, Workers
<1>2. CASE BudgetWait
  BY <1>1, <1>2, AtType DEF BudgetWait, TypeOK, limits, ghosts
<1>3. CASE StartCheck
  BY <1>1, <1>3, AtType, Constants DEF StartCheck, TypeOK, ghosts
<1>4. CASE FailCheck
  BY <1>1, <1>4, AtType, Constants DEF FailCheck, TypeOK, ghosts
<1>5. CASE EndCheck
  <2>1. item' \in [Keys -> Items \cup {NoItem}]
    <3>1. CASE UNCHANGED item
      BY <3>1 DEF TypeOK
    <3>2. CASE item' = HeldReleased
      BY <3>2, ReleasedItem DEF TypeOK, HeldReleased, Pending, SameRequest
    <3> QED BY <1>5, <3>1, <3>2 DEF EndCheck
  <2>2. capped' \in Nat /\ budget' \in Nat
    BY <1>5, Constants DEF EndCheck, TypeOK
  <2> QED BY <1>1, <1>5, <2>1, <2>2, AtType DEF EndCheck, TypeOK, ghosts
<1>6. CASE Sleep
  <2>1. ASSUME NEW k \in Keys, Pending(k) PROVE item[k].ready \in Nat
    BY <2>1 DEF Pending, TypeOK, Items
  <2>2. Waits \subseteq Nat
    BY <2>1, Constants DEF Waits, TypeOK
  <2>3. sleep' \in Nat
    BY <1>6, <2>2 DEF Sleep
  <2> QED BY <1>1, <1>6, <2>3, AtType DEF Sleep, TypeOK, limits, ghosts
<1>7. CASE Wake
  BY <1>1, <1>7, AtType DEF Wake, TypeOK, limits, ghosts
<1>8. CASE Shutdown
  <2>1. worker' \in Workers
    BY <1>8 DEF Shutdown, TypeOK, Workers
  <2> QED BY <1>1, <1>8, <2>1 DEF Shutdown, TypeOK, limits, ghosts
<1>9. CASE RemoveOne
  <2>1. worker' \in Workers
    BY <1>9 DEF RemoveOne, TypeOK, Workers
  <2> QED BY <1>1, <1>9, <2>1 DEF RemoveOne, TypeOK, limits
<1> QED BY <1>2, <1>3, <1>4, <1>5, <1>6, <1>7, <1>8, <1>9

\* next keeps the types.
LEMMA TypePick ==
    ASSUME TypeOK, NEW k \in Keys, Pick(k)
    PROVE TypeOK'
<1>1. item[k] \in Items
  BY DEF TypeOK, Pick, Ready, Pending
<1>2. item' \in [Keys -> Items \cup {NoItem}]
  BY <1>1, PickedItem, PutType DEF TypeOK, Pick
<1>3. worker' \in Workers
  BY <1>1 DEF Pick, Workers, Items
<1>4. /\ intent' \in [Keys -> JobKinds \cup {"none"}]
      /\ wanted' \in [Keys -> BOOLEAN]
  BY DEF Pick, TypeOK
<1> QED BY <1>2, <1>3, <1>4 DEF Pick, TypeOK, Workers, limits

\* Time keeps the types.
LEMMA TypeTick == TypeOK /\ Tick => TypeOK'
<1> SUFFICES ASSUME TypeOK, Tick PROVE TypeOK'
  OBVIOUS
<1>1. ASSUME NEW n \in Nat PROVE Less(n) \in Nat
  BY DEF Less
<1>2. ASSUME NEW k \in Keys, Pending(k)
      PROVE [item[k] EXCEPT !.ready = Less(@)] \in Items
  <2>1. item[k] \in Items /\ item[k].ready \in Nat
    BY <1>2 DEF Pending, TypeOK, Items
  <2> QED BY <1>1, <2>1 DEF Items
<1>3. item' \in [Keys -> Items \cup {NoItem}]
  BY <1>2 DEF Tick
<1>4. removed' \in [Keys -> Nat]
  BY <1>1 DEF Tick, TypeOK
<1> QED BY <1>1, <1>3, <1>4 DEF Tick, TypeOK, ghosts

\* An item stays one when its delay counts down.
LEMMA TickItem ==
    ASSUME NEW r \in Items
    PROVE [r EXCEPT !.ready = Less(@)] \in Items
<1>1. Less(r.ready) \in Nat
  BY DEF Less, Items
<1> QED BY <1>1 DEF Items

\* Every action keeps the types.
LEMMA TypeStep == TypeOK /\ [Next]_vars => TypeOK'
<1> SUFFICES ASSUME TypeOK, [Next]_vars PROVE TypeOK'
  OBVIOUS
<1>1. CASE Requests
  <2>1. ASSUME NEW c \in Channels,
               Enqueue(c) \/ Notified(c) \/ Revoked(c)
        PROVE TypeOK'
    BY <2>1, TypeRequest DEF Enqueue, Notified, Revoked, Keys, JobKinds
  <2>2. ASSUME NEW c \in Channels, IgnoreRevoked(c) PROVE TypeOK'
    BY <2>2 DEF IgnoreRevoked, TypeOK, limits, ghosts
  <2>3. CASE EnsureApp
    BY <2>3, TypeRequest DEF EnsureApp, Keys, JobKinds
  <2> QED BY <1>1, <2>1, <2>2, <2>3 DEF Requests
<1>2. CASE Work
  BY <1>2, TypeWorker, TypePick, TypeAnswer DEF Work
<1>3. CASE Shutdown
  BY <1>3, TypeWorker
<1>4. CASE Tick
  BY <1>4, TypeTick
<1>5. CASE UNCHANGED vars
  BY <1>5 DEF vars, TypeOK, limits, ghosts
<1> QED BY <1>1, <1>2, <1>3, <1>4, <1>5 DEF Next

\* The queue's state keeps its types: deadlines never run below zero, there is
\* one item at most for a key, and an item's fields stay what they are.
THEOREM Typing == Spec => []TypeOK
  BY TypeInit, TypeStep, PTL DEF Spec
-----------------------------------------------------------------------------
(* No request is lost.                                                     *)

RunsAt(k) == worker.at = "run" /\ worker.key = k

\* The item the worker is at is queued and marked, and runs what was asked for
\* unless `changed` says that a request came since.
RunInv(k) ==
    RunsAt(k) => /\ Pending(k) /\ item[k].running
                 /\ intent[k] = "none" => item[k].job = worker.job

\* A request not served yet is the job of its key's item, and `changed` keeps
\* the run it came during from dropping it.
IntentInv(k) ==
    intent[k] # "none" => /\ Pending(k) /\ item[k].job = intent[k]
                          /\ RunsAt(k) => item[k].changed

\* A reconcile not served yet is noted in its item, whatever its job is now.
WantedInv(k) == wanted[k] => Pending(k) /\ item[k].reconcile

ItemInv(k) == RunInv(k) /\ IntentInv(k) /\ WantedInv(k)

IndInv == TypeOK /\ \A k \in Keys : ItemInv(k)

\* What a step leaves alone of a key.
Same(k) == item'[k] = item[k] /\ intent'[k] = intent[k] /\ wanted'[k] = wanted[k]

\* A step that leaves a key's item and requests alone keeps its invariant.
LEMMA SameKeeps ==
    ASSUME NEW k \in Keys, ItemInv(k), Same(k), RunsAt(k)' => RunsAt(k) /\ worker' = worker
    PROVE ItemInv(k)'
  BY DEF ItemInv, RunInv, IntentInv, WantedInv, Same, Pending, RunsAt

\* There is nothing to forget at the start.
LEMMA IndInit == Init => IndInv
<1> SUFFICES ASSUME Init PROVE \A k \in Keys : ItemInv(k)
  BY TypeInit DEF IndInv
<1> QED BY DEF Init, ItemInv, RunInv, IntentInv, WantedInv, RunsAt, At

\* What a request records of its key.
LEMMA AskKey ==
    ASSUME TypeOK, NEW k \in Keys, NEW job \in JobKinds, Ask(k, job)
    PROVE /\ intent'[k] = IF Served(k, job) THEN intent[k] ELSE job
          /\ wanted'[k] <=> wanted[k] \/ (job = "reconcile" /\ ~Served(k, job))
          /\ \A j \in Keys \ {k} : intent'[j] = intent[j] /\ wanted'[j] = wanted[j]
  BY DEF TypeOK, Ask

\* Whatever is asked for, and whenever, the item stands for it afterwards.
LEMMA RequestStep ==
    ASSUME IndInv, NEW k \in Keys, NEW job \in JobKinds, Request(k, job)
    PROVE \A j \in Keys : ItemInv(j)'
<1> USE DEF IndInv
<1>1. worker' = worker
  BY DEF Request
<1>2. ASSUME NEW j \in Keys, Same(j) PROVE ItemInv(j)'
  BY <1>1, <1>2, SameKeeps DEF RunsAt
<1>3. job # "none"
  BY DEF JobKinds
<1>4. RunInv(k) /\ IntentInv(k) /\ WantedInv(k)
  BY DEF ItemInv
<1>5. RunsAt(k)' <=> RunsAt(k)
  BY <1>1 DEF RunsAt
<1>6. Served(k, job) <=> /\ job # "remove" /\ intent[k] = "none"
                         /\ RunsAt(k) /\ worker.job = job
  BY DEF Served, Runs, RunsAt
<1>7. CASE KeepItem(k, job)
  <2>1. item[k] \in Items /\ Ask(k, job) /\ item[k].job = job
    BY <1>7 DEF TypeOK, KeepItem, Pending
  <2>2. Kept(k, job) \in Items /\ item'[k] = Kept(k, job)
        /\ \A j \in Keys \ {k} : item'[j] = item[j]
    BY <1>7, <2>1, KeptItem, PutType DEF TypeOK, KeepItem
  <2>3. \A j \in Keys \ {k} : Same(j)
    BY <2>1, <2>2, AskKey DEF Same
  <2>4. Pending(k)'
    BY <2>2, NoItemAssumption DEF Pending
  <2>5. /\ item'[k].job = job
        /\ item'[k].running = item[k].running
        /\ item'[k].reconcile <=> item[k].reconcile \/ job = "reconcile"
        /\ item'[k].changed <=> item[k].changed \/ (job = "remove" /\ item[k].running)
    BY <2>1, <2>2, KeptItem
  <2>6. /\ intent'[k] = IF Served(k, job) THEN intent[k] ELSE job
        /\ wanted'[k] <=> wanted[k] \/ (job = "reconcile" /\ ~Served(k, job))
    BY <2>1, AskKey
  <2>7. RunInv(k)'
    BY <1>1, <1>3, <1>4, <1>5, <1>6, <2>1, <2>4, <2>5, <2>6 DEF RunInv
  <2>8. IntentInv(k)'
    BY <1>3, <1>4, <1>5, <1>6, <2>1, <2>4, <2>5, <2>6 DEF RunInv, IntentInv
  <2>9. WantedInv(k)'
    BY <1>4, <2>4, <2>5, <2>6 DEF WantedInv
  <2> QED BY <1>2, <2>3, <2>7, <2>8, <2>9 DEF ItemInv
<1>8. CASE SwitchItem(k, job)
  <2>1. item[k] \in Items /\ Ask(k, job) /\ item[k].job # job
    BY <1>8 DEF TypeOK, SwitchItem, Pending
  <2>2. Switched(k, job) \in Items /\ item'[k] = Switched(k, job)
        /\ \A j \in Keys \ {k} : item'[j] = item[j]
    BY <1>8, <2>1, SwitchedItem, PutType DEF TypeOK, SwitchItem
  <2>3. \A j \in Keys \ {k} : Same(j)
    BY <2>1, <2>2, AskKey DEF Same
  <2>4. Pending(k)'
    BY <2>2, NoItemAssumption DEF Pending
  <2>5. /\ item'[k].job = job
        /\ item'[k].running = item[k].running
        /\ item'[k].reconcile <=> item[k].reconcile \/ job = "reconcile"
        /\ item'[k].changed = item[k].running
    BY <2>1, <2>2, SwitchedItem
  <2>6. ~Served(k, job)
    BY <1>4, <1>6, <2>1 DEF RunInv
  <2>7. /\ intent'[k] = job
        /\ wanted'[k] <=> wanted[k] \/ job = "reconcile"
    BY <2>1, <2>6, AskKey
  <2>8. RunInv(k)'
    BY <1>3, <1>4, <1>5, <2>4, <2>5, <2>7 DEF RunInv
  <2>9. IntentInv(k)'
    BY <1>4, <1>5, <2>4, <2>5, <2>7 DEF RunInv, IntentInv
  <2>10. WantedInv(k)'
    BY <1>4, <2>4, <2>5, <2>7 DEF WantedInv
  <2> QED BY <1>2, <2>3, <2>8, <2>9, <2>10 DEF ItemInv
<1>9. CASE AddItem(k, job)
  <2>1. Ask(k, job) /\ ~Pending(k)
    BY <1>9 DEF AddItem
  <2>2. New(job) \in Items /\ item'[k] = New(job)
        /\ \A j \in Keys \ {k} : item'[j] = item[j]
    BY <1>9, NewItem, PutType DEF TypeOK, AddItem
  <2>3. \A j \in Keys \ {k} : Same(j)
    BY <2>1, <2>2, AskKey DEF Same
  <2>4. Pending(k)'
    BY <2>2, NoItemAssumption DEF Pending
  <2>5. ~RunsAt(k) /\ ~RunsAt(k)' /\ ~Served(k, job) /\ ~wanted[k]
    BY <1>4, <1>5, <1>6, <2>1 DEF RunInv, WantedInv
  <2>6. intent'[k] = job /\ (wanted'[k] <=> job = "reconcile")
    BY <2>1, <2>5, AskKey
  <2>7. item'[k].job = job /\ (item'[k].reconcile <=> job = "reconcile")
    BY <2>2, NewItem
  <2>8. ItemInv(k)'
    BY <2>4, <2>5, <2>6, <2>7 DEF ItemInv, RunInv, IntentInv, WantedInv
  <2> QED BY <1>2, <2>3, <2>8
<1>10. CASE RefuseItem(k, job)
  BY <1>2, <1>10 DEF RefuseItem, Same
<1> QED BY <1>7, <1>8, <1>9, <1>10 DEF Request, enqueue

\* The end of a run loses no request if the item it leaves behind stands for
\* what was asked for.
LEMMA OverStep ==
    ASSUME IndInv, NEW k \in Keys, NEW new \in Items \cup {NoItem}, Over(k, new),
           intent[k] # "none" => new # NoItem /\ new.job = intent[k],
           wanted'[k] => new # NoItem /\ new.reconcile,
           \A j \in Keys \ {k} : wanted'[j] = wanted[j]
    PROVE \A j \in Keys : ItemInv(j)'
<1>1. item'[k] = new /\ \A j \in Keys \ {k} : item'[j] = item[j]
  BY PutType DEF Over, IndInv, TypeOK
<1>2. intent' = intent
  BY DEF Over
<1>3. \A j \in Keys : ~RunsAt(j)'
  BY DEF Over, RunsAt, At
<1>4. \A j \in Keys \ {k} : ItemInv(j)'
  BY <1>1, <1>2, <1>3, SameKeeps DEF IndInv, Same
<1>5. ItemInv(k)'
  BY <1>1, <1>2, <1>3 DEF ItemInv, RunInv, IntentInv, WantedInv, Pending
<1> QED BY <1>4, <1>5

\* No outcome of a run drops or overwrites a request made during it.
LEMMA AnswerStep ==
    ASSUME IndInv, NEW k \in Keys, Answer(k)
    PROVE \A j \in Keys : ItemInv(j)'
<1>1. item[k] \in Items /\ RunsAt(k)
  BY DEF IndInv, TypeOK, RunsAt, Over, Answer, Pending, Superseded, Busy, CostHeld,
         Reauthorized, Complete, RateLimited, Rejected, Retry, GiveUp
<1>2. RunInv(k) /\ IntentInv(k) /\ WantedInv(k)
  BY DEF IndInv, ItemInv
<1>3. ~item[k].changed => intent[k] = "none"
  BY <1>1, <1>2 DEF IntentInv
<1>4. ASSUME NEW new, SameRequest(new, item[k]), Over(k, new), wanted' = wanted
      PROVE \A j \in Keys : ItemInv(j)'
  <2>1. new \in Items /\ new # NoItem
    BY <1>4, NoItemAssumption DEF SameRequest
  <2>2. intent[k] # "none" => new.job = intent[k]
    BY <1>2, <1>4 DEF SameRequest, IntentInv
  <2>3. wanted'[k] => new.reconcile
    BY <1>2, <1>4 DEF SameRequest, WantedInv
  <2> QED BY <1>4, <2>1, <2>2, <2>3, OverStep
<1>5. ASSUME intent[k] = "none", Over(k, NoItem),
             wanted' = [wanted EXCEPT ![k] = FALSE]
      PROVE \A j \in Keys : ItemInv(j)'
  <2>1. ~wanted'[k] /\ \A j \in Keys \ {k} : wanted'[j] = wanted[j]
    BY <1>5 DEF IndInv, TypeOK
  <2> QED BY <1>5, <2>1, OverStep
<1>6. CASE Superseded(k)
  BY <1>1, <1>4, <1>6, FreshItem DEF Superseded
<1>7. CASE Busy(k)
  BY <1>1, <1>4, <1>7, StoppedItem, Constants DEF Busy
<1>8. CASE CostHeld(k)
  <2>1. SameRequest([Stopped(k) EXCEPT !.held = TRUE], item[k])
    BY <1>1, StoppedItem, Constants
  <2> QED BY <1>4, <1>8, <2>1 DEF CostHeld
<1>9. CASE Reauthorized(k)
  <2>1. intent[k] = "none" /\ wanted' = wanted
    BY <1>3, <1>9 DEF Reauthorized
  <2>2. CASE item[k].reconcile
    <3>1. Over(k, [Fresh(k) EXCEPT !.job = "reconcile"])
      BY <1>9, <2>2 DEF Reauthorized
    <3>2. /\ [Fresh(k) EXCEPT !.job = "reconcile"] \in Items
          /\ [Fresh(k) EXCEPT !.job = "reconcile"].reconcile
      BY <1>1, <2>2, FreshItem
    <3> QED BY <2>1, <3>1, <3>2, NoItemAssumption, OverStep
  <2>3. CASE ~item[k].reconcile
    <3>1. Over(k, NoItem)
      BY <1>9, <2>3 DEF Reauthorized
    <3>2. ~wanted'[k]
      BY <1>2, <2>1, <2>3 DEF WantedInv
    <3> QED BY <2>1, <3>1, <3>2, OverStep
  <2> QED BY <2>2, <2>3
<1>10. CASE Complete(k)
  BY <1>3, <1>5, <1>10 DEF Complete
<1>11. CASE RateLimited(k)
  <2>1. PICK at \in {budget'} \cup 0..MaxReset :
          Over(k, [Stopped(k) EXCEPT !.ready = After(at)])
    BY <1>11 DEF RateLimited
  <2>2. budget' \in Nat
    BY <1>11, Constants DEF RateLimited, Observe
  <2>3. After(at) \in Nat
    BY <2>2, Constants DEF After
  <2>4. SameRequest([Stopped(k) EXCEPT !.ready = After(at)], item[k])
    BY <1>1, <2>3, StoppedItem
  <2> QED BY <1>4, <1>11, <2>1, <2>4 DEF RateLimited
<1>12. CASE Rejected(k)
  BY <1>3, <1>5, <1>12 DEF Rejected
<1>13. CASE Retry(k)
  <2>1. PICK t \in Delays(item[k].attempts + 1) :
          Over(k, [Stopped(k) EXCEPT !.attempts = item[k].attempts + 1, !.ready = t])
    BY <1>13 DEF Retry
  <2>2. t \in Nat
    BY <1>1, <1>13, DelayType DEF Retry
  <2>3. SameRequest([Stopped(k) EXCEPT !.attempts = item[k].attempts + 1,
                                       !.ready = t], item[k])
    BY <1>1, <2>2, StoppedItem
  <2> QED BY <1>4, <1>13, <2>1, <2>3 DEF Retry
<1>14. CASE GiveUp(k)
  BY <1>3, <1>5, <1>14 DEF GiveUp
<1> QED BY <1>6, <1>7, <1>8, <1>9, <1>10, <1>11, <1>12, <1>13, <1>14 DEF Answer

\* A run that begins serves the latest request.
LEMMA PickStep ==
    ASSUME IndInv, NEW k \in Keys, Pick(k)
    PROVE \A j \in Keys : ItemInv(j)'
<1>1. item[k] \in Items
  BY DEF IndInv, TypeOK, Pick, Ready, Pending
<1>2. Picked(k) \in Items /\ item'[k] = Picked(k)
      /\ \A j \in Keys \ {k} : item'[j] = item[j]
  BY <1>1, PickedItem, PutType DEF IndInv, TypeOK, Pick
<1>3. /\ intent'[k] = "none"
      /\ wanted'[k] => wanted[k]
      /\ \A j \in Keys \ {k} : intent'[j] = intent[j] /\ wanted'[j] = wanted[j]
  BY DEF IndInv, TypeOK, Pick
<1>4. worker' = [at |-> "run", key |-> k, job |-> item[k].job, deleted |-> FALSE]
  BY DEF Pick
<1>5. \A j \in Keys \ {k} : ~RunsAt(j)'
  BY <1>4 DEF RunsAt
<1>6. \A j \in Keys \ {k} : ItemInv(j)'
  BY <1>2, <1>3, <1>5, SameKeeps DEF IndInv, Same
<1>7. Pending(k)' /\ item'[k].running /\ item'[k].job = worker'.job
      /\ item'[k].reconcile = item[k].reconcile
  BY <1>1, <1>2, <1>4, PickedItem, NoItemAssumption DEF Pending
<1>8. WantedInv(k)'
  BY <1>3, <1>7 DEF IndInv, ItemInv, WantedInv
<1> QED BY <1>3, <1>6, <1>7, <1>8 DEF ItemInv, RunInv, IntentInv

\* Every step keeps the invariant.
LEMMA IndStep == IndInv /\ [Next]_vars => IndInv'
<1> SUFFICES ASSUME IndInv, [Next]_vars PROVE \A k \in Keys : ItemInv(k)'
  BY TypeStep DEF IndInv
<1>1. CASE Requests
  <2>1. ASSUME NEW c \in Channels,
               Enqueue(c) \/ Notified(c) \/ Revoked(c)
        PROVE \A k \in Keys : ItemInv(k)'
    BY <2>1, RequestStep DEF Enqueue, Notified, Revoked, Keys, JobKinds
  <2>2. ASSUME NEW c \in Channels, IgnoreRevoked(c)
        PROVE \A k \in Keys : ItemInv(k)'
    BY <2>2, SameKeeps DEF IgnoreRevoked, IndInv, Same, RunsAt, ghosts
  <2>3. CASE EnsureApp
    BY <2>3, RequestStep DEF EnsureApp, Keys, JobKinds
  <2> QED BY <1>1, <2>1, <2>2, <2>3 DEF Requests
<1>2. CASE BudgetWait \/ StartCheck \/ FailCheck \/ Sleep \/ Wake \/ Shutdown
  <2>1. UNCHANGED <<item, intent, wanted>>
    BY <1>2 DEF BudgetWait, StartCheck, FailCheck, Sleep, Wake, Shutdown, ghosts
  <2>2. \A k \in Keys : ~RunsAt(k)'
    BY <1>2 DEF BudgetWait, StartCheck, FailCheck, Sleep, Wake, Shutdown, RunsAt,
                At, IndInv, TypeOK
  <2> QED BY <2>1, <2>2, SameKeeps DEF IndInv, Same
<1>3. CASE EndCheck
  <2>1. UNCHANGED <<intent, wanted>> /\ (UNCHANGED item \/ item' = HeldReleased)
    BY <1>3 DEF EndCheck, ghosts
  <2>2. \A k \in Keys : ~RunsAt(k)'
    BY <1>3 DEF EndCheck, RunsAt, At
  <2>3. CASE UNCHANGED item
    BY <2>1, <2>2, <2>3, SameKeeps DEF IndInv, Same
  <2>4. CASE item' = HeldReleased
    <3> SUFFICES ASSUME NEW k \in Keys PROVE ItemInv(k)'
      OBVIOUS
    <3>1. CASE item'[k] = item[k]
      BY <2>1, <2>2, <3>1, SameKeeps DEF IndInv, Same
    <3>2. CASE /\ Pending(k)
               /\ item'[k] = [item[k] EXCEPT !.held = FALSE, !.ready = 0]
      <4>1. SameRequest(item'[k], item[k])
        BY <3>2, ReleasedItem DEF Pending, IndInv, TypeOK
      <4>2. Pending(k)'
        BY <4>1, NoItemAssumption DEF Pending, SameRequest
      <4> QED BY <2>1, <2>2, <4>1, <4>2
              DEF IndInv, ItemInv, RunInv, IntentInv, WantedInv, SameRequest
    <3> QED BY <2>4, <3>1, <3>2 DEF HeldReleased
  <2> QED BY <2>1, <2>3, <2>4
<1>4. ASSUME NEW k \in Keys, Pick(k) \/ Answer(k)
      PROVE \A j \in Keys : ItemInv(j)'
  BY <1>4, PickStep, AnswerStep
<1>5. CASE Tick
  <2> SUFFICES ASSUME NEW k \in Keys PROVE ItemInv(k)'
    OBVIOUS
  <2>1. UNCHANGED <<intent, wanted, worker>>
    BY <1>5 DEF Tick, ghosts
  <2>2. RunsAt(k)' <=> RunsAt(k)
    BY <2>1 DEF RunsAt
  <2>3. CASE ~Pending(k)
    <3>1. item'[k] = item[k]
      BY <1>5, <2>3 DEF Tick, Pending
    <3> QED BY <2>1, <2>2, <3>1, SameKeeps DEF IndInv, Same
  <2>4. CASE Pending(k)
    <3>1. item[k] \in Items /\ item'[k] = [item[k] EXCEPT !.ready = Less(@)]
      BY <1>5, <2>4 DEF Tick, Pending, IndInv, TypeOK
    <3>2. /\ item'[k].job = item[k].job
          /\ item'[k].running = item[k].running
          /\ item'[k].changed = item[k].changed
          /\ item'[k].reconcile = item[k].reconcile
      BY <3>1 DEF Items
    <3>3. Pending(k)'
      BY <3>1, TickItem, NoItemAssumption DEF Pending
    <3> QED BY <2>1, <2>2, <2>4, <3>2, <3>3
            DEF IndInv, ItemInv, RunInv, IntentInv, WantedInv
  <2> QED BY <2>3, <2>4
<1>6. CASE UNCHANGED vars
  BY <1>6, SameKeeps DEF vars, ghosts, IndInv, Same, RunsAt
<1>7. CASE RemoveOne
  <2>1. /\ UNCHANGED <<item, intent, wanted>>
        /\ worker'.at = worker.at /\ worker'.key = worker.key /\ worker'.job = worker.job
    BY <1>7 DEF RemoveOne, IndInv, TypeOK
  <2> QED BY <2>1 DEF IndInv, ItemInv, RunInv, IntentInv, WantedInv, RunsAt, Pending
<1> QED BY <1>1, <1>2, <1>3, <1>4, <1>5, <1>6, <1>7 DEF Next, Work

\* The inductive invariant.
THEOREM Invariance == Spec => []IndInv
  BY IndInit, IndStep, PTL DEF Spec

\* A request that was taken is not forgotten before a run that began after it.
THEOREM NothingForgotten == Spec => []NotForgotten
<1>1. IndInv => NotForgotten
  BY DEF IndInv, ItemInv, IntentInv, NotForgotten
<1> QED BY <1>1, Invariance, PTL

\* A late revocation does not cost a broadcaster the reconcile it replaced.
THEOREM ReconcileKept == Spec => []WantedKept
<1>1. IndInv => WantedKept
  BY DEF IndInv, ItemInv, WantedInv, WantedKept
<1> QED BY <1>1, Invariance, PTL

\* A run does what was asked for last, if no run has done it yet.
THEOREM LatestIntentRuns == Spec => LatestRuns
<1>1. ASSUME IndInv, [Next]_vars, NEW k \in Keys,
             worker.at # "run", worker'.at = "run", worker'.key = k
      PROVE intent[k] \in {"none", worker'.job}
  <2>1. ASSUME NEW j \in Keys, Pick(j) PROVE intent[k] \in {"none", worker'.job}
    BY <1>1, <2>1 DEF Pick, IndInv, ItemInv, IntentInv
  <2>2. ASSUME NEW j \in Keys, Answer(j) PROVE FALSE
    BY <1>1, <2>2 DEF Answer, Over, Superseded, Busy, CostHeld, Reauthorized,
                      Complete, RateLimited, Rejected, Retry, GiveUp
  <2>3. worker' = worker \/ worker'.at # "run" \/ (\E j \in Keys : Pick(j) \/ Answer(j))
    BY <1>1 DEF RemoveOne, Next, Requests, Work, Enqueue, Notified, Revoked, IgnoreRevoked,
       EnsureApp, Request, BudgetWait, StartCheck, FailCheck, EndCheck, Sleep,
       Wake, Shutdown, Tick, At, vars, IndInv, TypeOK
  <2> QED BY <1>1, <2>1, <2>2, <2>3
<1>2. IndInv /\ [Next]_vars =>
        [\A k \in Keys :
           worker.at # "run" /\ worker'.at = "run" /\ worker'.key = k
             => intent[k] \in {"none", worker'.job}]_vars
  BY <1>1
<1> QED BY <1>2, Invariance, PTL DEF Spec, LatestRuns
-----------------------------------------------------------------------------
(* No wake-up is lost.                                                     *)

\* An item marked running is the one the worker is at, or was when it stopped.
Marked(k) == Pending(k) /\ item[k].running => worker.at = "stopped" \/ RunsAt(k)

\* The timer goes off before the item could run, or be released.
Timed(k) ==
    Pending(k) /\ ~item[k].running =>
        IF item[k].held THEN sleep <= costCheck ELSE sleep <= item[k].ready

\* The sleeping worker has a signal, or its timer is set for the rate limit's
\* reserve, or for the first thing there will be to do.
Alarm ==
    worker.at = "asleep" => wake \/ sleep <= budget \/ \A k \in Keys : Timed(k)

WakeInv == (\A k \in Keys : Marked(k)) /\ Alarm

\* No item that stays after its run is marked.
LEMMA NotRunning ==
    ASSUME NEW k \in Keys, item[k] \in Items, NEW t \in Nat
    PROVE  /\ [Stopped(k) EXCEPT !.ready = t].running = FALSE
           /\ [Stopped(k) EXCEPT !.held = TRUE].running = FALSE
           /\ [Stopped(k) EXCEPT !.attempts = item[k].attempts + 1,
                                 !.ready = t].running = FALSE
           /\ Fresh(k).running = FALSE
           /\ [Fresh(k) EXCEPT !.job = "reconcile"].running = FALSE
<1>1. Stopped(k) \in Items /\ Stopped(k).running = FALSE
  BY DEF Stopped, Items
<1>2. Fresh(k) \in Items /\ Fresh(k).running = FALSE
  BY <1>1 DEF Fresh, Items
<1> QED BY <1>1, <1>2 DEF Items

\* A run ends with its item gone, or unmarked.
LEMMA AnswerUnmarks ==
    ASSUME TypeOK, NEW k \in Keys, Answer(k)
    PROVE  /\ RunsAt(k) /\ worker'.at = "loop"
           /\ item'[k] = NoItem \/ item'[k].running = FALSE
           /\ \A j \in Keys \ {k} : item'[j] = item[j]
<1>1. item[k] \in Items
  BY DEF TypeOK, Answer, Pending, Superseded, Busy, CostHeld, Reauthorized,
         Complete, RateLimited, Rejected, Retry, GiveUp
<1>2. ASSUME NEW new, Over(k, new), new = NoItem \/ new.running = FALSE
      PROVE  /\ RunsAt(k) /\ worker'.at = "loop"
             /\ item'[k] = NoItem \/ item'[k].running = FALSE
             /\ \A j \in Keys \ {k} : item'[j] = item[j]
  BY <1>2 DEF Over, RunsAt, At, TypeOK
<1>3. CASE Superseded(k)
  BY <1>1, <1>2, <1>3, NotRunning, Constants DEF Superseded
<1>4. CASE Busy(k)
  BY <1>1, <1>2, <1>4, NotRunning, Constants DEF Busy
<1>5. CASE CostHeld(k)
  BY <1>1, <1>2, <1>5, NotRunning, Constants DEF CostHeld
<1>6. CASE Reauthorized(k)
  BY <1>1, <1>2, <1>6, NotRunning, Constants DEF Reauthorized
<1>7. CASE Complete(k) \/ Rejected(k) \/ GiveUp(k)
  BY <1>2, <1>7 DEF Complete, Rejected, GiveUp
<1>8. CASE RateLimited(k)
  <2>1. PICK at \in {budget'} \cup 0..MaxReset :
          Over(k, [Stopped(k) EXCEPT !.ready = After(at)])
    BY <1>8 DEF RateLimited
  <2>2. After(at) \in Nat
    BY <1>8, Constants DEF After, RateLimited, Observe
  <2> QED BY <1>1, <1>2, <2>1, <2>2, NotRunning
<1>9. CASE Retry(k)
  <2>1. PICK t \in Delays(item[k].attempts + 1) :
          Over(k, [Stopped(k) EXCEPT !.attempts = item[k].attempts + 1, !.ready = t])
    BY <1>9 DEF Retry
  <2>2. t \in Nat
    BY <1>1, <1>9, DelayType DEF Retry
  <2> QED BY <1>1, <1>2, <2>1, <2>2, NotRunning
<1> QED BY <1>3, <1>4, <1>5, <1>6, <1>7, <1>8, <1>9 DEF Answer

\* A request leaves the timer right, or signals.
LEMMA RequestAlarm ==
    ASSUME TypeOK, WakeInv, NEW k \in Keys, NEW job \in JobKinds, Request(k, job)
    PROVE  WakeInv'
<1>0. UNCHANGED <<worker, sleep, costCheck, budget>>
  BY DEF Request, limits
<1>1. ASSUME NEW j \in Keys, item'[j] = item[j] PROVE Marked(j)' /\ (Timed(j) => Timed(j)')
  BY <1>0, <1>1 DEF WakeInv, Marked, Timed, Pending, RunsAt
<1>2. CASE KeepItem(k, job)
  <2>1. item[k] \in Items /\ Pending(k) /\ wake' = wake
    BY <1>2 DEF KeepItem, Pending, TypeOK
  <2>2. item'[k] = Kept(k, job) /\ \A j \in Keys \ {k} : item'[j] = item[j]
    BY <1>2 DEF KeepItem, TypeOK
  <2>3. /\ item'[k].running = item[k].running /\ item'[k].held = item[k].held
        /\ item'[k].ready = item[k].ready
    BY <2>1, <2>2 DEF Kept, Items
  <2>4. Marked(k)' /\ (Timed(k) => Timed(k)')
    BY <1>0, <2>1, <2>3 DEF WakeInv, Marked, Timed, RunsAt
  <2>5. ASSUME NEW j \in Keys PROVE Marked(j)' /\ (Timed(j) => Timed(j)')
    BY <1>1, <2>2, <2>4
  <2> QED BY <1>0, <2>1, <2>5 DEF WakeInv, Alarm
<1>3. CASE SwitchItem(k, job)
  <2>1. item[k] \in Items /\ Pending(k) /\ wake' = TRUE
    BY <1>3 DEF SwitchItem, Pending, TypeOK
  <2>2. item'[k] = Switched(k, job) /\ \A j \in Keys \ {k} : item'[j] = item[j]
    BY <1>3 DEF SwitchItem, TypeOK
  <2>3. Marked(k)'
    BY <1>0, <2>1, <2>2, SwitchedItem DEF WakeInv, Marked, RunsAt
  <2>4. ASSUME NEW j \in Keys PROVE Marked(j)'
    BY <1>1, <2>2, <2>3
  <2> QED BY <2>1, <2>4 DEF WakeInv, Alarm
<1>4. CASE AddItem(k, job)
  <2>1. /\ item'[k] = New(job) /\ wake' = TRUE
        /\ \A j \in Keys \ {k} : item'[j] = item[j]
    BY <1>4 DEF AddItem, TypeOK
  <2>2. Marked(k)'
    BY <2>1 DEF New, Marked
  <2>3. ASSUME NEW j \in Keys PROVE Marked(j)'
    BY <1>1, <2>1, <2>2
  <2> QED BY <2>1, <2>3 DEF WakeInv, Alarm
<1>5. CASE RefuseItem(k, job)
  <2>1. item' = item /\ wake' = wake
    BY <1>5 DEF RefuseItem
  <2>2. ASSUME NEW j \in Keys PROVE Marked(j)' /\ (Timed(j) => Timed(j)')
    BY <1>1, <2>1
  <2> QED BY <1>0, <2>1, <2>2 DEF WakeInv, Alarm
<1> QED BY <1>2, <1>3, <1>4, <1>5 DEF Request, enqueue

\* Time runs for the timer as for what it is set for.
LEMMA TickAlarm ==
    ASSUME TypeOK, WakeInv, Tick
    PROVE  WakeInv'
<1>1. ASSUME NEW m \in Nat, NEW n \in Nat, m <= n PROVE Less(m) <= Less(n)
  BY <1>1 DEF Less
<1>2. /\ sleep' = Less(sleep) /\ costCheck' = Less(costCheck) /\ budget' = Less(budget)
      /\ UNCHANGED <<wake, worker>> /\ sleep \in Nat /\ costCheck \in Nat /\ budget \in Nat
  BY DEF Tick, TypeOK
<1>3. ASSUME NEW k \in Keys PROVE Marked(k)' /\ (Timed(k) => Timed(k)')
  <2>1. CASE ~Pending(k)
    <3>1. item'[k] = NoItem
      BY <2>1 DEF Tick
    <3> QED BY <3>1 DEF Marked, Timed, Pending
  <2>2. CASE Pending(k)
    <3>1. item[k] \in Items /\ item'[k] = [item[k] EXCEPT !.ready = Less(@)]
      BY <2>2 DEF Tick, Pending, TypeOK
    <3>2. /\ item'[k].running = item[k].running /\ item'[k].held = item[k].held
          /\ item'[k].ready = Less(item[k].ready) /\ item[k].ready \in Nat
      BY <3>1 DEF Items
    <3>3. Marked(k)'
      BY <1>2, <2>2, <3>2 DEF WakeInv, Marked, RunsAt
    <3>4. Timed(k) => Timed(k)'
      BY <1>1, <1>2, <2>2, <3>2 DEF Timed
    <3> QED BY <3>3, <3>4
  <2> QED BY <2>1, <2>2
<1>4. sleep <= budget => sleep' <= budget'
  BY <1>1, <1>2
<1> QED BY <1>2, <1>3, <1>4 DEF WakeInv, Alarm

\* Every step leaves the sleeping worker a signal or a timer.
LEMMA WakeStep ==
    ASSUME TypeOK, WakeInv, [Next]_vars
    PROVE  WakeInv'
<1>1. ASSUME NEW k \in Keys, item'[k] = item[k],
             worker'.at = "stopped" \/ RunsAt(k)' \/ ~(worker.at = "stopped" \/ RunsAt(k))
      PROVE  Marked(k)'
  BY <1>1 DEF WakeInv, Marked, Pending
<1>2. CASE Requests
  <2>1. ASSUME NEW c \in Channels, Enqueue(c) \/ Notified(c) \/ Revoked(c) PROVE WakeInv'
    BY <2>1, RequestAlarm DEF Enqueue, Notified, Revoked, Keys, JobKinds
  <2>2. ASSUME NEW c \in Channels, IgnoreRevoked(c) PROVE WakeInv'
    BY <2>2 DEF IgnoreRevoked, WakeInv, Marked, Alarm, Timed, Pending, RunsAt, limits
  <2>3. CASE EnsureApp
    BY <2>3, RequestAlarm DEF EnsureApp, Keys, JobKinds
  <2> QED BY <1>2, <2>1, <2>2, <2>3 DEF Requests
<1>3. CASE BudgetWait \/ StartCheck \/ FailCheck \/ Sleep \/ Wake \/ Shutdown
  <2>1. item' = item
    BY <1>3 DEF BudgetWait, StartCheck, FailCheck, Sleep, Wake, Shutdown
  <2>2. worker'.at = "stopped" \/ worker.at \in {"loop", "cost", "next", "asleep"}
    BY <1>3 DEF BudgetWait, StartCheck, FailCheck, Sleep, Wake, Shutdown, AtNext, TypeOK
  <2>3. ASSUME NEW k \in Keys PROVE Marked(k)'
    BY <1>1, <2>1, <2>2 DEF RunsAt
  <2>4. Alarm'
    <3>1. CASE BudgetWait
      BY <3>1 DEF BudgetWait, limits, Alarm, TypeOK
    <3>2. CASE Sleep
      <4>1. ASSUME NEW k \in Keys PROVE Timed(k)'
        <5>1. \A w \in Waits : sleep' <= w
          BY <3>2 DEF Sleep
        <5>2. Pending(k) /\ ~item[k].running =>
                 IF item[k].held THEN costCheck \in Waits ELSE item[k].ready \in Waits
          BY DEF Waits
        <5>3. costCheck' = costCheck
          BY <3>2 DEF Sleep, limits
        <5> QED BY <2>1, <5>1, <5>2, <5>3 DEF Timed, Pending
      <4> QED BY <4>1 DEF Alarm
    <3>3. CASE StartCheck \/ FailCheck \/ Wake \/ Shutdown
      BY <3>3 DEF StartCheck, FailCheck, Wake, Shutdown, At, Alarm, TypeOK
    <3> QED BY <1>3, <3>1, <3>2, <3>3
  <2> QED BY <2>3, <2>4 DEF WakeInv
<1>4. CASE EndCheck
  <2>1. worker.at = "cost" /\ worker'.at = "next" /\ (item' = item \/ item' = HeldReleased)
    BY <1>4 DEF EndCheck, At
  <2>2. ASSUME NEW k \in Keys PROVE Marked(k)'
    <3>1. CASE item'[k] = item[k]
      BY <1>1, <2>1, <3>1 DEF RunsAt
    <3>2. CASE Pending(k) /\ item'[k] = [item[k] EXCEPT !.held = FALSE, !.ready = 0]
      <4>1. item'[k].running = item[k].running
        BY <3>2 DEF Pending, TypeOK, Items
      <4> QED BY <2>1, <3>2, <4>1 DEF WakeInv, Marked, RunsAt
    <3> QED BY <2>1, <3>1, <3>2 DEF HeldReleased
  <2> QED BY <2>1, <2>2 DEF WakeInv, Alarm
<1>5. ASSUME NEW k \in Keys, Pick(k) PROVE WakeInv'
  <2>1. /\ worker.at \in {"next", "loop"} /\ RunsAt(k)' /\ worker'.at = "run"
        /\ \A j \in Keys \ {k} : item'[j] = item[j]
    BY <1>5 DEF Pick, AtNext, RunsAt, TypeOK
  <2>2. ASSUME NEW j \in Keys PROVE Marked(j)'
    <3>1. CASE j = k
      BY <2>1, <3>1 DEF Marked
    <3>2. CASE j # k
      BY <1>1, <2>1, <3>2 DEF RunsAt
    <3> QED BY <3>1, <3>2
  <2> QED BY <2>1, <2>2 DEF WakeInv, Alarm
<1>6. ASSUME NEW k \in Keys, Answer(k) PROVE WakeInv'
  <2>1. /\ RunsAt(k) /\ worker'.at = "loop"
        /\ item'[k] = NoItem \/ item'[k].running = FALSE
        /\ \A j \in Keys \ {k} : item'[j] = item[j]
    BY <1>6, AnswerUnmarks
  <2>2. ASSUME NEW j \in Keys PROVE Marked(j)'
    <3>1. CASE j = k
      BY <2>1, <3>1 DEF Marked, Pending
    <3>2. CASE j # k
      BY <1>1, <2>1, <3>2 DEF RunsAt
    <3> QED BY <3>1, <3>2
  <2> QED BY <2>1, <2>2 DEF WakeInv, Alarm
<1>7. CASE Tick
  BY <1>7, TickAlarm
<1>8. CASE UNCHANGED vars
  BY <1>8 DEF vars, limits, WakeInv, Marked, Alarm, Timed, Pending, RunsAt
<1>9. CASE RemoveOne
  <2>1. /\ UNCHANGED item
        /\ worker.at = "run" /\ worker'.at = "run" /\ worker'.key = worker.key
    BY <1>9 DEF RemoveOne, TypeOK
  <2> QED BY <2>1 DEF WakeInv, Marked, Alarm, Pending, RunsAt
<1> QED BY <1>2, <1>3, <1>4, <1>5, <1>6, <1>7, <1>8, <1>9 DEF Next, Work

\* The worker never sleeps through work that is there: a request signals it, or
\* changes nothing it waits for, and the timer it sleeps on is set for the
\* first item that becomes ready, for the cost check that releases a held one,
\* or for the end of the rate limit's reserve.
THEOREM NeverOverslept == Spec => []NoLostWake
<1>1. Init => WakeInv
  BY DEF Init, WakeInv, Marked, Alarm, Pending, At
<1>2. ASSUME TypeOK, WakeInv PROVE NoLostWake
  <2> SUFFICES ASSUME worker.at = "asleep", budget = 0, ~wake,
                      CostCheckDue \/ \E k \in Keys : Ready(k)
               PROVE  sleep = 0
    BY DEF NoLostWake
  <2>1. CASE sleep <= budget
    BY <1>2, <2>1 DEF TypeOK
  <2>2. CASE \A k \in Keys : Timed(k)
    <3>1. ASSUME NEW k \in Keys, Pending(k) PROVE ~item[k].running
      BY <1>2, <3>1 DEF WakeInv, Marked, RunsAt
    <3>2. ASSUME NEW k \in Keys, Ready(k) PROVE sleep = 0
      BY <1>2, <2>2, <3>2 DEF Ready, Timed, TypeOK
    <3>3. ASSUME CostCheckDue PROVE sleep = 0
      BY <1>2, <2>2, <3>1, <3>3 DEF CostCheckDue, Timed, TypeOK
    <3> QED BY <3>2, <3>3
  <2> QED BY <1>2, <2>1, <2>2 DEF WakeInv, Alarm
<1> QED BY <1>1, <1>2, WakeStep, Typing, PTL DEF Spec
-----------------------------------------------------------------------------
\* Cost freed at Twitch is on the queue's books, unless the removal that freed it
\* is still running; and a check answers for all that was freed before it.
FreedInv ==
    /\ freed => \/ capped = 0 /\ costCheck = 0
                \/ worker.at = "run" /\ worker.deleted
                \/ worker.at = "stopped"
    /\ worker.at \in {"cost", "next"} => ~freed

LEMMA FreedStep ==
    ASSUME TypeOK, FreedInv, [Next]_vars
    PROVE  FreedInv'
<1>1. CASE UNCHANGED <<capped, costCheck, worker, freed>>
  BY <1>1 DEF FreedInv
<1>2. CASE Requests
  BY <1>1, <1>2 DEF Requests, Enqueue, Notified, Revoked, IgnoreRevoked, EnsureApp,
     Request, limits, ghosts
<1>3. CASE BudgetWait \/ Sleep \/ Wake
  <2>1. /\ UNCHANGED <<capped, costCheck, freed>>
        /\ worker'.at \in {"asleep", "loop"} /\ worker.at \notin {"run", "stopped"}
    BY <1>3 DEF BudgetWait, Sleep, Wake, AtNext, At, limits, ghosts
  <2> QED BY <2>1 DEF FreedInv
<1>4. CASE StartCheck \/ FailCheck \/ EndCheck
  <2>1. freed' = FALSE
    BY <1>4 DEF StartCheck, FailCheck, EndCheck, ghosts, FreedInv, TypeOK
  <2> QED BY <2>1 DEF FreedInv
<1>5. CASE RemoveOne
  <2>1. worker'.at = "run" /\ worker'.deleted
    BY <1>5 DEF RemoveOne, TypeOK
  <2> QED BY <2>1 DEF FreedInv
<1>6. CASE Shutdown
  <2>1. worker'.at = "stopped"
    BY <1>6 DEF Shutdown, TypeOK
  <2> QED BY <2>1 DEF FreedInv
<1>7. CASE Tick
  BY <1>7 DEF Tick, Less, ghosts, FreedInv, TypeOK
<1>8. ASSUME NEW k \in Keys, Pick(k) PROVE FreedInv'
  <2>1. /\ UNCHANGED <<capped, costCheck, freed>>
        /\ worker'.at = "run" /\ worker.at \in {"loop", "next"}
    BY <1>8 DEF Pick, AtNext, limits
  <2> QED BY <2>1 DEF FreedInv
<1>9. ASSUME NEW k \in Keys, Answer(k) PROVE FreedInv'
  <2>1. worker.at = "run" /\ worker'.at = "loop"
    BY <1>9, AnswerUnmarks DEF RunsAt
  <2>2. \/ CostHeld(k)
        \/ ~worker.deleted /\ UNCHANGED <<capped, costCheck, freed>>
        \/ Freed(k) /\ UNCHANGED freed
    BY <1>9 DEF Answer, Superseded, Busy, Reauthorized, Complete, RateLimited,
       Rejected, Retry, GiveUp, limits
  <2>3. CASE CostHeld(k)
    BY <2>1, <2>3 DEF CostHeld, FreedInv
  <2>4. CASE ~worker.deleted /\ UNCHANGED <<capped, costCheck, freed>>
    BY <2>1, <2>4 DEF FreedInv
  <2>5. CASE Freed(k) /\ UNCHANGED freed
    BY <2>1, <2>5 DEF Freed, FreedInv
  <2> QED BY <2>2, <2>3, <2>4, <2>5
<1>10. CASE UNCHANGED vars
  BY <1>1, <1>10 DEF vars, limits, ghosts
<1> QED BY <1>2, <1>3, <1>4, <1>5, <1>6, <1>7, <1>8, <1>9, <1>10 DEF Next, Work

\* Cost that a removal freed is used whatever the removal came to: reconciles are
\* taken again once its run is over, and nothing runs before the items held on
\* the limit had it checked.
THEOREM FreedCostIsUsed == Spec => FreedCostUsed
<1> DEFINE Used == freed /\ worker.at \in {"loop", "asleep", "next"} =>
             /\ capped = 0
             /\ worker'.at = "run" => \A k \in Keys : ~(Pending(k) /\ item[k].held)
<1>1. Init => FreedInv
  BY DEF Init, FreedInv
<1>2. ASSUME TypeOK, FreedInv, [Next]_vars PROVE [Used]_vars
  <2> SUFFICES ASSUME Next, freed, worker.at \in {"loop", "asleep", "next"}
               PROVE  /\ capped = 0
                      /\ worker'.at = "run" => \A k \in Keys : ~(Pending(k) /\ item[k].held)
    BY <1>2
  <2>1. capped = 0 /\ costCheck = 0 /\ worker.at \in {"loop", "asleep"}
    BY <1>2 DEF FreedInv
  <2>2. ASSUME NEW j \in Keys, Pick(j) PROVE \A k \in Keys : ~(Pending(k) /\ item[k].held)
    BY <2>1, <2>2 DEF Pick, AtNext, CostCheckDue
  <2>3. ASSUME NEW j \in Keys, Answer(j) PROVE worker'.at # "run"
    BY <1>2, <2>3, AnswerUnmarks
  <2>4. CASE Requests \/ Tick
    BY <2>1, <2>4 DEF Requests, Enqueue, Notified, Revoked, IgnoreRevoked, EnsureApp,
       Request, Tick
  <2>5. CASE \/ BudgetWait \/ StartCheck \/ FailCheck \/ EndCheck \/ Sleep \/ Wake
             \/ RemoveOne \/ Shutdown
    <3>1. worker'.at # "run"
      BY <1>2, <2>1, <2>5 DEF BudgetWait, StartCheck, FailCheck, EndCheck, Sleep, Wake,
         RemoveOne, Shutdown, At, TypeOK
    <3> QED BY <2>1, <3>1
  <2> QED BY <2>1, <2>2, <2>3, <2>4, <2>5 DEF Next, Work
<1>3. Spec => []FreedInv
  BY <1>1, FreedStep, Typing, PTL DEF Spec
<1> QED BY <1>2, <1>3, Typing, PTL DEF Spec, FreedCostUsed
-----------------------------------------------------------------------------
\* The lease of a scheduled job.

\* The clocks' disagreement, and the slots, are numbers.
LEMMA JobNumbers ==
    /\ \A r \in Replicas : Skew[r] \in Nat /\ Skew[r] <= MaxSkew
    /\ ttl \in Nat
    /\ \A n \in Nat : Slot(n) \in Nat
  BY JobAssumption DEF ttl, Slot

\* A Finish, under way or not, is a member of Write.
LEMMA WriteTypes ==
    /\ NoWrite \in Write
    /\ \A n, b \in Nat, s \in BOOLEAN :
         [sent |-> TRUE, stamp |-> n, success |-> s, by |-> b] \in Write
  BY DEF NoWrite, Write

\* Every step keeps the types.
THEOREM JobTyping ==
    JobSpec => []JobTypeOK
<1>1. JobInit => JobTypeOK
  BY WriteTypes DEF JobInit, JobTypeOK, Places
<1>2. JobTypeOK /\ [JobNext]_jobVars => JobTypeOK'
  <2> SUFFICES ASSUME JobTypeOK, [JobNext]_jobVars PROVE JobTypeOK'
    OBVIOUS
  <2> USE DEF JobTypeOK, store
  <2>1. CASE JobTick
    BY <2>1 DEF JobTick
  <2>2. ASSUME NEW r \in Replicas, Once(r) PROVE JobTypeOK'
    BY <2>2, JobNumbers, JobAssumption DEF Once, Clock, Places
  <2>3. ASSUME NEW r \in Replicas, Acquire(r) PROVE JobTypeOK'
    BY <2>3, JobNumbers DEF Acquire, Places
  <2>4. ASSUME NEW r \in Replicas, Return(r) PROVE JobTypeOK'
    BY <2>4 DEF Return, Places
  <2>5. ASSUME NEW r \in Replicas, Run(r) PROVE JobTypeOK'
    BY <2>5, JobAssumption DEF Run, Places
  <2>6. ASSUME NEW r \in Replicas, NEW s \in BOOLEAN, Finish(r, s) PROVE JobTypeOK'
    <3>1. time + FinishLimit \in Nat /\ time + FinishLimit + Lag \in Nat
      BY JobAssumption
    <3> QED BY <2>6, <3>1, WriteTypes DEF Finish, Places
  <2>7. ASSUME NEW r \in Replicas, Land(r) PROVE JobTypeOK'
    <3>1. write[r].stamp \in Nat
      BY DEF Write
    <3> QED BY <2>7, <3>1, JobNumbers, WriteTypes DEF Land
  <2>8. ASSUME NEW r \in Replicas, LoseWrite(r) PROVE JobTypeOK'
    BY <2>8, WriteTypes DEF LoseWrite
  <2>9. CASE UNCHANGED jobVars
    BY <2>9 DEF jobVars
  <2> QED BY <2>1, <2>2, <2>3, <2>4, <2>5, <2>6, <2>7, <2>8, <2>9
       DEF JobNext, Step, AcquireRefused, AcquireFails, AcquireLost,
           FinishReturns, Crash
<1> QED BY <1>1, <1>2, PTL DEF JobSpec
-----------------------------------------------------------------------------
\* Nobody is past a deadline, and every deadline is bounded by the clock
\* reading that the lease was, or will be, stamped with.
Timely ==
    \A r \in Replicas :
        /\ pc[r] # "idle" => time <= deadline[r]
        /\ pc[r] \in {"acquire", "granted"} =>
             /\ stamp[r] <= time + Skew[r]
             /\ deadline[r] + Skew[r] <= stamp[r] + AcquireLimit
        /\ pc[r] = "work" =>
             deadline[r] + Skew[r] <= stamp[r] + AcquireLimit + Timeout + Settle
        /\ write[r].sent =>
             /\ time <= write[r].by
             /\ write[r].by + Skew[r] <= write[r].stamp + AcquireLimit + Timeout
                                         + Settle + FinishLimit + Lag

\* The lease is the one of whoever is responsible for the job.
HeldLease ==
    \A r \in Replicas :
        /\ pc[r] \in {"granted", "work"} => expires = stamp[r] + ttl
        /\ write[r].sent => expires = write[r].stamp + ttl

\* A replica is not at work while its own last Finish is under way.
OneLease == \A r \in Replicas : write[r].sent => pc[r] \notin {"granted", "work"}

JobInv == JobTypeOK /\ Timely /\ HeldLease /\ OneLease /\ OneRunner

\* While somebody is responsible, no clock has reached the expiry.
LEMMA Covered ==
    ASSUME JobTypeOK, Timely, HeldLease, NEW r \in Replicas, JobBusy(r)
    PROVE  expires > time + MaxSkew
<1> USE JobNumbers, JobAssumption DEF JobTypeOK
<1>1. CASE pc[r] \in {"granted", "work"}
  <2>1. time <= deadline[r]
    BY <1>1 DEF Timely
  <2>2. deadline[r] + Skew[r] <= stamp[r] + AcquireLimit + Timeout + Settle
    BY <1>1 DEF Timely
  <2>3. expires = stamp[r] + Timeout + Margin
    BY <1>1 DEF HeldLease, ttl
  <2> QED BY <2>1, <2>2, <2>3
<1>2. CASE write[r].sent
  <2>0. write[r].stamp \in Nat /\ write[r].by \in Nat
    BY DEF Write
  <2>1. time <= write[r].by
    BY <1>2 DEF Timely
  <2>2. write[r].by + Skew[r] <= write[r].stamp + AcquireLimit + Timeout
                                 + Settle + FinishLimit + Lag
    BY <1>2 DEF Timely
  <2>3. expires = write[r].stamp + Timeout + Margin
    BY <1>2, <2>0 DEF HeldLease, ttl
  <2> QED BY <2>0, <2>1, <2>2, <2>3
<1> QED BY <1>1, <1>2 DEF JobBusy

\* So an Acquire that commits finds nobody responsible.
LEMMA FreeToAcquire ==
    ASSUME JobInv, NEW r \in Replicas, Acquire(r), NEW s \in Replicas
    PROVE  ~JobBusy(s)
<1>1. expires <= stamp[r] /\ stamp[r] <= time + Skew[r]
  BY DEF Acquire, canAcquire, JobInv, Timely
<1>2. expires <= time + MaxSkew
  BY <1>1, JobNumbers, JobAssumption DEF JobInv, JobTypeOK
<1> QED BY <1>2, Covered, JobAssumption DEF JobInv, JobTypeOK
-----------------------------------------------------------------------------
\* Time passes only up to the deadlines, so a lease still covers its holder.
LEMMA TickKeeps ==
    ASSUME JobInv, JobTick
    PROVE  Timely' /\ HeldLease' /\ OneLease' /\ OneRunner'
<1>1. Timely'
  <2> SUFFICES ASSUME NEW r \in Replicas
               PROVE  /\ pc[r] # "idle" => time + 1 <= deadline[r]
                      /\ pc[r] \in {"acquire", "granted"} =>
                           stamp[r] <= time + 1 + Skew[r]
                      /\ write[r].sent => time + 1 <= write[r].by
    BY DEF JobTick, Timely, JobInv
  <2> write[r].by \in Nat
    BY DEF JobInv, JobTypeOK, Write
  <2> QED BY JobNumbers, JobAssumption DEF JobInv, JobTypeOK, JobTick, Timely
<1> QED BY <1>1 DEF JobInv, JobTick, store, HeldLease, OneLease, OneRunner, JobBusy

\* A tick of the schedule reads the clock that bounds all later deadlines.
LEMMA OnceKeeps ==
    ASSUME JobInv, NEW r \in Replicas, Once(r)
    PROVE  Timely' /\ HeldLease' /\ OneLease' /\ OneRunner'
<1> USE DEF JobInv, JobTypeOK
<1>1. /\ pc' = [pc EXCEPT ![r] = "acquire"]
      /\ stamp' = [stamp EXCEPT ![r] = time + Skew[r]]
      /\ deadline' = [deadline EXCEPT ![r] = time + AcquireLimit]
      /\ time' = time /\ write' = write /\ expires' = expires
      /\ pc[r] = "idle"
  BY DEF Once, store, Clock
<1>2. Timely'
  BY <1>1, JobNumbers, JobAssumption DEF Timely
<1> QED BY <1>1, <1>2 DEF HeldLease, OneLease, OneRunner, JobBusy

\* Acquire commits only when nobody is responsible for the job.
LEMMA AcquireKeeps ==
    ASSUME JobInv, NEW r \in Replicas, Acquire(r)
    PROVE  Timely' /\ HeldLease' /\ OneLease' /\ OneRunner'
<1> USE DEF JobInv, JobTypeOK
<1>1. \A s \in Replicas : ~JobBusy(s)
  BY FreeToAcquire
<1>2. /\ pc' = [pc EXCEPT ![r] = "granted"]
      /\ expires' = stamp[r] + ttl
      /\ time' = time /\ write' = write /\ stamp' = stamp
      /\ deadline' = deadline /\ pc[r] = "acquire"
  BY DEF Acquire
<1>3. Timely'
  BY <1>2 DEF Timely
<1>4. \A s \in Replicas : ~write[s].sent /\ pc[s] \notin {"granted", "work"}
  BY <1>1 DEF JobBusy
<1> QED BY <1>2, <1>3, <1>4 DEF HeldLease, OneLease, OneRunner, JobBusy

\* A refusal, a failure or a crash leaves the lease to expire.
LEMMA ReturnKeeps ==
    ASSUME JobInv, NEW r \in Replicas, Return(r)
    PROVE  Timely' /\ HeldLease' /\ OneLease' /\ OneRunner'
<1>1. /\ pc' = [pc EXCEPT ![r] = "idle"]
      /\ time' = time /\ write' = write /\ stamp' = stamp
      /\ deadline' = deadline /\ expires' = expires
  BY DEF Return, store
<1> QED BY <1>1 DEF JobInv, JobTypeOK, Timely, HeldLease, OneLease, OneRunner, JobBusy

\* The work starts within Acquire's limit.
LEMMA RunKeeps ==
    ASSUME JobInv, NEW r \in Replicas, Run(r)
    PROVE  Timely' /\ HeldLease' /\ OneLease' /\ OneRunner'
<1> USE DEF JobInv, JobTypeOK
<1>1. /\ pc' = [pc EXCEPT ![r] = "work"]
      /\ deadline' = [deadline EXCEPT ![r] = time + Timeout + Settle]
      /\ time' = time /\ write' = write /\ stamp' = stamp
      /\ expires' = expires /\ pc[r] = "granted"
  BY DEF Run, store
<1>2. time + Timeout + Settle + Skew[r]
        <= stamp[r] + AcquireLimit + Timeout + Settle
  BY <1>1, JobNumbers, JobAssumption DEF Timely
<1>3. time <= time + Timeout + Settle
  BY JobAssumption
<1>4. Timely'
  BY <1>1, <1>2, <1>3 DEF Timely
<1> QED BY <1>1, <1>4 DEF HeldLease, OneLease, OneRunner, JobBusy

\* The work hands its lease over to the Finish it sends.
LEMMA FinishKeeps ==
    ASSUME JobInv, NEW r \in Replicas, NEW success \in BOOLEAN,
           Finish(r, success)
    PROVE  Timely' /\ HeldLease' /\ OneLease' /\ OneRunner'
<1> USE DEF JobInv, JobTypeOK
<1> DEFINE w == [sent |-> TRUE, stamp |-> stamp[r], success |-> success,
                 by |-> time + FinishLimit + Lag]
<1>1. /\ pc' = [pc EXCEPT ![r] = "finish"]
      /\ deadline' = [deadline EXCEPT ![r] = time + FinishLimit]
      /\ write' = [write EXCEPT ![r] = w]
      /\ time' = time /\ stamp' = stamp /\ expires' = expires
      /\ pc[r] = "work"
  BY DEF Finish, store
<1>2. /\ w.sent /\ w.stamp = stamp[r] /\ w.by = time + FinishLimit + Lag
  OBVIOUS
<1>3. time + FinishLimit + Lag + Skew[r]
        <= stamp[r] + AcquireLimit + Timeout + Settle + FinishLimit + Lag
  BY <1>1, JobNumbers, JobAssumption DEF Timely
<1>4. time <= time + FinishLimit /\ time <= time + FinishLimit + Lag
  BY JobAssumption
<1> HIDE DEF w
<1>5. Timely'
  BY <1>1, <1>2, <1>3, <1>4 DEF Timely
<1>6. HeldLease'
  BY <1>1, <1>2 DEF HeldLease
<1>7. OneLease' /\ OneRunner'
  BY <1>1, <1>2 DEF OneLease, OneRunner, JobBusy
<1> QED BY <1>5, <1>6, <1>7

\* A Finish that lands or is lost ends its sender's own lease.
LEMMA WriteEndKeeps ==
    ASSUME JobInv, NEW r \in Replicas, Land(r) \/ LoseWrite(r)
    PROVE  Timely' /\ HeldLease' /\ OneLease' /\ OneRunner'
<1> USE DEF JobInv, JobTypeOK
<1>1. /\ write' = [write EXCEPT ![r] = NoWrite]
      /\ pc' = pc /\ time' = time /\ stamp' = stamp /\ deadline' = deadline
      /\ write[r].sent
      /\ expires' = expires \/ expires' = 0
  BY DEF Land, LoseWrite, store
<1>2. ~NoWrite.sent
  BY DEF NoWrite
<1>3. \A s \in Replicas : s # r => ~JobBusy(s)
  BY <1>1 DEF OneRunner, JobBusy
<1>4. \A s \in Replicas : ~(write'[s].sent) /\ pc[s] \notin {"granted", "work"}
  BY <1>1, <1>2, <1>3 DEF OneLease, JobBusy
<1>5. Timely'
  BY <1>1, <1>4 DEF Timely
<1> QED BY <1>1, <1>4, <1>5 DEF HeldLease, OneLease, OneRunner, JobBusy

\* The inductive invariant.
THEOREM JobInvariance ==
    JobSpec => []JobInv
<1>1. JobInit => JobInv
  <2>1. JobInit => JobTypeOK
    BY WriteTypes DEF JobInit, JobTypeOK, Places
  <2>2. ASSUME JobInit, NEW r \in Replicas PROVE pc[r] = "idle" /\ ~write[r].sent
    BY <2>2 DEF JobInit, NoWrite
  <2> QED BY <2>1, <2>2 DEF JobInv, Timely, HeldLease, OneLease, OneRunner, JobBusy
<1>2. JobTypeOK' /\ JobInv /\ [JobNext]_jobVars => JobInv'
  <2> SUFFICES ASSUME JobTypeOK', JobInv, [JobNext]_jobVars
               PROVE  Timely' /\ HeldLease' /\ OneLease' /\ OneRunner'
    BY DEF JobInv
  <2>1. ASSUME NEW r \in Replicas, Step(r)
        PROVE  Timely' /\ HeldLease' /\ OneLease' /\ OneRunner'
    BY <2>1, OnceKeeps, AcquireKeeps, ReturnKeeps, RunKeeps, FinishKeeps,
       WriteEndKeeps
       DEF Step, AcquireRefused, AcquireFails, AcquireLost, FinishReturns, Crash
  <2>2. CASE UNCHANGED jobVars
    BY <2>2 DEF jobVars, store, JobInv, Timely, HeldLease, OneLease, OneRunner, JobBusy
  <2> QED BY <2>1, <2>2, TickKeeps DEF JobNext
<1>3. JobSpec => []JobTypeOK
  BY JobTyping
<1> QED BY <1>1, <1>2, <1>3, PTL DEF JobSpec

\* "the holder always finishes while no one else can hold it" (runner.go:16).
THEOREM JobExclusive ==
    JobSpec => []OneRunner
<1>1. JobInv => OneRunner
  BY DEF JobInv
<1>2. JobSpec => []JobInv
  BY JobInvariance
<1> QED BY <1>1, <1>2, PTL

\* "Finish runs while the caller's lease is live, so it needs no ownership
\* check" (runner.go:57).
THEOREM FinishNeedsNoCheck ==
    JobSpec => []FinishLive
<1>1. JobInv => FinishLive
  <2> SUFFICES ASSUME JobInv, NEW r \in Replicas, write[r].sent
               PROVE  /\ expires = write[r].stamp + ttl
                      /\ \A s \in Replicas : expires > time + Skew[s]
    BY DEF FinishLive, Clock
  <2>1. expires = write[r].stamp + ttl
    BY DEF JobInv, HeldLease
  <2>2. expires > time + MaxSkew
    BY Covered DEF JobInv, JobBusy
  <2> QED BY <2>1, <2>2, JobNumbers, JobAssumption DEF JobInv, JobTypeOK
<1>2. JobSpec => []JobInv
  BY JobInvariance
<1> QED BY <1>1, <1>2, PTL
==============================================================================
