----------------------------- MODULE TwitchQueue -----------------------------
(***************************************************************************)
(* agent/internal/subscriptions/queue.go: the in-memory queue in which one *)
(* worker per replica reconciles broadcasters' EventSub subscriptions and  *)
(* removes them after a deauthorization, paced by Twitch's rate and cost   *)
(* limits.  Requests arrive from HTTP handlers at any time, also while the *)
(* worker is at Twitch with the same broadcaster.                          *)
(*                                                                         *)
(* Instants are kept as what is left until them: ready, costCheck, capped, *)
(* budget, removed and sleep count down to 0 with every Tick.              *)
(***************************************************************************)
EXTENDS Naturals, Sequences

CONSTANTS
    Channels,      \* broadcasters
    App,           \* the key of the app's own subscription
    NoItem,        \* no item for a key
    Capacity,      \* twitchQueueCapacity
    MaxAttempts,   \* twitchMaxAttempts
    BusyDelay,     \* twitchBusyDelay
    Backoff,       \* the delay after the n-th failure
    LeaseTTL,      \* the delay after an uncertain mutation
    Minute,        \* the delay when Twitch does not say when to retry
    MaxReset,      \* the longest wait Twitch asks for
    CostInterval,  \* twitchCostCheckInterval
    RemovedTTL,    \* twitchRemovedTTL
    Idle,          \* twitchIdle, or what is left until the hourly EnsureApp
    MaxRequests    \* bound on the requests of a behavior

Keys == Channels \cup {App}
JobKinds == {"reconcile", "remove", "app"}
Nobody == "nobody"

ASSUME QueueAssumption ==
    /\ App \notin Channels
    /\ Nobody \notin Channels /\ Nobody # App
    /\ {Capacity, BusyDelay, LeaseTTL, Minute, MaxReset, CostInterval,
        RemovedTTL, Idle, MaxRequests} \subseteq Nat
    /\ MaxAttempts \in Nat \ {0}
    /\ Backoff \in [1..MaxAttempts -> Nat]

Items == [job : JobKinds, ready : Nat, attempts : Nat, held : BOOLEAN,
          running : BOOLEAN, changed : BOOLEAN, reconcile : BOOLEAN]

ASSUME NoItemAssumption == NoItem \notin Items

VARIABLES
    item,       \* q.pending: one item for each key, or NoItem
    order,      \* the keys of the items, oldest `enqueued` first
    removed,    \* how long a finished removal still mutes revocations
    costCheck,  \* q.costCheck
    capped,     \* q.cappedUntil
    budget,     \* how long the rate limit's reserve keeps the worker away
    wake,       \* q.wake holds a signal
    worker,     \* where the worker's loop is, the item and job it runs, and
                \* whether that removal has deleted anything
    sleep,      \* what is left of the timer it sleeps on
    requests,   \* how many requests may still be made
    \* What the properties speak of; no step of the code depends on them.
    intent,     \* the latest request for a key that no run has served yet
    wanted,     \* a reconcile was asked for and has not begun since
    freed       \* a removal has freed cost since the limit was last checked or hit

ghosts == <<intent, wanted, freed>>
limits == <<removed, costCheck, capped, budget>>
vars == <<item, order, limits, wake, worker, sleep, requests, ghosts>>

TypeOK ==
    /\ item \in [Keys -> Items \cup {NoItem}]
    /\ order \in Seq(Keys)
    /\ removed \in [Keys -> Nat]
    /\ costCheck \in Nat /\ capped \in Nat /\ budget \in Nat /\ sleep \in Nat
    /\ wake \in BOOLEAN
    /\ worker \in [at : {"loop", "asleep", "cost", "next", "run", "stopped"},
                   key : Keys \cup {Nobody}, job : JobKinds, deleted : BOOLEAN]
    /\ requests \in Nat
    /\ intent \in [Keys -> JobKinds \cup {"none"}]
    /\ wanted \in [Keys -> BOOLEAN]
    /\ freed \in BOOLEAN

At(where) == [at |-> where, key |-> Nobody, job |-> "app", deleted |-> FALSE]

Init ==
    /\ item = [k \in Keys |-> NoItem]
    /\ order = <<>>
    /\ removed = [k \in Keys |-> 0]
    /\ costCheck = 0 /\ capped = 0 /\ budget = 0 /\ sleep = 0
    /\ wake = FALSE
    /\ worker = At("loop")
    /\ requests = MaxRequests
    /\ intent = [k \in Keys |-> "none"]
    /\ wanted = [k \in Keys |-> FALSE]
    /\ freed = FALSE
-----------------------------------------------------------------------------
(* Requests: enqueue, under q.mu.                                          *)

Pending(k) == item[k] # NoItem
Runs(k, job) == worker.at = "run" /\ worker.key = k /\ worker.job = job

\* What the request asks for.  A reconcile in progress already serves one,
\* unless another request came in between.
Served(k, job) == job # "remove" /\ Runs(k, job) /\ intent[k] = "none"
Ask(k, job) ==
    /\ intent' = [intent EXCEPT ![k] = IF Served(k, job) THEN @ ELSE job]
    /\ wanted' = [wanted EXCEPT ![k] =
                    @ \/ (job = "reconcile" /\ ~Served(k, job))]

\* Mutant of KeepItem: a deauthorization during a removal changes nothing.
KeepItemRunning(k, job) ==
    /\ Pending(k) /\ item[k].job = job
    /\ item' = [item EXCEPT ![k].reconcile = @ \/ job = "reconcile"]
    /\ Ask(k, job)
    /\ UNCHANGED <<order, wake>>

\* The key waits, or runs, for the same job.  A removal that runs may have
\* checked re-authorization before this deauthorization, so it runs again.
Kept(k, job) ==
    [item[k] EXCEPT !.reconcile = @ \/ job = "reconcile",
                    !.changed = @ \/ (job = "remove" /\ item[k].running)]
KeepItem(k, job) ==
    /\ Pending(k) /\ item[k].job = job
    /\ item' = [item EXCEPT ![k] = Kept(k, job)]
    /\ Ask(k, job)
    /\ UNCHANGED <<order, wake>>

\* Mutant of SwitchItem: the worker is not signalled.
SwitchItemQuietly(k, job) ==
    /\ Pending(k) /\ item[k].job # job
    /\ item' = [item EXCEPT ![k].job = job, ![k].reconcile = @ \/ job = "reconcile",
                            ![k].changed = item[k].running, ![k].attempts = 0,
                            ![k].held = FALSE, ![k].ready = 0]
    /\ Ask(k, job)
    /\ UNCHANGED <<order, wake>>

\* The latest intent wins: a waiting item switches with fresh retry state, a
\* running one is queued to run the new job next.
Switched(k, job) ==
    [item[k] EXCEPT !.job = job,
                    !.reconcile = @ \/ job = "reconcile",
                    !.changed = item[k].running,
                    !.attempts = IF item[k].running THEN @ ELSE 0,
                    !.held = @ /\ item[k].running,
                    !.ready = IF item[k].running THEN @ ELSE 0]
SwitchItem(k, job) ==
    /\ Pending(k) /\ item[k].job # job
    /\ item' = [item EXCEPT ![k] = Switched(k, job)]
    /\ wake' = TRUE
    /\ Ask(k, job)
    /\ UNCHANGED order

New(job) ==
    [job |-> job, ready |-> 0, attempts |-> 0, held |-> FALSE, running |-> FALSE,
     changed |-> FALSE, reconcile |-> job = "reconcile"]
AddItem(k, job) ==
    /\ ~Pending(k)
    /\ ~(job = "reconcile" /\ capped > 0)
    /\ Len(order) < Capacity
    /\ item' = [item EXCEPT ![k] = New(job)]
    /\ order' = Append(order, k)
    /\ wake' = TRUE
    /\ Ask(k, job)

\* Dropped with a log line: the cost limit is full, or the queue is.
RefuseItem(k, job) ==
    /\ ~Pending(k)
    /\ (job = "reconcile" /\ capped > 0) \/ Len(order) >= Capacity
    /\ UNCHANGED <<item, order, wake, intent, wanted>>

enqueue(k, job) ==
    KeepItem(k, job) \/ SwitchItem(k, job) \/ AddItem(k, job) \/ RefuseItem(k, job)

Request(k, job) ==
    /\ requests > 0
    /\ requests' = requests - 1
    /\ enqueue(k, job)
    /\ UNCHANGED <<limits, worker, sleep, freed>>

\* Enqueue, from subscribe, which has just had Twitch confirm the grant.
Enqueue(c) == Request(c, "reconcile")

\* EnsureApp, from a revocation of the app subscription and hourly from Run.
EnsureApp == Request(App, "app")

\* Deauthorized, for a user.authorization.revoke notification.
Notified(c) == Request(c, "remove")

\* Deauthorized, for the revocation of one of the broadcaster's subscriptions.
\* (q.mu is given up between its two steps: a removal that completes there makes
\* this the same as Notified.)
Revoked(c) == removed[c] = 0 /\ Request(c, "remove")

\* A revocation taken for a repeat of the deauthorization just handled.
IgnoreRevoked(c) ==
    /\ removed[c] > 0
    /\ requests > 0
    /\ requests' = requests - 1
    /\ UNCHANGED <<item, order, limits, wake, worker, sleep, ghosts>>
-----------------------------------------------------------------------------
(* The worker: Run, step, checkCost, next.                                 *)

\* Mutant of CostCheckDue: only checks while reconciles are refused.
CostCheckDueCapped ==
    costCheck = 0 /\ capped > 0 /\ \E k \in Keys : Pending(k) /\ item[k].held

CostCheckDue == costCheck = 0 /\ \E k \in Keys : Pending(k) /\ item[k].held
Ready(k) == /\ Pending(k) /\ ~item[k].running /\ ~item[k].held
            /\ item[k].ready = 0

\* What next may have to wait for when no item is ready.
Waits == {Idle} \cup {item[k].ready : k \in {j \in Keys : /\ Pending(j)
                                                          /\ ~item[j].running
                                                          /\ ~item[j].held}}
               \cup {costCheck : k \in {j \in Keys : /\ Pending(j)
                                                      /\ ~item[j].running
                                                      /\ item[j].held}}

\* The rate limit's reserve is reached: sleep until the bucket resets.
BudgetWait ==
    /\ worker.at = "loop" /\ budget > 0
    /\ worker' = At("asleep")
    /\ sleep' = budget
    /\ UNCHANGED <<item, order, limits, wake, requests, ghosts>>

StartCheck ==
    /\ worker.at = "loop" /\ budget = 0
    /\ CostCheckDue
    /\ costCheck' = CostInterval
    /\ worker' = At("cost")
    /\ freed' = FALSE
    /\ UNCHANGED <<item, order, removed, capped, budget, wake, sleep, requests,
                   intent, wanted>>

\* The cost check fails: no token, a transport error, an error status.
FailCheck ==
    /\ worker.at = "cost"
    /\ budget' \in 0..MaxReset
    /\ worker' = At("next")
    /\ UNCHANGED <<item, order, removed, costCheck, capped, wake, sleep,
                   requests, ghosts>>

\* Twitch reports the total cost; headroom releases every held item.
HeldReleased ==
    [k \in Keys |-> IF Pending(k) /\ item[k].held
                    THEN [item[k] EXCEPT !.held = FALSE, !.ready = 0] ELSE item[k]]
EndCheck ==
    /\ worker.at = "cost"
    /\ budget' \in 0..MaxReset
    /\ worker' = At("next")
    /\ \/ capped' = 0 /\ item' = HeldReleased
       \/ capped' = costCheck /\ UNCHANGED item
    /\ UNCHANGED <<order, removed, costCheck, wake, sleep, requests, ghosts>>

\* step has reached next; after a cost check it does not look at the budget.
AtNext == \/ worker.at = "next"
          \/ worker.at = "loop" /\ budget = 0 /\ ~CostCheckDue

\* next marks the oldest ready item running.
Picked(k) == [item[k] EXCEPT !.running = TRUE, !.changed = FALSE]
Pick(k) ==
    /\ AtNext
    /\ Ready(k)
    /\ \E i \in 1..Len(order) : /\ order[i] = k
                                /\ \A j \in 1..(i - 1) : ~Ready(order[j])
    /\ item' = [item EXCEPT ![k] = Picked(k)]
    /\ worker' = [at |-> "run", key |-> k, job |-> item[k].job, deleted |-> FALSE]
    /\ intent' = [intent EXCEPT ![k] = "none"]
    /\ wanted' = [wanted EXCEPT ![k] = @ /\ item[k].job # "reconcile"]
    /\ UNCHANGED <<order, limits, wake, sleep, requests, freed>>

Sleep ==
    /\ AtNext
    /\ \A k \in Keys : ~Ready(k)
    /\ worker' = At("asleep")
    /\ \E d \in Waits : (\A w \in Waits : d <= w) /\ sleep' = d
    /\ UNCHANGED <<item, order, limits, wake, requests, ghosts>>

\* Run's select: a signal, or the timer.
Wake ==
    /\ worker.at = "asleep"
    /\ \/ wake /\ wake' = FALSE
       \/ sleep = 0 /\ UNCHANGED wake
    /\ worker' = At("loop")
    /\ sleep' = 0
    /\ UNCHANGED <<item, order, limits, requests, ghosts>>
-----------------------------------------------------------------------------
(* process: what the lease and Twitch answer, and what becomes of the item *)

Larger(m, n) == IF m >= n THEN m ELSE n

\* after(now, at, time.Minute)
After(at) == IF at > 0 THEN at ELSE Minute

WithoutNth(i) == SubSeq(order, 1, i - 1) \o SubSeq(order, i + 1, Len(order))

\* The run is over: q.mu is held again and the item becomes new.
Over(k, new) ==
    /\ worker.at = "run" /\ worker.key = k
    /\ item' = [item EXCEPT ![k] = new]
    /\ \/ new # NoItem /\ UNCHANGED order
       \/ /\ new = NoItem
          /\ \E i \in 1..Len(order) : order[i] = k /\ order' = WithoutNth(i)
    /\ worker' = At("loop")
    /\ UNCHANGED <<wake, sleep, requests, intent>>

\* Mutant of Stopped: the item stays marked running.
StoppedNot(k) == item[k]

Stopped(k) == [item[k] EXCEPT !.running = FALSE]
Fresh(k) == [Stopped(k) EXCEPT !.changed = FALSE, !.attempts = 0,
                               !.held = FALSE, !.ready = 0]

\* Twitch may answer any call with a new state of the rate limit's bucket.
Observe == budget' \in 0..MaxReset

\* removeTwitch deletes a subscription, and Twitch confirms it.
RemoveOne ==
    /\ worker.at = "run" /\ worker.job = "remove" /\ ~worker.deleted
    /\ worker' = [worker EXCEPT !.deleted = TRUE]
    /\ freed' = TRUE
    /\ UNCHANGED <<item, order, limits, wake, sleep, requests, intent, wanted>>

\* Mutant of Freed: only a removal that nothing came in between of counts.
FreedUndisturbed(k) ==
    /\ costCheck' = IF worker.deleted /\ ~item[k].changed THEN 0 ELSE costCheck
    /\ capped' = IF worker.deleted /\ ~item[k].changed THEN 0 ELSE capped

\* What a removal deleted freed cost, whatever it came to then: reconciles are
\* taken again, and held ones rechecked.
Freed(k) ==
    /\ costCheck' = IF worker.deleted THEN 0 ELSE costCheck
    /\ capped' = IF worker.deleted THEN 0 ELSE capped

\* Another job, or another deauthorization, arrived while this one ran.
Superseded(k) ==
    /\ Pending(k) /\ item[k].changed
    /\ Over(k, Fresh(k))
    /\ Observe /\ Freed(k)
    /\ UNCHANGED <<removed, wanted, freed>>

\* ErrBusy: another request or replica holds the broadcaster's lease.
Busy(k) ==
    /\ Pending(k) /\ ~item[k].changed /\ ~worker.deleted
    /\ Over(k, [Stopped(k) EXCEPT !.ready = BusyDelay])
    /\ UNCHANGED <<limits, wanted, freed>>

\* The cost limit rejected some type.  A check that is due counts as overdue:
\* the clock never reads the very nanosecond it was due at.
CostHeld(k) ==
    /\ Pending(k) /\ ~item[k].changed
    /\ worker.job # "remove"
    /\ Over(k, [Stopped(k) EXCEPT !.held = TRUE])
    /\ costCheck' = IF costCheck = 0 THEN CostInterval ELSE costCheck
    /\ capped' = CostInterval
    /\ freed' = FALSE
    /\ Observe
    /\ UNCHANGED <<removed, wanted>>

\* The removal found that the broadcaster authorized the app again.
Reauthorized(k) ==
    /\ Pending(k) /\ ~item[k].changed
    /\ worker.job = "remove" /\ ~worker.deleted
    /\ Over(k, IF item[k].reconcile
               THEN [Fresh(k) EXCEPT !.job = "reconcile"] ELSE NoItem)
    /\ Observe
    /\ UNCHANGED <<removed, costCheck, capped, wanted, freed>>

\* Done.  A removal mutes the revocations that repeat its deauthorization.
Complete(k) ==
    /\ Pending(k) /\ ~item[k].changed
    /\ Over(k, NoItem)
    /\ Observe /\ Freed(k)
    /\ \/ /\ worker.job = "remove"
          /\ removed' = [removed EXCEPT ![k] = RemovedTTL]
       \/ worker.job # "remove" /\ UNCHANGED removed
    /\ wanted' = [wanted EXCEPT ![k] = FALSE]
    /\ UNCHANGED freed

\* errTwitchBudget, or a 429 that is not about cost.
RateLimited(k) ==
    /\ Pending(k) /\ ~item[k].changed
    /\ Observe /\ Freed(k)
    /\ \E at \in {budget'} \cup 0..MaxReset :
         Over(k, [Stopped(k) EXCEPT !.ready = After(at)])
    /\ UNCHANGED <<removed, wanted, freed>>

\* A rejection that no retry can mend: a callable.Error.
Rejected(k) ==
    /\ Pending(k) /\ ~item[k].changed
    /\ Over(k, NoItem)
    /\ Observe /\ Freed(k)
    /\ wanted' = [wanted EXCEPT ![k] = FALSE]
    /\ UNCHANGED <<removed, freed>>

\* Any other error: back off, longer when a mutation's outcome is uncertain.
Delays(n) == {Larger(Larger(Backoff[n], least), at) :
                least \in {0, LeaseTTL}, at \in 0..MaxReset}

Retry(k) ==
    /\ Pending(k) /\ ~item[k].changed
    /\ item[k].attempts + 1 < MaxAttempts
    /\ Observe /\ Freed(k)
    /\ \E t \in Delays(item[k].attempts + 1) :
         Over(k, [Stopped(k) EXCEPT !.attempts = item[k].attempts + 1, !.ready = t])
    /\ UNCHANGED <<removed, wanted, freed>>

\* The last attempt failed.
GiveUp(k) ==
    /\ Pending(k) /\ ~item[k].changed
    /\ item[k].attempts + 1 >= MaxAttempts
    /\ Observe /\ Freed(k)
    /\ Over(k, NoItem)
    /\ wanted' = [wanted EXCEPT ![k] = FALSE]
    /\ UNCHANGED <<removed, freed>>

Answer(k) ==
    Superseded(k) \/ Busy(k) \/ CostHeld(k) \/ Reauthorized(k) \/ Complete(k)
                  \/ RateLimited(k) \/ Rejected(k) \/ Retry(k) \/ GiveUp(k)

\* The context ends: the worker stops, an item that ran stays marked running.
Shutdown ==
    /\ worker.at # "stopped"
    /\ worker' = [worker EXCEPT !.at = "stopped"]
    /\ UNCHANGED <<item, order, limits, wake, sleep, requests, ghosts>>

Less(n) == IF n = 0 THEN 0 ELSE n - 1

Tick ==
    /\ item' = [k \in Keys |-> IF Pending(k)
                               THEN [item[k] EXCEPT !.ready = Less(@)]
                               ELSE NoItem]
    /\ removed' = [k \in Keys |-> Less(removed[k])]
    /\ costCheck' = Less(costCheck)
    /\ capped' = Less(capped)
    /\ budget' = Less(budget)
    /\ sleep' = Less(sleep)
    /\ UNCHANGED <<order, wake, worker, requests, ghosts>>

Work == \/ BudgetWait \/ StartCheck \/ FailCheck \/ EndCheck \/ Sleep \/ Wake
        \/ RemoveOne
        \/ \E k \in Keys : Pick(k) \/ Answer(k)

Requests ==
    \/ \E c \in Channels : Enqueue(c) \/ Notified(c) \/ Revoked(c) \/ IgnoreRevoked(c)
    \/ EnsureApp

Next == Requests \/ Work \/ Shutdown \/ Tick

Spec == Init /\ [][Next]_vars

\* For progress, the worker's own steps take no time worth counting: it passes
\* while the worker sleeps or waits for an answer.
Prompt ==
    \/ worker.at \in {"cost", "run", "stopped"}
    \/ worker.at = "asleep" /\ ~wake /\ sleep > 0

PromptNext == Requests \/ Work \/ Shutdown \/ (Prompt /\ Tick)

\* The worker is scheduled, it is answered, and time passes.
Fairness == WF_vars(Prompt /\ Tick) /\ WF_vars(Work)

FairSpec == Init /\ [][PromptNext]_vars /\ Fairness
-----------------------------------------------------------------------------
\* A request that was taken is not forgotten before a run that began after it:
\* no outcome of the run it arrived during, nor a failure, drops its item.
NotForgotten == \A k \in Keys : intent[k] # "none" => Pending(k)

\* The latest intent wins: a run does what was asked last, if that has not
\* been done yet.
LatestRuns ==
    [][\A k \in Keys :
         worker.at # "run" /\ worker'.at = "run" /\ worker'.key = k
           => intent[k] \in {"none", worker'.job}]_vars

\* A stale revocation does not cost a broadcaster the reconcile it replaced:
\* until a reconcile begins, or a removal deletes, or the item is dropped for
\* its errors, the item that stands for it stays queued.
WantedKept == \A k \in Keys : wanted[k] => Pending(k)

\* Cost that a removal freed at Twitch is used, whatever that removal came to:
\* once its run is over reconciles are taken again, and no other run begins
\* before the limit was checked for the items held on it.
FreedCostUsed ==
    [][freed /\ worker.at \in {"loop", "asleep", "next"} =>
         /\ capped = 0
         /\ worker'.at = "run" => \A k \in Keys : ~(Pending(k) /\ item[k].held)]_vars

\* No lost wake-up: when there is something to do, the sleeping worker has a
\* signal to find or its timer has run out.
NoLostWake ==
    worker.at = "asleep" /\ budget = 0 /\ (CostCheckDue \/ \E k \in Keys : Ready(k))
      => wake \/ sleep = 0

\* Whatever the order of requests and answers, a request that was taken gets
\* its run, unless the instance shuts down or Twitch's cost limit holds it,
\* and provided that the rate limit's reserve is not used up over and over:
\* the oldest item goes first, and could then have every turn there is.
EventuallyRuns ==
    <>[](budget = 0) =>
      \A k \in Keys : intent[k] # "none" ~> \/ intent[k] = "none"
                                            \/ worker.at = "stopped"
                                            \/ Pending(k) /\ item[k].held

\* An item held on the cost limit is not held for good: the limit is checked
\* again.
HeldRechecked ==
    \A k \in Keys : Pending(k) /\ item[k].held
                     ~> \/ worker.at \in {"cost", "stopped"}
                        \/ ~(Pending(k) /\ item[k].held)
=============================================================================
