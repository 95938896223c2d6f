-------------------------- MODULE SubscriptionLock --------------------------
(***************************************************************************)
(* agent/internal/subscriptionlock: the Firestore lease that serializes    *)
(* subscription lifecycle work on one provider key across requests,        *)
(* cleanup jobs, replicas and spot replacements.                           *)
(*                                                                         *)
(* A member of Calls is one invocation of `with`, so it is also the random *)
(* owner id that invocation draws: no two calls share one, and a call that *)
(* got an answer never asks again.  Time is kept as what is left of each   *)
(* deadline, so a Tick counts every deadline down by one unit.             *)
(***************************************************************************)
EXTENDS Naturals

CONSTANTS
    Calls,        \* invocations of With, TryWith, WithWaitLimit[Beside]
    Jobs,         \* the labels a context can carry (subscriptionlock.Job)
    NoJob,        \* the empty label
    None,         \* no lease document
    Job,          \* the label of each call's context
    Wait,         \* whether the call polls a busy lease (all but TryWith)
    WaitLimit,    \* its acquisition budget, 0 for none
    Beside,       \* the labels it may run beside
    LeaseTTL,     \* 90 s, what `until` is set to
    WorkLimit,    \* 45 s, the deadline of the work
    Lag,          \* computing `until` to starting the work takes at most this
    Settle,       \* a provider request takes effect at most this late
    Skew,         \* how far each call's clock is ahead of the slowest one
    MaxSkew       \* the largest of them

ASSUME CallAssumption ==
    /\ None \notin Calls
    /\ NoJob \notin Jobs
    /\ Job \in [Calls -> Jobs \cup {NoJob}]
    /\ Wait \in [Calls -> BOOLEAN]
    /\ WaitLimit \in [Calls -> Nat]
    /\ Beside \in [Calls -> SUBSET Jobs]

\* The margin the 90 s lease leaves over the 45 s deadline has to cover the
\* commit's latency, the provider's and the clocks' disagreement.
ASSUME TimeAssumption ==
    /\ LeaseTTL \in Nat
    /\ WorkLimit \in Nat
    /\ Lag \in Nat
    /\ Settle \in Nat
    /\ MaxSkew \in Nat
    /\ Skew \in [Calls -> 0..MaxSkew]
    /\ Lag + WorkLimit + Settle + MaxSkew < LeaseTTL

VARIABLES
    pc,        \* where each call is
    lease,     \* the document, named by its owner: its `until` is until[lease]
    seen,      \* the document a call's transaction has read
    until,     \* what is left, on the slowest clock, of the `until` it stamped
    timer,     \* what is left of its acquisition budget, then of its work
    ended,     \* the calls whose caller's context is over
    flight     \* how long its last provider mutation may still take, 0: none

vars == <<pc, lease, seen, until, timer, ended, flight>>

Asking == {"read", "commit", "poll"}
Working == {"granted", "work"}

TypeOK ==
    /\ pc \in [Calls -> {"idle", "beside", "release", "done"}
                          \cup Asking \cup Working]
    /\ lease \in Calls \cup {None}
    /\ seen \in [Calls -> Calls \cup {None}]
    /\ until \in [Calls -> Nat]
    /\ timer \in [Calls -> Nat]
    /\ ended \in SUBSET Calls
    /\ flight \in [Calls -> Nat]

Init ==
    /\ pc = [c \in Calls |-> "idle"]
    /\ lease = None
    /\ seen = [c \in Calls |-> None]
    /\ until = [c \in Calls |-> 0]
    /\ timer = [c \in Calls |-> 0]
    /\ ended = {}
    /\ flight = [c \in Calls |-> 0]
-----------------------------------------------------------------------------
Go(c, where) == pc' = [pc EXCEPT ![c] = where]

\* The call is over, whatever it answers (nil, the work's error, ErrBusy or
\* the context's): only its lease and its request under way are left of it.
Return(c) ==
    /\ Go(c, "done")
    /\ seen' = [seen EXCEPT ![c] = None]
    /\ timer' = [timer EXCEPT ![c] = 0]
    /\ ended' = ended \ {c}

\* Mutant of Expired: a lease lasts until it is released.
ExpiredNever(c, owner) == FALSE

\* until.After(time.Now()) is false on c's clock.
Expired(c, owner) == until[owner] <= Skew[c]

\* acquire.Err() # nil; without a limit, acquire is the caller's context.
AcquireOver(c) == c \in ended \/ (WaitLimit[c] > 0 /\ timer[c] = 0)

\* bounded.Err() # nil.
BoundedOver(c) == c \in ended \/ timer[c] = 0

\* A call is made: its owner id is drawn and its acquisition budget starts.
Begin(c) ==
    /\ pc[c] = "idle"
    /\ Go(c, "read")
    /\ timer' = [timer EXCEPT ![c] = WaitLimit[c]]
    /\ UNCHANGED <<lease, seen, until, ended, flight>>

\* Mutant of ReadFree: the lease that is read is not looked at.
ReadFreeAlways(c) ==
    /\ pc[c] = "read"
    /\ seen' = [seen EXCEPT ![c] = lease]
    /\ until' = [until EXCEPT ![c] = LeaseTTL + Skew[c]]
    /\ Go(c, "commit")
    /\ UNCHANGED <<lease, timer, ended, flight>>

\* The transaction reads a lease that is free, and stamps its own.
ReadFree(c) ==
    /\ pc[c] = "read"
    /\ lease # None => Expired(c, lease)
    /\ seen' = [seen EXCEPT ![c] = lease]
    /\ until' = [until EXCEPT ![c] = LeaseTTL + Skew[c]]
    /\ Go(c, "commit")
    /\ UNCHANGED <<lease, timer, ended, flight>>

\* The transaction reads a lease that another call holds, and its label lets
\* the work run beside that call at once.
ReadBeside(c) ==
    /\ pc[c] = "read"
    /\ lease # None /\ ~Expired(c, lease)
    /\ Job[lease] \in Beside[c]
    /\ Go(c, "beside")
    /\ timer' = [timer EXCEPT ![c] = WorkLimit]
    /\ UNCHANGED <<lease, seen, until, ended, flight>>

\* The lease excludes the call, which polls it or (TryWith) returns ErrBusy.
ReadHeld(c) ==
    /\ pc[c] = "read"
    /\ lease # None /\ ~Expired(c, lease)
    /\ Job[lease] \notin Beside[c]
    /\ \/ Wait[c] /\ Go(c, "poll") /\ UNCHANGED <<seen, timer, ended>>
       \/ ~Wait[c] /\ Return(c)
    /\ UNCHANGED <<lease, until, flight>>

\* Firestore commits the transaction: what it read has not changed since.  An
\* answer that is late or lost leaves the lease to expire.
Commit(c) ==
    /\ pc[c] = "commit"
    /\ lease = seen[c]
    /\ lease' = c
    /\ \/ /\ LeaseTTL + Skew[c] <= until[c] + Lag
          /\ Go(c, "granted")
          /\ UNCHANGED <<seen, timer, ended>>
       \/ Return(c)
    /\ UNCHANGED <<until, flight>>

\* Another call has changed the document: Firestore runs the callback again.
Conflict(c) ==
    /\ pc[c] = "commit"
    /\ lease # seen[c]
    /\ Go(c, "read")
    /\ UNCHANGED <<lease, seen, until, timer, ended, flight>>

\* The 200 ms timer of the polling loop.
Poll(c) ==
    /\ pc[c] = "poll"
    /\ ~AcquireOver(c)
    /\ Go(c, "read")
    /\ UNCHANGED <<lease, seen, until, timer, ended, flight>>

\* The acquisition ends without an answer: the caller's context or the budget
\* is over, or Firestore fails the transaction.
GiveUp(c) ==
    /\ pc[c] \in Asking
    /\ pc[c] = "poll" => AcquireOver(c)
    /\ Return(c)
    /\ UNCHANGED <<lease, until, flight>>
-----------------------------------------------------------------------------
StartWork(c) ==
    /\ pc[c] = "granted"
    /\ Go(c, "work")
    /\ timer' = [timer EXCEPT ![c] = WorkLimit]
    /\ UNCHANGED <<lease, seen, until, ended, flight>>

\* The work sends the provider a request that changes something.
Mutate(c) ==
    /\ pc[c] = "work"
    /\ ~BoundedOver(c)
    /\ flight[c] = 0
    /\ flight' = [flight EXCEPT ![c] = Settle]
    /\ UNCHANGED <<pc, lease, seen, until, timer, ended>>

\* The request has taken effect, or never will.
Land(c) ==
    /\ flight[c] > 0
    /\ flight' = [flight EXCEPT ![c] = 0]
    /\ UNCHANGED <<pc, lease, seen, until, timer, ended>>

\* The work returns and the lease is kept until it expires: the context is
\* over, or a mutation's outcome is uncertain.
FinishRetain(c) ==
    /\ pc[c] = "work"
    /\ Return(c)
    /\ UNCHANGED <<lease, until, flight>>

\* Mutant of FinishRelease: an UncertainError is taken for any other error.
FinishReleaseUncertain(c) ==
    /\ pc[c] = "work"
    /\ ~BoundedOver(c)
    /\ Go(c, "release")
    /\ UNCHANGED <<lease, seen, until, timer, ended, flight>>

\* The work returns, in time and with every mutation answered
\* (subscriptions/http.go makes an unanswered one an UncertainError).
FinishRelease(c) ==
    /\ pc[c] = "work"
    /\ ~BoundedOver(c)
    /\ flight[c] = 0
    /\ Go(c, "release")
    /\ UNCHANGED <<lease, seen, until, timer, ended, flight>>

\* The releasing transaction, which deletes nothing but the call's own lease;
\* it may fail, and nothing bounds how late it takes place.
Release(c) ==
    /\ pc[c] = "release"
    /\ lease' \in {lease, IF lease = c THEN None ELSE lease}
    /\ Return(c)
    /\ UNCHANGED <<until, flight>>

\* The work of a call that runs beside another returns; it took no lease.
FinishBeside(c) ==
    /\ pc[c] = "beside"
    /\ Return(c)
    /\ UNCHANGED <<lease, until, flight>>
-----------------------------------------------------------------------------
\* The caller's context is over: its own deadline, its client, a shutdown.
End(c) ==
    /\ pc[c] \in Asking \cup Working \cup {"beside"}
    /\ c \notin ended
    /\ ended' = ended \cup {c}
    /\ UNCHANGED <<pc, lease, seen, until, timer, flight>>

\* The instance dies; its lease, and its request under way, outlive it.
Crash(c) ==
    /\ pc[c] \notin {"idle", "done"}
    /\ Return(c)
    /\ UNCHANGED <<lease, until, flight>>

CountDown(f) == [c \in Calls |-> IF f[c] = 0 THEN 0 ELSE f[c] - 1]

\* Time passes, but a granted call starts its work within Lag and work
\* honors its deadline.
Tick ==
    /\ \A c \in Calls :
         /\ pc[c] = "granted" => LeaseTTL + Skew[c] < until[c] + Lag
         /\ pc[c] \in {"work", "beside"} => timer[c] > 0
    /\ until' = CountDown(until)
    /\ timer' = CountDown(timer)
    /\ flight' = CountDown(flight)
    /\ UNCHANGED <<pc, lease, seen, ended>>

Acquire(c) ==
    ReadFree(c) \/ ReadBeside(c) \/ ReadHeld(c) \/ Commit(c) \/ Conflict(c)
                \/ Poll(c) \/ GiveUp(c)

Run(c) ==
    StartWork(c) \/ Mutate(c) \/ Land(c) \/ FinishRetain(c)
                 \/ FinishRelease(c) \/ Release(c) \/ FinishBeside(c)

Next ==
    \/ Tick
    \/ \E c \in Calls : Begin(c) \/ Acquire(c) \/ Run(c) \/ End(c) \/ Crash(c)

Spec == Init /\ [][Next]_vars

\* Transactions and polls are answered, work returns and time passes.  Nothing
\* forces a call to be made, a mutation, a context's end or a crash.
Fairness ==
    /\ WF_vars(Tick)
    /\ \A c \in Calls :
         /\ WF_vars(Acquire(c))
         /\ WF_vars(StartWork(c))
         /\ WF_vars(FinishRetain(c) \/ FinishRelease(c))
         /\ WF_vars(Release(c))
         /\ WF_vars(FinishBeside(c))

FairSpec == Spec /\ Fairness
-----------------------------------------------------------------------------
\* The call's work, or a provider mutation it made, is under way.
Active(c) == pc[c] \in Working \/ flight[c] > 0

\* The lifecycle work of a key never overlaps: no two calls are working, and
\* no mutation that a dead, timed-out or uncertain call left under way lands
\* while another call works.
Exclusion == \A c, d \in Calls : Active(c) /\ Active(d) => c = d

\* A lease outlasts what it protects: whoever works, or has a mutation under
\* way, still owns the document, and no clock sees it as expired.
LeaseCovers ==
    \A c \in Calls : Active(c) => lease = c /\ \A d \in Calls : ~Expired(d, c)

\* Nobody deletes another call's lease, however late its release runs.
OwnRelease ==
    [][lease # None /\ lease' = None => pc[lease] = "release"]_vars

\* A dead or uncertain holder blocks a key for a bounded time only: every call
\* that is made returns, unless its instance dies.
Answered == \A c \in Calls : pc[c] # "idle" ~> pc[c] = "done"

\* The lease is an implementation of serial work.
Serial == INSTANCE SerialWork WITH
    active <- {c \in Calls : Active(c)},
    spent <- {c \in Calls : ~Active(c) /\ pc[c] \in {"release", "done"}}
SerialSpec == Serial!Spec
=============================================================================
