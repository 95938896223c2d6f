------------------------------ MODULE JobLease ------------------------------
(***************************************************************************)
(* agent/internal/jobs/runner.go: every replica tries to run a scheduled   *)
(* job, and a document with an expiry and the last completed slot lets one *)
(* of them do it.  Replicas stamp the lease with their own clocks, read    *)
(* before the transaction; the write that ends a lease names no owner.     *)
(*                                                                         *)
(* Time is the true time.  A replica's clock is Skew ahead of it.  A step  *)
(* that the code limits ends by its deadline; a canceled write may still   *)
(* reach the store, for Lag at most.                                       *)
(***************************************************************************)
EXTENDS Naturals

CONSTANTS
    Replicas,
    Skew,          \* how far ahead of the slowest clock each one's is
    MaxSkew,       \* a bound on that
    SlotLength,    \* the period of the schedule
    Timeout,       \* Job.Timeout
    Margin,        \* what the lease lasts beyond that: a minute
    AcquireLimit,  \* the limit of Acquire: 15 s
    FinishLimit,   \* the limit of Finish: 10 s
    Settle,        \* what canceled work takes to return
    Lag,           \* how long a canceled write may be under way
    None,          \* no slot
    MaxTime        \* bound: the time that passes

ASSUME JobAssumption ==
    /\ MaxSkew \in Nat /\ Skew \in [Replicas -> 0..MaxSkew]
    /\ SlotLength \in Nat \ {0}
    /\ Timeout \in Nat /\ Margin \in Nat /\ AcquireLimit \in Nat
    /\ FinishLimit \in Nat /\ Settle \in Nat /\ Lag \in Nat /\ MaxTime \in Nat
    /\ None \notin Nat
    /\ AcquireLimit + Settle + FinishLimit + Lag + MaxSkew < Margin

VARIABLES
    time,
    expires,    \* Lease.ExpiresAt, 0 for the zero time
    completed,  \* Lease.CompletedSlot
    pc,         \* where each replica's Once is
    stamp,      \* the `now` it was called with
    deadline,   \* when its step ends at the latest
    write       \* its Finish, from being sent to having landed or been lost

store == <<expires, completed>>
jobVars == <<time, store, pc, stamp, deadline, write>>

Places == {"idle", "acquire", "granted", "work", "finish"}
Write == [sent : BOOLEAN, stamp : Nat, success : BOOLEAN, by : Nat]
NoWrite == [sent |-> FALSE, stamp |-> 0, success |-> FALSE, by |-> 0]

Slot(now) == now \div SlotLength

\* Mutant of ttl: the lease lasts as long as the work.
ttlBare == Timeout

ttl == Timeout + Margin
Clock(r) == time + Skew[r]

\* One type invariant: the lease, the replicas and their writes.
JobTypeOK ==
    /\ time \in Nat
    /\ expires \in Nat
    /\ completed \in Nat \cup {None}
    /\ pc \in [Replicas -> Places]
    /\ stamp \in [Replicas -> Nat]
    /\ deadline \in [Replicas -> Nat]
    /\ write \in [Replicas -> Write]

JobInit ==
    /\ time = 0
    /\ expires = 0
    /\ completed = None
    /\ pc = [r \in Replicas |-> "idle"]
    /\ stamp = [r \in Replicas |-> 0]
    /\ deadline = [r \in Replicas |-> 0]
    /\ write = [r \in Replicas |-> NoWrite]
-----------------------------------------------------------------------------
\* No step, and no write, outlasts its limit.
JobTick ==
    /\ time < MaxTime
    /\ \A r \in Replicas : /\ pc[r] # "idle" => time < deadline[r]
                           /\ write[r].sent => time < write[r].by
    /\ time' = time + 1
    /\ UNCHANGED <<store, pc, stamp, deadline, write>>

\* The ticker fires: Once is called with the replica's clock.
Once(r) ==
    /\ pc[r] = "idle"
    /\ pc' = [pc EXCEPT ![r] = "acquire"]
    /\ stamp' = [stamp EXCEPT ![r] = Clock(r)]
    /\ deadline' = [deadline EXCEPT ![r] = time + AcquireLimit]
    /\ UNCHANGED <<time, store, write>>

canAcquire(slot, now) == completed # slot /\ expires <= now

\* Acquire's transaction commits.
Acquire(r) ==
    /\ pc[r] = "acquire"
    /\ canAcquire(Slot(stamp[r]), stamp[r])
    /\ expires' = stamp[r] + ttl
    /\ pc' = [pc EXCEPT ![r] = "granted"]
    /\ UNCHANGED <<time, completed, stamp, deadline, write>>

Return(r) ==
    /\ pc' = [pc EXCEPT ![r] = "idle"]
    /\ UNCHANGED <<time, store, stamp, deadline, write>>

\* It finds the lease held or the slot complete, or fails; or it has committed
\* and its answer is late: a lease that could not be confirmed is not held.
AcquireRefused(r) ==
    pc[r] = "acquire" /\ ~canAcquire(Slot(stamp[r]), stamp[r]) /\ Return(r)
AcquireFails(r) == pc[r] = "acquire" /\ Return(r)
AcquireLost(r) == pc[r] = "granted" /\ Return(r)

\* Mutant of Run: the work may take as long as the lease lasts.
RunWhole(r) ==
    /\ pc[r] = "granted"
    /\ pc' = [pc EXCEPT ![r] = "work"]
    /\ deadline' = [deadline EXCEPT ![r] = time + ttl]
    /\ UNCHANGED <<time, store, stamp, write>>

\* The work starts, and is canceled at its timeout.
Run(r) ==
    /\ pc[r] = "granted"
    /\ pc' = [pc EXCEPT ![r] = "work"]
    /\ deadline' = [deadline EXCEPT ![r] = time + Timeout + Settle]
    /\ UNCHANGED <<time, store, stamp, write>>

\* The work is over, with or without an error: Finish is called even when
\* the replica is shutting down.
Finish(r, success) ==
    /\ pc[r] = "work"
    /\ pc' = [pc EXCEPT ![r] = "finish"]
    /\ deadline' = [deadline EXCEPT ![r] = time + FinishLimit]
    /\ write' = [write EXCEPT ![r] =
                   [sent |-> TRUE, stamp |-> stamp[r], success |-> success,
                    by |-> time + FinishLimit + Lag]]
    /\ UNCHANGED <<time, store, stamp>>

\* Finish returns, whether or not its write has reached the store.
FinishReturns(r) == pc[r] = "finish" /\ Return(r)

\* The write clears the expiry and, after a success, sets the slot, whoever
\* holds the lease.
Land(r) ==
    /\ write[r].sent
    /\ expires' = 0
    /\ completed' = IF write[r].success THEN Slot(write[r].stamp) ELSE completed
    /\ write' = [write EXCEPT ![r] = NoWrite]
    /\ UNCHANGED <<time, pc, stamp, deadline>>

LoseWrite(r) ==
    /\ write[r].sent
    /\ write' = [write EXCEPT ![r] = NoWrite]
    /\ UNCHANGED <<time, store, pc, stamp, deadline>>

\* The process dies: its lease expires.
Crash(r) == pc[r] # "idle" /\ Return(r)

Step(r) ==
    \/ Once(r)
    \/ Acquire(r) \/ AcquireRefused(r) \/ AcquireFails(r) \/ AcquireLost(r)
    \/ Run(r) \/ (\E success \in BOOLEAN : Finish(r, success))
    \/ FinishReturns(r) \/ Land(r) \/ LoseWrite(r) \/ Crash(r)

JobNext == JobTick \/ \E r \in Replicas : Step(r)

JobSpec == JobInit /\ [][JobNext]_jobVars
-----------------------------------------------------------------------------
\* A replica is responsible for the job from the commit of its lease until
\* nothing that it did can still take effect.
JobBusy(r) == pc[r] \in {"granted", "work"} \/ write[r].sent

\* "the holder always finishes while no one else can hold it" (runner.go:16):
\* no two replicas are at work, nor one while another's Finish may still land.
OneRunner == \A r, s \in Replicas : JobBusy(r) /\ JobBusy(s) => r = s

\* "Finish runs while the caller's lease is live, so it needs no ownership
\* check" (runner.go:57): whatever the clocks say, a write on its way still
\* finds the lease it means to end.
FinishLive ==
    \A r \in Replicas : write[r].sent =>
        /\ expires = write[r].stamp + ttl
        /\ \A s \in Replicas : expires > Clock(s)
=============================================================================
