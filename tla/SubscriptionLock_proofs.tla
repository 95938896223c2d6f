----------------------- MODULE SubscriptionLock_proofs -----------------------
(***************************************************************************)
(* The lifecycle lease serializes the work of a provider key: proofs for   *)
(* any number of calls, labels, clock skews and time limits that satisfy   *)
(* the assumptions of SubscriptionLock.                                    *)
(***************************************************************************)
EXTENDS SubscriptionLock, TLAPS

\* Clocks disagree by a bounded number of time units.
LEMMA SkewBound ==
    \A c \in Calls : /\ Skew[c] \in Nat
                     /\ Skew[c] <= MaxSkew
                     /\ LeaseTTL + Skew[c] \in Nat
  BY TimeAssumption

\* Every step keeps the types: the document is absent or owned by a call, and
\* no deadline runs below zero.
THEOREM Typing == Spec => []TypeOK
<1>1. Init => TypeOK
  BY CallAssumption DEF Init, TypeOK, Asking, Working
<1>2. TypeOK /\ [Next]_vars => TypeOK'
  <2> SUFFICES ASSUME TypeOK, [Next]_vars PROVE TypeOK'
    OBVIOUS
  <2> USE DEF TypeOK, Asking, Working, Go, Return
  <2>1. CASE Tick
    BY <2>1 DEF Tick, CountDown
  <2>2. ASSUME NEW c \in Calls, Begin(c) PROVE TypeOK'
    BY <2>2, CallAssumption DEF Begin
  <2>3. ASSUME NEW c \in Calls, Acquire(c) PROVE TypeOK'
    <3>1. CASE ReadFree(c)
      BY <3>1, SkewBound DEF ReadFree
    <3>2. CASE ReadBeside(c)
      BY <3>2, TimeAssumption DEF ReadBeside
    <3>3. CASE ReadHeld(c)
      BY <3>3 DEF ReadHeld
    <3>4. CASE Commit(c)
      BY <3>4 DEF Commit
    <3>5. CASE Conflict(c) \/ Poll(c) \/ GiveUp(c)
      BY <3>5 DEF Conflict, Poll, GiveUp
    <3> QED BY <2>3, <3>1, <3>2, <3>3, <3>4, <3>5 DEF Acquire
  <2>4. ASSUME NEW c \in Calls, Run(c) PROVE TypeOK'
    <3>1. CASE StartWork(c) \/ Mutate(c) \/ Land(c)
      BY <3>1, TimeAssumption DEF StartWork, Mutate, Land
    <3>2. CASE FinishRetain(c) \/ FinishRelease(c) \/ FinishBeside(c)
      BY <3>2 DEF FinishRetain, FinishRelease, FinishBeside
    <3>3. CASE Release(c)
      BY <3>3 DEF Release
    <3> QED BY <2>4, <3>1, <3>2, <3>3 DEF Run
  <2>5. ASSUME NEW c \in Calls, End(c) \/ Crash(c) PROVE TypeOK'
    BY <2>5 DEF End, Crash
  <2>6. CASE UNCHANGED vars
    BY <2>6 DEF vars
  <2> QED BY <2>1, <2>2, <2>3, <2>4, <2>5, <2>6 DEF Next
<1> QED BY <1>1, <1>2, PTL DEF Spec
-----------------------------------------------------------------------------
\* Where a call can be once it has owned the document.
Had == {"granted", "work", "release", "done"}

\* The document, and what a transaction read, name calls past acquisition:
\* their `until` is never stamped again.
Owned == /\ lease # None => pc[lease] \in Had
         /\ \A c \in Calls : seen[c] # None => pc[seen[c]] \in Had

\* A call that is about to commit over a document saw it expired.
SeenFree ==
    \A c \in Calls : pc[c] = "commit" /\ seen[c] # None => Expired(c, seen[c])

\* What is left of a lease covers what is left of the work and of the mutation
\* it protects, on every clock.
Room ==
    \A c \in Calls :
        /\ pc[c] = "granted" => LeaseTTL + Skew[c] <= until[c] + Lag
        /\ pc[c] = "work" => timer[c] + Settle + MaxSkew < until[c]
        /\ flight[c] > 0 => /\ flight[c] + MaxSkew < until[c]
                            /\ pc[c] \in {"work", "done"}

Holds == \A c \in Calls : Active(c) => lease = c

IndInv == TypeOK /\ Owned /\ SeenFree /\ Room /\ Holds

\* Whoever is active owns a document that no clock sees as expired.
LEMMA RoomCovers ==
    ASSUME TypeOK, Room, NEW c \in Calls, Active(c), NEW d \in Calls
    PROVE ~Expired(d, c)
<1>1. MaxSkew < until[c]
  BY TimeAssumption, SkewBound DEF Room, TypeOK, Active, Working
<1> QED BY <1>1, SkewBound, TimeAssumption DEF Expired, TypeOK

\* Nobody works and there is no document at the start.
LEMMA IndInvInit == Init => IndInv
<1> SUFFICES ASSUME Init PROVE IndInv
  OBVIOUS
<1>1. TypeOK
  BY CallAssumption DEF Init, TypeOK, Asking, Working
<1> QED BY <1>1 DEF Init, IndInv, Owned, SeenFree, Room, Holds, Active, Working

\* Only the winner of a free document becomes active.
LEMMA CommitStep ==
    ASSUME IndInv, TypeOK', NEW c \in Calls, Commit(c)
    PROVE IndInv'
<1> USE DEF IndInv, Commit, Go, Return
<1>1. \A d \in Calls : ~Active(d)
  <2> SUFFICES ASSUME NEW d \in Calls, Active(d) PROVE FALSE
    OBVIOUS
  <2>1. lease = d /\ seen[c] = d /\ seen[c] # None
    BY CallAssumption DEF Holds
  <2>2. Expired(c, d)
    BY <2>1 DEF SeenFree
  <2> QED BY <2>2, RoomCovers
<1>2. /\ pc'[c] \in {"granted", "done"}
      /\ \A d \in Calls : d # c => pc'[d] = pc[d] /\ seen'[d] = seen[d]
      /\ seen'[c] \in {None, seen[c]}
      /\ pc'[c] = "granted" => LeaseTTL + Skew[c] <= until[c] + Lag
  BY DEF TypeOK
<1>3. Owned'
  BY <1>2 DEF Owned, Had, TypeOK
<1>4. SeenFree'
  BY <1>2 DEF SeenFree, Expired
<1>5. Room'
  BY <1>1, <1>2 DEF Room, Active, Working, TypeOK
<1>6. Holds'
  BY <1>1, <1>2 DEF Holds, Active, Working, TypeOK
<1> QED BY <1>3, <1>4, <1>5, <1>6

\* Reading a free document stamps a new `until`, on a call that nobody names.
LEMMA ReadFreeStep ==
    ASSUME IndInv, TypeOK', NEW c \in Calls, ReadFree(c)
    PROVE IndInv'
<1> USE DEF IndInv, ReadFree, Go
<1>1. /\ pc[c] = "read" /\ pc'[c] = "commit"
      /\ seen'[c] = lease
      /\ \A d \in Calls : d # c => /\ pc'[d] = pc[d]
                                   /\ seen'[d] = seen[d]
                                   /\ until'[d] = until[d]
  BY DEF TypeOK
<1>2. lease # c /\ \A d \in Calls : seen[d] # c
  BY <1>1, CallAssumption DEF Owned, Had
<1>3. Owned'
  BY <1>1, <1>2, CallAssumption DEF Owned, Had, TypeOK
<1>4. SeenFree'
  BY <1>1, <1>2 DEF SeenFree, Expired, TypeOK
<1>5. Room'
  BY <1>1 DEF Room, TypeOK
<1>6. Holds'
  BY <1>1 DEF Holds, Active, Working, TypeOK
<1> QED BY <1>3, <1>4, <1>5, <1>6

\* Time takes the same from the lease, the work and the mutation.
LEMMA TickStep ==
    ASSUME IndInv, TypeOK', Tick
    PROVE IndInv'
<1> USE DEF IndInv, Tick, CountDown
<1>1. Owned'
  BY DEF Owned
<1>2. SeenFree'
  BY SkewBound DEF SeenFree, Expired, TypeOK
<1>3. Room'
  BY SkewBound, TimeAssumption DEF Room, TypeOK
<1>4. Holds'
  BY DEF Holds, Active, TypeOK
<1> QED BY <1>1, <1>2, <1>3, <1>4

\* Steps of a call that leave the document and its stamp alone.
LEMMA QuietStep ==
    ASSUME IndInv, TypeOK', NEW c \in Calls,
           \/ Begin(c) \/ ReadBeside(c) \/ ReadHeld(c) \/ Conflict(c) \/ Poll(c)
           \/ GiveUp(c) \/ StartWork(c) \/ Mutate(c) \/ Land(c)
           \/ FinishRetain(c) \/ FinishRelease(c) \/ FinishBeside(c)
           \/ End(c) \/ Crash(c)
    PROVE IndInv'
<1> USE DEF IndInv
<1>1. /\ lease' = lease /\ until' = until
      /\ \A d \in Calls : d # c => /\ pc'[d] = pc[d]
                                   /\ seen'[d] = seen[d]
                                   /\ timer'[d] = timer[d]
                                   /\ flight'[d] = flight[d]
      /\ seen'[c] \in {None, seen[c]}
  BY DEF Begin, ReadBeside, ReadHeld, Conflict, Poll, GiveUp, StartWork, Mutate,
         Land, FinishRetain, FinishRelease, FinishBeside, End, Crash, Go, Return,
         TypeOK
<1>2. /\ pc'[c] # "commit" \/ pc'[c] = pc[c]
      /\ pc[c] \in Had => pc'[c] \in Had
      /\ pc'[c] = "granted" => pc[c] = "granted"
      /\ pc'[c] = "work" => \/ pc[c] = "work" /\ timer'[c] = timer[c]
                            \/ pc[c] = "granted" /\ timer'[c] = WorkLimit
  BY DEF Begin, ReadBeside, ReadHeld, Conflict, Poll, GiveUp, StartWork, Mutate,
         Land, FinishRetain, FinishRelease, FinishBeside, End, Crash, Go, Return,
         TypeOK, Had, Asking, Working
<1>3. \/ flight'[c] = 0
      \/ /\ flight'[c] = flight[c]
         /\ pc[c] \in {"work", "done"} => pc'[c] \in {"work", "done"}
      \/ flight'[c] = Settle /\ pc[c] = "work" /\ pc'[c] = "work"
  BY DEF Begin, ReadBeside, ReadHeld, Conflict, Poll, GiveUp, StartWork, Mutate,
         Land, FinishRetain, FinishRelease, FinishBeside, End, Crash, Go, Return,
         TypeOK, Asking, Working
<1>4. Owned'
  BY <1>1, <1>2, CallAssumption DEF Owned, TypeOK
<1>5. SeenFree'
  BY <1>1, <1>2 DEF SeenFree, Expired, TypeOK
<1>6. Room'
  BY <1>1, <1>2, <1>3, SkewBound, TimeAssumption DEF Room, TypeOK
<1>7. Holds'
  BY <1>1, <1>2, <1>3 DEF Holds, Active, Working, Room, TypeOK
<1> QED BY <1>4, <1>5, <1>6, <1>7

\* A release deletes the document of a call that is no longer active, or none.
LEMMA ReleaseStep ==
    ASSUME IndInv, TypeOK', NEW c \in Calls, Release(c)
    PROVE IndInv'
<1> USE DEF IndInv, Release, Go, Return
<1>1. /\ pc[c] = "release" /\ pc'[c] = "done"
      /\ \A d \in Calls : d # c => /\ pc'[d] = pc[d] /\ seen'[d] = seen[d]
                                   /\ timer'[d] = timer[d]
      /\ seen'[c] = None
      /\ lease' = lease \/ (lease = c /\ lease' = None)
  BY DEF TypeOK
<1>2. ~Active(c) /\ flight[c] = 0
  BY <1>1 DEF Active, Working, Room, TypeOK
<1>3. Owned'
  BY <1>1, CallAssumption DEF Owned, Had, TypeOK
<1>4. SeenFree'
  BY <1>1 DEF SeenFree, Expired, TypeOK
<1>5. Room'
  BY <1>1, <1>2 DEF Room, TypeOK
<1>6. Holds'
  BY <1>1, <1>2 DEF Holds, Active, Working, TypeOK
<1> QED BY <1>3, <1>4, <1>5, <1>6

\* Every step of every call keeps the invariant.
LEMMA IndInvStep == IndInv /\ TypeOK' /\ [Next]_vars => IndInv'
<1> SUFFICES ASSUME IndInv, TypeOK', [Next]_vars PROVE IndInv'
  OBVIOUS
<1>1. CASE Tick
  BY <1>1, TickStep
<1>2. ASSUME NEW c \in Calls, Begin(c) \/ End(c) \/ Crash(c) PROVE IndInv'
  BY <1>2, QuietStep
<1>3. ASSUME NEW c \in Calls, Acquire(c) PROVE IndInv'
  BY <1>3, QuietStep, ReadFreeStep, CommitStep DEF Acquire
<1>4. ASSUME NEW c \in Calls, Run(c) PROVE IndInv'
  BY <1>4, QuietStep, ReleaseStep DEF Run
<1>5. CASE UNCHANGED vars
  BY <1>5 DEF vars, IndInv, Owned, SeenFree, Room, Holds, Active, Expired, TypeOK
<1> QED BY <1>1, <1>2, <1>3, <1>4, <1>5 DEF Next

\* The inductive invariant holds in every reachable state.
THEOREM Invariance == Spec => []IndInv
<1> QED BY IndInvInit, IndInvStep, Typing, PTL DEF Spec
-----------------------------------------------------------------------------
\* A lease outlasts what it protects.
THEOREM Coverage == Spec => []LeaseCovers
<1>1. IndInv => LeaseCovers
  BY RoomCovers DEF IndInv, Holds, LeaseCovers
<1> QED BY <1>1, Invariance, PTL

\* Two calls never work on a key, or have mutations under way, at once.
THEOREM MutualExclusion == Spec => []Exclusion
<1>1. IndInv => Exclusion
  BY DEF IndInv, Holds, Exclusion
<1> QED BY <1>1, Invariance, PTL

\* However late a release runs, it deletes no lease but its own.
THEOREM ReleaseOwnership == Spec => OwnRelease
<1>1. TypeOK /\ [Next]_vars =>
        [lease # None /\ lease' = None => pc[lease] = "release"]_vars
  <2> SUFFICES ASSUME TypeOK, [Next]_vars, lease # None, lease' = None
               PROVE pc[lease] = "release"
    OBVIOUS
  <2>1. CASE Tick
    BY <2>1 DEF Tick
  <2>2. ASSUME NEW c \in Calls, Begin(c) \/ End(c) \/ Crash(c)
        PROVE pc[lease] = "release"
    BY <2>2 DEF Begin, End, Crash
  <2>3. ASSUME NEW c \in Calls, Acquire(c) PROVE pc[lease] = "release"
    BY <2>3, CallAssumption DEF Acquire, ReadFree, ReadBeside, ReadHeld, Commit,
       Conflict, Poll, GiveUp
  <2>4. ASSUME NEW c \in Calls, Run(c) PROVE pc[lease] = "release"
    BY <2>4 DEF Run, StartWork, Mutate, Land, FinishRetain, FinishRelease,
       Release, FinishBeside
  <2>5. CASE UNCHANGED vars
    BY <2>5 DEF vars
  <2> QED BY <2>1, <2>2, <2>3, <2>4, <2>5 DEF Next
<1> QED BY <1>1, Typing, PTL DEF Spec, OwnRelease
-----------------------------------------------------------------------------
\* The refinement: what SerialWork calls active and spent.
Now == {c \in Calls : Active(c)}
Over == {c \in Calls : ~Active(c) /\ pc[c] \in {"release", "done"}}

\* A step that changes the activity of no call but c, and ends no other, is a
\* step of SerialWork.
LEMMA OneCall ==
    ASSUME IndInv, IndInv', NEW c \in Calls,
           \A d \in Calls : d # c => /\ (Active(d)' <=> Active(d))
                                    /\ pc'[d] = pc[d],
           pc[c] \in {"release", "done"} => pc'[c] \in {"release", "done"},
           pc[c] \in {"release", "done"} => (Active(c)' => Active(c)),
           Active(c) => Active(c)' \/ pc'[c] \in {"release", "done"},
           Active(c)' => Active(c) \/ \A d \in Calls : ~Active(d)
    PROVE [Serial!Next]_<<Now, Over>>
<1> USE DEF Now, Over
<1>1. CASE Active(c) /\ Active(c)'
  <2>1. Now' = Now /\ Over' = Over
    BY <1>1
  <2> QED BY <2>1
<1>2. CASE Active(c) /\ ~Active(c)'
  <2>1. Now = {c} /\ Now' = {}
    BY <1>2 DEF IndInv, Holds
  <2>2. Over' = Over \cup {c}
    BY <1>2
  <2> QED BY <2>1, <2>2 DEF Serial!Next, Serial!Leave
<1>3. CASE ~Active(c) /\ Active(c)'
  <2>1. Now = {} /\ Now' = {c}
    BY <1>3
  <2>2. c \notin Over /\ Over' = Over
    BY <1>3
  <2> QED BY <2>1, <2>2 DEF Serial!Next, Serial!Enter
<1>4. CASE ~Active(c) /\ ~Active(c)'
  <2>1. Now' = Now
    BY <1>4
  <2>2. Over' = Over \/ (c \notin Now \cup Over /\ Over' = Over \cup {c})
    BY <1>4
  <2> QED BY <2>1, <2>2 DEF Serial!Next, Serial!Forgo
<1> QED BY <1>1, <1>2, <1>3, <1>4

\* Every step of a call is a step of SerialWork, or changes nothing of it.
LEMMA CallSerial ==
    ASSUME IndInv, IndInv', NEW c \in Calls,
           Begin(c) \/ Acquire(c) \/ Run(c) \/ End(c) \/ Crash(c)
    PROVE [Serial!Next]_<<Now, Over>>
<1> USE DEF IndInv
<1>1. \A d \in Calls : d # c => (Active(d)' <=> Active(d)) /\ pc'[d] = pc[d]
  <2>1. \A d \in Calls : d # c => pc'[d] = pc[d] /\ flight'[d] = flight[d]
    BY DEF Acquire, Run, Begin, ReadFree, ReadBeside, ReadHeld, Commit, Conflict,
       Poll, GiveUp, StartWork, Mutate, Land, FinishRetain, FinishRelease,
       Release, FinishBeside, End, Crash, Go, Return, TypeOK
  <2> QED BY <2>1 DEF Active
<1>2. \/ pc'[c] = pc[c] /\ flight'[c] = flight[c]
      \/ pc'[c] = pc[c] /\ pc[c] = "work"
      \/ pc'[c] = pc[c] /\ pc[c] = "done" /\ flight[c] > 0
      \/ pc[c] = "granted" /\ pc'[c] = "work"
      \/ pc[c] \notin Working \cup {"release", "done"} /\ flight'[c] = flight[c]
      \/ pc[c] \in Working \cup {"release"} /\ flight'[c] = flight[c]
         /\ pc'[c] \in {"release", "done"}
  BY DEF Acquire, Run, Begin, ReadFree, ReadBeside, ReadHeld, Commit, Conflict,
     Poll, GiveUp, StartWork, Mutate, Land, FinishRetain, FinishRelease,
     Release, FinishBeside, End, Crash, Go, Return, TypeOK, Asking, Working, Room
<1>3. pc[c] \in {"release", "done"} =>
        pc'[c] \in {"release", "done"} /\ (Active(c)' => Active(c))
  BY <1>2 DEF Active, Working
<1>4. Active(c) => Active(c)' \/ pc'[c] \in {"release", "done"}
  BY <1>2 DEF Active, Working, Room, TypeOK
<1>5. Active(c)' => Active(c) \/ \A d \in Calls : ~Active(d)
  <2> SUFFICES ASSUME Active(c)', ~Active(c), NEW d \in Calls, Active(d)
               PROVE FALSE
    OBVIOUS
  <2>1. d # c /\ Active(d)'
    BY <1>1
  <2> QED BY <2>1 DEF Holds
<1> QED BY <1>1, <1>3, <1>4, <1>5, OneCall

\* Time ends the activity of at most one call, the owner of the document.
LEMMA TickSerial ==
    ASSUME IndInv, IndInv', Tick
    PROVE [Serial!Next]_<<Now, Over>>
<1> USE DEF IndInv
<1>1. \A d \in Calls : /\ pc'[d] = pc[d]
                       /\ Active(d)' => Active(d)
                       /\ d # lease => ~Active(d) /\ ~Active(d)'
  BY DEF Tick, CountDown, Active, Holds, TypeOK
<1>2. \A d \in Calls : Active(d) => Active(d)' \/ pc[d] = "done"
  BY <1>1 DEF Active, Working, Room, TypeOK
<1>3. CASE lease = None
  <2>1. Now' = Now /\ Over' = Over
    BY <1>1, <1>3, CallAssumption DEF Now, Over
  <2> QED BY <2>1
<1>4. ASSUME NEW c \in Calls, lease = c PROVE [Serial!Next]_<<Now, Over>>
  <2>1. \A d \in Calls : d # c => (Active(d)' <=> Active(d)) /\ pc'[d] = pc[d]
    BY <1>1, <1>4
  <2>2. pc'[c] = pc[c] /\ (Active(c)' => Active(c))
    BY <1>1
  <2>3. Active(c) => Active(c)' \/ pc'[c] \in {"release", "done"}
    BY <1>2, <2>2
  <2> QED BY <2>1, <2>2, <2>3, OneCall
<1> QED BY <1>3, <1>4 DEF TypeOK

\* The lease implements SerialWork: the initial states map to its initial
\* state, and every step maps to one of its steps or to a stutter.
THEOREM Refinement == Spec => SerialSpec
<1>1. Init => Serial!Init
  BY DEF Init, Serial!Init, Active, Working
<1>2. IndInv /\ IndInv' /\ [Next]_vars => [Serial!Next]_<<Now, Over>>
  <2> SUFFICES ASSUME IndInv, IndInv', [Next]_vars
               PROVE [Serial!Next]_<<Now, Over>>
    OBVIOUS
  <2>1. CASE UNCHANGED vars
    BY <2>1 DEF vars, Now, Over, Active
  <2> QED BY <2>1, CallSerial, TickSerial DEF Next
<1>3. IndInv /\ IndInv' /\ [Next]_vars => [Serial!Next]_Serial!vars
  BY <1>2 DEF Serial!vars, Now, Over
<1> QED BY <1>1, <1>3, Invariance, PTL DEF Spec, SerialSpec, Serial!Spec
==============================================================================
