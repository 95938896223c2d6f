--------------------- MODULE TwitchSubscriptions_proofs ---------------------
(***************************************************************************)
(* A broadcaster's subscriptions at Twitch.  Of their lifecycle: what was  *)
(* asked for last is served once the queues are empty, other deployments   *)
(* keep theirs and a welcome is complete, for any number of replicas,      *)
(* types, deauthorizations and restarts.  Of their migration: what the     *)
(* checkpoint says can be relied on, a source is deleted only behind an    *)
(* enabled replacement or a checkpointed break, and a destination that     *)
(* predates the migration is kept, for any number of runs, failures,       *)
(* crashes and attempts.                                                   *)
(***************************************************************************)
EXTENDS TwitchLifecycle, EventSubMigration, TLAPS

Leases == [owner : Replicas \cup {"request", Left}, label : {None, "reconcile"}]
             \cup {Free}

\* The names are different.
LEMMA Names ==
    /\ None \notin Replicas /\ Left \notin Replicas /\ "request" \notin Replicas
    /\ None # Left /\ None # "request" /\ Left # "request"
    /\ None \notin Item /\ None \notin Work /\ None \notin Mutation /\ None \notin Request
    /\ Scoped \subseteq Types /\ MaxDeauths \in Nat /\ MaxRestarts \in Nat
    /\ Jobs = {"reconcile", "remove"}
  BY LifecycleAssumption DEF Jobs

\* An item after an intent: the latest one wins, and a run under way is followed
\* by it.
LEMMA EnqueuedFacts ==
    ASSUME NEW i \in Item \cup {None}, NEW j \in Jobs
    PROVE  /\ Enqueued(i, j) \in Item
           /\ Enqueued(i, j).job = j
           /\ Enqueued(i, j).reconcile <=> j = "reconcile" \/ (i # None /\ i.reconcile)
           /\ Enqueued(i, j).running <=> i # None /\ i.running
           /\ Enqueued(i, j).changed => i # None /\ (i.changed \/ i.running)
           /\ i # None /\ i.changed /\ i.running => Enqueued(i, j).changed
           /\ i # None /\ i.running /\ ~(i.job = "reconcile" /\ j = "reconcile") =>
                 Enqueued(i, j).changed
<1>1. CASE i = None
  BY <1>1, Names DEF Enqueued, Item
<1>2. CASE i # None
  <2>1. i \in Item
    BY <1>2
  <2> QED BY <1>2, <2>1, Names DEF Enqueued, Item
<1> QED BY <1>1, <1>2

\* An item after a run: it is gone, or stays for what it holds.
LEMMA AfterFacts ==
    ASSUME NEW i \in Item, NEW outcome
    PROVE  /\ After(i, outcome) \in Item \cup {None}
           /\ After(i, outcome) # None =>
                /\ ~After(i, outcome).running /\ ~After(i, outcome).changed
                /\ After(i, outcome).reconcile = i.reconcile
                /\ After(i, outcome).job = "reconcile" => i.job = "reconcile" \/ i.reconcile
           /\ i.changed \/ outcome = "retry" =>
                After(i, outcome) # None /\ After(i, outcome).job = i.job
           /\ outcome = "reauthorized" /\ i.reconcile => After(i, outcome) # None
           /\ outcome # "reauthorized" /\ After(i, outcome) # None =>
                After(i, outcome).job = i.job
<1>0. i \in [job : Jobs, reconcile : BOOLEAN, running : BOOLEAN, changed : BOOLEAN]
  BY DEF Item
<1>1. CASE i.changed
  <2>1. After(i, outcome) = [i EXCEPT !.running = FALSE, !.changed = FALSE]
    BY <1>1 DEF After
  <2>2. [i EXCEPT !.running = FALSE, !.changed = FALSE] \in Item
    BY <1>0 DEF Item
  <2> QED BY <1>0, <2>1, <2>2, Names
<1>2. CASE ~i.changed /\ outcome = "retry"
  <2>1. After(i, outcome) = [i EXCEPT !.running = FALSE]
    BY <1>2 DEF After
  <2>2. [i EXCEPT !.running = FALSE] \in Item
    BY <1>0 DEF Item
  <2> QED BY <1>0, <1>2, <2>1, <2>2, Names
<1>3. CASE ~i.changed /\ outcome # "retry" /\ outcome = "reauthorized" /\ i.reconcile
  <2>1. After(i, outcome) = [i EXCEPT !.running = FALSE, !.job = "reconcile"]
    BY <1>3 DEF After
  <2>2. [i EXCEPT !.running = FALSE, !.job = "reconcile"] \in Item
    BY <1>0, Names DEF Item
  <2> QED BY <1>0, <1>3, <2>1, <2>2, Names
<1>4. CASE ~i.changed /\ outcome # "retry" /\ ~(outcome = "reauthorized" /\ i.reconcile)
  BY <1>4 DEF After
<1> QED BY <1>1, <1>2, <1>3, <1>4

\* Leases that steps write.
LEMMA LeaseFacts ==
    /\ Free \in Leases /\ Free.owner = None
    /\ \A r \in Replicas \cup {"request"} :
          /\ [owner |-> r, label |-> None] \in Leases
          /\ [owner |-> r, label |-> "reconcile"] \in Leases
    /\ lease \in Leases =>
          /\ Abandoned \in Leases /\ Abandoned.owner = Left
          /\ lease.owner \in Replicas \cup {None, Left, "request"}
          /\ lease.owner = None => lease = Free
  BY Names DEF Leases, Free, Abandoned
-----------------------------------------------------------------------------
\* What the end of a run leaves.
LEMMA FinishFacts ==
    ASSUME TypeOK, NEW r \in Replicas, work[r] # None, item[r] # None,
           NEW outcome \in {"retry", "dropped", "complete", "reauthorized"},
           NEW to \in {Free, Abandoned}, Finish(r, outcome, to)
    PROVE  /\ item' \in [Replicas -> Item \cup {None}]
           /\ item'[r] = After(item[r], outcome)
           /\ work' \in [Replicas -> Work \cup {None}] /\ work'[r] = None
           /\ \A o \in Replicas \ {r} : item'[o] = item[o] /\ work'[o] = work[o]
           /\ lease' \in Leases
           /\ lease.owner = r => lease' = to
           /\ intent' = IF outcome = "dropped" THEN "none" ELSE intent
<1>1. item[r] \in Item /\ lease \in Leases
  BY DEF TypeOK, Leases
<1>2. After(item[r], outcome) \in Item \cup {None}
  BY <1>1, AfterFacts
<1>3. lease' \in Leases
  BY <1>1, LeaseFacts DEF Finish
<1> QED BY <1>2, <1>3 DEF Finish, TypeOK

\* The end of a request.
LEMMA AnswerFacts ==
    ASSUME TypeOK, NEW to \in {Free, Abandoned}, Answer(to)
    PROVE  req' = None /\ lease' \in Leases
  BY LeaseFacts DEF Answer, TypeOK, Leases

\* A worker's run is an item's.
Queued(r) ==
    /\ work[r] # None <=> item[r] # None /\ item[r].running
    /\ item[r] # None =>
        /\ item[r].changed => item[r].running
        /\ item[r].job = "reconcile" => item[r].reconcile
    /\ work[r] # None =>
        /\ work[r].job = "reconcile" => item[r].reconcile
        /\ work[r].job # item[r].job => item[r].changed

Finishes(r) == \E outcome \in {"retry", "dropped", "complete", "reauthorized"},
                  to \in {Free, Abandoned} : Finish(r, outcome, to)

\* A new subscription is one, and so is one that failed.
LEMMA SubTypes ==
    /\ \A t \in Types : New(t) \in Sub /\ Own(New(t)) /\ New(t).type = t
                        /\ New(t).status = "enabled"
    /\ \A s \in Sub : /\ [s EXCEPT !.status = "failed"] \in Sub
                      /\ [s EXCEPT !.status = "failed"].callback = s.callback
                      /\ [s EXCEPT !.status = "failed"].type = s.type
  BY DEF New, Sub, Callbacks, Own

\* Every step keeps the types.
LEMMA TypingStep ==
    ASSUME TypeOK, \A r \in Replicas : Queued(r), [Next]_vars
    PROVE  TypeOK'
<1> USE Names
<1> USE DEF twitch, queue, users, bounds
<1>1. CASE UNCHANGED vars
  BY <1>1 DEF vars, TypeOK
<1>2. CASE Deauthorize
  <2>1. subs' \subseteq Sub
    BY <1>2, SubTypes DEF Deauthorize, TypeOK
  <2>2. notices' \in Nat /\ deauths' \in 0..MaxDeauths
    BY <1>2 DEF Deauthorize, TypeOK
  <2> QED BY <1>2, <2>1, <2>2 DEF Deauthorize, TypeOK
<1>3. CASE SignIn
  BY <1>3 DEF SignIn, TypeOK
<1>4. CASE Land
  <2>1. subs' \subseteq Sub
    BY <1>4 DEF Land, TypeOK, Mutation
  <2> QED BY <1>4, <2>1 DEF Land, TypeOK
<1>5. CASE Expire
  BY <1>5 DEF Expire, TypeOK
<1>6. CASE CheckToken
  <2>1. lease' \in Leases /\ req' \in Request \cup {None}
    <3>1. CASE authorized
      BY <1>6, <3>1 DEF CheckToken, TypeOK, Request, Leases
    <3>2. CASE ~authorized
      BY <1>6, <3>2, AnswerFacts DEF CheckToken
    <3> QED BY <3>1, <3>2
  <2> QED BY <1>6, <2>1 DEF CheckToken, TypeOK, Leases
<1>7. CASE Enqueue
  <2>1. req \in Request /\ req' \in Request
    BY <1>7 DEF Enqueue, TypeOK, Request
  <2>2. req.at \in Replicas /\ item[req.at] \in Item \cup {None}
    BY <2>1 DEF Request, TypeOK
  <2>3. item' \in [Replicas -> Item \cup {None}]
    BY <1>7, <2>2, EnqueuedFacts DEF Enqueue, TypeOK
  <2>4. intent' \in {"none", "serve", "remove"}
    BY <1>7 DEF Enqueue, TypeOK
  <2> QED BY <1>7, <2>1, <2>3, <2>4 DEF Enqueue, TypeOK
<1>8. CASE TouchProfile
  <2>1. profile' \in [active : BOOLEAN, pending : BOOLEAN, due : BOOLEAN]
    BY <1>8 DEF TouchProfile, Touched, TypeOK
  <2>2. lease' \in Leases /\ req' \in Request \cup {None}
    <3>1. CASE profile'.pending
      BY <1>8, <3>1 DEF TouchProfile, TypeOK, Request, Leases
    <3>2. CASE ~profile'.pending
      BY <1>8, <3>2, AnswerFacts DEF TouchProfile
    <3> QED BY <3>1, <3>2
  <2> QED BY <1>8, <2>1, <2>2 DEF TouchProfile, TypeOK, Leases
<1>9. CASE Welcome
  <2>1. welcomed' \subseteq 1..2
    BY <1>9 DEF Welcome, TypeOK
  <2>2. profile' \in [active : BOOLEAN, pending : BOOLEAN, due : BOOLEAN]
    BY <1>9 DEF Welcome, TypeOK
  <2>3. lease' \in Leases /\ req' \in Request \cup {None}
    BY <1>9, AnswerFacts DEF Welcome, TypeOK, Leases
  <2> QED BY <1>9, <2>1, <2>2, <2>3 DEF Welcome, TypeOK, Leases
<1>10. CASE FailRequest
  <2>1. req' = None /\ lease' \in Leases
    BY <1>10, AnswerFacts DEF FailRequest
  <2> QED BY <1>10, <2>1 DEF FailRequest, TypeOK, Leases
<1>11. ASSUME NEW r \in Replicas, Deliver(r) PROVE TypeOK'
  <2>1. item' \in [Replicas -> Item \cup {None}]
    BY <1>11, EnqueuedFacts DEF Deliver, TypeOK
  <2>2. notices' \in Nat /\ intent' \in {"none", "serve", "remove"}
    BY <1>11 DEF Deliver, TypeOK
  <2> QED BY <1>11, <2>1, <2>2 DEF Deliver, TypeOK
<1>12. ASSUME NEW r \in Replicas, SubscribeTwitch(r) PROVE TypeOK'
  <2>1. req' \in Request
    BY <1>12 DEF SubscribeTwitch, Request
  <2>2. lease' \in Leases
    <3>1. [owner |-> "request", label |-> None] \in Leases
      BY LeaseFacts
    <3> QED BY <1>12, <3>1 DEF SubscribeTwitch, TypeOK, Leases
  <2> QED BY <1>12, <2>1, <2>2 DEF SubscribeTwitch, TypeOK, Leases
<1>13. ASSUME NEW r \in Replicas, Process(r) PROVE TypeOK'
  <2>1. item[r] \in Item /\ item[r].job \in Jobs
    BY <1>13 DEF Process, TypeOK, Item
  <2>2. item' \in [Replicas -> Item \cup {None}]
    BY <1>13, <2>1 DEF Process, TypeOK, Item
  <2>3. work' \in [Replicas -> Work \cup {None}]
    <3>1. [pc |-> IF item[r].job = "remove" THEN "check" ELSE "list",
           job |-> item[r].job, listed |-> {}, todo |-> {}] \in Work
      BY <2>1 DEF Work
    <3> QED BY <1>13, <3>1 DEF Process, TypeOK
  <2>4. lease' \in Leases
    BY <1>13, LeaseFacts DEF Process
  <2> QED BY <1>13, <2>2, <2>3, <2>4 DEF Process, TypeOK, Leases
<1>14. ASSUME NEW r \in Replicas, work[r] # None, Finishes(r),
              UNCHANGED <<authorized, notices, subs, users, bounds>>,
              flight' \in Mutation \cup {None}
       PROVE  TypeOK'
  <2>1. item[r] # None
    BY <1>14 DEF Queued
  <2>2. /\ item' \in [Replicas -> Item \cup {None}]
        /\ work' \in [Replicas -> Work \cup {None}]
        /\ lease' \in Leases
        /\ intent' \in {"none", "serve", "remove"}
    BY <1>14, <2>1, FinishFacts DEF Finishes, TypeOK
  <2> QED BY <1>14, <2>2 DEF TypeOK, Leases
<1>15. ASSUME NEW r \in Replicas, CheckGrant(r) PROVE TypeOK'
  <2>1. work[r] # None /\ work[r] \in Work
    BY <1>15 DEF CheckGrant, At, TypeOK
  <2>2. CASE Finish(r, "reauthorized", Free)
    BY <1>14, <1>15, <2>1, <2>2 DEF CheckGrant, Finishes, TypeOK
  <2>3. CASE work' = [work EXCEPT ![r].pc = "list"] /\ UNCHANGED <<item, lease, intent>>
    <3>1. work' \in [Replicas -> Work \cup {None}]
      BY <2>1, <2>3 DEF TypeOK, Work
    <3> QED BY <1>15, <2>3, <3>1 DEF CheckGrant, TypeOK
  <2> QED BY <1>15, <2>2, <2>3 DEF CheckGrant
<1>16. ASSUME NEW r \in Replicas, ListTwitch(r) PROVE TypeOK'
  <2>1. work[r] # None /\ work[r] \in Work
    BY <1>16 DEF ListTwitch, At, TypeOK
  <2>2. CASE Finish(r, "dropped", Free)
    BY <1>14, <1>16, <2>1, <2>2 DEF ListTwitch, Finishes, TypeOK
  <2>3. ASSUME NEW S \in SUBSET Sub, UNCHANGED <<item, lease, intent>>,
               work' = [work EXCEPT ![r].pc = "call", ![r].todo = Types, ![r].listed = S]
        PROVE  TypeOK'
    <3>1. work' \in [Replicas -> Work \cup {None}]
      BY <2>1, <2>3 DEF TypeOK, Work
    <3> QED BY <1>16, <2>3, <3>1 DEF ListTwitch, TypeOK
  <2>4. subs \in SUBSET Sub /\ Removable(subs) \in SUBSET Sub
    BY DEF TypeOK, Removable
  <2> QED BY <1>16, <2>2, <2>3, <2>4 DEF ListTwitch
<1>17. ASSUME NEW r \in Replicas, NEW s \in Sub, Delete(r, s) PROVE TypeOK'
  <2>1. work[r] # None /\ work[r] \in Work
    BY <1>17 DEF Delete, MayDelete, At, TypeOK
  <2>2. work' \in [Replicas -> Work \cup {None}]
    BY <1>17, <2>1 DEF Delete, TypeOK, Work
  <2> QED BY <1>17, <2>2 DEF Delete, TypeOK
<1>18. ASSUME NEW r \in Replicas, NEW t \in Types, Found(r, t) \/ Post(r, t)
       PROVE  TypeOK'
  <2>1. work[r] # None /\ work[r] \in Work
    BY <1>18 DEF Found, Post, MayPost, Run, At, TypeOK
  <2>2. work' \in [Replicas -> Work \cup {None}]
    BY <1>18, <2>1 DEF Found, Post, TypeOK, Work
  <2>3. subs' \subseteq Sub
    BY <1>18, SubTypes DEF Found, Post, TypeOK
  <2> QED BY <1>18, <2>2, <2>3 DEF Found, Post, TypeOK
<1>19. ASSUME NEW r \in Replicas, Complete(r) PROVE TypeOK'
  BY <1>14, <1>19 DEF Complete, Finishes, Run, At, TypeOK
<1>20. ASSUME NEW r \in Replicas, Fail(r) PROVE TypeOK'
  BY <1>14, <1>20 DEF Fail, Finishes, TypeOK
<1>21. ASSUME NEW r \in Replicas, Uncertain(r) PROVE TypeOK'
  <2>1. work[r] # None
    BY <1>21 DEF Uncertain, MayDelete, MayPost, Run, At
  <2>2. flight' \in Mutation
    BY <1>21, SubTypes DEF Uncertain, Mutation
  <2> QED BY <1>14, <1>21, <2>1, <2>2 DEF Uncertain, Finishes
<1>22. ASSUME NEW r \in Replicas, Restart(r) PROVE TypeOK'
  <2>1. lease' \in Leases
    BY <1>22, LeaseFacts DEF Restart, TypeOK, Leases
  <2>2. restarts' \in 0..MaxRestarts
    BY <1>22 DEF Restart, TypeOK
  <2> QED BY <1>22, <2>1, <2>2 DEF Restart, TypeOK, Leases
<1>23. CASE Visit
  <2>1. profile' \in [active : BOOLEAN, pending : BOOLEAN, due : BOOLEAN]
    BY <1>23 DEF Visit, TypeOK
  <2> QED BY <1>23, <2>1 DEF Visit, TypeOK
<1> QED
  <2>1. CASE Next
    BY <2>1, <1>2, <1>3, <1>4, <1>5, <1>6, <1>7, <1>8, <1>9, <1>10, <1>11, <1>12, <1>13,
       <1>15, <1>16, <1>17, <1>18, <1>19, <1>20, <1>21, <1>22, <1>23 DEF Next
  <2> QED BY <1>1, <2>1

-----------------------------------------------------------------------------
\* Another deployment holds a subscription of the broadcaster.
Foreign == \E s \in subs : ~Own(s)

\* The lease is with whoever is at work, or was left for what may still land.
Owner(r) == work[r] # None => lease.owner = r

\* What is under way is ours, and creates nothing beside another deployment's.
Flights ==
    flight # None => /\ lease.owner = Left /\ Own(flight.sub)
                     /\ flight.method = "POST" => ~Foreign

\* So is what a run may delete and create.
Worker(r) ==
    work[r] # None =>
        /\ \A s \in work[r].listed : Own(s)
        /\ work[r].pc = "call" /\ work[r].job = "reconcile" => ~Foreign
        /\ work[r].pc = "check" => work[r].job = "remove"

Struct ==
    /\ \A r \in Replicas : Owner(r) /\ Worker(r) /\ Queued(r)
    /\ Flights

\* One run at a time, and nothing under way beside it.
LEMMA Alone ==
    ASSUME TypeOK, Struct, NEW r \in Replicas, work[r] # None
    PROVE  /\ lease.owner = r /\ flight = None
           /\ \A o \in Replicas \ {r} : work[o] = None
  BY Names DEF Struct, Owner, Flights

\* Nobody deletes another deployment's subscription, or makes one for it.
LEMMA ForeignStep ==
    ASSUME TypeOK, Struct, [Next]_vars
    PROVE  Foreign' <=> Foreign
<1>1. ASSUME UNCHANGED subs PROVE Foreign' <=> Foreign
  BY <1>1 DEF Foreign
<1>2. CASE Deauthorize
  <2>1. \A s \in subs : Own(IF s.type \in Scoped THEN [s EXCEPT !.status = "failed"]
                            ELSE s) <=> Own(s)
    BY SubTypes DEF TypeOK, Own
  <2>2. subs' = {IF s.type \in Scoped THEN [s EXCEPT !.status = "failed"] ELSE s
                 : s \in subs}
    BY <1>2 DEF Deauthorize
  <2> QED BY <2>1, <2>2 DEF Foreign
<1>3. ASSUME NEW s, Own(s), subs' = subs \ {s} \/ subs' = subs \cup {s}
      PROVE  Foreign' <=> Foreign
  BY <1>3 DEF Foreign
<1>4. CASE Land
  BY <1>3, <1>4, Names DEF Land, Struct, Flights, TypeOK
<1>5. ASSUME NEW r \in Replicas, NEW s \in Sub, Delete(r, s) PROVE Foreign' <=> Foreign
  BY <1>3, <1>5 DEF Delete, MayDelete, At, Struct, Worker
<1>6. ASSUME NEW r \in Replicas, NEW t \in Types, Post(r, t) PROVE Foreign' <=> Foreign
  BY <1>1, <1>3, <1>6, SubTypes DEF Post
<1> QED
  <2>1. CASE UNCHANGED vars
    BY <1>1, <2>1 DEF vars, twitch
  <2>2. CASE Next
    <3>1. ASSUME NEW r \in Replicas,
                 \/ Deliver(r) \/ SubscribeTwitch(r) \/ Process(r) \/ CheckGrant(r) \/ ListTwitch(r)
                 \/ \E t \in Types : Found(r, t)
                 \/ Complete(r) \/ Fail(r) \/ Uncertain(r) \/ Restart(r)
          PROVE  UNCHANGED subs
      BY <3>1 DEF Deliver, SubscribeTwitch, Process, CheckGrant, ListTwitch, Found, Complete, Fail,
         Uncertain, Restart, twitch
    <3>2. ASSUME SignIn \/ Expire \/ CheckToken \/ Enqueue \/ TouchProfile \/ Visit \/ Welcome
                   \/ FailRequest
          PROVE  UNCHANGED subs
      BY <3>2 DEF SignIn, Expire, CheckToken, Enqueue, TouchProfile, Visit, Welcome, FailRequest,
         twitch
    <3> QED BY <1>1, <1>2, <1>4, <1>5, <1>6, <2>2, <3>1, <3>2 DEF Next
  <2> QED BY <2>1, <2>2

\* A run goes on, with what it read or did.
Moves(r, w) ==
    /\ work[r] # None /\ work' = [work EXCEPT ![r] = w]
    /\ w \in Work /\ w.job = work[r].job
    /\ UNCHANGED <<item, lease, flight, intent, authorized>>

LEMMA MoveSteps ==
    ASSUME TypeOK, NEW r \in Replicas
    PROVE  /\ CheckGrant(r) => Finish(r, "reauthorized", Free) \/
                Moves(r, [work[r] EXCEPT !.pc = "list"])
           /\ ListTwitch(r) => Finish(r, "dropped", Free) \/
                \E S \in {subs, Removable(subs)} :
                   /\ work[r].job = "reconcile" => S = subs /\ ~Foreign
                   /\ work[r].job = "remove" => S = Removable(subs)
                   /\ Moves(r, [work[r] EXCEPT !.pc = "call", !.todo = Types, !.listed = S])
           /\ \A s \in Sub : Delete(r, s) =>
                Moves(r, [work[r] EXCEPT !.listed = @ \ {s}])
           /\ \A t \in Types : Found(r, t) \/ Post(r, t) =>
                Moves(r, [work[r] EXCEPT !.todo = @ \ {t}])
<1>1. work[r] # None => work[r] \in Work
  BY DEF TypeOK
<1>2. CASE work[r] = None
  BY <1>2 DEF CheckGrant, ListTwitch, Delete, MayDelete, Found, Post, MayPost, Run, At
<1>3. CASE work[r] # None
  <2> DEFINE w == work[r]
  <2>1. w \in Work /\ w.job \in {"reconcile", "remove"}
    BY <1>1, <1>3, Names DEF Work
  <2>2. /\ [w EXCEPT !.pc = "list"] \in Work
        /\ \A s \in Sub : [w EXCEPT !.listed = @ \ {s}] \in Work
        /\ \A t \in Types : [w EXCEPT !.todo = @ \ {t}] \in Work
        /\ \A S \in SUBSET Sub :
              [w EXCEPT !.pc = "call", !.todo = Types, !.listed = S] \in Work
    BY <2>1 DEF Work
  <2>3. /\ [w EXCEPT !.pc = "list"].job = w.job
        /\ \A s \in Sub : [w EXCEPT !.listed = @ \ {s}].job = w.job
        /\ \A t \in Types : [w EXCEPT !.todo = @ \ {t}].job = w.job
        /\ \A S \in SUBSET Sub :
              [w EXCEPT !.pc = "call", !.todo = Types, !.listed = S].job = w.job
    BY <2>1 DEF Work
  <2>4. CheckGrant(r) => Finish(r, "reauthorized", Free) \/
                         Moves(r, [w EXCEPT !.pc = "list"])
    BY <1>3, <2>2, <2>3 DEF CheckGrant, Moves, twitch, TypeOK
  <2>5. ListTwitch(r) => Finish(r, "dropped", Free) \/
                \E S \in {subs, Removable(subs)} :
                   /\ w.job = "reconcile" => S = subs /\ ~Foreign
                   /\ w.job = "remove" => S = Removable(subs)
                   /\ Moves(r, [w EXCEPT !.pc = "call", !.todo = Types, !.listed = S])
    <3>1. subs \in SUBSET Sub /\ Removable(subs) \in SUBSET Sub
      BY DEF TypeOK, Removable
    <3>2. ASSUME ListTwitch(r), ~Finish(r, "dropped", Free)
          PROVE  \E S \in {subs, Removable(subs)} :
                   /\ w.job = "reconcile" => S = subs /\ ~Foreign
                   /\ w.job = "remove" => S = Removable(subs)
                   /\ Moves(r, [w EXCEPT !.pc = "call", !.todo = Types, !.listed = S])
      <4>1. /\ w.job = "reconcile" => ~Foreign
            /\ work' = [work EXCEPT ![r].pc = "call", ![r].todo = Types,
                           ![r].listed = IF w.job = "remove"
                                         THEN Removable(subs) ELSE subs]
            /\ UNCHANGED <<item, lease, intent, flight, authorized>>
        BY <3>2 DEF ListTwitch, Foreign, twitch
      <4>2. PICK S \in {subs, Removable(subs)} :
              S = IF w.job = "remove" THEN Removable(subs) ELSE subs
        OBVIOUS
      <4>3. work' = [work EXCEPT ![r] = [w EXCEPT !.pc = "call", !.todo = Types,
                                                  !.listed = S]]
        BY <4>1, <4>2 DEF TypeOK
      <4>4. Moves(r, [w EXCEPT !.pc = "call", !.todo = Types, !.listed = S])
        BY <1>3, <2>2, <2>3, <3>1, <4>1, <4>2, <4>3 DEF Moves
      <4> QED BY <2>1, <4>1, <4>2, <4>4
    <3> QED BY <3>2
  <2>6. \A s \in Sub : Delete(r, s) => Moves(r, [w EXCEPT !.listed = @ \ {s}])
    BY <1>3, <2>2, <2>3 DEF Delete, Moves, TypeOK
  <2>7. \A t \in Types : Found(r, t) \/ Post(r, t) => Moves(r, [w EXCEPT !.todo = @ \ {t}])
    BY <1>3, <2>2, <2>3 DEF Found, Post, Moves, twitch, TypeOK
  <2> QED BY <2>4, <2>5, <2>6, <2>7
<1> QED BY <1>2, <1>3

\* The lease, the queue and the runs fit together after every step.
LEMMA StructStep ==
    ASSUME TypeOK, Struct, [Next]_vars
    PROVE  Struct'
<1> USE Names
<1>f. Foreign' <=> Foreign
  BY ForeignStep
<1>l. lease \in Leases
  BY DEF TypeOK, Leases
\* Steps of requests and of the broadcaster.
<1>1. ASSUME UNCHANGED <<work, item, flight>>,
             lease' = lease \/ lease.owner \in {"request", None}
      PROVE  Struct'
  <2>1. \A r \in Replicas : (Owner(r) /\ Worker(r) /\ Queued(r))'
    BY <1>1, <1>f DEF Struct, Owner, Worker, Queued
  <2>2. Flights'
    BY <1>1, <1>f DEF Struct, Flights
  <2> QED BY <2>1, <2>2 DEF Struct
\* An intent enters a queue.
<1>2. ASSUME NEW r \in Replicas, NEW j \in Jobs, UNCHANGED <<work, flight, lease>>,
             item' = [item EXCEPT ![r] = Enqueued(@, j)]
      PROVE  Struct'
  <2>1. ASSUME NEW o \in Replicas PROVE (Owner(o) /\ Worker(o))'
    BY <1>2, <1>f DEF Struct, Owner, Worker
  <2>2. ASSUME NEW o \in Replicas \ {r} PROVE Queued(o)'
    <3>1. item'[o] = item[o]
      BY <1>2 DEF TypeOK
    <3> QED BY <1>2, <3>1 DEF Struct, Queued
  <2>3. Queued(r)'
    <3> DEFINE i == item[r]
               n == Enqueued(i, j)
    <3>1. i \in Item \cup {None} /\ item'[r] = n /\ work'[r] = work[r]
      BY <1>2 DEF TypeOK
    <3>2. /\ n \in Item /\ n.job = j
          /\ n.reconcile <=> j = "reconcile" \/ (i # None /\ i.reconcile)
          /\ n.running <=> i # None /\ i.running
          /\ n.changed => i # None /\ (i.changed \/ i.running)
          /\ i # None /\ i.changed /\ i.running => n.changed
          /\ i # None /\ i.running /\ ~(i.job = "reconcile" /\ j = "reconcile") => n.changed
      BY <3>1, EnqueuedFacts
    <3>3. /\ work[r] # None <=> i # None /\ i.running
          /\ i # None => (i.changed => i.running)
          /\ work[r] # None =>
               /\ work[r].job = "reconcile" => i.reconcile
               /\ work[r].job # i.job => i.changed
      BY DEF Struct, Queued
    <3>4. n # None
      BY <3>2
    <3> HIDE DEF i, n
    <3>5. /\ work[r] # None <=> n.running
          /\ n.changed => n.running
          /\ n.job = "reconcile" => n.reconcile
          /\ work[r] # None =>
               /\ work[r].job = "reconcile" => n.reconcile
               /\ work[r].job # n.job => n.changed
      BY <3>2, <3>3
    <3> QED BY <3>1, <3>4, <3>5 DEF Queued
  <2>4. Flights'
    BY <1>2, <1>f DEF Struct, Flights
  <2> QED BY <2>1, <2>2, <2>3, <2>4 DEF Struct
\* A run is over.
<1>3. ASSUME NEW r \in Replicas, work[r] # None,
             NEW outcome \in {"retry", "dropped", "complete", "reauthorized"},
             NEW to \in {Free, Abandoned}, Finish(r, outcome, to),
             flight' # None =>
                 /\ to = Abandoned /\ Own(flight'.sub)
                 /\ flight'.method = "POST" => ~Foreign
      PROVE  Struct'
  <2>1. lease.owner = r /\ flight = None /\ \A o \in Replicas \ {r} : work[o] = None
    BY <1>3, Alone
  <2>2. item[r] # None /\ item[r] \in Item
    BY <1>3 DEF Struct, Queued, TypeOK
  <2>3. /\ item'[r] = After(item[r], outcome)
        /\ work'[r] = None
        /\ \A o \in Replicas \ {r} : item'[o] = item[o] /\ work'[o] = work[o]
        /\ lease' = to
    BY <1>3, <2>1, <2>2, FinishFacts
  <2>4. \A o \in Replicas : work'[o] = None
    BY <2>1, <2>3
  <2>5. \A o \in Replicas : (Owner(o) /\ Worker(o))'
    BY <2>4 DEF Owner, Worker
  <2>6. ASSUME NEW o \in Replicas \ {r} PROVE Queued(o)'
    BY <2>3, <2>6 DEF Struct, Queued
  <2>7. Queued(r)'
    <3>1. item'[r] # None =>
                /\ ~item'[r].running /\ ~item'[r].changed
                /\ item'[r].reconcile = item[r].reconcile
                /\ item'[r].job = "reconcile" => item[r].job = "reconcile" \/ item[r].reconcile
      BY <2>2, <2>3, AfterFacts
    <3>2. item[r].job = "reconcile" => item[r].reconcile
      BY <2>2 DEF Struct, Queued
    <3> QED BY <2>4, <3>1, <3>2 DEF Queued
  <2>8. Flights'
    BY <1>3, <1>f, <1>l, <2>3, LeaseFacts DEF Flights
  <2> QED BY <2>5, <2>6, <2>7, <2>8 DEF Struct
\* A run goes on.
<1>4. ASSUME NEW r \in Replicas, NEW w, Moves(r, w),
             \A s \in w.listed : Own(s),
             w.pc = "call" /\ w.job = "reconcile" => ~Foreign,
             w.pc = "check" => work[r].pc = "check"
      PROVE  Struct'
  <2>1. /\ work'[r] = w /\ w # None /\ work[r] # None /\ w.job = work[r].job
        /\ \A o \in Replicas \ {r} : work'[o] = work[o]
    BY <1>4 DEF Moves, TypeOK
  <2>2. UNCHANGED <<item, lease, flight>>
    BY <1>4 DEF Moves
  <2>3. ASSUME NEW o \in Replicas \ {r} PROVE (Owner(o) /\ Worker(o) /\ Queued(o))'
    BY <1>f, <2>1, <2>2, <2>3 DEF Struct, Owner, Worker, Queued
  <2>4. (Owner(r) /\ Queued(r))'
    BY <2>1, <2>2 DEF Struct, Owner, Queued
  <2>5. Worker(r)'
    BY <1>4, <1>f, <2>1 DEF Struct, Worker
  <2>6. Flights'
    BY <1>f, <2>2 DEF Struct, Flights
  <2> QED BY <2>3, <2>4, <2>5, <2>6 DEF Struct
<1>5. CASE Land \/ Expire
  <2>1. /\ flight' = None /\ UNCHANGED <<work, item>>
        /\ lease' = lease \/ lease.owner = Left
    BY <1>5 DEF Land, Expire, queue
  <2>2. \A r \in Replicas : (Owner(r) /\ Worker(r) /\ Queued(r))'
    BY <1>f, <2>1 DEF Struct, Owner, Worker, Queued
  <2>3. Flights'
    BY <2>1 DEF Flights
  <2> QED BY <2>2, <2>3 DEF Struct
<1>6. CASE CheckToken \/ TouchProfile \/ Visit \/ Welcome \/ FailRequest
  <2>1. UNCHANGED <<work, item, flight>>
    BY <1>6 DEF CheckToken, TouchProfile, Visit, Welcome, FailRequest, twitch, queue
  <2>2. lease' = lease \/ lease.owner = "request"
    BY <1>6 DEF CheckToken, TouchProfile, Visit, Welcome, FailRequest, Answer
  <2> QED BY <1>1, <2>1, <2>2
<1>7. CASE Enqueue
  <2>1. req.at \in Replicas
    BY <1>7 DEF Enqueue, TypeOK, Request
  <2>2. CASE item' = [item EXCEPT ![req.at] = Enqueued(@, "reconcile")]
    BY <1>2, <1>7, <2>1, <2>2 DEF Enqueue, twitch
  <2>3. CASE UNCHANGED item
    BY <1>1, <1>7, <2>3 DEF Enqueue, twitch
  <2> QED BY <1>7, <2>2, <2>3 DEF Enqueue
<1>8. ASSUME NEW r \in Replicas, Process(r) PROVE Struct'
  <2>1. /\ item[r] # None /\ work[r] = None /\ lease.owner = None
        /\ flight' = flight /\ item[r] \in Item /\ item[r].job \in Jobs
    BY <1>8, LeaseFacts DEF Process, twitch, TypeOK, Item
  <2>2. /\ lease'.owner = r
        /\ work'[r] # None /\ work'[r].job = item[r].job
        /\ work'[r].listed = {} /\ work'[r].pc # "call"
        /\ work'[r].pc = "check" => item[r].job = "remove"
        /\ item'[r] # None /\ item'[r].running
        /\ item'[r].changed = item[r].changed /\ item'[r].job = item[r].job
        /\ item'[r].reconcile = item[r].reconcile
        /\ \A o \in Replicas \ {r} : item'[o] = item[o] /\ work'[o] = work[o]
    <3>1. /\ work' = [work EXCEPT ![r] =
                  [pc |-> IF item[r].job = "remove" THEN "check" ELSE "list",
                   job |-> item[r].job, listed |-> {}, todo |-> {}]]
          /\ item' = [item EXCEPT ![r].running = TRUE]
          /\ lease'.owner = r
      BY <1>8 DEF Process
    <3>2. [pc |-> IF item[r].job = "remove" THEN "check" ELSE "list",
           job |-> item[r].job, listed |-> {}, todo |-> {}] \in Work
      BY <2>1 DEF Work
    <3>3. [item[r] EXCEPT !.running = TRUE] \in Item
      BY <2>1 DEF Item
    <3> QED BY <2>1, <3>1, <3>2, <3>3 DEF TypeOK, Item
  <2>3. \A o \in Replicas : work[o] = None
    BY <2>1 DEF Struct, Owner
  <2>4. flight = None
    BY <2>1 DEF Struct, Flights
  <2>5. ASSUME NEW o \in Replicas \ {r} PROVE (Owner(o) /\ Worker(o) /\ Queued(o))'
    BY <2>2, <2>3, <2>5 DEF Struct, Owner, Worker, Queued
  <2>6. (Owner(r) /\ Worker(r) /\ Queued(r))'
    BY <2>1, <2>2 DEF Struct, Owner, Worker, Queued
  <2>7. Flights'
    BY <2>1, <2>4 DEF Flights
  <2> QED BY <2>5, <2>6, <2>7 DEF Struct
<1>9. ASSUME NEW r \in Replicas, CheckGrant(r) \/ ListTwitch(r) PROVE Struct'
  <2>1. work[r] # None /\ work[r] \in Work /\ flight' = flight
    BY <1>9 DEF CheckGrant, ListTwitch, At, TypeOK, twitch
  <2>2. flight = None
    BY <2>1, Alone
  <2>3. ASSUME NEW outcome \in {"dropped", "reauthorized"}, Finish(r, outcome, Free)
        PROVE  Struct'
    BY <1>3, <2>1, <2>2, <2>3
  <2>4. CASE Moves(r, [work[r] EXCEPT !.pc = "list"])
    <3>1. /\ [work[r] EXCEPT !.pc = "list"].listed = work[r].listed
          /\ [work[r] EXCEPT !.pc = "list"].pc = "list"
      BY <2>1 DEF Work
    <3> QED BY <1>4, <2>1, <2>4, <3>1 DEF Struct, Worker
  <2>5. ASSUME NEW S \in {subs, Removable(subs)},
               work[r].job = "reconcile" => S = subs /\ ~Foreign,
               work[r].job = "remove" => S = Removable(subs),
               Moves(r, [work[r] EXCEPT !.pc = "call", !.todo = Types, !.listed = S])
        PROVE  Struct'
    <3> DEFINE w == [work[r] EXCEPT !.pc = "call", !.todo = Types, !.listed = S]
    <3>1. w.listed = S /\ w.pc = "call" /\ w.job = work[r].job
          /\ work[r].job \in Jobs
      BY <2>1 DEF Work
    <3>2. \A s \in S : Own(s)
      BY <2>5, <3>1 DEF Foreign, Removable
    <3> HIDE DEF w
    <3> QED BY <1>4, <2>5, <3>1, <3>2 DEF w
  <2> QED BY <1>9, <2>3, <2>4, <2>5, MoveSteps
<1>10. ASSUME NEW r \in Replicas, NEW s \in Sub, Delete(r, s) PROVE Struct'
  <2>1. work[r] # None /\ work[r] \in Work
    BY <1>10 DEF Delete, MayDelete, At, TypeOK
  <2> DEFINE w == [work[r] EXCEPT !.listed = @ \ {s}]
  <2>2. w.listed \subseteq work[r].listed /\ w.pc = work[r].pc /\ w.job = work[r].job
    BY <2>1 DEF Work
  <2>3. Moves(r, w)
    BY <1>10, MoveSteps
  <2> HIDE DEF w
  <2> QED BY <1>4, <2>1, <2>2, <2>3 DEF Struct, Worker
<1>11. ASSUME NEW r \in Replicas, NEW t \in Types, Found(r, t) \/ Post(r, t)
       PROVE  Struct'
  <2>1. work[r] # None /\ work[r] \in Work
    BY <1>11 DEF Found, Post, MayPost, Run, At, TypeOK
  <2> DEFINE w == [work[r] EXCEPT !.todo = @ \ {t}]
  <2>2. w.listed = work[r].listed /\ w.pc = work[r].pc /\ w.job = work[r].job
    BY <2>1 DEF Work
  <2>3. Moves(r, w)
    BY <1>11, MoveSteps
  <2> HIDE DEF w
  <2> QED BY <1>4, <2>1, <2>2, <2>3 DEF Struct, Worker
<1>12. ASSUME NEW r \in Replicas, Complete(r) \/ Fail(r) PROVE Struct'
  <2>1. work[r] # None /\ flight' = flight
    BY <1>12 DEF Complete, Run, At, Fail, twitch
  <2>2. flight = None
    BY <2>1, Alone
  <2> QED BY <1>3, <1>12, <2>1, <2>2 DEF Complete, Fail
<1>13. ASSUME NEW r \in Replicas, Uncertain(r) PROVE Struct'
  <2>1. work[r] # None
    BY <1>13 DEF Uncertain, MayDelete, MayPost, Run, At
  <2>2. Finish(r, "retry", Abandoned)
    BY <1>13 DEF Uncertain
  <2>3. CASE \E s \in Sub : MayDelete(r, s) /\ flight' = [method |-> "DELETE", sub |-> s]
    <3>1. Own(flight'.sub) /\ flight'.method = "DELETE"
      BY <2>3 DEF MayDelete, At, Struct, Worker
    <3> QED BY <1>3, <2>1, <2>2, <3>1
  <2>4. CASE \E t \in Types : MayPost(r, t) /\ flight' = [method |-> "POST", sub |-> New(t)]
    <3>1. Own(flight'.sub) /\ ~Foreign
      BY <2>4, SubTypes DEF MayPost, Run, At, Struct, Worker
    <3> QED BY <1>3, <2>1, <2>2, <3>1
  <2> QED BY <1>13, <2>3, <2>4 DEF Uncertain
<1>14. ASSUME NEW r \in Replicas, Restart(r) PROVE Struct'
  <2>1. /\ item'[r] = None /\ work'[r] = None /\ flight' = flight
        /\ \A o \in Replicas \ {r} : item'[o] = item[o] /\ work'[o] = work[o]
        /\ lease' = lease \/ (lease.owner \in {r, "request"} /\ lease'.owner = Left)
    BY <1>14, <1>l, LeaseFacts DEF Restart, TypeOK, twitch
  <2>2. ASSUME NEW o \in Replicas \ {r} PROVE (Owner(o) /\ Worker(o) /\ Queued(o))'
    BY <1>f, <2>1, <2>2 DEF Struct, Owner, Worker, Queued
  <2>3. (Owner(r) /\ Worker(r) /\ Queued(r))'
    BY <2>1 DEF Owner, Worker, Queued
  <2>4. Flights'
    BY <1>f, <2>1 DEF Struct, Flights
  <2> QED BY <2>2, <2>3, <2>4 DEF Struct
<1>15. CASE Deauthorize \/ SignIn \/ UNCHANGED vars
  BY <1>1, <1>15 DEF Deauthorize, SignIn, vars, twitch, queue
<1>16. ASSUME NEW r \in Replicas, Deliver(r) PROVE Struct'
  BY <1>2, <1>16 DEF Deliver
<1>17. ASSUME NEW r \in Replicas, SubscribeTwitch(r) PROVE Struct'
  BY <1>1, <1>17, LeaseFacts DEF SubscribeTwitch, twitch, queue
<1> QED
  <2>1. CASE Next
    BY <2>1, <1>5, <1>6, <1>7, <1>8, <1>9, <1>10, <1>11, <1>12, <1>13, <1>14, <1>15,
       <1>16, <1>17 DEF Next
  <2> QED BY <1>15, <2>1

-----------------------------------------------------------------------------
\* An item that is still to run after whatever runs now.
Waiting(r) ==
    item[r] # None /\ (item[r].running => item[r].changed \/ work[r].pc = "check")

\* It will be served: a reconcile is queued behind any other run, or one is at
\* work and every type it has done, or found, is live.
Serving(r) ==
    \/ Waiting(r) /\ item[r].reconcile
    \/ /\ work[r] # None /\ work[r].job = "reconcile"
       /\ work[r].pc = "call" =>
             \A t \in Types : t \notin work[r].todo \/ Live(work[r].listed, t) => Live(subs, t)

\* A live subscription is being removed.
Removing ==
    \/ \E r \in Replicas : work[r] # None /\ work[r].job = "remove" /\ work[r].pc # "check"
    \/ flight # None /\ flight.method = "DELETE" /\ flight.sub.status = "enabled"

AllServed == (\A t \in Types : Live(subs, t)) /\ ~Removing

ServeInv ==
    intent = "serve" =>
        authorized /\ (Foreign \/ (\E r \in Replicas : Serving(r)) \/ AllServed)

\* It will be removed: by a queued removal, or by one at work that has all it
\* has to delete.
Clearing(r) ==
    \/ Waiting(r) /\ item[r].job = "remove"
    \/ /\ work[r] # None /\ work[r].job = "remove" /\ work[r].pc # "check"
       /\ work[r].pc = "call" => \A s \in subs : Own(s) => s \in work[r].listed

\* A subscription is being created.
Creating ==
    \/ \E r \in Replicas : work[r] # None /\ work[r].job = "reconcile"
    \/ flight # None /\ flight.method = "POST"

Cleared == (\A s \in subs : ~Own(s)) /\ ~Creating

RemoveInv ==
    intent = "remove" =>
        /\ ~authorized
        /\ \A r \in Replicas : item[r] # None => item[r].job = "remove"
        /\ (\E r \in Replicas : Clearing(r)) \/ Cleared

\* An item that waits goes on waiting when an intent joins it.
LEMMA QueueStep ==
    ASSUME TypeOK, Struct, NEW r \in Replicas, NEW j \in Jobs, UNCHANGED work,
           item' = [item EXCEPT ![r] = Enqueued(@, j)]
    PROVE  /\ \A q \in Replicas : Waiting(q) => Waiting(q)'
           /\ \A q \in Replicas : item[q] # None /\ item[q].reconcile => item'[q].reconcile
           /\ item'[r] # None /\ item'[r].job = j
           /\ item'[r].reconcile <=> j = "reconcile" \/ (item[r] # None /\ item[r].reconcile)
           /\ \A q \in Replicas \ {r} : item'[q] = item[q]
           /\ ~(item[r] # None /\ item[r].running /\ item[r].job = "reconcile"
                /\ j = "reconcile") => Waiting(r)'
<1> DEFINE i == item[r]
           n == Enqueued(i, j)
<1>1. i \in Item \cup {None} /\ item'[r] = n
  BY DEF TypeOK
<1>2. \A q \in Replicas \ {r} : item'[q] = item[q]
  BY DEF TypeOK
<1>3. /\ n \in Item /\ n.job = j
      /\ n.reconcile <=> j = "reconcile" \/ (i # None /\ i.reconcile)
      /\ n.running <=> i # None /\ i.running
      /\ i # None /\ i.changed /\ i.running => n.changed
      /\ i # None /\ i.running /\ ~(i.job = "reconcile" /\ j = "reconcile") => n.changed
  BY <1>1, EnqueuedFacts
<1>4. n # None
  BY <1>3, Names
<1> HIDE DEF n
<1>5. Waiting(r) => Waiting(r)'
  BY <1>1, <1>3, <1>4 DEF Waiting
<1>6. ASSUME NEW q \in Replicas \ {r} PROVE Waiting(q) => Waiting(q)'
  BY <1>2 DEF Waiting
<1>7. ~(i # None /\ i.running /\ i.job = "reconcile" /\ j = "reconcile") => Waiting(r)'
  BY <1>1, <1>3, <1>4 DEF Waiting
<1> QED BY <1>1, <1>2, <1>3, <1>4, <1>5, <1>6, <1>7

\* What waits behind a run waits when the run is over.
LEMMA FinishStep ==
    ASSUME TypeOK, Struct, NEW r \in Replicas, work[r] # None,
           NEW outcome \in {"retry", "dropped", "complete", "reauthorized"},
           NEW to \in {Free, Abandoned}, Finish(r, outcome, to)
    PROVE  /\ \A q \in Replicas : work'[q] = None
           /\ \A q \in Replicas \ {r} : item'[q] = item[q] /\ (Waiting(q) => Waiting(q)')
           /\ item[r] # None
           /\ item'[r] # None => Waiting(r)' /\ item'[r].reconcile = item[r].reconcile
           /\ item[r].changed \/ outcome = "retry" => item'[r] # None
           /\ outcome = "reauthorized" /\ item[r].reconcile => item'[r] # None
           /\ outcome # "reauthorized" /\ item'[r] # None => item'[r].job = item[r].job
<1>1. lease.owner = r /\ flight = None /\ \A o \in Replicas \ {r} : work[o] = None
  BY Alone
<1>2. item[r] # None /\ item[r] \in Item
  BY DEF Struct, Queued, TypeOK
<1>3. /\ item'[r] = After(item[r], outcome)
      /\ work'[r] = None
      /\ \A o \in Replicas \ {r} : item'[o] = item[o] /\ work'[o] = work[o]
  BY <1>2, FinishFacts
<1>4. /\ item'[r] # None =>
           /\ ~item'[r].running /\ item'[r].reconcile = item[r].reconcile
      /\ item[r].changed \/ outcome = "retry" => item'[r] # None
      /\ outcome = "reauthorized" /\ item[r].reconcile => item'[r] # None
      /\ outcome # "reauthorized" /\ item'[r] # None => item'[r].job = item[r].job
  BY <1>2, <1>3, AfterFacts
<1>5. \A q \in Replicas \ {r} : Waiting(q) => Waiting(q)'
  BY <1>3 DEF Waiting
<1> QED BY <1>1, <1>2, <1>3, <1>4, <1>5 DEF Waiting

\* Only failed subscriptions are lost, so what is live stays live.
LEMMA LiveStep ==
    ASSUME TypeOK, NEW t \in Types, Live(subs, t),
           \/ subs' = subs
           \/ \E s \in Sub : subs' = subs \cup {s}
           \/ \E s \in Sub : s.status = "failed" /\ subs' = subs \ {s}
    PROVE  Live(subs', t)
  BY DEF Live

\* Whatever runs, a subscribe that was the latest intent is served in the end.
LEMMA ServeStep ==
    ASSUME TypeOK, Struct, ServeInv, [Next]_vars
    PROVE  ServeInv'
<1> USE Names
<1> SUFFICES ASSUME intent' = "serve"
             PROVE  authorized' /\ (Foreign \/ (\E r \in Replicas : Serving(r)) \/ AllServed)'
  BY DEF ServeInv
<1>f. Foreign' <=> Foreign
  BY ForeignStep
<1> DEFINE Goal == authorized' /\ (Foreign \/ (\E r \in Replicas : Serving(r)) \/ AllServed)'
<1>0. /\ intent = "serve" => authorized
      /\ intent = "serve" /\ ~Foreign => (\E r \in Replicas : Serving(r)) \/ AllServed
  BY DEF ServeInv
\* Steps that leave the queues, the runs and Twitch alone.
<1>1. ASSUME UNCHANGED <<item, work, subs, authorized, intent>>, flight' \in {flight, None}
      PROVE  Goal
  <2>1. \A r \in Replicas : Serving(r) => Serving(r)'
    BY <1>1 DEF Serving, Waiting
  <2>2. AllServed => AllServed'
    BY <1>1 DEF AllServed, Removing
  <2> QED BY <1>0, <1>1, <1>f, <2>1, <2>2
<1>2. CASE Deauthorize \/ SignIn \/ \E r \in Replicas : Restart(r)
  BY <1>2 DEF Deauthorize, SignIn, Restart
<1>3. CASE CheckToken \/ TouchProfile \/ Visit \/ Welcome \/ FailRequest \/ Expire \/ UNCHANGED vars
  BY <1>1, <1>3 DEF CheckToken, TouchProfile, Visit, Welcome, FailRequest, Expire, vars, twitch, queue
<1>4. ASSUME NEW r \in Replicas, SubscribeTwitch(r) PROVE Goal
  BY <1>1, <1>4 DEF SubscribeTwitch, twitch, queue
<1>5. ASSUME NEW r \in Replicas, NEW j \in Jobs, UNCHANGED <<work, subs, flight, authorized>>,
             item' = [item EXCEPT ![r] = Enqueued(@, j)], intent = "serve"
      PROVE  Goal
  <2>1. \A q \in Replicas : Serving(q) => Serving(q)'
    <3>1. \A q \in Replicas : Waiting(q) => Waiting(q)' /\ item[q] # None
      BY <1>5, QueueStep DEF Waiting
    <3>2. \A q \in Replicas : item[q] # None /\ item[q].reconcile => item'[q].reconcile
      BY <1>5, QueueStep
    <3> QED BY <1>5, <3>1, <3>2 DEF Serving
  <2>2. AllServed => AllServed'
    BY <1>5 DEF AllServed, Removing
  <2> QED BY <1>0, <1>5, <1>f, <2>1, <2>2
<1>6. CASE Enqueue
  <2>1. req.at \in Replicas
    BY <1>6 DEF Enqueue, TypeOK, Request
  <2>2. UNCHANGED <<work, subs, flight, authorized>>
    BY <1>6 DEF Enqueue, twitch
  <2>3. CASE UNCHANGED <<item, intent>>
    BY <1>1, <2>2, <2>3
  <2>4. CASE /\ item' = [item EXCEPT ![req.at] = Enqueued(@, "reconcile")]
             /\ intent' = IF ~authorized THEN "none"
                       ELSE IF item[req.at] # None /\ item[req.at].running
                               /\ item[req.at].job = "reconcile" THEN intent
                       ELSE "serve"
    <3>1. authorized /\ authorized'
      BY <2>2, <2>4
    <3>2. CASE item[req.at] # None /\ item[req.at].running /\ item[req.at].job = "reconcile"
      BY <1>5, <2>1, <2>2, <2>4, <3>1, <3>2
    <3>3. CASE ~(item[req.at] # None /\ item[req.at].running
                 /\ item[req.at].job = "reconcile")
      <4>1. PICK r \in Replicas : r = req.at
        BY <2>1
      <4>2. Waiting(r)' /\ item'[r].reconcile
        BY <2>2, <2>4, <3>3, <4>1, QueueStep
      <4> QED BY <3>1, <4>2 DEF Serving
    <3> QED BY <3>2, <3>3
  <2> QED BY <1>6, <2>3, <2>4 DEF Enqueue
<1>7. ASSUME NEW r \in Replicas, Deliver(r) PROVE Goal
  BY <1>5, <1>7 DEF Deliver
<1>8. ASSUME NEW r \in Replicas, Process(r) PROVE Goal
  <2>1. /\ item[r] # None /\ item[r] \in Item /\ item[r].job \in Jobs /\ work[r] = None
        /\ UNCHANGED <<subs, flight, authorized, intent>>
    BY <1>8 DEF Process, twitch, TypeOK, Item
  <2>2. [pc |-> IF item[r].job = "remove" THEN "check" ELSE "list",
         job |-> item[r].job, listed |-> {}, todo |-> {}] \in Work
    BY <2>1 DEF Work
  <2>3. /\ work'[r] # None /\ work'[r].job = item[r].job
        /\ work'[r].pc = IF item[r].job = "remove" THEN "check" ELSE "list"
        /\ item'[r] # None /\ item'[r].reconcile = item[r].reconcile
        /\ \A o \in Replicas \ {r} : item'[o] = item[o] /\ work'[o] = work[o]
    <3>1. [item[r] EXCEPT !.running = TRUE] \in Item
      BY <2>1 DEF Item
    <3> QED BY <1>8, <2>1, <2>2, <3>1 DEF Process, TypeOK, Item
  <2>4. \A q \in Replicas \ {r} : Serving(q) => Serving(q)'
    BY <2>1, <2>3 DEF Serving, Waiting
  <2>5. Serving(r) => Serving(r)'
    BY <2>1, <2>3 DEF Serving, Waiting
  <2>6. AllServed => AllServed'
    BY <2>1, <2>3 DEF AllServed, Removing
  <2> QED BY <1>0, <1>f, <2>1, <2>4, <2>5, <2>6
\* A run is over: what it was for is done, or still queued.
<1>9. ASSUME NEW r \in Replicas, work[r] # None,
             NEW outcome \in {"retry", "dropped", "complete", "reauthorized"},
             NEW to \in {Free, Abandoned}, Finish(r, outcome, to),
             UNCHANGED <<subs, authorized>>,
             outcome = "reauthorized" => work[r].pc = "check",
             outcome = "complete" => work[r].pc = "call"
                                     /\ (work[r].job = "reconcile" => work[r].todo = {}),
             flight' = None \/ outcome = "retry",
             ~(flight' # None /\ flight'.method = "DELETE" /\ flight'.sub.status = "enabled")
                \/ (work[r].job = "remove" /\ work[r].pc # "check")
      PROVE  Goal
  <2>1. intent = "serve" /\ authorized' /\ outcome # "dropped"
    BY <1>0, <1>9 DEF Finish
  <2>2. CASE \E q \in Replicas : Serving(q)
    <3>1. PICK q \in Replicas : Serving(q)
      BY <2>2
    <3>2. CASE q # r
      <4>1. work[q] = None
        BY <1>9, <3>2, Alone
      <4>2. Waiting(q) /\ item[q].reconcile
        BY <3>1, <4>1 DEF Serving
      <4>3. Waiting(q)' /\ item'[q].reconcile
        BY <1>9, <3>2, <4>2, FinishStep
      <4> QED BY <2>1, <4>3 DEF Serving
    <3>3. CASE q = r /\ item'[r] # None
      <4>1. item[r].reconcile
        BY <3>1, <3>3 DEF Serving, Struct, Queued
      <4>2. Waiting(r)' /\ item'[r].reconcile
        BY <1>9, <3>3, <4>1, FinishStep
      <4> QED BY <2>1, <4>2 DEF Serving
    <3>4. CASE q = r /\ item'[r] = None
      <4>1. outcome # "retry" /\ ~item[r].changed /\ item[r] # None
        BY <1>9, <3>4, FinishStep
      <4>2. ~(outcome = "reauthorized" /\ item[r].reconcile)
        BY <1>9, <3>4, FinishStep
      <4>3. item[r].running /\ item[r].reconcile
        BY <1>9, <3>1, <3>4 DEF Struct, Queued, Serving
      <4>4. outcome = "complete" /\ work[r].pc = "call"
        BY <1>9, <2>1, <4>1, <4>2, <4>3
      <4>5. work[r].job = "reconcile" /\ \A t \in Types : Live(subs, t)
        BY <1>9, <3>1, <3>4, <4>1, <4>3, <4>4 DEF Serving, Waiting
      <4>6. flight' = None /\ \A o \in Replicas : work'[o] = None
        BY <1>9, <4>1, FinishStep
      <4> QED BY <1>9, <2>1, <4>5, <4>6 DEF AllServed, Removing
    <3> QED BY <3>2, <3>3, <3>4
  <2>3. CASE AllServed
    <3>1. \A o \in Replicas : work'[o] = None
      BY <1>9, FinishStep
    <3>2. AllServed'
      BY <1>9, <2>3, <3>1 DEF AllServed, Removing
    <3> QED BY <2>1, <3>2
  <2> QED BY <1>0, <1>f, <2>1, <2>2, <2>3
\* A run goes on, and takes nothing that is live away.
<1>10. ASSUME NEW r \in Replicas, NEW w, Moves(r, w), work[r].pc # "check", w.pc # "check",
              work[r].job = "reconcile" =>
                 /\ \A t \in Types : Live(subs, t) => Live(subs', t)
                 /\ w.pc = "call" => \A t \in Types :
                      t \notin w.todo \/ Live(w.listed, t) =>
                         \/ Live(subs', t)
                         \/ work[r].pc = "call"
                            /\ (t \notin work[r].todo \/ Live(work[r].listed, t))
       PROVE  Goal
  <2>1. /\ work'[r] = w /\ w # None /\ work[r] # None /\ w.job = work[r].job
        /\ \A o \in Replicas \ {r} : work'[o] = work[o]
        /\ UNCHANGED <<item, intent, flight, authorized>>
        /\ work[r].job \in {"reconcile", "remove"}
    BY <1>10 DEF Moves, TypeOK, Work
  <2>2. flight = None /\ \A o \in Replicas \ {r} : work[o] = None
    BY <2>1, Alone
  <2>3. \A q \in Replicas \ {r} : Serving(q) => Serving(q)'
    BY <2>1, <2>2 DEF Serving, Waiting
  <2>4. Serving(r) => Serving(r)'
    <3>1. Waiting(r) => Waiting(r)'
      BY <1>10, <2>1 DEF Waiting
    <3>2. CASE Waiting(r) /\ item[r].reconcile
      BY <2>1, <3>1, <3>2 DEF Serving
    <3>3. CASE /\ work[r].job = "reconcile"
               /\ work[r].pc = "call" =>
                    \A t \in Types : t \notin work[r].todo \/ Live(work[r].listed, t) =>
                                        Live(subs, t)
      <4>1. w.pc = "call" => \A t \in Types : t \notin w.todo \/ Live(w.listed, t) =>
                                                Live(subs', t)
        BY <1>10, <3>3
      <4> QED BY <2>1, <3>3, <4>1 DEF Serving
    <3> QED BY <3>2, <3>3 DEF Serving
  <2>5. AllServed => AllServed'
    <3>1. ASSUME AllServed PROVE AllServed'
      <4>1. work[r].job = "reconcile"
        BY <1>10, <2>1, <3>1 DEF AllServed, Removing
      <4>2. ~Removing'
        BY <2>1, <2>2, <4>1 DEF Removing
      <4> QED BY <1>10, <3>1, <4>1, <4>2 DEF AllServed
    <3> QED BY <3>1
  <2> QED BY <1>0, <1>f, <2>1, <2>3, <2>4, <2>5
<1>11. ASSUME NEW r \in Replicas, CheckGrant(r) PROVE Goal
  <2>1. work[r] # None /\ work[r].pc = "check" /\ UNCHANGED <<subs, authorized, flight>>
    BY <1>11 DEF CheckGrant, At, twitch
  <2>2. flight' = None
    BY <2>1, Alone
  <2>3. CASE Finish(r, "reauthorized", Free)
    BY <1>9, <2>1, <2>2, <2>3
  <2>4. CASE ~authorized /\ UNCHANGED intent
    BY <1>0, <2>4
  <2> QED BY <1>11, <2>3, <2>4 DEF CheckGrant, Reauthorized
<1>12. ASSUME NEW r \in Replicas, ListTwitch(r) PROVE Goal
  <2>1. work[r] # None /\ work[r].pc = "list" /\ UNCHANGED subs /\ work[r] \in Work
    BY <1>12 DEF ListTwitch, At, twitch, TypeOK
  <2>2. CASE Finish(r, "dropped", Free)
    BY <2>2 DEF Finish
  <2>3. ASSUME NEW S \in {subs, Removable(subs)},
               work[r].job = "reconcile" => S = subs /\ ~Foreign,
               Moves(r, [work[r] EXCEPT !.pc = "call", !.todo = Types, !.listed = S])
        PROVE  Goal
    <3> DEFINE w == [work[r] EXCEPT !.pc = "call", !.todo = Types, !.listed = S]
    <3>1. w.listed = S /\ w.pc = "call" /\ w.todo = Types
      BY <2>1 DEF Work
    <3>2. Moves(r, w)
      BY <2>3
    <3>3. work[r].job = "reconcile" =>
                 /\ \A t \in Types : Live(subs, t) => Live(subs', t)
                 /\ \A t \in Types : t \notin w.todo \/ Live(w.listed, t) => Live(subs', t)
      BY <2>1, <2>3, <3>1
    <3> HIDE DEF w
    <3> QED BY <1>10, <2>1, <3>1, <3>2, <3>3
  <2> QED BY <1>12, <2>2, <2>3, MoveSteps
<1>13. ASSUME NEW r \in Replicas, NEW s \in Sub, Delete(r, s) PROVE Goal
  <2>1. /\ work[r] # None /\ work[r].pc = "call" /\ work[r] \in Work
        /\ work[r].job = "reconcile" => s.status = "failed"
        /\ subs' = subs \ {s}
    BY <1>13 DEF Delete, MayDelete, At, TypeOK
  <2> DEFINE w == [work[r] EXCEPT !.listed = @ \ {s}]
  <2>2. w.listed \subseteq work[r].listed /\ w.pc = work[r].pc /\ w.todo = work[r].todo
    BY <2>1 DEF Work
  <2>3. Moves(r, w)
    BY <1>13, MoveSteps
  <2>4. work[r].job = "reconcile" => \A t \in Types : Live(subs, t) => Live(subs', t)
    BY <2>1, LiveStep
  <2>5. \A t \in Types : Live(w.listed, t) => Live(work[r].listed, t)
    BY <2>2 DEF Live
  <2> HIDE DEF w
  <2> QED BY <1>10, <2>1, <2>2, <2>3, <2>4, <2>5
<1>14. ASSUME NEW r \in Replicas, NEW t \in Types, Found(r, t) \/ Post(r, t)
       PROVE  Goal
  <2>1. work[r] # None /\ work[r] \in Work /\ work[r].pc = "call"
    BY <1>14 DEF Found, Post, MayPost, Run, At, TypeOK
  <2> DEFINE w == [work[r] EXCEPT !.todo = @ \ {t}]
  <2>2. w.listed = work[r].listed /\ w.pc = work[r].pc /\ w.todo = work[r].todo \ {t}
    BY <2>1 DEF Work
  <2>3. Moves(r, w)
    BY <1>14, MoveSteps
  <2>4. authorized
    BY <1>0, <1>14 DEF Found, Post
  <2>5. subs' = subs \/ subs' = subs \cup {New(t)}
    BY <1>14 DEF Found, Post, twitch
  <2>6. New(t) \in Sub
    BY SubTypes
  <2>7. \A u \in Types : Live(subs, u) => Live(subs', u)
    BY <2>5, <2>6, LiveStep
  <2>8. Live(work[r].listed, t) \/ Live(subs', t)
    <3>1. CASE Found(r, t)
      BY <3>1 DEF Found
    <3>2. CASE Post(r, t)
      <4>1. New(t) \in subs'
        BY <2>4, <3>2 DEF Post
      <4> QED BY <4>1, SubTypes DEF Live
    <3> QED BY <1>14, <3>1, <3>2
  <2> HIDE DEF w
  <2> QED BY <1>10, <2>1, <2>2, <2>3, <2>7, <2>8
<1>15. ASSUME NEW r \in Replicas, Complete(r) PROVE Goal
  <2>1. /\ work[r] # None /\ work[r].pc = "call" /\ UNCHANGED <<subs, authorized, flight>>
        /\ work[r].job = "reconcile" => work[r].todo = {}
    BY <1>15 DEF Complete, Run, At, twitch
  <2>2. flight' = None
    BY <2>1, Alone
  <2> QED BY <1>9, <1>15, <2>1, <2>2 DEF Complete
<1>16. ASSUME NEW r \in Replicas, Fail(r) PROVE Goal
  <2>1. work[r] # None /\ UNCHANGED <<subs, authorized, flight>>
    BY <1>16 DEF Fail, twitch
  <2>2. flight' = None
    BY <2>1, Alone
  <2> QED BY <1>9, <1>16, <2>1, <2>2 DEF Fail
<1>17. ASSUME NEW r \in Replicas, Uncertain(r) PROVE Goal
  <2>1. /\ work[r] # None /\ work[r].pc = "call" /\ UNCHANGED <<subs, authorized>>
        /\ Finish(r, "retry", Abandoned) /\ work[r] \in Work
    BY <1>17 DEF Uncertain, MayDelete, MayPost, Run, At, TypeOK
  <2>2. ~(flight'.method = "DELETE" /\ flight'.sub.status = "enabled")
          \/ work[r].job = "remove"
    BY <1>17, <2>1 DEF Uncertain, MayDelete, Work, Jobs
  <2> QED BY <1>9, <2>1, <2>2
<1>18. CASE Land
  <2>1. flight \in Mutation /\ flight # None /\ flight' = None /\ flight.sub \in Sub
        /\ UNCHANGED <<item, work, authorized, intent>>
    BY <1>18 DEF Land, TypeOK, queue, Mutation
  <2>2. \A r \in Replicas : work[r] = None
    BY <2>1, Alone
  <2>3. \A r \in Replicas : Serving(r) => Serving(r)'
    BY <2>1, <2>2 DEF Serving, Waiting
  <2>4. AllServed => AllServed'
    <3>1. ASSUME AllServed PROVE AllServed'
      <4>1. flight.method = "DELETE" => flight.sub.status = "failed"
        BY <2>1, <3>1 DEF AllServed, Removing, Sub
      <4>2. \A t \in Types : Live(subs', t)
        BY <1>18, <2>1, <3>1, <4>1, LiveStep DEF Land, AllServed
      <4>3. ~Removing'
        BY <2>1, <2>2 DEF Removing
      <4> QED BY <4>2, <4>3 DEF AllServed
    <3> QED BY <3>1
  <2> QED BY <1>0, <1>f, <2>1, <2>3, <2>4
<1> QED
  <2>1. CASE Next
    BY <2>1, <1>2, <1>3, <1>4, <1>6, <1>7, <1>8, <1>11, <1>12, <1>13, <1>14,
       <1>15, <1>16, <1>17, <1>18 DEF Next
  <2> QED BY <1>3, <2>1

\* Whatever runs, a removal that was the latest intent is carried out in the end.
LEMMA RemoveStep ==
    ASSUME TypeOK, Struct, RemoveInv, [Next]_vars
    PROVE  RemoveInv'
<1> USE Names
<1> DEFINE Removals == \A r \in Replicas : item[r] # None => item[r].job = "remove"
           Handled == (\E r \in Replicas : Clearing(r)) \/ Cleared
           Goal == ~authorized' /\ Removals' /\ Handled'
<1> SUFFICES ASSUME intent' = "remove" PROVE Goal
  BY DEF RemoveInv
<1>0. intent = "remove" => ~authorized /\ Removals /\ Handled
  BY DEF RemoveInv
\* Steps that leave the queues, the runs and Twitch alone.
<1>1. ASSUME UNCHANGED <<item, work, subs, authorized, intent>>, flight' \in {flight, None}
      PROVE  Goal
  <2>1. \A r \in Replicas : Clearing(r) => Clearing(r)'
    BY <1>1 DEF Clearing, Waiting
  <2>2. Cleared => Cleared'
    BY <1>1 DEF Cleared, Creating
  <2> QED BY <1>0, <1>1, <2>1, <2>2
<1>2. CASE Deauthorize \/ SignIn \/ \E r \in Replicas : Restart(r)
  BY <1>2 DEF Deauthorize, SignIn, Restart
<1>3. CASE CheckToken \/ TouchProfile \/ Visit \/ Welcome \/ FailRequest \/ Expire \/ UNCHANGED vars
  BY <1>1, <1>3 DEF CheckToken, TouchProfile, Visit, Welcome, FailRequest, Expire, vars, twitch, queue
<1>4. ASSUME NEW r \in Replicas, SubscribeTwitch(r) PROVE Goal
  BY <1>1, <1>4 DEF SubscribeTwitch, twitch, queue
<1>5. CASE Enqueue
  <2>1. UNCHANGED <<work, subs, flight, authorized>>
    BY <1>5 DEF Enqueue, twitch
  <2>2. UNCHANGED <<item, intent>>
    BY <1>0, <1>5 DEF Enqueue
  <2> QED BY <1>1, <2>1, <2>2
<1>6. ASSUME NEW r \in Replicas, Deliver(r) PROVE Goal
  <2>1. /\ item' = [item EXCEPT ![r] = Enqueued(@, "remove")]
        /\ UNCHANGED <<work, subs, flight, authorized>>
    BY <1>6 DEF Deliver
  <2>2. /\ \A q \in Replicas : Waiting(q) => Waiting(q)'
        /\ item'[r].job = "remove" /\ Waiting(r)'
        /\ \A q \in Replicas \ {r} : item'[q] = item[q]
    BY <2>1, QueueStep
  <2>3. Clearing(r)'
    BY <2>2 DEF Clearing
  <2>4. ~authorized /\ \A q \in Replicas \ {r} : item[q] # None => item[q].job = "remove"
    BY <1>0, <1>6 DEF Deliver
  <2> QED BY <2>1, <2>2, <2>3, <2>4
<1>7. ASSUME NEW r \in Replicas, Process(r) PROVE Goal
  <2>1. /\ item[r] # None /\ item[r] \in Item /\ work[r] = None
        /\ UNCHANGED <<subs, flight, authorized, intent>>
    BY <1>7 DEF Process, twitch, TypeOK
  <2>2. item[r].job = "remove" /\ ~authorized /\ Removals /\ Handled
    BY <1>0, <2>1
  <2>3. [pc |-> "check", job |-> "remove", listed |-> {}, todo |-> {}] \in Work
    BY DEF Work
  <2>4. /\ work'[r] # None /\ work'[r].job = "remove" /\ work'[r].pc = "check"
        /\ item'[r] # None /\ item'[r].job = "remove"
        /\ \A o \in Replicas \ {r} : item'[o] = item[o] /\ work'[o] = work[o]
    <3>1. [item[r] EXCEPT !.running = TRUE] \in Item
      BY <2>1 DEF Item
    <3> QED BY <1>7, <2>1, <2>2, <2>3, <3>1 DEF Process, TypeOK, Item
  <2>5. Clearing(r)'
    BY <2>4 DEF Clearing, Waiting
  <2> QED BY <2>1, <2>2, <2>4, <2>5
\* A run is over: what it was for is done, or still queued.
<1>8. ASSUME NEW r \in Replicas, work[r] # None,
             NEW outcome \in {"retry", "dropped", "complete"},
             NEW to \in {Free, Abandoned}, Finish(r, outcome, to),
             UNCHANGED <<subs, authorized>>,
             outcome = "complete" => work[r].pc = "call"
                                     /\ (work[r].job = "remove" => work[r].listed = {}),
             flight' = None \/ outcome = "retry",
             ~(flight' # None /\ flight'.method = "POST") \/ work[r].job = "reconcile"
      PROVE  Goal
  <2>1. intent = "remove" /\ ~authorized' /\ outcome # "dropped" /\ Removals /\ Handled
    BY <1>0, <1>8 DEF Finish
  <2>2. Removals'
    <3>1. /\ \A q \in Replicas \ {r} : item'[q] = item[q]
          /\ item[r] # None /\ (item'[r] # None => item'[r].job = item[r].job)
      BY <1>8, FinishStep
    <3> QED BY <2>1, <3>1
  <2>3. CASE \E q \in Replicas : Clearing(q)
    <3>1. PICK q \in Replicas : Clearing(q)
      BY <2>3
    <3>2. CASE q # r
      <4>1. work[q] = None
        BY <1>8, <3>2, Alone
      <4>2. Waiting(q)
        BY <3>1, <4>1 DEF Clearing
      <4>3. Waiting(q)' /\ item'[q] # None
        BY <1>8, <3>2, <4>2, FinishStep DEF Waiting
      <4> QED BY <2>1, <2>2, <4>3 DEF Clearing
    <3>3. CASE q = r /\ item'[r] # None
      <4>1. Waiting(r)'
        BY <1>8, <3>3, FinishStep
      <4> QED BY <2>1, <2>2, <3>3, <4>1 DEF Clearing
    <3>4. CASE q = r /\ item'[r] = None
      <4>1. outcome # "retry" /\ ~item[r].changed /\ item[r] # None
        BY <1>8, <3>4, FinishStep
      <4>2. item[r].running
        BY <1>8 DEF Struct, Queued
      <4>3. outcome = "complete" /\ work[r].pc = "call"
        BY <1>8, <2>1, <4>1
      <4>4. work[r].job = "remove" /\ \A s \in subs : ~Own(s)
        BY <1>8, <3>1, <3>4, <4>1, <4>2, <4>3 DEF Clearing, Waiting
      <4>5. flight' = None /\ \A o \in Replicas : work'[o] = None
        BY <1>8, <4>1, FinishStep
      <4> QED BY <1>8, <2>1, <2>2, <4>4, <4>5 DEF Cleared, Creating
    <3> QED BY <3>2, <3>3, <3>4
  <2>4. CASE Cleared
    <3>1. \A o \in Replicas : work'[o] = None
      BY <1>8, FinishStep
    <3>2. Cleared'
      BY <1>8, <2>4, <3>1 DEF Cleared, Creating
    <3> QED BY <2>1, <2>2, <3>2
  <2> QED BY <2>1, <2>3, <2>4
\* A run goes on.
<1>9. ASSUME NEW r \in Replicas, NEW w, Moves(r, w), w.pc # "check",
             work[r].pc = "check" => w.pc = "list",
             work[r].job = "remove" =>
                /\ subs' \subseteq subs
                /\ w.pc = "call" => \A s \in subs' : Own(s) =>
                     \/ s \in w.listed
                     \/ work[r].pc = "call" /\ s \notin work[r].listed
      PROVE  Goal
  <2>1. /\ work'[r] = w /\ w # None /\ work[r] # None /\ w.job = work[r].job
        /\ \A o \in Replicas \ {r} : work'[o] = work[o]
        /\ UNCHANGED <<item, intent, flight, authorized>>
        /\ work[r].job \in {"reconcile", "remove"}
    BY <1>9 DEF Moves, TypeOK, Work
  <2>2. flight = None /\ \A o \in Replicas \ {r} : work[o] = None
    BY <2>1, Alone
  <2>3. ~authorized' /\ Removals' /\ Handled
    BY <1>0, <2>1
  <2>4. \A q \in Replicas \ {r} : Clearing(q) => Clearing(q)'
    BY <2>1, <2>2 DEF Clearing, Waiting
  <2>5. Clearing(r) => Clearing(r)'
    <3>1. CASE work[r].pc = "check"
      <4>1. work[r].job = "remove"
        BY <2>1, <3>1 DEF Struct, Worker
      <4> QED BY <1>9, <2>1, <3>1, <4>1 DEF Clearing
    <3>2. CASE work[r].pc # "check" /\ Waiting(r) /\ item[r].job = "remove"
      BY <1>9, <2>1, <3>2 DEF Clearing, Waiting
    <3>3. CASE /\ work[r].pc # "check" /\ work[r].job = "remove"
               /\ work[r].pc = "call" => \A s \in subs : Own(s) => s \in work[r].listed
      BY <1>9, <2>1, <3>3 DEF Clearing
    <3> QED BY <3>1, <3>2, <3>3 DEF Clearing
  <2>6. Cleared => Cleared'
    <3>1. ASSUME Cleared PROVE Cleared'
      <4>1. work[r].job = "remove"
        BY <2>1, <3>1 DEF Cleared, Creating
      <4>2. ~Creating'
        BY <2>1, <2>2, <4>1 DEF Creating
      <4> QED BY <1>9, <3>1, <4>1, <4>2 DEF Cleared
    <3> QED BY <3>1
  <2> QED BY <2>3, <2>4, <2>5, <2>6
<1>10. ASSUME NEW r \in Replicas, CheckGrant(r) PROVE Goal
  <2>1. work[r] # None /\ work[r].pc = "check" /\ work[r] \in Work
        /\ UNCHANGED <<subs, authorized, flight>>
    BY <1>10 DEF CheckGrant, At, twitch, TypeOK
  <2>2. CASE Finish(r, "reauthorized", Free) /\ authorized
    BY <1>0, <2>2 DEF Finish
  <2>3. CASE Moves(r, [work[r] EXCEPT !.pc = "list"])
    <3>1. [work[r] EXCEPT !.pc = "list"].pc = "list"
      BY <2>1 DEF Work
    <3> QED BY <1>9, <2>1, <2>3, <3>1
  <2>4. CheckGrant(r) => (Finish(r, "reauthorized", Free) /\ authorized)
                         \/ Moves(r, [work[r] EXCEPT !.pc = "list"])
    <3>1. CASE authorized
      BY <3>1, MoveSteps
    <3>2. CASE ~authorized
      <4>1. [work[r] EXCEPT !.pc = "list"] \in Work
            /\ [work[r] EXCEPT !.pc = "list"].job = work[r].job
        BY <2>1 DEF Work
      <4> QED BY <2>1, <3>2, <4>1 DEF CheckGrant, Reauthorized, Moves, twitch, TypeOK
    <3> QED BY <3>1, <3>2
  <2> QED BY <1>10, <2>2, <2>3, <2>4
<1>11. ASSUME NEW r \in Replicas, ListTwitch(r) PROVE Goal
  <2>1. work[r] # None /\ work[r].pc = "list" /\ UNCHANGED subs /\ work[r] \in Work
    BY <1>11 DEF ListTwitch, At, twitch, TypeOK
  <2>2. CASE Finish(r, "dropped", Free)
    BY <2>2 DEF Finish
  <2>3. ASSUME NEW S \in {subs, Removable(subs)},
               work[r].job = "remove" => S = Removable(subs),
               Moves(r, [work[r] EXCEPT !.pc = "call", !.todo = Types, !.listed = S])
        PROVE  Goal
    <3> DEFINE w == [work[r] EXCEPT !.pc = "call", !.todo = Types, !.listed = S]
    <3>1. w.listed = S /\ w.pc = "call"
      BY <2>1 DEF Work
    <3>2. Moves(r, w)
      BY <2>3
    <3>3. work[r].job = "remove" => \A s \in subs' : Own(s) => s \in w.listed
      BY <2>1, <2>3, <3>1 DEF Removable
    <3> HIDE DEF w
    <3> QED BY <1>9, <2>1, <3>1, <3>2, <3>3
  <2> QED BY <1>11, <2>2, <2>3, MoveSteps
<1>12. ASSUME NEW r \in Replicas, NEW s \in Sub, Delete(r, s) PROVE Goal
  <2>1. /\ work[r] # None /\ work[r].pc = "call" /\ work[r] \in Work
        /\ subs' = subs \ {s}
    BY <1>12 DEF Delete, MayDelete, At, TypeOK
  <2> DEFINE w == [work[r] EXCEPT !.listed = @ \ {s}]
  <2>2. w.listed = work[r].listed \ {s} /\ w.pc = work[r].pc
    BY <2>1 DEF Work
  <2>3. Moves(r, w)
    BY <1>12, MoveSteps
  <2> HIDE DEF w
  <2> QED BY <1>9, <2>1, <2>2, <2>3
<1>13. ASSUME NEW r \in Replicas, NEW t \in Types, Found(r, t) \/ Post(r, t)
       PROVE  Goal
  <2>1. work[r] # None /\ work[r] \in Work /\ work[r].pc = "call"
        /\ work[r].job = "reconcile"
    BY <1>13 DEF Found, Post, MayPost, Run, At, TypeOK
  <2> DEFINE w == [work[r] EXCEPT !.todo = @ \ {t}]
  <2>2. w.pc = work[r].pc
    BY <2>1 DEF Work
  <2>3. Moves(r, w)
    BY <1>13, MoveSteps
  <2> HIDE DEF w
  <2> QED BY <1>9, <2>1, <2>2, <2>3
<1>14. ASSUME NEW r \in Replicas, Complete(r) PROVE Goal
  <2>1. /\ work[r] # None /\ work[r].pc = "call" /\ UNCHANGED <<subs, authorized, flight>>
        /\ work[r].job = "remove" => work[r].listed = {}
    BY <1>14 DEF Complete, Run, At, twitch
  <2>2. flight' = None
    BY <2>1, Alone
  <2> QED BY <1>8, <1>14, <2>1, <2>2 DEF Complete
<1>15. ASSUME NEW r \in Replicas, Fail(r) PROVE Goal
  <2>1. work[r] # None /\ UNCHANGED <<subs, authorized, flight>>
    BY <1>15 DEF Fail, twitch
  <2>2. flight' = None
    BY <2>1, Alone
  <2> QED BY <1>8, <1>15, <2>1, <2>2 DEF Fail
<1>16. ASSUME NEW r \in Replicas, Uncertain(r) PROVE Goal
  <2>1. /\ work[r] # None /\ UNCHANGED <<subs, authorized>>
        /\ Finish(r, "retry", Abandoned)
    BY <1>16 DEF Uncertain, MayDelete, MayPost, Run, At
  <2>2. flight'.method = "POST" => work[r].job = "reconcile"
    BY <1>16 DEF Uncertain, MayPost, Run
  <2> QED BY <1>8, <2>1, <2>2
<1>17. CASE Land
  <2>1. flight # None /\ flight' = None
        /\ UNCHANGED <<item, work, authorized, intent>>
    BY <1>17 DEF Land, queue
  <2>2. \A r \in Replicas : work[r] = None
    BY <2>1, Alone
  <2>3. \A r \in Replicas : Clearing(r) => Clearing(r)'
    BY <2>1, <2>2 DEF Clearing, Waiting
  <2>4. Cleared => Cleared'
    <3>1. ASSUME Cleared PROVE Cleared'
      <4>1. flight.method = "DELETE" /\ subs' \subseteq subs
        BY <1>17, <2>1, <3>1 DEF Land, Cleared, Creating
      <4>2. ~Creating'
        BY <2>1, <2>2 DEF Creating
      <4> QED BY <3>1, <4>1, <4>2 DEF Cleared
    <3> QED BY <3>1
  <2> QED BY <1>0, <2>1, <2>3, <2>4
<1> QED
  <2>1. CASE Next
    BY <2>1, <1>2, <1>3, <1>4, <1>5, <1>6, <1>7, <1>10, <1>11, <1>12, <1>13, <1>14,
       <1>15, <1>16, <1>17 DEF Next
  <2> QED BY <1>3, <2>1
-----------------------------------------------------------------------------
\* A welcome that is due is pending or complete.
Welcomed == profile.due /\ ~profile.pending => welcomed = 1..2

LEMMA WelcomeStep ==
    ASSUME TypeOK, Welcomed, [Next]_vars
    PROVE  Welcomed'
<1>1. CASE UNCHANGED <<profile, welcomed>>
  BY <1>1 DEF Welcomed
<1>2. CASE TouchProfile
  BY <1>2 DEF TouchProfile, Touched, Welcomed, TypeOK
<1>3. CASE Welcome
  BY <1>3 DEF Welcome, Welcomed, TypeOK
<1>4. CASE UNCHANGED vars
  BY <1>1, <1>4 DEF vars, users
<1>5. ASSUME Next, ~TouchProfile, ~Visit, ~Welcome PROVE UNCHANGED <<profile, welcomed>>
  <2>1. CASE Deauthorize \/ SignIn \/ Land \/ Expire \/ CheckToken \/ Enqueue \/ FailRequest
    BY <2>1 DEF Deauthorize, SignIn, Land, Expire, CheckToken, Enqueue, FailRequest, users
  <2>2. ASSUME NEW r \in Replicas,
               \/ Deliver(r) \/ SubscribeTwitch(r) \/ Process(r) \/ CheckGrant(r) \/ ListTwitch(r)
               \/ \E s \in Sub : Delete(r, s)
               \/ \E t \in Types : Found(r, t) \/ Post(r, t)
               \/ Complete(r) \/ Fail(r) \/ Uncertain(r) \/ Restart(r)
        PROVE  UNCHANGED <<profile, welcomed>>
    BY <2>2 DEF Deliver, SubscribeTwitch, Process, CheckGrant, ListTwitch, Delete, Found, Post, Complete,
       Fail, Uncertain, Restart, users
  <2> QED BY <1>5, <2>1, <2>2 DEF Next
<1>6. CASE Visit
  BY <1>6 DEF Visit, Welcomed, TypeOK
<1> QED BY <1>1, <1>2, <1>3, <1>4, <1>5, <1>6

IndInv == TypeOK /\ Welcomed /\ Struct /\ ServeInv /\ RemoveInv

LEMMA Initially ==
    ASSUME Init PROVE IndInv
<1> USE Names
<1>1. TypeOK
  <2>1. subs \subseteq Sub
    BY DEF Init, Sub, Callbacks
  <2>2. lease = Free
    BY DEF Init
  <2> QED BY <2>1, <2>2 DEF Init, TypeOK
<1>2. Struct
  BY DEF Init, Struct, Owner, Worker, Queued, Flights
<1> QED BY <1>1, <1>2 DEF Init, IndInv, Welcomed, ServeInv, RemoveInv

LEMMA Invariance == Spec => []IndInv
<1>1. ASSUME IndInv, [Next]_vars PROVE IndInv'
  <2>1. TypeOK /\ Welcomed /\ Struct /\ ServeInv /\ RemoveInv /\ \A r \in Replicas : Queued(r)
    BY <1>1 DEF IndInv, Struct
  <2> QED BY <1>1, <2>1, TypingStep, WelcomeStep, StructStep, ServeStep, RemoveStep DEF IndInv
<1> QED BY <1>1, Initially, PTL DEF Spec

\* A welcome that is due stays pending until both messages are in the channel,
\* however many visits were cut short or died between them (TouchProfile and
\* Welcome in subscribe's tail) and whatever other channels were opened.
THEOREM WelcomeComplete == Spec => []WelcomeInv
<1>1. IndInv => WelcomeInv
  BY DEF IndInv, WelcomeInv, Welcomed
<1> QED BY <1>1, Invariance, PTL

\* Once no queue has an item and nothing is under way, Twitch has what was asked
\* for last: after a subscribe every wanted type is live, after a removal nothing
\* of ours is left, whatever deauthorization messages came late, on whichever
\* replica, and whichever runs were refused, uncertain or expired.
THEOREM LatestIsServed == Spec => []LatestServed
<1>1. ASSUME IndInv PROVE LatestServed
  <2>1. TypeOK /\ Struct /\ ServeInv /\ RemoveInv
    BY <1>1 DEF IndInv
  <2>2. ASSUME Quiet PROVE \A r \in Replicas : item[r] = None /\ work[r] = None
    BY <2>1, <2>2 DEF Quiet, Struct, Queued
  <2>3. ASSUME Quiet, intent = "serve"
        PROVE  (\A t \in Types : Live(subs, t)) \/ (\E s \in subs : ~Own(s))
    BY <2>1, <2>2, <2>3 DEF ServeInv, Serving, Waiting, AllServed, Foreign
  <2>4. ASSUME Quiet, intent = "remove" PROVE \A s \in subs : ~Own(s)
    BY <2>1, <2>2, <2>4 DEF RemoveInv, Clearing, Waiting, Cleared
  <2> QED BY <2>3, <2>4 DEF LatestServed
<1> QED BY <1>1, Invariance, PTL

\* A subscription of another deployment is never deleted, and nothing is created
\* beside it: not by a run whose list is older than it, not by a mutation that
\* lands late.
THEOREM OthersStay == Spec => OthersKept
<1> DEFINE Kept == \A s \in subs : ~Own(s) =>
             /\ \E n \in subs' : n.type = s.type /\ n.callback = s.callback
             /\ subs' \subseteq {[n EXCEPT !.status = "failed"] : n \in subs} \cup subs
<1>1. ASSUME IndInv, [Next]_vars PROVE [Kept]_vars
  <2> USE Names
  <2>1. TypeOK /\ Struct
    BY <1>1 DEF IndInv
  <2>2. ASSUME NEW d, Own(d), subs' = subs \ {d} PROVE Kept
    BY <2>2
  <2>3. ASSUME UNCHANGED subs PROVE Kept
    BY <2>3
  <2>4. ASSUME Deauthorize PROVE Kept
    <3>1. subs' = {IF s.type \in Scoped THEN [s EXCEPT !.status = "failed"] ELSE s
                   : s \in subs}
      BY <2>4 DEF Deauthorize
    <3>2. \A s \in subs : [s EXCEPT !.status = "failed"].type = s.type
                          /\ [s EXCEPT !.status = "failed"].callback = s.callback
      BY <2>1, SubTypes DEF TypeOK
    <3> QED BY <3>1, <3>2
  <2>5. ASSUME Land PROVE Kept
    <3>1. Own(flight.sub) /\ (flight.method = "POST" => ~Foreign)
      BY <2>1, <2>5 DEF Land, Struct, Flights
    <3>2. CASE subs' = subs \ {flight.sub}
      BY <2>2, <3>1, <3>2
    <3>3. CASE flight.method = "POST"
      BY <3>1, <3>3 DEF Foreign
    <3> QED BY <2>5, <3>2, <3>3 DEF Land
  <2>6. ASSUME NEW r \in Replicas, NEW s \in Sub, Delete(r, s) PROVE Kept
    BY <2>1, <2>2, <2>6 DEF Delete, MayDelete, At, Struct, Worker
  <2>7. ASSUME NEW r \in Replicas, NEW t \in Types, Post(r, t) PROVE Kept
    <3>1. ~Foreign
      BY <2>1, <2>7 DEF Post, MayPost, Run, At, Struct, Worker
    <3> QED BY <3>1 DEF Foreign
  <2>8. CASE UNCHANGED vars
    BY <2>8
  <2>9. CASE Next
    <3>1. ASSUME NEW r \in Replicas,
                 \/ Deliver(r) \/ SubscribeTwitch(r) \/ Process(r) \/ CheckGrant(r) \/ ListTwitch(r)
                 \/ \E t \in Types : Found(r, t)
                 \/ Complete(r) \/ Fail(r) \/ Uncertain(r) \/ Restart(r)
          PROVE  UNCHANGED subs
      BY <3>1 DEF Deliver, SubscribeTwitch, Process, CheckGrant, ListTwitch, Found, Complete, Fail,
         Uncertain, Restart, twitch
    <3>2. ASSUME SignIn \/ Expire \/ CheckToken \/ Enqueue \/ TouchProfile \/ Visit \/ Welcome
                   \/ FailRequest
          PROVE  UNCHANGED subs
      BY <3>2 DEF SignIn, Expire, CheckToken, Enqueue, TouchProfile, Visit, Welcome, FailRequest,
         twitch
    <3> HIDE DEF Kept
    <3>3. Kept
      BY <2>3, <2>4, <2>5, <2>6, <2>7, <2>9, <3>1, <3>2 DEF Next
    <3> QED BY <3>3
  <2> QED BY <1>1, <2>8, <2>9
<1> QED BY <1>1, Invariance, PTL DEF Spec, OthersKept

-----------------------------------------------------------------------------
\* Moving one subscription.

\* The identifiers.
LEMMA IdFacts ==
    /\ Ids \subseteq Nat /\ First \in Ids /\ Destination \in Ids /\ First # Destination
    /\ NoSub \notin Ids
    /\ MaxAttempts \in Nat /\ MaxFaults \in Nat
    /\ First = 1 /\ Destination = 2
    /\ Modes \subseteq {"forward", "rollback"} /\ RetryFailed \in BOOLEAN
  BY ConstantAssumption DEF Ids, First, Destination

\* What a run writes to its checkpoint.
LEMMA EntryFacts ==
    ASSUME entry \in Progress, new \in Ids \cup {NoSub}
    PROVE  /\ Recorded \in Progress /\ Completed \in Progress
           /\ [Completed EXCEPT !.sourceDeleted = FALSE] \in Progress
           /\ [entry EXCEPT !.rolledBack = TRUE] \in Progress
           /\ [entry EXCEPT !.sourceDeleted = TRUE] \in Progress
           /\ [entry EXCEPT !.restored = new, !.sourceDeleted = FALSE] \in Progress
           /\ \A a \in 0..MaxAttempts : [entry EXCEPT !.attempts = a] \in Progress
<1>1. Recorded \in Progress
  BY DEF Recorded, Progress
<1>2. Completed \in Progress
  BY DEF Completed, Progress
<1>3. [Completed EXCEPT !.sourceDeleted = FALSE] \in Progress
  BY <1>2 DEF Progress
<1> QED BY <1>1, <1>2, <1>3 DEF Progress

\* Memory of a run that is over.
LEMMA StopFacts ==
    ASSUME Stop
    PROVE  /\ pc' = "idle" /\ new' = NoSub /\ drop' = {} /\ UNCHANGED <<mode, reversed>>
           /\ listing' \in [Ids -> Status]
  BY DEF Stop, direction, Nothing, Status

\* The statuses a step of Twitch leaves.
LEMMA CreatesFacts ==
    ASSUME MigrationTypeOK, NEW i \in Ids, NEW c \in {"legacy", "target"}, Creates(i, c)
    PROVE  /\ at[i] = "none" /\ i > Destination
           /\ at' \in [Ids -> {"none", "legacy", "target"}] /\ state' \in [Ids -> Status]
           /\ at'[i] = c /\ state'[i] = "pending"
           /\ \A j \in Ids \ {i} : at'[j] = at[j] /\ state'[j] = state[j]
  BY DEF Creates, Unused, MigrationTypeOK, Status

LEMMA DeletesFacts ==
    ASSUME MigrationTypeOK, NEW i, Deletes(i)
    PROVE  /\ at' = at /\ state' \in [Ids -> Status]
           /\ i \in Ids => state'[i] = "absent"
           /\ \A j \in Ids \ {i} : state'[j] = state[j]
  BY DEF Deletes, MigrationTypeOK, Status

\* The attempts that are left while a run is under way.
Attempts == pc # "idle" /\ ~RetryFailed => entry.attempts < MaxAttempts

LEMMA MigrationTyping ==
    ASSUME MigrationTypeOK, Attempts, [MigrationNext]_migrationVars
    PROVE  MigrationTypeOK'
<1> USE IdFacts
<1> USE DEF remote, world, direction
<1>t. To \in {"legacy", "target"} /\ From \in {"legacy", "target"}
  BY DEF To, From
<1>f. Fault => faults' \in 0..MaxFaults
  BY DEF Fault, MigrationTypeOK
<1>e. entry \in Progress /\ new \in Ids \cup {NoSub}
  BY DEF MigrationTypeOK
\* Steps that leave the checkpoint and Twitch alone.
<1>1. ASSUME UNCHANGED <<remote, world, entry, direction>>,
             pc' \in Steps, listing' \in [Ids -> Status], drop' \subseteq Ids,
             new' \in Ids \cup {NoSub}, faults' \in 0..MaxFaults
      PROVE  MigrationTypeOK'
  BY <1>1 DEF MigrationTypeOK
\* Steps that write the checkpoint.
<1>2. ASSUME UNCHANGED <<remote, world, direction, faults>>, entry' \in Progress,
             pc' \in Steps, listing' \in [Ids -> Status], drop' \subseteq Ids,
             new' \in Ids \cup {NoSub}
      PROVE  MigrationTypeOK'
  BY <1>2 DEF MigrationTypeOK
\* Steps that change something at Twitch.
<1>3. ASSUME UNCHANGED <<world, direction, entry, listing>>,
             at' \in [Ids -> {"none", "legacy", "target"}], state' \in [Ids -> Status],
             pc' \in Steps, drop' \subseteq Ids, new' \in Ids \cup {NoSub},
             faults' \in 0..MaxFaults
      PROVE  MigrationTypeOK'
  BY <1>3 DEF MigrationTypeOK
<1>4. Stop => pc' \in Steps /\ listing' \in [Ids -> Status] /\ drop' \subseteq Ids
              /\ new' \in Ids \cup {NoSub} /\ UNCHANGED direction
  BY StopFacts DEF Steps
<1>5. ASSUME NEW m \in Modes, Start(m) PROVE MigrationTypeOK'
  BY <1>5 DEF Start, Go, MigrationTypeOK, Steps
<1>6. CASE Settle
  <2>1. \E a \in 0..MaxAttempts : entry' = [entry EXCEPT !.attempts = a]
    <3>1. entry.attempts \in 0..MaxAttempts
      BY <1>e DEF Progress
    <3>2. PICK a : a = IF RetryFailed /\ entry.attempts = MaxAttempts
                       THEN entry.attempts ELSE entry.attempts + 1
      OBVIOUS
    <3>3. a \in 0..MaxAttempts
      BY <1>6, <3>1, <3>2 DEF Settle, Attempts
    <3> QED BY <1>6, <3>2, <3>3 DEF Settle
  <2> QED BY <1>2, <1>4, <1>6, <1>e, <2>1, EntryFacts DEF Settle
<1>7. CASE List \/ SourceChanged \/ FindReplacement \/ BreakFirst \/ DeletedAll
           \/ BreakAgain \/ RestoreConflict \/ ReplacementFailed
  BY <1>1, <1>7 DEF List, SourceChanged, FindReplacement, BreakFirst, DeletedAll, BreakAgain,
     RestoreConflict, ReplacementFailed, Go, MigrationTypeOK, Steps
<1>8. CASE RollbackNothing \/ Commit \/ BreakCommit
  BY <1>2, <1>4, <1>8, <1>e, EntryFacts DEF RollbackNothing, Commit, BreakCommit
<1>9. CASE SaveFound \/ BreakSave \/ RestoreSave
  BY <1>2, <1>9, <1>e, EntryFacts DEF SaveFound, BreakSave, RestoreSave, Go, MigrationTypeOK, Steps
<1>10. owned \subseteq Ids /\ {liveID} \cap Present \subseteq Ids
  BY DEF owned, Listed, Present
<1>11. CASE AwaitEnabled
  BY <1>1, <1>10, <1>11 DEF AwaitEnabled, Go, MigrationTypeOK, Steps
<1>12. CASE BreakRecord
  <2>1. entry' \in Progress
    BY <1>12, <1>e, EntryFacts DEF BreakRecord
  <2>2. drop' \subseteq Ids
    BY <1>10, <1>12 DEF BreakRecord, ToBreak
  <2> QED BY <1>2, <1>12, <2>1, <2>2 DEF BreakRecord, Go, MigrationTypeOK, Steps
<1>13. CASE Blocked \/ Crash
  BY <1>1, <1>4, <1>13, <1>f DEF Blocked, Crash
<1>14. ASSUME NEW i \in Ids, NEW c \in {"legacy", "target"}, Creates(i, c)
       PROVE  at' \in [Ids -> {"none", "legacy", "target"}] /\ state' \in [Ids -> Status]
  BY <1>14, CreatesFacts
<1>15. CASE CreateReplacement \/ BreakCreate \/ RestoreCreate
  <2>1. PICK i \in Ids, c \in {"legacy", "target"} : Creates(i, c) /\ new' = i
    BY <1>15, <1>t DEF CreateReplacement, BreakCreate, RestoreCreate
  <2> QED BY <1>3, <1>14, <1>15, <2>1 DEF CreateReplacement, BreakCreate, RestoreCreate, Go,
     MigrationTypeOK, Steps
<1>16. CASE DeleteOld \/ RestoreDelete
  BY <1>3, <1>16, DeletesFacts DEF DeleteOld, RestoreDelete, Go, MigrationTypeOK, Steps
<1>17. CASE Failure
  <2>1. ASSUME NEW w, NEW then \in {"settle", "restoreCreate", "restoreDelete"}, Fails(w, then)
        PROVE  MigrationTypeOK'
    BY <1>1, <1>f, <2>1 DEF Fails, Go, MigrationTypeOK, Steps
  <2> QED BY <1>17, <2>1 DEF Failure
<1>18. CASE LostAnswer
  <2>1. ASSUME NEW w, NEW c \in {"legacy", "target"}, NEW then \in {"settle", "restoreCreate"},
               LoseCreated(w, c, then)
        PROVE  MigrationTypeOK'
    BY <1>3, <1>14, <1>f, <2>1 DEF LoseCreated, Go, MigrationTypeOK, Steps
  <2>2. CASE LoseDeleted
    BY <1>3, <1>f, <2>2, DeletesFacts DEF LoseDeleted, Go, MigrationTypeOK, Steps
  <2> QED BY <1>18, <1>t, <2>1, <2>2 DEF LostAnswer
<1>19. ASSUME NEW i \in Ids, Verify(i) \/ Unverified(i) \/ Purge(i) PROVE MigrationTypeOK'
  <2>1. state' \in [Ids -> Status] /\ faults' \in 0..MaxFaults
    BY <1>19, <1>f DEF Verify, Unverified, Purge, MigrationTypeOK, Status
  <2> QED BY <1>3, <1>19, <2>1 DEF Verify, Unverified, Purge, run, MigrationTypeOK
<1>20. CASE Remove
  <2>1. state' \in [Ids -> Status]
    BY <1>20 DEF Remove, Nothing, Status
  <2> QED BY <1>20, <1>f, <2>1 DEF Remove, run, MigrationTypeOK
<1>21. CASE Subscribe
  BY <1>3, <1>14, <1>21 DEF Subscribe, run, MigrationTypeOK
<1>22. CASE UNCHANGED migrationVars
  BY <1>22 DEF migrationVars, run, MigrationTypeOK
<1> QED
  <2>1. CASE Migrate
    BY <2>1, <1>6, <1>7, <1>8, <1>9, <1>11, <1>12, <1>13, <1>15, <1>16 DEF Migrate
  <2> QED BY <2>1, <1>5, <1>13, <1>17, <1>18, <1>19, <1>20, <1>21, <1>22 DEF MigrationNext

-----------------------------------------------------------------------------
\* What a step may do at Twitch: nothing, a creation, a verification or its
\* failure, a deletion the run means, or a removal between runs.
Created == \E i \in Ids, c \in {"legacy", "target"} : Creates(i, c)

Advanced == \E i \in Ids : /\ UNCHANGED at
                           /\ \E s \in {"enabled", "failed", "absent"} :
                                /\ state' = [state EXCEPT ![i] = s]
                                /\ state[i] = "pending" \/ (state[i] = "failed" /\ s = "absent")
                                /\ state[i] = "pending" => s # "absent"

Deleted == \E i : /\ Deletes(i)
                  /\ \/ pc \in {"delete", "breakDelete"} /\ i \in drop
                     \/ pc = "restoreDelete" /\ i = new

Removed == pc = "idle" /\ UNCHANGED at /\ dropped'

LEMMA TwitchStep ==
    ASSUME MigrationTypeOK, [MigrationNext]_migrationVars
    PROVE  /\ UNCHANGED originals /\ (dropped => dropped')
           /\ UNCHANGED remote \/ Created \/ Advanced \/ Deleted \/ Removed
<1> USE DEF remote, world, direction
<1>t. To \in {"legacy", "target"} /\ From \in {"legacy", "target"}
  BY DEF To, From
<1> DEFINE Goal == /\ UNCHANGED originals /\ (dropped => dropped')
                   /\ UNCHANGED remote \/ Created \/ Advanced \/ Deleted \/ Removed
<1>1. ASSUME UNCHANGED <<remote, world>> PROVE Goal
  BY <1>1
<1>2. CASE Settle \/ List \/ RollbackNothing \/ SourceChanged
           \/ FindReplacement \/ BreakFirst \/ SaveFound
           \/ AwaitEnabled \/ ReplacementFailed \/ DeletedAll \/ Commit
  BY <1>1, <1>2 DEF Settle, List, RollbackNothing, SourceChanged, FindReplacement, BreakFirst,
     SaveFound, AwaitEnabled, ReplacementFailed, DeletedAll, Commit
<1>3. CASE Blocked \/ BreakRecord \/ BreakAgain \/ BreakSave
           \/ BreakCommit \/ RestoreConflict \/ RestoreSave
  BY <1>1, <1>3 DEF Blocked, BreakRecord, BreakAgain, BreakSave, BreakCommit, RestoreConflict,
     RestoreSave
<1>4. CASE CreateReplacement \/ BreakCreate \/ RestoreCreate \/ Subscribe
  <2>1. Created
    BY <1>4, <1>t DEF CreateReplacement, BreakCreate, RestoreCreate, Subscribe, Created
  <2> QED BY <1>4, <2>1 DEF CreateReplacement, BreakCreate, RestoreCreate, Subscribe
<1>5. CASE DeleteOld \/ RestoreDelete
  <2>1. Deleted
    BY <1>5 DEF DeleteOld, RestoreDelete, Deleted
  <2> QED BY <1>5, <2>1 DEF DeleteOld, RestoreDelete
<1>6. CASE Failure \/ Crash
  BY <1>1, <1>6 DEF Failure, Fails, Crash
<1>7. CASE LostAnswer
  <2>1. ASSUME NEW w, NEW c \in {"legacy", "target"}, NEW then, LoseCreated(w, c, then)
        PROVE  Goal
    BY <2>1 DEF LoseCreated, Created
  <2>2. CASE LoseDeleted
    <3>1. Deleted
      BY <2>2 DEF LoseDeleted, Deleted
    <3> QED BY <2>2, <3>1 DEF LoseDeleted
  <2> QED BY <1>7, <1>t, <2>1, <2>2 DEF LostAnswer
<1>8. ASSUME NEW i \in Ids, Verify(i) \/ Unverified(i) \/ Purge(i) PROVE Goal
  <2>1. Advanced
    BY <1>8 DEF Verify, Unverified, Purge, Advanced
  <2> QED BY <1>8, <2>1 DEF Verify, Unverified, Purge
<1>9. CASE Remove
  BY <1>9 DEF Remove, Removed
<1>10. CASE UNCHANGED migrationVars
  BY <1>1, <1>10 DEF migrationVars
<1>11. ASSUME NEW m \in Modes, Start(m) PROVE Goal
  BY <1>1, <1>11 DEF Start
<1> QED
  <2>1. CASE Migrate
    BY <2>1, <1>2, <1>3, <1>4, <1>5 DEF Migrate
  <2> QED BY <2>1, <1>4, <1>6, <1>7, <1>8, <1>9, <1>10, <1>11 DEF MigrationNext

\* The subscriptions that are there have a callback, and keep it; the
\* snapshot's are where it says, and the one a failed break left is a new one.
Shape ==
    /\ at[First] = "legacy"
    /\ at[Destination] = IF Destination \in originals THEN "target" ELSE "none"
    /\ \A i \in Ids : at[i] = "none" => state[i] = "absent"
    /\ entry.restored # NoSub => entry.restored > Destination /\ at[entry.restored] # "none"

LEMMA AtKept ==
    ASSUME MigrationTypeOK, [MigrationNext]_migrationVars,
           NEW i \in Ids, at[i] # "none" \/ i <= Destination
    PROVE  at'[i] = at[i]
<1>1. CASE UNCHANGED at
  BY <1>1
<1>2. CASE Created
  <2>1. PICK j \in Ids, c \in {"legacy", "target"} : Creates(j, c)
    BY <1>2 DEF Created
  <2>2. at[j] = "none" /\ j > Destination /\ \A k \in Ids \ {j} : at'[k] = at[k]
    BY <2>1, CreatesFacts
  <2> QED BY <2>2, IdFacts
<1> QED BY <1>1, <1>2, TwitchStep DEF remote, Advanced, Deleted, Deletes, Removed

\* What is enabled stays so until the run deletes it or the broadcaster's are
\* removed.
LEMMA EnabledKept ==
    ASSUME MigrationTypeOK, [MigrationNext]_migrationVars,
           NEW i \in Ids, state[i] = "enabled", at[i] # "none",
           ~dropped', pc \in {"delete", "breakDelete"} => i \notin drop,
           pc = "restoreDelete" => i # new
    PROVE  state'[i] = "enabled" /\ at'[i] = at[i]
<1>1. at'[i] = at[i]
  BY AtKept
<1>2. CASE UNCHANGED remote
  BY <1>2 DEF remote
<1>3. CASE Created
  <2>1. PICK j \in Ids, c \in {"legacy", "target"} : Creates(j, c)
    BY <1>3 DEF Created
  <2> QED BY <1>1, <2>1, CreatesFacts
<1>4. CASE Advanced
  BY <1>1, <1>4 DEF Advanced, MigrationTypeOK
<1>5. CASE Deleted
  BY <1>1, <1>5, DeletesFacts DEF Deleted
<1> QED BY <1>2, <1>3, <1>4, <1>5, TwitchStep DEF Removed

\* A step changes the stand-in only when it records a restored one.
LEMMA RestoredStep ==
    ASSUME MigrationTypeOK, [MigrationNext]_migrationVars
    PROVE  \/ entry'.restored = entry.restored
           \/ pc = "restoreSave" /\ entry'.restored = new /\ UNCHANGED <<remote, new>>
<1>e. entry \in Progress
  BY DEF MigrationTypeOK
<1>1. CASE UNCHANGED entry
  BY <1>1
<1>2. CASE RestoreSave
  BY <1>2, <1>e DEF RestoreSave, Progress
<1>3. CASE Settle \/ RollbackNothing \/ SaveFound \/ Commit \/ BreakRecord \/ BreakSave
           \/ BreakCommit
  <2>1. Recorded.restored = entry.restored /\ Completed.restored = entry.restored
        /\ [Completed EXCEPT !.sourceDeleted = FALSE].restored = entry.restored
    BY <1>e DEF Recorded, Completed, Progress
  <2> QED BY <1>3, <1>e, <2>1 DEF Settle, RollbackNothing, SaveFound, Commit, BreakRecord,
     BreakSave, BreakCommit, Progress
<1>4. CASE \/ List \/ SourceChanged \/ FindReplacement \/ CreateReplacement \/ BreakFirst
           \/ AwaitEnabled \/ ReplacementFailed \/ DeleteOld \/ DeletedAll \/ Blocked
           \/ BreakAgain \/ BreakCreate \/ RestoreDelete \/ RestoreCreate
           \/ RestoreConflict \/ Failure \/ LostAnswer \/ Crash \/ Remove \/ Subscribe
  <2>1. UNCHANGED entry
    BY <1>4 DEF List, SourceChanged, FindReplacement, CreateReplacement, BreakFirst,
       AwaitEnabled, ReplacementFailed, DeleteOld, DeletedAll, Blocked, BreakAgain,
       BreakCreate, RestoreDelete, RestoreCreate, RestoreConflict, Failure, Fails, LostAnswer,
       LoseCreated, LoseDeleted, Crash, Remove, Subscribe
  <2> QED BY <1>1, <2>1
<1>5. ASSUME NEW i \in Ids, Verify(i) \/ Unverified(i) \/ Purge(i) PROVE UNCHANGED entry
  BY <1>5 DEF Verify, Unverified, Purge
<1>6. ASSUME NEW m \in Modes, Start(m) PROVE UNCHANGED entry
  BY <1>6 DEF Start
<1> QED
  <2>1. CASE Migrate
    BY <2>1, <1>2, <1>3, <1>4 DEF Migrate
  <2>2. CASE UNCHANGED migrationVars
    BY <1>1, <2>2 DEF migrationVars
  <2> QED BY <2>1, <2>2, <1>1, <1>4, <1>5, <1>6 DEF MigrationNext

\* What a run has in memory: its replacement is where it has to be, is not what
\* it deletes, and is enabled before anything is deleted; a break is on disk
\* before it is done.
Memory ==
    /\ pc \in {"found", "await", "delete", "commit"} =>
         new \in Ids /\ at[new] = To /\ (mode = "forward" => new # liveID)
    /\ pc \in {"await", "delete", "commit"} /\ mode = "forward" =>
         new \in originals \/ entry.created
    /\ pc \in {"delete", "commit"} => state[new] = "enabled"
    /\ pc \in {"breakSave", "breakAwait"} => at[new] = To
    /\ pc \in {"breakSave", "breakAwait", "restoreDelete", "restoreSave"} =>
         new \in Ids /\ new > Destination /\ at[new] # "none"
    /\ pc \in {"delete", "breakDelete"} =>
         IF mode = "forward" THEN drop \subseteq {liveID}
         ELSE \A i \in drop : at[i] = "target" /\ i \notin originals
    /\ pc = "breakDelete" => entry.sourceDeleted

\* A run is neither done nor rolled back.
Flags ==
    /\ Attempts
    /\ pc # "idle" => ~entry.rolledBack /\ (mode = "forward" => ~entry.deletedOld)
    /\ mode = "rollback" => reversed

LEMMA ShapeStep ==
    ASSUME MigrationTypeOK, MigrationTypeOK', Shape, Memory, [MigrationNext]_migrationVars
    PROVE  Shape'
<1> USE IdFacts
<1>1. UNCHANGED originals
  BY TwitchStep
<1>2. at'[First] = at[First] /\ at'[Destination] = at[Destination]
  BY AtKept
<1>3. ASSUME NEW i \in Ids, at'[i] = "none" PROVE state'[i] = "absent"
  <2>1. at[i] = "none" /\ state[i] = "absent"
    BY <1>3, AtKept DEF Shape
  <2>2. CASE UNCHANGED remote
    BY <2>1, <2>2 DEF remote
  <2>3. CASE Created
    <3>1. PICK j \in Ids, c \in {"legacy", "target"} : Creates(j, c)
      BY <2>3 DEF Created
    <3> QED BY <1>3, <2>1, <3>1, CreatesFacts
  <2>4. CASE Advanced
    BY <2>1, <2>4 DEF Advanced, MigrationTypeOK
  <2>5. CASE Deleted
    BY <2>1, <2>5, DeletesFacts DEF Deleted
  <2>6. CASE Remove
    BY <2>6 DEF Remove, Nothing
  <2>7. Removed => UNCHANGED remote \/ Remove \/ Subscribe \/ Advanced
    <3>1. ASSUME pc = "idle" PROVE ~Migrate \/ UNCHANGED remote
      BY <3>1 DEF Migrate, Settle, List, RollbackNothing, SourceChanged,
         FindReplacement, CreateReplacement, BreakFirst, SaveFound, MayReplace, MayCreate,
         AwaitEnabled, ReplacementFailed, DeleteOld, DeletedAll, Commit, Blocked,
         BreakRecord, BreakAgain, BreakCreate, BreakSave, BreakCommit, RestoreDelete,
         RestoreCreate, RestoreConflict, RestoreSave
    <3>2. ASSUME pc = "idle" PROVE ~Failure /\ ~LostAnswer /\ ~Crash
      BY <3>2 DEF Failure, Fails, LostAnswer, LoseCreated, LoseDeleted, Crash
    <3>3. ASSUME NEW m \in Modes, Start(m) PROVE UNCHANGED remote
      BY <3>3 DEF Start
    <3>4. ASSUME NEW j \in Ids, Verify(j) \/ Unverified(j) \/ Purge(j) PROVE Advanced
      BY <3>4 DEF Verify, Unverified, Purge, Advanced
    <3>5. UNCHANGED migrationVars => UNCHANGED remote
      BY DEF migrationVars
    <3> QED BY <3>1, <3>2, <3>3, <3>4, <3>5 DEF Removed, MigrationNext
  <2>8. CASE Subscribe
    BY <2>3, <2>8 DEF Subscribe, Created
  <2> QED BY <2>2, <2>3, <2>4, <2>5, <2>6, <2>7, <2>8, TwitchStep
<1>4. entry'.restored # NoSub => entry'.restored > Destination /\ at'[entry'.restored] # "none"
  <2>1. CASE entry'.restored = entry.restored
    <3>1. entry.restored \in Ids \cup {NoSub}
      BY DEF MigrationTypeOK, Progress
    <3> QED BY <2>1, <3>1, AtKept DEF Shape
  <2>2. CASE pc = "restoreSave" /\ entry'.restored = new /\ UNCHANGED <<remote, new>>
    BY <2>2 DEF Memory, remote
  <2> QED BY <2>1, <2>2, RestoredStep
<1> QED BY <1>1, <1>2, <1>3, <1>4 DEF Shape

\* The stand-in for the source has a callback.
LEMMA LiveFacts ==
    ASSUME MigrationTypeOK, Shape
    PROVE  liveID \in Ids /\ at[liveID] # "none" /\ liveID # Destination
           /\ (entry.restored = NoSub => liveID = First)
  BY IdFacts DEF liveID, Shape, MigrationTypeOK, Progress

\* A run never deletes its own replacement.
LEMMA NewKept ==
    ASSUME MigrationTypeOK, Memory, pc \in {"found", "await", "delete", "commit"}
    PROVE  pc \in {"delete", "breakDelete"} => new \notin drop
  BY DEF Memory, To

LEMMA MemoryStep ==
    ASSUME MigrationTypeOK, MigrationTypeOK', Shape, Memory, [MigrationNext]_migrationVars
    PROVE  Memory'
<1> USE IdFacts
<1> USE DEF direction, world
<1>o. UNCHANGED originals
  BY TwitchStep
<1>a. \A i \in Ids : at[i] # "none" => at'[i] = at[i]
  BY AtKept
\* Steps to places where the run remembers nothing that matters.
<1>1. ASSUME pc' \in {"idle", "list", "prepare", "break", "breakCreate", "restoreCreate",
                      "settle"}
      PROVE  Memory'
  BY <1>1 DEF Memory
<1>2. CASE Settle \/ List \/ RollbackNothing \/ SourceChanged \/ BreakFirst \/ Commit
           \/ Blocked \/ BreakAgain \/ BreakCommit \/ RestoreDelete \/ RestoreConflict
           \/ RestoreSave \/ Crash
  BY <1>1, <1>2 DEF Settle, List, RollbackNothing, SourceChanged, BreakFirst, Commit, Blocked,
     BreakAgain, BreakCommit, RestoreDelete, RestoreConflict, RestoreSave, Crash, Go, Stop
<1>3. ASSUME NEW m \in Modes, Start(m) PROVE Memory'
  BY <1>1, <1>3 DEF Start, Go
\* Steps of Twitch under a run that goes on.
<1>4. ASSUME UNCHANGED <<mode, pc, drop, new, entry>>,
             pc \in {"delete", "commit"} /\ state[new] = "enabled" => state'[new] = "enabled"
      PROVE  Memory'
  <2>1. liveID' = liveID /\ To' = To
    BY <1>4 DEF liveID, To
  <2>2. To # "none"
    BY DEF To
  <2>3. pc \in {"found", "await", "delete", "commit"} =>
          new \in Ids /\ at'[new] = To /\ (mode = "forward" => new # liveID)
    BY <1>a, <2>2 DEF Memory
  <2>4. pc \in {"delete", "breakDelete"} =>
         IF mode = "forward" THEN drop \subseteq {liveID}
         ELSE \A i \in drop : at'[i] = "target" /\ i \notin originals
    BY <1>a DEF Memory, MigrationTypeOK
  <2>5. pc \in {"breakSave", "breakAwait"} => at'[new] = To
    BY <1>a, <2>2 DEF Memory
  <2>6. pc \in {"breakSave", "breakAwait", "restoreDelete", "restoreSave"} =>
         new \in Ids /\ new > Destination /\ at'[new] # "none"
    BY <1>a DEF Memory
  <2> QED BY <1>4, <1>o, <2>1, <2>3, <2>4, <2>5, <2>6 DEF Memory
<1>5. ASSUME NEW i \in Ids, Verify(i) \/ Unverified(i) \/ Purge(i) PROVE Memory'
  <2>1. pc \in {"delete", "commit"} /\ state[new] = "enabled" => state'[new] = "enabled"
    BY <1>5 DEF Verify, Unverified, Purge, MigrationTypeOK, Memory
  <2> QED BY <1>4, <1>5, <2>1 DEF Verify, Unverified, Purge, run
<1>6. CASE Remove \/ Subscribe
  BY <1>1, <1>6 DEF Remove, Subscribe, run
<1>7. CASE UNCHANGED migrationVars
  BY <1>4, <1>7 DEF migrationVars, run, remote
\* A replacement is found or made.
<1>8. CASE FindReplacement \/ CreateReplacement
  <2>1. pc' = "found" /\ UNCHANGED <<mode, entry>> /\ ~Changed
    BY <1>8 DEF FindReplacement, CreateReplacement, MayReplace, MayCreate, Go
  <2>2. liveID' = liveID /\ To' = To /\ To \in {"legacy", "target"}
    BY <2>1 DEF liveID, To
  <2>3. new' \in Ids /\ at'[new'] = To /\ (mode = "forward" => new' # liveID)
    <3>1. CASE FindReplacement
      <4>1. new' \in Listed /\ new' \in Ids /\ at[new'] = To
        BY <3>1 DEF FindReplacement, find, Matches, Listed
      <4>2. at'[new'] = To
        BY <1>a, <2>2, <4>1
      <4>3. mode = "forward" => new' # liveID
        BY <2>1, <4>1 DEF Changed, To
      <4> QED BY <4>1, <4>2, <4>3
    <3>2. CASE CreateReplacement
      <4>1. PICK i \in Ids : Creates(i, To) /\ new' = i
        BY <3>2 DEF CreateReplacement
      <4>2. at[i] = "none" /\ at'[i] = To
        BY <2>2, <4>1, CreatesFacts
      <4> QED BY <4>1, <4>2, LiveFacts
    <3> QED BY <1>8, <3>1, <3>2
  <2> QED BY <2>1, <2>2, <2>3 DEF Memory
\* It is recorded.
<1>9. CASE SaveFound
  <2>1. /\ pc = "found" /\ pc' = "await" /\ entry' = Recorded
        /\ UNCHANGED <<at, state, mode, new, drop>>
    BY <1>9 DEF SaveFound, Go, remote
  <2>2. entry'.restored = entry.restored
        /\ (mode = "forward" => entry'.created \/ new \in originals)
    BY <2>1 DEF Recorded, MigrationTypeOK, Progress
  <2>3. liveID' = liveID /\ To' = To
    BY <2>1, <2>2 DEF liveID, To
  <2> QED BY <1>o, <2>1, <2>2, <2>3 DEF Memory
\* It is enabled.
<1>10. CASE AwaitEnabled
  <2>1. /\ pc = "await" /\ pc' = "delete" /\ state[new] = "enabled"
        /\ drop' = IF mode = "forward" THEN {liveID} \cap Present ELSE owned
        /\ UNCHANGED <<at, state, mode, new, entry>>
    BY <1>10 DEF AwaitEnabled, Go, remote, Verified
  <2>2. liveID' = liveID /\ To' = To
    BY <2>1 DEF liveID, To
  <2>3. IF mode = "forward" THEN drop' \subseteq {liveID}
        ELSE \A i \in drop' : at[i] = "target" /\ i \notin originals
    BY <2>1 DEF owned
  <2> QED BY <1>o, <2>1, <2>2, <2>3 DEF Memory
<1>11. CASE ReplacementFailed
  <2>1. CASE pc = "await"
    BY <1>1, <1>11, <2>1 DEF ReplacementFailed, Go
  <2>2. CASE pc = "breakAwait"
    BY <1>11, <2>2 DEF ReplacementFailed, Go, Memory, remote
  <2> QED BY <1>11, <2>1, <2>2 DEF ReplacementFailed
\* The old ones are deleted, one after the other.
<1>12. CASE DeleteOld
  <2>1. PICK i \in drop : Deletes(i) /\ drop' = drop \ {i}
    BY <1>12 DEF DeleteOld
  <2>2. /\ pc \in {"delete", "breakDelete"} /\ UNCHANGED <<mode, entry, pc, new>>
    BY <1>12 DEF DeleteOld
  <2>3. at' = at /\ \A j \in Ids \ {i} : state'[j] = state[j]
    BY <2>1, DeletesFacts
  <2>4. liveID' = liveID /\ To' = To
    BY <2>2 DEF liveID, To
  <2>5. pc = "delete" => state'[new] = "enabled"
    BY <2>1, <2>3, NewKept DEF Memory
  <2> QED BY <1>o, <2>1, <2>2, <2>3, <2>4, <2>5 DEF Memory
<1>13. CASE DeletedAll
  <2>1. CASE pc = "breakDelete"
    BY <1>1, <1>13, <2>1 DEF DeletedAll, Go
  <2>2. CASE pc = "delete"
    <3>1. pc' = "commit" /\ UNCHANGED <<at, state, mode, entry, new>>
      BY <1>13, <2>2 DEF DeletedAll, Go, remote
    <3>2. liveID' = liveID /\ To' = To
      BY <3>1 DEF liveID, To
    <3> QED BY <1>o, <2>2, <3>1, <3>2 DEF Memory
  <2> QED BY <1>13, <2>1, <2>2 DEF DeletedAll
\* A break is recorded.
<1>14. CASE BreakRecord
  <2>1. /\ pc' = "breakDelete" /\ entry' = [entry EXCEPT !.sourceDeleted = TRUE]
        /\ drop' = ToBreak /\ UNCHANGED <<at, mode>>
    BY <1>14 DEF BreakRecord, Go, remote
  <2>2. entry'.sourceDeleted /\ entry'.restored = entry.restored
    BY <2>1 DEF MigrationTypeOK, Progress
  <2>3. liveID' = liveID
    BY <2>2 DEF liveID
  <2>4. IF mode = "forward" THEN drop' \subseteq {liveID}
        ELSE \A i \in drop' : at[i] = "target" /\ i \notin originals
    BY <2>1 DEF ToBreak, owned
  <2> QED BY <1>o, <2>1, <2>2, <2>3, <2>4 DEF Memory
\* A replacement is made after the break, or the old one again.
<1>15. CASE BreakCreate \/ RestoreCreate
  <2>1. /\ pc' = IF pc = "breakCreate" THEN "breakSave" ELSE "restoreSave"
        /\ UNCHANGED mode /\ pc \in {"breakCreate", "restoreCreate"}
    BY <1>15 DEF BreakCreate, RestoreCreate, Go
  <2>2. PICK i \in Ids, c \in {"legacy", "target"} :
          Creates(i, c) /\ new' = i /\ (pc = "breakCreate" => c = To)
    BY <1>15 DEF BreakCreate, RestoreCreate, To, From
  <2>3. at'[i] = c /\ i > Destination
    BY <2>2, CreatesFacts
  <2>4. To' = To
    BY <2>1 DEF To
  <2> QED BY <2>1, <2>2, <2>3, <2>4 DEF Memory
<1>16. CASE BreakSave
  <2>1. pc = "breakSave" /\ pc' = "breakAwait" /\ UNCHANGED <<at, new, mode>>
    BY <1>16 DEF BreakSave, Go, remote
  <2> QED BY <2>1 DEF Memory, To
<1>17. CASE Failure
  <2>1. CASE Fails("breakAwait", "restoreDelete")
    BY <2>1 DEF Fails, Go, Memory, remote
  <2>2. ASSUME NEW w, NEW then \in {"settle", "restoreCreate"}, Fails(w, then) PROVE Memory'
    BY <1>1, <2>2 DEF Fails, Go
  <2> QED BY <1>17, <2>1, <2>2 DEF Failure
<1>18. CASE LostAnswer
  BY <1>1, <1>18 DEF LostAnswer, LoseCreated, LoseDeleted, Go
<1> QED
  <2>1. CASE Migrate
    BY <2>1, <1>2, <1>8, <1>9, <1>10, <1>11, <1>12, <1>13, <1>14, <1>15, <1>16 DEF Migrate
  <2> QED BY <2>1, <1>2, <1>3, <1>5, <1>6, <1>7, <1>17, <1>18 DEF MigrationNext

-----------------------------------------------------------------------------
\* What becomes of the checkpoint: its flags are set at the end of a run, and a
\* recorded break is forgotten only by a restored source.
EntryKept ==
    /\ entry'.rolledBack = entry.rolledBack /\ entry'.deletedOld = entry.deletedOld
    /\ entry'.attempts = entry.attempts \/ pc' = "idle"
    /\ entry.created => entry'.created
    /\ entry'.restored = NoSub =>
         entry.restored = NoSub /\ (entry.sourceDeleted => entry'.sourceDeleted)

LEMMA EntryStep ==
    ASSUME MigrationTypeOK, Memory, [MigrationNext]_migrationVars
    PROVE  RollbackNothing \/ Commit \/ BreakCommit \/ EntryKept
<1>e. entry \in Progress
  BY DEF MigrationTypeOK
<1>1. ASSUME UNCHANGED entry PROVE EntryKept
  BY <1>1 DEF EntryKept
<1>2. CASE RestoreSave
  <2>1. new \in Ids
    BY <1>2 DEF RestoreSave, Memory
  <2> QED BY <1>2, <1>e, <2>1, IdFacts DEF RestoreSave, Progress, EntryKept
<1>3. CASE Settle
  BY <1>3, <1>e DEF Settle, Stop, Progress, EntryKept
<1>4. CASE SaveFound \/ BreakSave
  BY <1>4, <1>e DEF SaveFound, BreakSave, Recorded, Progress, EntryKept
<1>5. CASE BreakRecord
  BY <1>5, <1>e DEF BreakRecord, Progress, EntryKept
<1>6. CASE \/ List \/ SourceChanged \/ FindReplacement \/ CreateReplacement \/ BreakFirst
           \/ AwaitEnabled \/ ReplacementFailed \/ DeleteOld \/ DeletedAll \/ Blocked
           \/ BreakAgain \/ BreakCreate \/ RestoreDelete \/ RestoreCreate
           \/ RestoreConflict \/ Failure \/ LostAnswer \/ Crash \/ Remove \/ Subscribe
  <2>1. UNCHANGED entry
    BY <1>6 DEF List, SourceChanged, FindReplacement, CreateReplacement, BreakFirst,
       AwaitEnabled, ReplacementFailed, DeleteOld, DeletedAll, Blocked, BreakAgain,
       BreakCreate, RestoreDelete, RestoreCreate, RestoreConflict, Failure, Fails, LostAnswer,
       LoseCreated, LoseDeleted, Crash, Remove, Subscribe
  <2> QED BY <1>1, <2>1
<1>7. ASSUME NEW i \in Ids, Verify(i) \/ Unverified(i) \/ Purge(i) PROVE UNCHANGED entry
  BY <1>7 DEF Verify, Unverified, Purge
<1>8. ASSUME NEW m \in Modes, Start(m) PROVE UNCHANGED entry
  BY <1>8 DEF Start
<1> QED
  <2>1. CASE Migrate
    BY <2>1, <1>2, <1>3, <1>4, <1>5, <1>6 DEF Migrate
  <2>2. CASE UNCHANGED migrationVars
    BY <1>1, <2>2 DEF migrationVars
  <2> QED BY <2>1, <2>2, <1>1, <1>6, <1>7, <1>8 DEF MigrationNext

\* Only the operator starts a run, and chooses its direction.
LEMMA RunStep ==
    ASSUME [MigrationNext]_migrationVars
    PROVE  \/ UNCHANGED <<mode, reversed>> /\ (pc = "idle" => pc' = "idle")
           \/ \E m \in Modes : Start(m)
<1> USE DEF direction
<1> DEFINE Goal == UNCHANGED <<mode, reversed>> /\ (pc = "idle" => pc' = "idle")
<1>1. CASE Settle \/ List \/ RollbackNothing \/ SourceChanged \/ FindReplacement
           \/ CreateReplacement \/ BreakFirst \/ SaveFound \/ AwaitEnabled
  <2>1. Goal
    BY <1>1 DEF Settle, List, RollbackNothing, SourceChanged, FindReplacement,
       CreateReplacement, BreakFirst, SaveFound, AwaitEnabled, MayReplace, MayCreate, Stop
  <2> QED BY <2>1
<1>2. CASE ReplacementFailed \/ DeleteOld \/ DeletedAll \/ Commit \/ Blocked \/ BreakRecord
           \/ BreakAgain \/ BreakCreate
  <2>1. Goal
    BY <1>2 DEF ReplacementFailed, DeleteOld, DeletedAll, Commit, Blocked, BreakRecord,
       BreakAgain, BreakCreate, Stop
  <2> QED BY <2>1
<1>3. CASE BreakSave \/ BreakCommit \/ RestoreDelete \/ RestoreCreate \/ RestoreConflict
           \/ RestoreSave
  <2>1. Goal
    BY <1>3 DEF BreakSave, BreakCommit, RestoreDelete, RestoreCreate, RestoreConflict,
       RestoreSave, Stop
  <2> QED BY <2>1
<1>4. CASE Failure \/ LostAnswer \/ Crash \/ Remove \/ Subscribe
  <2>1. Goal
    BY <1>4 DEF Failure, Fails, LostAnswer, LoseCreated, LoseDeleted, Crash, Remove, Subscribe,
       run, Stop, Go
  <2> QED BY <2>1
<1>5. ASSUME NEW i \in Ids, Verify(i) \/ Unverified(i) \/ Purge(i) PROVE Goal
  BY <1>5 DEF Verify, Unverified, Purge, run
<1>6. CASE UNCHANGED migrationVars
  BY <1>6 DEF migrationVars, run
<1> QED
  <2>1. CASE Migrate
    BY <2>1, <1>1, <1>2, <1>3 DEF Migrate
  <2> QED BY <2>1, <1>4, <1>5, <1>6 DEF MigrationNext

\* The ends of a run.
LEMMA EndFacts ==
    ASSUME MigrationTypeOK, RollbackNothing \/ Commit \/ BreakCommit
    PROVE  /\ pc' = "idle" /\ UNCHANGED <<remote, world, mode, reversed>>
           /\ entry'.restored = entry.restored
           /\ mode = "forward" => entry'.deletedOld /\ entry'.rolledBack = entry.rolledBack
           /\ mode = "rollback" => entry'.rolledBack
<1>e. entry \in Progress
  BY DEF MigrationTypeOK
<1>1. pc' = "idle" /\ UNCHANGED <<remote, world, mode, reversed>>
  BY StopFacts DEF RollbackNothing, Commit, BreakCommit
<1>2. CASE RollbackNothing
  BY <1>1, <1>2, <1>e DEF RollbackNothing, Untouched, Progress
<1>3. CASE Commit \/ BreakCommit
  BY <1>1, <1>3, <1>e DEF Commit, BreakCommit, Completed, Progress
<1> QED BY <1>2, <1>3

LEMMA FlagsStep ==
    ASSUME MigrationTypeOK, Memory, Flags, [MigrationNext]_migrationVars
    PROVE  Flags'
<1>1. CASE RollbackNothing \/ Commit \/ BreakCommit
  BY <1>1, EndFacts DEF Flags, Attempts
<1>2. ASSUME NEW m \in Modes, Start(m) PROVE Flags'
  <2>1. m \in {"forward", "rollback"} /\ entry \in Progress
    BY IdFacts DEF MigrationTypeOK
  <2>2. /\ mode' = m /\ UNCHANGED entry /\ reversed' = (reversed \/ m = "rollback")
        /\ ~done(m) /\ ~skip /\ (m = "forward" => ~entry.rolledBack)
    BY <1>2 DEF Start
  <2>3. ~RetryFailed => entry.attempts < MaxAttempts
    BY <2>1, <2>2, IdFacts DEF skip, Progress
  <2>4. ~entry.rolledBack /\ (m = "forward" => ~entry.deletedOld)
    BY <2>1, <2>2 DEF done
  <2> QED BY <2>1, <2>2, <2>3, <2>4 DEF Flags, Attempts
<1>3. CASE EntryKept /\ UNCHANGED <<mode, reversed>> /\ (pc = "idle" => pc' = "idle")
  BY <1>3 DEF Flags, Attempts, EntryKept
<1> QED BY <1>1, <1>2, <1>3, EntryStep, RunStep

\* A source without a trace of the migration is served: it is there itself, or
\* the destination is that it was deleted for.
Safe ==
    ~dropped /\ entry.restored = NoSub /\ ~entry.created /\ ~entry.deletedOld
      /\ ~entry.sourceDeleted /\ ~entry.rolledBack =>
          \E i \in {First, Destination} : state[i] = "enabled"

\* The snapshot's subscriptions are somewhere if they are enabled.
LEMMA EnabledAt ==
    ASSUME MigrationTypeOK, Shape, NEW i \in Ids, state[i] = "enabled"
    PROVE  at[i] \in {"legacy", "target"}
  BY DEF Shape, MigrationTypeOK

\* A replacement is enabled while the old ones are deleted.
LEMMA NewEnabled ==
    ASSUME MigrationTypeOK, Shape, Memory, [MigrationNext]_migrationVars, pc = "delete", ~dropped'
    PROVE  new \in Ids /\ state'[new] = "enabled" /\ at'[new] = To
<1>1. new \in Ids /\ state[new] = "enabled" /\ at[new] = To /\ new \notin drop
  BY NewKept DEF Memory
<1>2. at[new] # "none"
  BY <1>1 DEF To
<1> QED BY <1>1, <1>2, EnabledKept

LEMMA SafeStep ==
    ASSUME MigrationTypeOK, MigrationTypeOK', Shape, Memory, Flags, Safe, [MigrationNext]_migrationVars
    PROVE  Safe'
<1> USE IdFacts
<1> SUFFICES ASSUME ~dropped', entry'.restored = NoSub, ~entry'.created, ~entry'.deletedOld,
                    ~entry'.sourceDeleted, ~entry'.rolledBack
             PROVE  \E i \in {First, Destination} : state'[i] = "enabled"
  BY DEF Safe
<1>1. EntryKept
  <2>1. mode \in {"forward", "rollback"}
    BY DEF MigrationTypeOK
  <2> QED BY <2>1, EntryStep, EndFacts
<1>2. /\ ~dropped /\ entry.restored = NoSub /\ ~entry.created /\ ~entry.deletedOld
      /\ ~entry.sourceDeleted /\ ~entry.rolledBack
  BY <1>1, TwitchStep DEF EntryKept
<1>3. PICK i \in {First, Destination} : state[i] = "enabled"
  BY <1>2 DEF Safe
<1>4. i \in Ids /\ at[i] \in {"legacy", "target"}
  BY <1>3, EnabledAt
<1>5. pc # "breakDelete"
  BY <1>2 DEF Memory
<1>6. pc = "restoreDelete" => i # new
  BY DEF Memory
<1>7. CASE pc = "delete" /\ i \in drop
  <2>1. mode = "forward"
    BY <1>4, <1>7 DEF Memory, Shape, MigrationTypeOK
  <2>2. new \in originals /\ new # First
    BY <1>2, <1>7, <2>1, LiveFacts DEF Memory
  <2>3. new = Destination
    BY <2>2 DEF MigrationTypeOK
  <2> QED BY <1>7, <2>3, NewEnabled
<1>8. CASE ~(pc = "delete" /\ i \in drop)
  BY <1>3, <1>4, <1>5, <1>6, <1>8, EnabledKept
<1> QED BY <1>7, <1>8

\* The end of a run that put a replacement there.
LEMMA EndServed ==
    ASSUME MigrationTypeOK, Shape, Memory, Commit \/ BreakCommit
    PROVE  Enabled(To)'
<1>1. pc \in {"commit", "breakAwait"} /\ new \in Ids /\ state[new] = "enabled" /\ at[new] = To
  BY DEF Commit, BreakCommit, Memory, Verified
<1>2. UNCHANGED <<at, state, mode>>
  BY EndFacts DEF remote
<1> QED BY <1>1, <1>2 DEF Enabled, To

\* Nothing that is enabled disappears between runs.
LEMMA IdleKept ==
    ASSUME MigrationTypeOK, [MigrationNext]_migrationVars, pc = "idle", ~dropped',
           NEW c \in {"legacy", "target"}, Enabled(c)
    PROVE  Enabled(c)'
<1>1. PICK i \in Ids : at[i] = c /\ state[i] = "enabled"
  BY DEF Enabled
<1>2. at'[i] = c /\ state'[i] = "enabled"
  BY <1>1, EnabledKept
<1> QED BY <1>2 DEF Enabled

LEMMA DoneStep ==
    ASSUME MigrationTypeOK, Shape, Memory, Flags, DoneServed, [MigrationNext]_migrationVars
    PROVE  DoneServed'
<1> SUFFICES ASSUME entry'.deletedOld, ~reversed', ~dropped' PROVE Enabled("target")'
  BY DEF DoneServed
<1>m. mode \in {"forward", "rollback"}
  BY DEF MigrationTypeOK
<1>1. ~reversed /\ ~dropped
  <2>1. ASSUME NEW m \in Modes, Start(m) PROVE ~reversed
    BY <2>1 DEF Start
  <2>2. UNCHANGED reversed => ~reversed
    OBVIOUS
  <2>3. ~dropped
    BY TwitchStep
  <2> QED BY <2>1, <2>2, <2>3, RunStep
<1>2. mode = "forward"
  BY <1>1, <1>m DEF Flags
<1>3. CASE Commit \/ BreakCommit
  <2>1. To' = "target"
    BY <1>2, <1>3, EndFacts DEF To
  <2>2. PICK i \in Ids : at'[i] = To' /\ state'[i] = "enabled"
    BY <1>3, EndServed DEF Enabled
  <2> QED BY <2>1, <2>2 DEF Enabled
<1>4. CASE RollbackNothing
  BY <1>2, <1>4 DEF RollbackNothing, Untouched
<1>5. CASE EntryKept
  <2>1. entry.deletedOld
    BY <1>5 DEF EntryKept
  <2>2. pc = "idle" /\ Enabled("target")
    BY <1>1, <1>2, <2>1 DEF Flags, DoneServed
  <2> QED BY <2>2, IdleKept
<1> QED BY <1>3, <1>4, <1>5, EntryStep

LEMMA RolledBackStep ==
    ASSUME MigrationTypeOK, Shape, Memory, Flags, Safe, RolledBackServed, [MigrationNext]_migrationVars
    PROVE  RolledBackServed'
<1> SUFFICES ASSUME entry'.rolledBack, ~dropped', entry'.restored = NoSub PROVE Served'
  BY DEF RolledBackServed
<1>1. ~dropped
  BY TwitchStep
<1>2. CASE Commit \/ BreakCommit
  <2>1. PICK i \in Ids : at'[i] = To' /\ state'[i] = "enabled"
    BY <1>2, EndServed DEF Enabled
  <2> QED BY <2>1 DEF Served, Enabled, To
<1>3. CASE RollbackNothing
  <2>1. /\ ~entry.created /\ ~entry.deletedOld /\ ~entry.sourceDeleted /\ pc = "prepare"
    BY <1>3 DEF RollbackNothing, Untouched
  <2>2. UNCHANGED <<at, state>> /\ entry.restored = NoSub
    BY <1>3, EndFacts DEF remote
  <2>3. PICK i \in {First, Destination} : state[i] = "enabled"
    BY <1>1, <2>1, <2>2 DEF Safe, Flags
  <2>4. i \in Ids /\ at[i] \in {"legacy", "target"}
    BY <2>3, EnabledAt, IdFacts
  <2> QED BY <2>2, <2>3, <2>4 DEF Served, Enabled
<1>4. CASE EntryKept
  <2>1. entry.rolledBack /\ entry.restored = NoSub
    BY <1>4 DEF EntryKept
  <2>2. pc = "idle" /\ Served
    BY <1>1, <2>1 DEF Flags, RolledBackServed
  <2> QED BY <2>2, IdleKept DEF Served
<1> QED BY <1>2, <1>3, <1>4, EntryStep
-----------------------------------------------------------------------------
MigrationInv == MigrationTypeOK /\ Shape /\ Memory /\ Flags /\ Safe /\ DoneServed /\ RolledBackServed

LEMMA MigrationInitially ==
    ASSUME MigrationInit PROVE MigrationInv
<1> USE IdFacts
<1>1. entry \in Progress
  BY DEF MigrationInit, Progress
<1>2. MigrationTypeOK
  <2>1. at \in [Ids -> {"none", "legacy", "target"}]
    BY DEF MigrationInit
  <2>2. state \in [Ids -> Status]
    <3>1. PICK s \in {"pending", "enabled"} :
            state = [i \in Ids |-> IF i = First THEN "enabled"
                                   ELSE IF i \in originals THEN s ELSE "absent"]
      BY DEF MigrationInit
    <3> QED BY <3>1 DEF Status
  <2>3. listing \in [Ids -> Status]
    BY DEF MigrationInit, Nothing, Status
  <2>4. originals \subseteq {First, Destination} /\ drop \subseteq Ids
    BY DEF MigrationInit
  <2>5. faults \in 0..MaxFaults
    BY DEF MigrationInit
  <2> QED BY <1>1, <2>1, <2>2, <2>3, <2>4, <2>5 DEF MigrationInit, MigrationTypeOK, Steps
<1>3. Shape
  BY DEF MigrationInit, Shape
<1>4. Memory /\ Flags
  BY DEF MigrationInit, Memory, Flags, Attempts
<1>5. state[First] = "enabled"
  BY DEF MigrationInit
<1> QED BY <1>2, <1>3, <1>4, <1>5 DEF MigrationInv, Safe, DoneServed, RolledBackServed, MigrationInit

LEMMA MigrationInvariance ==
    MigrationSpec => []MigrationInv
<1>1. ASSUME MigrationInv, [MigrationNext]_migrationVars PROVE MigrationInv'
  <2>1. /\ MigrationTypeOK /\ Shape /\ Memory /\ Flags /\ Safe /\ DoneServed /\ RolledBackServed
        /\ Attempts
    BY <1>1 DEF MigrationInv, Flags
  <2>2. MigrationTypeOK'
    BY <1>1, <2>1, MigrationTyping
  <2> QED BY <1>1, <2>1, <2>2, ShapeStep, MemoryStep, FlagsStep, SafeStep, DoneStep,
     RolledBackStep DEF MigrationInv
<1> QED BY <1>1, MigrationInitially, PTL DEF MigrationSpec

\* What the checkpoint says can be relied on: a source it calls done is served
\* from the agent's callback until somebody rolls back or removes it, and one it
\* calls rolled back is served, however often the command failed, lost an answer
\* or died between any two steps and whichever direction it was run in next.
THEOREM CheckpointReliable ==
    MigrationSpec => []CheckpointInv
<1>1. MigrationInv => CheckpointInv
  BY DEF MigrationInv, CheckpointInv
<1> QED BY <1>1, MigrationInvariance, PTL

\* The migrator deletes the last enabled subscription only after the checkpoint
\* on disk says that it does (deleteSource and deleteOwned, breakBeforeMake).
THEOREM BreakIsRecorded ==
    MigrationSpec => BreakRecorded
<1> DEFINE Rec == Served /\ ~Served' /\ pc # "restoreDelete" => entry.sourceDeleted \/ dropped'
<1>1. ASSUME MigrationInv, [MigrationNext]_migrationVars PROVE [Rec]_migrationVars
  <2> SUFFICES ASSUME Served, ~Served', pc # "restoreDelete", ~entry.sourceDeleted, ~dropped'
               PROVE  FALSE
    OBVIOUS
  <2>1. MigrationTypeOK /\ Shape /\ Memory
    BY <1>1 DEF MigrationInv
  <2>2. PICK i \in Ids : at[i] \in {"legacy", "target"} /\ state[i] = "enabled"
    BY DEF Served, Enabled
  <2>3. pc # "breakDelete"
    BY <2>1 DEF Memory
  <2>4. CASE pc = "delete"
    <3>1. new \in Ids /\ state'[new] = "enabled" /\ at'[new] = To
      BY <1>1, <2>1, <2>4, NewEnabled
    <3> QED BY <3>1 DEF Served, Enabled, To
  <2>5. CASE pc # "delete"
    <3>1. state'[i] = "enabled" /\ at'[i] = at[i]
      BY <1>1, <2>1, <2>2, <2>3, <2>5, EnabledKept
    <3> QED BY <2>2, <3>1 DEF Served, Enabled
  <2> QED BY <2>4, <2>5
<1> QED BY <1>1, MigrationInvariance, PTL DEF MigrationSpec, BreakRecorded

\* A destination that predates the migration is deleted by no run, forward or
\* back, first or resumed.
THEOREM OriginalStays ==
    MigrationSpec => OriginalKept
<1> DEFINE Kept == active(state[Destination]) /\ state'[Destination] = "absent" => dropped'
<1>1. ASSUME MigrationInv, [MigrationNext]_migrationVars PROVE [Kept]_migrationVars
  <2> USE IdFacts
  <2> SUFFICES ASSUME active(state[Destination]), state'[Destination] = "absent", ~dropped'
               PROVE  FALSE
    OBVIOUS
  <2>1. MigrationTypeOK /\ Shape /\ Memory
    BY <1>1 DEF MigrationInv
  <2>2. state[Destination] \in {"pending", "enabled"}
    BY DEF active
  <2>3. at[Destination] = "target" /\ Destination \in originals
    BY <2>1, <2>2 DEF Shape
  <2>4. CASE Created
    <3>1. PICK j \in Ids, c \in {"legacy", "target"} : Creates(j, c)
      BY <2>4 DEF Created
    <3>2. j > Destination /\ \A k \in Ids \ {j} : state'[k] = state[k]
      BY <2>1, <3>1, CreatesFacts
    <3> QED BY <2>2, <3>2
  <2>5. CASE Advanced
    BY <2>1, <2>2, <2>5 DEF Advanced, MigrationTypeOK
  <2>6. CASE Deleted
    <3>1. PICK i : /\ Deletes(i)
                   /\ \/ pc \in {"delete", "breakDelete"} /\ i \in drop
                      \/ pc = "restoreDelete" /\ i = new
      BY <2>6 DEF Deleted
    <3>2. i = Destination
      BY <2>1, <2>2, <3>1, DeletesFacts
    <3> QED BY <2>1, <2>3, <3>1, <3>2, LiveFacts DEF Memory
  <2>7. CASE UNCHANGED remote
    BY <2>2, <2>7 DEF remote
  <2> QED BY <1>1, <2>1, <2>4, <2>5, <2>6, <2>7, TwitchStep DEF Removed
<1> QED BY <1>1, MigrationInvariance, PTL DEF MigrationSpec, OriginalKept
=============================================================================
