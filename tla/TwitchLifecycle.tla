--------------------------- MODULE TwitchLifecycle ---------------------------
(***************************************************************************)
(* agent/internal/subscriptions/twitch.go: what the work of TwitchQueue    *)
(* does for one broadcaster at Twitch.  Subscribe requests and webhook     *)
(* deliveries put a reconcile or a removal into the queue of the replica   *)
(* they reach; its worker runs it under the broadcaster's lease.           *)
(*                                                                         *)
(* The queue's pacing is TwitchQueue's; an item keeps what decides which   *)
(* job runs next.  A lease is its owner and label, as SubscriptionLock     *)
(* justifies; what a dead or uncertain holder leaves behind is the lease   *)
(* of Left.  The broadcaster signs in and deauthorizes the app at any time.*)
(***************************************************************************)
EXTENDS Naturals, FiniteSets

CONSTANTS
    Replicas,
    Types, Scoped,      \* the wanted types; those that need authorization
    None, Left,
    MaxDeauths, MaxRestarts  \* bounds on what the environment does

Callbacks == {"own", "legacy", "other"}
Sub == [type : Types, callback : Callbacks, status : {"enabled", "failed"}]
Mutation == [method : {"POST", "DELETE"}, sub : Sub]
Jobs == {"reconcile", "remove"}
Item == [job : Jobs, reconcile : BOOLEAN, running : BOOLEAN, changed : BOOLEAN]
Work == [pc : {"check", "list", "call"}, job : Jobs,
         listed : SUBSET Sub, todo : SUBSET Types]
Request == [pc : {"token", "enqueue", "touch", "welcome"}, at : Replicas]

ASSUME LifecycleAssumption ==
    /\ Scoped \subseteq Types
    /\ {None, Left, "request"} \cap Replicas = {}
    /\ None # Left /\ "request" \notin {None, Left}
    /\ None \notin Mutation /\ None \notin Item /\ None \notin Work
    /\ None \notin Request
    /\ MaxDeauths \in Nat /\ MaxRestarts \in Nat

VARIABLES
    authorized,  \* Twitch accepts the grant stored for the broadcaster
    notices,     \* deauthorization messages not delivered yet
    subs,        \* the broadcaster's subscriptions at Twitch
    flight,      \* the mutation under way when its caller gave up, or None
    lease,       \* the owner and label of subscriptionLeases/twitch:<id>
    item,        \* of each replica's queue: the broadcaster's item, or None
    work,        \* of each replica's worker: its run, or None
    req,         \* the subscribe request under way, or None
    profile,     \* lastActiveAt, welcomePendingChannel and whether a welcome is
                 \* due: the first channel he opened was his own
    welcomed,    \* the welcome messages in the channel
    intent,      \* the latest intent that a queue accepted and has not lost
    deauths, restarts

twitch == <<authorized, notices, subs, flight>>
queue == <<item, work>>
users == <<req, profile, welcomed>>
bounds == <<deauths, restarts>>
vars == <<twitch, lease, queue, users, intent, bounds>>

Free == [owner |-> None, label |-> None]

TypeOK ==
    /\ authorized \in BOOLEAN /\ notices \in Nat
    /\ subs \subseteq Sub
    /\ flight \in Mutation \cup {None}
    /\ lease \in [owner : Replicas \cup {"request", Left},
                  label : {None, "reconcile"}] \cup {Free}
    /\ item \in [Replicas -> Item \cup {None}]
    /\ work \in [Replicas -> Work \cup {None}]
    /\ req \in Request \cup {None}
    /\ profile \in [active : BOOLEAN, pending : BOOLEAN, due : BOOLEAN]
    /\ welcomed \subseteq 1..2
    /\ intent \in {"none", "serve", "remove"}
    /\ deauths \in 0..MaxDeauths /\ restarts \in 0..MaxRestarts

Own(s) == s.callback \in {"own", "legacy"}
Live(S, t) == \E s \in S : s.type = t /\ s.status = "enabled"
New(t) == [type |-> t, callback |-> "own", status |-> "enabled"]

\* A new broadcaster, one who is still at the legacy callback, and one whose
\* subscriptions another deployment holds.
Init ==
    /\ authorized = TRUE /\ notices = 0
    /\ subs \in {{}} \cup {{[type |-> t, callback |-> c, status |-> "enabled"]} :
                           t \in Types, c \in {"legacy", "other"}}
    /\ flight = None
    /\ lease = Free
    /\ item = [r \in Replicas |-> None]
    /\ work = [r \in Replicas |-> None]
    /\ req = None
    /\ profile = [active |-> FALSE, pending |-> FALSE, due |-> FALSE]
    /\ welcomed = {}
    /\ intent = "none"
    /\ deauths = 0 /\ restarts = 0
-----------------------------------------------------------------------------
\* The broadcaster deauthorizes the app: Twitch revokes the scoped
\* subscriptions and sends a revocation and a notification of it.
Deauthorize ==
    /\ authorized /\ deauths < MaxDeauths
    /\ authorized' = FALSE
    /\ deauths' = deauths + 1
    /\ notices' = notices + 2
    /\ subs' = {IF s.type \in Scoped THEN [s EXCEPT !.status = "failed"] ELSE s
                : s \in subs}
    /\ intent' = "none"
    /\ UNCHANGED <<flight, lease, queue, users, restarts>>

\* ... and signs in again: the new grant is stored, outside of any lease.
SignIn ==
    /\ ~authorized
    /\ authorized' = TRUE
    /\ intent' = "none"
    /\ UNCHANGED <<notices, subs, flight, lease, queue, users, bounds>>

\* enqueue: the latest intent wins, and a run under way is followed by it.
Enqueued(i, job) ==
    IF i = None
    THEN [job |-> job, reconcile |-> job = "reconcile",
          running |-> FALSE, changed |-> FALSE]
    ELSE [i EXCEPT !.reconcile = @ \/ job = "reconcile",
                   !.job = job,
                   !.changed = IF i.job = job
                               THEN @ \/ (job = "remove" /\ i.running)
                               ELSE i.running]

\* A deauthorization message reaches a replica, however late.  The removal is
\* the last word unless another replica is still to reconcile.
Deliver(r) ==
    /\ notices > 0
    /\ notices' = notices - 1
    /\ item' = [item EXCEPT ![r] = Enqueued(@, "remove")]
    /\ intent' = IF ~authorized /\ \A o \in Replicas \ {r} : item[o] = None
                 THEN "remove" ELSE intent
    /\ UNCHANGED <<authorized, subs, flight, lease, work, users, bounds>>
-----------------------------------------------------------------------------
\* The user opens another's channel, or one at Kick: he was active, and nobody
\* welcomes him in his own channel any more.
Visit ==
    /\ profile' = [profile EXCEPT !.active = TRUE]
    /\ UNCHANGED <<twitch, lease, queue, req, welcomed, intent, bounds>>

\* The owner opens the channel: the assignment is written and the profile read,
\* then the lease is taken, or a reconcile's is joined.  Any other is ErrBusy.
SubscribeTwitch(r) ==
    /\ req = None
    /\ req' = [pc |-> "token", at |-> r]
    /\ \/ lease = Free /\ lease' = [owner |-> "request", label |-> None]
       \/ lease.label = "reconcile" /\ UNCHANGED lease
    /\ UNCHANGED <<twitch, queue, profile, welcomed, intent, bounds>>

\* The request is over; its lease is released, if it has one, or left behind.
Answer(to) ==
    /\ req' = None
    /\ lease' = IF lease.owner = "request" THEN to ELSE lease

\* What a holder leaves behind until it expires.
Abandoned == [owner |-> Left, label |-> lease.label]

\* The stored grant has to be the broadcaster's.
CheckToken ==
    /\ req # None /\ req.pc = "token"
    /\ \/ authorized /\ req' = [req EXCEPT !.pc = "enqueue"] /\ UNCHANGED lease
       \/ ~authorized /\ Answer(Free)
    /\ UNCHANGED <<twitch, queue, profile, welcomed, intent, bounds>>

\* The reconcile is queued, unless the queue is full or the cost limit is.  One
\* that is running does the work, which is the newer intent only if that
\* reconcile is.
Enqueue ==
    /\ req # None /\ req.pc = "enqueue"
    /\ req' = [req EXCEPT !.pc = "touch"]
    /\ \/ /\ item' = [item EXCEPT ![req.at] = Enqueued(@, "reconcile")]
          /\ intent' = IF ~authorized THEN "none"
                       ELSE IF item[req.at] # None /\ item[req.at].running
                               /\ item[req.at].job = "reconcile" THEN intent
                       ELSE "serve"
       \/ item[req.at] = None /\ UNCHANGED <<item, intent>>
    /\ UNCHANGED <<twitch, lease, work, profile, welcomed, bounds>>

\* Mutant of Touched: the pending welcome is cleared by the next visit.
TouchedOnce == [active |-> TRUE, pending |-> ~profile.active,
                due |-> profile.due \/ ~profile.active]

\* A first visit is to be welcomed, until the welcome is complete.
Touched == [active |-> TRUE, pending |-> ~profile.active \/ profile.pending,
            due |-> profile.due \/ ~profile.active]

TouchProfile ==
    /\ req # None /\ req.pc = "touch"
    /\ profile' = Touched
    /\ IF profile'.pending
       THEN req' = [req EXCEPT !.pc = "welcome"] /\ UNCHANGED lease
       ELSE Answer(Free)
    /\ UNCHANGED <<twitch, queue, welcomed, intent, bounds>>

\* The messages are created one after the other, then the mark is cleared.
Welcome ==
    /\ req # None /\ req.pc = "welcome"
    /\ \/ /\ welcomed # 1..2
          /\ welcomed' = welcomed \cup {IF 1 \in welcomed THEN 2 ELSE 1}
          /\ UNCHANGED <<req, profile, lease>>
       \/ /\ welcomed = 1..2
          /\ profile' = [profile EXCEPT !.pending = FALSE]
          /\ Answer(Free)
          /\ UNCHANGED welcomed
    /\ UNCHANGED <<twitch, queue, intent, bounds>>

\* A request fails, or dies or runs into its deadline.
FailRequest ==
    /\ req # None
    /\ Answer(Free) \/ Answer(Abandoned)
    /\ UNCHANGED <<twitch, queue, profile, welcomed, intent, bounds>>
-----------------------------------------------------------------------------
\* The worker takes the lease; a busy one leaves the item for later.
Process(r) ==
    /\ item[r] # None /\ work[r] = None /\ lease = Free
    /\ item' = [item EXCEPT ![r].running = TRUE]
    /\ lease' = [owner |-> r, label |-> IF item[r].job = "remove" THEN None
                                        ELSE "reconcile"]
    /\ work' = [work EXCEPT ![r] =
                  [pc |-> IF item[r].job = "remove" THEN "check" ELSE "list",
                   job |-> item[r].job, listed |-> {}, todo |-> {}]]
    /\ UNCHANGED <<twitch, users, intent, bounds>>

\* process, after the run: what becomes of the item.
After(i, outcome) ==
    IF i.changed THEN [i EXCEPT !.running = FALSE, !.changed = FALSE]
    ELSE IF outcome = "retry" THEN [i EXCEPT !.running = FALSE]
    ELSE IF outcome = "reauthorized" /\ i.reconcile
         THEN [i EXCEPT !.running = FALSE, !.job = "reconcile"]
    ELSE None

Finish(r, outcome, to) ==
    /\ item' = [item EXCEPT ![r] = After(@, outcome)]
    /\ work' = [work EXCEPT ![r] = None]
    /\ lease' = IF lease.owner = r THEN to ELSE lease
    /\ intent' = IF outcome = "dropped" THEN "none" ELSE intent

At(r, pc) == work[r] # None /\ work[r].pc = pc
Run(r, job) == At(r, "call") /\ work[r].job = job

\* Mutant of Reauthorized: only the notification is believed.
ReauthorizedNever == FALSE

\* twitchReauthorized: a linked profile has a grant that Twitch accepts.
Reauthorized == authorized

\* A removal first looks for a grant, under the lease.
CheckGrant(r) ==
    /\ At(r, "check")
    /\ \/ Reauthorized /\ Finish(r, "reauthorized", Free)
       \/ /\ ~Reauthorized
          /\ work' = [work EXCEPT ![r].pc = "list"]
          /\ UNCHANGED <<item, lease, intent>>
    /\ UNCHANGED <<twitch, users, bounds>>

\* Mutant of Removable: whatever Twitch lists.
RemovableAll(S) == S

\* removeTwitch deletes what is at our own callbacks.
Removable(S) == {s \in S : Own(s)}

\* listTwitch.  Another deployment's subscription drops a reconcile (a callable
\* error) before it changes anything.
ListTwitch(r) ==
    /\ At(r, "list")
    /\ IF work[r].job = "reconcile" /\ ~(\A s \in subs : Own(s))
       THEN Finish(r, "dropped", Free)
       ELSE /\ work' = [work EXCEPT ![r].pc = "call", ![r].todo = Types,
                           ![r].listed = IF work[r].job = "remove"
                                         THEN Removable(subs) ELSE subs]
            /\ UNCHANGED <<item, lease, intent>>
    /\ UNCHANGED <<twitch, users, bounds>>

\* A removal deletes all it listed, a reconcile the failed ones (those that are
\* listed before a live one of their type, or all).
MayDelete(r, s) ==
    /\ At(r, "call") /\ s \in work[r].listed
    /\ work[r].job = "reconcile" => s.status = "failed" /\ s.type \in work[r].todo

Delete(r, s) ==
    /\ MayDelete(r, s)
    /\ subs' = subs \ {s}
    /\ work' = [work EXCEPT ![r].listed = @ \ {s}]
    /\ UNCHANGED <<authorized, notices, flight, lease, item, users, intent, bounds>>

\* A type that has a live subscription needs nothing.
Found(r, t) ==
    /\ Run(r, "reconcile") /\ t \in work[r].todo
    /\ Live(work[r].listed, t)
    /\ work' = [work EXCEPT ![r].todo = @ \ {t}]
    /\ UNCHANGED <<twitch, lease, item, users, intent, bounds>>

MayPost(r, t) ==
    /\ Run(r, "reconcile") /\ t \in work[r].todo
    /\ \A s \in work[r].listed : s.type # t

\* Any other is created: 201, 409 if it exists by now, 403 without the scope.
Post(r, t) ==
    /\ MayPost(r, t)
    /\ subs' = IF t \in Scoped /\ ~authorized THEN subs ELSE subs \cup {New(t)}
    /\ work' = [work EXCEPT ![r].todo = @ \ {t}]
    /\ UNCHANGED <<authorized, notices, flight, lease, item, users, intent, bounds>>

\* Every type is handled, or everything listed is deleted.
Complete(r) ==
    /\ \/ Run(r, "reconcile") /\ work[r].todo = {}
       \/ Run(r, "remove") /\ work[r].listed = {}
    /\ Finish(r, "complete", Free)
    /\ UNCHANGED <<twitch, users, bounds>>

\* A call is refused (rate or cost limit, error) and the item waits or, after
\* six attempts, is dropped; a deadline leaves the lease behind.
Fail(r) ==
    /\ work[r] # None
    /\ \E outcome \in {"retry", "dropped"}, to \in {Free, Abandoned} :
          Finish(r, outcome, to)
    /\ UNCHANGED <<twitch, users, bounds>>

\* A mutation whose outcome is not known keeps the lease and may still land.
Uncertain(r) ==
    /\ flight = None
    /\ \/ \E s \in Sub : MayDelete(r, s)
             /\ flight' = [method |-> "DELETE", sub |-> s]
       \/ \E t \in Types : MayPost(r, t)
             /\ flight' = [method |-> "POST", sub |-> New(t)]
    /\ Finish(r, "retry", Abandoned)
    /\ UNCHANGED <<authorized, notices, subs, users, bounds>>

Land ==
    /\ flight # None
    /\ flight' = None
    /\ \/ flight.method = "DELETE" /\ subs' = subs \ {flight.sub}
       \/ flight.method = "POST" /\ subs' = subs \cup {flight.sub}
    /\ UNCHANGED <<authorized, notices, lease, queue, users, intent, bounds>>

\* An abandoned lease expires; what was under way is over by then.
Expire ==
    /\ lease.owner = Left
    /\ lease' = Free
    /\ flight' = None
    /\ UNCHANGED <<authorized, notices, subs, queue, users, intent, bounds>>

\* A replica restarts: its queue, its run and its request are gone.
Restart(r) ==
    /\ restarts < MaxRestarts
    /\ restarts' = restarts + 1
    /\ item' = [item EXCEPT ![r] = None]
    /\ work' = [work EXCEPT ![r] = None]
    /\ intent' = "none"
    /\ IF req # None /\ req.at = r THEN req' = None ELSE UNCHANGED req
    /\ lease' = IF lease.owner = r \/ (lease.owner = "request" /\ req'= None)
                THEN Abandoned ELSE lease
    /\ UNCHANGED <<twitch, profile, welcomed, deauths>>
-----------------------------------------------------------------------------
Next ==
    \/ Deauthorize \/ SignIn \/ Land \/ Expire
    \/ Visit \/ CheckToken \/ Enqueue \/ TouchProfile \/ Welcome \/ FailRequest
    \/ \E r \in Replicas :
          \/ Deliver(r) \/ SubscribeTwitch(r) \/ Process(r) \/ CheckGrant(r)
          \/ ListTwitch(r) \/ \E s \in Sub : Delete(r, s)
          \/ \E t \in Types : Found(r, t) \/ Post(r, t)
          \/ Complete(r) \/ Fail(r) \/ Uncertain(r) \/ Restart(r)

Spec == Init /\ [][Next]_vars
-----------------------------------------------------------------------------
\* A subscription of another deployment is never deleted, and nothing is
\* created beside it.
OthersKept ==
    [][\A s \in subs : ~Own(s) =>
          /\ \E n \in subs' : n.type = s.type /\ n.callback = s.callback
          /\ subs' \subseteq {[n EXCEPT !.status = "failed"] : n \in subs} \cup subs
      ]_vars

\* A broadcaster whose first channel was his own gets both welcome messages:
\* the welcome is not taken for done before, whichever visits were cut short
\* and whatever else he opened between them.  (One who opened another's channel
\* first is not welcomed.)  And the state is well-formed.
WelcomeInv ==
    /\ TypeOK
    /\ profile.due /\ ~profile.pending => welcomed = 1..2

\* Nothing is left to do on any replica.
Quiet ==
    /\ \A r \in Replicas : item[r] = None
    /\ flight = None

\* When the queues have done their work, Twitch has what was accepted last.
\* After a subscribe since the broadcaster's last sign-in every wanted type is
\* live: deauthorization messages that come late, on any replica, take nothing
\* away for good.  After a removal since the last deauthorization none of our
\* subscriptions is left.
LatestServed ==
    Quiet =>
        /\ intent = "serve" =>
             (\A t \in Types : Live(subs, t)) \/ (\E s \in subs : ~Own(s))
        /\ intent = "remove" => \A s \in subs : ~Own(s)
=============================================================================
