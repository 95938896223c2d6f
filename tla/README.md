# RealtimeChat agent: specifications, checks and proofs

RealtimeChat (muxable/rtchat) merges the chats of a streamer's Twitch, YouTube
and Kick channels.  A Flutter application talks to Firestore; a Go service, the
*agent* (`src/agent`), holds the connections to the providers, keeps their
webhook subscriptions, refreshes users' tokens and runs scheduled jobs.  The
agent runs as several replicas on spot instances: any of them can be replaced at
any moment, they share nothing but Firestore, and every provider call may take
effect although its answer is lost.

This directory specifies the parts of the agent whose correctness depends on
that: the leases, the queue and what it does at Twitch, the subscriptions at
Kick, the goroutines that follow the assignments, the IRC and YouTube readers,
the delivery of events, the token refresh and the EventSub migration.  TLC checks
the modules on small instances, and TLAPS proves every safety property that the
passing runs check for every value of the constants.

Paths below are relative to `src/agent` unless they begin with `src/`.

## Inventory

| Component | State | Operations | What makes it hard | Correct when |
| --- | --- | --- | --- | --- |
| Lifecycle lease, `internal/subscriptionlock` | one Firestore document per provider key: owner, until, job | `With`, `TryWith`, `WithWaitLimit`, `WithWaitLimitBeside` | lost commits, crashes, late releases, requests that land after their deadline, clocks that disagree | lifecycle work of a key never overlaps, and a dead holder delays it for one lease only |
| Twitch queue, `internal/subscriptions/queue.go` | pending items, removal times, cost check, cap, rate budget, wake channel | `Enqueue`, `EnsureApp`, `Deauthorized`, `Run` | requests arrive while the worker is at Twitch with the same broadcaster; cost and rate limits | the latest intent runs, nothing taken is forgotten, no wake-up is lost |
| Assignments and readiness, `cmd/requests.go`, `cmd/ready.go`, the loop of `cmd/main.go` | queued change and goroutine per channel, readers, initial joins | `submit`, `apply`, `applyLocked`, `add`, `seal`, `done` | slow joins, changes during a join, the first snapshot | changes are applied in order, no reader leaks, readiness is neither early nor lost |
| User tokens, `internal/provider` with `internal/oauthhttp/store.go` | grant, profile and refresh lease in Firestore | `AccessToken`, `Load`, `Acquire`, `Finish`, `SignIn` | rotating refresh tokens, a sign-in during a refresh, lost answers | one rotation at a time, the newest grant survives |
| EventSub migration, `internal/eventsubmigration`, `cmd/migrate-eventsub` | snapshot, checkpoint journal, subscriptions at Twitch | forward, rollback, resume | killed between any two calls, lost answers, cost limit | no gap without a checkpoint, nothing called done that is not served |
| Job leases, `internal/jobs/runner.go` | lease document: expiry, last completed slot | `Once`, `Acquire`, `Finish` | clocks read before the transaction, a Finish without an ownership check | one replica runs a job |
| Twitch lifecycle, `internal/subscriptions/{service,twitch,http}.go` | subscriptions at Twitch, each replica's item, the broadcaster's lease, profile and welcome | subscribe, reconcile, remove, re-authorization check, welcome | deauthorization messages that come late or at another replica, uncertain calls, restarts that lose the queue | Twitch has what was accepted last; other deployments' subscriptions are kept |
| Kick subscriptions, `internal/subscriptions/kick.go`, `internal/jobs/cleanup.go` | one document per channel, capacity lease, subscriptions at Kick | subscribe, admit, reserve, create, cleanup | partial and uncertain creation, capacity shared by replicas, cleanup of a channel that is used again | nothing is leaked, documents never claim more than Kick has, the limit is kept |
| YouTube reader, `internal/youtube` | reader lease, chat position, message and channel documents | acquire, renew, discover, open, poll, metadata goroutine, release | takeover while the old reader still writes, writes that land late | every message is written, states are shown, the lease is not stolen |
| Twitch IRC, `internal/handler`, `internal/ircauth` | attempts and their connections, gate locks and slots | join with fallbacks, `Wait`, callbacks, `Close` | a join that is abandoned while it connects; replicas that log in with one account | one reader per call, spaced log-ins |
| Deliveries, `internal/webhook`, `internal/chatmessage`, `internal/jobs/metadata.go` | message documents, channel document, public key | Twitch and Kick deliveries, hedged create, metadata poll | redelivery, lost answers, hedged attempts, a poll beside a webhook | what was acknowledged is written, followers are counted once while their message lives, a poll yields |
| Keyed locks and health, `cmd/main.go`, `cmd/stuck.go` | lock table, busy time | `Lock`, health check | | one holder per key |
| OAuth, catalog, callable and public HTTP, chat actions, API clients, observability | caches at most | request handling | | |
| Application, functions, devices (`src/lib`, `src/functions`, ...) | | | | |

Interactions.  HTTP handlers (`subscriptions/http.go`, the webhooks) put
requests into the queue; its worker takes the broadcaster's lifecycle lease and
calls Twitch; a subscribe request takes the same lease itself, and may run beside
a reconcile.  The migration takes that lease too.  The snapshot loop submits the
changes of `assignments` to per-channel goroutines, which open and close readers
and report to the readiness check.  Readers, subscriptions and chat actions ask
the provider package for tokens.  Scheduled jobs run under the job lease.

## Modules

`X` is a component, `MCX` gives its constants values for TLC, and `X.cfg` is its
passing run.  `X_proofs` holds the theorems of `X`, except that three modules hold
those of two components each: `Scheduling_proofs` those of `TwitchQueue` and
`JobLease`, `ChatReaders_proofs` those of `YouTubeReader` and `IRCJoin`, and
`TwitchSubscriptions_proofs` those of `TwitchLifecycle` and `EventSubMigration`.
These extend both, so the second of each pair has a specification with a name of
its own: `JobSpec`, `JoinSpec`, `MigrationSpec`.

| Module | Models | Lines of code |
| --- | --- | --- |
| `SerialWork` | the promise of the lease: work of a key is serial | abstract |
| `SubscriptionLock` | the lifecycle lease, one action per step of `with` | `lock.go` |
| `TwitchQueue` | the queue and its worker | `queue.go`, parts of `twitch.go` and `http.go` |
| `RequestManager` | assignments, readers and readiness | `requests.go`, `ready.go`, the loop of `main.go` |
| `TokenRefresh` | token refresh and sign-in | `provider/service.go`, `provider/firestore.go`, `oauthhttp/store.go` |
| `EventSubMigration` | one snapshot entry, forward and back | `migrate.go`, `api.go`, `snapshot.go` |
| `JobLease` | the lease of scheduled jobs | `jobs/runner.go` |
| `TwitchLifecycle` | what the queue's jobs do at Twitch, on several replicas | `subscriptions/twitch.go`, `service.go`, `http.go` |
| `KickSubscriptions` | subscriptions at Kick, their documents, capacity and cleanup | `subscriptions/kick.go`, `jobs/cleanup.go`, `jobs/http.go` |
| `YouTubeReader` | the readers of one YouTube channel | `youtube/{client,store,metadata,discovery,protocol,actions}.go` |
| `IRCJoin` | opening a Twitch reader, and the gate it passes | `handler/{handler,twitch}.go`, `ircauth/gate.go` |
| `MessageDelivery` | webhooks, hedged creation and the metadata poll of one channel | `webhook/{twitch,kick}.go`, `chatmessage/create.go`, `jobs/metadata.go` |

The later modules rest on the earlier ones.  `TwitchLifecycle` and
`KickSubscriptions` use the lease as an owner with a label: `SubscriptionLock`
justifies that its holder excludes others and that what a dead or uncertain
holder left behind is over when the lease expires.  `TwitchLifecycle` composes
the queues of several replicas, the lease and Twitch; of the queue it keeps what
decides which job runs next, and `TwitchQueue` covers its pacing.
`RequestManager` takes `newClient`'s answer as a choice; `IRCJoin` and
`YouTubeReader` are what happens inside.
`PROJECT.json` maps every definition to its lines.

Conventions.  Time is discrete; deadlines are kept as what is left of them, so
that a `Tick` counts them down and the state space is finite without a bound on
time (`JobLease` compares absolute slots, so it keeps the true time and bounds
it).  Clocks that disagree are a constant `Skew` per replica, at most `MaxSkew`
(in `MessageDelivery` one is chosen for each poll).
A timeout of the code ends a step in time; what the provider or the store still
does with a canceled request is bounded by `Settle` or `Lag`, and these bounds
are the assumptions of the theorems.  Variables listed last, "what the
properties speak of", are history: no step depends on them.  A definition whose
comment begins "Mutant of" is a plausible mistake, used to confirm that a
property notices it; no specification uses it.

### SubscriptionLock

A member of `Calls` is one invocation of `with`, and so one random owner id.
The transaction is two steps, `ReadFree`/`ReadHeld`/`ReadBeside` and
`Commit`/`Conflict`: Firestore's optimistic concurrency lets a commit succeed
only if what was read is still there.  `Commit` covers a lost answer too: the
call may be told of a failure and leave the document behind.  `StartWork`
follows a grant within `Lag`; the work runs until its deadline (`WorkLimit`,
45 s in the code) or the end of the caller's context, and may leave a provider
mutation under way (`Mutate`, `flight`) that takes effect up to `Settle` later
(`Land`).  `FinishRetain` is the path that keeps the lease after an uncertain
mutation, `FinishRelease` and `Release` the one that deletes it, when it is still
the call's own.  `End` is the caller's context, `Crash` a spot replacement.
The migration is a caller as well: a failed break-before-make restores with
30 s of its own after the 45 s.  `restore` wraps only the cause of the failure
(`migrate.go:796`), so an uncertain result of the restoring call itself releases
the lease instead of retaining it.  What `FinishRelease` assumes, that a call
which releases has no mutation under way, does not hold there, and the exclusion
is not claimed for a restoring call that lands late.

### TwitchQueue

One replica's queue.  `enqueue` has its four cases (`KeepItem`, `SwitchItem`,
`AddItem`, `RefuseItem`); `Enqueue`, `EnsureApp`, `Notified`, `Revoked` and
`IgnoreRevoked` are its callers.  The worker's loop is `BudgetWait`,
`StartCheck` with `EndCheck` or `FailCheck`, `Pick` or `Sleep`, `Wake`; what
`process` makes of the answer is one of `Superseded`, `Busy`, `CostHeld`,
`Reauthorized`, `Complete`, `RateLimited`, `Rejected`, `Retry` and `GiveUp`.
What happens at Twitch and in the lease is any of these outcomes, with any rate
limit state that Twitch may report (`Observe`).  A removal under way may have
deleted something (`RemoveOne`) when it ends, in whichever way; `Freed` is what
`process` does about that.  Requests come between any two steps.

### RequestManager

The snapshot loop adds the first snapshot's channels, submits them, seals, and
then submits changes.  A goroutine per channel takes the latest queued change,
applies it under the channel's lock, opens a reader (`StartJoin`, then `Join` or
`JoinFails`), keeps one, or removes one, closes the replaced one, and reports to
the initial joins.  `seal`, `done` and `check` are separate critical sections.
`Slow` keys are those whose join may never return.  The keyed lock is taken
without contention here: a channel has one goroutine (`OneWorker`), and nobody
else takes it.

### TokenRefresh

All calls of `AccessToken` for one user and provider.  A grant is a number with
its refresh token and the sign-in it descends from (`root`).  `Load`, `Acquire`,
`requestToken` and `Finish` are separate steps, each of which can fail, and each
transaction can commit with its answer lost (`AcquireUnknown`,
`FinishUnknown`).  The provider either rotates refresh tokens or not
(`rotates`, chosen at the start).  The OAuth callback stores a grant and then a
profile, or fails between the two; the user may withdraw the grant at the
provider.

### EventSubMigration

One entry of the snapshot: a source at the legacy callback and perhaps a
destination that was at the agent's callback before.  The states `pc` are the
calls the migrator makes to Twitch and to its checkpoint; `Fails` and the
actions under `LostAnswer` are an error before and after a call took effect;
`Crash` ends the run anywhere and `Start` resumes it, in either direction.
`Remove` and `Subscribe` are the agent's own work on the broadcaster's
subscriptions, which the lease keeps out of a run.

### JobLease

Each replica calls `Once` with its clock, tries `Acquire` within its limit, runs
the job within its timeout, and sends a `Finish` that names no owner.  A
canceled write may land for `Lag` longer.  Replicas crash anywhere.

### TwitchLifecycle

One broadcaster, whose subscriptions are a set of type, callback and status.
`SubscribeTwitch`, `CheckToken`, `Enqueue`, `TouchProfile` and `Welcome` are a request;
`Deliver` is a deauthorization message at one replica; `Process`, `CheckGrant`,
`ListTwitch`, `Delete`, `Found`, `Post` and `Complete` are the worker's run.  `Fail` and
`Uncertain` end a call, the second with the mutation still under way (`flight`,
`Land`); `Restart` loses a replica's queue and leaves its lease.  `intent` is the
last request that a queue accepted and has not lost.  `Visit` is the same user
opening a channel that is not his, or one at Kick: it marks him active and no
welcome pending, so the visit to his own channel that follows does not begin one.
`profile.due` remembers whether a welcome was begun.

### KickSubscriptions

A subscription id is abstracted to its event.  `Get`, `Touch`, `List`, `Record`,
`AcquireCapacity`, `Admit`, `Reserve` and `Post` are `ensureKick`; `Query`,
`NextIdle`, `Skip`, `CleanList`, `Delete` and `Drop` are the cleanup.  A POST may
create part of what it asks for.  A lease whose holder still works may be taken
once per channel (`disturbed`), which stands for clocks that disagree by more
than the lease allows for.

### YouTubeReader

`Acquire`, `Renew`, `Release` and `Expire` are the lease; `Reading` is what the
session does in turn (discovery, opening, writes, pages, the end of the chat);
`MetaUpdate` and `MetaWrites` are the goroutine beside it.  A write whose context
ends may land later (`Land`).  A reader writes its whole page before it asks for
the next.

### IRCJoin

A member of `Joins` is one call of `NewClient`, with attempts that are anonymous,
as the broadcaster, and as the realtimechat account.  `Lock`, `Reserve`, `Claim`
and `GateFails` are the gate.  A slot is the version and the age of its document;
`Reserve` compares the age with a second on the replica's clock, which is off by
its `Skew`, and notes the version; a commit over another version is a `Conflict`,
and one whose answer is lost claims the slot without the caller's knowledge.  Each
attempt has a connection of the IRC library,
which dials, logs in (`OnConnect`), enters the channel (`OnRoomState`), fails or
connects again on its own.  `Timeout` gives an attempt up.

### MessageDelivery

A handler serves one delivery, or one message of an IRC reader.  `tries` are the
attempts of a hedged creation with their outcomes; an answer may be lost after
the document was made, and an attempt that was given up may still land (`late`).
Twitch's messages are written by one plain write, its follows by one create that
skips the rest when the follower has a document.  `MessageExpires` is the TTL of a
message document: what the properties say of it begins anew with the next one.
Instants are those of the database, counted from the start of the poll; `stamp` is
the channel document's update time, and `Newer` compares it with the start as the
poll's replica has noted it, off by its `skew`.
One attempt is taken for one request.  What the Firestore client library repeats
by itself is outside of this repository: if it repeats a Create whose answer was
lost, a single attempt could be answered with its own document.  The instance has
events of Kick and of Twitch for one channel document, which is more than a real
channel meets.  Kick's
`livestream.metadata.updated`, which has no message, is not an event of the
instance; the path of its fields is the one of the others.

## Runs

| Run | Configuration | Result |
| --- | --- | --- |
| `lock` | three calls on one key: a reconcile with its label, a removal with a fast clock, a subscribe with an acquisition budget that may run beside reconciles | passes, 239 k states |
| `queue` | two broadcasters and the app key, a queue of two places, three requests, two attempts | passes, 173 k states |
| `requests` | a Twitch channel whose joins may hang, a YouTube channel, three changes after the first snapshot | passes, 278 k states |
| `tokens` | two calls whose clocks disagree, three grants, rotating or not | passes, 4.9 M states |
| `migration` | both directions, ten subscriptions, three faults | passes, 580 k states |
| `migration_rollback` | one fault | `RolledBackRestores` is violated |
| `jobs` | two replicas, one ahead by `MaxSkew`, more than two slots | passes, 202 k states |
| `kick` | two channels of which Kick allows one, two subscribes and the cleanup, two events, one overtaken lease | passes, 535 k states |
| `lifecycle` | one broadcaster on two replicas, a scoped and an unscoped type, one deauthorization, one restart | passes, 988 k states |
| `youtube` | two clients, one video, a chat of a message and its deletion, one fault | passes, 310 k states |
| `irc` | two calls on one or two replicas, one anonymous attempt, one shutdown, clocks ahead and behind by half of the second between claims | passes, 2.8 M states |
| `delivery` | two handlers, three deliveries of five events, two attempts, documents that expire; or two deliveries beside a poll on a clock that is off | passes, 473 k states |

What the passing runs show:

- `lock`: work and its remote mutations never overlap (`Exclusion`); the protocol
  implements `SerialWork` (`SerialSpec`); and every call returns (`Answered`).
- `queue`: a request that was taken stays until a run begins after it
  (`NotForgotten`), the worker never sleeps on work (`NoLostWake`), a removal that
  deleted something and then failed or was superseded has lifted the cap, and no
  other run begins before the held items were rechecked (`FreedCostUsed`), every
  request gets its run (`EventuallyRuns`) and held items are rechecked
  (`HeldRechecked`).
- `requests`: readers are neither leaked nor used after they are closed, a
  channel has one goroutine, and readiness waits for the whole first snapshot
  (`ReadersInv`); a channel comes to rest as its latest change says (`Settled`);
  readiness comes (`EventuallyReady`), and a join that hangs holds up no other
  channel (`Unblocked`).
- `tokens`: no two calls have a request under way (`OneRotation`), a rotated
  grant is dropped only with its answer and a late refusal does not delete a newer
  profile (`GrantInv`), a grant is replaced only by one as new that keeps a refresh
  token (`NewestKept`) and deleted only when it is dead (`DeletedDead`).
- `migration`: what the checkpoint calls done or rolled back is served
  (`CheckpointInv`); nothing stops being served without a checkpoint that says so
  (`BreakRecorded`); a destination older than the migration is kept
  (`OriginalKept`); a gap is closed by resuming (`GapClosed`).
- `jobs`: one replica runs a job (`OneRunner`), and a Finish finds the lease it
  means to end (`FinishLive`), which is why it needs no ownership check.
- `kick`: whatever is at Kick, or may still be created there, has a document
  (`NothingLeaked`); admissions of different channels do not share the last place,
  and a document that claims a complete, recently checked set is right
  (`DocumentInv`); the cleanup takes nothing from a channel that is in use
  (`OnlyIdleRemoved`).
- `lifecycle`: when the queues are empty Twitch has what was accepted last
  (`LatestServed`); another deployment's subscriptions are neither deleted nor
  doubled (`OthersKept`); the welcome of a user whose first channel is his own is
  marked complete only when it is (`WelcomeInv`).
- `youtube`: a reader that goes on has left no message behind, although a
  deletion carries the id of its message (`NothingSkipped`); the offline message
  is true (`OfflineInv`); a lease that is live is not taken from its owner
  (`LeaseKept`); a live stream is announced (`LiveShown`) and the channel ends up
  offline when nothing is on air, whatever lands late (`EndShown`).
- `irc`: of a call's clients one at most goes on reading, and one that was given
  up by its attempt never enters the channel (`OneReader`; a reader closed between
  two connections is excepted, see the findings); the gate's lock is always given
  back (`GateInv`); two claims of an account's slot are at least `Second - MaxSkew`
  apart (`Spaced`): a replica whose clock is ahead claims early by as much, and no
  interleaving of transactions adds to that.
- `delivery`: what was acknowledged is written (`AckWritten`); a write does not
  take its own document for a duplicate (`NoFalseDuplicate`); a follower is
  counted at most once until his message expires (`FollowInv`); a poll overwrites
  what a webhook wrote after it started only within `MaxSkew` of the start
  (`PollYields`).

An invariant named `...Inv` is the module's type invariant with the safety
invariants its comment names.  The type invariants of `SubscriptionLock`,
`TwitchQueue` and `JobLease`, and `LeaseCovers`, `OwnRelease`, `LatestRuns` and
`WantedKept`, are not repeated by the runs: they are proved.

### Bounds, and why they are enough

- `lock`: limits of one or two units that satisfy the assumption of the theorems
  with nothing to spare (1 + 1 + 1 + 1 < 5), so that every deadline, expiry and
  landing can coincide or pass each other.  Three calls are a holder, a waiter
  and one that runs beside; the theorems cover any number.
- `queue`: three keys for two places makes the queue full; three requests are
  enough for reconcile, remove, reconcile on one key during one run, the
  longest pattern that `changed` has to tell apart; two attempts reach both
  `Retry` and `GiveUp`.  All delays are 1 but the backoff, which grows.
- `requests`: two channels, as nothing relates more than two; three changes are
  added, removed, added during one join; a reader more than there are channels,
  for the one that is being replaced.
- `tokens`: two calls are the pair that every property speaks of; three grants
  are a sign-in, its refresh and a newer sign-in.
- `migration`: three faults are, for instance, a refusal for cost, a lost answer
  and a crash; ten subscriptions are never used up before the faults are.
- `jobs`: eleven units of time and slots of five let a slow Acquire of one slot
  meet the next slot's completion.
- `kick`: two channels and a limit of one are the smallest instance in which
  admissions compete; two events make a partial creation; one overtaken lease is
  enough to have two holders.
- `lifecycle`: the second replica is the one that a late message reaches; a
  second deauthorization repeats the first from a state that is covered.
- `youtube`: two clients are a reader and its successor.  One fault at a time: a
  crash, a late renewal or a failed one.  The whole chat is in the initial page or
  follows it; the actions that are not recognized are written by nobody, and the
  instance has none.
- `irc`: one anonymous attempt and the two accounts give every kind of fallback;
  a second anonymous one repeats the first.  The second has two units and clocks
  are off by one, the smallest values for which the claims that `Spaced` allows are
  neither all nor none; two calls are the two that compete for a slot.  `MCApart`
  leaves out the states in which a client is connected while a slot is young: a
  client's progress does not depend on a slot's age, nor the gate on a client, so
  the same step is explored when the slot has grown old.
- `delivery`: three deliveries are an event, its redelivery, and another in
  between; two attempts of the code's three make a hedge beside a first attempt.
  A poll sees the channel and no messages: beside it `MCBesidePoll` explores two
  deliveries of one attempt each, and its two units of time and a clock off by one
  let a webhook come within the clocks' difference and later.

`CHECK_DEADLOCK FALSE` is used where a behaviour may end: the assignments stop
changing, time ends in `jobs`, the operator has finished.

### Fairness

- `lock` (`FairSpec`): time passes, Firestore answers transactions and releases,
  polls recur, work honors its deadline.  Nothing forces calls, ends, crashes or
  mutations.
- `queue`: the worker goroutine is scheduled and its calls have timeouts
  (`WF(Work)`), time passes.  For progress the worker's own steps take no time
  (`PromptNext`): otherwise time could always run out between a decision and the
  step that follows it.  The run checks the safety properties under `PromptNext`
  as well; the theorems prove them for `Next`, where a `Tick` may come anywhere.
  `EventuallyRuns` supposes that the rate limit's reserve is not used up for ever, and excepts
  items that the cost limit holds.
- `requests`: the loop and the goroutines are scheduled; a join returns, by its
  10 s limit at the latest, except for `Slow` keys.
- `youtube`: timers fire, and a request or write that is retried succeeds in the
  end; nothing forces crashes, cancellations or what YouTube does.  `Open` is
  strongly fair, as discovery and opening alternate and every round is another
  try.  The chat of a video that has ended ends.
- `kick`, `lifecycle`, `irc`, `delivery`, `tokens` and `jobs` check safety only.
- `migration`: the operator resumes a run that has not finished, a run goes on,
  and Twitch verifies callbacks; faults, among them refusals for cost, are
  finitely many.

## Findings

`migration_rollback` is a violation run; `PROJECT.json` quotes the lines that
disagree: with a destination older than the migration, a crash between deleting
the source and recording it makes rollback believe that it has nothing to
restore.

What else the modelling met, where a comment says more than the code does, or
where the properties had to except something:

- Lease: a subscribe that runs beside a reconcile takes no lease and goes on when
  the reconcile releases; a removal can then run at the same time, which
  `queue.go:403` excludes.
- Queue: the time of a removal is not cleared when the broadcaster subscribes
  again, so the revocations of a second deauthorization within five minutes are
  ignored as repeats (`queue.go:128`).  The notification still removes.
- Readiness counts a channel whose join failed, although `ready.go:5` promises
  channels that are being read.
- Tokens: the lost answer of a rotating provider leaves a consumed refresh token
  in the store; the next refresh is refused and signs the user out, although
  `service.go:220` says that transient errors never do.
- Jobs: slots are compared for inequality only, so a slow Acquire can run an
  earlier, completed slot again.
- Migration: a crash between a restore's creation and its checkpoint leaves a
  legacy subscription that no checkpoint names.  An uncertain restoring call is
  formatted into the error and not wrapped (`migrate.go:796`), so that the lease
  is released although `migrate.go:338` means to keep it "after an uncertain
  mutation, as everywhere else".
- Lifecycle: a subscribe beside a reconcile that began while the app was
  deauthorized, and was refused the scoped types, adds nothing to the queue, so
  these types stay missing until the channel is opened again
  (`twitch.go:83`).  A reconcile that waits on another replica may run after a
  removal and create the unscoped types again: `queue.go:149` speaks of one
  replica.  `intent` excludes both.  A user who opened another's channel, or one
  at Kick, before his own is active already and is never welcomed
  (`twitch.go:80`, `twitch.go:119`).
- YouTube: when the player request fails at the end of the chat the offline
  message is written although the stream may be live, and as the online message
  is created once it is the last word (`guessed`).  The metadata goroutine takes
  the stream for announced before its write succeeds.  A reader that takes over
  after the end clears `onlineAt` but writes no offline message.  The ids of bans
  contain the time of reading, so a takeover repeats them.
- IRC: `Close` while the library is between two connections has no effect, and
  the client reads on after it reconnects (`missed`).  A reader whose client stops
  after the join was successful is not noticed.  The slot spaces the claims, not
  the log-ins that follow them: the token may be renewed in between, and the
  library connects again without the gate.  Claims come early by what a replica's
  clock is ahead of the database's.
- Deliveries: a follow whose message was created and whose count was not is not
  counted while the message lives; a follow after it has expired is counted again.
  Kick's `MergeChannel` does not touch a document that needs no change: a poll that
  began, and even read the channel, before such a delivery finds nothing newer and
  puts its older data over what the delivery confirmed, although `metadata.go:275`
  says that a newer webhook wins.  `PollYields` speaks of what a webhook wrote, and
  the next poll repairs the rest.  A poll on a clock that is ahead overwrites a
  webhook that came as soon after its start.  Follower totals are written without that comparison.  After a key rotation within a minute of a fetch,
  Kick's deliveries are refused until the minute is over; Kick delivers them
  again.

## Proofs

All theorems hold for every value of the constants that satisfies the named
assumptions.  Nothing is assumed beyond them.

**SubscriptionLock**.  Assumptions `CallAssumption` and `TimeAssumption`:
`Lag + WorkLimit + Settle + MaxSkew < LeaseTTL`.  For the code that reads: the
commit's latency, 45 s of work, what a provider request takes to land and the
clocks' disagreement fit into 90 s.  `Exclusion` is not inductive: nothing in it
says why a second call cannot get the lease.  The inductive invariant adds that
the document, and what any transaction has read, name calls past acquisition,
whose expiry is never stamped again (`Owned`); that a call about to commit over a
document saw it expired (`SeenFree`); that what is left of a lease covers what is
left of the work and of its mutation, on every clock (`Room`); and that an active
call owns the document (`Holds`).  From it follow
`Coverage`, `MutualExclusion`, `ReleaseOwnership` and `Refinement` (the initial
states and every step map to `SerialWork`).

**TwitchQueue** (`Scheduling_proofs`).  Assumptions `QueueAssumption`, `NoItemAssumption`: keys
are distinct and delays are naturals.  The invariant relates the item to what
the properties remember: while a key's job runs, its item is marked running, and
an intent since the run began shows as `changed` or as a different job
(`RunInv`, `IntentInv`); a wanted reconcile shows in the item's `reconcile` or
`job` (`WantedInv`).  It yields `NothingForgotten`, `LatestIntentRuns` and
`ReconcileKept`, for `Next` with any interleaving of time.  `FreedCostIsUsed`
(`FreedCostUsed`) follows what a removal deleted through every way it can end.
`NeverOverslept` (`NoLostWake`) has an invariant of its own, `WakeInv`: an item
marked running is the one the worker is at, or was when it stopped (`Marked`),
and a sleeping worker without a signal has its timer set no later than the end of
the rate limit's reserve, or no later than every item's time and, for the held
ones, the cost check's (`Alarm`).  The last part is what a request that only keeps
an item may not spoil, and what `Tick` lowers on both sides.

**JobLease** (`Scheduling_proofs`).  Assumption `JobAssumption`: `AcquireLimit + Settle +
FinishLimit + Lag + MaxSkew < Margin`, that is, 15 s, 10 s, late writes and
clocks fit into the minute that a lease lasts beyond the job's timeout.  The
invariant says that every step is within its deadline (`Timely`), that a busy
replica's lease is in the document (`Holds`), and that a replica whose Finish is
on its way does not run again (`Alone`); the lemma `Covered` derives that it is live on every clock.
`JobExclusive` (`OneRunner`) and `FinishNeedsNoCheck` (`FinishLive`) follow.

**RequestManager**.  Assumption `ManagerAssumption`: names are distinct.
`Settled` speaks of a channel at rest, so the invariant says what holds while it
is not: a channel has one goroutine exactly while it is marked running
(`Workers`); the map's readers are open, each under one key; the reader that a join
replaces is the one in the map, one being closed is in it no more and closed by
nobody else, and every open reader is one of these (`Readers`); what is queued is
the channel's latest change, and when nothing is, that change is in the
goroutine's hands or was applied (`Changes`); what the first snapshot
contained is still to be submitted, pending or applied (`First`).
`ReadersAccounted` (`ReadersInv`) and `ChannelsSettle` (`Settled`) follow, for any
set of channels, readers and goroutines and any number of changes.

**TokenRefresh**.  Assumptions `NameAssumption` and `TimeAssumption`: what a
canceled request may still do, and the persisting of an answer, each fit into the
safety window with the clocks' disagreement (`Settle + MaxSkew <= Safety`,
`Persist + MaxSkew <= Safety`), and persisting takes some time at least.
`OneRotation` needs to know why the other call does not refresh: the invariant
says of every call where it is and what it carries (`Phase`), that until its
request is over and its answer stored the lease is its own and live on every
clock (`Leased`), that what it has seen was issued, and is what is stored where
the two have one number (`Seen`, `Old`), that the answer it carries derives from
what it saw, keeps a refresh token and was neither seen nor stored by anyone
(`Carried`), and that a refusal it carries is about a dead refresh token (`Refused`).  It
yields `RefreshesOneAtATime`, `GrantsStayUsable`, `NewestGrantKept` and
`OnlyDeadDeleted`.

**IRCJoin** (`ChatReaders_proofs`).  Assumption `JoinAssumption`.  That a call leaves no second
reader is a statement about clients it no longer holds: the invariant adds to
`OneReader` that a client given up while it connected belongs to an attempt that
the call has turned away from for good (`GoneBehind`), so that a late connection
is never the current one; and that the gate's lock is held by a call at the
gate (`Held`).  `LoginsSpaced` rests on what a transaction has read: a call about
to commit has seen a version that is no newer than the slot's, and if it is the
slot's then the document is at least `Second - MaxSkew` old (`ReadInv`); time and
the others' claims keep that, the first because a document only grows older, the
second because they make the version another one.  The assumption says that every
clock is within `MaxSkew` of the database's.  `GateGivesBack` and `OneReaderOnly`
follow from the rest.

**MessageDelivery**.  Assumption `DeliveryAssumption`: the kinds of events
are those four, and a follow has no fields of the channel to merge, as in
`webhook/twitch.go`.  The invariant follows a handler through its attempts
(`HandlerInv`): where one of them was answered with "ok" or "exists" the document
exists; what the handler made is the document of its event, until it answers; and
a single attempt that is under way, or that found the document there, did not make
it.  A follower's count is 0, or 1 with the handler that made his document gone
(`Counted`), and an expiry takes document and count together; and while a poll that
has read the channel was not overtaken, the channel's update time is not after the
start that the poll's clock gave, which is at most `MaxSkew` late (`PollInv`).  `AcknowledgedIsWritten`,
`OwnIsNoDuplicate`, `FollowersCountedOnce` and `PollsYield` follow, for any number
of deliveries, attempts and polls.

**KickSubscriptions**.  Assumption `KickAssumption`: names are distinct and
there are finitely many channels.  The theorems hold for any number of overtaken
leases and of uncertain requests; the two bounds of the instance play no part.
The invariant has three layers.  `Leases`: unless its lease was overtaken, a
channel's lease is with the one process at work on it, or was left for the
uncertain request that may still land.  `Records`: a request has written a recent
document before it creates anything, and keeps what it listed equal to what Kick
has (`Caller`); a document that nobody wrote since the cleanup read it is idle and
covers what Kick has (`Cleanup`); a late POST has its document, a late DELETE is
for an idle one (`Flying`); and every document is right (`Channel`).  `Room`: the
one that holds the capacity lease and has yet to write its document has room for
it.  Each layer is proved from the ones before.  `SubscriptionsTracked` holds
whichever leases are overtaken; `DocumentsTrue` and `InUseIsKept` where they are
not, as the properties say.

**TwitchLifecycle** (`TwitchSubscriptions_proofs`).  Assumption
`LifecycleAssumption`: names are distinct and the scoped types are wanted ones.
`LatestServed` speaks only of a system that has come to rest, so the invariant
says how an accepted intent is kept on its way.  `Struct`: a replica at work owns
the lease (`Owner`), a request that was given up has left it behind and is for our
own subscription (`Flights`), a run deletes only its own and creates only while no
other deployment is there (`Worker`), and a run and its queue item agree (`Queued`).
`ServeInv`: after a subscribe the grant is accepted, and either another deployment
serves, or some replica has a reconcile that runs after everything under way or is
at work with every type it has dealt with live (`Serving`), or all types are live
and nobody removes (`AllServed`).  `RemoveInv` is its counterpart: no item is anything but
a removal, and one of them will see, or has listed, all that is ours, or nothing is
left and nothing is being created.  At rest only the last alternative of each is
possible, which is `LatestIsServed`; `OthersStay` needs `Struct` alone, since it is
the listing made under the lease that keeps a late POST from being made beside
another deployment; `WelcomeComplete` has a conjunct of its own.  The two bounds of
the environment play no part.

**EventSubMigration** (`TwitchSubscriptions_proofs`).  Assumption
`ConstantAssumption`.  What is on disk is right because of what a run has in memory
between its steps: the replacement it found or created is at the callback it moves
to, is not what it means to delete, and is enabled before anything is deleted, and a
break is on disk before it is made (`Memory`).  Subscriptions keep their callback,
the snapshot's are where it says, and a restored one is a new one (`Shape`); a run
under way is neither done nor rolled back (`Flags`).  `RolledBackServed` also needs
a rollback that finds nothing to do to be right: a source without a trace of the
migration in its checkpoint is enabled itself or at the destination that it was
deleted for (`Safe`).  A crash forgets the memory and keeps the rest, so that it
preserves the invariant in any step.  `CheckpointReliable`, `BreakIsRecorded` and
`OriginalStays` follow, for any number of runs, attempts, failures and crashes, in
any order of directions.

**YouTubeReader** (`ChatReaders_proofs`).  Assumption `ReaderAssumption`: names are
distinct, and the chat is any sequence of messages, deletions and actions of unknown
kinds whose ids are within its length.  `NothingSkipped` is threatened by other
readers and by late writes, so the invariant says of the documents that each has the
content its id names and that an offline one is true (`Docs`), and of a write that
is still to land that it will do no other (`Flights`); documents then only grow.
Of each reader it says that the actions it has passed are written (`Passed`), that
it has a video where it uses one, and that it calls online what was live and
offline what has ended (`Place`).  `ChatComplete` and `OfflineHasEnded` follow;
`LeaseStays` is proved step by step from the types.

In all of them the type invariant is the first conjunct of the inductive invariant, and TLC
checked each invariant on its run's instance.

Only model-checked:

- every liveness property (`Answered`, `EventuallyRuns`, `HeldRechecked`,
  `EventuallyReady`, `Unblocked`, `GapClosed`, `LiveShown`, `EndShown`): the prover
  has no reasoning about fairness;
- the violation of `RolledBackRestores`, which is a counterexample.

## What is not modelled

- `ensureTwitchApp`: reconcile's protocol for the one subscription of the app.
  The queue's handling of that key is modelled.
- The migration's groups and chunks, pacer, retries and files.  Entries of
  different groups do not touch each other; the pacer decides only when a call is
  made; the journal is a sequential file whose torn last line is ignored and
  removed by the compaction before it is appended to again.
- The keyed lock's table and the stuck detection (`cmd/main.go:84`, `cmd/stuck.go`):
  a channel has one goroutine (`OneWorker`), so the lock is never contended.
- The caches of application tokens and credentials: two callers that find one
  empty both fill it, with values that are equally good.
- The OAuth sessions and redirects (`oauthhttp/server.go`): a session document is
  consumed by one transaction; the writes of a sign-in are part of
  `TokenRefresh`.
- Parsing, formatting and field mappings (YouTube pages and actions, Alchemy's
  ABI, catalog and search, callable serialization): data without control.  What a
  parser decides is a choice in the module of its component.
- The chat actions and API clients: one request each; the modules model a
  request by its outcomes.
- Observability, metrics, the command-line parsing: no state that matters.
- The Flutter application, the remaining functions, rules and on-device
  packages: user interface, platform code and configuration.

## Plan

Done: the modules of all components named above, and a theorem for every safety
property that a passing run checks.

What could follow: the parts listed under "What is not modelled", of which
`ensureTwitchApp` is the closest to a module that exists; and fewer bounds in the
liveness runs, which remain the only claims that rest on small instances.
