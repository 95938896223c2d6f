------------------------- MODULE EventSubMigration -------------------------
(***************************************************************************)
(* agent/internal/eventsubmigration: moving one EventSub subscription of   *)
(* the snapshot from the legacy callback to the agent's, and back, by a    *)
(* command that checkpoints its progress, may be killed at any point, and  *)
(* is run again.                                                           *)
(*                                                                         *)
(* The subscriptions of the same type, version and condition are named by  *)
(* numbers: First is the snapshot's source, Destination one at the         *)
(* agent's callback that the snapshot may also hold.  What others cost is  *)
(* not tracked: any listing may report room, none, or less than none, and  *)
(* any creation may be refused for cost.                                   *)
(*                                                                         *)
(* Forward and rollback share their states.  To(mode) is the callback they *)
(* create at, From(mode) the one they leave.                               *)
(***************************************************************************)
EXTENDS Integers

CONSTANTS
    NoSub,        \* no subscription
    Modes,        \* the directions the operator runs: "forward", "rollback"
    MaxAttempts,  \* --max-attempts
    RetryFailed,  \* --retry-failed
    MaxIds,       \* bound: subscriptions there ever are
    MaxFaults     \* bound: failures, crashes and refusals

First == 1
Destination == 2
Ids == First..MaxIds

ASSUME ConstantAssumption ==
    /\ Modes \subseteq {"forward", "rollback"}
    /\ MaxAttempts \in Nat \ {0}
    /\ RetryFailed \in BOOLEAN
    /\ MaxIds \in Nat /\ MaxIds >= Destination
    /\ MaxFaults \in Nat
    /\ NoSub \notin Ids

VARIABLES
    at,       \* the callback of each subscription
    state,    \* its status at Twitch, "absent" when there is none
    originals,\* the ones in the snapshot
    entry,    \* the checkpoint's Progress for the source, as on disk
    mode,     \* the direction of the last run
    pc,       \* where the run is, "idle" when there is none
    listing,  \* the statuses the broadcaster's listing showed
    drop,     \* those it means to delete
    new,      \* the replacement it found or created
    faults,   \* how many failures there have been
    reversed, \* a rollback has been begun
    dropped   \* the broadcaster's subscriptions were removed under the run

remote == <<at, state>>
world == <<originals, dropped>>
direction == <<mode, reversed>>
run == <<direction, pc, listing, drop, new>>
migrationVars == <<remote, world, entry, run, faults>>

Progress == [target : Ids \cup {NoSub}, created : BOOLEAN,
             deletedOld : BOOLEAN, rolledBack : BOOLEAN,
             sourceDeleted : BOOLEAN, restored : Ids \cup {NoSub},
             attempts : 0..MaxAttempts]

Nothing == [i \in Ids |-> "absent"]
Status == {"absent", "pending", "enabled", "failed"}
Steps == {"idle", "list", "prepare", "found", "await", "delete", "commit",
          "break", "breakDelete", "breakCreate", "breakSave", "breakAwait",
          "restoreDelete", "restoreCreate", "restoreSave", "settle"}

MigrationTypeOK ==
    /\ at \in [Ids -> {"none", "legacy", "target"}]
    /\ state \in [Ids -> Status]
    /\ originals \subseteq {First, Destination}
    /\ entry \in Progress
    /\ mode \in {"forward", "rollback"}
    /\ pc \in Steps
    /\ listing \in [Ids -> Status]
    /\ drop \subseteq Ids
    /\ new \in Ids \cup {NoSub}
    /\ faults \in 0..MaxFaults
    /\ reversed \in BOOLEAN
    /\ dropped \in BOOLEAN

\* The snapshot is taken of a broadcaster who is served by the source.
MigrationInit ==
    /\ originals \in {{First}, {First, Destination}}
    /\ at = [i \in Ids |-> IF i = First THEN "legacy"
                           ELSE IF i \in originals THEN "target" ELSE "none"]
    /\ \E s \in {"pending", "enabled"} :
          state = [i \in Ids |-> IF i = First THEN "enabled"
                                 ELSE IF i \in originals THEN s ELSE "absent"]
    /\ entry = [target |-> NoSub, created |-> FALSE, deletedOld |-> FALSE,
                rolledBack |-> FALSE, sourceDeleted |-> FALSE,
                restored |-> NoSub, attempts |-> 0]
    /\ mode = "forward"
    /\ pc = "idle"
    /\ listing = Nothing
    /\ drop = {}
    /\ new = NoSub
    /\ faults = 0
    /\ reversed = FALSE
    /\ dropped = FALSE
-----------------------------------------------------------------------------
To == IF mode = "forward" THEN "target" ELSE "legacy"
From == IF mode = "forward" THEN "legacy" ELSE "target"

Present == {i \in Ids : state[i] # "absent"}
Listed == {i \in Ids : listing[i] # "absent"}
active(status) == status \in {"pending", "enabled"}

\* The subscription that stands in for the source.
liveID == IF entry.restored # NoSub THEN entry.restored ELSE First

done(m) == IF m = "rollback" THEN entry.rolledBack ELSE entry.deletedOld
skip == ~RetryFailed /\ entry.attempts >= MaxAttempts

Fault == faults < MaxFaults /\ faults' = faults + 1
Go(where) == pc' = where

\* The run is over: its memory is gone.
Stop ==
    /\ pc' = "idle"
    /\ listing' = Nothing
    /\ drop' = {}
    /\ new' = NoSub
    /\ UNCHANGED direction

\* The operator runs the command; forward refuses a rolled-back snapshot.
Start(m) ==
    /\ pc = "idle"
    /\ m = "forward" => ~entry.rolledBack
    /\ ~done(m) /\ ~skip
    /\ mode' = m
    /\ reversed' = (reversed \/ m = "rollback")
    /\ Go("list")
    /\ UNCHANGED <<remote, world, entry, listing, drop, new, faults>>

\* The process dies, the invocation's deadline passes, the app token is
\* rejected or the checkpoint cannot be written.
Crash ==
    /\ pc # "idle"
    /\ Fault
    /\ Stop
    /\ UNCHANGED <<remote, world, entry>>

\* settle: the failure is checkpointed with its attempt count, which an
\* operator who retries whatever failed never compares with the limit: there
\* it stops at the limit.
Settle ==
    /\ pc = "settle"
    /\ entry' = [entry EXCEPT !.attempts =
                   IF RetryFailed /\ entry.attempts = MaxAttempts
                   THEN entry.attempts ELSE entry.attempts + 1]
    /\ Stop
    /\ UNCHANGED <<remote, world, faults>>

\* A request fails for good, or a wait times out, without any effect.
Fails(where, then) ==
    /\ pc = where
    /\ Fault
    /\ Go(then)
    /\ UNCHANGED <<remote, world, entry, direction, listing, drop, new>>

Unused == {i \in Ids : at[i] = "none" /\ i > Destination}

\* Twitch takes a creation at this callback, which it refuses (409) while
\* it has one like it.
Creates(i, callback) ==
    /\ i \in Unused /\ (\A j \in Unused : i <= j)
    /\ ~(\E j \in Ids : at[j] = callback /\ active(state[j]))
    /\ at' = [at EXCEPT ![i] = callback]
    /\ state' = [state EXCEPT ![i] = "pending"]

Deletes(i) ==
    /\ state' = [state EXCEPT ![i] = "absent"]
    /\ UNCHANGED at
-----------------------------------------------------------------------------
List ==
    /\ pc = "list"
    /\ listing' = state
    /\ Go("prepare")
    /\ UNCHANGED <<remote, world, entry, direction, drop, new, faults>>

\* Mutant of owned: destinations that predate the migration are included.
ownedAll == {i \in Listed : at[i] = "target"}

\* The replacements that rollback may delete.
owned == {i \in Listed : at[i] = "target" /\ i \notin originals}

\* The listed replacements; an enabled one is taken before a pending one.
Matches == {i \in Listed : at[i] = To /\ active(listing[i])}
find(i) ==
    /\ i \in Matches
    /\ (\E j \in Matches : listing[j] = "enabled") => listing[i] = "enabled"

\* Mutant of Untouched: a source deleted without a replacement is forgotten.
UntouchedForgetful ==
    /\ mode = "rollback"
    /\ ~entry.created /\ ~entry.deletedOld
    /\ owned = {}

\* Rollback of a source this migration has not touched, as far as it knows.
Untouched ==
    /\ mode = "rollback"
    /\ ~entry.created /\ ~entry.deletedOld /\ ~entry.sourceDeleted
    /\ owned = {}

RollbackNothing ==
    /\ pc = "prepare"
    /\ Untouched
    /\ entry' = [entry EXCEPT !.rolledBack = TRUE]
    /\ Stop
    /\ UNCHANGED <<remote, world, faults>>

\* The stand-in is not at the source's callback: a failed rollback made it.
Changed == mode = "forward" /\ liveID \in Listed /\ at[liveID] # "legacy"

SourceChanged ==
    /\ pc = "prepare"
    /\ Changed
    /\ Go("settle")
    /\ UNCHANGED <<remote, world, entry, direction, listing, drop, new, faults>>

MayReplace == pc = "prepare" /\ ~Untouched /\ ~Changed

\* There is a replacement already, whoever made it.
FindReplacement ==
    /\ MayReplace
    /\ \E i \in Ids : find(i) /\ new' = i
    /\ Go("found")
    /\ UNCHANGED <<remote, world, entry, direction, listing, drop, faults>>

\* A checkpointed deletion whose replacement is still missing.
Unfinished == mode = "forward" /\ entry.sourceDeleted /\ liveID \notin Listed

MayCreate == MayReplace /\ Matches = {} /\ ~Unfinished

\* Make before break.
CreateReplacement ==
    /\ MayCreate
    /\ \E i \in Ids : Creates(i, To) /\ new' = i
    /\ Go("found")
    /\ UNCHANGED <<world, entry, direction, listing, drop, faults>>

\* The answer to a creation is lost, or does not describe what was asked for.
LoseCreated(where, callback, then) ==
    /\ pc = where
    /\ Fault
    /\ \E i \in Ids : Creates(i, callback)
    /\ Go(then)
    /\ UNCHANGED <<world, entry, direction, listing, drop, new>>

\* There is no room to create first, or a break before make to finish.
BreakFirst ==
    /\ MayReplace
    /\ Matches = {}
    /\ Go("break")
    /\ UNCHANGED <<remote, world, entry, direction, listing, drop, new, faults>>

\* prepare checkpoints the destination; rollback has nothing to record.
Recorded == IF mode = "rollback" THEN entry
            ELSE [entry EXCEPT
                    !.target = new,
                    !.created = entry.created \/ new \notin originals]

SaveFound ==
    /\ pc = "found"
    /\ entry' = Recorded
    /\ Go("await")
    /\ UNCHANGED <<remote, world, direction, listing, drop, new, faults>>

Verified == state[new] = "enabled"

\* The replacement is enabled, in a listing that also shows whether there is
\* a source to delete; rollback deletes the owned ones of its first listing.
AwaitEnabled ==
    /\ pc = "await"
    /\ Verified
    /\ drop' = IF mode = "forward" THEN {liveID} \cap Present ELSE owned
    /\ Go("delete")
    /\ UNCHANGED <<remote, world, entry, direction, listing, new, faults>>

\* Verification of the replacement failed, or it is gone.
ReplacementFailed ==
    /\ pc \in {"await", "breakAwait"}
    /\ ~active(state[new])
    /\ Go(IF pc = "await" THEN "settle" ELSE "restoreDelete")
    /\ UNCHANGED <<remote, world, entry, direction, listing, drop, new, faults>>

DeleteOld ==
    /\ pc \in {"delete", "breakDelete"}
    /\ \E i \in drop :
          /\ Deletes(i)
          /\ drop' = drop \ {i}
    /\ UNCHANGED <<world, entry, direction, pc, listing, new, faults>>

\* The answer to a deletion is lost, and not to be had by retrying.
LoseDeleted ==
    /\ pc \in {"delete", "breakDelete"}
    /\ Fault
    /\ \E i \in drop : Deletes(i)
    /\ Go("settle")
    /\ UNCHANGED <<world, entry, direction, listing, drop, new>>

DeletedAll ==
    /\ pc \in {"delete", "breakDelete"}
    /\ drop = {}
    /\ Go(IF pc = "delete" THEN "commit" ELSE "breakCreate")
    /\ UNCHANGED <<remote, world, entry, direction, listing, drop, new, faults>>

Completed == IF mode = "forward"
             THEN [entry EXCEPT !.deletedOld = TRUE, !.sourceDeleted = FALSE]
             ELSE [entry EXCEPT !.rolledBack = TRUE]

Commit ==
    /\ pc = "commit"
    /\ entry' = Completed
    /\ Stop
    /\ UNCHANGED <<remote, world, faults>>
-----------------------------------------------------------------------------
\* What break before make deletes: the source, listed again, or the owned.
ToBreak == IF mode = "forward" THEN {liveID} \cap Present ELSE owned

\* Deleting would not make room either: nothing is changed (errCostBlocked).
Blocked ==
    /\ \/ MayCreate /\ mode = "forward" /\ liveID \in Listed
       \/ pc = "break" /\ ToBreak # {}
    /\ Fault
    /\ Stop
    /\ UNCHANGED <<remote, world, entry>>

\* Mutant of BreakRecord: the deletion is recorded when it is done.
BreakUnrecorded ==
    /\ pc = "break"
    /\ ToBreak # {}
    /\ drop' = ToBreak
    /\ Go("breakDelete")
    /\ UNCHANGED <<remote, world, entry, direction, listing, new, faults>>

\* The deletion is checkpointed first.
BreakRecord ==
    /\ pc = "break"
    /\ ToBreak # {}
    /\ drop' = ToBreak
    /\ entry' = [entry EXCEPT !.sourceDeleted = TRUE]
    /\ Go("breakDelete")
    /\ UNCHANGED <<remote, world, direction, listing, new, faults>>

\* Mutant of BreakAgain: a source that is gone needs no replacement.
BreakGone ==
    /\ pc = "break"
    /\ ToBreak = {}
    /\ Go("settle")
    /\ UNCHANGED <<remote, world, entry, direction, listing, drop, new, faults>>

\* The source is gone already; but rollback without anything to free fails.
BreakAgain ==
    /\ pc = "break"
    /\ ToBreak = {}
    /\ Go(IF mode = "forward" THEN "breakCreate" ELSE "settle")
    /\ UNCHANGED <<remote, world, entry, direction, listing, drop, new, faults>>

BreakCreate ==
    /\ pc = "breakCreate"
    /\ \E i \in Ids : Creates(i, To) /\ new' = i
    /\ Go("breakSave")
    /\ UNCHANGED <<world, entry, direction, listing, drop, faults>>

BreakSave ==
    /\ pc = "breakSave"
    /\ entry' = Recorded
    /\ Go("breakAwait")
    /\ UNCHANGED <<remote, world, direction, listing, drop, new, faults>>

BreakCommit ==
    /\ pc = "breakAwait"
    /\ Verified
    /\ entry' = [Completed EXCEPT !.sourceDeleted = FALSE]
    /\ Stop
    /\ UNCHANGED <<remote, world, faults>>

\* restore: a replacement that did not become enabled is removed first, and
\* whether that works is not looked at.
RestoreDelete ==
    /\ pc = "restoreDelete"
    /\ Deletes(new)
    /\ Go("restoreCreate")
    /\ UNCHANGED <<world, entry, direction, listing, drop, new, faults>>

RestoreCreate ==
    /\ pc = "restoreCreate"
    /\ \E i \in Ids : Creates(i, From) /\ new' = i
    /\ Go("restoreSave")
    /\ UNCHANGED <<world, entry, direction, listing, drop, faults>>

\* Twitch has one like it: 409.
RestoreConflict ==
    /\ pc = "restoreCreate"
    /\ \E i \in Ids : at[i] = From /\ active(state[i])
    /\ Go("settle")
    /\ UNCHANGED <<remote, world, entry, direction, listing, drop, new, faults>>

RestoreSave ==
    /\ pc = "restoreSave"
    /\ entry' = [entry EXCEPT !.restored = new, !.sourceDeleted = FALSE]
    /\ Go("settle")
    /\ UNCHANGED <<remote, world, direction, listing, drop, new, faults>>

\* The failures of each step: definite, or uncertain without an effect.
Failure ==
    \/ Fails("list", "settle")
    \/ MayCreate /\ Fails("prepare", "settle")
    \/ Fails("await", "settle")
    \/ Fails("delete", "settle")
    \/ Fails("break", "settle")
    \/ Fails("breakDelete", "settle")
    \/ Fails("breakCreate", "restoreCreate")
    \/ Fails("breakAwait", "restoreDelete")
    \/ Fails("restoreDelete", "restoreCreate")
    \/ Fails("restoreCreate", "settle")

\* A call took effect and its answer is lost.
LostAnswer ==
    \/ MayCreate /\ LoseCreated("prepare", To, "settle")
    \/ LoseCreated("breakCreate", To, "restoreCreate")
    \/ LoseCreated("restoreCreate", From, "settle")
    \/ LoseDeleted
-----------------------------------------------------------------------------
\* Twitch verifies the callback.
Verify(i) ==
    /\ state[i] = "pending"
    /\ state' = [state EXCEPT ![i] = "enabled"]
    /\ UNCHANGED <<world, at, entry, run, faults>>

\* Or fails to.
Unverified(i) ==
    /\ state[i] = "pending"
    /\ Fault
    /\ state' = [state EXCEPT ![i] = "failed"]
    /\ UNCHANGED <<world, at, entry, run>>

\* Subscriptions that failed disappear after some time.
Purge(i) ==
    /\ state[i] = "failed"
    /\ state' = [state EXCEPT ![i] = "absent"]
    /\ UNCHANGED <<world, at, entry, run, faults>>

\* The broadcaster's removal, or Twitch, takes them away; the former, and the
\* agent's own subscribe, hold the broadcaster's lease.
Remove ==
    /\ pc = "idle"
    /\ Fault
    /\ Present # {}
    /\ state' = Nothing
    /\ dropped' = TRUE
    /\ UNCHANGED <<at, originals, entry, run>>

Subscribe ==
    /\ pc = "idle"
    /\ \E i \in Ids : Creates(i, "target")
    /\ UNCHANGED <<world, entry, run, faults>>

Migrate ==
    \/ Settle \/ List \/ RollbackNothing \/ SourceChanged
    \/ FindReplacement \/ CreateReplacement \/ BreakFirst \/ SaveFound
    \/ AwaitEnabled \/ ReplacementFailed \/ DeleteOld \/ DeletedAll \/ Commit
    \/ Blocked \/ BreakRecord \/ BreakAgain \/ BreakCreate \/ BreakSave
    \/ BreakCommit \/ RestoreDelete \/ RestoreCreate \/ RestoreConflict
    \/ RestoreSave

MigrationNext ==
    \/ \E m \in Modes : Start(m)
    \/ Migrate \/ Failure \/ LostAnswer \/ Crash
    \/ \E i \in Ids : Verify(i) \/ Unverified(i) \/ Purge(i)
    \/ Remove \/ Subscribe

MigrationSpec == MigrationInit /\ [][MigrationNext]_migrationVars

\* The operator resumes an unfinished run, the run goes on, and Twitch
\* verifies callbacks.
Fairness ==
    /\ \A m \in Modes : WF_migrationVars(Start(m))
    /\ WF_migrationVars(Migrate)
    /\ \A i \in Ids : WF_migrationVars(Verify(i))

FairSpec == MigrationSpec /\ Fairness
-----------------------------------------------------------------------------
Enabled(callback) == \E i \in Ids : at[i] = callback /\ state[i] = "enabled"
Served == Enabled("legacy") \/ Enabled("target")

\* "without deleting an old subscription before its replacement is enabled,
\* except where the EventSub cost cap forces a checkpointed
\* break-before-make" (api.go:1): whatever the migrator
\* deletes, the broadcaster's events still have an enabled subscription, or
\* the checkpoint on disk says that the source was being deleted.  (Giving up a
\* replacement that is enabled too late is not deleting an old one.)
BreakRecorded ==
    [][Served /\ ~Served' /\ pc # "restoreDelete" =>
           entry.sourceDeleted \/ dropped']_migrationVars

\* A source the checkpoint calls done is served from the agent's callback, as
\* long as nobody has begun to roll back or removed the subscriptions: resuming
\* after any failure or crash never takes a destination for granted.
DoneServed ==
    entry.deletedOld /\ ~reversed /\ ~dropped => Enabled("target")

\* One that it calls rolled back is served, from either callback, unless a
\* failed break-before-make had recreated it (nobody waits for that one).
RolledBackServed ==
    entry.rolledBack /\ ~dropped /\ entry.restored = NoSub => Served

\* What the checkpoint says can be relied on: DoneServed and RolledBackServed
\* hold in every well-formed state.
CheckpointInv == MigrationTypeOK /\ DoneServed /\ RolledBackServed

\* "A destination that predated this migration must be preserved"
\* (migrate.go:852): no run deletes it, forward or back.
OriginalKept ==
    [][active(state[Destination]) /\ state'[Destination] = "absent" =>
           dropped']_migrationVars

\* A crash or a failure between deleting the source and creating its
\* replacement is completed by resuming (snapshot.go:28): the gap closes,
\* unless the operator begins to roll back instead.
GapClosed == ~Served ~> (Served \/ dropped \/ reversed)

\* "restore snapshot legacy callback" (migrate-eventsub/main.go:39): a source
\* that is rolled back is at the legacy callback again.
RolledBackRestores == entry.rolledBack /\ ~dropped => Enabled("legacy")
=============================================================================
