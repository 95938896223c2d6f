---------------------------- MODULE TokenRefresh ----------------------------
(***************************************************************************)
(* agent/internal/provider: the calls of AccessToken, on all replicas,     *)
(* that share one user's grant with one provider, and the lease beside it  *)
(* in Firestore under which one of them refreshes it; with the OAuth       *)
(* callback (internal/oauthhttp) that stores a newer grant at any moment   *)
(* and the provider's token endpoint, which consumes the refresh token it  *)
(* is sent if it rotates them.                                             *)
(*                                                                         *)
(* A grant is named by a number, so that two encodings are the same text   *)
(* when they are the same record.  Time is kept as what is left of each    *)
(* deadline, and a Tick counts all of them down.  A member of Calls is a   *)
(* slot for one call after another: it is taken again once the last        *)
(* request sent from it can no longer reach the provider.                  *)
(***************************************************************************)
EXTENDS Naturals

CONSTANTS
    Calls,         \* calls of AccessToken for this user and provider
    None,          \* no grant, refresh token, owner or answer
    Revoked,       \* the answer invalid_grant
    Rotations,     \* whether providers replace a refresh token that is used
    Budget,        \* refreshWorkBudget, 30 s
    LeaseDuration, \* refreshLeaseDuration, 60 s
    Safety,        \* refreshLeaseSafety, 30 s
    RequestLimit,  \* the timeout of requestToken, 10 s
    Persist,       \* the timeout of Finish, 5 s, and the pause before it
    Settle,        \* a canceled request takes effect at most this late
    Skew,          \* how far each call's clock is ahead of the slowest one
    MaxSkew,       \* the largest of them
    MaxGrants      \* bound: grants issued in a behaviour

Ids == 1..MaxGrants
Grants == [id : Ids, refresh : Ids \cup {None}, root : Ids]

ASSUME NameAssumption ==
    /\ None \notin Calls \cup Ids \cup Grants
    /\ Revoked \notin Grants \cup {None}
    /\ Rotations \subseteq BOOLEAN

\* The safety window has to cover what a canceled request may still do, the
\* persisting of its answer, and the clocks' disagreement.
ASSUME TimeAssumption ==
    /\ Budget \in Nat
    /\ LeaseDuration \in Nat
    /\ Safety \in Nat
    /\ RequestLimit \in Nat \ {0}
    /\ Persist \in Nat \ {0}
    /\ Settle \in Nat
    /\ MaxSkew \in Nat
    /\ Skew \in [Calls -> 0..MaxSkew]
    /\ MaxGrants \in Nat \ {0}
    /\ Settle + MaxSkew <= Safety
    /\ Persist + MaxSkew <= Safety

VARIABLES
    grant,    \* tokens/{uid}.{provider}: the encoded grant
    fresh,    \* its access token has more than 300 s left
    profile,  \* profiles/{uid}.{provider} exists
    signin,   \* where the user's OAuth callback is
    owner,    \* _refresh_{provider}.owner
    left,     \* what is left of its `until`, on the slowest clock
    pc,       \* where each call is
    timer,    \* what is left of its ctx
    until,    \* what is left of lease.Until, on the slowest clock
    seen,     \* the grant it loaded, lease.Token
    limit,    \* how long its request may take effect, then its Finish may run
    reply,    \* the provider's answer: None, Revoked or a grant
    status,   \* what became of each refresh token at the provider
    issued,   \* how many grants there are
    rotates   \* this provider replaces a refresh token when it is used

docs == <<grant, fresh, profile, signin, owner>>
vars == <<docs, left, pc, timer, until, seen, limit, reply, status, issued,
          rotates>>

Longest == IF LeaseDuration > Budget + Safety THEN LeaseDuration
                                              ELSE Budget + Safety

TypeOK ==
    /\ grant \in Grants \cup {None}
    /\ fresh \in BOOLEAN
    /\ profile \in BOOLEAN
    /\ signin \in {"idle", "profile", "failed"}
    /\ owner \in Calls \cup {None}
    /\ left \in 0..(Longest + MaxSkew)
    /\ pc \in [Calls -> {"idle", "load", "acquire", "check", "refresh", "finish"}]
    /\ timer \in [Calls -> 0..Budget]
    /\ until \in [Calls -> 0..(Longest + MaxSkew)]
    /\ seen \in [Calls -> Grants \cup {None}]
    /\ limit \in [Calls -> Nat]
    /\ reply \in [Calls -> Grants \cup {None, Revoked}]
    /\ status \in [Ids -> {"unused", "live", "rotated", "lost", "withdrawn"}]
    /\ issued \in 0..MaxGrants
    /\ rotates \in BOOLEAN

Init ==
    /\ grant = None
    /\ fresh = FALSE
    /\ profile = FALSE
    /\ signin = "idle"
    /\ owner = None
    /\ left = 0
    /\ pc = [c \in Calls |-> "idle"]
    /\ timer = [c \in Calls |-> 0]
    /\ until = [c \in Calls |-> 0]
    /\ seen = [c \in Calls |-> None]
    /\ limit = [c \in Calls |-> 0]
    /\ reply = [c \in Calls |-> None]
    /\ status = [r \in Ids |-> "unused"]
    /\ issued = 0
    /\ rotates \in Rotations
-----------------------------------------------------------------------------
Go(c, where) == pc' = [pc EXCEPT ![c] = where]

\* The request sent from the slot can still reach the provider.
Flying(c) == limit[c] > 0 /\ reply[c] = None /\ pc[c] # "finish"

\* The call returns, whatever it answers: only its lease and its request
\* under way are left of it.
Return(c) ==
    /\ Go(c, "idle")
    /\ timer' = [timer EXCEPT ![c] = 0]
    /\ until' = [until EXCEPT ![c] = 0]
    /\ seen' = [seen EXCEPT ![c] = IF Flying(c) THEN seen[c] ELSE None]
    /\ limit' = [limit EXCEPT ![c] = IF Flying(c) THEN limit[c] ELSE 0]
    /\ reply' = [reply EXCEPT ![c] = None]

\* The provider answered with a new grant and the call has yet to store it.
Carries(c) == reply[c] \in Grants

Begin(c) ==
    /\ pc[c] = "idle"
    /\ ~Flying(c)
    /\ Go(c, "load")
    /\ timer' = [timer EXCEPT ![c] = Budget]
    /\ seen' = [seen EXCEPT ![c] = None]
    /\ UNCHANGED <<docs, left, until, limit, reply, status, issued>>

\* Of a context with this much left; what is left of the lease it returns.
refreshLeaseExpiry(remaining) ==
    IF remaining + Safety > LeaseDuration THEN remaining + Safety
                                          ELSE LeaseDuration

\* Load finds no grant, or one that is still good, and the call answers.
LoadAnswers(c) ==
    /\ pc[c] = "load"
    /\ timer[c] > 0
    /\ grant = None \/ fresh
    /\ Return(c)
    /\ UNCHANGED <<docs, left, status, issued>>

\* Load finds a grant to refresh, and the lease to ask for is made.
LoadStale(c) ==
    /\ pc[c] = "load"
    /\ timer[c] > 0
    /\ grant # None /\ ~fresh
    /\ seen' = [seen EXCEPT ![c] = grant]
    /\ until' = [until EXCEPT ![c] = refreshLeaseExpiry(timer[c]) + Skew[c]]
    /\ Go(c, "acquire")
    /\ UNCHANGED <<docs, left, timer, limit, reply, status, issued>>

\* No lease, or one whose `until` has passed on c's clock.
Expired(c) == owner = None \/ left <= Skew[c]

Claim(c) ==
    /\ owner' = c
    /\ left' = until[c]

Acquire(c) ==
    /\ pc[c] = "acquire"
    /\ timer[c] > 0
    /\ grant = seen[c]
    /\ Expired(c)
    /\ Claim(c)
    /\ Go(c, "check")
    /\ UNCHANGED <<grant, fresh, profile, signin, timer, until, seen, limit,
                   reply, status, issued>>

\* The transaction commits, but the call gets an error and gives up.
AcquireUnknown(c) ==
    /\ pc[c] = "acquire"
    /\ grant = seen[c]
    /\ Expired(c)
    /\ Claim(c)
    /\ Return(c)
    /\ UNCHANGED <<grant, fresh, profile, signin, status, issued>>

\* Another call has the lease, or the grant has changed: poll.
Busy(c) ==
    /\ pc[c] = "acquire"
    /\ timer[c] > 0
    /\ grant # seen[c] \/ ~Expired(c)
    /\ Go(c, "load")
    /\ seen' = [seen EXCEPT ![c] = None]
    /\ until' = [until EXCEPT ![c] = 0]
    /\ UNCHANGED <<docs, left, timer, limit, reply, status, issued>>

\* Load or Acquire returns an error, the context ends before it returns or
\* while the call polls, or the replica stops, with or without the lease.
StoreFails(c) ==
    /\ pc[c] \in {"load", "acquire", "check"}
    /\ Return(c)
    /\ UNCHANGED <<docs, left, status, issued>>

\* The context is over or the lease cannot cover what is left of it, or the
\* grant has no refresh token: no request, and the lease is released.
MayNotSend(c) ==
    \/ timer[c] = 0
    \/ until[c] < timer[c] + Safety + Skew[c]
    \/ until[c] <= Safety + Skew[c]
    \/ seen[c].refresh = None

Release(c) ==
    /\ pc[c] = "check"
    /\ MayNotSend(c)
    /\ limit' = [limit EXCEPT ![c] = Persist]
    /\ Go(c, "finish")
    /\ UNCHANGED <<docs, left, timer, until, seen, reply, status, issued>>

Min2(m, n) == IF m < n THEN m ELSE n

Send(c) ==
    /\ pc[c] = "check"
    /\ ~MayNotSend(c)
    /\ limit' = [limit EXCEPT ![c] = Settle + Min2(timer[c], RequestLimit)]
    /\ Go(c, "refresh")
    /\ UNCHANGED <<docs, left, timer, until, seen, reply, status, issued>>
-----------------------------------------------------------------------------
\* What refresh makes of the old grant and the answer: the fields of the
\* answer replace the old ones, and a provider that does not rotate (or an
\* answer without one) leaves the refresh token.
Merged(old, n) ==
    [old EXCEPT !.id = n, !.refresh = IF rotates THEN n ELSE old.refresh]

\* The provider handles a request that may be canceled on this side.  It
\* consumes a live refresh token if it rotates them, and refuses others.
Answer(c, a) ==
    /\ reply' = [reply EXCEPT ![c] = IF pc[c] = "refresh" THEN a ELSE None]
    /\ limit' = [limit EXCEPT ![c] = IF pc[c] = "refresh" THEN limit[c] ELSE 0]

Grant(c) ==
    /\ Flying(c)
    /\ status[seen[c].refresh] = "live"
    /\ issued < MaxGrants
    /\ issued' = issued + 1
    /\ status' = IF ~rotates THEN status
                 ELSE [status EXCEPT
                         ![seen[c].refresh] = IF pc[c] = "refresh" THEN "rotated"
                                                                   ELSE "lost",
                         ![issued + 1] = "live"]
    /\ Answer(c, Merged(seen[c], issued + 1))
    /\ UNCHANGED <<docs, left, pc, timer, until, seen>>

Refuse(c) ==
    /\ Flying(c)
    /\ status[seen[c].refresh] # "live"
    /\ Answer(c, Revoked)
    /\ UNCHANGED <<docs, left, pc, timer, until, seen, status, issued>>

\* The answer arrives in time: persist it, whether or not the caller stays.
Receive(c) ==
    /\ pc[c] = "refresh"
    /\ reply[c] # None
    /\ limit[c] > Settle
    /\ limit' = [limit EXCEPT ![c] = Persist]
    /\ Go(c, "finish")
    /\ UNCHANGED <<docs, left, timer, until, seen, reply, status, issued>>

\* Nobody will store the grant the provider answered c with.
Forgotten(c) ==
    status' = IF Carries(c) /\ status[seen[c].refresh] = "rotated"
              THEN [status EXCEPT ![seen[c].refresh] = "lost"] ELSE status

\* Mutant of Lose: the lease is released after any failure.
LoseReleasing(c) ==
    /\ pc[c] = "refresh"
    /\ Return(c)
    /\ Forgotten(c)
    /\ owner' = IF owner = c THEN None ELSE owner
    /\ UNCHANGED <<grant, fresh, profile, signin, left, issued>>

\* Mutant of Lose: any failure counts as invalid_grant.
LoseRevoking(c) ==
    /\ pc[c] = "refresh"
    /\ reply' = [reply EXCEPT ![c] = Revoked]
    /\ limit' = [limit EXCEPT ![c] = Persist]
    /\ Forgotten(c)
    /\ Go(c, "finish")
    /\ UNCHANGED <<docs, left, timer, until, seen, issued>>

\* The request fails, times out, or its answer is lost or unusable, or the
\* replica stops: the lease stays through its safety window.
Lose(c) ==
    /\ pc[c] = "refresh"
    /\ Return(c)
    /\ Forgotten(c)
    /\ UNCHANGED <<docs, left, issued>>
-----------------------------------------------------------------------------
\* Mutant of Stores: the grant is not compared with the one refreshed.
StoresLate(c) == Carries(c)

\* Finish replaces the grant, if it is still the one that was refreshed.
Stores(c) == grant = seen[c] /\ Carries(c)

\* It deletes the grant, if it is still the one the provider refused.
Deletes(c) == grant = seen[c] /\ reply[c] = Revoked

\* Mutant of DeletesProfile: the profile goes whatever the grant is now.
DeletesProfileLate(c) == reply[c] = Revoked

\* It deletes the profile with it.
DeletesProfile(c) == Deletes(c)

\* What Finish writes for the owner of the lease, which it gives up.
Apply(c) ==
    /\ owner = c
    /\ owner' = None
    /\ left' = 0
    /\ grant' = IF Stores(c) THEN reply[c] ELSE IF Deletes(c) THEN None ELSE grant
    /\ fresh' = (Stores(c) \/ (fresh /\ ~Deletes(c)))
    /\ profile' = (profile /\ ~DeletesProfile(c))
    /\ UNCHANGED signin

\* A persisted grant is read again; anything else ends the call.
Finish(c) ==
    /\ pc[c] = "finish"
    /\ limit[c] > 0
    /\ Apply(c)
    /\ \/ /\ Carries(c)
          /\ Go(c, "load")
          /\ seen' = [seen EXCEPT ![c] = None]
          /\ limit' = [limit EXCEPT ![c] = 0]
          /\ reply' = [reply EXCEPT ![c] = None]
          /\ UNCHANGED <<timer, until>>
       \/ /\ ~Carries(c)
          /\ Return(c)
    /\ UNCHANGED <<status, issued>>

\* The transaction commits, but the call gets an error and gives up.
FinishUnknown(c) ==
    /\ pc[c] = "finish"
    /\ limit[c] > 0
    /\ Carries(c)
    /\ Apply(c)
    /\ Return(c)
    /\ UNCHANGED <<status, issued>>

\* Another call has taken the lease over: ErrRefreshBusy.
FinishBusy(c) ==
    /\ pc[c] = "finish"
    /\ owner # c
    /\ Return(c)
    /\ UNCHANGED <<docs, left, status, issued>>

\* Finish fails or times out without a commit, or the replica stops.
FinishFails(c) ==
    /\ pc[c] = "finish"
    /\ Return(c)
    /\ Forgotten(c)
    /\ UNCHANGED <<docs, left, issued>>
-----------------------------------------------------------------------------
\* The grant persistToken stores: a callback without a refresh token keeps
\* the stored one.
Kept(n, r) ==
    [id |-> n,
     refresh |-> IF r = None /\ grant # None THEN grant.refresh ELSE r,
     root |-> n]

\* The user signs in: the OAuth callback stores a grant of its own, beside
\* whatever lease there is.  A provider that does not rotate may answer a
\* repeated consent without a refresh token.
SignIn ==
    /\ signin # "profile"
    /\ issued < MaxGrants
    /\ issued' = issued + 1
    /\ \E r \in {issued + 1} \cup (IF rotates THEN {} ELSE {None}) :
          /\ grant' = Kept(issued + 1, r)
          /\ status' = IF r = None THEN status
                       ELSE [status EXCEPT ![r] = "live"]
    /\ fresh' = TRUE
    /\ signin' = "profile"
    /\ UNCHANGED <<profile, owner, left, pc, timer, until, seen, limit, reply>>

\* Then it stores the profile.
SignInProfile ==
    /\ signin = "profile"
    /\ profile' = TRUE
    /\ signin' = "idle"
    /\ UNCHANGED <<grant, fresh, owner, left, pc, timer, until, seen, limit,
                   reply, status, issued>>

\* Or fails to, and the user is told.
SignInFails ==
    /\ signin = "profile"
    /\ signin' = "failed"
    /\ UNCHANGED <<grant, fresh, profile, owner, left, pc, timer, until, seen,
                   limit, reply, status, issued>>

\* The access token comes within 300 s of its expiry.
Expire ==
    /\ fresh
    /\ fresh' = FALSE
    /\ UNCHANGED <<grant, profile, signin, owner, left, pc, timer, until, seen,
                   limit, reply, status, issued>>

\* The user disconnects the application at the provider.
Withdraw ==
    /\ \E r \in Ids : status[r] = "live"
    /\ status' = [r \in Ids |-> IF status[r] = "live" THEN "withdrawn"
                                                     ELSE status[r]]
    /\ UNCHANGED <<docs, left, pc, timer, until, seen, limit, reply, issued>>

Less(n) == IF n = 0 THEN 0 ELSE n - 1

\* A timeout is noticed when it is due: until the call fails, which changes
\* nothing outside of it, time does not go on.
Overdue(c) ==
    \/ pc[c] = "refresh" /\ limit[c] <= Settle
    \/ pc[c] = "finish" /\ limit[c] = 0

Tick ==
    /\ \A c \in Calls : ~Overdue(c)
    /\ left' = Less(left)
    /\ timer' = [c \in Calls |-> Less(timer[c])]
    /\ until' = [c \in Calls |-> Less(until[c])]
    /\ limit' = [c \in Calls |-> Less(limit[c])]
    /\ UNCHANGED <<docs, pc, seen, reply, status, issued>>

Call(c) ==
    \/ Begin(c) \/ LoadAnswers(c) \/ LoadStale(c)
    \/ Acquire(c) \/ AcquireUnknown(c) \/ Busy(c) \/ StoreFails(c)
    \/ Release(c) \/ Send(c) \/ Grant(c) \/ Refuse(c) \/ Receive(c) \/ Lose(c)
    \/ Finish(c) \/ FinishUnknown(c) \/ FinishBusy(c) \/ FinishFails(c)

Next ==
    /\ \/ \E c \in Calls : Call(c)
       \/ SignIn \/ SignInProfile \/ SignInFails
       \/ Expire \/ Withdraw \/ Tick
    /\ UNCHANGED rotates

Spec == Init /\ [][Next]_vars
-----------------------------------------------------------------------------
\* The lease outlives the whole operation (service.go:31): from the sending
\* of a request until it can no longer take effect at the provider and its
\* answer is stored, no other call has a request under way, whatever the
\* clocks, lost answers, crashes and sign-ins.
OneRotation ==
    \A c, d \in Calls :
        c # d => ~( /\ Flying(c) \/ Carries(c)
                    /\ Flying(d) \/ Carries(d) )

\* A refresh token the provider has replaced is in the store only while the
\* call that holds its successor still owns the lease and can store it: a
\* rotated grant is not dropped unless the answer itself was lost.
GrantUsable ==
    grant # None /\ grant.refresh # None /\ status[grant.refresh] = "rotated" =>
        \E c \in Calls : Carries(c) /\ owner = c /\ seen[c] = grant

\* A user who signed in and still has a grant has a profile: a late
\* invalid_grant for an older grant does not delete the newer profile.
ProfileKept == signin = "idle" /\ grant # None => profile

\* The stored grant can be used and belongs to a profile: GrantUsable and
\* ProfileKept hold in every well-formed state.
GrantInv == TypeOK /\ GrantUsable /\ ProfileKept

\* A grant is replaced by one that is at least as good.  A refresh never replaces
\* the grant of a newer sign-in by one derived from an older (service.go:229),
\* however late it is persisted, and an answer without a refresh token, of a
\* sign-in (oauthhttp/store.go) or of a refresh, keeps the stored one.
NewestKept ==
    [][grant # None /\ grant' # None =>
          /\ grant'.root >= grant.root
          /\ grant.refresh # None => grant'.refresh # None]_vars

\* Finish deletes only a grant whose refresh token the provider refuses.
DeletedDead ==
    [][grant # None /\ grant' = None => status[grant.refresh] # "live"]_vars
=============================================================================
