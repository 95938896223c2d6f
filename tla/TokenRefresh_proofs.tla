-------------------------- MODULE TokenRefresh_proofs --------------------------
(***************************************************************************)
(* Refreshing a user's grant under a lease: one request at a time reaches  *)
(* the provider, a grant that was rotated is not dropped, and what is      *)
(* stored is replaced by something as new and deleted only when it is      *)
(* dead.  Proofs for any number of calls and grants, any clocks and any    *)
(* limits that satisfy TimeAssumption.                                     *)
(***************************************************************************)
EXTENDS TokenRefresh, TLAPS

Places == {"idle", "load", "acquire", "check", "refresh", "finish"}
Statuses == {"unused", "live", "rotated", "lost", "withdrawn"}

\* The limits are numbers, and the clocks' disagreement is bounded.
LEMMA Numbers ==
    /\ Budget \in Nat /\ LeaseDuration \in Nat /\ Safety \in Nat /\ Persist \in Nat
    /\ Settle \in Nat /\ MaxSkew \in Nat /\ RequestLimit \in Nat /\ MaxGrants \in Nat
    /\ RequestLimit > 0 /\ Persist > 0
    /\ Settle + MaxSkew <= Safety /\ Persist + MaxSkew <= Safety
    /\ Longest \in Nat /\ LeaseDuration <= Longest /\ Budget + Safety <= Longest
    /\ \A c \in Calls : Skew[c] \in Nat /\ Skew[c] <= MaxSkew
  BY TimeAssumption DEF Longest

\* Grants have numbers, and the parts of one make another.
LEMMA GrantTypes ==
    /\ \A g \in Grants : /\ g.id \in Ids /\ g.root \in Ids
                         /\ g.refresh \in Ids \cup {None}
                         /\ g # None /\ g # Revoked
    /\ \A n \in Ids : n \in Nat /\ n # None
    /\ \A n, m \in Ids, r \in Ids \cup {None} :
          [id |-> n, refresh |-> r, root |-> m] \in Grants
    /\ \A c \in Calls : c # None
    /\ None # Revoked
  BY NameAssumption, TimeAssumption DEF Grants, Ids

\* A countdown stops at zero.
LEMMA LessTypes ==
    \A n \in Nat : Less(n) \in Nat /\ Less(n) <= n
                    /\ (n > 0 => Less(n) = n - 1) /\ (n = 0 => Less(n) = 0)
  BY DEF Less

\* What a call returns to.
LEMMA Returned ==
    ASSUME TypeOK, NEW c \in Calls, Return(c)
    PROVE  /\ pc' \in [Calls -> Places] /\ timer' \in [Calls -> 0..Budget]
           /\ until' \in [Calls -> 0..(Longest + MaxSkew)]
           /\ seen' \in [Calls -> Grants \cup {None}]
           /\ limit' \in [Calls -> Nat]
           /\ reply' \in [Calls -> Grants \cup {None, Revoked}]
           /\ pc'[c] = "idle" /\ reply'[c] = None
           /\ Flying(c) => seen'[c] = seen[c] /\ limit'[c] = limit[c]
           /\ ~Flying(c) => seen'[c] = None /\ limit'[c] = 0
           /\ \A d \in Calls \ {c} :
                /\ pc'[d] = pc[d] /\ timer'[d] = timer[d] /\ until'[d] = until[d]
                /\ seen'[d] = seen[d] /\ limit'[d] = limit[d] /\ reply'[d] = reply[d]
<1>1. 0 \in 0..Budget /\ 0 \in 0..(Longest + MaxSkew) /\ "idle" \in Places
  BY Numbers DEF Places
<1> QED BY <1>1 DEF Return, Go, TypeOK, Places
-----------------------------------------------------------------------------
\* Where a call is, and what it keeps there.
Phase(c) ==
    /\ pc[c] \in {"load", "acquire", "check"} => limit[c] = 0
    /\ pc[c] \notin {"refresh", "finish"} => reply[c] = None
    /\ pc[c] \in {"acquire", "check", "refresh", "finish"} => seen[c] # None
    /\ Flying(c) \/ reply[c] # None => seen[c] # None /\ seen[c].refresh # None

\* The lease of a call covers what it has sent, and what it has yet to store.
Leased(c) ==
    /\ pc[c] = "check" => (owner = c /\ left = until[c]) \/ until[c] <= MaxSkew
    /\ pc[c] = "refresh" =>
          owner = c /\ limit[c] >= Settle /\ left + Settle >= limit[c] + Safety
    /\ pc[c] = "idle" /\ limit[c] > 0 => owner = c /\ left >= limit[c] + MaxSkew
    /\ pc[c] = "finish" /\ reply[c] # None => owner = c /\ left > limit[c] + MaxSkew

\* A grant that was issued; one that rotates has a refresh token of its own.
Old(g) ==
    /\ g \in Grants /\ g.id <= issued /\ g.root <= issued
    /\ g.refresh # None => g.refresh <= issued
    /\ rotates => g.refresh = g.id

\* A call has seen the stored grant or another one, ...
Seen(c) ==
    seen[c] # None =>
        /\ Old(seen[c])
        /\ grant # None /\ grant.id = seen[c].id => grant = seen[c]

\* ... and carries one that nobody has seen, derived from the one it saw ...
Carried(c) ==
    Carries(c) =>
        /\ Old(reply[c])
        /\ reply[c].root = seen[c].root /\ reply[c].refresh # None
        /\ rotates => status[reply[c].refresh] # "rotated"
        /\ grant # None => grant.id # reply[c].id
        /\ \A d \in Calls : seen[d] # None => seen[d].id # reply[c].id

\* ... or an answer that stays true.
Refused(c) == reply[c] = Revoked => status[seen[c].refresh] # "live"

CallInv(c) == Phase(c) /\ Leased(c) /\ Seen(c) /\ Carried(c) /\ Refused(c)

IndInv ==
    /\ TypeOK
    /\ \A c \in Calls : CallInv(c)
    /\ grant # None => Old(grant)
    /\ ~rotates => \A r \in Ids : status[r] # "rotated"
    /\ GrantUsable /\ ProfileKept

\* What a refresh makes of a grant is a grant.
LEMMA MergedTypes ==
    ASSUME TypeOK, NEW c \in Calls, Phase(c), Flying(c), issued < MaxGrants
    PROVE  /\ issued + 1 \in Ids /\ seen[c] \in Grants
           /\ Merged(seen[c], issued + 1) \in Grants
           /\ Merged(seen[c], issued + 1).id = issued + 1
           /\ Merged(seen[c], issued + 1).root = seen[c].root
           /\ Merged(seen[c], issued + 1).refresh =
                IF rotates THEN issued + 1 ELSE seen[c].refresh
<1>1. issued + 1 \in Ids
  BY Numbers DEF TypeOK, Ids
<1>2. seen[c] \in Grants
  BY DEF Phase, TypeOK
<1> QED BY <1>1, <1>2 DEF Merged, Grants
-----------------------------------------------------------------------------
\* Every step keeps the types.
LEMMA TypingStep == ASSUME IndInv, [Next]_vars PROVE TypeOK'
<1>0. TypeOK /\ \A c \in Calls : Phase(c)
  BY DEF IndInv, CallInv
<1> USE <1>0
<1> USE DEF docs
<1>1. ASSUME NEW c \in Calls, Begin(c), rotates' = rotates PROVE TypeOK'
  <2>1. Budget \in 0..Budget
    BY Numbers
  <2> QED BY <1>1, <2>1 DEF Begin, Go, TypeOK
<1>2. ASSUME NEW c \in Calls, LoadAnswers(c) \/ StoreFails(c) \/ FinishBusy(c),
             rotates' = rotates
      PROVE  TypeOK'
  BY <1>2, Returned DEF LoadAnswers, StoreFails, FinishBusy, TypeOK, Places
<1>3. ASSUME NEW c \in Calls, LoadStale(c), rotates' = rotates PROVE TypeOK'
  <2>1. refreshLeaseExpiry(timer[c]) + Skew[c] \in 0..(Longest + MaxSkew)
    BY Numbers DEF refreshLeaseExpiry, TypeOK
  <2> QED BY <1>3, <2>1 DEF LoadStale, Go, TypeOK
<1>4. ASSUME NEW c \in Calls, Acquire(c), rotates' = rotates PROVE TypeOK'
  BY <1>4 DEF Acquire, Claim, Go, TypeOK
<1>5. ASSUME NEW c \in Calls, AcquireUnknown(c), rotates' = rotates PROVE TypeOK'
  BY <1>5, Returned DEF AcquireUnknown, Claim, TypeOK, Places
<1>6. ASSUME NEW c \in Calls, Busy(c), rotates' = rotates PROVE TypeOK'
  <2>1. 0 \in 0..(Longest + MaxSkew)
    BY Numbers
  <2> QED BY <1>6, <2>1 DEF Busy, Go, TypeOK
<1>7. ASSUME NEW c \in Calls, Release(c) \/ Receive(c), rotates' = rotates PROVE TypeOK'
  BY <1>7, Numbers DEF Release, Receive, Go, TypeOK
<1>8. ASSUME NEW c \in Calls, Send(c), rotates' = rotates PROVE TypeOK'
  <2>1. Settle + Min2(timer[c], RequestLimit) \in Nat
    BY Numbers DEF Min2, TypeOK
  <2> QED BY <1>8, <2>1 DEF Send, Go, TypeOK
<1>9. ASSUME NEW c \in Calls, Refuse(c), rotates' = rotates PROVE TypeOK'
  BY <1>9 DEF Refuse, Answer, TypeOK
<1>10. ASSUME NEW c \in Calls, Lose(c) \/ FinishFails(c), rotates' = rotates PROVE TypeOK'
  <2>1. status' \in [Ids -> Statuses]
    BY <1>10 DEF Lose, FinishFails, Forgotten, TypeOK, Statuses
  <2> QED BY <1>10, <2>1, Returned DEF Lose, FinishFails, TypeOK, Places, Statuses
<1>11. ASSUME NEW c \in Calls, Apply(c)
       PROVE  /\ grant' \in Grants \cup {None} /\ fresh' \in BOOLEAN
              /\ profile' \in BOOLEAN /\ signin' = signin
              /\ owner' = None /\ left' \in 0..(Longest + MaxSkew)
  <2>1. 0 \in 0..(Longest + MaxSkew)
    BY Numbers
  <2>2. grant' \in Grants \cup {None}
    BY <1>11 DEF Apply, Stores, Deletes, Carries, TypeOK
  <2> QED BY <1>11, <2>1, <2>2 DEF Apply
<1>12. ASSUME NEW c \in Calls, Finish(c), rotates' = rotates PROVE TypeOK'
  <2>1. CASE Return(c)
    BY <1>11, <1>12, <2>1, Returned DEF Finish, TypeOK, Places
  <2>2. CASE ~Return(c)
    BY <1>11, <1>12, <2>2 DEF Finish, Go, TypeOK
  <2> QED BY <2>1, <2>2
<1>13. ASSUME NEW c \in Calls, FinishUnknown(c), rotates' = rotates PROVE TypeOK'
  BY <1>11, <1>13, Returned DEF FinishUnknown, TypeOK, Places
<1>14. ASSUME issued < MaxGrants PROVE issued + 1 \in Ids /\ issued + 1 \in 0..MaxGrants
  BY <1>14, Numbers DEF TypeOK, Ids
<1>15. ASSUME NEW c \in Calls, Grant(c), rotates' = rotates PROVE TypeOK'
  <2>0. issued + 1 \in Ids /\ issued + 1 \in 0..MaxGrants
    BY <1>14, <1>15 DEF Grant
  <2>1. status' \in [Ids -> Statuses]
    BY <1>15, <2>0 DEF Grant, TypeOK, Statuses
  <2>2. Merged(seen[c], issued + 1) \in Grants
    BY <1>15, MergedTypes DEF Grant
  <2> QED BY <1>15, <2>0, <2>1, <2>2 DEF Grant, Answer, TypeOK, Statuses
<1>16. ASSUME SignIn, rotates' = rotates PROVE TypeOK'
  <2>0. issued + 1 \in Ids /\ issued + 1 \in 0..MaxGrants
    BY <1>14, <1>16 DEF SignIn
  <2>1. PICK r \in {issued + 1, None} :
           /\ grant' = Kept(issued + 1, r)
           /\ status' = IF r = None THEN status ELSE [status EXCEPT ![r] = "live"]
    BY <1>16 DEF SignIn
  <2>2. grant' \in Grants
    BY <2>0, <2>1, GrantTypes DEF Kept, TypeOK
  <2>3. status' \in [Ids -> Statuses]
    BY <2>0, <2>1 DEF TypeOK, Statuses
  <2> QED BY <1>16, <2>0, <2>2, <2>3 DEF SignIn, TypeOK, Statuses
<1>17. ASSUME SignInProfile \/ SignInFails \/ Expire, rotates' = rotates PROVE TypeOK'
  BY <1>17 DEF SignInProfile, SignInFails, Expire, TypeOK
<1>18. ASSUME Withdraw, rotates' = rotates PROVE TypeOK'
  BY <1>18 DEF Withdraw, TypeOK
<1>19. ASSUME Tick, rotates' = rotates PROVE TypeOK'
  <2>1. left' \in 0..(Longest + MaxSkew)
    BY <1>19, Numbers, LessTypes DEF Tick, TypeOK
  <2>2. timer' \in [Calls -> 0..Budget] /\ until' \in [Calls -> 0..(Longest + MaxSkew)]
        /\ limit' \in [Calls -> Nat]
    BY <1>19, Numbers, LessTypes DEF Tick, TypeOK
  <2> QED BY <1>19, <2>1, <2>2 DEF Tick, TypeOK
<1>20. CASE UNCHANGED vars
  BY <1>20 DEF vars, TypeOK
<1> QED BY <1>1, <1>2, <1>3, <1>4, <1>5, <1>6, <1>7, <1>8, <1>9, <1>10, <1>12, <1>13,
           <1>15, <1>16, <1>17, <1>18, <1>19, <1>20
     DEF Next, Call
-----------------------------------------------------------------------------
\* A call's numbers.
LEMMA CallTypes ==
    ASSUME TypeOK, NEW d \in Calls
    PROVE  /\ limit[d] \in Nat /\ until[d] \in Nat /\ timer[d] \in Nat /\ left \in Nat
           /\ pc[d] \in Places /\ seen[d] \in Grants \cup {None}
           /\ reply[d] \in Grants \cup {None, Revoked}
  BY Numbers DEF TypeOK, Places

\* Whoever has something under way, or something to store, owns the lease, and
\* no clock has seen it expire.
LEMMA Covered ==
    ASSUME IndInv, NEW d \in Calls,
           Flying(d) \/ reply[d] # None \/ pc[d] = "refresh"
    PROVE  owner = d /\ left > MaxSkew /\ \A c \in Calls : ~Expired(c)
<1>1. TypeOK /\ Phase(d) /\ Leased(d)
  BY DEF IndInv, CallInv
<1>2. limit[d] \in Nat /\ left \in Nat /\ pc[d] \in Places
  BY <1>1, CallTypes
<1>3. pc[d] = "refresh" => owner = d /\ left > MaxSkew
  BY <1>1, <1>2, Numbers DEF Leased
<1>4. pc[d] = "idle" /\ limit[d] > 0 => owner = d /\ left > MaxSkew
  BY <1>1, <1>2, Numbers DEF Leased
<1>5. pc[d] = "finish" /\ reply[d] # None => owner = d /\ left > MaxSkew
  BY <1>1, <1>2, Numbers DEF Leased
<1>6. owner = d /\ left > MaxSkew
  BY <1>1, <1>2, <1>3, <1>4, <1>5 DEF Phase, Flying, Places
<1> QED BY <1>2, <1>6, Numbers, GrantTypes DEF Expired

\* One request at a time.
LEMMA OneAtATime == IndInv => OneRotation
  BY Covered, GrantTypes DEF OneRotation, Carries

\* A call that does not move is not disturbed by another that leaves the lease
\* alone, ...
Still(d) ==
    /\ pc'[d] = pc[d] /\ until'[d] = until[d] /\ seen'[d] = seen[d]
    /\ limit'[d] = limit[d] /\ reply'[d] = reply[d]

\* ... keeps its place and its lease, ...
LEMMA StillKept ==
    ASSUME IndInv, NEW d \in Calls, Still(d), owner' = owner, left' = left
    PROVE  Phase(d)' /\ Leased(d)'
<1>1. Phase(d) /\ Leased(d)
  BY DEF IndInv, CallInv
<1> QED BY <1>1 DEF Still, Phase, Leased, Flying

\* ... takes it over ...
LEMMA StillOvertaken ==
    ASSUME IndInv, NEW c \in Calls, NEW d \in Calls \ {c}, Still(d), Expired(c),
           owner' = c
    PROVE  Phase(d)' /\ Leased(d)'
<1>1. TypeOK /\ Phase(d) /\ Leased(d) /\ limit[d] \in Nat /\ left \in Nat
      /\ until[d] \in Nat
  BY CallTypes DEF IndInv, CallInv
<1>2. ~Flying(d) /\ reply[d] = None /\ pc[d] # "refresh"
  BY Covered
<1>3. pc[d] = "check" => until[d] <= MaxSkew
  BY <1>1, Numbers, GrantTypes DEF Leased, Expired
<1>4. Phase(d)'
  BY <1>1 DEF Still, Phase, Flying
<1>5. Leased(d)'
  BY <1>1, <1>2, <1>3 DEF Still, Leased, Flying
<1> QED BY <1>4, <1>5

\* ... or gives it up.
LEMMA StillReleased ==
    ASSUME IndInv, NEW c \in Calls, NEW d \in Calls \ {c}, Still(d), owner = c
    PROVE  Phase(d)' /\ Leased(d)'
<1>1. TypeOK /\ Phase(d) /\ Leased(d)
  BY DEF IndInv, CallInv
<1>2. ~Flying(d) /\ reply[d] = None /\ pc[d] # "refresh"
  BY Covered
<1>3. Phase(d)'
  BY <1>1 DEF Still, Phase, Flying
<1>4. Leased(d)'
  BY <1>1, <1>2 DEF Still, Leased, Flying
<1> QED BY <1>3, <1>4

\* A call that returns is idle, with its request under way at most.
LEMMA ReturnKeeps ==
    ASSUME IndInv, NEW c \in Calls, Return(c), Flying(c) => owner' = owner /\ left' = left
    PROVE  Phase(c)' /\ Leased(c)' /\ \A d \in Calls \ {c} : Still(d)
<1>1. TypeOK /\ Phase(c) /\ Leased(c) /\ limit[c] \in Nat /\ left \in Nat
  BY CallTypes DEF IndInv, CallInv
<1>2. /\ pc'[c] = "idle" /\ reply'[c] = None
      /\ Flying(c) => seen'[c] = seen[c] /\ limit'[c] = limit[c]
      /\ ~Flying(c) => seen'[c] = None /\ limit'[c] = 0
      /\ \A d \in Calls \ {c} : Still(d)
  BY <1>1, Returned DEF Still
<1>3. Phase(c)'
  BY <1>1, <1>2 DEF Phase, Flying
<1>4. Flying(c) => owner = c /\ left >= limit[c] + MaxSkew
  BY <1>1, Numbers DEF Phase, Leased, Flying, TypeOK
<1>5. Leased(c)'
  BY <1>2, <1>4 DEF Leased
<1> QED BY <1>2, <1>3, <1>5

\* Every step keeps the calls where they belong, and their leases.
LEMMA LeaseStep ==
    ASSUME IndInv, [Next]_vars, NEW d \in Calls PROVE Phase(d)' /\ Leased(d)'
<1> USE DEF docs
<1>0. TypeOK /\ Phase(d) /\ Leased(d)
  BY DEF IndInv, CallInv
<1>1. ASSUME NEW c \in Calls, Begin(c) PROVE Phase(d)' /\ Leased(d)'
  <2>1. CASE c = d
    BY <1>0, <1>1, <2>1, CallTypes DEF Begin, Go, Phase, Leased, Flying, TypeOK
  <2>2. CASE c # d
    BY <1>0, <1>1, <2>2, StillKept DEF Begin, Go, Still, TypeOK
  <2> QED BY <2>1, <2>2
<1>2. ASSUME NEW c \in Calls, Return(c), owner' = owner, left' = left
      PROVE  Phase(d)' /\ Leased(d)'
  BY <1>2, ReturnKeeps, StillKept
<1>3. ASSUME NEW c \in Calls, LoadStale(c) PROVE Phase(d)' /\ Leased(d)'
  <2>1. CASE c = d
    BY <1>0, <1>3, <2>1 DEF LoadStale, Go, Phase, Leased, Flying, TypeOK
  <2>2. CASE c # d
    BY <1>0, <1>3, <2>2, StillKept DEF LoadStale, Go, Still, TypeOK
  <2> QED BY <2>1, <2>2
<1>4. ASSUME NEW c \in Calls, Acquire(c) PROVE Phase(d)' /\ Leased(d)'
  <2>1. CASE c = d
    BY <1>0, <1>4, <2>1 DEF Acquire, Claim, Go, Phase, Leased, Flying, TypeOK
  <2>2. CASE c # d
    BY <1>0, <1>4, <2>2, StillOvertaken DEF Acquire, Claim, Go, Still, TypeOK
  <2> QED BY <2>1, <2>2
<1>5. ASSUME NEW c \in Calls, AcquireUnknown(c) PROVE Phase(d)' /\ Leased(d)'
  <2>1. ~Flying(c)
    BY <1>5, Covered DEF AcquireUnknown
  <2>2. Phase(c)' /\ Leased(c)' /\ \A e \in Calls \ {c} : Still(e)
    BY <1>5, <2>1, ReturnKeeps DEF AcquireUnknown
  <2> QED BY <1>5, <2>2, StillOvertaken DEF AcquireUnknown, Claim
<1>6. ASSUME NEW c \in Calls, Busy(c) PROVE Phase(d)' /\ Leased(d)'
  <2>1. CASE c = d
    BY <1>0, <1>6, <2>1 DEF Busy, Go, Phase, Leased, Flying, TypeOK
  <2>2. CASE c # d
    BY <1>0, <1>6, <2>2, StillKept DEF Busy, Go, Still, TypeOK
  <2> QED BY <2>1, <2>2
<1>7. ASSUME NEW c \in Calls, Release(c) PROVE Phase(d)' /\ Leased(d)'
  <2>1. CASE c = d
    BY <1>0, <1>7, <2>1 DEF Release, Go, Phase, Leased, Flying, TypeOK
  <2>2. CASE c # d
    BY <1>0, <1>7, <2>2, StillKept DEF Release, Go, Still, TypeOK
  <2> QED BY <2>1, <2>2
<1>8. ASSUME NEW c \in Calls, Send(c) PROVE Phase(d)' /\ Leased(d)'
  <2>1. CASE c = d
    <3>1. /\ pc'[d] = "refresh" /\ reply'[d] = reply[d] /\ seen'[d] = seen[d]
          /\ limit'[d] = Settle + Min2(timer[d], RequestLimit)
          /\ owner' = owner /\ left' = left /\ pc[d] = "check" /\ ~MayNotSend(d)
      BY <1>0, <1>8, <2>1 DEF Send, Go, TypeOK
    <3>2. owner = d /\ left = until[d] /\ left >= timer[d] + Safety
      BY <1>0, <3>1, Numbers, CallTypes DEF MayNotSend, Leased
    <3>3. Min2(timer[d], RequestLimit) \in Nat /\ Min2(timer[d], RequestLimit) <= timer[d]
      BY <1>0, Numbers, CallTypes DEF Min2
    <3>4. limit'[d] >= Settle /\ left + Settle >= limit'[d] + Safety
      BY <1>0, <3>1, <3>2, <3>3, Numbers, CallTypes
    <3>5. Phase(d)'
      BY <1>0, <3>1 DEF Phase, MayNotSend
    <3> QED BY <3>1, <3>2, <3>4, <3>5 DEF Leased
  <2>2. CASE c # d
    BY <1>0, <1>8, <2>2, StillKept DEF Send, Go, Still, TypeOK
  <2> QED BY <2>1, <2>2
<1>9. ASSUME NEW c \in Calls, NEW a \in Grants \cup {Revoked}, Answer(c, a), Flying(c),
             UNCHANGED <<owner, left, pc, until, seen>>
      PROVE  Phase(d)' /\ Leased(d)'
  <2>1. CASE c = d
    BY <1>0, <1>9, <2>1, CallTypes DEF Answer, Phase, Leased, Flying, TypeOK, Places
  <2>2. CASE c # d
    BY <1>0, <1>9, <2>2, StillKept DEF Answer, Still, TypeOK
  <2> QED BY <2>1, <2>2
<1>10. ASSUME NEW c \in Calls, Grant(c) PROVE Phase(d)' /\ Leased(d)'
  <2>1. Merged(seen[c], issued + 1) \in Grants
    BY <1>0, <1>10, MergedTypes DEF Grant, IndInv, CallInv
  <2> QED BY <1>9, <1>10, <2>1 DEF Grant
<1>11. ASSUME NEW c \in Calls, Refuse(c) PROVE Phase(d)' /\ Leased(d)'
  BY <1>9, <1>11 DEF Refuse
<1>12. ASSUME NEW c \in Calls, Receive(c) PROVE Phase(d)' /\ Leased(d)'
  <2>1. CASE c = d
    <3>1. /\ pc'[d] = "finish" /\ reply'[d] = reply[d] /\ seen'[d] = seen[d]
          /\ limit'[d] = Persist /\ reply[d] # None /\ limit[d] > Settle
          /\ owner' = owner /\ left' = left /\ pc[d] = "refresh"
      BY <1>0, <1>12, <2>1 DEF Receive, Go, TypeOK
    <3>2. owner = d /\ left > Persist + MaxSkew
      BY <1>0, <3>1, Numbers, CallTypes DEF Leased
    <3>3. Phase(d)'
      BY <1>0, <3>1 DEF Phase, Flying
    <3> QED BY <3>1, <3>2, <3>3 DEF Leased
  <2>2. CASE c # d
    BY <1>0, <1>12, <2>2, StillKept DEF Receive, Go, Still, TypeOK
  <2> QED BY <2>1, <2>2
<1>13. ASSUME NEW c \in Calls, pc[c] = "finish", Apply(c), Return(c)
       PROVE  Phase(d)' /\ Leased(d)'
  <2>1. ~Flying(c) /\ owner = c
    BY <1>13 DEF Flying, Apply
  <2>2. Phase(c)' /\ Leased(c)' /\ \A e \in Calls \ {c} : Still(e)
    BY <1>13, <2>1, ReturnKeeps
  <2> QED BY <2>1, <2>2, StillReleased
<1>14. ASSUME NEW c \in Calls, Finish(c) PROVE Phase(d)' /\ Leased(d)'
  <2>1. CASE Return(c)
    BY <1>13, <1>14, <2>1 DEF Finish
  <2>2. CASE c = d /\ ~Return(c)
    BY <1>0, <1>14, <2>2 DEF Finish, Go, Phase, Leased, Flying, TypeOK
  <2>3. CASE c # d /\ ~Return(c)
    BY <1>0, <1>14, <2>3, StillReleased DEF Finish, Apply, Go, Still, TypeOK
  <2> QED BY <2>1, <2>2, <2>3
<1>15. ASSUME Tick PROVE Phase(d)' /\ Leased(d)'
  <2>1. /\ left' = Less(left) /\ until'[d] = Less(until[d]) /\ limit'[d] = Less(limit[d])
        /\ ~Overdue(d) /\ pc' = pc /\ seen' = seen /\ reply' = reply /\ owner' = owner
    BY <1>15 DEF Tick
  <2>2. limit[d] \in Nat /\ until[d] \in Nat /\ left \in Nat
    BY <1>0, CallTypes
  <2>3. Phase(d)'
    BY <1>0, <2>1, <2>2, LessTypes DEF Phase, Flying
  <2>4. pc[d] = "check" => (owner = d /\ left' = until'[d]) \/ until'[d] <= MaxSkew
    BY <1>0, <2>1, <2>2, LessTypes, Numbers DEF Leased
  <2>5. pc[d] = "refresh" =>
          owner = d /\ limit'[d] >= Settle /\ left' + Settle >= limit'[d] + Safety
    BY <1>0, <2>1, <2>2, LessTypes, Numbers DEF Leased, Overdue
  <2>6. pc[d] = "idle" /\ limit'[d] > 0 => owner = d /\ left' >= limit'[d] + MaxSkew
    BY <1>0, <2>1, <2>2, LessTypes, Numbers DEF Leased
  <2>7. pc[d] = "finish" /\ reply[d] # None => owner = d /\ left' > limit'[d] + MaxSkew
    BY <1>0, <2>1, <2>2, LessTypes, Numbers DEF Leased, Overdue
  <2> QED BY <2>1, <2>3, <2>4, <2>5, <2>6, <2>7 DEF Leased
<1>16. ASSUME UNCHANGED <<owner, left, pc, until, seen, limit, reply>>
       PROVE  Phase(d)' /\ Leased(d)'
  BY <1>16, StillKept DEF Still
<1> QED BY <1>1, <1>2, <1>3, <1>4, <1>5, <1>6, <1>7, <1>8, <1>10, <1>11, <1>12,
           <1>13, <1>14, <1>15, <1>16
     DEF Next, Call, LoadAnswers, StoreFails, Lose, FinishUnknown, FinishBusy,
         FinishFails, SignIn, SignInProfile, SignInFails, Expire, Withdraw, vars
-----------------------------------------------------------------------------
\* A grant that was issued stays issued.
LEMMA OldStays ==
    ASSUME issued \in Nat, issued' \in Nat, issued <= issued', rotates' = rotates,
           NEW g, Old(g), g.id \in Nat, g.root \in Nat, g.refresh \in Nat \cup {None}
    PROVE  Old(g)'
  BY DEF Old

\* The numbers of a grant.
LEMMA OldTypes ==
    ASSUME NEW g \in Grants
    PROVE  g.id \in Nat /\ g.root \in Nat /\ g.refresh \in Nat \cup {None}
  BY GrantTypes

\* What the calls have seen and carry, and the stored grant.
Data(d) == Seen(d) /\ Carried(d) /\ Refused(d)

DataInv ==
    /\ \A d \in Calls : Data(d)
    /\ grant # None => Old(grant)
    /\ ~rotates => \A r \in Ids : status[r] # "rotated"

\* A step that issues nothing and leaves the stored grant alone: what a call
\* sees is that grant at most, an answer is kept with it or dropped, and no
\* refresh token gets better.
Tame ==
    /\ grant' = grant /\ issued' = issued /\ rotates' = rotates
    /\ \A r \in Ids : /\ status'[r] = "live" => status[r] = "live"
                      /\ status'[r] = "rotated" => status[r] = "rotated"
    /\ \A d \in Calls : /\ seen'[d] = seen[d] \/ seen'[d] = None \/ seen'[d] = grant
                        /\ \/ reply'[d] = None
                           \/ reply'[d] = reply[d] /\ seen'[d] = seen[d]

\* Such a step keeps what is known of grants, answers and refresh tokens.
LEMMA TameKeeps == ASSUME IndInv, Tame PROVE DataInv'
<1>0. TypeOK /\ DataInv /\ \A d \in Calls : Phase(d)
  BY DEF IndInv, CallInv, DataInv, Data
<1>1. issued \in Nat
  BY <1>0 DEF TypeOK
<1>3. grant' # None => Old(grant)'
  <2>1. SUFFICES ASSUME grant # None PROVE Old(grant)'
    BY DEF Tame
  <2>2. Old(grant)
    BY <1>0, <2>1 DEF DataInv
  <2> QED BY <2>2 DEF Old, Tame
<1>8. ASSUME NEW r \in Ids
      PROVE  /\ status'[r] = "live" => status[r] = "live"
             /\ status'[r] = "rotated" => status[r] = "rotated"
  BY <1>8 DEF Tame
<1>4. ~rotates' => \A r \in Ids : status'[r] # "rotated"
  <2>1. rotates' = rotates
    BY DEF Tame
  <2>2. SUFFICES ASSUME ~rotates, NEW r \in Ids PROVE status'[r] # "rotated"
    BY <2>1
  <2>3. status[r] # "rotated"
    BY <1>0, <2>2 DEF DataInv
  <2> QED BY <1>8, <2>3
<1>5. ASSUME NEW d \in Calls PROVE Seen(d)'
  <2>1. SUFFICES ASSUME seen'[d] # None
                 PROVE  /\ Old(seen[d])'
                        /\ grant' # None /\ grant'.id = seen'[d].id => grant' = seen'[d]
    BY DEF Seen
  <2>2. CASE seen'[d] = seen[d]
    BY <1>0, <2>1, <2>2 DEF DataInv, Data, Seen, Old, Tame
  <2>3. CASE seen'[d] = grant
    BY <1>0, <2>1, <2>3 DEF DataInv, Old, Tame
  <2> QED BY <2>1, <2>2, <2>3 DEF Tame
<1>6. ASSUME NEW d \in Calls PROVE Carried(d)'
  <2>1. SUFFICES ASSUME Carries(d)' PROVE Carried(d)'
    BY DEF Carried
  <2>2. Carries(d) /\ reply'[d] = reply[d] /\ seen'[d] = seen[d]
    BY <2>1, GrantTypes DEF Carries, Tame
  <2>3. Carried(d)
    BY <1>0 DEF DataInv, Data
  <2>4. Old(reply[d])'
    BY <2>2, <2>3 DEF Carried, Old, Tame
  <2>5. rotates => status'[reply[d].refresh] # "rotated"
    <3>1. reply[d].refresh \in Ids
      BY <2>2, <2>3, GrantTypes DEF Carries, Carried
    <3> QED BY <1>8, <2>2, <2>3, <3>1 DEF Carried
  <2>6. \A e \in Calls : seen'[e] # None => seen'[e].id # reply[d].id
    BY <2>2, <2>3 DEF Carried, Tame
  <2> QED BY <2>2, <2>3, <2>4, <2>5, <2>6 DEF Carried, Tame
<1>7. ASSUME NEW d \in Calls PROVE Refused(d)'
  <2>1. SUFFICES ASSUME reply'[d] = Revoked PROVE status'[seen'[d].refresh] # "live"
    BY DEF Refused
  <2>2. reply[d] = Revoked /\ seen'[d] = seen[d]
    BY <2>1, GrantTypes DEF Tame
  <2>3. seen[d].refresh \in Ids
    BY <1>0, <2>2, GrantTypes DEF Phase, TypeOK
  <2> QED BY <1>0, <1>8, <2>2, <2>3 DEF DataInv, Data, Refused
<1> QED BY <1>3, <1>4, <1>5, <1>6, <1>7 DEF DataInv, Data

\* Nobody else has anything under way beside the call that has.
LEMMA Alone ==
    ASSUME IndInv, NEW c \in Calls, owner = c, NEW d \in Calls \ {c}
    PROVE  reply[d] = None /\ ~Carries(d) /\ ~Flying(d)
  BY Covered, GrantTypes DEF Carries

\* The provider answers with a grant that nobody has seen.
LEMMA GrantKeeps ==
    ASSUME IndInv, NEW c \in Calls, Grant(c), rotates' = rotates PROVE DataInv'
<1> USE DEF docs
<1>0. TypeOK /\ DataInv /\ Phase(c) /\ Flying(c) /\ issued < MaxGrants /\ issued \in Nat
  BY DEF IndInv, CallInv, DataInv, Data, Grant, TypeOK
<1> DEFINE n == issued + 1
<1>14. PICK g : g = Merged(seen[c], n)
  OBVIOUS
<1>1. /\ n \in Ids /\ seen[c] \in Grants /\ g \in Grants /\ g.id = n
      /\ g.root = seen[c].root /\ g.refresh = IF rotates THEN n ELSE seen[c].refresh
  BY <1>0, <1>14, MergedTypes
<1>2. owner = c /\ reply[c] = None /\ seen[c].refresh \in Ids
  BY <1>0, <1>1, Covered, GrantTypes DEF Flying, Phase
<1>3. /\ grant' = grant /\ seen' = seen /\ issued' = n /\ owner' = owner /\ pc' = pc
      /\ reply' = [reply EXCEPT ![c] = IF pc[c] = "refresh" THEN g ELSE None]
  BY <1>14 DEF Grant, Answer
<1>4. \A d \in Calls : seen[d] # None => Old(seen[d]) /\ seen[d] \in Grants
  BY <1>0 DEF DataInv, Data, Seen, TypeOK
<1>5. rotates => /\ status'[n] = "live"
                 /\ seen[c].refresh # n
  <2>1. seen[c].refresh # n
    BY <1>0, <1>1, <1>2, <1>4, GrantTypes DEF Old
  <2> QED BY <1>0, <1>1, <1>2, <2>1 DEF Grant, TypeOK
<1>6. ~rotates => status' = status
  BY DEF Grant
<1>7. ASSUME NEW h \in Grants, Old(h) PROVE Old(h)' /\ h.id # n
  <2>1. h.id \in Nat /\ h.root \in Nat /\ h.refresh \in Nat \cup {None} /\ n \in Nat
        /\ issued <= n /\ issued' \in Nat /\ h.id <= issued
    BY <1>0, <1>3, <1>7, OldTypes DEF Old
  <2> QED BY <1>0, <1>3, <1>7, <2>1, OldStays
<1>8. grant' # None => Old(grant)'
  <2>1. grant # None => grant \in Grants /\ Old(grant)
    BY <1>0 DEF TypeOK, DataInv
  <2> QED BY <1>3, <1>7, <2>1 DEF Old
<1>9. ~rotates' => \A r \in Ids : status'[r] # "rotated"
  BY <1>0, <1>6 DEF DataInv
<1>10. ASSUME NEW d \in Calls PROVE Seen(d)'
  <2>1. seen[d] # None => Old(seen[d])'
    BY <1>3, <1>4, <1>7 DEF Old
  <2>2. seen[d] # None /\ grant # None /\ grant.id = seen[d].id => grant = seen[d]
    BY <1>0 DEF DataInv, Data, Seen
  <2> QED BY <1>3, <2>1, <2>2 DEF Seen
<1>11. ASSUME NEW d \in Calls \ {c} PROVE Carried(d)' /\ Refused(d)'
  <2>1. reply'[d] = None
    BY <1>0, <1>2, <1>3, Alone DEF TypeOK
  <2> QED BY <2>1, GrantTypes DEF Carried, Carries, Refused
<1>12. Refused(c)'
  BY <1>0, <1>1, <1>3, GrantTypes DEF Refused, TypeOK
<1>13. Carried(c)'
  <2>1. SUFFICES ASSUME Carries(c)' PROVE Carried(c)'
    BY DEF Carried
  <2>2. reply'[c] = g
    BY <1>0, <1>3, <2>1, GrantTypes DEF Carries, TypeOK
  <2>3. Old(g)'
    <3>1. g.id <= issued' /\ issued' = n /\ rotates' = rotates
      BY <1>0, <1>1, <1>3, GrantTypes
    <3>2. g.root <= n
      BY <1>0, <1>1, <1>2, <1>4, GrantTypes DEF Old
    <3>3. g.refresh <= n
      BY <1>0, <1>1, <1>2, <1>4, GrantTypes DEF Old
    <3>4. rotates => g.refresh = g.id
      BY <1>1
    <3>5. rotates' => g.refresh = g.id
      BY <3>1, <3>4
    <3>6. g.id <= issued' /\ g.root <= issued' /\ g.refresh <= issued' /\ g \in Grants
      BY <1>1, <3>1, <3>2, <3>3
    <3> QED BY <3>5, <3>6 DEF Old
  <2>4. g.root = seen'[c].root /\ g.refresh # None
    BY <1>1, <1>2, <1>3, GrantTypes
  <2>5. rotates => status'[g.refresh] # "rotated"
    BY <1>1, <1>5
  <2>6. grant' # None => grant'.id # g.id
    <3>1. grant # None => grant \in Grants /\ Old(grant)
      BY <1>0 DEF TypeOK, DataInv
    <3> QED BY <1>1, <1>3, <1>7, <3>1
  <2>7. \A e \in Calls : seen'[e] # None => seen'[e].id # g.id
    BY <1>1, <1>3, <1>4, <1>7
  <2>8. rotates' => status'[g.refresh] # "rotated"
    BY <2>5
  <2> HIDE DEF n
  <2> QED BY <2>2, <2>3, <2>4, <2>6, <2>7, <2>8 DEF Carried
<1> QED BY <1>8, <1>9, <1>10, <1>11, <1>12, <1>13 DEF DataInv, Data

\* The provider refuses a refresh token that is not live.
LEMMA RefuseKeeps ==
    ASSUME IndInv, NEW c \in Calls, Refuse(c), rotates' = rotates PROVE DataInv'
<1> USE DEF docs
<1>0. TypeOK /\ DataInv /\ Flying(c)
  BY DEF IndInv, CallInv, DataInv, Data, Refuse
<1>1. /\ grant' = grant /\ seen' = seen /\ issued' = issued /\ status' = status
      /\ status[seen[c].refresh] # "live"
      /\ \A d \in Calls \ {c} : reply'[d] = reply[d]
      /\ reply'[c] \in {Revoked, None}
  BY <1>0 DEF Refuse, Answer, TypeOK
<1>2. ASSUME NEW d \in Calls PROVE Seen(d)'
  BY <1>0, <1>1 DEF DataInv, Data, Seen, Old
<1>3. ASSUME NEW d \in Calls PROVE Refused(d)'
  BY <1>0, <1>1 DEF DataInv, Data, Refused
<1>4. ASSUME NEW d \in Calls PROVE Carried(d)'
  <2>1. CASE d = c
    BY <1>1, <2>1, GrantTypes DEF Carried, Carries
  <2>2. CASE d # c
    BY <1>0, <1>1, <2>2 DEF DataInv, Data, Carried, Carries, Old
  <2> QED BY <2>1, <2>2
<1> QED BY <1>0, <1>1, <1>2, <1>3, <1>4 DEF DataInv, Data, Old

\* What Finish stores is a grant that nobody has seen, or the one there was.
LEMMA ApplyKeeps ==
    ASSUME IndInv, NEW c \in Calls, Apply(c), seen' = [seen EXCEPT ![c] = None],
           reply' = [reply EXCEPT ![c] = None],
           UNCHANGED <<status, issued, rotates>>
    PROVE  DataInv'
<1>0. TypeOK /\ DataInv /\ owner = c /\ Carried(c)
  BY DEF IndInv, CallInv, DataInv, Data, Apply
<1>1. \A d \in Calls : reply'[d] = None /\ (seen'[d] = None \/ seen'[d] = seen[d])
  BY <1>0, Alone DEF TypeOK
<1>2. ASSUME NEW d \in Calls PROVE Carried(d)' /\ Refused(d)'
  BY <1>1, GrantTypes DEF Carried, Carries, Refused
<1>3. \/ grant' = None \/ grant' = grant
      \/ grant' = reply[c] /\ Carries(c)
  BY DEF Apply, Stores
<1>4. grant' # None => Old(grant)'
  BY <1>0, <1>3 DEF DataInv, Carried, Old
<1>5. ASSUME NEW d \in Calls PROVE Seen(d)'
  <2>1. SUFFICES ASSUME seen'[d] # None PROVE Seen(d)'
    BY DEF Seen
  <2>2. seen'[d] = seen[d]
    BY <1>1, <2>1
  <2>3. Old(seen[d])'
    BY <1>0, <2>1, <2>2 DEF DataInv, Data, Seen, Old
  <2>4. grant' # None /\ grant'.id = seen[d].id => grant' = seen[d]
    BY <1>0, <1>3, <2>1, <2>2 DEF DataInv, Data, Seen, Carried
  <2> QED BY <2>2, <2>3, <2>4 DEF Seen
<1> QED BY <1>0, <1>2, <1>4, <1>5 DEF DataInv, Data

\* A sign-in stores a grant that is new to all, with a live refresh token.
LEMMA SignInKeeps ==
    ASSUME IndInv, SignIn, rotates' = rotates
    PROVE  /\ DataInv'
           /\ grant' \in Grants /\ grant'.root = issued + 1
           /\ grant # None /\ grant.refresh # None => grant'.refresh # None
           /\ rotates => status'[grant'.refresh] # "rotated"
<1>0. TypeOK /\ DataInv /\ issued \in Nat /\ issued < MaxGrants
      /\ \A d \in Calls : Phase(d)
  BY DEF IndInv, CallInv, DataInv, Data, SignIn, TypeOK
<1> DEFINE n == issued + 1
<1>1. n \in Ids
  BY <1>0, Numbers DEF Ids
<1>2. PICK r \in {n} \cup (IF rotates THEN {} ELSE {None}) :
         /\ grant' = Kept(n, r)
         /\ status' = IF r = None THEN status ELSE [status EXCEPT ![r] = "live"]
  BY DEF SignIn
<1>3. (r = n \/ r = None) /\ (rotates => r = n) /\ n # None
  BY <1>1, <1>2, GrantTypes
<1>4. /\ issued' = n /\ seen' = seen /\ reply' = reply
  BY DEF SignIn
<1>5. grant # None => grant \in Grants /\ Old(grant)
  BY <1>0 DEF TypeOK, DataInv
<1>6. PICK g : g = Kept(n, r)
  OBVIOUS
<1>7. /\ g \in Grants /\ g.id = n /\ g.root = n
      /\ g.refresh = IF r = None /\ grant # None THEN grant.refresh ELSE r
  BY <1>0, <1>1, <1>3, <1>5, <1>6, GrantTypes DEF Kept
<1>8. ASSUME NEW q \in Ids, q # n PROVE status'[q] = status[q]
  BY <1>0, <1>2, <1>3, <1>8 DEF TypeOK
<1>9. r = n => status'[n] = "live"
  BY <1>0, <1>1, <1>2, <1>3 DEF TypeOK
<1>10. ~rotates' => \A q \in Ids : status'[q] # "rotated"
  BY <1>0, <1>2, <1>3 DEF DataInv, TypeOK
<1>11. ASSUME NEW h \in Grants, Old(h)
       PROVE  Old(h)' /\ h.id # n /\ (h.refresh # None => h.refresh # n)
  <2>1. h.id \in Nat /\ h.root \in Nat /\ h.refresh \in Nat \cup {None} /\ n \in Nat
        /\ issued <= n /\ issued' \in Nat /\ h.id <= issued
        /\ (h.refresh # None => h.refresh <= issued)
    BY <1>0, <1>4, <1>11, OldTypes DEF Old
  <2>2. Old(h)'
    BY <1>0, <1>4, <1>11, <2>1, OldStays
  <2> QED BY <1>0, <2>1, <2>2
<1>12. Old(g)'
  <2>1. g.id <= n /\ g.root <= n
    BY <1>0, <1>7
  <2>2. g.refresh # None => g.refresh <= n
    BY <1>0, <1>3, <1>5, <1>7, OldTypes DEF Old
  <2>3. rotates => g.refresh = g.id
    BY <1>3, <1>7
  <2>4. rotates' => g.refresh = g.id
    BY <2>3
  <2> QED BY <1>4, <1>7, <2>1, <2>2, <2>4 DEF Old
<1>13. ASSUME NEW d \in Calls, seen[d] # None
       PROVE  seen[d] \in Grants /\ Old(seen[d])' /\ seen[d].id # n
              /\ (seen[d].refresh # None => seen[d].refresh # n)
  <2>1. seen[d] \in Grants /\ Old(seen[d])
    BY <1>0, <1>13 DEF DataInv, Data, Seen, TypeOK
  <2> QED BY <1>4, <1>11, <2>1 DEF Old
<1>14. ASSUME NEW d \in Calls PROVE Seen(d)'
  BY <1>2, <1>4, <1>6, <1>7, <1>13 DEF Seen
<1>15. ASSUME NEW d \in Calls PROVE Carried(d)'
  <2>1. SUFFICES ASSUME Carries(d) PROVE Carried(d)'
    BY <1>4 DEF Carried, Carries
  <2>2. Carried(d) /\ reply[d] \in Grants /\ Old(reply[d]) /\ reply[d].refresh \in Ids
    BY <1>0, <2>1, GrantTypes DEF DataInv, Data, Carried, Carries
  <2>3. Old(reply[d])' /\ reply[d].id # n /\ reply[d].refresh # n
    BY <1>4, <1>11, <2>2, GrantTypes DEF Old
  <2>4. rotates' => status'[reply[d].refresh] # "rotated"
    BY <1>8, <2>1, <2>2, <2>3 DEF Carried
  <2>5. grant' # None => grant'.id # reply[d].id
    BY <1>2, <1>6, <1>7, <2>3
  <2> QED BY <1>4, <2>1, <2>2, <2>3, <2>4, <2>5 DEF Carried
<1>16. ASSUME NEW d \in Calls PROVE Refused(d)'
  <2>1. SUFFICES ASSUME reply[d] = Revoked PROVE status'[seen[d].refresh] # "live"
    BY <1>4 DEF Refused
  <2>2. seen[d] # None /\ seen[d].refresh # None /\ seen[d].refresh \in Ids
    BY <1>0, <2>1, GrantTypes DEF Phase, TypeOK
  <2>3. seen[d].refresh # n
    BY <1>13, <2>2
  <2> QED BY <1>0, <1>8, <2>1, <2>2, <2>3 DEF DataInv, Data, Refused
<1>17. DataInv'
  <2>1. Old(grant)'
    BY <1>2, <1>6, <1>12 DEF Old
  <2> QED BY <1>10, <1>14, <1>15, <1>16, <2>1 DEF DataInv, Data
<1>18. rotates => status'[g.refresh] # "rotated"
  BY <1>3, <1>7, <1>9
<1>19. grant # None /\ grant.refresh # None => g.refresh # None
  BY <1>3, <1>7
<1> QED BY <1>2, <1>6, <1>7, <1>17, <1>18, <1>19
-----------------------------------------------------------------------------
\* A tame step keeps the stored grant usable if it keeps the answers that are
\* yet to be stored, or makes it known that they are lost.
Keeping(d) ==
    \/ reply'[d] = reply[d] /\ seen'[d] = seen[d] /\ owner' = owner
    \/ status'[seen[d].refresh] # "rotated"

\* Such a step leaves the stored grant usable.
LEMMA UsableTame ==
    ASSUME IndInv, Tame, \A d \in Calls : Carries(d) /\ owner = d => Keeping(d)
    PROVE  GrantUsable'
<1>0. TypeOK /\ GrantUsable
  BY DEF IndInv
<1>1. SUFFICES ASSUME grant # None, grant.refresh # None,
                      status'[grant.refresh] = "rotated"
               PROVE  GrantUsable'
  BY DEF GrantUsable, Tame
<1>2. grant.refresh \in Ids
  BY <1>0, <1>1, GrantTypes DEF TypeOK
<1>3. status[grant.refresh] = "rotated"
  BY <1>1, <1>2 DEF Tame
<1>4. PICK d \in Calls : Carries(d) /\ owner = d /\ seen[d] = grant
  BY <1>0, <1>1, <1>3 DEF GrantUsable
<1>5. reply'[d] = reply[d] /\ seen'[d] = seen[d] /\ owner' = owner
  BY <1>1, <1>4 DEF Keeping
<1>6. Carries(d)' /\ owner' = d /\ seen'[d] = grant'
  BY <1>4, <1>5 DEF Carries, Tame
<1> QED BY <1>6 DEF GrantUsable

\* A call that returns without its answer drops it, and forgets it as lost.
LEMMA ReturnTame ==
    ASSUME IndInv, NEW c \in Calls, Return(c), UNCHANGED <<grant, issued, rotates>>,
           status' = status \/ Forgotten(c)
    PROVE  /\ Tame
           /\ \A d \in Calls \ {c} : reply'[d] = reply[d] /\ seen'[d] = seen[d]
           /\ Carries(c) /\ Forgotten(c) => status'[seen[c].refresh] # "rotated"
<1>0. TypeOK /\ Phase(c)
  BY DEF IndInv, CallInv
<1>1. /\ reply'[c] = None
      /\ seen'[c] = seen[c] \/ seen'[c] = None
      /\ \A d \in Calls \ {c} : reply'[d] = reply[d] /\ seen'[d] = seen[d]
  BY <1>0, Returned
<1>2. \A r \in Ids : /\ status'[r] = "live" => status[r] = "live"
                     /\ status'[r] = "rotated" => status[r] = "rotated"
  BY <1>0 DEF Forgotten, TypeOK
<1>3. Carries(c) /\ Forgotten(c) => status'[seen[c].refresh] # "rotated"
  <2>1. Carries(c) => seen[c].refresh \in Ids
    BY <1>0, GrantTypes DEF Carries, Phase, TypeOK
  <2> QED BY <1>0, <2>1 DEF Forgotten, TypeOK
<1>4. Tame
  BY <1>1, <1>2 DEF Tame
<1> QED BY <1>1, <1>3, <1>4

\* Every step keeps what the calls have seen and carry, and a stored grant
\* usable.
LEMMA DataStep == ASSUME IndInv, [Next]_vars PROVE DataInv' /\ GrantUsable'
<1> USE DEF docs
<1>0. TypeOK /\ (\A d \in Calls : Phase(d)) /\ DataInv /\ GrantUsable
  BY DEF IndInv, CallInv, DataInv, Data
<1>1. ASSUME Tame, \A d \in Calls : Carries(d) /\ owner = d => Keeping(d)
      PROVE  DataInv' /\ GrantUsable'
  BY <1>1, TameKeeps, UsableTame
<1>2. ASSUME UNCHANGED <<grant, seen, reply, owner, status, issued, rotates>>
      PROVE  DataInv' /\ GrantUsable'
  BY <1>1, <1>2 DEF Tame, Keeping
<1>3. ASSUME NEW c \in Calls, Begin(c) \/ LoadStale(c) \/ Busy(c), rotates' = rotates
      PROVE  DataInv' /\ GrantUsable'
  <2>1. reply[c] = None
    BY <1>0, <1>3 DEF Phase, Begin, LoadStale, Busy
  <2>2. /\ UNCHANGED <<grant, reply, owner, status, issued, rotates>>
        /\ seen'[c] = None \/ seen'[c] = grant
        /\ \A d \in Calls \ {c} : seen'[d] = seen[d]
    BY <1>0, <1>3 DEF Begin, LoadStale, Busy, TypeOK
  <2> QED BY <1>1, <2>1, <2>2, GrantTypes DEF Tame, Keeping, Carries
<1>4. ASSUME NEW c \in Calls, LoadAnswers(c) \/ StoreFails(c), rotates' = rotates
      PROVE  DataInv' /\ GrantUsable'
  <2>1. reply[c] = None /\ ~Carries(c)
    BY <1>0, <1>4, GrantTypes DEF Phase, LoadAnswers, StoreFails, Carries
  <2> QED BY <1>1, <1>4, <2>1, ReturnTame DEF LoadAnswers, StoreFails, Keeping
<1>5. ASSUME NEW c \in Calls, Acquire(c), rotates' = rotates
      PROVE  DataInv' /\ GrantUsable'
  <2>1. \A d \in Calls : ~Carries(d)
    BY <1>5, Covered, GrantTypes DEF Acquire, Carries
  <2>2. Tame
    BY <1>5 DEF Acquire, Tame
  <2> QED BY <1>1, <2>1, <2>2
<1>6. ASSUME NEW c \in Calls, AcquireUnknown(c), rotates' = rotates
      PROVE  DataInv' /\ GrantUsable'
  <2>1. \A d \in Calls : ~Carries(d)
    BY <1>6, Covered, GrantTypes DEF AcquireUnknown, Carries
  <2>2. Tame
    BY <1>6, ReturnTame DEF AcquireUnknown
  <2> QED BY <1>1, <2>1, <2>2
<1>7. ASSUME NEW c \in Calls, Lose(c) \/ FinishFails(c), rotates' = rotates
      PROVE  DataInv' /\ GrantUsable'
  <2>1. Return(c) /\ Forgotten(c) /\ UNCHANGED <<grant, owner, issued>>
    BY <1>7 DEF Lose, FinishFails
  <2>2. Tame
    BY <1>7, <2>1, ReturnTame
  <2>3. \A d \in Calls : Carries(d) => Keeping(d)
    BY <1>7, <2>1, ReturnTame DEF Keeping
  <2> QED BY <1>1, <2>2, <2>3
<1>8. ASSUME NEW c \in Calls, FinishBusy(c), rotates' = rotates
      PROVE  DataInv' /\ GrantUsable'
  <2>1. Return(c) /\ owner # c /\ UNCHANGED <<grant, owner, issued, status>>
    BY <1>8 DEF FinishBusy
  <2>2. Tame /\ \A d \in Calls \ {c} : reply'[d] = reply[d] /\ seen'[d] = seen[d]
    BY <1>8, <2>1, ReturnTame
  <2> QED BY <1>1, <2>1, <2>2 DEF Keeping
<1>9. ASSUME NEW c \in Calls, Release(c) \/ Send(c) \/ Receive(c), rotates' = rotates
      PROVE  DataInv' /\ GrantUsable'
  BY <1>2, <1>9 DEF Release, Send, Receive
<1>10. ASSUME SignInProfile \/ SignInFails \/ Expire \/ Tick, rotates' = rotates
       PROVE  DataInv' /\ GrantUsable'
  BY <1>2, <1>10 DEF SignInProfile, SignInFails, Expire, Tick
<1>11. ASSUME Withdraw, rotates' = rotates PROVE DataInv' /\ GrantUsable'
  <2>1. \A r \in Ids : status'[r] # "live" /\ (status'[r] = "rotated" => status[r] = "rotated")
    BY <1>11 DEF Withdraw
  <2> QED BY <1>1, <1>11, <2>1 DEF Withdraw, Tame, Keeping
<1>12. ASSUME NEW c \in Calls, Refuse(c), rotates' = rotates
       PROVE  DataInv' /\ GrantUsable'
  <2>1. DataInv'
    BY <1>12, RefuseKeeps
  <2>2. /\ UNCHANGED <<grant, seen, owner, status>> /\ reply[c] = None
        /\ \A d \in Calls \ {c} : reply'[d] = reply[d]
    BY <1>0, <1>12 DEF Refuse, Answer, Flying, TypeOK
  <2>3. \A d \in Calls : Carries(d) => Carries(d)'
    BY <2>2, GrantTypes DEF Carries
  <2>4. GrantUsable'
    BY <1>0, <2>2, <2>3 DEF GrantUsable
  <2> QED BY <2>1, <2>4
<1>13. ASSUME NEW c \in Calls, Grant(c), rotates' = rotates
       PROVE  DataInv' /\ GrantUsable'
  <2>1. DataInv'
    BY <1>13, GrantKeeps
  <2>2. SUFFICES ASSUME grant # None, grant.refresh # None,
                        status'[grant.refresh] = "rotated"
                 PROVE  GrantUsable'
    BY <1>13, <2>1 DEF Grant, GrantUsable
  <2>3. owner = c /\ reply[c] = None /\ Flying(c) /\ issued < MaxGrants
        /\ UNCHANGED <<grant, seen, owner>>
    BY <1>13, Covered DEF Grant, Flying
  <2>4. \A d \in Calls : ~Carries(d)
    BY <2>3, Alone, GrantTypes DEF Carries
  <2>5. grant \in Grants /\ grant.refresh \in Ids /\ Old(grant)
    BY <1>0, <2>2, GrantTypes DEF TypeOK, DataInv
  <2>6. status[grant.refresh] # "rotated"
    BY <1>0, <2>2, <2>4 DEF GrantUsable
  <2>7. rotates
    BY <1>13, <2>2, <2>6 DEF Grant
  <2>8. /\ issued + 1 \in Ids /\ seen[c] \in Grants /\ seen[c].refresh \in Ids
        /\ Merged(seen[c], issued + 1) \in Grants
    BY <1>0, <2>3, MergedTypes, GrantTypes DEF Phase
  <2>9. grant.refresh = seen[c].refresh /\ pc[c] = "refresh"
    <3>1. status' = [status EXCEPT
                       ![seen[c].refresh] = IF pc[c] = "refresh" THEN "rotated" ELSE "lost",
                       ![issued + 1] = "live"]
      BY <1>13, <2>7 DEF Grant
    <3> QED BY <1>0, <2>2, <2>5, <2>6, <2>8, <3>1 DEF TypeOK
  <2>10. seen[c] = grant
    <3>1. Seen(c) /\ seen[c] # None
      BY <1>0, <2>8, GrantTypes DEF DataInv, Data
    <3> QED BY <2>2, <2>5, <2>7, <2>9, <3>1 DEF Seen, Old
  <2>11. reply'[c] \in Grants
    BY <1>0, <1>13, <2>8, <2>9 DEF Grant, Answer, TypeOK
  <2>12. Carries(c)' /\ owner' = c /\ seen'[c] = grant'
    BY <2>3, <2>10, <2>11 DEF Carries
  <2> QED BY <2>12 DEF GrantUsable
<1>14. ASSUME SignIn, rotates' = rotates PROVE DataInv' /\ GrantUsable'
  <2>1. DataInv' /\ grant' \in Grants /\ (rotates => status'[grant'.refresh] # "rotated")
    BY <1>14, SignInKeeps
  <2>2. ~rotates => \A r \in Ids : status'[r] # "rotated"
    BY <1>14, <2>1 DEF DataInv
  <2>3. grant'.refresh # None => grant'.refresh \in Ids
    BY <2>1, GrantTypes
  <2> QED BY <2>1, <2>2, <2>3 DEF GrantUsable
<1>15. ASSUME NEW c \in Calls, Apply(c), seen' = [seen EXCEPT ![c] = None],
              reply' = [reply EXCEPT ![c] = None], UNCHANGED <<status, issued, rotates>>
       PROVE  DataInv' /\ GrantUsable'
  <2>1. DataInv'
    BY <1>15, ApplyKeeps
  <2>2. SUFFICES ASSUME grant' # None, grant'.refresh # None,
                        status[grant'.refresh] = "rotated"
                 PROVE  FALSE
    BY <1>15, <2>1 DEF GrantUsable
  <2>3. owner = c /\ Carried(c)
    BY <1>0, <1>15 DEF Apply, DataInv, Data
  <2>4. ~Stores(c)
    <3>1. SUFFICES ASSUME Stores(c) PROVE FALSE
      OBVIOUS
    <3>2. grant' = reply[c] /\ Carries(c)
      BY <1>15, <3>1 DEF Apply, Stores
    <3>3. reply[c].refresh \in Ids
      BY <2>2, <3>2, GrantTypes DEF Carries
    <3> QED BY <1>0, <2>2, <2>3, <3>2, <3>3 DEF Carried, DataInv
  <2>5. grant' = grant
    BY <1>15, <2>2, <2>4 DEF Apply
  <2>6. PICK d \in Calls : Carries(d) /\ owner = d /\ seen[d] = grant
    BY <1>0, <2>2, <2>5 DEF GrantUsable
  <2> QED BY <2>3, <2>4, <2>6 DEF Stores
<1>16. ASSUME NEW c \in Calls, Finish(c) \/ FinishUnknown(c), rotates' = rotates
       PROVE  DataInv' /\ GrantUsable'
  <2>1. /\ Apply(c) /\ seen' = [seen EXCEPT ![c] = None]
        /\ reply' = [reply EXCEPT ![c] = None] /\ UNCHANGED <<status, issued>>
    BY <1>16 DEF Finish, FinishUnknown, Return, Flying
  <2> QED BY <1>15, <1>16, <2>1
<1>17. CASE UNCHANGED vars
  BY <1>2, <1>17 DEF vars
<1> QED BY <1>3, <1>4, <1>5, <1>6, <1>7, <1>8, <1>9, <1>10, <1>11, <1>12, <1>13, <1>14,
           <1>16, <1>17
     DEF Next, Call
-----------------------------------------------------------------------------
\* Who changes the stored grant: the user's sign-in, or Finish.
LEMMA GrantStep ==
    ASSUME [Next]_vars
    PROVE  \/ grant' = grant
           \/ SignIn /\ rotates' = rotates
           \/ \E c \in Calls : Stores(c) /\ grant' = reply[c]
           \/ \E c \in Calls : Deletes(c) /\ grant' = None
<1> USE DEF docs
<1>1. ASSUME NEW c \in Calls, Finish(c) \/ FinishUnknown(c)
      PROVE  grant' = grant \/ (Stores(c) /\ grant' = reply[c])
             \/ (Deletes(c) /\ grant' = None)
  BY <1>1 DEF Finish, FinishUnknown, Apply
<1>2. ASSUME NEW c \in Calls, Call(c), ~Finish(c), ~FinishUnknown(c) PROVE grant' = grant
  BY <1>2 DEF Call, Begin, LoadAnswers, LoadStale, Acquire, AcquireUnknown, Busy,
              StoreFails, Release, Send, Grant, Refuse, Receive, Lose, FinishBusy,
              FinishFails
<1>3. SignInProfile \/ SignInFails \/ Expire \/ Withdraw \/ Tick \/ UNCHANGED vars =>
         grant' = grant
  BY DEF SignInProfile, SignInFails, Expire, Withdraw, Tick, vars
<1> QED BY <1>1, <1>2, <1>3 DEF Next

\* Every step keeps the profile of a user who has a grant.
LEMMA ProfileStep == ASSUME IndInv, [Next]_vars PROVE ProfileKept'
<1> USE DEF docs
<1>0. TypeOK /\ ProfileKept
  BY DEF IndInv
<1>1. ASSUME NEW c \in Calls, Finish(c) \/ FinishUnknown(c) PROVE ProfileKept'
  <2>1. Apply(c)
    BY <1>1 DEF Finish, FinishUnknown
  <2>2. CASE Deletes(c)
    <3>1. ~Stores(c)
      BY <2>2, GrantTypes DEF Deletes, Stores, Carries
    <3> QED BY <2>1, <2>2, <3>1 DEF Apply, ProfileKept
  <2>3. CASE ~Deletes(c)
    <3>1. signin' = signin /\ (profile => profile')
      BY <2>1, <2>3 DEF Apply, DeletesProfile
    <3>2. grant' # None => grant # None
      <4>1. CASE Stores(c)
        <5>1. seen[c] # None
          BY <4>1, GrantTypes DEF Stores, Carries, IndInv, CallInv, Phase
        <5> QED BY <4>1, <5>1 DEF Stores
      <4>2. CASE ~Stores(c)
        BY <2>1, <2>3, <4>2 DEF Apply
      <4> QED BY <4>1, <4>2
    <3> QED BY <1>0, <3>1, <3>2 DEF ProfileKept
  <2> QED BY <2>2, <2>3
<1>2. ASSUME NEW c \in Calls, Call(c), ~Finish(c), ~FinishUnknown(c) PROVE ProfileKept'
  <2>1. UNCHANGED <<grant, profile, signin>>
    BY <1>2 DEF Call, Begin, LoadAnswers, LoadStale, Acquire, AcquireUnknown, Busy,
                StoreFails, Release, Send, Grant, Refuse, Receive, Lose, FinishBusy,
                FinishFails
  <2> QED BY <1>0, <2>1 DEF ProfileKept
<1>3. ASSUME SignIn \/ SignInProfile \/ SignInFails PROVE ProfileKept'
  BY <1>3 DEF SignIn, SignInProfile, SignInFails, ProfileKept
<1>4. ASSUME Expire \/ Withdraw \/ Tick \/ UNCHANGED vars PROVE ProfileKept'
  <2>1. UNCHANGED <<grant, profile, signin>>
    BY <1>4 DEF Expire, Withdraw, Tick, vars
  <2> QED BY <1>0, <2>1 DEF ProfileKept
<1> QED BY <1>1, <1>2, <1>3, <1>4 DEF Next
-----------------------------------------------------------------------------
\* At the start nothing is stored and no call is under way.
LEMMA Initially == Init => IndInv
<1> SUFFICES ASSUME Init PROVE IndInv
  OBVIOUS
<1> USE DEF Init
<1>1. TypeOK
  <2>1. 0 \in 0..(Longest + MaxSkew) /\ 0 \in 0..Budget /\ 0 \in 0..MaxGrants
    BY Numbers
  <2>2. rotates \in BOOLEAN
    BY NameAssumption
  <2> QED BY <2>1, <2>2 DEF TypeOK
<1>2. ASSUME NEW c \in Calls PROVE CallInv(c)
  <2>1. ~Flying(c) /\ ~Carries(c) /\ reply[c] # Revoked
    BY GrantTypes DEF Flying, Carries
  <2>2. Phase(c) /\ Leased(c)
    BY <2>1 DEF Phase, Leased
  <2> QED BY <2>1, <2>2 DEF CallInv, Seen, Carried, Refused
<1> QED BY <1>1, <1>2 DEF IndInv, GrantUsable, ProfileKept

\* Every step keeps the inductive invariant.
LEMMA Inductive == ASSUME IndInv, [Next]_vars PROVE IndInv'
<1>1. DataInv' /\ GrantUsable'
  BY DataStep
<1>2. TypeOK' /\ ProfileKept'
  BY TypingStep, ProfileStep
<1>3. \A c \in Calls : CallInv(c)'
  BY <1>1, LeaseStep DEF DataInv, Data, CallInv
<1> QED BY <1>1, <1>2, <1>3 DEF IndInv, DataInv

\* The inductive invariant holds in every state.
LEMMA Invariance == Spec => []IndInv
  BY Initially, Inductive, PTL DEF Spec

\* From the sending of a request until it can no longer take effect and its
\* answer is stored, no other call has a request under way.
THEOREM RefreshesOneAtATime == Spec => []OneRotation
  BY Invariance, OneAtATime, PTL

\* A refresh token the provider has replaced is in the store only while its
\* successor can still be stored, and a user with a grant has a profile.
THEOREM GrantsStayUsable == Spec => []GrantInv
<1>1. IndInv => GrantInv
  BY DEF IndInv, GrantInv
<1> QED BY <1>1, Invariance, PTL

\* No refresh and no sign-in replaces a grant by an older one or drops its
\* refresh token.
THEOREM NewestGrantKept == Spec => NewestKept
<1>1. ASSUME IndInv, [Next]_vars, grant # None, grant' # None
      PROVE  grant'.root >= grant.root /\ (grant.refresh # None => grant'.refresh # None)
  <2>0. TypeOK /\ DataInv
    BY <1>1 DEF IndInv, CallInv, DataInv, Data
  <2>1. grant \in Grants /\ Old(grant) /\ grant.root \in Nat /\ issued \in Nat
    BY <1>1, <2>0, OldTypes DEF TypeOK, DataInv
  <2>2. CASE grant' = grant
    BY <2>1, <2>2
  <2>3. CASE SignIn /\ rotates' = rotates
    <3>1. grant'.root = issued + 1 /\ (grant.refresh # None => grant'.refresh # None)
      BY <1>1, <2>3, SignInKeeps
    <3> QED BY <2>1, <3>1 DEF Old
  <2>4. ASSUME NEW c \in Calls, Stores(c), grant' = reply[c]
        PROVE  grant'.root >= grant.root /\ (grant.refresh # None => grant'.refresh # None)
    <3>1. reply[c].root = grant.root /\ reply[c].refresh # None
      BY <2>0, <2>4 DEF Stores, DataInv, Data, Carried
    <3> QED BY <2>1, <2>4, <3>1
  <2> QED BY <1>1, <2>2, <2>3, <2>4, GrantStep
<1>2. IndInv /\ [Next]_vars =>
         [grant # None /\ grant' # None =>
            /\ grant'.root >= grant.root
            /\ grant.refresh # None => grant'.refresh # None]_vars
  BY <1>1
<1> QED BY <1>2, Invariance, PTL DEF Spec, NewestKept

\* Finish deletes a grant only when the provider refuses its refresh token.
THEOREM OnlyDeadDeleted == Spec => DeletedDead
<1>1. ASSUME IndInv, [Next]_vars, grant # None, grant' = None
      PROVE  status[grant.refresh] # "live"
  <2>1. ~SignIn \/ rotates' # rotates
    BY <1>1, SignInKeeps, GrantTypes
  <2>2. \A c \in Calls : reply[c] # None \/ ~Carries(c)
    BY GrantTypes DEF Carries
  <2>3. PICK c \in Calls : Deletes(c)
    BY <1>1, <2>1, <2>2, GrantStep DEF Stores
  <2> QED BY <1>1, <2>3 DEF Deletes, IndInv, CallInv, Refused
<1>2. IndInv /\ [Next]_vars =>
         [grant # None /\ grant' = None => status[grant.refresh] # "live"]_vars
  BY <1>1
<1> QED BY <1>2, Invariance, PTL DEF Spec, DeletedDead
=============================================================================
