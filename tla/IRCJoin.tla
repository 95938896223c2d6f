------------------------------- MODULE IRCJoin -------------------------------
(***************************************************************************)
(* agent/internal/handler and agent/internal/ircauth: how a replica joins  *)
(* a Twitch channel's chat.  NewClient tries several times without an      *)
(* account, then as the broadcaster, then as realtimechat; the last two    *)
(* wait for the account's authentication slot, which all replicas share.   *)
(* Each attempt has an IRC client of its own, which the library connects   *)
(* in the background and connects again by itself, and which may outlive   *)
(* the attempt.                                                            *)
(***************************************************************************)
EXTENDS Integers, FiniteSets

CONSTANTS
    Joins,      \* calls of NewClient
    Replicas,
    Anonymous,  \* attempts without an account (3 in the code)
    Second,     \* the time between two claims of an account's slot
    Skew,       \* of each replica: how far its clock is ahead of the database's
    MaxSkew,    \* ... which is no more than this, either way
    MaxShutdowns,
    NoJoin

ASSUME JoinAssumption ==
    /\ Anonymous \in Nat \ {0} /\ NoJoin \notin Joins
    /\ Second \in Nat /\ MaxSkew \in Nat
    /\ Skew \in [Replicas -> (-MaxSkew)..MaxSkew]

VARIABLES
    home,    \* the replica of each call
    exists,  \* whether Twitch has the channel: it answers no JOIN otherwise
    over,    \* replicas whose context has ended
    call,    \* of each call: its step, its attempt, and whether that entered
    conn,    \* of each attempt: its client's connection
    gone,    \* the clients that were given up while they connected
    missed,  \* ... of which these by closing their reader
    lock,    \* of each replica: the local lock of an account, or NoJoin
    slot,    \* of each account: the version and the age of the shared document
    saw      \* of each call at the gate: the version its transaction has read

clients == <<conn, gone, missed>>
gate == <<lock, slot, saw>>
joinVars == <<home, exists, over, call, clients, gate>>

Attempts == 1..(Anonymous + 2)
Accounts == {"broadcaster", "realtimechat"}
Attempt(n) == [n |-> n, pc |-> "next", entered |-> FALSE]
Account(n) == IF n = Anonymous + 1 THEN "broadcaster" ELSE "realtimechat"

\* From this age on a document is old on every clock.
Old == Second + MaxSkew

JoinTypeOK ==
    /\ home \in [Joins -> Replicas] /\ exists \in BOOLEAN
    /\ over \subseteq Replicas
    /\ call \in [Joins -> [n : Attempts, entered : BOOLEAN,
                pc : {"next", "lock", "reserve", "commit", "join", "exists",
                      "joined", "failed", "closed"}]]
    /\ conn \in [Joins -> [Attempts -> {"none", "dialing", "up", "ready",
                                        "ended"}]]
    /\ gone \in [Joins -> SUBSET Attempts]
    /\ missed \in [Joins -> SUBSET Attempts]
    /\ lock \in [Replicas -> [Accounts -> Joins \cup {NoJoin}]]
    /\ slot \in [Accounts -> [version : Nat, age : 0..Old]]
    /\ saw \in [Joins -> Nat]

JoinInit ==
    /\ home \in [Joins -> Replicas] /\ exists \in BOOLEAN
    /\ over = {}
    /\ call = [j \in Joins |-> Attempt(1)]
    /\ conn = [j \in Joins |-> [n \in Attempts |-> "none"]]
    /\ gone = [j \in Joins |-> {}]
    /\ missed = [j \in Joins |-> {}]
    /\ lock = [r \in Replicas |-> [a \in Accounts |-> NoJoin]]
    /\ slot = [a \in Accounts |-> [version |-> 0, age |-> Old]]
    /\ saw = [j \in Joins |-> 0]

Over(j) == home[j] \in over
Me(j) == Account(call[j].n)
-----------------------------------------------------------------------------
\* The replica shuts down (which changes nothing for calls that have returned).
Shutdown(r) ==
    /\ Cardinality(over) < MaxShutdowns
    /\ \E j \in Joins : home[j] = r /\ call[j].pc \notin {"joined", "failed", "closed"}
    /\ over' = over \cup {r}
    /\ UNCHANGED <<home, exists, call, clients, gate>>

Goes(j, from, to) == call[j].pc = from /\ call' = [call EXCEPT ![j].pc = to]

\* The attempt as realtimechat is the last.
Last == Anonymous + 2

GiveUp(j) == call' = [call EXCEPT ![j].pc = "failed", ![j].entered = FALSE]

\* The attempt has failed and the next one follows, unless the wait before
\* another anonymous one finds the replica's context over.
Fail(j) ==
    IF call[j].n = Last \/ (call[j].n < Anonymous /\ Over(j)) THEN GiveUp(j)
    ELSE call' = [call EXCEPT ![j] = Attempt(@.n + 1)]

\* A client is made and connects in the background.
Connect(j) ==
    /\ conn' = [conn EXCEPT ![j][call[j].n] = "dialing"]
    /\ UNCHANGED <<gone, missed>>

\* An anonymous attempt connects at once; an account's needs a profile with a
\* login, and a token.
Start(j) ==
    /\ call[j].pc = "next"
    /\ \/ call[j].n <= Anonymous /\ ~Over(j) /\ Goes(j, "next", "join") /\ Connect(j)
       \/ call[j].n <= Anonymous /\ Over(j) /\ GiveUp(j) /\ UNCHANGED clients
       \/ call[j].n > Anonymous /\ Goes(j, "next", "lock") /\ UNCHANGED clients
       \/ call[j].n > Anonymous /\ Fail(j) /\ UNCHANGED clients
    /\ UNCHANGED <<home, exists, over, gate>>
-----------------------------------------------------------------------------
\* Gate.Wait: one waiter of a replica at a time ...
Lock(j) ==
    /\ Goes(j, "lock", "reserve")
    /\ lock[home[j]][Me(j)] = NoJoin
    /\ lock' = [lock EXCEPT ![home[j]][Me(j)] = j]
    /\ UNCHANGED <<home, exists, over, clients, slot, saw>>

\* ... reads the document, in a transaction, until its UpdateTime is a second ago
\* on the replica's clock ...
Reserve(j) ==
    /\ slot[Me(j)].age + Skew[home[j]] >= Second
    /\ Goes(j, "reserve", "commit")
    /\ saw' = [saw EXCEPT ![j] = slot[Me(j)].version]
    /\ UNCHANGED <<home, exists, over, clients, lock, slot>>

\* Mutant of Conflict: the document is written without a transaction.
ConflictIgnored(j) == FALSE

\* The document was written since the transaction read it.
Conflict(j) == slot[Me(j)].version # saw[j]

Claimed(j) == [slot EXCEPT ![Me(j)] = [version |-> @.version + 1, age |-> 0]]

\* Mutant of Unlocked: an error leaves the lock behind.
UnlockedNever(j) == lock

\* The local lock is given back whichever way Wait returns.
Unlocked(j) ==
    IF lock[home[j]][Me(j)] = j THEN [lock EXCEPT ![home[j]][Me(j)] = NoJoin]
    ELSE lock

\* ... and claims it; a transaction that is not alone begins again.  The token
\* is renewed if it expired, and the client connects.
Claim(j) ==
    /\ \/ /\ Conflict(j) /\ Goes(j, "commit", "reserve")
          /\ UNCHANGED <<clients, lock, slot>>
       \/ /\ ~Conflict(j) /\ call[j].pc = "commit"
          /\ slot' = Claimed(j)
          /\ lock' = [lock EXCEPT ![home[j]][Me(j)] = NoJoin]
          /\ \/ Goes(j, "commit", "join") /\ Connect(j)
             \/ Fail(j) /\ UNCHANGED clients
    /\ saw' = [saw EXCEPT ![j] = 0]
    /\ UNCHANGED <<home, exists, over>>

\* Two minutes are over, the replica shuts down, or the reservation fails: a
\* commit whose answer is lost has claimed the slot all the same.
GateFails(j) ==
    /\ call[j].pc \in {"lock", "reserve", "commit"}
    /\ lock' = Unlocked(j)
    /\ Fail(j)
    /\ \/ UNCHANGED slot
       \/ call[j].pc = "commit" /\ ~Conflict(j) /\ slot' = Claimed(j)
    /\ saw' = [saw EXCEPT ![j] = 0]
    /\ UNCHANGED <<home, exists, over, clients>>

\* Time passes.
Elapse(a) ==
    /\ slot[a].age < Old
    /\ slot' = [slot EXCEPT ![a].age = @ + 1]
    /\ UNCHANGED <<home, exists, over, call, clients, lock, saw>>
-----------------------------------------------------------------------------
Set(j, n, from, to) ==
    /\ conn[j][n] \in from
    /\ conn' = [conn EXCEPT ![j][n] = to]
    /\ gone' = IF to = "ended" THEN [gone EXCEPT ![j] = @ \ {n}] ELSE gone
    /\ UNCHANGED <<home, exists, over, call, missed, gate>>

\* The library: the connection is made, and the login accepted.
Dialed(j, n) == Set(j, n, {"dialing"}, "up")

\* Mutant of Abandoned: a client that was given up connects all the same.
AbandonedUnseen(j, n) == FALSE

\* joinWithContext's callbacks look whether the attempt was abandoned; a reader
\* that was closed is not.
Abandoned(j, n) == n \in gone[j] \ missed[j]

OnConnect(j, n) ==
    Set(j, n, {"up"}, IF Abandoned(j, n) THEN "ended" ELSE "ready")

\* ROOMSTATE confirms entry to a channel that exists (a client that was given
\* up is not ready).
OnRoomState(j, n) ==
    /\ exists /\ conn[j][n] = "ready" /\ call[j].n = n /\ call[j].pc = "join"
    /\ call' = [call EXCEPT ![j].entered = TRUE]
    /\ UNCHANGED <<home, exists, over, clients, gate>>

\* Connect returns an error: the login or the connection failed.
ConnectFails(j, n) == Set(j, n, {"dialing", "up"}, "ended")

\* The server asks for a new connection, or the connection is lost; the library
\* connects again.
Reconnect(j, n) == Set(j, n, {"ready"}, "dialing")

\* joinWithContext closes abandoned before it disconnects.
GivenUp(j, n) == [gone EXCEPT ![j] = @ \cup {n}]

\* disconnectChat: the library has nothing to close between two connections.
Disconnect(j, n) ==
    IF conn[j][n] = "dialing"
    THEN gone' = GivenUp(j, n) /\ UNCHANGED conn
    ELSE conn' = [conn EXCEPT ![j][n] = "ended"] /\ UNCHANGED gone
-----------------------------------------------------------------------------
\* joinWithContext: the channel was entered, whatever became of it since ...
Joined(j) ==
    /\ call[j].pc = "join" /\ call[j].entered
    /\ call' = [call EXCEPT ![j].pc = "joined", ![j].entered = FALSE]
    /\ UNCHANGED <<home, exists, over, clients, gate>>

\* ... or the connection ended ...
Finished(j) ==
    /\ call[j].pc = "join" /\ conn[j][call[j].n] = "ended"
    /\ Fail(j)
    /\ UNCHANGED <<home, exists, over, clients, gate>>

\* ... or ten seconds, or the replica's context, are over.  The first silent
\* attempt asks whether there is such a channel.
Timeout(j) ==
    /\ call[j].pc = "join"
    /\ Disconnect(j, call[j].n)
    /\ \/ /\ call[j].n = 1
          /\ call' = [call EXCEPT ![j].pc = "exists", ![j].entered = FALSE]
       \/ call[j].n > 1 /\ Fail(j)
       \/ Over(j) /\ IF call[j].n <= Anonymous THEN GiveUp(j) ELSE Fail(j)
    /\ UNCHANGED <<home, exists, over, missed, gate>>

\* JoinAnonymously: a channel that does not exist ends the call; an answer that
\* does not come does not.
Exists(j) ==
    /\ call[j].pc = "exists"
    /\ \/ ~exists /\ Goes(j, "exists", "failed")
       \/ Fail(j)
    /\ UNCHANGED <<home, exists, over, clients, gate>>

\* The reader is closed.
Close(j) ==
    /\ Goes(j, "joined", "closed")
    /\ Disconnect(j, call[j].n)
    /\ missed' = IF conn[j][call[j].n] = "dialing"
                 THEN [missed EXCEPT ![j] = @ \cup {call[j].n}] ELSE missed
    /\ UNCHANGED <<home, exists, over, gate>>
-----------------------------------------------------------------------------
JoinNext ==
    \/ \E r \in Replicas : Shutdown(r)
    \/ \E a \in Accounts : Elapse(a)
    \/ \E j \in Joins :
          \/ Start(j) \/ Lock(j) \/ Reserve(j) \/ Claim(j) \/ GateFails(j)
          \/ Joined(j) \/ Finished(j) \/ Timeout(j) \/ Exists(j) \/ Close(j)
          \/ \E n \in Attempts :
                \/ Dialed(j, n) \/ OnConnect(j, n) \/ OnRoomState(j, n)
                \/ ConnectFails(j, n) \/ Reconnect(j, n)

JoinSpec == JoinInit /\ [][JoinNext]_joinVars
-----------------------------------------------------------------------------
\* An account's local lock is held only by a call that waits at the gate: none
\* is left behind by a deadline, a shutdown or a failed reservation.  The state
\* is well-formed.
GateInv ==
    /\ JoinTypeOK
    /\ \A r \in Replicas, a \in Accounts : lock[r][a] # NoJoin =>
          LET j == lock[r][a] IN
          home[j] = r /\ Me(j) = a /\ call[j].pc \in {"reserve", "commit"}

\* However many replicas wait for it, an account's slot is not claimed again within
\* a second of the last claim, less what a clock may be ahead.
Spaced ==
    [][\A a \in Accounts : slot'[a].version # slot[a].version =>
          slot[a].age >= Second - MaxSkew]_joinVars

\* Of the clients of a call at most one goes on reading, the one its reader has,
\* and none once the call has failed.  One that was given up while it connected
\* never enters the channel: it is disconnected as soon as the library has logged
\* in.  The exception is a reader that is closed while its library is between two
\* connections: there is nothing to disconnect then, no callback looks whether it
\* was closed, and its client, which is missed, reads on.
OneReader ==
    \A j \in Joins, n \in Attempts :
        /\ conn[j][n] \in {"dialing", "up", "ready"} /\ n \notin gone[j] =>
              n = call[j].n /\ call[j].pc \in {"join", "joined"}
        /\ n \in gone[j] \ missed[j] => conn[j][n] \in {"dialing", "up"}
=============================================================================
