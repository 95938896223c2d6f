------------------------ MODULE MessageDelivery_proofs ------------------------
(***************************************************************************)
(* How events become documents: what is acknowledged is written, a write   *)
(* does not take its own document for a duplicate, a follower is counted   *)
(* at most once while his message lives, and a poll yields to a webhook    *)
(* that the clocks tell from its start.  Proofs for any number of requests *)
(* served at a time, of events, attempts, deliveries and polls.            *)
(***************************************************************************)
EXTENDS MessageDelivery, TLAPS

Tries == Seq(Outcomes \cup {"taken"})
Records == [pc : {"idle", "verify", "message", "channel"},
            event : Events \cup {None}, tries : Tries]
Makers == [Documents -> Handlers \cup {None, "gone"}]
Polling == [pc : {"idle", "fetched", "read"}, changed : BOOLEAN,
            time : 0..MaxTime, skew : Skews]
Instants == (-MaxSkew)..MaxTime

\* Records of handlers that steps write.
LEMMA RecordTypes ==
    /\ Idle \in Records /\ <<>> \in Tries /\ <<"sent">> \in Tries
    /\ Len(<<>>) = 0 /\ Len(<<"sent">>) = 1
    /\ Len(<<>>) <= MaxAttempts /\ Len(<<"sent">>) <= MaxAttempts
    /\ \A e \in Events : Doc(e) \in Documents
  BY DeliveryAssumption DEF Idle, Records, Tries, Outcomes, Documents

\* Making a document keeps the types and what others made.
LEMMA MakeTypes ==
    ASSUME maker \in Makers, NEW d \in Documents, NEW h \in Handlers \cup {"gone"}
    PROVE  /\ Make(d, h) \in Makers
           /\ \A c \in Documents : c # d => Make(d, h)[c] = maker[c]
           /\ Make(d, h)[d] = IF maker[d] = None THEN h ELSE maker[d]
  BY DEF Make, Makers

\* What a handler made is an earlier one's after its answer.
LEMMA AnswerTypes ==
    ASSUME TypeOK, NEW h \in Handlers, NEW ok, NEW made \in Makers, Answer(h, ok, made)
    PROVE  /\ at' \in [Handlers -> Records]
           /\ at'[h] = Idle
           /\ \A k \in Handlers \ {h} : at'[k] = at[k]
           /\ maker' \in Makers
           /\ \A d \in Documents :
                maker'[d] = IF made[d] = h THEN "gone" ELSE made[d]
           /\ acked' = IF ok THEN acked \cup {at[h].event} ELSE acked
<1> USE DEF Answer, Makers
<1>1. at \in [Handlers -> Records]
  BY DEF TypeOK, Records, Tries
<1>2. at' \in [Handlers -> Records] /\ at'[h] = Idle
      /\ \A k \in Handlers \ {h} : at'[k] = at[k]
  BY <1>1, RecordTypes
<1>3. maker' \in Makers
  OBVIOUS
<1> QED BY <1>2, <1>3

\* A handler that goes on changes its own record alone.
Goes(h, pc, tries) ==
    /\ at'[h] = [pc |-> pc, event |-> at[h].event, tries |-> tries]
    /\ \A k \in Handlers \ {h} : at'[k] = at[k]

\* A step to another place, with other attempts, keeps the records.
LEMMA GoesTypes ==
    ASSUME TypeOK, NEW h \in Handlers, NEW pc \in {"idle", "verify", "message", "channel"},
           NEW tries \in Tries,
           at' = [at EXCEPT ![h].pc = pc, ![h].tries = tries]
    PROVE  at' \in [Handlers -> Records] /\ Goes(h, pc, tries)
<1>1. at \in [Handlers -> Records]
  BY DEF TypeOK, Records, Tries
<1> QED BY <1>1 DEF Records, Goes

\* So does one that changes the attempts alone.
LEMMA TriesTypes ==
    ASSUME TypeOK, NEW h \in Handlers, NEW tries \in Tries,
           at' = [at EXCEPT ![h].tries = tries]
    PROVE  at' \in [Handlers -> Records] /\ Goes(h, at[h].pc, tries)
<1>1. at \in [Handlers -> Records]
  BY DEF TypeOK, Records, Tries
<1> QED BY <1>1 DEF Records, Goes

\* An attempt that is answered.
LEMMA TryTypes ==
    ASSUME TypeOK, NEW h \in Handlers, NEW i \in DOMAIN at[h].tries,
           NEW outcome \in Outcomes \cup {"taken"},
           at' = [at EXCEPT ![h].tries[i] = outcome]
    PROVE  /\ at' \in [Handlers -> Records]
           /\ [at[h].tries EXCEPT ![i] = outcome] \in Tries
           /\ Len([at[h].tries EXCEPT ![i] = outcome]) = Len(at[h].tries)
           /\ Goes(h, at[h].pc, [at[h].tries EXCEPT ![i] = outcome])
<1>1. at \in [Handlers -> Records]
  BY DEF TypeOK, Records, Tries
<1>2. at[h].tries \in Tries
  BY <1>1 DEF Records
<1>3. /\ [at[h].tries EXCEPT ![i] = outcome] \in Tries
      /\ Len([at[h].tries EXCEPT ![i] = outcome]) = Len(at[h].tries)
  BY <1>2 DEF Tries
<1>4. at' = [at EXCEPT ![h].tries = [at[h].tries EXCEPT ![i] = outcome]]
  OBVIOUS
<1> QED BY <1>3, <1>4, TriesTypes
-----------------------------------------------------------------------------
\* The types as the lemmas name them.
LEMMA Types ==
    TypeOK <=>
    /\ sent \in 0..MaxDeliveries /\ acked \subseteq Events
    /\ at \in [Handlers -> Records]
    /\ \A h \in Handlers : Len(at[h].tries) <= MaxAttempts
    /\ maker \in Makers
    /\ late \in Documents \cup {None}
    /\ merged \subseteq Events /\ field \in Events \cup {None, "poll"}
    /\ count \in [Documents -> Nat] /\ stamp \in Instants
    /\ key \in [current : 0..1, cached : {0, 1, None}, new : BOOLEAN]
    /\ poll \in Polling
    /\ polls \in 0..MaxPolls
  BY DEF TypeOK, Records, Tries, Makers, Polling, Instants
-----------------------------------------------------------------------------
\* Where a handler is, and what it has made and found so far.
HandlerInv(h) ==
    LET e == at[h].event
        d == Doc(e)
        tries == at[h].tries IN
    /\ at[h].pc # "idle" => e \in Events
    /\ at[h].pc # "message" => tries = <<>>
    /\ at[h].pc = "verify" => Kind(e) = "kick"
    /\ at[h].pc = "message" => (tries = <<>> <=> Kind(e) \in {"twitch", "follow"})
    /\ \A i \in DOMAIN tries : tries[i] \in {"ok", "exists"} => maker[d] # None
    /\ at[h].pc = "channel" => maker[d] # None /\ (Kind(e) = "follow" => maker[d] = h)
    /\ \A c \in Documents : maker[c] = h => at[h].pc \in {"message", "channel"} /\ d = c
    /\ Len(tries) = 1 /\ tries[1] \in {"sent", "exists"} => maker[d] # h

\* A follower is counted by the handler that made his document, as it ends.
Counted == \A d \in Documents : count[d] = 0 \/ (count[d] = 1 /\ maker[d] = "gone")

\* A poll that has read the document and was not overtaken has found it older
\* than its start, as its clock shows that.
PollInv == poll.pc = "read" /\ ~poll.changed => stamp <= poll.skew

IndInv ==
    /\ TypeOK
    /\ \A h \in Handlers : HandlerInv(h)
    /\ Counted /\ AckWritten /\ PollInv

\* Documents stay, and those of other handlers stay theirs.
MakesOnly(h) ==
    /\ maker' \in Makers
    /\ \A d \in Documents :
          /\ maker[d] # None => maker'[d] # None
          /\ maker[d] = "gone" => maker'[d] = "gone"
          /\ \A k \in Handlers \ {h} : maker'[d] = k <=> maker[d] = k

\* A handler that does not move is not disturbed by another's step.
LEMMA OthersKept ==
    ASSUME IndInv, NEW h, MakesOnly(h), NEW k \in Handlers \ {h}, at'[k] = at[k]
    PROVE  HandlerInv(k)'
<1> DEFINE e == at[k].event
           tries == at[k].tries
<1>0. HandlerInv(k) /\ tries \in Tries
  BY Types DEF IndInv, Records
<1>1. CASE at[k].pc = "idle"
  BY <1>0, <1>1, RecordTypes DEF HandlerInv, MakesOnly
<1>2. CASE at[k].pc # "idle"
  <2>1. Doc(e) \in Documents
    BY <1>0, <1>2, RecordTypes DEF HandlerInv
  <2> QED BY <1>0, <2>1 DEF HandlerInv, MakesOnly
<1> QED BY <1>1, <1>2

\* What is counted stays counted once, unless it was counted just now.
LEMMA CountKept ==
    ASSUME IndInv, NEW h, MakesOnly(h), count' = count
    PROVE  Counted'
  BY DEF IndInv, Counted, MakesOnly

\* An acknowledgement stays justified.
LEMMA AckKept ==
    ASSUME IndInv, NEW h, MakesOnly(h), acked' = acked, merged \subseteq merged'
    PROVE  AckWritten'
<1> SUFFICES ASSUME NEW e \in acked
             PROVE  maker'[Doc(e)] # None /\ (Fields(e) => e \in merged')
  BY DEF AckWritten, Exists
<1>1. Doc(e) \in Documents
  BY RecordTypes, Types DEF IndInv
<1> QED BY <1>1 DEF IndInv, AckWritten, Exists, MakesOnly

\* What a step makes of `made` when it answers, or goes on with it.
LEMMA MadeOnly ==
    ASSUME IndInv, NEW h \in Handlers, at[h].pc # "idle",
           NEW made \in {maker, Make(Doc(at[h].event), h)}
    PROVE  /\ made \in Makers /\ Doc(at[h].event) \in Documents
           /\ \A d \in Documents :
                /\ maker[d] # None => made[d] = maker[d]
                /\ maker[d] = None => made[d] \in {None, h}
                /\ made[d] = h => d = Doc(at[h].event)
<1>1. Doc(at[h].event) \in Documents /\ maker \in Makers /\ HandlerInv(h)
  BY RecordTypes, Types DEF IndInv, HandlerInv
<1>2. \A d \in Documents : maker[d] = h => d = Doc(at[h].event)
  BY <1>1 DEF HandlerInv
<1>3. CASE made = maker
  BY <1>1, <1>2, <1>3
<1>4. CASE made = Make(Doc(at[h].event), h)
  BY <1>1, <1>2, <1>4, MakeTypes
<1> QED BY <1>3, <1>4

\* A handler answers: it is idle, made nothing, and what it acknowledges is
\* written.
LEMMA AnswerKeeps ==
    ASSUME IndInv, NEW h \in Handlers, at[h].pc # "idle",
           NEW ok \in BOOLEAN, NEW made \in {maker, Make(Doc(at[h].event), h)},
           Answer(h, ok, made), merged \subseteq merged',
           ok => /\ made[Doc(at[h].event)] # None
                 /\ Fields(at[h].event) => at[h].event \in merged'
    PROVE  /\ at' \in [Handlers -> Records] /\ maker' \in Makers
           /\ acked' \subseteq Events
           /\ \A k \in Handlers : Len(at'[k].tries) <= MaxAttempts
           /\ \A k \in Handlers : HandlerInv(k)'
           /\ MakesOnly(h) /\ AckWritten'
           /\ \A d \in Documents : maker[d] = h => maker'[d] = "gone"
<1>1. /\ at[h].event \in Events /\ TypeOK
      /\ made \in Makers /\ Doc(at[h].event) \in Documents
      /\ \A d \in Documents :
                /\ maker[d] # None => made[d] = maker[d]
                /\ maker[d] = None => made[d] \in {None, h}
                /\ made[d] = h => d = Doc(at[h].event)
  BY MadeOnly DEF IndInv, HandlerInv
<1>2. /\ at' \in [Handlers -> Records]
      /\ at'[h] = Idle
      /\ \A k \in Handlers \ {h} : at'[k] = at[k]
      /\ maker' \in Makers
      /\ \A d \in Documents : maker'[d] = IF made[d] = h THEN "gone" ELSE made[d]
      /\ acked' = IF ok THEN acked \cup {at[h].event} ELSE acked
  BY <1>1, AnswerTypes
<1>3. MakesOnly(h) /\ \A d \in Documents : maker[d] = h => maker'[d] = "gone"
  BY <1>1, <1>2, DeliveryAssumption DEF MakesOnly
<1>4. HandlerInv(h)'
  <2>1. \A d \in Documents : maker'[d] # h
    BY <1>1, <1>2, DeliveryAssumption
  <2> QED BY <1>2, <2>1, RecordTypes DEF HandlerInv, Idle
<1>5. \A k \in Handlers : HandlerInv(k)'
  BY <1>2, <1>3, <1>4, OthersKept
<1>6. \A k \in Handlers : Len(at'[k].tries) <= MaxAttempts
  <2>1. Idle.tries = <<>>
    BY DEF Idle
  <2> QED BY <1>1, <1>2, <2>1, RecordTypes DEF TypeOK
<1>7. acked' \subseteq Events
  BY <1>1, <1>2 DEF TypeOK
<1>8. AckWritten'
  <2> SUFFICES ASSUME NEW e \in acked'
               PROVE  maker'[Doc(e)] # None /\ (Fields(e) => e \in merged')
    BY DEF AckWritten, Exists
  <2>1. CASE e \in acked
    <3>1. Doc(e) \in Documents
      BY <1>1, <2>1, RecordTypes DEF TypeOK
    <3> QED BY <1>3, <2>1, <3>1 DEF IndInv, AckWritten, Exists, MakesOnly
  <2>2. CASE ok /\ e = at[h].event
    BY <1>1, <1>2, <2>2, DeliveryAssumption
  <2> QED BY <1>2, <2>1, <2>2
<1> QED BY <1>2, <1>3, <1>5, <1>6, <1>7, <1>8

\* A handler goes on: its own record has to be in order.
LEMMA GoesKeeps ==
    ASSUME IndInv, NEW h \in Handlers, NEW pc, NEW tries, Goes(h, pc, tries),
           at' \in [Handlers -> Records], Len(tries) <= MaxAttempts,
           MakesOnly(h), HandlerInv(h)'
    PROVE  /\ \A k \in Handlers : Len(at'[k].tries) <= MaxAttempts
           /\ \A k \in Handlers : HandlerInv(k)'
<1>1. \A k \in Handlers : HandlerInv(k)'
  BY OthersKept DEF Goes
<1>2. \A k \in Handlers : Len(at'[k].tries) <= MaxAttempts
  BY Types DEF IndInv, Goes
<1> QED BY <1>1, <1>2

\* The message is written: the handler turns to the channel or answers.
LEMMA WrittenKeeps ==
    ASSUME IndInv, NEW h \in Handlers, at[h].pc = "message",
           NEW made \in {maker, Make(Doc(at[h].event), h)},
           Written(h, made), merged' = merged,
           made[Doc(at[h].event)] # None,
           Kind(at[h].event) = "follow" => made[Doc(at[h].event)] = h
    PROVE  /\ at' \in [Handlers -> Records] /\ maker' \in Makers
           /\ acked' \subseteq Events
           /\ \A k \in Handlers : Len(at'[k].tries) <= MaxAttempts
           /\ \A k \in Handlers : HandlerInv(k)'
           /\ MakesOnly(h) /\ AckWritten'
<1>1. CASE ~(Fields(at[h].event) \/ Kind(at[h].event) = "follow")
  <2>1. Answer(h, TRUE, made)
    BY <1>1 DEF Written
  <2> QED BY <1>1, <2>1, AnswerKeeps
<1>2. CASE Fields(at[h].event) \/ Kind(at[h].event) = "follow"
  <2>1. /\ at' = [at EXCEPT ![h].pc = "channel", ![h].tries = <<>>]
        /\ maker' = made /\ acked' = acked
    BY <1>2 DEF Written
  <2>2. at' \in [Handlers -> Records] /\ Goes(h, "channel", <<>>)
    BY <2>1, GoesTypes, RecordTypes DEF IndInv
  <2>3. /\ at[h].event \in Events /\ TypeOK
        /\ made \in Makers /\ Doc(at[h].event) \in Documents
        /\ \A d \in Documents :
                /\ maker[d] # None => made[d] = maker[d]
                /\ maker[d] = None => made[d] \in {None, h}
                /\ made[d] = h => d = Doc(at[h].event)
    BY MadeOnly DEF IndInv, HandlerInv
  <2>4. MakesOnly(h)
    BY <2>1, <2>3, DeliveryAssumption DEF MakesOnly
  <2>5. HandlerInv(h)'
    BY <2>1, <2>2, <2>3, RecordTypes DEF HandlerInv, Goes
  <2>6. AckWritten'
    BY <2>1, <2>4, AckKept
  <2>7. /\ \A k \in Handlers : Len(at'[k].tries) <= MaxAttempts
        /\ \A k \in Handlers : HandlerInv(k)'
    BY <2>2, <2>4, <2>5, GoesKeeps, RecordTypes
  <2> QED BY <2>1, <2>2, <2>3, <2>4, <2>6, <2>7 DEF TypeOK
<1> QED BY <1>1, <1>2
-----------------------------------------------------------------------------
\* A delivery is taken up by a handler that made nothing.
LEMMA BeginKeeps ==
    ASSUME IndInv, NEW h \in Handlers, NEW e \in Events,
           NEW pc \in {"verify", "message"}, NEW tries \in {<<>>, <<"sent">>},
           Begin(h, e, pc, tries),
           pc = "verify" => Kind(e) = "kick" /\ tries = <<>>,
           pc = "message" => (tries = <<>> <=> Kind(e) \in {"twitch", "follow"})
    PROVE  IndInv'
<1>1. /\ at[h] = Idle /\ HandlerInv(h) /\ TypeOK
      /\ at' = [at EXCEPT ![h] = [pc |-> pc, event |-> e, tries |-> tries]]
      /\ maker' = maker /\ sent < MaxDeliveries /\ sent' = sent + 1
      /\ UNCHANGED <<acked, late, channel, key, poll, polls>>
  BY DEF Begin, IndInv
<1>2. /\ at' \in [Handlers -> Records]
      /\ at'[h] = [pc |-> pc, event |-> e, tries |-> tries]
      /\ \A k \in Handlers \ {h} : at'[k] = at[k]
  BY <1>1, Types, RecordTypes DEF Records
<1>3. MakesOnly(h)
  BY <1>1, Types DEF MakesOnly
<1>4. HandlerInv(h)'
  <2>1. \A d \in Documents : maker[d] # h
    BY <1>1 DEF HandlerInv, Idle
  <2>2. Doc(e) \in Documents
    BY RecordTypes
  <2>3. tries = <<>> \/ (tries = <<"sent">> /\ DOMAIN tries = {1} /\ tries[1] = "sent")
    OBVIOUS
  <2>4. tries # <<>> => pc = "message"
    OBVIOUS
  <2> QED BY <1>1, <1>2, <2>1, <2>2, <2>3, <2>4, RecordTypes DEF HandlerInv
<1>5. \A k \in Handlers : HandlerInv(k)'
  BY <1>2, <1>3, <1>4, OthersKept
<1>6. \A k \in Handlers : Len(at'[k].tries) <= MaxAttempts
  BY <1>1, <1>2, RecordTypes DEF TypeOK
<1>7. TypeOK'
  <2>1. sent' \in 0..MaxDeliveries
    BY <1>1, DeliveryAssumption DEF TypeOK
  <2> QED BY <1>1, <1>2, <1>6, <2>1 DEF channel, TypeOK, Records, Tries
<1>8. Counted' /\ AckWritten' /\ PollInv'
  BY <1>1, <1>3, CountKept, AckKept DEF IndInv, PollInv, channel
<1> QED BY <1>5, <1>7, <1>8 DEF IndInv

\* A step of a handler that answers without writing the channel.
LEMMA AnswerInd ==
    ASSUME IndInv, NEW h \in Handlers, at[h].pc # "idle",
           NEW ok \in BOOLEAN, NEW made \in {maker, Make(Doc(at[h].event), h)},
           Answer(h, ok, made),
           ok => /\ made[Doc(at[h].event)] # None
                 /\ Fields(at[h].event) => at[h].event \in merged,
           UNCHANGED <<sent, channel, poll, polls>>,
           late' \in Documents \cup {None},
           key' \in [current : 0..1, cached : {0, 1, None}, new : BOOLEAN]
    PROVE  IndInv'
<1>1. /\ at' \in [Handlers -> Records] /\ maker' \in Makers
      /\ acked' \subseteq Events
      /\ \A k \in Handlers : Len(at'[k].tries) <= MaxAttempts
      /\ \A k \in Handlers : HandlerInv(k)'
      /\ MakesOnly(h) /\ AckWritten'
  BY AnswerKeeps DEF channel
<1>2. TypeOK'
  BY <1>1 DEF IndInv, channel, TypeOK, Records, Tries, Makers
<1>3. Counted' /\ PollInv'
  BY <1>1, CountKept DEF IndInv, PollInv, channel
<1> QED BY <1>1, <1>2, <1>3 DEF IndInv

\* The cached key is one of Kick's.
LEMMA VerifyKeeps == ASSUME IndInv, NEW h \in Handlers, Verify(h) PROVE IndInv'
<1> DEFINE fetch == key.cached = None \/ (~Verified /\ ~key.new)
<1>1. /\ at[h].pc = "verify" /\ UNCHANGED <<sent, late, channel, poll, polls>>
      /\ key' = IF fetch THEN [key EXCEPT !.cached = key.current, !.new = TRUE] ELSE key
      /\ IF fetch \/ Verified
         THEN /\ at' = [at EXCEPT ![h].pc = "message", ![h].tries = <<"sent">>]
              /\ UNCHANGED <<maker, acked>>
         ELSE Answer(h, FALSE, maker)
  BY DEF Verify
<1>2. key' \in [current : 0..1, cached : {0, 1, None}, new : BOOLEAN]
  <2>1. /\ key \in [current : 0..1, cached : {0, 1, None}, new : BOOLEAN]
        /\ key.current \in {0, 1}
    BY DEF IndInv, TypeOK
  <2>2. CASE fetch
    <3>1. key' = [key EXCEPT !.cached = key.current, !.new = TRUE]
      BY <1>1, <2>2
    <3> HIDE DEF fetch
    <3> QED BY <2>1, <3>1
  <2> QED BY <1>1, <2>1, <2>2
<1>3. CASE ~(fetch \/ Verified)
  BY <1>1, <1>2, <1>3, AnswerInd, Types DEF IndInv
<1>4. CASE fetch \/ Verified
  <2>1. at' \in [Handlers -> Records] /\ Goes(h, "message", <<"sent">>)
    BY <1>1, <1>4, GoesTypes, RecordTypes DEF IndInv
  <2>2. MakesOnly(h) /\ maker' = maker /\ acked' = acked /\ merged' = merged
    BY <1>1, <1>4, Types DEF MakesOnly, IndInv, channel
  <2>3. HandlerInv(h)'
    <3>1. DOMAIN <<"sent">> = {1} /\ <<"sent">>[1] = "sent" /\ <<"sent">> # <<>>
      OBVIOUS
    <3>2. \A d \in Documents : maker[d] # h
      BY <1>1 DEF IndInv, HandlerInv
    <3>3. at[h].event \in Events /\ Doc(at[h].event) \in Documents
          /\ Kind(at[h].event) = "kick"
      BY <1>1, RecordTypes DEF IndInv, HandlerInv
    <3> QED BY <2>1, <2>2, <3>1, <3>2, <3>3 DEF HandlerInv, Goes
  <2>4. /\ \A k \in Handlers : Len(at'[k].tries) <= MaxAttempts
        /\ \A k \in Handlers : HandlerInv(k)'
    BY <2>1, <2>2, <2>3, GoesKeeps, RecordTypes
  <2>5. TypeOK'
    BY <1>1, <1>2, <2>1, <2>2, <2>4 DEF IndInv, channel, TypeOK, Records, Tries
  <2>6. Counted' /\ AckWritten' /\ PollInv'
    BY <1>1, <2>2, CountKept, AckKept DEF IndInv, PollInv, channel
  <2> QED BY <2>4, <2>5, <2>6 DEF IndInv
<1> QED BY <1>3, <1>4

\* A step of a handler that goes on with its attempts.
LEMMA TriesInd ==
    ASSUME IndInv, NEW h \in Handlers, NEW tries \in Tries,
           Len(tries) <= MaxAttempts, at' \in [Handlers -> Records],
           Goes(h, at[h].pc, tries), MakesOnly(h), HandlerInv(h)',
           UNCHANGED <<provider, late, channel, key, poll, polls>>
    PROVE  IndInv'
<1>1. /\ \A k \in Handlers : Len(at'[k].tries) <= MaxAttempts
      /\ \A k \in Handlers : HandlerInv(k)'
  BY GoesKeeps
<1>2. TypeOK'
  BY <1>1 DEF IndInv, channel, provider, TypeOK, Records, Tries, Makers, MakesOnly
<1>3. Counted' /\ AckWritten' /\ PollInv'
  BY CountKept, AckKept DEF IndInv, PollInv, channel, provider
<1> QED BY <1>1, <1>2, <1>3 DEF IndInv

\* A handler with attempts is one of Kick's or of a reader, at its message.
LEMMA AtMessage ==
    ASSUME IndInv, NEW h \in Handlers, at[h].tries # <<>>
    PROVE  /\ at[h].pc = "message" /\ at[h].event \in Events
           /\ Kind(at[h].event) \notin {"twitch", "follow"}
           /\ Doc(at[h].event) \in Documents
           /\ at[h].tries \in Tries /\ HandlerInv(h)
           /\ \A c \in Documents : maker[c] = h => c = Doc(at[h].event)
  BY RecordTypes, Types DEF IndInv, HandlerInv, Records

\* An attempt lands, finds the document, or fails.
LEMMA AttemptKeeps ==
    ASSUME IndInv, NEW h \in Handlers, NEW i \in 1..MaxAttempts, Attempt(h, i)
    PROVE  IndInv'
<1> DEFINE d == Doc(at[h].event)
           tries == at[h].tries
<1>1. i \in DOMAIN tries /\ tries[i] = "sent"
      /\ UNCHANGED <<provider, late, channel, key, poll, polls>>
  BY DEF Attempt
<1>2. tries # <<>>
  BY <1>1
<1>3. /\ at[h].pc = "message" /\ at[h].event \in Events
      /\ Kind(at[h].event) \notin {"twitch", "follow"}
      /\ d \in Documents /\ tries \in Tries /\ HandlerInv(h)
      /\ \A c \in Documents : maker[c] = h => c = d
  BY <1>2, AtMessage
<1>4. PICK outcome \in {"error", "exists", "ok"} :
         /\ at' = [at EXCEPT ![h].tries[i] = outcome]
         /\ \/ maker' = Make(d, h) /\ outcome # (IF Exists(d) THEN "ok" ELSE "exists")
            \/ maker' = maker /\ outcome = "error"
  BY DEF Attempt
<1> DEFINE new == [tries EXCEPT ![i] = outcome]
<1>5. /\ at' \in [Handlers -> Records] /\ new \in Tries
      /\ Len(new) = Len(tries) /\ Goes(h, at[h].pc, new)
  BY <1>1, <1>4, TryTypes DEF IndInv, Outcomes
<1>6. /\ maker' \in Makers
      /\ \A c \in Documents : c # d => maker'[c] = maker[c]
      /\ \/ maker'[d] = IF maker[d] = None THEN h ELSE maker[d]
         \/ maker'[d] = maker[d] /\ outcome = "error"
  BY <1>3, <1>4, MakeTypes, Types DEF IndInv
<1>7. MakesOnly(h)
  BY <1>6, DeliveryAssumption DEF MakesOnly
<1>8. new # <<>> /\ DOMAIN new = DOMAIN tries
      /\ \A k \in DOMAIN tries : new[k] = IF k = i THEN outcome ELSE tries[k]
  BY <1>1, <1>3, <1>5 DEF Tries
<1>9. \A k \in DOMAIN new : new[k] \in {"ok", "exists"} => maker'[d] # None
  <2> SUFFICES ASSUME NEW k \in DOMAIN new, new[k] \in {"ok", "exists"}
               PROVE  maker'[d] # None
    OBVIOUS
  <2>1. CASE k = i
    BY <1>3, <1>6, <1>8, <2>1, DeliveryAssumption
  <2>2. CASE k # i
    <3>1. maker[d] # None
      BY <1>3, <1>8, <2>2 DEF HandlerInv
    <3> QED BY <1>3, <1>7, <3>1 DEF MakesOnly
  <2> QED BY <2>1, <2>2
<1>10. Len(new) = 1 /\ new[1] \in {"sent", "exists"} => maker'[d] # h
  <2> SUFFICES ASSUME Len(new) = 1, new[1] \in {"sent", "exists"} PROVE maker'[d] # h
    OBVIOUS
  <2>1. i = 1 /\ Len(tries) = 1
    BY <1>1, <1>3, <1>5 DEF Tries
  <2>2. maker[d] # h
    BY <1>1, <1>3, <2>1 DEF HandlerInv
  <2>3. outcome = "exists"
    BY <1>8, <1>1, <2>1
  <2>4. maker[d] # None
    BY <1>4, <2>3 DEF Exists
  <2> QED BY <1>6, <2>2, <2>4
<1>11. HandlerInv(h)'
  <2>1. at'[h].pc = "message" /\ at'[h].event = at[h].event /\ at'[h].tries = new
    BY <1>3, <1>5 DEF Goes
  <2>2. \A c \in Documents : maker'[c] = h => c = d
    BY <1>3, <1>6
  <2> HIDE DEF new, tries
  <2> QED BY <1>3, <1>8, <1>9, <1>10, <2>1, <2>2 DEF HandlerInv
<1>12. Len(new) <= MaxAttempts
  BY <1>5 DEF IndInv, TypeOK
<1> QED BY <1>1, <1>5, <1>7, <1>11, <1>12, TriesInd

\* A failed attempt is taken.
LEMMA FailedKeeps ==
    ASSUME IndInv, NEW h \in Handlers, NEW i \in 1..MaxAttempts, Failed(h, i)
    PROVE  IndInv'
<1> DEFINE d == Doc(at[h].event)
           tries == at[h].tries
           new == [tries EXCEPT ![i] = "taken"]
<1>1. /\ i \in DOMAIN tries /\ tries[i] = "error" /\ maker' = maker
      /\ at' = [at EXCEPT ![h].tries[i] = "taken"]
      /\ UNCHANGED <<provider, late, channel, key, poll, polls>>
  BY DEF Failed
<1>2. /\ at[h].pc = "message" /\ at[h].event \in Events
      /\ Kind(at[h].event) \notin {"twitch", "follow"}
      /\ d \in Documents /\ tries \in Tries /\ HandlerInv(h)
  BY <1>1, AtMessage
<1>3. /\ at' \in [Handlers -> Records] /\ new \in Tries
      /\ Len(new) = Len(tries) /\ Goes(h, at[h].pc, new)
  BY <1>1, TryTypes DEF IndInv
<1>4. MakesOnly(h)
  BY <1>1, Types DEF IndInv, MakesOnly
<1>5. new # <<>> /\ DOMAIN new = DOMAIN tries
      /\ \A k \in DOMAIN tries : new[k] = IF k = i THEN "taken" ELSE tries[k]
  BY <1>1, <1>2, <1>3 DEF Tries
<1>8. Len(new) = 1 => i = 1
  BY <1>1, <1>2, <1>3 DEF Tries
<1>6. HandlerInv(h)'
  <2>1. at'[h].pc = "message" /\ at'[h].event = at[h].event /\ at'[h].tries = new
    BY <1>2, <1>3 DEF Goes
  <2> HIDE DEF new
  <2> QED BY <1>1, <1>2, <1>5, <1>8, <2>1 DEF HandlerInv
<1>7. Len(new) <= MaxAttempts
  BY <1>3 DEF IndInv, TypeOK
<1> QED BY <1>1, <1>3, <1>4, <1>6, <1>7, TriesInd

\* Another attempt: there are two now, and what exists may be the write's own.
LEMMA HedgeKeeps ==
    ASSUME IndInv, NEW h \in Handlers, Hedge(h)
    PROVE  IndInv'
<1> DEFINE d == Doc(at[h].event)
           tries == at[h].tries
           new == Append(tries, "sent")
<1>1. /\ tries # <<>> /\ Len(tries) < MaxAttempts /\ maker' = maker
      /\ at' = [at EXCEPT ![h].tries = new]
      /\ UNCHANGED <<provider, late, channel, key, poll, polls>>
  BY DEF Hedge, MayHedge
<1>2. /\ at[h].pc = "message" /\ at[h].event \in Events
      /\ Kind(at[h].event) \notin {"twitch", "follow"}
      /\ d \in Documents /\ tries \in Tries /\ HandlerInv(h)
  BY <1>1, AtMessage
<1>3. new \in Tries /\ Len(new) = Len(tries) + 1 /\ Len(tries) \in Nat /\ Len(tries) > 0
      /\ new # <<>> /\ DOMAIN new = 1..(Len(tries) + 1) /\ DOMAIN tries = 1..Len(tries)
      /\ new[Len(tries) + 1] = "sent" /\ \A k \in 1..Len(tries) : new[k] = tries[k]
  BY <1>1, <1>2 DEF Tries, Outcomes
<1>4. at' \in [Handlers -> Records] /\ Goes(h, at[h].pc, new)
  BY <1>1, <1>3, TriesTypes DEF IndInv
<1>5. MakesOnly(h)
  BY <1>1, Types DEF IndInv, MakesOnly
<1>6. \A k \in DOMAIN new : new[k] \in {"ok", "exists"} => k \in DOMAIN tries /\ new[k] = tries[k]
  BY <1>3
<1>7. Len(new) # 1 /\ Len(new) <= MaxAttempts
  <2> HIDE DEF new, tries
  <2> QED BY <1>1, <1>3, DeliveryAssumption
<1>8. HandlerInv(h)'
  <2>1. at'[h].pc = "message" /\ at'[h].event = at[h].event /\ at'[h].tries = new
    BY <1>2, <1>4 DEF Goes
  <2>2. new # <<>>
    BY <1>3
  <2> HIDE DEF new
  <2> QED BY <1>1, <1>2, <1>6, <1>7, <2>1, <2>2 DEF HandlerInv
<1> QED BY <1>1, <1>3, <1>4, <1>5, <1>7, <1>8, TriesInd

\* A step that ends the message and leaves the channel alone.
LEMMA WrittenInd ==
    ASSUME IndInv, NEW h \in Handlers, at[h].pc = "message",
           NEW made \in {maker, Make(Doc(at[h].event), h)}, Written(h, made),
           made[Doc(at[h].event)] # None,
           Kind(at[h].event) = "follow" => made[Doc(at[h].event)] = h,
           UNCHANGED <<sent, late, channel, key, poll, polls>>
    PROVE  IndInv'
<1>1. /\ at' \in [Handlers -> Records] /\ maker' \in Makers
      /\ acked' \subseteq Events
      /\ \A k \in Handlers : Len(at'[k].tries) <= MaxAttempts
      /\ \A k \in Handlers : HandlerInv(k)'
      /\ MakesOnly(h) /\ AckWritten'
  BY WrittenKeeps DEF channel
<1>2. TypeOK'
  BY <1>1 DEF IndInv, channel, TypeOK, Records, Tries, Makers
<1>3. Counted' /\ PollInv'
  BY <1>1, CountKept DEF IndInv, PollInv, channel
<1> QED BY <1>1, <1>2, <1>3 DEF IndInv

\* The first attempt that landed ends the write.
LEMMA CreatedKeeps ==
    ASSUME IndInv, NEW h \in Handlers, NEW i \in 1..MaxAttempts, Created(h, i)
    PROVE  IndInv'
<1>1. /\ i \in DOMAIN at[h].tries /\ at[h].tries[i] \in {"ok", "exists"}
      /\ Written(h, maker) /\ UNCHANGED <<sent, late, channel, key, poll, polls>>
  BY DEF Created
<1>2. at[h].pc = "message" /\ Kind(at[h].event) # "follow" /\ HandlerInv(h)
  BY <1>1, AtMessage
<1>3. maker[Doc(at[h].event)] # None
  BY <1>1, <1>2 DEF HandlerInv
<1> QED BY <1>1, <1>2, <1>3, WrittenInd

\* Twitch's messages: a follower's is skipped when it is there already, and made
\* by the handler that goes on to count him otherwise.
LEMMA TwitchKeeps ==
    ASSUME IndInv, NEW h \in Handlers, TwitchMessage(h)
    PROVE  IndInv'
<1> DEFINE d == Doc(at[h].event)
           made == Make(d, h)
<1>1. /\ at[h].pc = "message" /\ UNCHANGED <<sent, late, channel, key, poll, polls>>
      /\ \/ Recorded(h) /\ Answer(h, TRUE, maker)
         \/ ~Recorded(h) /\ Written(h, made)
         \/ ~Recorded(h) /\ Answer(h, FALSE, made)
  BY DEF TwitchMessage
<1>2. TypeOK /\ HandlerInv(h) /\ at[h].event \in Events /\ d \in Documents
      /\ maker \in Makers
  BY <1>1, RecordTypes, Types DEF IndInv, HandlerInv
<1>3. made[d] = IF maker[d] = None THEN h ELSE maker[d]
  BY <1>2, MakeTypes
<1>4. CASE Recorded(h) /\ Answer(h, TRUE, maker)
  <2>1. maker[d] # None /\ ~Fields(at[h].event)
    BY <1>2, <1>4, DeliveryAssumption DEF Recorded, Exists
  <2> QED BY <1>1, <1>2, <1>4, <2>1, AnswerInd DEF TypeOK
<1>5. CASE ~Recorded(h) /\ Written(h, made)
  <2>1. made[d] # None /\ (Kind(at[h].event) = "follow" => made[d] = h)
    BY <1>3, <1>5, DeliveryAssumption DEF Recorded, Exists
  <2> QED BY <1>1, <1>5, <2>1, WrittenInd
<1>6. CASE Answer(h, FALSE, made)
  BY <1>1, <1>2, <1>6, AnswerInd DEF TypeOK
<1> QED BY <1>1, <1>4, <1>5, <1>6

\* The write is given up, and an attempt may be left behind.
LEMMA GiveUpKeeps ==
    ASSUME IndInv, NEW h \in Handlers, GiveUp(h)
    PROVE  IndInv'
<1>1. at[h].pc = "message" /\ Doc(at[h].event) \in Documents
  BY AtMessage DEF GiveUp
<1>2. late' \in Documents \cup {None}
  BY <1>1 DEF GiveUp, IndInv, TypeOK
<1>3. key' \in [current : 0..1, cached : {0, 1, None}, new : BOOLEAN]
  BY DEF GiveUp, IndInv, TypeOK
<1> QED BY <1>1, <1>2, <1>3, AnswerInd DEF GiveUp

\* A delivery that is refused changes nothing that is recorded.
LEMMA RefuseKeeps ==
    ASSUME IndInv, NEW h \in Handlers, Refuse(h)
    PROVE  IndInv'
<1>1. at[h].pc # "idle"
  BY DEF Refuse
<1>2. late' \in Documents \cup {None}
      /\ key' \in [current : 0..1, cached : {0, 1, None}, new : BOOLEAN]
  BY DEF Refuse, IndInv, TypeOK
<1> QED BY <1>1, <1>2, AnswerInd DEF Refuse
-----------------------------------------------------------------------------
\* The handler of a follow counts the document it made; others merge fields.
LEMMA ChannelKeeps ==
    ASSUME IndInv, NEW h \in Handlers, WriteChannel(h) \/ ChannelFails(h)
    PROVE  IndInv'
<1> DEFINE e == at[h].event
<1>1. PICK ok \in BOOLEAN :
         /\ at[h].pc = "channel" /\ Answer(h, ok, maker)
         /\ \/ ChannelWrite(h)
            \/ (Kind(e) = "follow" \/ ~ok) /\ UNCHANGED <<channel, poll>>
         /\ UNCHANGED <<sent, late, key, polls>>
  BY DEF WriteChannel, ChannelFails, Acknowledged
<1>2. /\ TypeOK /\ HandlerInv(h) /\ e \in Events /\ Doc(e) \in Documents
      /\ maker[Doc(e)] # None /\ (Kind(e) = "follow" => maker[Doc(e)] = h)
  BY <1>1, RecordTypes DEF IndInv, HandlerInv
<1>3. /\ merged \subseteq merged' /\ merged' \subseteq Events
      /\ (ok /\ Fields(e) => e \in merged')
      /\ field' \in Events \cup {None, "poll"}
  BY <1>1, <1>2, DeliveryAssumption DEF ChannelWrite, channel, TypeOK
<1>4. \/ UNCHANGED <<stamp, poll>>
      \/ stamp' = poll.time /\ poll' = [poll EXCEPT !.changed = TRUE]
  BY <1>1 DEF ChannelWrite, Touched, channel
<1>5. \/ count' = count
      \/ Kind(e) = "follow" /\ count' = [count EXCEPT ![Doc(e)] = count[Doc(e)] + 1]
  BY <1>1 DEF ChannelWrite, channel
<1>6. /\ at' \in [Handlers -> Records] /\ maker' \in Makers
      /\ acked' \subseteq Events
      /\ \A k \in Handlers : Len(at'[k].tries) <= MaxAttempts
      /\ \A k \in Handlers : HandlerInv(k)'
      /\ MakesOnly(h) /\ AckWritten'
      /\ \A d \in Documents : maker[d] = h => maker'[d] = "gone"
  BY <1>1, <1>2, <1>3, AnswerKeeps
<1>7. count' \in [Documents -> Nat] /\ Counted'
  <2>1. CASE count' = count
    BY <1>2, <1>6, <2>1, CountKept DEF TypeOK
  <2>2. CASE Kind(e) = "follow" /\ count' = [count EXCEPT ![Doc(e)] = count[Doc(e)] + 1]
    <3>1. maker[Doc(e)] = h /\ maker'[Doc(e)] = "gone" /\ count[Doc(e)] = 0
      BY <1>2, <1>6, <2>2, DeliveryAssumption DEF IndInv, Counted
    <3>2. \A d \in Documents : count'[d] = IF d = Doc(e) THEN 1 ELSE count[d]
      BY <1>2, <2>2, <3>1 DEF TypeOK
    <3>3. count' \in [Documents -> Nat]
      BY <1>2, <2>2 DEF TypeOK
    <3> QED BY <1>6, <3>1, <3>2, <3>3 DEF IndInv, Counted, MakesOnly
  <2> QED BY <1>5, <2>1, <2>2
<1>8. stamp' \in Instants /\ poll' \in Polling /\ PollInv'
  <2>1. poll \in Polling /\ stamp \in Instants /\ PollInv
    BY Types DEF IndInv
  <2>2. CASE UNCHANGED <<stamp, poll>>
    BY <2>1, <2>2 DEF PollInv
  <2>3. CASE stamp' = poll.time /\ poll' = [poll EXCEPT !.changed = TRUE]
    <3>1. poll'.changed /\ poll' \in Polling
      BY <2>1, <2>3 DEF Polling
    <3>2. stamp' \in Instants
      BY <2>1, <2>3, DeliveryAssumption DEF Polling, Instants
    <3> QED BY <3>1, <3>2 DEF PollInv
  <2> QED BY <1>4, <2>2, <2>3
<1>9. TypeOK'
  BY <1>1, <1>2, <1>3, <1>4, <1>6, <1>7, <1>8
     DEF TypeOK, Records, Tries, Makers, Polling, Instants
<1> QED BY <1>6, <1>7, <1>8, <1>9 DEF IndInv

\* An abandoned attempt lands, after its handler.
LEMMA LandKeeps == ASSUME IndInv, Land PROVE IndInv'
<1>1. /\ late \in Documents /\ maker' = Make(late, "gone") /\ late' = None
      /\ UNCHANGED <<provider, at, channel, key, poll, polls>>
  BY DEF Land, IndInv, TypeOK
<1>2. /\ maker' \in Makers
      /\ \A c \in Documents : c # late => maker'[c] = maker[c]
      /\ maker'[late] = IF maker[late] = None THEN "gone" ELSE maker[late]
  BY <1>1, MakeTypes, Types DEF IndInv
<1>3. MakesOnly(None) /\ None \notin Handlers
  BY <1>1, <1>2, DeliveryAssumption DEF MakesOnly
<1>4. \A k \in Handlers : HandlerInv(k)'
  BY <1>1, <1>3, OthersKept
<1>5. Counted' /\ AckWritten' /\ PollInv'
  BY <1>1, <1>3, CountKept, AckKept DEF IndInv, PollInv, channel, provider
<1>6. TypeOK'
  BY <1>1, <1>2 DEF IndInv, TypeOK, Makers, channel, provider
<1> QED BY <1>4, <1>5, <1>6 DEF IndInv

\* A message expires that no handler is at: it is not acknowledged any more, and
\* its follower not counted.
LEMMA ExpiryKeeps ==
    ASSUME IndInv, NEW d \in Documents, MessageExpires(d)
    PROVE  IndInv'
<1>1. /\ maker' = [maker EXCEPT ![d] = None] /\ count' = [count EXCEPT ![d] = 0]
      /\ acked' = {e \in acked : Doc(e) # d} /\ at' = at
      /\ \A h \in Handlers : at[h].pc # "idle" => Doc(at[h].event) # d
      /\ UNCHANGED <<sent, late, merged, field, stamp, key, poll, polls>>
  BY DEF MessageExpires
<1>2. maker \in Makers /\ count \in [Documents -> Nat] /\ acked \subseteq Events
  BY Types DEF IndInv
<1>3. /\ maker' \in Makers /\ count' \in [Documents -> Nat]
      /\ maker'[d] = None /\ count'[d] = 0
      /\ \A c \in Documents \ {d} : maker'[c] = maker[c] /\ count'[c] = count[c]
  BY <1>1, <1>2 DEF Makers
<1>4. \A h \in Handlers : HandlerInv(h)'
  <2> SUFFICES ASSUME NEW h \in Handlers PROVE HandlerInv(h)'
    OBVIOUS
  <2>1. HandlerInv(h) /\ at'[h] = at[h] /\ None # h
    BY <1>1, DeliveryAssumption DEF IndInv
  <2>2. \A c \in Documents : maker'[c] = h => maker[c] = h
    BY <1>3, <2>1
  <2>3. CASE at[h].pc = "idle"
    <3>1. at[h].tries = <<>>
      BY <2>1, <2>3 DEF HandlerInv
    <3> QED BY <2>1, <2>2, <2>3, <3>1, RecordTypes DEF HandlerInv
  <2>4. CASE at[h].pc # "idle"
    <3>1. Doc(at[h].event) \in Documents \ {d}
      BY <1>1, <2>1, <2>4, RecordTypes DEF HandlerInv
    <3>2. maker'[Doc(at[h].event)] = maker[Doc(at[h].event)]
      BY <1>3, <3>1
    <3> QED BY <2>1, <2>2, <3>2 DEF HandlerInv
  <2> QED BY <2>3, <2>4
<1>5. Counted'
  BY <1>3 DEF IndInv, Counted
<1>6. AckWritten'
  <2> SUFFICES ASSUME NEW e \in acked'
               PROVE  maker'[Doc(e)] # None /\ (Fields(e) => e \in merged')
    BY DEF AckWritten, Exists
  <2>1. e \in acked /\ Doc(e) \in Documents \ {d}
    BY <1>1, <1>2, RecordTypes
  <2> QED BY <1>1, <1>3, <2>1 DEF IndInv, AckWritten, Exists
<1>7. TypeOK' /\ PollInv'
  BY <1>1, <1>2, <1>3 DEF IndInv, TypeOK, Makers, PollInv
<1> QED BY <1>4, <1>5, <1>6, <1>7 DEF IndInv

\* The poll, Kick's key and the passing of time leave the handlers alone.
LEMMA OutsideKeeps ==
    ASSUME IndInv, UNCHANGED <<provider, at, maker, late, merged, count>>,
           field' \in Events \cup {None, "poll"}, stamp' \in Instants,
           key' \in [current : 0..1, cached : {0, 1, None}, new : BOOLEAN],
           poll' \in Polling,
           polls' \in 0..MaxPolls, PollInv'
    PROVE  IndInv'
<1>1. \A k \in Handlers : HandlerInv(k)'
  <2> SUFFICES ASSUME NEW k \in Handlers PROVE HandlerInv(k)'
    OBVIOUS
  <2>1. HandlerInv(k) /\ at' = at /\ maker' = maker
    BY DEF IndInv
  <2> QED BY ONLY <2>1 DEF HandlerInv
<1>2. Counted' /\ AckWritten'
  BY DEF IndInv, Counted, AckWritten, Exists, provider
<1>3. TypeOK'
  BY DEF IndInv, TypeOK, provider, Polling, Instants
<1> QED BY <1>1, <1>2, <1>3 DEF IndInv

\* Every step keeps the invariant.
LEMMA InvariantStep == IndInv /\ [Next]_vars => IndInv'
<1> SUFFICES ASSUME IndInv, [Next]_vars PROVE IndInv'
  OBVIOUS
<1>0. TypeOK /\ PollInv /\ poll \in Polling /\ stamp \in Instants /\ NoPoll \in Polling
  BY Types, DeliveryAssumption DEF IndInv, NoPoll, Polling, Skews
<1>1. CASE Rotate \/ Minute
  <2>1. key' \in [current : 0..1, cached : {0, 1, None}, new : BOOLEAN]
    <3>1. key \in [current : 0..1, cached : {0, 1, None}, new : BOOLEAN] /\ 1 \in 0..1
      BY <1>0 DEF TypeOK
    <3>2. CASE Rotate
      BY <3>1, <3>2 DEF Rotate
    <3>3. CASE Minute
      BY <3>1, <3>3 DEF Minute
    <3> QED BY <1>1, <3>2, <3>3
  <2> QED BY <1>0, <1>1, <2>1, OutsideKeeps DEF Rotate, Minute, TypeOK, PollInv, channel
<1>2. CASE PollStart
  <2>1. polls' \in 0..MaxPolls /\ stamp' \in Instants
    BY <1>0, <1>2, DeliveryAssumption DEF PollStart, TypeOK, Instants
  <2>2. poll' \in Polling /\ poll'.pc = "fetched"
    BY <1>2, DeliveryAssumption DEF PollStart, Polling
  <2> QED BY <1>0, <1>2, <2>1, <2>2, OutsideKeeps DEF PollStart, TypeOK, PollInv
<1>3. CASE PollTakes
  <2>1. poll' \in Polling /\ UNCHANGED <<poll.pc, poll.changed, poll.skew>>
    BY <1>0, <1>3, DeliveryAssumption DEF PollTakes, Polling
  <2> QED BY <1>0, <1>3, <2>1, OutsideKeeps DEF PollTakes, TypeOK, PollInv, channel
<1>4. CASE PollRead
  <2>1. /\ poll' \in Polling
        /\ \/ poll' = NoPoll
           \/ poll'.skew = poll.skew /\ ~(stamp > poll.skew)
    BY <1>0, <1>4 DEF PollRead, Newer, Polling
  <2>2. CASE poll' = NoPoll
    <3>1. poll'.pc = "idle"
      BY <2>2 DEF NoPoll
    <3> QED BY <1>0, <1>4, <2>1, <3>1, OutsideKeeps DEF PollRead, TypeOK, PollInv, channel
  <2>3. CASE poll'.skew = poll.skew /\ ~(stamp > poll.skew)
    <3>1. stamp \in Int /\ poll.skew \in Int /\ stamp' = stamp
      BY <1>0, <1>4, DeliveryAssumption DEF PollRead, Polling, Instants, Skews, channel
    <3>2. stamp' <= poll'.skew
      BY <2>3, <3>1
    <3> QED BY <1>0, <1>4, <2>1, <3>2, OutsideKeeps DEF PollRead, TypeOK, PollInv, channel
  <2> QED BY <2>1, <2>2, <2>3
<1>5. CASE PollUnchanged \/ PollWrite
  <2>1. poll' = NoPoll /\ field' \in Events \cup {None, "poll"}
    BY <1>0, <1>5 DEF PollUnchanged, PollWrite, TypeOK, channel
  <2> QED BY <1>0, <1>5, <2>1, OutsideKeeps
          DEF PollUnchanged, PollWrite, TypeOK, PollInv, NoPoll, channel
<1>6. CASE UNCHANGED vars
  BY <1>0, <1>6, OutsideKeeps DEF vars, TypeOK, PollInv, channel
<1>7. ASSUME NEW h \in Handlers, NEW e \in Events, Deliver(h, e) \/ Receive(h, e)
      PROVE  IndInv'
  <2>1. <<"sent">> # <<>>
    OBVIOUS
  <2> QED BY <1>7, <2>1, BeginKeeps DEF Deliver, Receive
<1> QED BY <1>1, <1>2, <1>3, <1>4, <1>5, <1>6, <1>7, LandKeeps, VerifyKeeps,
           RefuseKeeps, HedgeKeeps, GiveUpKeeps, TwitchKeeps, AttemptKeeps,
           CreatedKeeps, FailedKeeps, ChannelKeeps, ExpiryKeeps
     DEF Next

\* The invariant the theorems rest on.
LEMMA Invariance == Spec => []IndInv
<1>1. Init => IndInv
  <2> SUFFICES ASSUME Init PROVE IndInv
    OBVIOUS
  <2> USE DeliveryAssumption, RecordTypes DEF Init
  <2>1. TypeOK
    <3>1. at \in [Handlers -> Records] /\ \A h \in Handlers : Len(at[h].tries) <= MaxAttempts
      BY DEF Idle
    <3>2. poll \in Polling /\ stamp \in Instants
          /\ key \in [current : 0..1, cached : {0, 1, None}, new : BOOLEAN]
      BY DEF NoPoll, Polling, Instants, Skews
    <3>3. maker \in Makers /\ count \in [Documents -> Nat]
      BY DEF Makers
    <3>4. sent \in 0..MaxDeliveries /\ polls \in 0..MaxPolls
      OBVIOUS
    <3>5. acked \subseteq Events /\ late \in Documents \cup {None} /\ merged \subseteq Events
          /\ field \in Events \cup {None, "poll"}
      OBVIOUS
    <3> QED BY ONLY <3>1, <3>2, <3>3, <3>4, <3>5
            DEF TypeOK, Records, Tries, Makers, Polling, Instants
  <2>2. \A h \in Handlers : HandlerInv(h)
    BY DEF HandlerInv, Idle
  <2> QED BY <2>1, <2>2 DEF IndInv, Counted, AckWritten, PollInv, NoPoll
<1> QED BY <1>1, InvariantStep, PTL DEF Spec
-----------------------------------------------------------------------------
\* What the webhooks acknowledge (webhook/twitch.go, webhook/kick.go) is written,
\* in the messages and in the channel: the provider does not deliver it again.
THEOREM AcknowledgedIsWritten == Spec => []AckWritten
<1>1. IndInv => AckWritten
  BY DEF IndInv
<1> QED BY <1>1, Invariance, PTL

\* A hedged or retried creation (chatmessage/create.go) does not report its own
\* document as a duplicate.
THEOREM OwnIsNoDuplicate == Spec => []NoFalseDuplicate
<1>1. IndInv => NoFalseDuplicate
  <2> SUFFICES ASSUME IndInv, NEW h \in Handlers, NEW i \in DOMAIN at[h].tries,
                      at[h].tries[i] = "exists", Len(at[h].tries) = 1
               PROVE  maker[Doc(at[h].event)] # h
    BY DEF NoFalseDuplicate, Duplicate
  <2>1. HandlerInv(h) /\ at[h].tries \in Tries
    BY Types DEF IndInv, Records
  <2>2. i = 1
    BY <2>1 DEF Tries
  <2> QED BY <2>1, <2>2 DEF HandlerInv
<1> QED BY <1>1, Invariance, PTL

\* A follower is counted at most once until his message expires (webhook/twitch.go
\* keys his document by follower and skips the rest when it exists), and the state
\* is well-formed.
THEOREM FollowersCountedOnce == Spec => []FollowInv
<1>1. IndInv => FollowInv
  BY DEF IndInv, Counted, FollowInv
<1> QED BY <1>1, Invariance, PTL

\* The scheduled poll (jobs/metadata.go) does not overwrite what a webhook wrote
\* after the poll started, unless the replica's clock is ahead of the database's by
\* as much as the webhook came later: by MaxSkew at most.
THEOREM PollsYield == Spec => PollYields
<1>1. IndInv /\ [Next]_vars => [field' = "poll" /\ field # "poll" => stamp <= MaxSkew]_vars
  <2> SUFFICES ASSUME IndInv, Next, field' = "poll", field # "poll"
               PROVE  stamp <= MaxSkew
    OBVIOUS
  <2>1. CASE PollWrite
    <3>1. stamp <= poll.skew
      BY <2>1 DEF PollWrite, IndInv, PollInv
    <3>2. poll.skew \in Skews /\ stamp \in Instants
      BY Types DEF IndInv, Polling
    <3> QED BY <3>1, <3>2, DeliveryAssumption DEF Skews, Instants
  <2>2. ASSUME NEW h \in Handlers, WriteChannel(h) \/ ChannelFails(h) PROVE FALSE
    <3>1. at[h].event \in Events
      BY <2>2 DEF WriteChannel, ChannelFails, IndInv, HandlerInv
    <3> QED BY <2>2, <3>1, DeliveryAssumption DEF WriteChannel, ChannelFails,
            ChannelWrite, channel
  <2> QED BY <2>1, <2>2 DEF Next, Rotate, Minute, Land, PollStart, PollTakes,
         PollRead, PollUnchanged, MessageExpires, Deliver, Receive, Begin, Verify,
         Refuse, Hedge, GiveUp, TwitchMessage, Attempt, Created, Failed, channel
<1> QED BY <1>1, Invariance, PTL DEF Spec, PollYields
=============================================================================
