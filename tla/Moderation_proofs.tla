--------------------------- MODULE Moderation_proofs ---------------------------
(***************************************************************************)
(* What a step of Moderation may do to the appeals and to the record a     *)
(* mute stands on, and the promises that follow for any number of          *)
(* handlers, appeals, punishments and moderators.  Then what a step of     *)
(* Users may do to bindings, codes, profiles and aliases, and the promises *)
(* made to those who are bound, named by a code or anonymised.             *)
(***************************************************************************)
EXTENDS Moderation, Users, SequenceTheorems, TLAPS

\* An appeal is a pair of a status and a punishment.
Recorded(x) ==
    /\ x = [status |-> x.status, pun |-> x.pun] /\ x.pun \in Puns
    /\ x.status \in {"pending", "rejected", "accepted"}

AppealsShape ==
    /\ appeals = [a \in Apps |-> appeals[a]]
    /\ \A a \in Apps : appeals[a] = NoAppeal \/ Recorded(appeals[a])

\* All that ever happens to appeals.
Submitted(p, a) ==
    /\ PendingByPunishment(p) = {}
    /\ appeals[a] = NoAppeal
    /\ appeals' = [appeals EXCEPT ![a] = [status |-> "pending", pun |-> p]]
Rejected(a) == Pending(a) /\ appeals' = Decided(appeals, {a}, "rejected")
Accepted(S) ==
    /\ \A a \in S \intersect Apps : appeals[a] # NoAppeal
    /\ appeals' = Decided(appeals, S, "accepted")
Dropped(S) == appeals' = [a \in Apps |-> IF a \in S THEN appeals[a] ELSE NoAppeal]

AppealStep ==
    \/ UNCHANGED appeals
    \/ \E p \in Puns, a \in Apps : Submitted(p, a)
    \/ \E a \in Apps : Rejected(a)
    \/ \E S : Accepted(S)
    \/ \E S : Dropped(S)

\* The private guide is sent about a punishment there was.
Guided == \A w \in Workers : run[w].kind = "guide" => run[w].pun \in Puns

-----------------------------------------------------------------------------
LEMMA SubmitSteps ==
    ASSUME NEW w, NEW p \in Puns, NEW a \in Apps, Submit(w, p, a)
    PROVE  AppealStep
BY DEF Submit, NewCode, AppealStep, Submitted

LEMMA AcceptSteps ==
    ASSUME NEW p, AcceptAppeals(p)
    PROVE  AppealStep
<1> DEFINE S == PendingByPunishment(p)
<1>1. \A a \in S \intersect Apps : appeals[a] # NoAppeal
  BY DEF PendingByPunishment, Pending, NoAppeal
<1>2. appeals' = Decided(appeals, S, "accepted")
  BY DEF AcceptAppeals
<1> QED BY <1>1, <1>2 DEF AppealStep, Accepted

\* The record operations start a handler and leave the appeals to its end.
LEMMA DisposeSteps ==
    ASSUME NEW w, NEW x, NEW p, NEW act, Dispose(w, x, p, act)
    PROVE  UNCHANGED appeals
BY DEF Dispose, Release, SetMute, Kick, BlacklistUser, CardOp

LEMMA RejectSteps ==
    ASSUME NEW w, NEW x, NEW a \in Apps, AppealReject(w, x, a)
    PROVE  AppealStep
BY DEF AppealReject, AppealStep, Rejected

LEMMA AcceptButtonSteps ==
    ASSUME NEW w, NEW x, NEW a \in Apps, AppealAccept(w, x, a)
    PROVE  AppealStep
<1>1. CASE Release(w, appeals[a].pun, a)
  BY <1>1 DEF Release, CardOp, AppealStep
<1>2. CASE appeals' = Decided(appeals, {a}, "accepted")
  <2>1. appeals[a] # NoAppeal
    BY DEF AppealAccept, Pending, NoAppeal
  <2> QED BY <1>2, <2>1 DEF AppealStep, Accepted
<1> QED BY <1>1, <1>2 DEF AppealAccept

LEMMA FinishSteps ==
    ASSUME NEW w \in Workers, Finish(w)
    PROVE  AppealStep
<1> DEFINE op == run[w]
<1>1. CASE UNCHANGED appeals
  BY <1>1 DEF AppealStep
<1>2. CASE AcceptAppeals(op.pun)
  BY <1>2, AcceptSteps
<1>3. CASE appeals[op.extra] # NoAppeal /\ appeals' = Decided(appeals, {op.extra}, "accepted")
  BY <1>3 DEF AppealStep, Accepted
<1> QED BY <1>1, <1>2, <1>3 DEF Finish

LEMMA AppealSteps ==
    ASSUME Guided, [Next]_vars
    PROVE  AppealStep
<1>1. ASSUME NEW w \in Workers, NEW p \in Puns, NEW m \in Matches, NEW c \in Configs,
             HandleMessage(w, p, m, c)
      PROVE  AppealStep
  BY <1>1 DEF HandleMessage, AppealStep
<1>2. ASSUME NEW w \in Workers, NEW x \in Actors, NEW p \in Puns,
             HandlePunish(w, x, p) \/ PunishCallback(w, x, p) \/ PunishmentRequest(w, x, p)
      PROVE  AppealStep
  BY <1>2, DisposeSteps DEF HandlePunish, PunishCallback, PunishmentRequest, Punish, AppealStep
<1>3. ASSUME NEW w \in Workers, NEW x \in Actors, NEW s \in {"group", "global"},
             HandleBlacklist(w, x, s) \/ BlacklistDeleteCard(x, s) \/ BlacklistRequest(w, x, s)
      PROVE  AppealStep
  BY <1>3 DEF HandleBlacklist, BlacklistDeleteCard, BlacklistRequest, AddBlacklist,
              RemoveBlacklist, BlacklistAdd, BlacklistRemove, AppealStep
<1>4. ASSUME NEW w \in Workers, NEW p \in Puns, NEW a \in Apps, HandleAppeal(w, p, a)
      PROVE  AppealStep
  BY <1>4, SubmitSteps DEF HandleAppeal
<1>5. ASSUME NEW w \in Workers, NEW p \in Puns, AppealNew(w, p)
      PROVE  AppealStep
  BY <1>5 DEF AppealNew, service, AppealStep
<1>6. ASSUME NEW w \in Workers, NEW x \in Actors, NEW a \in Apps,
             AppealReject(w, x, a) \/ AppealAccept(w, x, a) \/ AppealRequest(w, x, a)
      PROVE  AppealStep
  BY <1>6, RejectSteps, AcceptButtonSteps DEF AppealRequest, DecideAppeal
<1>7. ASSUME NEW w \in Workers, NEW a \in Apps, GuideFails(w, a)
      PROVE  AppealStep
  BY <1>7, SubmitSteps DEF GuideFails, Guided
<1>8. ASSUME NEW w \in Workers, GuideSent(w) \/ NotifyAppeal(w) \/ NotifyAppealHandled(w)
      PROVE  AppealStep
  BY <1>8 DEF GuideSent, NotifyAppeal, NotifyAppealHandled, service, AppealStep
<1>9. ASSUME NEW w \in Workers, Finish(w)
      PROVE  AppealStep
  BY <1>9, FinishSteps
<1>10. ASSUME NEW w \in Workers, NEW ok \in BOOLEAN, Call(w, ok)
       PROVE  AppealStep
  BY <1>10 DEF Call, AppealStep
<1>11. ASSUME NEW a \in Apps, HoldExpires(a) \/ ForwardIfStale(a)
       PROVE  AppealStep
  BY <1>11 DEF HoldExpires, ForwardIfStale, service, AppealStep
<1>12. ASSUME WatcherRuns \/ TimePasses
       PROVE  AppealStep
  BY <1>12 DEF WatcherRuns, TimePasses, service, AppealStep
<1>13. ASSUME RetentionRuns
       PROVE  AppealStep
  <2>1. appeals' = [a \in Apps |-> IF a \in Apps \ StaleAppeals THEN appeals[a] ELSE NoAppeal]
    BY <1>13 DEF RetentionRuns
  <2> QED BY <2>1 DEF AppealStep, Dropped
<1>14. ASSUME Restart
       PROVE  AppealStep
  BY <1>14 DEF Restart, AppealStep, Dropped
<1>15. CASE UNCHANGED vars
  BY <1>15 DEF vars, AppealStep
<1> QED
  BY <1>1, <1>2, <1>3, <1>4, <1>5, <1>6, <1>7, <1>8, <1>9, <1>10, <1>11, <1>12, <1>13,
     <1>14, <1>15 DEF Next

-----------------------------------------------------------------------------
AppealInv == AppealsShape /\ OnePending

LEMMA AppealInvInit == Init => AppealInv
BY DEF Init, AppealInv, AppealsShape, OnePending, Pending, NoAppeal

\* A decided appeal keeps its punishment.
LEMMA DecidedAppeal ==
    ASSUME AppealsShape, NEW S, NEW s, NEW a \in Apps,
           a \in S => appeals[a] # NoAppeal
    PROVE  /\ a \in S => Decided(appeals, S, s)[a] = [status |-> s, pun |-> appeals[a].pun]
           /\ a \notin S => Decided(appeals, S, s)[a] = appeals[a]
BY DEF AppealsShape, Recorded, Decided

LEMMA AppealInvNext == AppealInv /\ AppealStep => AppealInv'
<1> SUFFICES ASSUME AppealInv, AppealStep PROVE AppealInv'
  OBVIOUS
<1> USE DEF AppealInv
<1>1. CASE UNCHANGED appeals
  BY <1>1 DEF AppealsShape, OnePending, Pending
<1>2. ASSUME NEW p \in Puns, NEW b \in Apps, Submitted(p, b)
      PROVE  AppealInv'
  <2>1. /\ appeals' = [a \in Apps |-> IF a = b THEN [status |-> "pending", pun |-> p]
                                               ELSE appeals[a]]
        /\ \A a \in Apps : appeals'[a] = IF a = b THEN [status |-> "pending", pun |-> p]
                                                  ELSE appeals[a]
    BY <1>2 DEF Submitted, AppealsShape
  <2>2. AppealsShape'
    BY <2>1 DEF AppealsShape, Recorded
  <2>3. \A a \in Apps : ~(Pending(a) /\ appeals[a].pun = p)
    BY <1>2 DEF Submitted, PendingByPunishment
  <2>4. OnePending'
    BY <2>1, <2>3 DEF OnePending, Pending
  <2> QED BY <2>2, <2>4
<1>3. ASSUME NEW S, NEW s \in {"rejected", "accepted"},
             \A a \in S \intersect Apps : appeals[a] # NoAppeal,
             appeals' = Decided(appeals, S, s)
      PROVE  AppealInv'
  <2>1. \A a \in Apps :
            /\ a \in S => appeals'[a] = [status |-> s, pun |-> appeals[a].pun]
            /\ a \notin S => appeals'[a] = appeals[a]
    BY <1>3, DecidedAppeal
  <2>2. appeals' = [a \in Apps |-> appeals'[a]]
    BY <1>3 DEF Decided
  <2>3. AppealsShape'
    <3>1. \A a \in Apps : a \in S => appeals[a].pun \in Puns
      BY <1>3 DEF AppealsShape, Recorded
    <3>2. ASSUME NEW a \in Apps, a \in S PROVE Recorded(appeals'[a])
      <4> DEFINE p == appeals[a].pun
      <4>1. p \in Puns /\ appeals'[a] = [status |-> s, pun |-> p]
        BY <2>1, <3>1, <3>2
      <4> HIDE DEF p
      <4> QED BY <4>1 DEF Recorded
    <3>3. ASSUME NEW a \in Apps, a \notin S PROVE appeals'[a] = NoAppeal \/ Recorded(appeals'[a])
      BY <2>1, <3>3 DEF AppealsShape
    <3> QED BY <2>2, <3>2, <3>3 DEF AppealsShape, Recorded, NoAppeal
  <2>4. ASSUME NEW a \in Apps, Pending(a)'
        PROVE  Pending(a) /\ appeals'[a] = appeals[a]
    <3>1. a \in S => appeals'[a].status = s
      <4> DEFINE p == appeals[a].pun
      <4>1. a \in S => appeals'[a] = [status |-> s, pun |-> p]
        BY <2>1
      <4> HIDE DEF p
      <4> QED BY <4>1
    <3>2. appeals'[a].status = "pending"
      BY <2>4 DEF Pending
    <3>3. a \notin S
      BY <3>1, <3>2
    <3> QED BY <2>1, <3>2, <3>3 DEF Pending
  <2>5. OnePending'
    BY <2>4 DEF OnePending
  <2> QED BY <2>3, <2>5
<1>4. ASSUME NEW S, Dropped(S)
      PROVE  AppealInv'
  BY <1>4 DEF Dropped, AppealsShape, Recorded, OnePending, Pending, NoAppeal
<1>5. ASSUME NEW a \in Apps, Rejected(a)
      PROVE  AppealInv'
  <2>1. appeals[a] # NoAppeal
    BY <1>5 DEF Rejected, Pending, NoAppeal
  <2> QED BY <1>3, <1>5, <2>1 DEF Rejected
<1>6. ASSUME NEW S, Accepted(S)
      PROVE  AppealInv'
  BY <1>3, <1>6 DEF Accepted
<1> QED BY <1>1, <1>2, <1>4, <1>5, <1>6 DEF AppealStep

LEMMA RanksRise ==
    ASSUME AppealsShape, AppealStep, NEW a \in Apps,
           appeals[a] # NoAppeal, appeals'[a] # NoAppeal
    PROVE  Rank(appeals'[a].status) >= Rank(appeals[a].status)
<1> DEFINE s == appeals[a].status
           t == appeals'[a].status
<1>1. s \in {"pending", "rejected", "accepted"}
  BY DEF AppealsShape, Recorded
<1>2. s = t \/ (s = "pending" /\ t = "rejected") \/ t = "accepted"
  <2>1. CASE UNCHANGED appeals
    BY <2>1
  <2>2. ASSUME NEW p \in Puns, NEW b \in Apps, Submitted(p, b)
        PROVE  s = t
    BY <2>2 DEF Submitted, AppealsShape
  <2>3. ASSUME NEW b \in Apps, Rejected(b)
        PROVE  s = t \/ (s = "pending" /\ t = "rejected")
    <3>1. appeals'[a] = IF a = b THEN [status |-> "rejected", pun |-> appeals[a].pun]
                                 ELSE appeals[a]
      BY <2>3, DecidedAppeal DEF Rejected
    <3> QED BY <2>3, <3>1 DEF Rejected, Pending
  <2>4. ASSUME NEW S, Accepted(S)
        PROVE  s = t \/ t = "accepted"
    <3>1. appeals'[a] = IF a \in S THEN [status |-> "accepted", pun |-> appeals[a].pun]
                                   ELSE appeals[a]
      BY <2>4, DecidedAppeal DEF Accepted
    <3> QED BY <3>1
  <2>5. ASSUME NEW S, Dropped(S)
        PROVE  s = t
    BY <2>5 DEF Dropped
  <2> QED BY <2>1, <2>2, <2>3, <2>4, <2>5 DEF AppealStep
<1>3. /\ s = "pending" => Rank(s) = 1
      /\ s = "rejected" => Rank(s) = 2
      /\ s = "accepted" => Rank(s) = 3
      /\ t = "rejected" => Rank(t) = 2
      /\ t = "accepted" => Rank(t) = 3
  BY DEF Rank
<1> HIDE DEF s, t
<1> QED BY <1>1, <1>2, <1>3 DEF s, t

-----------------------------------------------------------------------------
(***************************************************************************)
(* Mutes and records.                                                      *)
(***************************************************************************)

Rec == [status : {"none", "active", "released"}, muted : BOOLEAN, black : {"", "group", "global"}]

\* The handlers that work on a record, and those of them that write it at the
\* end from the copy they read.
CardKinds == {"release", "setMute", "kick", "blacklist"}
RecordKinds == CardKinds \union {"guard"}
Calls == {"mute", "unmute", "kick", "ban", "unban"}
Has(todo, call) == \E i \in DOMAIN todo : todo[i] = call

Shaped(r) ==
    /\ "kind" \in DOMAIN r
    /\ r.kind \in RecordKinds \union {"ban"} => "todo" \in DOMAIN r /\ r.todo \in Seq(Calls)
    /\ r.kind \in RecordKinds \union {"guide"} => "pun" \in DOMAIN r /\ r.pun \in Puns
    /\ r.kind \in CardKinds => {"rec", "extra"} \subseteq DOMAIN r /\ r.rec \in Rec /\ r.rec.status # "none"
    /\ r.kind \in {"release", "kick", "blacklist", "ban"} => ~Has(r.todo, "mute")
    /\ r.kind = "setMute" =>
          r.extra \in {0, 1} /\ r.todo \in {<<>>, <<IF r.extra > 0 THEN "mute" ELSE "unmute">>}
    /\ r.kind = "release" => r.extra \in Apps \union {0}
    /\ r.kind = "blacklist" => r.extra \in {"group", "global"}

Works(w, p) == run[w].kind \in RecordKinds /\ run[w].pun = p

HandlersInv ==
    /\ recs \in [Puns -> Rec]
    /\ \A p \in Puns : ~Exists(p) => ~recs[p].muted
    /\ run = [w \in Workers |-> run[w]]
    /\ \A w \in Workers : Shaped(run[w])
    /\ \A w \in Workers, p \in Puns : Works(w, p) => Exists(p) \/ p \in old

\* A handler that will write its record as not muted and has no unmute to make
\* before that.
Lifts(w, p) ==
    /\ run[w].kind \in {"release", "setMute"} /\ run[w].pun = p
    /\ run[w].kind = "setMute" => run[w].extra = 0
    /\ ~Has(run[w].todo, "unmute")

Muting(w) == run[w].kind = "setMute" /\ run[w].extra > 0 /\ run[w].todo = <<>>

SureInv ==
    /\ \A v, w \in Workers, p \in Puns : Works(v, p) /\ Works(w, p) => v = w
    /\ \A w \in Workers : run[w].kind \in CardKinds /\ recs[run[w].pun].muted => run[w].rec.muted
    /\ \A w \in Workers : run[w].kind = "guard" /\ Has(run[w].todo, "mute") => recs[run[w].pun].muted
    /\ muted => \/ \E p \in Puns : recs[p].muted /\ \A w \in Workers : ~Lifts(w, p)
                \/ \E w \in Workers : Muting(w)

MuteInv == HandlersInv /\ (~unsure => SureInv)

-----------------------------------------------------------------------------
\* What the proofs use of a list of calls.
LEMMA HeadAndTail ==
    ASSUME NEW todo \in Seq(Calls), todo # <<>>
    PROVE  /\ Tail(todo) \in Seq(Calls)
           /\ Has(todo, Head(todo))
           /\ \A c : Has(Tail(todo), c) => Has(todo, c)
           /\ \A c : Has(todo, c) => c = Head(todo) \/ Has(Tail(todo), c)
<1>1. /\ Tail(todo) \in Seq(Calls) /\ Len(todo) \in Nat \ {0}
      /\ Len(Tail(todo)) = Len(todo) - 1
      /\ \A i \in 1..(Len(todo) - 1) : Tail(todo)[i] = todo[i + 1]
      /\ Head(todo) = todo[1]
      /\ DOMAIN todo = 1..Len(todo) /\ DOMAIN Tail(todo) = 1..(Len(todo) - 1)
  OBVIOUS
<1>2. Has(todo, Head(todo))
  BY <1>1 DEF Has
<1>3. ASSUME NEW c, Has(Tail(todo), c) PROVE Has(todo, c)
  <2>1. PICK i \in 1..(Len(todo) - 1) : todo[i + 1] = c
    BY <1>1, <1>3 DEF Has
  <2>2. i + 1 \in DOMAIN todo
    BY <1>1
  <2> QED BY <2>1, <2>2 DEF Has
<1>4. ASSUME NEW c, Has(todo, c), c # Head(todo) PROVE Has(Tail(todo), c)
  <2>1. PICK i \in 1..Len(todo) : todo[i] = c
    BY <1>1, <1>4 DEF Has
  <2>2. i # 1
    BY <1>1, <1>4, <2>1
  <2>3. i - 1 \in 1..(Len(todo) - 1) /\ (i - 1) + 1 = i
    BY <1>1, <2>2
  <2>4. Tail(todo)[i - 1] = c
    BY <1>1, <2>1, <2>3
  <2> QED BY <1>1, <2>3, <2>4 DEF Has
<1> QED BY <1>1, <1>2, <1>3, <1>4

LEMMA InJoined ==
    ASSUME NEW s \in Seq(Calls), NEW t \in Seq(Calls), NEW c
    PROVE  s \o t \in Seq(Calls) /\ (Has(s \o t, c) <=> Has(s, c) \/ Has(t, c))
<1>1. /\ s \o t \in Seq(Calls) /\ Len(s \o t) = Len(s) + Len(t)
      /\ \A i \in 1..(Len(s) + Len(t)) :
            (s \o t)[i] = IF i <= Len(s) THEN s[i] ELSE t[i - Len(s)]
      /\ Len(s) \in Nat /\ Len(t) \in Nat
      /\ DOMAIN s = 1..Len(s) /\ DOMAIN t = 1..Len(t)
      /\ DOMAIN (s \o t) = 1..(Len(s) + Len(t))
  OBVIOUS
<1>2. ASSUME Has(s \o t, c) PROVE Has(s, c) \/ Has(t, c)
  <2>1. PICK i \in 1..(Len(s) + Len(t)) : (s \o t)[i] = c
    BY <1>1, <1>2 DEF Has
  <2>2. CASE i <= Len(s)
    <3>1. i \in DOMAIN s /\ s[i] = c
      BY <1>1, <2>1, <2>2
    <3> QED BY <3>1 DEF Has
  <2>3. CASE ~(i <= Len(s))
    <3>1. i - Len(s) \in DOMAIN t /\ t[i - Len(s)] = c
      BY <1>1, <2>1, <2>3
    <3> QED BY <3>1 DEF Has
  <2> QED BY <2>2, <2>3
<1>3. ASSUME Has(s, c) PROVE Has(s \o t, c)
  <2>1. PICK i \in 1..Len(s) : s[i] = c
    BY <1>1, <1>3 DEF Has
  <2>2. i \in DOMAIN (s \o t) /\ (s \o t)[i] = c
    BY <1>1, <2>1
  <2> QED BY <2>2 DEF Has
<1>4. ASSUME Has(t, c) PROVE Has(s \o t, c)
  <2>1. PICK i \in 1..Len(t) : t[i] = c
    BY <1>1, <1>4 DEF Has
  <2>2. Len(s) + i \in DOMAIN (s \o t) /\ (s \o t)[Len(s) + i] = c
    BY <1>1, <2>1
  <2> QED BY <2>2 DEF Has
<1> QED BY <1>1, <1>2, <1>3, <1>4

LEMMA OneCall ==
    ASSUME NEW x \in Calls, NEW c
    PROVE  /\ <<>> \in Seq(Calls) /\ <<x>> \in Seq(Calls)
           /\ ~Has(<<>>, c) /\ (Has(<<x>>, c) <=> c = x)
<1>1. <<>> \in Seq(Calls) /\ <<x>> \in Seq(Calls)
  OBVIOUS
<1>2. ~Has(<<>>, c)
  BY DEF Has
<1>3. DOMAIN <<x>> = {1} /\ <<x>>[1] = x
  OBVIOUS
<1>4. Has(<<x>>, c) <=> c = x
  BY <1>3 DEF Has
<1> QED BY <1>1, <1>2, <1>4

\* The guard plans a mute only with a record that says so.
LEMMA ExecuteCalls ==
    ASSUME NEW action, NEW plan
    PROVE  /\ Execute(action, plan) \in Seq(Calls)
           /\ Has(Execute(action, plan), "mute") => "mute" \in plan
<1> DEFINE m == IF "mute" \in plan THEN <<"mute">> ELSE <<>>
           k == IF "kick" \in plan THEN <<"kick">> ELSE <<>>
           b == IF "blacklist" \in plan THEN <<"ban">> ELSE <<>>
<1>0. <<>> \in Seq(Calls) /\ ~Has(<<>>, "mute")
  BY OneCall DEF Calls
<1>1. /\ m \in Seq(Calls) /\ (Has(m, "mute") => "mute" \in plan)
      /\ k \in Seq(Calls) /\ ~Has(k, "mute")
      /\ b \in Seq(Calls) /\ ~Has(b, "mute")
  <2>0. {"mute", "kick", "ban"} \subseteq Calls
    BY DEF Calls
  <2>1. /\ <<"mute">> \in Seq(Calls)
        /\ <<"kick">> \in Seq(Calls) /\ ~Has(<<"kick">>, "mute")
        /\ <<"ban">> \in Seq(Calls) /\ ~Has(<<"ban">>, "mute")
    BY <2>0, OneCall
  <2> QED BY <1>0, <2>1
<1>2. Execute(action, plan) = IF action = "review" THEN <<>> ELSE (m \o k) \o b
  BY DEF Execute
<1> HIDE DEF m, k, b
<1>3. m \o k \in Seq(Calls) /\ (Has(m \o k, "mute") <=> Has(m, "mute") \/ Has(k, "mute"))
  BY <1>1, InJoined
<1>4. (m \o k) \o b \in Seq(Calls)
      /\ (Has((m \o k) \o b, "mute") <=> Has(m \o k, "mute") \/ Has(b, "mute"))
  BY <1>1, <1>3, InJoined
<1> QED BY <1>0, <1>1, <1>2, <1>3, <1>4

\* A slot that works on no record becomes one that works on no record.
LEMMA QuietStep ==
    ASSUME MuteInv, NEW w \in Workers, NEW r, Shaped(r), r.kind \notin RecordKinds,
           ~Muting(w), run' = [run EXCEPT ![w] = r],
           UNCHANGED <<recs, muted, unsure, old>>
    PROVE  MuteInv'
<1>1. \A v \in Workers : run'[v] = IF v = w THEN r ELSE run[v]
  BY DEF MuteInv, HandlersInv
<1>2. run' = [v \in Workers |-> run'[v]]
  BY DEF MuteInv, HandlersInv
<1>3. \A v \in Workers : \A p : Works(v, p)' => v # w /\ Works(v, p)
  BY <1>1 DEF Works
<1>4. HandlersInv'
  BY <1>1, <1>2, <1>3 DEF MuteInv, HandlersInv, Exists, Shaped
<1>5. \A v \in Workers : \A p : Lifts(v, p)' => Lifts(v, p)
  BY <1>1 DEF Lifts, RecordKinds, CardKinds
<1>6. \A v \in Workers : Muting(v) => Muting(v)'
  BY <1>1 DEF Muting
<1>7. ASSUME ~unsure' PROVE SureInv'
  <2>1. SureInv
    BY <1>7 DEF MuteInv
  <2>2. \A u, v \in Workers, p \in Puns : Works(u, p)' /\ Works(v, p)' => u = v
    BY <1>3, <2>1 DEF SureInv
  <2>3. \A v \in Workers : (run[v].kind \in CardKinds /\ recs[run[v].pun].muted => run[v].rec.muted)'
    BY <1>1, <2>1 DEF SureInv, RecordKinds
  <2>4. \A v \in Workers : (run[v].kind = "guard" /\ Has(run[v].todo, "mute") => recs[run[v].pun].muted)'
    BY <1>1, <2>1 DEF SureInv, RecordKinds
  <2>5. (muted => \/ \E p \in Puns : recs[p].muted /\ \A v \in Workers : ~Lifts(v, p)
                  \/ \E v \in Workers : Muting(v))'
    BY <1>5, <1>6, <2>1 DEF SureInv
  <2> QED BY <2>2, <2>3, <2>4, <2>5 DEF SureInv
<1> QED BY <1>4, <1>7 DEF MuteInv

\* Steps that leave the handlers and the records alone.
LEMMA StillStep ==
    ASSUME MuteInv, UNCHANGED <<recs, muted, run, unsure>>, old \subseteq old'
    PROVE  MuteInv'
<1>1. HandlersInv'
  <2>1. \A w \in Workers, p \in Puns : Works(w, p)' => (Exists(p) \/ p \in old)'
    BY DEF MuteInv, HandlersInv, Works, Exists
  <2>2. (recs \in [Puns -> Rec] /\ \A p \in Puns : ~Exists(p) => ~recs[p].muted)'
    BY DEF MuteInv, HandlersInv, Exists
  <2>3. (run = [w \in Workers |-> run[w]] /\ \A w \in Workers : Shaped(run[w]))'
    BY DEF MuteInv, HandlersInv
  <2> QED BY <2>1, <2>2, <2>3 DEF HandlersInv
<1>2. SureInv => SureInv'
  <2>1. \A w \in Workers : \A p : (Works(w, p)' <=> Works(w, p)) /\ (Lifts(w, p)' <=> Lifts(w, p))
    BY DEF Works, Lifts
  <2>2. \A w \in Workers : Muting(w)' <=> Muting(w)
    BY DEF Muting
  <2> QED BY <2>1, <2>2 DEF SureInv
<1> QED BY <1>1, <1>2 DEF MuteInv

\* A free slot takes up a record: the guard with a new one, or an operation of
\* a card with the copy it has just read.
LEMMA IdleSlot ==
    ASSUME NEW w, Starts(w)
    PROVE  run[w].kind = "idle" /\ ~Muting(w) /\ \A p : ~Works(w, p)
BY DEF Starts, Idle, Muting, Works, RecordKinds, CardKinds

LEMMA TakeUp ==
    ASSUME MuteInv, NEW w \in Workers, run[w].kind = "idle", NEW p \in Puns,
           NEW r, Shaped(r), r.kind \in RecordKinds, r.pun = p,
           run' = [run EXCEPT ![w] = r],
           NEW x \in Rec, x.status # "none", recs' = [recs EXCEPT ![p] = x],
           UNCHANGED <<muted, old>>,
           recs[p].muted => x.muted,
           ~unsure' => ~unsure /\ \A v \in Workers \ {w} : ~Works(v, p),
           r.kind \in CardKinds /\ x.muted => r.rec.muted,
           r.kind = "guard" /\ Has(r.todo, "mute") => x.muted,
           r.kind \in {"release", "setMute"} /\ x.muted
              => Has(r.todo, "unmute") \/ (r.kind = "setMute" /\ r.extra # 0)
    PROVE  MuteInv'
<1>1. /\ \A v \in Workers : run'[v] = IF v = w THEN r ELSE run[v]
      /\ \A q \in Puns : recs'[q] = IF q = p THEN x ELSE recs[q]
      /\ run' = [v \in Workers |-> run'[v]] /\ recs' \in [Puns -> Rec]
  BY DEF MuteInv, HandlersInv
<1>2. \A v \in Workers \ {w} : \A q : Works(v, q)' <=> Works(v, q)
  BY <1>1 DEF Works
<1>3. \A q : Works(w, q)' <=> q = p
  BY <1>1 DEF Works
<1>4. HandlersInv'
  <2>1. \A v \in Workers, q \in Puns : Works(v, q)' => (Exists(q) \/ q \in old)'
    BY <1>1, <1>2, <1>3 DEF MuteInv, HandlersInv, Exists
  <2>2. \A q \in Puns : (~Exists(q) => ~recs[q].muted)'
    BY <1>1 DEF MuteInv, HandlersInv, Exists
  <2>3. \A v \in Workers : Shaped(run[v])'
    <3>1. \A v \in Workers : Shaped(run'[v])
      BY <1>1 DEF MuteInv, HandlersInv
    <3> QED BY <3>1 DEF Shaped
  <2> QED BY <1>1, <2>1, <2>2, <2>3 DEF HandlersInv
<1>5. ASSUME ~unsure' PROVE SureInv'
  <2>1. SureInv /\ \A v \in Workers \ {w} : ~Works(v, p)
    BY <1>5 DEF MuteInv
  <2>2. \A u, v \in Workers, q \in Puns : Works(u, q)' /\ Works(v, q)' => u = v
    BY <1>2, <1>3, <2>1 DEF SureInv
  <2>3. \A v \in Workers : (run[v].kind \in CardKinds /\ recs[run[v].pun].muted => run[v].rec.muted)'
    <3>1. \A v \in Workers \ {w} : run[v].kind \in CardKinds => run[v].pun # p /\ run[v].pun \in Puns
      BY <2>1 DEF Works, MuteInv, HandlersInv, Shaped, RecordKinds
    <3> QED BY <1>1, <2>1, <3>1 DEF SureInv
  <2>4. \A v \in Workers : (run[v].kind = "guard" /\ Has(run[v].todo, "mute") => recs[run[v].pun].muted)'
    <3>1. \A v \in Workers \ {w} : run[v].kind = "guard" => run[v].pun # p /\ run[v].pun \in Puns
      BY <2>1 DEF Works, MuteInv, HandlersInv, Shaped, RecordKinds
    <3> QED BY <1>1, <2>1, <3>1 DEF SureInv
  <2>5. \A v \in Workers : Muting(v) => Muting(v)'
    BY <1>1 DEF Muting
  <2>6. ASSUME NEW q \in Puns, recs[q].muted, \A v \in Workers : ~Lifts(v, q)
        PROVE  recs'[q].muted /\ \A v \in Workers : ~Lifts(v, q)'
    <3>1. \A v \in Workers \ {w} : ~Lifts(v, q)'
      BY <1>1, <2>6 DEF Lifts
    <3>2. recs'[q].muted
      BY <1>1, <2>6
    <3>3. CASE q = p
      BY <1>1, <2>6, <3>1, <3>2, <3>3 DEF Lifts
    <3>4. CASE q # p
      BY <1>1, <3>1, <3>2, <3>4 DEF Lifts
    <3> QED BY <3>3, <3>4
  <2>7. (muted => \/ \E q \in Puns : recs[q].muted /\ \A v \in Workers : ~Lifts(v, q)
                  \/ \E v \in Workers : Muting(v))'
    BY <2>1, <2>5, <2>6 DEF SureInv
  <2> QED BY <2>2, <2>3, <2>4, <2>7 DEF SureInv
<1> QED BY <1>4, <1>5 DEF MuteInv

LEMMA MessageKeeps ==
    ASSUME MuteInv, NEW w \in Workers, NEW p \in Puns, NEW m, NEW c, HandleMessage(w, p, m, c)
    PROVE  MuteInv'
<1> DEFINE action == HighestAction(m)
           plan == PlanFor(action, c)
           todo == Execute(action, plan)
           r == [kind |-> "guard", pun |-> p, todo |-> todo]
           x == [status |-> "active", muted |-> "mute" \in plan,
                 black |-> IF "blacklist" \in plan THEN "group" ELSE ""]
<1>1. /\ ~Exists(p) /\ p \notin old
      /\ recs' = [recs EXCEPT ![p] = x] /\ run' = [run EXCEPT ![w] = r] /\ Starts(w)
      /\ UNCHANGED <<muted, old, unsure>>
  BY DEF HandleMessage, Begin
<1>2. todo \in Seq(Calls) /\ (Has(todo, "mute") => "mute" \in plan)
  BY ExecuteCalls
<1>3. x \in Rec /\ x.status # "none" /\ (x.muted <=> "mute" \in plan)
  <2>1. (IF "blacklist" \in plan THEN "group" ELSE "") \in {"", "group", "global"}
    OBVIOUS
  <2>2. ("mute" \in plan) \in BOOLEAN
    OBVIOUS
  <2> HIDE DEF plan
  <2> QED BY <2>1, <2>2 DEF Rec
<1> HIDE DEF x, todo
<1>4. Shaped(r) /\ r.kind = "guard" /\ r.pun = p /\ r.todo = todo
  BY <1>2 DEF Shaped, RecordKinds, CardKinds
<1> HIDE DEF r
<1>5. ~recs[p].muted /\ \A v \in Workers : ~Works(v, p)
  BY <1>1 DEF MuteInv, HandlersInv
<1>6. run[w].kind = "idle"
  BY <1>1, IdleSlot
<1> QED
  BY <1>1, <1>2, <1>3, <1>4, <1>5, <1>6, TakeUp DEF RecordKinds, CardKinds

LEMMA CardKeeps ==
    ASSUME MuteInv, NEW w \in Workers, NEW p \in Puns, NEW kind \in CardKinds,
           NEW todo \in Seq(Calls), NEW extra, CardOp(w, kind, p, todo, extra),
           kind # "setMute" => ~Has(todo, "mute"),
           kind = "setMute" => /\ extra \in {0, 1}
                               /\ todo = <<IF extra > 0 THEN "mute" ELSE "unmute">>,
           kind = "release" => /\ extra \in Apps \union {0}
                               /\ recs[p].muted => Has(todo, "unmute"),
           kind = "blacklist" => extra \in {"group", "global"}
    PROVE  MuteInv'
<1> DEFINE r == [kind |-> kind, pun |-> p, rec |-> recs[p], todo |-> todo, extra |-> extra]
           x == recs[p]
<1>1. /\ Exists(p) /\ Starts(w) /\ run' = [run EXCEPT ![w] = r]
      /\ unsure' = (unsure \/ Overlaps(w, p))
      /\ UNCHANGED <<recs, muted, old>>
  BY DEF CardOp, Begin
<1>2. x \in Rec /\ x.status # "none" /\ recs' = [recs EXCEPT ![p] = x]
  BY <1>1 DEF MuteInv, HandlersInv, Exists
<1>3. r.kind = kind /\ r.pun = p /\ r.rec = x /\ r.todo = todo /\ r.extra = extra
  OBVIOUS
<1>4. Shaped(r)
  <2>1. DOMAIN r = {"kind", "pun", "rec", "todo", "extra"}
    OBVIOUS
  <2> HIDE DEF r, x
  <2> QED BY <1>2, <1>3, <2>1 DEF Shaped, RecordKinds, CardKinds
<1>5. kind = "setMute" /\ extra = 0 => Has(todo, "unmute")
  BY OneCall DEF Calls
<1>6. ~unsure' => ~unsure /\ \A v \in Workers \ {w} : ~Works(v, p)
  BY <1>1 DEF Overlaps, Works, RecordKinds, CardKinds
<1>7. run[w].kind = "idle"
  BY <1>1, IdleSlot
<1>8. kind = "release" /\ x.muted => Has(todo, "unmute")
  OBVIOUS
<1> HIDE DEF r, x
<1>9. x = recs[p]
  BY DEF x
<1>10. r.kind \in RecordKinds /\ r.kind # "guard"
  BY <1>3 DEF RecordKinds, CardKinds
<1>11. r.kind \in {"release", "setMute"} /\ x.muted
           => Has(r.todo, "unmute") \/ (r.kind = "setMute" /\ r.extra # 0)
  BY <1>3, <1>5, <1>8
<1>12. UNCHANGED <<muted, old>> /\ (r.kind \in CardKinds /\ x.muted => r.rec.muted)
  BY <1>1, <1>3
<1>13. (recs[p].muted => x.muted) /\ (r.kind = "guard" /\ Has(r.todo, "mute") => x.muted)
  BY <1>9, <1>10
<1>14. r.pun = p /\ run' = [run EXCEPT ![w] = r]
  BY <1>1, <1>3
<1> QED
  BY <1>2, <1>4, <1>6, <1>7, <1>10, <1>11, <1>12, <1>13, <1>14, TakeUp, Zenon

LEMMA ReleaseKeeps ==
    ASSUME MuteInv, NEW w \in Workers, NEW p \in Puns, NEW app \in Apps \union {0}, Release(w, p, app)
    PROVE  MuteInv'
<1> DEFINE s == IF recs[p].muted THEN <<"unmute">> ELSE <<>>
           t == IF recs[p].black # "" THEN <<"unban">> ELSE <<>>
<1>1. CardOp(w, "release", p, s \o t, app)
  BY DEF Release
<1>2. /\ s \in Seq(Calls) /\ t \in Seq(Calls) /\ ~Has(s, "mute") /\ ~Has(t, "mute")
      /\ recs[p].muted => Has(s, "unmute")
  <2>0. {"unmute", "unban"} \subseteq Calls
    BY DEF Calls
  <2>1. /\ <<>> \in Seq(Calls) /\ ~Has(<<>>, "mute")
        /\ <<"unmute">> \in Seq(Calls) /\ ~Has(<<"unmute">>, "mute")
        /\ Has(<<"unmute">>, "unmute")
        /\ <<"unban">> \in Seq(Calls) /\ ~Has(<<"unban">>, "mute")
    BY <2>0, OneCall
  <2> QED BY <2>1
<1> HIDE DEF s, t
<1>3. s \o t \in Seq(Calls) /\ \A c : Has(s \o t, c) <=> Has(s, c) \/ Has(t, c)
  BY <1>2, InJoined
<1> QED BY <1>1, <1>2, <1>3, CardKeeps DEF CardKinds

LEMMA DisposeKeeps ==
    ASSUME MuteInv, NEW w \in Workers, NEW p \in Puns, NEW x, NEW act, Dispose(w, x, p, act)
    PROVE  MuteInv'
<1>1. CASE Release(w, p, 0)
  BY <1>1, ReleaseKeeps
<1>2. ASSUME NEW seconds \in {0, 1}, SetMute(w, p, seconds) PROVE MuteInv'
  <2> DEFINE c == IF seconds > 0 THEN "mute" ELSE "unmute"
  <2>1. CardOp(w, "setMute", p, <<c>>, seconds)
    BY <1>2 DEF SetMute
  <2>2. <<c>> \in Seq(Calls)
    BY OneCall DEF Calls
  <2> QED BY <2>1, <2>2, CardKeeps DEF CardKinds
<1>3. <<"kick">> \in Seq(Calls) /\ ~Has(<<"kick">>, "mute")
  BY OneCall DEF Calls
<1>4. CASE Kick(w, p)
  <2>1. CardOp(w, "kick", p, <<"kick">>, 0)
    BY <1>4 DEF Kick
  <2> QED BY <1>3, <2>1, CardKeeps DEF CardKinds
<1>5. CASE act \in {"group", "global"} /\ BlacklistUser(w, p, act)
  <2>1. CardOp(w, "blacklist", p, <<"kick">>, act)
    BY <1>5 DEF BlacklistUser
  <2> QED BY <1>3, <1>5, <2>1, CardKeeps DEF CardKinds
<1> QED BY <1>1, <1>2, <1>4, <1>5 DEF Dispose

LEMMA QuietBegin ==
    ASSUME MuteInv, NEW w \in Workers, Starts(w), NEW r, Shaped(r), r.kind \notin RecordKinds,
           run' = [run EXCEPT ![w] = r], UNCHANGED <<recs, muted, unsure, old>>
    PROVE  MuteInv'
BY IdleSlot, QuietStep

\* What the handlers that touch no record put into their slot.
LEMMA QuietShapes ==
    /\ Shaped(Idle) /\ Idle.kind \notin RecordKinds
    /\ \A a : /\ Shaped([kind |-> "appeal", app |-> a, todo |-> <<"notify">>])
             /\ [kind |-> "appeal", app |-> a, todo |-> <<"notify">>].kind \notin RecordKinds
             /\ Shaped([kind |-> "outcome", app |-> a, todo |-> <<"tell">>])
             /\ [kind |-> "outcome", app |-> a, todo |-> <<"tell">>].kind \notin RecordKinds
    /\ \A p \in Puns : /\ Shaped([kind |-> "guide", pun |-> p, todo |-> <<"guide">>])
                      /\ [kind |-> "guide", pun |-> p, todo |-> <<"guide">>].kind \notin RecordKinds
    /\ Shaped([kind |-> "ban", todo |-> <<"kick">>])
    /\ [kind |-> "ban", todo |-> <<"kick">>].kind \notin RecordKinds
<1>1. Shaped(Idle) /\ Idle.kind \notin RecordKinds
  BY DEF Shaped, Idle, RecordKinds, CardKinds
<1>2. ASSUME NEW a
      PROVE  /\ Shaped([kind |-> "appeal", app |-> a, todo |-> <<"notify">>])
             /\ [kind |-> "appeal", app |-> a, todo |-> <<"notify">>].kind \notin RecordKinds
             /\ Shaped([kind |-> "outcome", app |-> a, todo |-> <<"tell">>])
             /\ [kind |-> "outcome", app |-> a, todo |-> <<"tell">>].kind \notin RecordKinds
  BY DEF Shaped, RecordKinds, CardKinds
<1>3. ASSUME NEW p \in Puns
      PROVE  /\ Shaped([kind |-> "guide", pun |-> p, todo |-> <<"guide">>])
             /\ [kind |-> "guide", pun |-> p, todo |-> <<"guide">>].kind \notin RecordKinds
  BY DEF Shaped, RecordKinds, CardKinds
<1>4. <<"kick">> \in Seq(Calls) /\ ~Has(<<"kick">>, "mute")
  BY OneCall DEF Calls
<1>5. /\ Shaped([kind |-> "ban", todo |-> <<"kick">>])
      /\ [kind |-> "ban", todo |-> <<"kick">>].kind \notin RecordKinds
  BY <1>4 DEF Shaped, RecordKinds, CardKinds
<1> QED BY <1>1, <1>2, <1>3, <1>5

LEMMA SubmitKeeps ==
    ASSUME MuteInv, NEW w \in Workers, NEW p, NEW a \in Apps, Submit(w, p, a), ~Muting(w),
           UNCHANGED <<recs, muted, unsure, old>>
    PROVE  MuteInv'
BY QuietStep, QuietShapes DEF Submit

LEMMA RejectKeeps ==
    ASSUME MuteInv, NEW w \in Workers, NEW x, NEW a \in Apps, AppealReject(w, x, a)
    PROVE  MuteInv'
BY QuietBegin, QuietShapes DEF AppealReject, AfterAppealDecided

LEMMA AcceptKeeps ==
    ASSUME MuteInv, AppealsShape, NEW w \in Workers, NEW x, NEW a \in Apps, AppealAccept(w, x, a)
    PROVE  MuteInv'
<1>1. CASE Release(w, appeals[a].pun, a)
  <2>1. appeals[a].pun \in Puns
    BY DEF AppealAccept, Pending, AppealsShape, NoAppeal, Recorded
  <2> QED BY <1>1, <2>1, ReleaseKeeps
<1>2. CASE Starts(w) /\ AfterAppealDecided(w, a) /\ UNCHANGED <<recs, muted, unsure, old>>
  BY <1>2, QuietBegin, QuietShapes DEF AfterAppealDecided
<1> QED BY <1>1, <1>2 DEF AppealAccept

\* One call made: by the guard it is backed by a record, a failed unmute of
\* release() makes the mutes unsure, a failed call of the others ends them.
LEMMA CallKeeps ==
    ASSUME MuteInv, NEW w \in Workers, NEW ok \in BOOLEAN, Call(w, ok)
    PROVE  MuteInv'
<1> DEFINE op == run[w]
           c == Head(op.todo)
           gone == ~ok /\ op.kind \in {"setMute", "kick"}
           r == IF gone THEN Idle ELSE [op EXCEPT !.todo = Tail(op.todo)]
<1>1. /\ op.kind \in {"guard", "release", "setMute", "kick", "blacklist", "ban"}
      /\ op.todo \in Seq(Calls) /\ op.todo # <<>>
      /\ Shaped(op) /\ "todo" \in DOMAIN op
  <2>1. Shaped(op)
    BY DEF MuteInv, HandlersInv
  <2>2. op.kind \in {"guard", "release", "setMute", "kick", "blacklist", "ban"} /\ Todo(w) # <<>>
    BY DEF Call
  <2>3. Todo(w) = op.todo
    BY <2>2 DEF Todo, Idle
  <2> QED BY <2>1, <2>2, <2>3 DEF Shaped, RecordKinds, CardKinds
<1>2. /\ muted' = IF ok /\ c \in {"mute", "unmute"} THEN c = "mute" ELSE muted
      /\ run' = [run EXCEPT ![w] = r]
      /\ unsure' = (unsure \/ (~ok /\ c = "unmute" /\ op.kind = "release"))
      /\ UNCHANGED <<recs, old>>
  BY DEF Call
<1>3. /\ Tail(op.todo) \in Seq(Calls) /\ Has(op.todo, c)
      /\ \A x : Has(Tail(op.todo), x) => Has(op.todo, x)
      /\ \A x : Has(op.todo, x) => x = c \/ Has(Tail(op.todo), x)
  BY <1>1, HeadAndTail
<1>4. op.kind = "setMute" => /\ op.todo = <<IF op.extra > 0 THEN "mute" ELSE "unmute">>
                             /\ Tail(op.todo) = <<>>
                             /\ c = IF op.extra > 0 THEN "mute" ELSE "unmute"
  <2> DEFINE m == IF op.extra > 0 THEN "mute" ELSE "unmute"
  <2>1. op.kind = "setMute" => op.todo = <<m>>
    BY <1>1 DEF Shaped
  <2> HIDE DEF m
  <2>2. Tail(<<m>>) = <<>> /\ Head(<<m>>) = m
    OBVIOUS
  <2>3. op.kind = "setMute" => op.todo = <<m>> /\ Tail(op.todo) = <<>> /\ c = m
    BY <2>1, <2>2
  <2> QED BY <2>3 DEF m
<1>5. ~gone => /\ DOMAIN r = DOMAIN op /\ r.todo = Tail(op.todo)
               /\ \A f \in DOMAIN op \ {"todo"} : r[f] = op[f]
  BY <1>1
<1>6. ~gone => /\ r.kind = op.kind
               /\ op.kind \in RecordKinds => r.pun = op.pun
               /\ op.kind \in CardKinds => r.rec = op.rec /\ r.extra = op.extra
  <2>1. /\ "kind" \in DOMAIN op /\ (op.kind \in RecordKinds => "pun" \in DOMAIN op)
        /\ op.kind \in CardKinds => "rec" \in DOMAIN op /\ "extra" \in DOMAIN op
    BY <1>1 DEF Shaped
  <2> HIDE DEF r, gone, op
  <2> QED BY <1>5, <2>1
<1>7. gone => r = Idle
  OBVIOUS
<1>8. ok => ~gone
  OBVIOUS
<1>9. ~ok /\ op.kind = "setMute" => gone
  OBVIOUS
<1> HIDE DEF r, c, gone
<1>10. Shaped(r)
  <2>1. CASE gone
    BY <1>7, <2>1 DEF Shaped, Idle, RecordKinds, CardKinds
  <2>2. CASE ~gone
    BY <1>1, <1>3, <1>4, <1>5, <1>6, <2>2 DEF Shaped, RecordKinds, CardKinds
  <2> QED BY <2>1, <2>2
<1>11. /\ \A v \in Workers : run'[v] = IF v = w THEN r ELSE run[v]
       /\ run' = [v \in Workers |-> run'[v]]
  BY <1>2 DEF MuteInv, HandlersInv
<1>12. \A v \in Workers : \A q : Works(v, q)' => Works(v, q)
  BY <1>6, <1>7, <1>11 DEF Works, Idle, RecordKinds, CardKinds
<1>13. HandlersInv'
  <2>1. \A v \in Workers : Shaped(run[v])'
    <3>1. \A v \in Workers : Shaped(run'[v])
      BY <1>10, <1>11 DEF MuteInv, HandlersInv
    <3> QED BY <3>1 DEF Shaped
  <2> QED BY <1>2, <1>11, <1>12, <2>1 DEF MuteInv, HandlersInv, Exists
<1>14. ASSUME ~unsure' PROVE SureInv'
  <2>1. SureInv /\ (~ok /\ c = "unmute" => op.kind # "release")
    BY <1>2, <1>14 DEF MuteInv
  <2>2. \A u, v \in Workers, q \in Puns : Works(u, q)' /\ Works(v, q)' => u = v
    BY <1>12, <2>1 DEF SureInv
  <2>3. \A v \in Workers : (run[v].kind \in CardKinds /\ recs[run[v].pun].muted => run[v].rec.muted)'
    <3>1. r.kind \in CardKinds /\ recs[r.pun].muted => r.rec.muted
      BY <1>6, <1>7, <2>1 DEF SureInv, Idle, CardKinds, RecordKinds
    <3> QED BY <1>2, <1>11, <2>1, <3>1 DEF SureInv
  <2>4. \A v \in Workers : (run[v].kind = "guard" /\ Has(run[v].todo, "mute") => recs[run[v].pun].muted)'
    <3>1. r.kind = "guard" /\ Has(r.todo, "mute") => recs[r.pun].muted
      BY <1>3, <1>5, <1>6, <1>7, <2>1 DEF SureInv, Idle, CardKinds, RecordKinds
    <3> QED BY <1>2, <1>11, <2>1, <3>1 DEF SureInv
  <2>5. ASSUME muted'
        PROVE  \/ \E q \in Puns : recs[q].muted /\ \A v \in Workers : ~Lifts(v, q)'
               \/ \E v \in Workers : Muting(v)'
    <3>1. CASE ok /\ c = "mute"
      <4>1. op.kind \in {"guard", "setMute"}
        BY <1>1, <1>3, <3>1 DEF Shaped
      <4>2. CASE op.kind = "setMute"
        BY <1>4, <1>5, <1>6, <1>8, <1>11, <3>1, <4>2 DEF Muting, CardKinds
      <4>3. CASE op.kind = "guard"
        <5>1. PICK q \in Puns : q = op.pun /\ recs[q].muted /\ Works(w, q)
          BY <1>1, <1>3, <2>1, <3>1, <4>3 DEF Shaped, SureInv, Works, RecordKinds
        <5>2. ASSUME NEW v \in Workers, Lifts(v, q)' PROVE FALSE
          <6>1. v # w
            BY <1>6, <1>8, <1>11, <3>1, <4>3, <5>2 DEF Lifts
          <6>2. Works(v, q)
            BY <1>11, <5>2, <6>1 DEF Lifts, Works, RecordKinds, CardKinds
          <6> QED BY <2>1, <5>1, <6>1, <6>2 DEF SureInv
        <5> QED BY <1>2, <5>1, <5>2
      <4> QED BY <4>1, <4>2, <4>3
    <3>2. CASE ~(ok /\ c = "mute")
      <4>1. muted /\ ~(ok /\ c = "unmute")
        BY <1>2, <2>5, <3>2
      <4>2. ASSUME NEW q \in Puns, \A v \in Workers : ~Lifts(v, q)
            PROVE  \A v \in Workers : ~Lifts(v, q)'
        <5>1. ASSUME Lifts(w, q)' PROVE FALSE
          <6>1. ~gone
            BY <1>7, <1>11, <5>1 DEF Lifts, Idle
          <6>2. op.kind \in {"release", "setMute"} /\ op.pun = q /\ (op.kind = "setMute" => op.extra = 0)
                /\ ~Has(Tail(op.todo), "unmute")
            BY <1>5, <1>6, <1>11, <5>1, <6>1 DEF Lifts, RecordKinds, CardKinds
          <6>3. Has(op.todo, "unmute")
            BY <4>2, <6>2 DEF Lifts
          <6>4. c = "unmute" /\ ~ok
            BY <1>3, <4>1, <6>2, <6>3
          <6> QED BY <1>9, <2>1, <6>1, <6>2, <6>4
        <5>2. ASSUME NEW v \in Workers, v # w PROVE ~Lifts(v, q)'
          BY <1>11, <4>2, <5>2 DEF Lifts
        <5> QED BY <5>1, <5>2
      <4>3. ASSUME NEW v \in Workers, Muting(v) PROVE Muting(v)'
        BY <1>1, <1>11, <4>3 DEF Muting
      <4> QED BY <2>1, <4>1, <4>2, <4>3 DEF SureInv
    <3> QED BY <3>1, <3>2
  <2>6. (muted => \/ \E q \in Puns : recs[q].muted /\ \A v \in Workers : ~Lifts(v, q)
                  \/ \E v \in Workers : Muting(v))'
    BY <1>2, <2>5
  <2> QED BY <2>2, <2>3, <2>4, <2>6 DEF SureInv
<1> QED BY <1>13, <1>14 DEF MuteInv

\* What is written back keeps a mute that is still in force: only a release and
\* a lifted mute write FALSE, and they have made their unmute.
LEMMA WrittenRecord ==
    ASSUME NEW op, op.kind \in CardKinds, op.rec \in Rec, op.rec.status # "none",
           op.kind = "blacklist" => op.extra \in {"group", "global"}
    PROVE  /\ Written(op) \in Rec /\ Written(op).status # "none"
           /\ op.kind \in {"kick", "blacklist"} => Written(op).muted = op.rec.muted
           /\ op.kind = "setMute" => (Written(op).muted <=> op.extra > 0)
<1>1. CASE op.kind = "release"
  <2>1. Written(op) = [op.rec EXCEPT !.muted = FALSE, !.black = "", !.status = "released"]
    BY <1>1 DEF Written
  <2> QED BY <1>1, <2>1 DEF Rec
<1>2. CASE op.kind = "setMute"
  <2> DEFINE b == op.extra > 0
  <2>1. Written(op) = [op.rec EXCEPT !.muted = b]
    BY <1>2 DEF Written
  <2>2. b \in BOOLEAN
    OBVIOUS
  <2> HIDE DEF b
  <2>3. Written(op) \in Rec /\ Written(op).status # "none" /\ Written(op).muted = b
    BY <2>1, <2>2 DEF Rec
  <2> QED BY <1>2, <2>3 DEF b
<1>3. CASE op.kind = "kick"
  BY <1>3 DEF Written
<1>4. CASE op.kind = "blacklist"
  <2>1. Written(op) = [op.rec EXCEPT !.black = op.extra]
    BY <1>4 DEF Written
  <2> QED BY <1>4, <2>1 DEF Rec
<1> QED BY <1>1, <1>2, <1>3, <1>4 DEF CardKinds

LEMMA WriteKeeps ==
    ASSUME MuteInv, NEW w \in Workers, NEW op, op = run[w], op.kind \in CardKinds, op.todo = <<>>,
           recs' = [recs EXCEPT ![op.pun] = Written(op)],
           NEW r, Shaped(r), r.kind \notin RecordKinds, run' = [run EXCEPT ![w] = r],
           UNCHANGED <<muted, unsure, old>>
    PROVE  MuteInv'
<1> DEFINE p == op.pun
           x == Written(op)
<1>1. /\ op.rec \in Rec /\ op.rec.status # "none" /\ p \in Puns
      /\ op.kind = "blacklist" => op.extra \in {"group", "global"}
      /\ op.kind = "setMute" => op.extra \in {0, 1}
  BY DEF MuteInv, HandlersInv, Shaped, RecordKinds
<1>2. /\ x \in Rec /\ x.status # "none"
      /\ op.kind \in {"kick", "blacklist"} => x.muted = op.rec.muted
      /\ op.kind = "setMute" => (x.muted <=> op.extra > 0)
  BY <1>1, WrittenRecord
<1> HIDE DEF p, x
<1>3. /\ \A v \in Workers : run'[v] = IF v = w THEN r ELSE run[v]
      /\ \A q \in Puns : recs'[q] = IF q = p THEN x ELSE recs[q]
      /\ run' = [v \in Workers |-> run'[v]] /\ recs' \in [Puns -> Rec]
  BY <1>1, <1>2 DEF MuteInv, HandlersInv, p, x
<1>4. \A v \in Workers : \A q : Works(v, q)' => v # w /\ Works(v, q)
  BY <1>3 DEF Works
<1>5. \A v \in Workers : \A q : Lifts(v, q)' => v # w /\ Lifts(v, q) /\ Works(v, q)
  BY <1>3 DEF Lifts, Works, RecordKinds, CardKinds
<1>6. Works(w, p)
  BY DEF Works, RecordKinds, p
<1>7. HandlersInv'
  <2>1. \A v \in Workers, q \in Puns : Works(v, q)' => (Exists(q) \/ q \in old)'
    BY <1>2, <1>3, <1>4 DEF MuteInv, HandlersInv, Exists
  <2>2. \A q \in Puns : (~Exists(q) => ~recs[q].muted)'
    BY <1>2, <1>3 DEF MuteInv, HandlersInv, Exists
  <2>3. \A v \in Workers : Shaped(run[v])'
    <3>1. \A v \in Workers : Shaped(run'[v])
      BY <1>3 DEF MuteInv, HandlersInv
    <3> QED BY <3>1 DEF Shaped
  <2> QED BY <1>3, <2>1, <2>2, <2>3 DEF HandlersInv
<1>8. ASSUME ~unsure' PROVE SureInv'
  <2>1. SureInv
    BY <1>8 DEF MuteInv
  <2>2. \A v \in Workers \ {w} : ~Works(v, p)
    BY <1>1, <1>6, <2>1 DEF SureInv
  <2>3. \A u, v \in Workers, q \in Puns : Works(u, q)' /\ Works(v, q)' => u = v
    BY <1>4, <2>1 DEF SureInv
  <2>4. \A v \in Workers : v # w /\ run[v].kind \in RecordKinds => run[v].pun # p /\ run[v].pun \in Puns
    BY <2>2 DEF Works, MuteInv, HandlersInv, Shaped
  <2>5. \A v \in Workers : (run[v].kind \in CardKinds /\ recs[run[v].pun].muted => run[v].rec.muted)'
    BY <1>3, <2>1, <2>4 DEF SureInv, RecordKinds
  <2>6. \A v \in Workers : (run[v].kind = "guard" /\ Has(run[v].todo, "mute") => recs[run[v].pun].muted)'
    BY <1>3, <2>1, <2>4 DEF SureInv, RecordKinds
  <2>7. \A v \in Workers : ~Lifts(v, p)'
    BY <1>1, <1>4, <1>5, <1>6, <2>1 DEF SureInv
  <2>8. ASSUME muted
        PROVE  \/ \E q \in Puns : recs'[q].muted /\ \A v \in Workers : ~Lifts(v, q)'
               \/ \E v \in Workers : Muting(v)'
    <3>1. ASSUME NEW q \in Puns, recs[q].muted, \A v \in Workers : ~Lifts(v, q)
          PROVE  recs'[q].muted /\ \A v \in Workers : ~Lifts(v, q)'
      <4>1. CASE q = p
        <5>1. ~Lifts(w, p) /\ op.rec.muted
          BY <1>1, <2>1, <3>1, <4>1 DEF SureInv, p
        <5>2. ~Has(op.todo, "unmute")
          BY DEF Has
        <5>3. op.kind \in {"kick", "blacklist"} \/ (op.kind = "setMute" /\ op.extra = 1)
          BY <1>1, <5>1, <5>2 DEF Lifts, CardKinds, p
        <5>4. CASE op.kind \in {"kick", "blacklist"}
          BY <1>2, <1>3, <2>7, <4>1, <5>1, <5>4
        <5>5. CASE op.kind = "setMute" /\ op.extra = 1
          <6>1. op.extra > 0
            BY <5>5
          <6> QED BY <1>2, <1>3, <2>7, <4>1, <5>5, <6>1
        <5> QED BY <5>3, <5>4, <5>5
      <4>2. CASE q # p
        BY <1>3, <1>5, <3>1, <4>2
      <4> QED BY <4>1, <4>2
    <3>2. ASSUME NEW v \in Workers, Muting(v), v # w
          PROVE  Muting(v)'
      BY <1>3, <3>2 DEF Muting
    <3>3. CASE Muting(w)
      <4>1. x.muted
        BY <1>2, <3>3 DEF Muting
      <4> QED BY <1>1, <1>3, <2>7, <4>1
    <3> QED BY <2>1, <2>8, <3>1, <3>2, <3>3 DEF SureInv
  <2>9. (muted => \/ \E q \in Puns : recs[q].muted /\ \A v \in Workers : ~Lifts(v, q)
                  \/ \E v \in Workers : Muting(v))'
    BY <2>8
  <2> QED BY <2>3, <2>5, <2>6, <2>9 DEF SureInv
<1> QED BY <1>7, <1>8 DEF MuteInv

LEMMA FinishKeeps ==
    ASSUME MuteInv, NEW w \in Workers, Finish(w)
    PROVE  MuteInv'
<1>1. UNCHANGED <<muted, unsure, old>>
  BY DEF Finish
<1>2. run[w].todo = <<>>
  BY DEF Finish, Todo
<1>3. CASE run[w].kind \in {"guard", "ban"} /\ run' = [run EXCEPT ![w] = Idle] /\ UNCHANGED recs
  BY <1>1, <1>3, QuietStep, QuietShapes DEF Muting
<1>4. CASE /\ run[w].kind \in CardKinds
           /\ recs' = [recs EXCEPT ![run[w].pun] = Written(run[w])]
           /\ \/ run' = [run EXCEPT ![w] = Idle]
              \/ \E a : run' = [run EXCEPT ![w] = [kind |-> "outcome", app |-> a, todo |-> <<"tell">>]]
  BY <1>1, <1>2, <1>4, WriteKeeps, QuietShapes
<1> QED BY <1>3, <1>4 DEF Finish, CardKinds

LEMMA RetentionKeeps ==
    ASSUME MuteInv, RetentionRuns
    PROVE  MuteInv'
<1>1. /\ \A q \in Puns : recs'[q] = IF q \in old THEN NoRec ELSE recs[q]
      /\ recs' = [q \in Puns |-> IF q \in old THEN NoRec ELSE recs[q]]
      /\ UNCHANGED <<muted, run, old>>
      /\ unsure' = (unsure \/ \E p \in Puns : recs[p] # recs'[p] /\ recs[p].muted)
  BY DEF RetentionRuns, PrunePunishments
<1>2. NoRec \in Rec /\ NoRec.status = "none" /\ NoRec.muted = FALSE
  BY DEF NoRec, Rec
<1>3. \A v \in Workers : \A q : (Works(v, q)' <=> Works(v, q)) /\ (Lifts(v, q)' <=> Lifts(v, q))
  BY <1>1 DEF Works, Lifts
<1>4. \A v \in Workers : Muting(v)' <=> Muting(v)
  BY <1>1 DEF Muting
<1>5. HandlersInv'
  <2>1. recs' \in [Puns -> Rec]
    BY <1>1, <1>2 DEF MuteInv, HandlersInv
  <2>2. \A v \in Workers, q \in Puns : Works(v, q)' => (Exists(q) \/ q \in old)'
    BY <1>1, <1>3 DEF MuteInv, HandlersInv, Exists
  <2>3. \A q \in Puns : (~Exists(q) => ~recs[q].muted)'
    BY <1>1, <1>2 DEF MuteInv, HandlersInv, Exists
  <2>4. (run = [w \in Workers |-> run[w]] /\ \A w \in Workers : Shaped(run[w]))'
    BY <1>1 DEF MuteInv, HandlersInv
  <2> QED BY <2>1, <2>2, <2>3, <2>4 DEF HandlersInv
<1>6. ASSUME ~unsure' PROVE SureInv'
  <2>1. SureInv
    BY <1>1, <1>6 DEF MuteInv
  <2>2. \A q \in Puns : recs[q].muted => recs'[q] = recs[q]
    BY <1>1, <1>6
  <2>3. \A q \in Puns : recs'[q].muted <=> recs[q].muted
    <3>1. ASSUME NEW q \in Puns, recs'[q].muted PROVE recs[q].muted
      BY <1>1, <1>2, <3>1
    <3> QED BY <2>2, <3>1
  <2>4. \A v \in Workers : run[v].kind \in RecordKinds => run[v].pun \in Puns
    BY DEF MuteInv, HandlersInv, Shaped
  <2>5. \A v \in Workers : (run[v].kind \in CardKinds /\ recs[run[v].pun].muted => run[v].rec.muted)'
    BY <1>1, <2>1, <2>3, <2>4 DEF SureInv, RecordKinds
  <2>6. \A v \in Workers : (run[v].kind = "guard" /\ Has(run[v].todo, "mute") => recs[run[v].pun].muted)'
    BY <1>1, <2>1, <2>3, <2>4 DEF SureInv, RecordKinds
  <2>7. (muted => \/ \E q \in Puns : recs[q].muted /\ \A v \in Workers : ~Lifts(v, q)
                  \/ \E v \in Workers : Muting(v))'
    BY <1>1, <1>3, <1>4, <2>1, <2>3 DEF SureInv
  <2>8. \A u, v \in Workers, q \in Puns : Works(u, q)' /\ Works(v, q)' => u = v
    BY <1>3, <2>1 DEF SureInv
  <2> QED BY <2>5, <2>6, <2>7, <2>8 DEF SureInv
<1> QED BY <1>5, <1>6 DEF MuteInv

LEMMA RestartKeeps ==
    ASSUME MuteInv, Restart
    PROVE  MuteInv'
<1>1. /\ run' = [w \in Workers |-> Idle]
      /\ \A w \in Workers : run'[w] = Idle
      /\ UNCHANGED <<recs, muted, old>>
      /\ unsure' = (unsure \/ \E w \in Workers : run[w].kind \in {"setMute", "release"} /\ Todo(w) = <<>>)
  BY DEF Restart
<1>2. \A w \in Workers : \A q : ~Works(w, q)' /\ ~Lifts(w, q)'
  BY <1>1 DEF Works, Lifts, Idle, RecordKinds, CardKinds
<1>3. HandlersInv'
  <2>1. \A v \in Workers : Shaped(run[v])'
    <3>1. \A v \in Workers : Shaped(run'[v])
      BY <1>1, QuietShapes
    <3> QED BY <3>1 DEF Shaped
  <2> QED BY <1>1, <1>2, <2>1 DEF MuteInv, HandlersInv, Exists
<1>4. ASSUME ~unsure' PROVE SureInv'
  <2>1. SureInv
    BY <1>1, <1>4 DEF MuteInv
  <2>2. \A w \in Workers : ~Muting(w)
    BY <1>1, <1>4 DEF Muting, Todo
  <2>3. muted => \E q \in Puns : recs[q].muted
    BY <2>1, <2>2 DEF SureInv
  <2>4. \A w \in Workers : run'[w].kind \notin CardKinds /\ run'[w].kind # "guard"
    BY <1>1 DEF Idle, CardKinds
  <2> QED BY <1>1, <1>2, <2>3, <2>4 DEF SureInv
<1> QED BY <1>3, <1>4 DEF MuteInv

-----------------------------------------------------------------------------
\* The rest of the state has its types.
RestOK ==
    /\ bans \subseteq {"group", "global"}
    /\ rows \subseteq Apps /\ scan \subseteq Apps /\ old \subseteq Puns \union Apps
    /\ duty \in [Apps -> [holder : 0..Len(Mods), stale : BOOLEAN]]
    /\ cursor \in 0..Len(Mods)

ModerationInv == AppealInv /\ MuteInv /\ RestOK

LEMMA ModerationInit == Init => ModerationInv
<1> SUFFICES ASSUME Init PROVE ModerationInv
  OBVIOUS
<1>1. NoRec \in Rec /\ NoRec.status = "none" /\ NoRec.muted = FALSE
  BY DEF NoRec, Rec
<1>2. HandlersInv
  <2>1. \A w \in Workers : run[w] = Idle
    BY DEF Init
  <2>2. \A w \in Workers : \A p : ~Works(w, p)
    BY <2>1 DEF Works, Idle, RecordKinds, CardKinds
  <2>3. recs \in [Puns -> Rec] /\ \A p \in Puns : ~recs[p].muted
    BY <1>1 DEF Init
  <2>4. run = [w \in Workers |-> run[w]]
    BY DEF Init
  <2> QED BY <2>1, <2>2, <2>3, <2>4, QuietShapes DEF HandlersInv
<1>3. SureInv
  <2>1. muted = FALSE /\ \A w \in Workers : run[w].kind = "idle"
    BY DEF Init, Idle
  <2> QED BY <2>1 DEF SureInv, Works, RecordKinds, CardKinds
<1>4. RestOK
  <2>1. Len(Mods) \in Nat
    BY ModerationConstants
  <2> QED BY <2>1 DEF Init, RestOK, NoDuty
<1> QED BY <1>2, <1>3, <1>4, AppealInvInit DEF ModerationInv, MuteInv

LEMMA MuteInvNext ==
    ASSUME MuteInv, AppealsShape, [Next]_vars
    PROVE  MuteInv'
<1>1. ASSUME NEW w \in Workers, NEW p \in Puns, NEW m \in Matches, NEW c \in Configs,
             HandleMessage(w, p, m, c)
      PROVE  MuteInv'
  BY <1>1, MessageKeeps
<1>2. ASSUME NEW w \in Workers, NEW x \in Actors, NEW p \in Puns,
             HandlePunish(w, x, p) \/ PunishCallback(w, x, p) \/ PunishmentRequest(w, x, p)
      PROVE  MuteInv'
  BY <1>2, DisposeKeeps DEF HandlePunish, PunishCallback, PunishmentRequest, Punish
<1>3. ASSUME NEW w \in Workers, NEW s, BlacklistAdd(w, s)
      PROVE  MuteInv'
  BY <1>3, QuietBegin, QuietShapes DEF BlacklistAdd, Begin
<1>4. ASSUME NEW s, BlacklistRemove(s)
      PROVE  MuteInv'
  BY <1>4, StillStep DEF BlacklistRemove
<1>5. ASSUME NEW w \in Workers, NEW x \in Actors, NEW s \in {"group", "global"},
             HandleBlacklist(w, x, s) \/ BlacklistDeleteCard(x, s) \/ BlacklistRequest(w, x, s)
      PROVE  MuteInv'
  BY <1>3, <1>4, <1>5 DEF HandleBlacklist, BlacklistDeleteCard, BlacklistRequest, AddBlacklist,
                          RemoveBlacklist
<1>6. ASSUME NEW w \in Workers, NEW p \in Puns, NEW a \in Apps, HandleAppeal(w, p, a)
      PROVE  MuteInv'
  BY <1>6, SubmitKeeps, IdleSlot DEF HandleAppeal
<1>7. ASSUME NEW w \in Workers, NEW p \in Puns, AppealNew(w, p)
      PROVE  MuteInv'
  BY <1>7, QuietBegin, QuietShapes DEF AppealNew, Begin, service
<1>8. ASSUME NEW w \in Workers, NEW x \in Actors, NEW a \in Apps,
             AppealReject(w, x, a) \/ AppealAccept(w, x, a) \/ AppealRequest(w, x, a)
      PROVE  MuteInv'
  BY <1>8, RejectKeeps, AcceptKeeps DEF AppealRequest, DecideAppeal
<1>9. ASSUME NEW w \in Workers, NEW a \in Apps, GuideFails(w, a)
      PROVE  MuteInv'
  BY <1>9, SubmitKeeps DEF GuideFails, Muting
<1>10. ASSUME NEW w \in Workers, GuideSent(w) \/ NotifyAppeal(w) \/ NotifyAppealHandled(w)
       PROVE  MuteInv'
  BY <1>10, QuietStep, QuietShapes DEF GuideSent, NotifyAppeal, NotifyAppealHandled, service, Muting
<1>11. ASSUME NEW w \in Workers, Finish(w)
       PROVE  MuteInv'
  BY <1>11, FinishKeeps
<1>12. ASSUME NEW w \in Workers, NEW ok \in BOOLEAN, Call(w, ok)
       PROVE  MuteInv'
  BY <1>12, CallKeeps
<1>13. ASSUME NEW a \in Apps, HoldExpires(a) \/ ForwardIfStale(a)
       PROVE  MuteInv'
  BY <1>13, StillStep DEF HoldExpires, ForwardIfStale, service
<1>14. CASE WatcherRuns
  BY <1>14, StillStep DEF WatcherRuns, service
<1>15. CASE TimePasses
  <2>1. old \subseteq old'
    BY <1>15 DEF TimePasses
  <2> QED BY <1>15, <2>1, StillStep DEF TimePasses, service
<1>16. CASE RetentionRuns
  BY <1>16, RetentionKeeps
<1>17. CASE Restart
  BY <1>17, RestartKeeps
<1>18. CASE UNCHANGED vars
  BY <1>18, StillStep DEF vars
<1> QED
  BY <1>1, <1>2, <1>5, <1>6, <1>7, <1>8, <1>9, <1>10, <1>11, <1>12, <1>13, <1>14, <1>15,
     <1>16, <1>17, <1>18 DEF Next

\* A turn of the rota is a moderator's place on the list.
LEMMA TurnsAreOnTheList ==
    ASSUME RestOK
    PROVE  /\ Len(Mods) \in Nat \ {0}
           /\ FirstTurn \in 0..Len(Mods)
           /\ \A h \in 0..Len(Mods) : NextTurn(h) <= Len(Mods) => NextTurn(h) \in 0..Len(Mods)
BY ModerationConstants DEF RestOK, FirstTurn, NextTurn

LEMMA AssignKeeps ==
    ASSUME RestOK, NEW a, NEW i \in 0..Len(Mods), Assign(a, i)
    PROVE  duty' \in [Apps -> [holder : 0..Len(Mods), stale : BOOLEAN]]
<1>1. [holder |-> i, stale |-> FALSE] \in [holder : 0..Len(Mods), stale : BOOLEAN]
  OBVIOUS
<1> QED BY <1>1 DEF Assign, RestOK

LEMMA SubmitRows ==
    ASSUME NEW w, NEW p, NEW a \in Apps, Submit(w, p, a), rows \subseteq Apps
    PROVE  rows' \subseteq Apps
BY DEF Submit

LEMMA RestKept ==
    ASSUME RestOK, MuteInv, [Next]_vars
    PROVE  RestOK'
<1> USE DEF RestOK
<1>1. ASSUME NEW w \in Workers, NEW p \in Puns, NEW m \in Matches, NEW c \in Configs,
             HandleMessage(w, p, m, c)
      PROVE  RestOK'
  BY <1>1 DEF HandleMessage, rota
<1>2. ASSUME NEW w, NEW x, NEW p, NEW act, Dispose(w, x, p, act)
      PROVE  RestOK'
  <2>1. UNCHANGED <<appeals, rows, old, rota>>
    BY <1>2 DEF Dispose, Release, SetMute, Kick, BlacklistUser, CardOp
  <2>2. UNCHANGED bans \/ (act \in {"group", "global"} /\ bans' = bans \union {act})
    BY <1>2 DEF Dispose, Release, SetMute, Kick, BlacklistUser, CardOp
  <2> QED BY <2>1, <2>2 DEF rota
<1>3. ASSUME NEW w \in Workers, NEW x \in Actors, NEW p \in Puns,
             HandlePunish(w, x, p) \/ PunishCallback(w, x, p) \/ PunishmentRequest(w, x, p)
      PROVE  RestOK'
  BY <1>2, <1>3 DEF HandlePunish, PunishCallback, PunishmentRequest, Punish
<1>4. ASSUME NEW w \in Workers, NEW x \in Actors, NEW s \in {"group", "global"},
             HandleBlacklist(w, x, s) \/ BlacklistDeleteCard(x, s) \/ BlacklistRequest(w, x, s)
      PROVE  RestOK'
  <2>1. BlacklistAdd(w, s) \/ BlacklistRemove(s)
    BY <1>4 DEF HandleBlacklist, BlacklistDeleteCard, BlacklistRequest, AddBlacklist, RemoveBlacklist
  <2> QED BY <1>4, <2>1 DEF BlacklistAdd, BlacklistRemove, rota
<1>5. ASSUME NEW w \in Workers, NEW p \in Puns, NEW a \in Apps, HandleAppeal(w, p, a)
      PROVE  RestOK'
  BY <1>5, SubmitRows DEF HandleAppeal, rota
<1>6. ASSUME NEW w \in Workers, NEW p \in Puns, AppealNew(w, p)
      PROVE  RestOK'
  BY <1>6 DEF AppealNew, service, rota
<1>7. ASSUME NEW w \in Workers, NEW x \in Actors, NEW a \in Apps,
             AppealReject(w, x, a) \/ AppealAccept(w, x, a) \/ AppealRequest(w, x, a)
      PROVE  RestOK'
  <2>1. \/ rows' = rows \union {a} /\ UNCHANGED <<bans, old, rota>>
        \/ UNCHANGED <<bans, rows, old, rota>>
    BY <1>7 DEF AppealRequest, DecideAppeal, AppealReject, AppealAccept, Release, CardOp
  <2> QED BY <2>1 DEF rota
<1>8. ASSUME NEW w \in Workers, NEW a \in Apps, GuideFails(w, a)
      PROVE  RestOK'
  BY <1>8, SubmitRows DEF GuideFails, rota
<1>9. ASSUME NEW w \in Workers, GuideSent(w)
      PROVE  RestOK'
  BY <1>9 DEF GuideSent, service, rota
<1>10. ASSUME NEW w \in Workers, NotifyAppeal(w)
       PROVE  RestOK'
  BY <1>10, TurnsAreOnTheList, AssignKeeps DEF NotifyAppeal, service
<1>11. ASSUME NEW w \in Workers, NotifyAppealHandled(w)
       PROVE  RestOK'
  <2>1. NoDuty \in [holder : 0..Len(Mods), stale : BOOLEAN]
    BY TurnsAreOnTheList DEF NoDuty
  <2> QED BY <1>11, <2>1 DEF NotifyAppealHandled, service
<1>12. ASSUME NEW w \in Workers, Finish(w)
       PROVE  RestOK'
  <2>1. UNCHANGED <<bans, old, rota>>
    BY <1>12 DEF Finish
  <2>2. rows' \subseteq Apps
    <3>1. CASE UNCHANGED rows
      BY <3>1
    <3>2. CASE AcceptAppeals(run[w].pun)
      BY <3>2 DEF AcceptAppeals, PendingByPunishment
    <3>3. CASE run[w].kind = "release" /\ run[w].extra # 0 /\ rows' = rows \union {run[w].extra}
      <4>1. run[w].extra \in Apps
        BY <3>3 DEF MuteInv, HandlersInv, Shaped
      <4> QED BY <3>3, <4>1
    <3> QED BY <1>12, <3>1, <3>2, <3>3 DEF Finish
  <2> QED BY <2>1, <2>2 DEF rota
<1>13. ASSUME NEW w \in Workers, NEW ok \in BOOLEAN, Call(w, ok)
       PROVE  RestOK'
  <2>1. bans' \subseteq bans \union {"group"} /\ UNCHANGED <<rows, old, rota>>
    BY <1>13 DEF Call
  <2> QED BY <2>1 DEF rota
<1>14. ASSUME NEW a \in Apps, HoldExpires(a)
       PROVE  RestOK'
  BY <1>14 DEF HoldExpires, service
<1>15. ASSUME NEW a \in Apps, ForwardIfStale(a)
       PROVE  RestOK'
  <2>1. UNCHANGED <<bans, rows, old>> /\ scan' \subseteq scan
    BY <1>15 DEF ForwardIfStale, service
  <2>2. duty[a].holder \in 0..Len(Mods)
    OBVIOUS
  <2>3. \/ UNCHANGED <<duty, cursor>>
        \/ Assign(a, FirstTurn) /\ cursor' = FirstTurn
        \/ /\ NextTurn(duty[a].holder) <= Len(Mods)
           /\ Assign(a, NextTurn(duty[a].holder)) /\ UNCHANGED cursor
        \/ Assign(a, duty[a].holder) /\ UNCHANGED cursor
    BY <1>15 DEF ForwardIfStale
  <2> QED BY <2>1, <2>2, <2>3, TurnsAreOnTheList, AssignKeeps
<1>16. CASE WatcherRuns
  BY <1>16 DEF WatcherRuns, service
<1>17. CASE TimePasses
  BY <1>17 DEF TimePasses, service, rota
<1>18. CASE RetentionRuns
  BY <1>18 DEF RetentionRuns, PruneRows, rota
<1>19. CASE Restart
  BY <1>19, TurnsAreOnTheList DEF Restart, NoDuty
<1>20. CASE UNCHANGED vars
  BY <1>20 DEF vars
<1> QED
  BY <1>1, <1>3, <1>4, <1>5, <1>6, <1>7, <1>8, <1>9, <1>10, <1>11, <1>12, <1>13, <1>14,
     <1>15, <1>16, <1>17, <1>18, <1>19, <1>20 DEF Next

LEMMA ModerationInvariant == Spec => []ModerationInv
<1>1. ModerationInv /\ [Next]_vars => ModerationInv'
  <2> SUFFICES ASSUME ModerationInv, [Next]_vars PROVE ModerationInv'
    OBVIOUS
  <2>1. Guided
    BY DEF ModerationInv, MuteInv, HandlersInv, Shaped, Guided
  <2>2. AppealInv'
    BY <2>1, AppealSteps, AppealInvNext DEF ModerationInv
  <2>3. MuteInv' /\ RestOK'
    BY MuteInvNext, RestKept DEF ModerationInv, AppealInv
  <2> QED BY <2>2, <2>3 DEF ModerationInv
<1> QED BY ModerationInit, <1>1, PTL DEF Spec

\* Every variable has its type: records and appeals of known codes, scopes of
\* the blacklist, a moderator's place on the list for whoever holds an appeal.
THEOREM TypeCorrect == Spec => []TypeOK
<1>1. ModerationInv => TypeOK
  BY DEF ModerationInv, MuteInv, HandlersInv, RestOK, TypeOK, Rec
<1> QED BY ModerationInvariant, <1>1, PTL

\* A member has one pending appeal per punishment at most, however many
\* handlers are under way: the check before the private guide is repeated in
\* submit (appeals.ts, appealCommands.ts:260).
THEOREM OneAppealPends == Spec => []OnePending
BY ModerationInvariant, PTL DEF ModerationInv, AppealInv

\* No appeal is reopened and no acceptance taken back, whatever cards the
\* reviewers still have before them (appealCommands.ts:336).
THEOREM OutcomesHold == Spec => OutcomeStands
<1>1. ModerationInv /\ [Next]_vars =>
        [\A a \in Apps : (appeals[a] # NoAppeal /\ appeals'[a] # NoAppeal)
            => Rank(appeals'[a].status) >= Rank(appeals[a].status)]_vars
  <2>1. ModerationInv => Guided /\ AppealsShape
    BY DEF ModerationInv, AppealInv, MuteInv, HandlersInv, Shaped, Guided
  <2> QED BY <2>1, AppealSteps, RanksRise
<1> QED BY ModerationInvariant, <1>1, PTL DEF Spec, OutcomeStands

\* A mute the bot has made stays on a record a reviewer can lift it from, for
\* any number of handlers, records, cards and restarts, unless one of the four
\* known ways out was taken (messageGuard.ts writes the record first;
\* punishments.ts writes the copy it read before its first await).
THEOREM MutesStayOnRecord == Spec => []MutesAreOnRecord
<1>1. ModerationInv => MutesAreOnRecord
  <2> SUFFICES ASSUME ModerationInv, muted, ~unsure PROVE MutesAreOnRecord
    BY DEF MutesAreOnRecord
  <2>1. SureInv
    BY DEF ModerationInv, MuteInv
  <2>2. ASSUME NEW w \in Workers, Muting(w)
        PROVE  run[w].kind = "setMute" /\ Todo(w) = <<>>
    BY <2>2 DEF Muting, Todo
  <2> QED BY <2>1, <2>2 DEF SureInv, MutesAreOnRecord
<1> QED BY ModerationInvariant, <1>1, PTL

-----------------------------------------------------------------------------
(* Users: types. *)

Optional(S) == S \cup {None}
Numbering == {f \in [Officials -> Optional(Externals)] :
                 \A o \in Officials : f[o] # None => SameKind(o, f[o])}
Owners    == [Externals -> Optional(Officials)]
Binding   == {b \in [id : Nat, official : Officials, external : Externals,
                     step : {"delete", "insert"}, numberOf : Numbering,
                     ownerOf : Owners, alone : BOOLEAN] : SameKind(b.official, b.external)}
ProfileMap == [Users -> Optional(Profiles)]
CodeMap    == [Codes -> Optional(Users \cup {Anon})]
AliasMap   == [Words -> Optional(Classes)]
Item == Saves \cup [table : {"codes"}, key : Codes, value : Users]
              \cup [table : {"aliases"}, key : Words, value : Optional(Classes)]

TypedNumbers == numberOf \in Numbering /\ bindRows \in Numbering /\ ownerOf \in Owners
TypedBinds   == \A b \in binds : b \in Binding
TypedMaps    == /\ profiles \in ProfileMap /\ profileRows \in ProfileMap
                /\ codes \in CodeMap /\ codeRows \in CodeMap /\ pool \subseteq Codes
                /\ aliases \in AliasMap /\ aliasRows \in AliasMap
TypedQueue   == queue \in Seq(Item)
TypedJobs    == privacy \in Optional(Anonymizing) /\ migration \in Optional(Migrating)
TypedHistory == /\ pooled \in BOOLEAN /\ lossless \in BOOLEAN
                /\ shown \subseteq Codes \X Users /\ bound \subseteq Officials \X Externals
                /\ forgotten \subseteq Users /\ revived \subseteq Users \X {"numbers", "profiles"}
                /\ edits \in 0 .. MaxEdits /\ troubles \in 0 .. MaxTroubles

UsersTyped == TypedNumbers /\ TypedBinds /\ TypedMaps /\ TypedQueue /\ TypedJobs /\ TypedHistory

LEMMA UsersTypedIsTypeOK == UsersTyped <=> UsersTypeOK
<1>1. (\A b \in binds : b \in Binding) <=>
      \A b \in binds : /\ b \in [id : Nat, official : Officials, external : Externals,
                                 step : {"delete", "insert"},
                                 numberOf : [Officials -> Optional(Externals)],
                                 ownerOf : Owners, alone : BOOLEAN]
                       /\ SameKind(b.official, b.external) 
                       /\ b.numberOf \in Numbering
  BY DEF Binding, Numbering
<1>2. ASSUME NEW f, f \in Numbering
      PROVE  f \in [Officials -> Optional(Externals)]
  BY <1>2 DEF Numbering
<1> QED
  BY <1>1, <1>2 DEF UsersTyped, TypedNumbers, TypedBinds, TypedMaps, TypedQueue, TypedJobs, TypedHistory,
     UsersTypeOK, Numbering, Owners, ProfileMap, CodeMap, AliasMap, Item, Optional, Targets

(* What a profile operation does, whichever it is: the profile is replaced, *)
(* and saves of this user are queued, the last with what memory has now.   *)
ProfileWrite(u) ==
    \E p \in Optional(Profiles), ws \in Seq(Saves) :
        /\ Len(ws) > 0
        /\ \A i \in 1 .. Len(ws) : ws[i].key = u
        /\ ws[Len(ws)].value = p
        /\ Edit
        /\ profiles' = [profiles EXCEPT ![u] = p]
        /\ queue' = queue \o ws
        /\ ProfileFrame(u)

LEMMA OneSave ==
    ASSUME NEW u \in Users, NEW p \in Optional(Profiles)
    PROVE  /\ <<save(u, p)>> \in Seq(Saves)
           /\ Len(<<save(u, p)>>) = 1
           /\ \A i \in 1 .. 1 : <<save(u, p)>>[i].key = u
           /\ <<save(u, p)>>[1].value = p
BY DEF save, Saves, Optional

LEMMA CurrentTyped ==
    ASSUME UsersTyped, NEW u \in Users
    PROVE  current(u) \in Profiles
BY DEF UsersTyped, TypedMaps, ProfileMap, Optional, current, Blank, Profiles

LEMMA SetFieldTyped ==
    ASSUME NEW p \in Profiles, NEW f \in {"studentId", "className", "college", "year", "name"},
           NEW v, Accepts(f, v)
    PROVE  SetField(p, f, v) \in Profiles
<1>0. YearOf \in [Classes -> Years]
  BY UsersConstants
<1>1. CASE f = "studentId"
  BY <1>1 DEF SetField, Accepts, Profiles
<1>2. CASE f = "className"
  BY <1>0, <1>2 DEF SetField, Accepts, Profiles
<1>3. CASE f = "college"
  BY <1>3 DEF SetField, Accepts, Profiles
<1>4. CASE f = "year"
  BY <1>4 DEF SetField, Accepts, Profiles
<1>5. CASE f = "name"
  BY <1>5 DEF SetField, Accepts, Profiles
<1> QED BY <1>1, <1>2, <1>3, <1>4, <1>5

(* Half-way through a message: either nothing has been set yet, or the last *)
(* save queued has what was set last.                                      *)
Taking(at, u) ==
    /\ at.profile \in Profiles
    /\ at.writes \in Seq(Saves)
    /\ \A i \in 1 .. Len(at.writes) : at.writes[i].key = u
    /\ at.writes = <<>> \/ at.writes[Len(at.writes)].value = at.profile

LEMMA TakeKeeps ==
    ASSUME NEW u \in Users, NEW at, Taking(at, u), NEW i \in 1 .. 5, NEW fields, NEW done,
           i \in done => Accepts(order[i], fields[order[i]])
    PROVE  /\ Taking(Take(at, u, i, fields, done), u)
           /\ i \in done \/ at.writes # <<>> => Take(at, u, i, fields, done).writes # <<>>
<1> DEFINE p == SetField(at.profile, order[i], fields[order[i]])
           ws == Append(at.writes, save(u, p))
<1>1. CASE i \notin done
  BY <1>1 DEF Take
<1>2. CASE i \in done
  <2>1. order[i] \in {"studentId", "className", "college", "year", "name"}
    BY DEF order
  <2>2. p \in Profiles
    BY <1>2, <2>1, SetFieldTyped DEF Taking
  <2>3. save(u, p) \in Saves
    BY <2>2 DEF save, Saves
  <2>4. /\ ws \in Seq(Saves) /\ Len(ws) = Len(at.writes) + 1
        /\ ws[Len(ws)] = save(u, p)
        /\ \A j \in 1 .. Len(at.writes) : ws[j] = at.writes[j]
    <3> HIDE DEF p
    <3> QED BY <2>3 DEF Taking
  <2>5. Take(at, u, i, fields, done) = [profile |-> p, writes |-> ws]
    BY <1>2 DEF Take
  <2>6. save(u, p).key = u /\ save(u, p).value = p
    BY DEF save
  <2> HIDE DEF p, ws
  <2>7. \A j \in 1 .. Len(ws) : ws[j].key = u
    BY <2>4, <2>6 DEF Taking
  <2>8. ws # <<>>
    BY <2>4 DEF Taking
  <2> QED BY <2>2, <2>4, <2>5, <2>6, <2>7, <2>8 DEF Taking
<1> QED BY <1>1, <1>2

LEMMA SmartProfileWrites ==
    ASSUME UsersTyped, NEW u \in Users, NEW m \in Messages, SmartProfile(u, m)
    PROVE  ProfileWrite(u)
<1> DEFINE fields == Parse(m)
           ok(f)  == Accepts(f, fields[f])
           named  == {i \in DOMAIN order : order[i] \in DOMAIN fields}
           done   == {i \in named : \A j \in named : j <= i => ok(order[j])}
           next(at, i) == Take(at, u, i, fields, done)
           a0  == [profile |-> current(u), writes |-> <<>>]
           a1  == next(a0, 1)
           a2  == next(a1, 2)
           a3  == next(a2, 3)
           a4  == next(a3, 4)
           a5  == next(a4, 5)
<1>1. DOMAIN order = 1 .. 5
  BY DEF order
<1>2. /\ done # {} /\ Edit
      /\ profiles' = [profiles EXCEPT ![u] = a5.profile]
      /\ queue' = queue \o a5.writes
      /\ ProfileFrame(u)
  BY DEF SmartProfile, Enqueue
<1>3. done \subseteq 1 .. 5 /\ \A i \in done : ok(order[i])
  BY <1>1
<1>4. Taking(a0, u)
  BY CurrentTyped DEF Taking
<1> HIDE DEF fields, done
<1>5. Taking(a1, u) /\ (1 \in done => a1.writes # <<>>)
  <2> HIDE DEF a0
  <2> QED BY <1>3, <1>4, TakeKeeps
<1>6. Taking(a2, u) /\ (1 \in done \/ 2 \in done => a2.writes # <<>>)
  <2> HIDE DEF a1
  <2> QED BY <1>3, <1>5, TakeKeeps
<1>7. Taking(a3, u) /\ (1 \in done \/ 2 \in done \/ 3 \in done => a3.writes # <<>>)
  <2> HIDE DEF a2
  <2> QED BY <1>3, <1>6, TakeKeeps
<1>8. Taking(a4, u) /\ (1 \in done \/ 2 \in done \/ 3 \in done \/ 4 \in done => a4.writes # <<>>)
  <2> HIDE DEF a3
  <2> QED BY <1>3, <1>7, TakeKeeps
<1>9. Taking(a5, u) /\ a5.writes # <<>>
  <2> HIDE DEF a4
  <2>1. Taking(a5, u) /\ (1 \in done \/ 2 \in done \/ 3 \in done \/ 4 \in done \/ 5 \in done
                          => a5.writes # <<>>)
    BY <1>3, <1>8, TakeKeeps
  <2>2. PICK i \in done : i \in 1 .. 5
    BY <1>2, <1>3
  <2>3. i = 1 \/ i = 2 \/ i = 3 \/ i = 4 \/ i = 5
    BY <2>2
  <2> QED BY <2>1, <2>3
<1> HIDE DEF a5
<1>10. a5.profile \in Optional(Profiles) /\ a5.writes \in Seq(Saves) /\ Len(a5.writes) > 0
  BY <1>9, EmptySeq DEF Taking, Optional
<1> QED BY <1>2, <1>9, <1>10 DEF ProfileWrite, Taking

LEMMA ProfileWrites ==
    ASSUME UsersTyped, NEW u \in Users, NEW f \in Fields, NEW v,
           SetProfile(u, f, v) \/ ClearField(u, f) \/ ClearProfile(u)
    PROVE  ProfileWrite(u)
<1>0. f \in {"studentId", "className", "college", "year", "name"}
  BY UsersConstants DEF Blank
<1>1. ASSUME NEW p \in Optional(Profiles), Edit, profiles' = [profiles EXCEPT ![u] = p],
             Enqueue(<<save(u, p)>>), ProfileFrame(u)
      PROVE  ProfileWrite(u)
  <2>1. queue' = queue \o <<save(u, p)>>
    BY <1>1 DEF Enqueue
  <2> DEFINE ws == <<save(u, p)>>
  <2>2. ws \in Seq(Saves) /\ Len(ws) > 0 /\ (\A i \in 1 .. Len(ws) : ws[i].key = u) /\ ws[Len(ws)].value = p
    <3>1. ws \in Seq(Saves) /\ Len(ws) = 1 /\ (\A i \in 1 .. 1 : ws[i].key = u) /\ ws[1].value = p
      BY OneSave
    <3> HIDE DEF ws
    <3> QED BY <3>1
  <2>3. queue' = queue \o ws
    BY <2>1
  <2> HIDE DEF ws
  <2> QED BY <1>1, <2>2, <2>3 DEF ProfileWrite
<1>2. CASE SetProfile(u, f, v)
  <2>1. SetField(current(u), f, v) \in Optional(Profiles)
    BY <1>0, <1>2, CurrentTyped, SetFieldTyped DEF SetProfile, Optional
  <2> QED BY <1>1, <1>2, <2>1 DEF SetProfile
<1>3. CASE ClearField(u, f)
  <2>1. profiles[u] \in Profiles /\ profiles \in ProfileMap
    BY <1>3 DEF ClearField, UsersTyped, TypedMaps, ProfileMap, Optional
  <2>2. [profiles[u] EXCEPT ![f] = Blank[f]] \in Profiles
    BY <1>0, <2>1 DEF Profiles, Blank
  <2>3. [profiles EXCEPT ![u][f] = Blank[f]] = [profiles EXCEPT ![u] = [profiles[u] EXCEPT ![f] = Blank[f]]]
    BY <2>1 DEF ProfileMap
  <2> QED BY <1>1, <1>3, <2>2, <2>3 DEF ClearField, Optional
<1>4. CASE ClearProfile(u)
  BY <1>1, <1>4 DEF ClearProfile, Optional
<1> QED BY <1>2, <1>3, <1>4

(* The steps of the module, with the operations that differ only in who asks *)
(* taken together.                                                         *)
UsersStep ==
    \/ \E o \in Officials, x \in Externals : bindUser(o, x)
    \/ \E b \in binds : Delete(b) \/ Insert(b) \/ BindFails(b)
    \/ \E t \in Users : Show(t)
    \/ \E u \in Users : ProfileWrite(u)
    \/ \E w \in Words, c \in Optional(Classes) : putAlias(w, c)
    \/ Land \/ WriteFails
    \/ \E by \in Supers, u \in Users : Anonymize(by, u)
    \/ AnonymizeTable \/ AnonymizeReload \/ AnonymizeAnswer \/ AnonymizeFails
    \/ \E by \in Supers : Migrate(by)
    \/ Backup \/ MigrateProfile \/ MigrateCode \/ MigrateReload \/ MigrateFails
    \/ UsersRestart

LEMMA UsersSteps == UsersTyped /\ UsersNext => UsersStep
<1> SUFFICES ASSUME UsersTyped, UsersNext PROVE UsersStep
  OBVIOUS
<1>1. ASSUME NEW u \in Users, NEW x \in Qqs, BindQq(u, x) PROVE UsersStep
  BY <1>1 DEF BindQq, UsersStep, Officials, Externals
<1>2. ASSUME NEW g \in Groups, NEW x \in Numbers, BindGroup(g, x) PROVE UsersStep
  BY <1>2 DEF BindGroup, UsersStep, Officials, Externals
<1>3. ASSUME NEW t \in Users, Show(t) PROVE UsersStep
  BY <1>3 DEF UsersStep
<1>4. ASSUME NEW by, NEW i, Whois(by, i) PROVE UsersStep
  BY <1>4, <1>3 DEF Whois, Targets
<1>5. ASSUME NEW by, NEW u \in Users, DataCard(by, u) PROVE UsersStep
  BY <1>5, <1>3 DEF DataCard
<1>6. ASSUME NEW u \in Users, NEW f \in Fields, NEW v, SetProfile(u, f, v) \/ ClearField(u, f)
      PROVE  UsersStep
  BY <1>6, ProfileWrites DEF UsersStep
<1>7. ASSUME NEW u \in Users, ClearProfile(u) PROVE UsersStep
  <2>1. ProfileWrite(u)
    <3>1. profiles' = [profiles EXCEPT ![u] = None] /\ queue' = queue \o <<save(u, None)>>
          /\ Edit /\ ProfileFrame(u)
      BY <1>7 DEF ClearProfile, Enqueue
    <3> DEFINE ws == <<save(u, None)>>
    <3>2. ws \in Seq(Saves) /\ Len(ws) = 1 /\ (\A i \in 1 .. 1 : ws[i].key = u) /\ ws[1].value = None
      BY OneSave DEF Optional
    <3> HIDE DEF ws
    <3>3. None \in Optional(Profiles)
      BY DEF Optional
    <3>4. Len(ws) > 0 /\ (\A i \in 1 .. Len(ws) : ws[i].key = u) /\ ws[Len(ws)].value = None
      BY <3>2
    <3>5. queue' = queue \o ws
      BY <3>1 DEF ws
    <3> QED BY <3>1, <3>2, <3>3, <3>4, <3>5 DEF ProfileWrite
  <2> QED BY <2>1 DEF UsersStep
<1>8. ASSUME NEW u \in Users, NEW m \in Messages, SmartProfile(u, m) PROVE UsersStep
  BY <1>8, SmartProfileWrites DEF UsersStep
<1>9. ASSUME NEW w \in Words, NEW c \in Optional(Classes), putAlias(w, c) PROVE UsersStep
  BY <1>9 DEF UsersStep
<1>10. ASSUME NEW by, NEW w \in Words, NEW c, SetAlias(by, w, c) \/ ApiSetAlias(by, w, c) PROVE UsersStep
  BY <1>10, <1>9 DEF SetAlias, ApiSetAlias, Optional
<1>11. ASSUME NEW by, NEW w \in Words, RemoveAlias(by, w) \/ ApiRemoveAlias(by, w) PROVE UsersStep
  BY <1>11, <1>9 DEF RemoveAlias, ApiRemoveAlias, Optional
<1>12. ASSUME NEW by, NEW u \in Users, NEW x \in Qqs, BindForUser(by, u, x) PROVE UsersStep
  BY <1>12, <1>1 DEF BindForUser
<1>13. ASSUME NEW by, NEW g \in Groups, NEW x \in Numbers, BindForGroup(by, g, x) PROVE UsersStep
  BY <1>13, <1>2 DEF BindForGroup
<1>14. \/ \E b \in binds : Delete(b) \/ Insert(b) \/ BindFails(b)
       \/ Land \/ WriteFails
       \/ \E by \in Supers, u \in Users : Anonymize(by, u)
       \/ AnonymizeTable \/ AnonymizeReload \/ AnonymizeAnswer \/ AnonymizeFails
       \/ \E by \in Supers : Migrate(by)
       \/ Backup \/ MigrateProfile \/ MigrateCode \/ MigrateReload \/ MigrateFails
       \/ UsersRestart
       => UsersStep
  BY DEF UsersStep
<1> QED
  BY <1>1, <1>2, <1>3, <1>4, <1>5, <1>6, <1>7, <1>8, <1>10, <1>11, <1>12, <1>13, <1>14 DEF UsersNext, Targets

LEMMA TroublesCount ==
    ASSUME UsersTyped, troubles < MaxTroubles, troubles' = troubles + 1
    PROVE  troubles' \in 0 .. MaxTroubles
BY UsersConstants DEF UsersTyped, TypedHistory

LEMMA UsersInitTyped == UsersInit => UsersTyped
<1> SUFFICES ASSUME UsersInit PROVE UsersTyped
  OBVIOUS
<1>1. TypedNumbers /\ TypedBinds /\ TypedQueue /\ TypedJobs /\ TypedHistory
  BY UsersConstants DEF UsersInit, TypedNumbers, TypedBinds, TypedQueue, TypedJobs, TypedHistory,
     Numbering, Owners, Optional
<1>2. profileRows \in ProfileMap
  BY DEF UsersInit, ProfileMap, Optional, Profiles, Blank
<1>3. codeRows \in CodeMap
  BY DEF UsersInit, CodeMap, Optional
<1>4. aliasRows \in AliasMap
  BY DEF UsersInit, AliasMap, Optional
<1> QED
  BY <1>1, <1>2, <1>3, <1>4 DEF UsersInit, UsersTyped, TypedMaps

LEMMA BindTyped ==
    ASSUME UsersTyped, NEW o \in Officials, NEW x \in Externals, bindUser(o, x)
    PROVE  UsersTyped'
<1>0. numberOf \in Numbering /\ ownerOf \in Owners
  BY DEF UsersTyped, TypedNumbers
<1>1. numberOf' \in Numbering
  BY <1>0 DEF bindUser, Bound, Released, Numbering, Optional
<1>2. ownerOf' \in Owners
  BY <1>0 DEF bindUser, Owned, Owners, Optional
<1>3. TypedBinds'
  <2> DEFINE new == [id |-> edits, official |-> o, external |-> x, step |-> "delete",
                     numberOf |-> numberOf, ownerOf |-> ownerOf,
                     alone |-> /\ \A b \in binds : ~Touches(b, o, x)
                               /\ (privacy = None \/ privacy.user # o)]
  <2>1. binds' = {IF Touches(b, o, x) THEN [b EXCEPT !.alone = FALSE] ELSE b : b \in binds} \cup {new}
    BY DEF bindUser
  <2>2. edits \in Nat
    BY UsersConstants DEF UsersTyped, TypedHistory
  <2>3. new \in Binding
    BY <1>0, <2>2 DEF bindUser, Binding
  <2>4. \A b \in Binding : [b EXCEPT !.alone = FALSE] \in Binding
    BY DEF Binding, SameKind
  <2>5. \A b \in binds : b \in Binding
    BY DEF UsersTyped, TypedBinds
  <2> HIDE DEF new
  <2> QED BY <2>1, <2>3, <2>4, <2>5 DEF TypedBinds
<1>4. TypedJobs'
  BY DEF bindUser, Stirs, UsersTyped, TypedJobs, Optional, Anonymizing
<1>5. TypedHistory'
  BY UsersConstants DEF bindUser, Stirs, Edit, UsersTyped, TypedHistory
<1> QED
  BY <1>1, <1>2, <1>3, <1>4, <1>5 DEF bindUser, Edit, database, UsersTyped, TypedNumbers, TypedMaps, TypedQueue

LEMMA BindStepsTyped ==
    ASSUME UsersTyped, NEW b \in binds, Delete(b) \/ Insert(b) \/ BindFails(b)
    PROVE  UsersTyped'
<1>0. b \in Binding /\ numberOf \in Numbering /\ ownerOf \in Owners /\ bindRows \in Numbering
  BY DEF UsersTyped, TypedNumbers, TypedBinds
<1>1. TypedNumbers'
  <2>1. CASE Delete(b)
    BY <1>0, <2>1 DEF Delete, TypedNumbers, Numbering, Optional
  <2>2. CASE Insert(b)
    BY <1>0, <2>2 DEF Insert, TypedNumbers, Numbering, Optional, Binding
  <2>3. CASE BindFails(b)
    BY <1>0, <2>3 DEF BindFails, restore, database, TypedNumbers, Numbering, Owners, Optional, Binding
  <2> QED BY <2>1, <2>2, <2>3
<1>2. TypedBinds'
  <2>1. [b EXCEPT !.step = "insert"] \in Binding
    BY <1>0 DEF Binding, SameKind
  <2> QED BY <2>1 DEF UsersTyped, TypedBinds, Delete, Insert, BindFails
<1>3. TypedHistory'
  <2>1. <<b.official, b.external>> \in Officials \X Externals
    BY <1>0 DEF Binding
  <2>2. bound' \subseteq bound \cup {<<b.official, b.external>>} /\ lossless' \in BOOLEAN
    BY DEF Delete, Insert, BindFails, UsersTyped, TypedHistory, history
  <2>3. troubles' \in 0 .. MaxTroubles
    BY UsersConstants DEF Delete, Insert, BindFails, UsersTyped, TypedHistory, bounds
  <2>4. revived' \subseteq revived \cup Users \X {"numbers", "profiles"}
    BY DEF Delete, Insert, BindFails, history
  <2> QED BY <2>1, <2>2, <2>3, <2>4 DEF Delete, Insert, BindFails, UsersTyped, TypedHistory, history, bounds
<1> QED
  BY <1>1, <1>2, <1>3 DEF Delete, Insert, BindFails, database, jobs, UsersTyped, TypedMaps, TypedQueue, TypedJobs
LEMMA CodeForTyped ==
    ASSUME UsersTyped, NEW t \in Users, codeFor(t)
    PROVE  /\ codes' \in CodeMap /\ pool' \subseteq Codes /\ queue' \in Seq(Item)
           /\ shown' \subseteq Codes \X Users
<1>0. /\ codes \in CodeMap /\ pool \subseteq Codes /\ queue \in Seq(Item)
      /\ shown \subseteq Codes \X Users
  BY DEF UsersTyped, TypedMaps, TypedQueue, TypedHistory
<1>1. ASSUME NEW c \in Codes, UNCHANGED <<codes, pool, queue>>, shown' = shown \cup {<<c, t>>}
      PROVE  /\ codes' \in CodeMap /\ pool' \subseteq Codes /\ queue' \in Seq(Item)
             /\ shown' \subseteq Codes \X Users
  BY <1>0, <1>1
<1>2. ASSUME NEW c \in Codes, pool' = pool \cup {c}, codes' = [codes EXCEPT ![c] = t],
             Enqueue(<<[table |-> "codes", key |-> c, value |-> t]>>), shown' = shown \cup {<<c, t>>}
      PROVE  /\ codes' \in CodeMap /\ pool' \subseteq Codes /\ queue' \in Seq(Item)
             /\ shown' \subseteq Codes \X Users
  <2>1. queue' \in Seq(Item)
    <3>1. <<[table |-> "codes", key |-> c, value |-> t]>> \in Seq(Item)
      BY DEF Item
    <3> QED BY <1>0, <1>2, <3>1, ConcatProperties DEF Enqueue
  <2>2. codes' \in CodeMap
    BY <1>0, <1>2 DEF CodeMap, Optional
  <2> QED BY <1>0, <1>2, <2>1, <2>2
<1> QED BY <1>1, <1>2 DEF codeFor, CodeOf

LEMMA ShowTyped ==
    ASSUME UsersTyped, NEW t \in Users, Show(t)
    PROVE  UsersTyped'
<1>1. /\ codes' \in CodeMap /\ pool' \subseteq Codes /\ queue' \in Seq(Item)
      /\ shown' \subseteq Codes \X Users
  BY CodeForTyped DEF Show
<1>2. TypedJobs'
  BY DEF Show, Stirs, UsersTyped, TypedJobs, Optional, Anonymizing
<1>3. TypedHistory'
  BY <1>1, UsersConstants DEF Show, Stirs, Edit, UsersTyped, TypedHistory
<1> QED
  BY <1>1, <1>2, <1>3 DEF Show, numbers, database, UsersTyped, TypedNumbers, TypedBinds, TypedMaps, TypedQueue

LEMMA ProfileTyped ==
    ASSUME UsersTyped, NEW u \in Users, ProfileWrite(u)
    PROVE  UsersTyped'
<1>1. PICK p \in Optional(Profiles), ws \in Seq(Saves) :
          Edit /\ profiles' = [profiles EXCEPT ![u] = p] /\ queue' = queue \o ws /\ ProfileFrame(u)
  BY DEF ProfileWrite
<1>2. queue' \in Seq(Item)
  <2>1. ws \in Seq(Item)
    BY SeqMonotonic DEF Item
  <2> QED BY <1>1, <2>1, ConcatProperties DEF UsersTyped, TypedQueue
<1>3. profiles' \in ProfileMap
  BY <1>1 DEF UsersTyped, TypedMaps, ProfileMap
<1>4. TypedJobs'
  BY <1>1 DEF ProfileFrame, Stirs, UsersTyped, TypedJobs, Optional, Anonymizing
<1>5. TypedHistory'
  BY <1>1, UsersConstants DEF ProfileFrame, Stirs, Edit, UsersTyped, TypedHistory
<1> QED
  BY <1>1, <1>2, <1>3, <1>4, <1>5 DEF ProfileFrame, numbers, database, UsersTyped, TypedNumbers, TypedBinds,
     TypedMaps, TypedQueue

LEMMA AliasTyped ==
    ASSUME UsersTyped, NEW w \in Words, NEW c \in Optional(Classes), putAlias(w, c)
    PROVE  UsersTyped'
<1>1. queue' \in Seq(Item)
  <2>1. <<[table |-> "aliases", key |-> w, value |-> c]>> \in Seq(Item)
    BY DEF Item
  <2> QED BY <2>1, ConcatProperties DEF putAlias, Enqueue, UsersTyped, TypedQueue
<1>2. aliases' \in AliasMap
  BY DEF putAlias, UsersTyped, TypedMaps, AliasMap
<1>3. TypedHistory'
  BY UsersConstants DEF putAlias, Edit, history, UsersTyped, TypedHistory
<1> QED
  BY <1>1, <1>2, <1>3 DEF putAlias, numbers, database, jobs, UsersTyped, TypedNumbers, TypedBinds,
     TypedMaps, TypedQueue, TypedJobs

LEMMA HeadOfQueue ==
    ASSUME UsersTyped, queue # <<>>
    PROVE  /\ Head(queue) \in Item /\ Tail(queue) \in Seq(Item) /\ Len(queue) > 0
           /\ Head(queue) = queue[1]
           /\ \A i \in 1 .. Len(queue) : queue[i] \in Item
           /\ Len(Tail(queue)) = Len(queue) - 1
           /\ \A i \in 1 .. Len(Tail(queue)) : i + 1 \in 1 .. Len(queue) /\ Tail(queue)[i] = queue[i + 1]
<1>1. queue \in Seq(Item)
  BY DEF UsersTyped, TypedQueue
<1> QED BY <1>1, HeadTailProperties, LenProperties, ElementOfSeq

LEMMA WritesTyped ==
    ASSUME UsersTyped, Land \/ WriteFails
    PROVE  UsersTyped'
<1> DEFINE w == Head(queue)
<1>1. w \in Item /\ Tail(queue) \in Seq(Item)
  BY HeadOfQueue DEF Land, WriteFails
<1>2. profileRows' \in ProfileMap
  <2>1. w.table = "profiles" => w.key \in Users /\ w.value \in Optional(Profiles)
    BY <1>1 DEF Item, Saves, Optional
  <2> HIDE DEF w
  <2> QED BY <2>1 DEF w, Land, WriteFails, database, UsersTyped, TypedMaps, ProfileMap
<1>3. codeRows' \in CodeMap
  <2>1. w.table = "codes" => w.key \in Codes /\ w.value \in Users
    BY <1>1 DEF Item, Saves
  <2>2. codeRows' = codeRows \/ (w.table = "codes" /\ codeRows' = codeSaved(w))
    <3>1. CASE Land
      BY <3>1 DEF Land
    <3>2. CASE WriteFails
      BY <3>2 DEF WriteFails, database
    <3> QED BY <3>1, <3>2
  <2> HIDE DEF w
  <2> QED BY <2>1, <2>2 DEF codeSaved, UsersTyped, TypedMaps, CodeMap, Optional
<1>4. aliasRows' \in AliasMap
  <2>1. w.table = "aliases" => w.key \in Words /\ w.value \in Optional(Classes)
    BY <1>1 DEF Item, Saves, Optional
  <2> HIDE DEF w
  <2> QED BY <2>1 DEF w, Land, WriteFails, database, UsersTyped, TypedMaps, AliasMap
<1>5. TypedHistory'
  <2>1. CASE Land
    BY <2>1 DEF Land, history, bounds, UsersTyped, TypedHistory
  <2>2. CASE WriteFails
    BY <2>2, TroublesCount DEF WriteFails, history, UsersTyped, TypedHistory
  <2> QED BY <2>1, <2>2
<1> QED
  BY <1>1, <1>2, <1>3, <1>4, <1>5 DEF Land, WriteFails, numbers, database, jobs, UsersTyped, TypedNumbers,
     TypedBinds, TypedMaps, TypedQueue, TypedJobs

LEMMA AnonymizeTyped ==
    ASSUME UsersTyped, NEW by, NEW u \in Users, Anonymize(by, u)
    PROVE  UsersTyped'
<1>1. TypedBinds'
  <2>1. \A b \in Binding : [b EXCEPT !.alone = FALSE] \in Binding
    BY DEF Binding, SameKind
  <2> QED BY <2>1 DEF Anonymize, UsersTyped, TypedBinds
<1>2. TypedJobs'
  <2>1. privacy' = [user |-> u, todo |-> tables, left |-> stores, alone |-> Undisturbed(u)]
    BY DEF Anonymize
  <2>2. tables \in Seq({"bindings", "profiles", "codes"})
    BY DEF tables
  <2>3. Undisturbed(u) \in BOOLEAN
    BY DEF Undisturbed
  <2>4. stores \in SUBSET {"profiles", "codes", "numbers"}
    BY DEF stores
  <2>5. privacy' \in Anonymizing
    <3> DEFINE a == Undisturbed(u)
               t == tables
               s == stores
    <3> HIDE DEF a, t, s
    <3>1. [user |-> u, todo |-> t, left |-> s, alone |-> a] \in Anonymizing
      BY <2>2, <2>3, <2>4 DEF a, t, s, Anonymizing
    <3> QED BY <2>1, <3>1 DEF a, t, s
  <2> QED BY <2>5 DEF Anonymize, UsersTyped, TypedJobs, Optional
<1>3. TypedHistory'
  BY UsersConstants DEF Anonymize, Edit, UsersTyped, TypedHistory
<1> QED
  BY <1>1, <1>2, <1>3 DEF Anonymize, Edit, database, UsersTyped, TypedNumbers, TypedMaps, TypedQueue

LEMMA ReloadTyped ==
    ASSUME UsersTyped, NEW s \in {"profiles", "codes", "numbers"}, reload(s)
    PROVE  /\ numberOf' \in Numbering /\ ownerOf' \in Owners /\ profiles' \in ProfileMap
           /\ codes' \in CodeMap /\ pool' \subseteq Codes /\ revived' \subseteq revived
<1>1. loadNumbers => numberOf' \in Numbering /\ ownerOf' \in Owners
  BY DEF loadNumbers, UsersTyped, TypedNumbers, Owners, Optional
<1>2. loadCodes => codes' \in CodeMap /\ pool' \subseteq Codes
  BY DEF loadCodes, UsersTyped, TypedMaps
<1> QED
  BY <1>1, <1>2 DEF reload, loadProfiles, Still, UsersTyped, TypedNumbers, TypedMaps
LEMMA AnonymizingTyped ==
    ASSUME UsersTyped, AnonymizeTable \/ AnonymizeReload \/ AnonymizeFails
    PROVE  UsersTyped'
<1>0. privacy # None /\ privacy \in Anonymizing
  BY DEF AnonymizeTable, AnonymizeReload, AnonymizeFails, UsersTyped, TypedJobs, Optional
<1>1. TypedJobs'
  <2>1. ASSUME privacy.todo # <<>>
        PROVE  [privacy EXCEPT !.todo = Tail(@)] \in Anonymizing
    <3>1. Tail(privacy.todo) \in Seq({"bindings", "profiles", "codes"})
      BY <1>0, <2>1, HeadTailProperties DEF Anonymizing
    <3> DEFINE t == Tail(privacy.todo)
    <3> HIDE DEF t
    <3>2. [privacy EXCEPT !.todo = t] \in Anonymizing
      BY <1>0, <3>1 DEF Anonymizing, t
    <3> QED BY <3>2 DEF t
  <2>2. ASSUME NEW s PROVE [privacy EXCEPT !.left = @ \ {s}] \in Anonymizing
    BY <1>0 DEF Anonymizing
  <2> QED
    BY <2>1, <2>2 DEF AnonymizeTable, AnonymizeReload, AnonymizeFails, UsersTyped, TypedJobs, Optional
<1>2. CASE AnonymizeTable
  <2> DEFINE u == privacy.user
             t == Head(privacy.todo)
  <2>1. u \in Users
    BY <1>0 DEF Anonymizing
  <2> HIDE DEF u, t
  <2>2. /\ bindRows' = IF t = "bindings" THEN [bindRows EXCEPT ![u] = None] ELSE bindRows
        /\ profileRows' = IF t = "profiles" THEN [profileRows EXCEPT ![u] = None] ELSE profileRows
        /\ codeRows' = IF t = "codes"
                       THEN [c \in Codes |-> IF codeRows[c] = u THEN Anon ELSE codeRows[c]] ELSE codeRows
    BY <1>2 DEF AnonymizeTable, u, t
  <2>3. bindRows' \in Numbering
    BY <2>1, <2>2 DEF UsersTyped, TypedNumbers, Numbering, Optional
  <2>4. profileRows' \in ProfileMap /\ codeRows' \in CodeMap
    BY <2>1, <2>2 DEF UsersTyped, TypedMaps, ProfileMap, CodeMap, Optional
  <2> QED
    BY <1>1, <1>2, <2>3, <2>4 DEF AnonymizeTable, numbers, history, bounds, UsersTyped, TypedNumbers,
       TypedBinds, TypedMaps, TypedQueue, TypedHistory
<1>3. CASE AnonymizeReload
  <2>1. /\ numberOf' \in Numbering /\ ownerOf' \in Owners /\ profiles' \in ProfileMap
        /\ codes' \in CodeMap /\ pool' \subseteq Codes /\ revived' \subseteq revived
    BY <1>0, <1>3, ReloadTyped DEF AnonymizeReload, Anonymizing
  <2> QED
    BY <1>1, <1>3, <2>1 DEF AnonymizeReload, database, history, bounds, UsersTyped, TypedNumbers,
       TypedBinds, TypedMaps, TypedQueue, TypedHistory
<1>4. CASE AnonymizeFails
  <2>1. TypedHistory'
    BY <1>4, TroublesCount DEF AnonymizeFails, history, UsersTyped, TypedHistory
  <2> QED
    BY <1>1, <1>4, <2>1 DEF AnonymizeFails, numbers, database, UsersTyped, TypedNumbers,
       TypedBinds, TypedMaps, TypedQueue
<1> QED BY <1>2, <1>3, <1>4

LEMMA AnswerTyped ==
    ASSUME UsersTyped, AnonymizeAnswer
    PROVE  UsersTyped'
<1>0. privacy.user \in Users
  BY DEF AnonymizeAnswer, UsersTyped, TypedJobs, Optional, Anonymizing
<1>1. /\ codes' \in CodeMap /\ pool' \subseteq Codes /\ queue' \in Seq(Item)
      /\ shown' \subseteq Codes \X Users
  BY <1>0, CodeForTyped DEF AnonymizeAnswer, UsersTyped, TypedMaps, TypedQueue, TypedHistory
<1>2. TypedHistory'
  BY <1>0, <1>1 DEF AnonymizeAnswer, bounds, UsersTyped, TypedHistory
<1> QED
  BY <1>1, <1>2 DEF AnonymizeAnswer, numbers, database, UsersTyped, TypedNumbers, TypedBinds, TypedMaps,
     TypedQueue, TypedJobs, Optional

LEMMA ScannedTyped ==
    ASSUME UsersTyped
    PROVE  Scanned \in SUBSET Saves
<1>1. collapseYear \in Years
  BY UsersConstants DEF collapseYear
<1>2. ASSUME NEW u \in Users, profileRows[u] # None
      PROVE  save(u, [profileRows[u] EXCEPT !.year = collapseYear]) \in Saves
  <2>1. profileRows[u] \in Profiles
    BY <1>2 DEF UsersTyped, TypedMaps, ProfileMap, Optional
  <2>2. [profileRows[u] EXCEPT !.year = collapseYear] \in Profiles
    BY <1>1, <2>1 DEF Profiles
  <2> QED BY <2>2 DEF save, Saves
<1> QED BY <1>2 DEF Scanned

LEMMA MigrateTyped ==
    ASSUME UsersTyped, NEW by, Migrate(by)
    PROVE  UsersTyped'
<1>1. migration' \in Migrating
  <2>1. Old \in SUBSET LowerCodes
    BY DEF Old
  <2> DEFINE sc == Scanned
             ol == Old
  <2>2. migration' = [step |-> "backup", rows |-> sc, old |-> ol, left |-> {"profiles", "codes"}]
    BY DEF Migrate
  <2>3. sc \in SUBSET Saves /\ ol \in SUBSET LowerCodes
    BY <2>1, ScannedTyped
  <2> HIDE DEF sc, ol
  <2> QED BY <2>2, <2>3 DEF Migrating
<1>2. TypedJobs'
  BY <1>1 DEF Migrate, UsersTyped, TypedJobs, Optional, Anonymizing
<1>3. TypedHistory'
  BY UsersConstants DEF Migrate, Edit, history, UsersTyped, TypedHistory
<1> QED
  BY <1>2, <1>3 DEF Migrate, Edit, numbers, database, UsersTyped, TypedNumbers, TypedBinds, TypedMaps,
     TypedQueue

LEMMA MigratingTyped ==
    ASSUME UsersTyped, Backup \/ MigrateProfile \/ MigrateCode \/ MigrateReload \/ MigrateFails
    PROVE  UsersTyped'
<1>0. migration # None /\ migration \in Migrating
  BY DEF Backup, MigrateProfile, MigrateCode, MigrateReload, MigrateFails, UsersTyped, TypedJobs, Optional
<1>1. TypedJobs'
  <2>1. [migration EXCEPT !.step = "apply"] \in Migrating
    BY <1>0 DEF Migrating
  <2>2. \A w : [migration EXCEPT !.rows = @ \ {w}] \in Migrating
    BY <1>0 DEF Migrating
  <2>3. \A c : [migration EXCEPT !.old = @ \ {c}] \in Migrating
    BY <1>0 DEF Migrating
  <2>4. \A s : [migration EXCEPT !.left = @ \ {s}] \in Migrating
    BY <1>0 DEF Migrating
  <2>5. migration' \in Optional(Migrating)
    <3>1. CASE Backup
      BY <2>1, <3>1 DEF Backup, Optional
    <3>2. CASE MigrateProfile
      BY <2>2, <3>2 DEF MigrateProfile, Optional
    <3>3. CASE MigrateCode
      BY <2>3, <3>3 DEF MigrateCode, Optional
    <3>4. CASE MigrateReload
      BY <2>4, <3>4 DEF MigrateReload, Optional
    <3>5. CASE MigrateFails
      BY <3>5 DEF MigrateFails, Optional
    <3> QED BY <3>1, <3>2, <3>3, <3>4, <3>5
  <2>6. privacy' = privacy
    BY DEF Backup, MigrateProfile, MigrateCode, MigrateReload, MigrateFails
  <2> QED BY <2>5, <2>6 DEF UsersTyped, TypedJobs
<1>2. CASE Backup
  BY <1>1, <1>2 DEF Backup, numbers, database, history, bounds, UsersTyped, TypedNumbers, TypedBinds,
     TypedMaps, TypedQueue, TypedHistory
<1>3. CASE MigrateProfile
  <2>1. \A w \in migration.rows : w.key \in Users /\ w.value \in Optional(Profiles)
    BY <1>0 DEF Migrating, Saves, Optional
  <2>2. profileRows' \in ProfileMap
    BY <1>3, <2>1 DEF MigrateProfile, UsersTyped, TypedMaps, ProfileMap
  <2>3. revived' \subseteq revived \cup Users \X {"numbers", "profiles"}
    BY <1>3, <2>1 DEF MigrateProfile
  <2> QED
    BY <1>1, <1>3, <2>2, <2>3 DEF MigrateProfile, numbers, history, bounds, UsersTyped, TypedNumbers, TypedBinds,
       TypedMaps, TypedQueue, TypedHistory
<1>4. CASE MigrateCode
  <2>1. codeRows' \in CodeMap /\ pool' \subseteq Codes
    <3>1. \A c \in migration.old : c \in Codes
      BY <1>0, UsersConstants DEF Migrating
    <3> QED BY <1>4, <3>1 DEF MigrateCode, UsersTyped, TypedMaps, CodeMap, Optional
  <2> QED
    BY <1>1, <1>4, <2>1 DEF MigrateCode, numbers, history, bounds, UsersTyped, TypedNumbers, TypedBinds,
       TypedMaps, TypedQueue, TypedHistory
<1>5. CASE MigrateReload
  <2>1. /\ numberOf' \in Numbering /\ ownerOf' \in Owners /\ profiles' \in ProfileMap
        /\ codes' \in CodeMap /\ pool' \subseteq Codes /\ revived' \subseteq revived
    BY <1>0, <1>5, ReloadTyped DEF MigrateReload, Migrating
  <2> QED
    BY <1>1, <1>5, <2>1 DEF MigrateReload, database, history, bounds, UsersTyped, TypedNumbers,
       TypedBinds, TypedMaps, TypedQueue, TypedHistory
<1>6. CASE MigrateFails
  <2>1. TypedHistory'
    BY <1>6, TroublesCount DEF MigrateFails, history, UsersTyped, TypedHistory
  <2> QED
    BY <1>1, <1>6, <2>1 DEF MigrateFails, numbers, database, UsersTyped, TypedNumbers,
       TypedBinds, TypedMaps, TypedQueue
<1> QED BY <1>2, <1>3, <1>4, <1>5, <1>6

LEMMA StartTyped == UsersTyped /\ UsersRestart => UsersTyped'
<1> SUFFICES ASSUME UsersTyped, UsersRestart PROVE UsersTyped'
  OBVIOUS
<1>1. TypedNumbers' /\ TypedBinds'
  BY DEF UsersRestart, loadNumbers, database, UsersTyped, TypedNumbers, TypedBinds, Owners, Optional
<1>2. TypedMaps'
  BY DEF UsersRestart, loadProfiles, database, UsersTyped, TypedMaps
<1>3. TypedHistory'
  BY UsersConstants DEF UsersRestart, Still, UsersTyped, TypedHistory
<1> QED
  BY <1>1, <1>2, <1>3 DEF UsersRestart, UsersTyped, TypedQueue, TypedJobs, Optional

LEMMA UsersStepTyped == UsersTyped /\ [UsersNext]_usersVars => UsersTyped'
<1> SUFFICES ASSUME UsersTyped, [UsersNext]_usersVars PROVE UsersTyped'
  OBVIOUS
<1>1. CASE UNCHANGED usersVars
  BY <1>1 DEF usersVars, numbers, database, jobs, history, bounds, UsersTyped, TypedNumbers, TypedBinds,
     TypedMaps, TypedQueue, TypedJobs, TypedHistory
<1>2. CASE UsersNext
  <2>1. UsersStep
    BY <1>2, UsersSteps
  <2> QED
    BY <2>1, BindTyped, BindStepsTyped, ShowTyped, ProfileTyped, AliasTyped, WritesTyped, AnonymizeTyped,
       AnonymizingTyped, AnswerTyped, MigrateTyped, MigratingTyped, StartTyped DEF UsersStep
<1> QED BY <1>1, <1>2

LEMMA UsersStayTyped == UsersSpec => []UsersTyped
<1> QED BY UsersInitTyped, UsersStepTyped, PTL DEF UsersSpec

(* Types of users: every map keeps its keys and values, ids are bound to   *)
(* numbers of their kind only, and both jobs stay within their steps.      *)
THEOREM UsersAreTyped == UsersSpec => []UsersTypeOK
<1> QED BY UsersStayTyped, UsersTypedIsTypeOK, PTL

-----------------------------------------------------------------------------
(* Users: bindings. *)

(* An answered binding has its row and nothing under way touches it; a     *)
(* binding that may still be answered alone has its two sides to itself.   *)
KeptInv ==
    /\ \A p \in bound : bindRows[p[1]] = p[2]
    /\ \A p \in bound : \A b \in binds : ~Touches(b, p[1], p[2])
    /\ \A b, c \in binds : b.alone /\ c # b => ~Touches(c, b.official, b.external)
    /\ privacy # None => /\ \A p \in bound : p[1] # privacy.user
                         /\ \A b \in binds : b.alone => b.official # privacy.user

LEMMA KeptQuiet ==
    ASSUME KeptInv, UNCHANGED <<bound, binds, bindRows>>,
           privacy' = None \/ (privacy # None /\ privacy'.user = privacy.user)
    PROVE  KeptInv'
BY DEF KeptInv

LEMMA StirsUser ==
    ASSUME UsersTyped, NEW u, Stirs(u)
    PROVE  privacy' = None \/ (privacy # None /\ privacy'.user = privacy.user)
<1>1. privacy # None => privacy \in Anonymizing
  BY DEF UsersTyped, TypedJobs, Optional
<1> QED BY <1>1 DEF Stirs, Anonymizing

LEMMA BindKeeps ==
    ASSUME UsersTyped, KeptInv, NEW o \in Officials, NEW x \in Externals, bindUser(o, x)
    PROVE  KeptInv'
<1> DEFINE new == [id |-> edits, official |-> o, external |-> x, step |-> "delete",
                   numberOf |-> numberOf, ownerOf |-> ownerOf,
                   alone |-> /\ \A b \in binds : ~Touches(b, o, x)
                             /\ (privacy = None \/ privacy.user # o)]
           marked(b) == IF Touches(b, o, x) THEN [b EXCEPT !.alone = FALSE] ELSE b
<1>1. binds' = {marked(b) : b \in binds} \cup {new}
  BY DEF bindUser
<1>2. /\ bound' = {b \in bound : b[1] # o /\ b[2] # x}
      /\ bindRows' = bindRows
      /\ privacy' = None \/ (privacy # None /\ privacy'.user = privacy.user)
  BY StirsUser DEF bindUser, database
<1>3. \A b \in binds : b \in Binding
  BY DEF UsersTyped, TypedBinds
<1>4. \A b \in binds : /\ marked(b).official = b.official /\ marked(b).external = b.external
                       /\ marked(b).alone => b.alone /\ ~Touches(b, o, x)
  BY <1>3 DEF Binding
<1>5. /\ new.official = o /\ new.external = x
      /\ new.alone => /\ \A b \in binds : ~Touches(b, o, x)
                      /\ privacy = None \/ privacy.user # o
  OBVIOUS
<1> HIDE DEF new, marked
<1>6. \A p \in bound' : bindRows'[p[1]] = p[2]
  BY <1>2 DEF KeptInv
<1>7. ASSUME NEW p \in bound', NEW b \in binds' PROVE ~Touches(b, p[1], p[2])
  <2>1. p \in bound /\ p[1] # o /\ p[2] # x
    BY <1>2
  <2>2. CASE b = new
    BY <1>5, <2>1, <2>2 DEF Touches
  <2>3. CASE b # new
    <3>1. PICK c \in binds : b = marked(c)
      BY <1>1, <2>3
    <3> QED BY <1>4, <2>1, <3>1 DEF Touches, KeptInv
  <2> QED BY <2>2, <2>3
<1>8. ASSUME NEW b \in binds', NEW c \in binds', b.alone, c # b
      PROVE  ~Touches(c, b.official, b.external)
  <2>1. CASE b = new
    <3>1. PICK d \in binds : c = marked(d)
      BY <1>1, <1>8, <2>1
    <3> QED BY <1>4, <1>5, <1>8, <2>1, <3>1 DEF Touches
  <2>2. CASE b # new
    <3>1. PICK d \in binds : b = marked(d)
      BY <1>1, <2>2
    <3>2. d.alone /\ ~Touches(d, o, x)
      BY <1>4, <1>8, <3>1
    <3>3. CASE c = new
      BY <1>4, <1>5, <3>1, <3>2, <3>3 DEF Touches
    <3>4. CASE c # new
      <4>1. PICK e \in binds : c = marked(e)
        BY <1>1, <3>4
      <4> QED BY <1>4, <1>8, <3>1, <3>2, <4>1 DEF Touches, KeptInv
    <3> QED BY <3>3, <3>4
  <2> QED BY <2>1, <2>2
<1>9. ASSUME privacy' # None
      PROVE  /\ \A p \in bound' : p[1] # privacy'.user
             /\ \A b \in binds' : b.alone => b.official # privacy'.user
  <2>1. privacy # None /\ privacy'.user = privacy.user
    BY <1>2, <1>9
  <2>2. \A p \in bound' : p[1] # privacy'.user
    BY <1>2, <2>1 DEF KeptInv
  <2>3. ASSUME NEW b \in binds', b.alone PROVE b.official # privacy'.user
    <3>1. CASE b = new
      BY <1>5, <2>1, <2>3, <3>1
    <3>2. CASE b # new
      <4>1. PICK c \in binds : b = marked(c)
        BY <1>1, <3>2
      <4> QED BY <1>4, <2>1, <2>3, <4>1 DEF KeptInv
    <3> QED BY <3>1, <3>2
  <2> QED BY <2>2, <2>3
<1> QED BY <1>6, <1>7, <1>8, <1>9 DEF KeptInv, Touches

LEMMA BindStepsKeep ==
    ASSUME UsersTyped, KeptInv, NEW b \in binds, Delete(b) \/ Insert(b) \/ BindFails(b)
    PROVE  KeptInv'
<1>0. b \in Binding /\ bindRows \in Numbering
  BY DEF UsersTyped, TypedNumbers, TypedBinds
<1>1. \A p \in bound : p \in Officials \X Externals /\ p[1] \in Officials /\ p[2] \in Externals
  BY DEF UsersTyped, TypedHistory
<1>2. CASE Delete(b)
  <2> DEFINE d == [b EXCEPT !.step = "insert"]
  <2>1. d.official = b.official /\ d.external = b.external /\ d.alone = b.alone
    BY <1>0 DEF Binding
  <2>2. binds' = (binds \ {b}) \cup {d} /\ bound' = bound /\ privacy' = privacy
    BY <1>2 DEF Delete, history, jobs
  <2>3. \A p \in bound : bindRows'[p[1]] = p[2]
    <3>1. TAKE p \in bound
    <3>2. bindRows[p[1]] = p[2] /\ p[1] # b.official /\ p[2] # b.external /\ p[1] \in Officials
      BY <1>1 DEF KeptInv, Touches
    <3> QED BY <1>2, <3>2 DEF Delete
  <2> HIDE DEF d
  <2>4. \A p \in bound : \A c \in binds' : ~Touches(c, p[1], p[2])
    BY <2>1, <2>2 DEF KeptInv, Touches
  <2>5. ASSUME NEW c \in binds', NEW e \in binds', c.alone, e # c
        PROVE  ~Touches(e, c.official, c.external)
    BY <2>1, <2>2, <2>5 DEF KeptInv, Touches
  <2>6. privacy # None => \A c \in binds' : c.alone => c.official # privacy.user
    BY <2>1, <2>2 DEF KeptInv
  <2> QED BY <2>2, <2>3, <2>4, <2>5, <2>6 DEF KeptInv, Touches
<1>3. CASE Insert(b)
  <2> DEFINE q == <<b.official, b.external>>
  <2>1. /\ binds' = binds \ {b} /\ privacy' = privacy
        /\ bindRows' = [bindRows EXCEPT ![b.official] = b.external]
        /\ bound' = IF b.alone THEN bound \cup {q} ELSE bound
    BY <1>3 DEF Insert, jobs
  <2>2. b.official \in Officials /\ bindRows'[b.official] = b.external
    BY <1>0, <2>1 DEF Binding, Numbering
  <2>3. \A p \in bound : bindRows'[p[1]] = p[2]
    <3>1. TAKE p \in bound
    <3>2. bindRows[p[1]] = p[2] /\ p[1] # b.official /\ p[1] \in Officials
      BY <1>1 DEF KeptInv, Touches
    <3> QED BY <1>0, <2>1, <3>2 DEF Numbering
  <2>4. q[1] = b.official /\ q[2] = b.external
    OBVIOUS
  <2> HIDE DEF q
  <2>5. \A p \in bound' : bindRows'[p[1]] = p[2]
    BY <2>1, <2>2, <2>3, <2>4
  <2>6. \A p \in bound' : \A c \in binds' : ~Touches(c, p[1], p[2])
    BY <2>1, <2>4 DEF KeptInv, Touches
  <2>7. privacy # None => \A p \in bound' : p[1] # privacy.user
    BY <2>1, <2>4 DEF KeptInv
  <2> QED BY <2>1, <2>5, <2>6, <2>7 DEF KeptInv, Touches
<1>4. CASE BindFails(b)
  BY <1>4 DEF BindFails, database, jobs, KeptInv, Touches
<1> QED BY <1>2, <1>3, <1>4

LEMMA AnonymizeKeeps ==
    ASSUME UsersTyped, KeptInv, NEW by, NEW u \in Users, Anonymize(by, u)
    PROVE  KeptInv'
<1> DEFINE marked(b) == IF b.official = u THEN [b EXCEPT !.alone = FALSE] ELSE b
<1>1. /\ binds' = {marked(b) : b \in binds}
      /\ bound' = {b \in bound : b[1] # u} /\ bindRows' = bindRows
  BY DEF Anonymize, database
<1>2. privacy'.user = u
  BY DEF Anonymize
<1>3. \A b \in binds : b \in Binding
  BY DEF UsersTyped, TypedBinds
<1>4. \A b \in binds : /\ marked(b).official = b.official /\ marked(b).external = b.external
                       /\ marked(b).alone => b.alone /\ b.official # u
  BY <1>3 DEF Binding
<1> HIDE DEF marked
<1>5. \A p \in bound' : \A b \in binds' : ~Touches(b, p[1], p[2])
  BY <1>1, <1>4 DEF KeptInv, Touches
<1>6. ASSUME NEW b \in binds', NEW c \in binds', b.alone, c # b
      PROVE  ~Touches(c, b.official, b.external)
  <2>1. PICK d \in binds : b = marked(d)
    BY <1>1
  <2>2. PICK e \in binds : c = marked(e)
    BY <1>1
  <2> QED BY <1>4, <1>6, <2>1, <2>2 DEF KeptInv, Touches
<1>7. \A b \in binds' : b.alone => b.official # u
  BY <1>1, <1>4
<1> QED BY <1>1, <1>2, <1>5, <1>6, <1>7 DEF KeptInv, Touches

LEMMA KeptInvNext == UsersTyped /\ KeptInv /\ [UsersNext]_usersVars => KeptInv'
<1> SUFFICES ASSUME UsersTyped, KeptInv, [UsersNext]_usersVars PROVE KeptInv'
  OBVIOUS
<1>1. CASE UNCHANGED usersVars
  BY <1>1 DEF usersVars, numbers, database, jobs, history, KeptInv, Touches
<1>2. CASE UsersNext
  <2>0. UsersStep
    BY <1>2, UsersSteps
  <2>1. ASSUME NEW t \in Users, Show(t) PROVE KeptInv'
    BY <2>1, KeptQuiet, StirsUser DEF Show, numbers, database
  <2>2. ASSUME NEW u \in Users, ProfileWrite(u) PROVE KeptInv'
    BY <2>2, KeptQuiet, StirsUser DEF ProfileWrite, ProfileFrame, numbers, database
  <2>3. ASSUME NEW w, NEW c, putAlias(w, c) PROVE KeptInv'
    BY <2>3, KeptQuiet DEF putAlias, numbers, database, jobs, history
  <2>4. CASE Land \/ WriteFails
    BY <2>4, KeptQuiet DEF Land, WriteFails, numbers, database, jobs, history
  <2>5. CASE AnonymizeTable
    <3>1. privacy \in Anonymizing /\ privacy # None
      BY <2>5 DEF AnonymizeTable, UsersTyped, TypedJobs, Optional
    <3>2. privacy'.user = privacy.user
      BY <2>5, <3>1 DEF AnonymizeTable, Anonymizing
    <3>3. \A p \in bound : bindRows'[p[1]] = p[2]
      <4>1. TAKE p \in bound
      <4>2. bindRows[p[1]] = p[2] /\ p[1] # privacy.user /\ p[1] \in Officials
        BY <3>1 DEF KeptInv, UsersTyped, TypedHistory
      <4> QED BY <2>5, <4>2 DEF AnonymizeTable, UsersTyped, TypedNumbers, Numbering
    <3> QED BY <2>5, <3>1, <3>2, <3>3 DEF AnonymizeTable, numbers, history, KeptInv, Touches
  <2>6. CASE AnonymizeReload
    <3>1. privacy \in Anonymizing /\ privacy # None
      BY <2>6 DEF AnonymizeReload, UsersTyped, TypedJobs, Optional
    <3>2. privacy'.user = privacy.user
      BY <2>6, <3>1 DEF AnonymizeReload, Anonymizing
    <3> QED BY <2>6, <3>1, <3>2, KeptQuiet DEF AnonymizeReload, database, history
  <2>7. CASE AnonymizeAnswer \/ AnonymizeFails
    BY <2>7, KeptQuiet DEF AnonymizeAnswer, AnonymizeFails, numbers, database
  <2>8. ASSUME NEW by, Migrate(by) PROVE KeptInv'
    <3>1. privacy # None => privacy \in Anonymizing
      BY DEF UsersTyped, TypedJobs, Optional
    <3>2. privacy' = None \/ (privacy # None /\ privacy'.user = privacy.user)
      BY <2>8, <3>1 DEF Migrate, Anonymizing
    <3> QED BY <2>8, <3>2, KeptQuiet DEF Migrate, numbers, database, history
  <2>9. CASE Backup \/ MigrateProfile \/ MigrateCode \/ MigrateReload \/ MigrateFails
    BY <2>9, KeptQuiet DEF Backup, MigrateProfile, MigrateCode, MigrateReload, MigrateFails, numbers,
       database, history
  <2>10. CASE UsersRestart
    BY <2>10 DEF UsersRestart, database, KeptInv
  <2> QED
    BY <2>0, <2>1, <2>2, <2>3, <2>4, <2>5, <2>6, <2>7, <2>8, <2>9, <2>10, BindKeeps, BindStepsKeep,
       AnonymizeKeeps DEF UsersStep
<1> QED BY <1>1, <1>2

(* A binding answered with success while nothing else touched its two sides *)
(* keeps its row: what is anonymised, fails or is bound around it rewrites  *)
(* other rows only.                                                        *)
THEOREM BindingsStay == UsersSpec => []BoundIsKept
<1>1. UsersInit => KeptInv
  BY DEF UsersInit, KeptInv
<1>2. KeptInv => BoundIsKept
  BY DEF KeptInv, BoundIsKept
<1> QED BY <1>1, <1>2, UsersStayTyped, KeptInvNext, PTL DEF UsersSpec

-----------------------------------------------------------------------------
(* Users: anonymising. *)

(* Nothing under way would write the user's profile or binding, but for a  *)
(* migration that scanned the profile.                                     *)
Clear(u) ==
    /\ \A i \in 1 .. Len(queue) : queue[i].table = "profiles" => queue[i].key # u
    /\ \A b \in binds : b.official # u

(* What is gone of a user, each part unless it was put back. *)
NumberGone(u)  == <<u, "numbers">> \notin revived => ~Known(u)
RowGone(u)     == <<u, "profiles">> \notin revived => profileRows[u] = None
ProfileGone(u) == <<u, "profiles">> \notin revived => profileRows[u] = None /\ profiles[u] = None

(* The tables are rewritten in order, and only then the stores reloaded. *)
JobShape ==
    privacy # None => /\ privacy.todo \in {tables, <<"profiles", "codes">>, <<"codes">>, <<>>}
                      /\ privacy.todo # <<>> => privacy.left = stores

(* What an anonymisation that nothing crosses has done so far. *)
RewrittenSoFar ==
    LET u == privacy.user
    IN  /\ Clear(u)
        /\ privacy.todo # tables => bindRows[u] = None
        /\ privacy.todo \in {<<"codes">>, <<>>} => RowGone(u)
        /\ privacy.todo = <<>> /\ "profiles" \notin privacy.left => ProfileGone(u)
        /\ privacy.todo = <<>> /\ "numbers" \notin privacy.left => NumberGone(u)

ForgetInv ==
    /\ JobShape
    /\ \A u \in forgotten : Clear(u) /\ bindRows[u] = None /\ NumberGone(u) /\ ProfileGone(u)
    /\ privacy # None /\ privacy.alone => RewrittenSoFar

(* A step leaves of u what was gone gone. *)
Leaves(u) ==
    Clear(u) =>
        /\ Clear(u)'
        /\ bindRows'[u] \in {None, bindRows[u]}
        /\ RowGone(u) => RowGone(u)'
        /\ ProfileGone(u) => ProfileGone(u)'
        /\ bindRows[u] = None /\ NumberGone(u) => NumberGone(u)'

LEMMA RewrittenNext ==
    ASSUME NEW u, u = privacy'.user, tables' = tables,
           Clear(u)',
           privacy'.todo # tables => bindRows'[u] = None,
           privacy'.todo \in {<<"codes">>, <<>>} => RowGone(u)',
           privacy'.todo = <<>> /\ "profiles" \notin privacy'.left => ProfileGone(u)',
           privacy'.todo = <<>> /\ "numbers" \notin privacy'.left => NumberGone(u)'
    PROVE  RewrittenSoFar'
BY DEF RewrittenSoFar, Clear, RowGone, ProfileGone, NumberGone, Known

(* A step by or to v, or to nobody, that leaves everybody else alone. *)
LEMMA ForgetFrame ==
    ASSUME UsersTyped, ForgetInv, NEW v, forgotten' \subseteq forgotten \ {v},
           \A u \in Users : u # v => Leaves(u),
           privacy' = None \/ /\ privacy # None
                              /\ privacy'.user = privacy.user /\ privacy'.todo = privacy.todo
                              /\ privacy'.left = privacy.left
                              /\ privacy'.alone => privacy.alone /\ privacy.user # v
    PROVE  ForgetInv'
<1>0. tables' = tables /\ stores' = stores
  BY DEF tables, stores
<1>1. JobShape'
  BY <1>0 DEF ForgetInv, JobShape
<1>2. ASSUME NEW u \in forgotten'
      PROVE  Clear(u)' /\ bindRows'[u] = None /\ NumberGone(u)' /\ ProfileGone(u)'
  <2>1. u \in forgotten /\ u # v /\ u \in Users
    BY DEF UsersTyped, TypedHistory
  <2>2. Clear(u) /\ bindRows[u] = None /\ NumberGone(u) /\ ProfileGone(u)
    BY <2>1 DEF ForgetInv
  <2>3. Leaves(u)
    BY <2>1
  <2> HIDE DEF Clear, NumberGone, ProfileGone, RowGone
  <2> QED BY <2>2, <2>3 DEF Leaves
<1>3. ASSUME privacy' # None, privacy'.alone
      PROVE  RewrittenSoFar'
  <2>1. /\ privacy # None /\ privacy.alone /\ privacy.user # v
        /\ privacy'.user = privacy.user /\ privacy'.todo = privacy.todo /\ privacy'.left = privacy.left
    BY <1>3
  <2>2. PICK u \in Users : u = privacy.user /\ u = privacy'.user
    BY <2>1 DEF UsersTyped, TypedJobs, Optional, Anonymizing
  <2>3. /\ Clear(u)
        /\ privacy.todo # tables => bindRows[u] = None
        /\ privacy.todo \in {<<"codes">>, <<>>} => RowGone(u)
        /\ privacy.todo = <<>> /\ "profiles" \notin privacy.left => ProfileGone(u)
        /\ privacy.todo = <<>> /\ "numbers" \notin privacy.left => NumberGone(u)
    BY <2>1, <2>2 DEF ForgetInv, RewrittenSoFar
  <2>4. Leaves(u)
    BY <2>1, <2>2
  <2>5. /\ Clear(u)'
        /\ privacy'.todo # tables => bindRows'[u] = None
        /\ privacy'.todo \in {<<"codes">>, <<>>} => RowGone(u)'
        /\ privacy'.todo = <<>> /\ "profiles" \notin privacy'.left => ProfileGone(u)'
        /\ privacy'.todo = <<>> /\ "numbers" \notin privacy'.left => NumberGone(u)'
    <3>1. <<>> # tables
      BY DEF tables
    <3> QED BY <2>1, <2>3, <2>4, <3>1 DEF Leaves
  <2> QED BY <1>0, <2>2, <2>5, RewrittenNext
<1> QED BY <1>1, <1>2, <1>3 DEF ForgetInv

LEMMA StirsFrame ==
    ASSUME UsersTyped, NEW v, Stirs(v)
    PROVE  /\ forgotten' \subseteq forgotten \ {v}
           /\ privacy' = None \/ /\ privacy # None
                                 /\ privacy'.user = privacy.user /\ privacy'.todo = privacy.todo
                                 /\ privacy'.left = privacy.left
                                 /\ privacy'.alone => privacy.alone /\ privacy.user # v
<1>1. privacy # None => privacy \in Anonymizing
  BY DEF UsersTyped, TypedJobs, Optional
<1> QED BY <1>1 DEF Stirs, Anonymizing

(* The same for a step that is nobody's. *)
LEMMA ForgetFrameOfNobody ==
    ASSUME UsersTyped, ForgetInv, forgotten' = forgotten, \A u \in Users : Leaves(u),
           privacy' = None \/ privacy' = privacy
    PROVE  ForgetInv'
<1> DEFINE v == None
<1>1. forgotten' \subseteq forgotten \ {v}
  BY UsersConstants DEF UsersTyped, TypedHistory
<1>2. privacy # None => privacy.user # v
  BY UsersConstants DEF UsersTyped, TypedJobs, Optional, Anonymizing
<1>3. privacy' = None \/ /\ privacy # None
                         /\ privacy'.user = privacy.user /\ privacy'.todo = privacy.todo
                         /\ privacy'.left = privacy.left
                         /\ privacy'.alone => privacy.alone /\ privacy.user # v
  BY <1>2
<1> HIDE DEF v, Leaves
<1> QED BY <1>1, <1>3, ForgetFrame

(* What is left of u by a step that puts nobody back. *)
LEMMA LeavesBy ==
    ASSUME NEW u, Clear(u) => /\ Clear(u)'
                              /\ bindRows'[u] \in {None, bindRows[u]}
                              /\ profileRows'[u] \in {None, profileRows[u]},
           Known(u)' => Known(u), profiles'[u] = profiles[u], revived' = revived
    PROVE  Leaves(u)
<1> HIDE DEF Clear, Known
<1> QED BY DEF Leaves, RowGone, ProfileGone, NumberGone

LEMMA KnownSame ==
    ASSUME NEW u, UNCHANGED <<numberOf, ownerOf>>
    PROVE  Known(u)' => Known(u)
BY DEF Known

LEMMA BindForgets ==
    ASSUME UsersTyped, ForgetInv, NEW o \in Officials, NEW x \in Externals, bindUser(o, x)
    PROVE  ForgetInv'
<1>1. \A b \in binds : b \in Binding
  BY DEF UsersTyped, TypedBinds
<1>2. \A c \in binds' : c.official = o \/ \E b \in binds : c.official = b.official
  BY <1>1 DEF bindUser, Binding
<1>3. /\ queue' = queue /\ bindRows' = bindRows /\ revived' = revived
      /\ profileRows' = profileRows /\ profiles' = profiles /\ Stirs(o)
  BY DEF bindUser, database
<1>4. \A u \in Users : u # o /\ Clear(u) => Clear(u)'
  BY <1>2, <1>3 DEF Clear
<1>5. ASSUME NEW u \in Users, u # o PROVE Known(u)' => Known(u)
  <2>1. u \in Officials /\ u # None
    BY UsersConstants DEF Officials
  <2>2. numberOf' = Bound(o, x) /\ ownerOf' = Owned(o, x)
    BY DEF bindUser
  <2>3. numberOf'[u] # None => numberOf[u] # None
    BY <1>5, <2>1, <2>2 DEF Bound, Released, UsersTyped, TypedNumbers, Numbering
  <2>4. \A y \in Externals : ownerOf'[y] = u => ownerOf[y] = u
    BY <1>5, <2>1, <2>2 DEF Owned, UsersTyped, TypedNumbers, Owners
  <2> QED BY <2>3, <2>4 DEF Known
<1>6. ASSUME NEW u \in Users, u # o PROVE Leaves(u)
  BY <1>3, <1>4, <1>5, <1>6, LeavesBy
<1> HIDE DEF Leaves
<1> QED BY <1>3, <1>6, StirsFrame, ForgetFrame

LEMMA BindStepsForget ==
    ASSUME UsersTyped, ForgetInv, NEW b \in binds, Delete(b) \/ Insert(b) \/ BindFails(b)
    PROVE  ForgetInv'
<1>1. b \in Binding /\ bindRows \in Numbering
  BY DEF UsersTyped, TypedNumbers, TypedBinds
<1>2. \A c \in binds' : c.official = b.official \/ c \in binds
  BY <1>1 DEF Delete, Insert, BindFails, Binding
<1>3. /\ queue' = queue /\ privacy' = privacy /\ forgotten' = forgotten
      /\ profileRows' = profileRows /\ profiles' = profiles
  BY DEF Delete, Insert, BindFails, database, jobs, history
<1>4. \A u \in Users : Clear(u) => Clear(u)'
  BY <1>2, <1>3 DEF Clear
<1>5. ASSUME NEW u \in Users, Clear(u) PROVE bindRows'[u] \in {None, bindRows[u]}
  <2>1. u \in Officials /\ u # b.official
    BY <1>5 DEF Officials, Clear
  <2> QED BY <1>1, <2>1 DEF Delete, Insert, BindFails, database, Numbering
<1>6. ASSUME NEW u \in Users, Delete(b) \/ Insert(b) PROVE Leaves(u)
  <2>1. numberOf' = numberOf /\ ownerOf' = ownerOf /\ revived' = revived
    BY <1>6 DEF Delete, Insert, history
  <2> QED BY <1>3, <1>4, <1>5, <2>1, KnownSame, LeavesBy
<1>7. ASSUME NEW u \in Users, BindFails(b) PROVE Leaves(u)
  <2>1. /\ <<u, "numbers">> \notin revived' => <<u, "numbers">> \notin revived /\ (Known(u) \/ ~Known(u)')
        /\ <<u, "profiles">> \in revived' <=> <<u, "profiles">> \in revived
    <3>1. revived' = revived \cup {<<w, "numbers">> : w \in {v \in Users : ~Known(v) /\ Known(v)'}}
      BY <1>7 DEF BindFails
    <3> HIDE DEF Known
    <3> QED BY <3>1
  <2> HIDE DEF Known, Clear
  <2> QED BY <1>3, <1>4, <1>5, <2>1 DEF Leaves, NumberGone, RowGone, ProfileGone
<1> HIDE DEF Leaves
<1> QED BY <1>3, <1>6, <1>7, ForgetFrameOfNobody

LEMMA ShowForgets ==
    ASSUME UsersTyped, ForgetInv, NEW t \in Users, Show(t)
    PROVE  ForgetInv'
<1>1. \A i \in 1 .. Len(queue') : queue'[i].table = "profiles" => i \in 1 .. Len(queue) /\ queue'[i] = queue[i]
  <2>1. queue \in Seq(Item)
    BY DEF UsersTyped, TypedQueue
  <2>2. ASSUME NEW c \in Codes, queue' = queue \o <<[table |-> "codes", key |-> c, value |-> t]>>
        PROVE  \A i \in 1 .. Len(queue') : queue'[i].table = "profiles" =>
                   i \in 1 .. Len(queue) /\ queue'[i] = queue[i]
    <3> DEFINE w == [table |-> "codes", key |-> c, value |-> t]
    <3>1. w \in Item /\ w.table # "profiles"
      BY DEF Item
    <3>2. queue' = Append(queue, w)
      BY <2>1, <2>2
    <3> HIDE DEF w
    <3> QED BY <2>1, <3>1, <3>2
  <2> QED BY <2>1, <2>2 DEF Show, codeFor, Enqueue
<1>2. /\ bindRows' = bindRows /\ binds' = binds /\ profileRows' = profileRows /\ profiles' = profiles
      /\ numberOf' = numberOf /\ ownerOf' = ownerOf /\ revived' = revived /\ Stirs(t)
  BY DEF Show, numbers, database
<1>3. \A u \in Users : Clear(u) => Clear(u)'
  BY <1>1, <1>2 DEF Clear
<1>4. \A u \in Users : Leaves(u)
  BY <1>2, <1>3, KnownSame, LeavesBy
<1> HIDE DEF Leaves
<1> QED BY <1>2, <1>4, StirsFrame, ForgetFrame

LEMMA ProfileForgets ==
    ASSUME UsersTyped, ForgetInv, NEW v \in Users, ProfileWrite(v)
    PROVE  ForgetInv'
<1>1. PICK p \in Optional(Profiles), ws \in Seq(Saves) :
          /\ \A i \in 1 .. Len(ws) : ws[i].key = v
          /\ profiles' = [profiles EXCEPT ![v] = p] /\ queue' = queue \o ws /\ ProfileFrame(v)
  BY DEF ProfileWrite
<1>2. queue \in Seq(Item) /\ ws \in Seq(Item)
  BY SeqMonotonic DEF Item, UsersTyped, TypedQueue
<1>3. \A i \in 1 .. Len(queue') : \/ i \in 1 .. Len(queue) /\ queue'[i] = queue[i]
                                  \/ queue'[i].key = v
  <2>1. /\ Len(queue') = Len(queue) + Len(ws)
        /\ \A i \in 1 .. Len(queue) + Len(ws) : queue'[i] = IF i <= Len(queue) THEN queue[i] ELSE ws[i - Len(queue)]
    BY <1>1, <1>2, ConcatProperties
  <2>2. Len(queue) \in Nat /\ Len(ws) \in Nat
    BY <1>2
  <2> QED BY <1>1, <2>1, <2>2
<1>4. /\ bindRows' = bindRows /\ binds' = binds /\ profileRows' = profileRows
      /\ numberOf' = numberOf /\ ownerOf' = ownerOf /\ revived' = revived /\ Stirs(v)
  BY <1>1 DEF ProfileFrame, numbers, database
<1>5. \A u \in Users : u # v /\ Clear(u) => Clear(u)'
  BY <1>3, <1>4 DEF Clear
<1>6. \A u \in Users : u # v => profiles'[u] = profiles[u]
  BY <1>1 DEF UsersTyped, TypedMaps, ProfileMap
<1>7. \A u \in Users : u # v => Leaves(u)
  BY <1>4, <1>5, <1>6, KnownSame, LeavesBy
<1> HIDE DEF Leaves
<1> QED BY <1>4, <1>7, StirsFrame, ForgetFrame

LEMMA AliasForgets ==
    ASSUME UsersTyped, ForgetInv, NEW w \in Words, NEW c \in Optional(Classes), putAlias(w, c)
    PROVE  ForgetInv'
<1>1. \A i \in 1 .. Len(queue') : queue'[i].table = "profiles" => i \in 1 .. Len(queue) /\ queue'[i] = queue[i]
  <2>1. queue \in Seq(Item)
    BY DEF UsersTyped, TypedQueue
  <2> DEFINE a == [table |-> "aliases", key |-> w, value |-> c]
  <2>2. a \in Item /\ a.table # "profiles"
    BY DEF Item
  <2>3. queue' = Append(queue, a)
    BY <2>1 DEF putAlias, Enqueue
  <2> HIDE DEF a
  <2> QED BY <2>1, <2>2, <2>3
<1>2. /\ bindRows' = bindRows /\ binds' = binds /\ privacy' = privacy
      /\ numberOf' = numberOf /\ ownerOf' = ownerOf /\ revived' = revived
      /\ profileRows' = profileRows /\ profiles' = profiles /\ forgotten' = forgotten
  BY DEF putAlias, numbers, database, jobs, history
<1>3. \A u \in Users : Clear(u) => Clear(u)'
  BY <1>1, <1>2 DEF Clear
<1>4. \A u \in Users : Leaves(u)
  BY <1>2, <1>3, KnownSame, LeavesBy
<1> HIDE DEF Leaves
<1> QED BY <1>2, <1>4, ForgetFrameOfNobody

LEMMA WritesForget ==
    ASSUME UsersTyped, ForgetInv, Land \/ WriteFails
    PROVE  ForgetInv'
<1> DEFINE w == Head(queue)
<1>0. queue # <<>>
  BY DEF Land, WriteFails
<1>1. queue' = Tail(queue)
  BY DEF Land, WriteFails
<1>2. /\ bindRows' = bindRows /\ binds' = binds /\ privacy' = privacy
      /\ numberOf' = numberOf /\ ownerOf' = ownerOf /\ revived' = revived
      /\ profiles' = profiles /\ forgotten' = forgotten
  BY DEF Land, WriteFails, numbers, database, jobs, history
<1>3. \A u \in Users : Clear(u) => Clear(u)'
  BY <1>0, <1>1, <1>2, HeadOfQueue DEF Clear
<1>4. ASSUME NEW u \in Users, Clear(u) PROVE profileRows'[u] \in {None, profileRows[u]}
  <2>1. w.table = "profiles" => w.key # u
    BY <1>0, <1>4, HeadOfQueue DEF Clear
  <2>2. profileRows' = profileRows \/ (w.table = "profiles" /\ profileRows' = [profileRows EXCEPT ![w.key] = w.value])
    <3>1. CASE Land
      BY <3>1 DEF Land
    <3>2. CASE WriteFails
      BY <3>2 DEF WriteFails, database
    <3> QED BY <3>1, <3>2
  <2> HIDE DEF w
  <2> QED BY <2>1, <2>2 DEF UsersTyped, TypedMaps, ProfileMap
<1>5. \A u \in Users : Leaves(u)
  BY <1>2, <1>3, <1>4, KnownSame, LeavesBy
<1> HIDE DEF Leaves
<1> QED BY <1>2, <1>5, ForgetFrameOfNobody

(* Reading a store anew brings nobody back, and drops whom its table has   *)
(* lost.                                                                   *)
LEMMA ReadLeaves ==
    ASSUME UsersTyped, NEW read \in SUBSET {"profiles", "codes", "numbers"}, NEW u \in Users,
           revived' = Still(read),
           IF "profiles" \in read THEN loadProfiles ELSE profiles' = profiles,
           IF "numbers" \in read THEN loadNumbers ELSE numberOf' = numberOf /\ ownerOf' = ownerOf,
           bindRows' = bindRows, profileRows' = profileRows, Clear(u) => Clear(u)'
    PROVE  /\ Leaves(u)
           /\ "profiles" \in read /\ RowGone(u) => ProfileGone(u)'
           /\ "numbers" \in read /\ bindRows[u] = None => NumberGone(u)'
<1>1. /\ <<u, "numbers">> \in revived' <=> <<u, "numbers">> \in revived /\ "numbers" \notin read
      /\ <<u, "profiles">> \in revived' <=>
             <<u, "profiles">> \in revived /\ ("profiles" \in read => profileRows[u] # None)
  BY DEF Still
<1>2. "numbers" \in read /\ bindRows[u] = None => ~Known(u)'
  <2> SUFFICES ASSUME loadNumbers, bindRows[u] = None PROVE ~Known(u)'
    OBVIOUS
  <2>1. u \in Officials /\ u # None
    BY UsersConstants DEF Officials
  <2>2. \A y \in Externals : ownerOf'[y] # u
    <3> SUFFICES ASSUME NEW y \in Externals PROVE ownerOf'[y] # u
      OBVIOUS
    <3>1. y # None
      BY UsersConstants DEF Externals
    <3>2. CASE \E o \in Officials : bindRows[o] = y
      <4> DEFINE c == CHOOSE o \in Officials : bindRows[o] = y
      <4>1. bindRows[c] = y
        BY <3>2
      <4>2. ownerOf'[y] = c
        BY <3>2 DEF loadNumbers
      <4> QED BY <3>1, <4>1, <4>2
    <3>3. CASE ~\E o \in Officials : bindRows[o] = y
      BY <2>1, <3>3 DEF loadNumbers
    <3> QED BY <3>2, <3>3
  <2> QED BY <2>2 DEF Known, loadNumbers
<1>3. "profiles" \in read => profiles'[u] = profileRows[u]
  BY DEF loadProfiles
<1>4. "numbers" \notin read => (Known(u)' => Known(u))
  BY KnownSame
<1> HIDE DEF Known, Clear
<1> QED BY <1>1, <1>2, <1>3, <1>4 DEF Leaves, RowGone, ProfileGone, NumberGone

LEMMA MigratingForgets ==
    ASSUME UsersTyped, ForgetInv, Backup \/ MigrateProfile \/ MigrateCode \/ MigrateReload \/ MigrateFails
    PROVE  ForgetInv'
<1>0. migration # None /\ migration \in Migrating
  BY DEF Backup, MigrateProfile, MigrateCode, MigrateReload, MigrateFails, UsersTyped, TypedJobs, Optional
<1>1. /\ queue' = queue /\ bindRows' = bindRows /\ binds' = binds /\ privacy' = privacy
      /\ forgotten' = forgotten
  BY DEF Backup, MigrateProfile, MigrateCode, MigrateReload, MigrateFails, numbers, database, history
<1>2. \A u \in Users : Clear(u) => Clear(u)'
  BY <1>1 DEF Clear
<1>3. ASSUME NEW u \in Users, MigrateReload PROVE Leaves(u)
  <2>1. PICK s \in migration.left : reload(s)
    BY <1>3 DEF MigrateReload
  <2>2. s = "profiles" \/ s = "codes"
    BY <1>0 DEF Migrating
  <2>3. /\ revived' = Still({s}) /\ profileRows' = profileRows
        /\ IF "profiles" \in {s} THEN loadProfiles ELSE profiles' = profiles
        /\ "numbers" \notin {s} /\ numberOf' = numberOf /\ ownerOf' = ownerOf
    BY <1>3, <2>1, <2>2 DEF MigrateReload, reload, database
  <2> QED BY <1>1, <1>2, <2>2, <2>3, ReadLeaves
<1>4. ASSUME NEW u \in Users, MigrateProfile PROVE Leaves(u)
  <2>1. PICK w \in migration.rows :
            /\ profileRows' = [profileRows EXCEPT ![w.key] = w.value]
            /\ revived' = IF profileRows[w.key] = None THEN revived \cup {<<w.key, "profiles">>} ELSE revived
    BY <1>4 DEF MigrateProfile
  <2>2. profiles' = profiles /\ numberOf' = numberOf /\ ownerOf' = ownerOf
    BY <1>4 DEF MigrateProfile, numbers
  <2>3. <<u, "numbers">> \in revived' <=> <<u, "numbers">> \in revived
    BY <2>1
  <2>4. RowGone(u) => RowGone(u)'
    BY <2>1 DEF RowGone, UsersTyped, TypedMaps, ProfileMap
  <2>5. ProfileGone(u) => ProfileGone(u)'
    BY <2>1, <2>2 DEF ProfileGone, UsersTyped, TypedMaps, ProfileMap
  <2>6. NumberGone(u) => NumberGone(u)'
    BY <2>2, <2>3, KnownSame DEF NumberGone
  <2> HIDE DEF Clear, RowGone, ProfileGone, NumberGone
  <2> QED BY <1>1, <1>2, <2>4, <2>5, <2>6 DEF Leaves
<1>5. ASSUME NEW u \in Users, Backup \/ MigrateCode \/ MigrateFails PROVE Leaves(u)
  <2>1. /\ profileRows' = profileRows /\ profiles' = profiles /\ revived' = revived
        /\ numberOf' = numberOf /\ ownerOf' = ownerOf
    BY <1>5 DEF Backup, MigrateCode, MigrateFails, numbers, database, history
  <2> QED BY <1>1, <1>2, <2>1, KnownSame, LeavesBy
<1> HIDE DEF Leaves
<1> QED BY <1>1, <1>3, <1>4, <1>5, ForgetFrameOfNobody

LEMMA StartForgets ==
    ASSUME UsersTyped, ForgetInv, UsersRestart
    PROVE  ForgetInv'
<1>1. \A u \in Users : Clear(u)'
  BY DEF UsersRestart, Clear
<1>2. /\ bindRows' = bindRows /\ profileRows' = profileRows /\ loadProfiles /\ loadNumbers /\ privacy' = None
      /\ forgotten' = forgotten /\ revived' = Still({"profiles", "numbers"})
  BY DEF UsersRestart, database
<1>3. \A u \in Users : Leaves(u)
  BY <1>1, <1>2, ReadLeaves
<1> HIDE DEF Leaves
<1> QED BY <1>2, <1>3, ForgetFrameOfNobody

LEMMA AnonymizeForgets ==
    ASSUME UsersTyped, ForgetInv, NEW by, NEW u \in Users, Anonymize(by, u)
    PROVE  ForgetInv'
<1>1. privacy' = [user |-> u, todo |-> tables, left |-> stores, alone |-> Undisturbed(u)]
  BY DEF Anonymize
<1>2. /\ queue' = queue /\ bindRows' = bindRows /\ profileRows' = profileRows /\ profiles' = profiles
      /\ numberOf' = numberOf /\ ownerOf' = ownerOf /\ revived' = revived /\ forgotten' = forgotten
  BY DEF Anonymize, database
<1>3. \A b \in binds : b \in Binding
  BY DEF UsersTyped, TypedBinds
<1>4. \A c \in binds' : \E b \in binds : c.official = b.official
  BY <1>3 DEF Anonymize, Binding
<1>5. \A v \in Users : Clear(v) => Clear(v)'
  BY <1>2, <1>4 DEF Clear
<1>6. /\ privacy'.user = u /\ privacy'.todo = tables /\ privacy'.left = stores
      /\ privacy'.alone => Undisturbed(u)
  BY <1>1
<1>7. tables' = tables /\ stores' = stores /\ tables \notin {<<"codes">>, <<>>}
  BY DEF tables, stores
<1>8. JobShape'
  BY <1>6, <1>7 DEF JobShape
<1>9. privacy'.alone => Clear(u)
  <2>1. queue \in Seq(Item)
    BY DEF UsersTyped, TypedQueue
  <2>2. DOMAIN queue = 1 .. Len(queue)
    BY <2>1
  <2> QED BY <1>6, <2>2 DEF Undisturbed, Clear
<1>10. privacy'.alone => RewrittenSoFar'
  <2> HIDE DEF Clear
  <2> QED BY <1>5, <1>6, <1>7, <1>9, RewrittenNext
<1>11. ASSUME NEW v \in forgotten'
       PROVE  Clear(v)' /\ bindRows'[v] = None /\ NumberGone(v)' /\ ProfileGone(v)'
  <2>1. Clear(v) /\ bindRows[v] = None /\ NumberGone(v) /\ ProfileGone(v) /\ v \in Users
    BY <1>2 DEF ForgetInv, UsersTyped, TypedHistory
  <2>2. Leaves(v)
    BY <1>2, <1>5, <2>1, KnownSame, LeavesBy
  <2> HIDE DEF Clear, RowGone, ProfileGone, NumberGone
  <2> QED BY <1>2, <2>1, <2>2 DEF Leaves
<1> QED BY <1>8, <1>10, <1>11 DEF ForgetInv

LEMMA TablesLeft ==
    ASSUME NEW t \in {tables, <<"profiles", "codes">>, <<"codes">>}
    PROVE  /\ t # <<>>
           /\ Tail(t) \in {tables, <<"profiles", "codes">>, <<"codes">>, <<>>} /\ Tail(t) # tables
           /\ t = tables => Head(t) = "bindings" /\ Tail(t) = <<"profiles", "codes">>
           /\ t = <<"profiles", "codes">> => Head(t) = "profiles" /\ Tail(t) = <<"codes">>
           /\ t = <<"codes">> => Head(t) = "codes" /\ Tail(t) = <<>>
           /\ tables # <<"profiles", "codes">> /\ tables # <<"codes">>
           /\ <<"profiles", "codes">> \notin {<<"codes">>, <<>>}
<1>1. CASE t = tables
  BY <1>1 DEF tables
<1>2. CASE t = <<"profiles", "codes">>
  BY <1>2 DEF tables
<1>3. CASE t = <<"codes">>
  BY <1>3 DEF tables
<1> QED BY <1>1, <1>2, <1>3

LEMMA TableForgets ==
    ASSUME UsersTyped, ForgetInv, AnonymizeTable
    PROVE  ForgetInv'
<1> DEFINE t == Head(privacy.todo)
<1>14. PICK u \in Users : u = privacy.user
  BY DEF AnonymizeTable, UsersTyped, TypedJobs, Optional, Anonymizing
<1>0. privacy # None /\ privacy \in Anonymizing /\ privacy.todo # <<>> /\ u \in Officials
  BY DEF AnonymizeTable, UsersTyped, TypedJobs, Optional, Anonymizing, Officials
<1>1. /\ privacy'.user = u /\ privacy'.todo = Tail(privacy.todo)
      /\ privacy'.left = privacy.left /\ privacy'.alone = privacy.alone
  BY <1>0, <1>14 DEF AnonymizeTable, Anonymizing
<1>2. /\ queue' = queue /\ binds' = binds /\ profiles' = profiles /\ forgotten' = forgotten
      /\ numberOf' = numberOf /\ ownerOf' = ownerOf /\ revived' = revived
  BY DEF AnonymizeTable, numbers, history
<1>3. /\ bindRows' = IF t = "bindings" THEN [bindRows EXCEPT ![u] = None] ELSE bindRows
      /\ profileRows' = IF t = "profiles" THEN [profileRows EXCEPT ![u] = None] ELSE profileRows
  BY <1>14 DEF AnonymizeTable
<1>4. privacy.todo \in {tables, <<"profiles", "codes">>, <<"codes">>} /\ privacy.left = stores
  BY <1>0 DEF ForgetInv, JobShape
<1>5. "profiles" \in stores /\ "numbers" \in stores /\ tables' = tables /\ stores' = stores
  BY DEF stores, tables
<1>6. \A v \in Users : Clear(v) => Clear(v)'
  BY <1>2 DEF Clear
<1>7. \A v \in Users : /\ v \in Officials
                       /\ bindRows'[v] \in {None, bindRows[v]}
                       /\ profileRows'[v] \in {None, profileRows[v]}
  BY <1>3 DEF Officials, UsersTyped, TypedNumbers, TypedMaps, Numbering, ProfileMap
<1>8. /\ t = "bindings" => bindRows'[u] = None
      /\ t = "profiles" => profileRows'[u] = None
  BY <1>0, <1>3 DEF UsersTyped, TypedNumbers, TypedMaps, Numbering, ProfileMap
<1>15. \A v \in Users : Leaves(v)
  BY <1>2, <1>6, <1>7, KnownSame, LeavesBy
<1> HIDE DEF t
<1>9. JobShape'
  <2>1. Tail(privacy.todo) \in {tables, <<"profiles", "codes">>, <<"codes">>, <<>>}
    BY <1>4, TablesLeft
  <2> QED BY <1>1, <1>4, <1>5, <2>1 DEF JobShape
<1>10. ASSUME NEW v \in forgotten'
       PROVE  Clear(v)' /\ bindRows'[v] = None /\ NumberGone(v)' /\ ProfileGone(v)'
  <2>1. Clear(v) /\ bindRows[v] = None /\ NumberGone(v) /\ ProfileGone(v) /\ v \in Users
    BY <1>2 DEF ForgetInv, UsersTyped, TypedHistory
  <2>2. Leaves(v)
    BY <1>15, <2>1
  <2> HIDE DEF Clear, RowGone, ProfileGone, NumberGone
  <2> QED BY <2>1, <2>2 DEF Leaves
<1>11. ASSUME privacy'.alone PROVE RewrittenSoFar'
  <2>1. /\ Clear(u)
        /\ privacy.todo # tables => bindRows[u] = None
        /\ privacy.todo \in {<<"codes">>, <<>>} => RowGone(u)
    BY <1>0, <1>1, <1>11, <1>14 DEF ForgetInv, RewrittenSoFar
  <2>2. Leaves(u)
    BY <1>15
  <2>3. Clear(u)'
    BY <1>0, <1>6, <2>1, <1>14
  <2>4. bindRows'[u] = None
    <3>1. CASE privacy.todo = tables
      BY <1>8, <3>1, TablesLeft DEF t
    <3>2. CASE privacy.todo # tables
      BY <1>0, <1>7, <2>1, <3>2, <1>14
    <3> QED BY <3>1, <3>2
  <2>5. Tail(privacy.todo) \in {<<"codes">>, <<>>} => RowGone(u)'
    <3>1. CASE privacy.todo = tables
      BY <3>1, TablesLeft
    <3>2. CASE privacy.todo = <<"profiles", "codes">>
      BY <1>8, <3>2, TablesLeft DEF t, RowGone
    <3>3. CASE privacy.todo = <<"codes">>
      BY <2>1, <2>2, <3>3 DEF Leaves
    <3> QED BY <1>4, <3>1, <3>2, <3>3
  <2> HIDE DEF Clear, Leaves, RowGone, ProfileGone, NumberGone
  <2> QED BY <1>1, <1>4, <1>5, <2>3, <2>4, <2>5, RewrittenNext
<1> QED BY <1>9, <1>10, <1>11 DEF ForgetInv

LEMMA ReloadForgets ==
    ASSUME UsersTyped, ForgetInv, AnonymizeReload
    PROVE  ForgetInv'
<1>14. PICK u \in Users : u = privacy.user
  BY DEF AnonymizeReload, UsersTyped, TypedJobs, Optional, Anonymizing
<1>0. privacy # None /\ privacy \in Anonymizing /\ privacy.todo = <<>>
  BY DEF AnonymizeReload, UsersTyped, TypedJobs, Optional, Anonymizing
<1>1. PICK s \in privacy.left : reload(s) /\ privacy' = [privacy EXCEPT !.left = @ \ {s}]
  BY DEF AnonymizeReload
<1>2. /\ privacy'.user = u /\ privacy'.todo = <<>>
      /\ privacy'.left = privacy.left \ {s} /\ privacy'.alone = privacy.alone
  BY <1>0, <1>1, <1>14 DEF Anonymizing
<1>3. /\ queue' = queue /\ binds' = binds /\ forgotten' = forgotten
      /\ bindRows' = bindRows /\ profileRows' = profileRows
  BY DEF AnonymizeReload, database
<1>4. s \in {"profiles", "codes", "numbers"}
  BY <1>0 DEF Anonymizing
<1>5. \A v \in Users : Clear(v) => Clear(v)'
  BY <1>3 DEF Clear
<1>6. <<>> # tables /\ tables' = tables /\ stores' = stores
  BY DEF tables, stores
<1>7. JobShape'
  BY <1>2, <1>6 DEF JobShape
<1>15. ASSUME NEW v \in Users
       PROVE  /\ Leaves(v)
              /\ "profiles" = s /\ RowGone(v) => ProfileGone(v)'
              /\ "numbers" = s /\ bindRows[v] = None => NumberGone(v)'
  <2> DEFINE read == {s}
  <2>1. /\ revived' = Still(read)
        /\ IF "profiles" \in read THEN loadProfiles ELSE profiles' = profiles
        /\ IF "numbers" \in read THEN loadNumbers ELSE numberOf' = numberOf /\ ownerOf' = ownerOf
    BY <1>1, <1>4 DEF reload
  <2>2. read \in SUBSET {"profiles", "codes", "numbers"} /\ (s \in read)
    BY <1>4
  <2>3. \A r : r = s => r \in read
    OBVIOUS
  <2> HIDE DEF read, Leaves
  <2> QED BY <1>3, <1>5, <2>1, <2>2, <2>3, ReadLeaves
<1>8. ASSUME NEW v \in forgotten'
       PROVE  Clear(v)' /\ bindRows'[v] = None /\ NumberGone(v)' /\ ProfileGone(v)'
  <2>1. Clear(v) /\ bindRows[v] = None /\ NumberGone(v) /\ ProfileGone(v) /\ v \in Users
    BY <1>3 DEF ForgetInv, UsersTyped, TypedHistory
  <2>2. Leaves(v)
    BY <1>15, <2>1
  <2> HIDE DEF Clear, RowGone, ProfileGone, NumberGone
  <2> QED BY <1>3, <2>1, <2>2 DEF Leaves
<1>9. ASSUME privacy'.alone PROVE RewrittenSoFar'
  <2>1. /\ Clear(u) /\ bindRows[u] = None /\ RowGone(u)
        /\ "profiles" \notin privacy.left => ProfileGone(u)
        /\ "numbers" \notin privacy.left => NumberGone(u)
    BY <1>0, <1>2, <1>6, <1>9, <1>14 DEF ForgetInv, RewrittenSoFar
  <2>2. /\ Leaves(u)
        /\ "profiles" = s /\ RowGone(u) => ProfileGone(u)'
        /\ "numbers" = s /\ bindRows[u] = None => NumberGone(u)'
    BY <1>15
  <2>3. Clear(u)' /\ RowGone(u)' /\ bindRows'[u] = None
    BY <1>3, <2>1, <2>2 DEF Leaves
  <2>4. "profiles" \notin privacy'.left => ProfileGone(u)'
    BY <1>2, <2>1, <2>2 DEF Leaves
  <2>5. "numbers" \notin privacy'.left => NumberGone(u)'
    BY <1>2, <2>1, <2>2 DEF Leaves
  <2> HIDE DEF Clear, RowGone, ProfileGone, NumberGone, Leaves
  <2> QED BY <1>2, <1>6, <2>3, <2>4, <2>5, RewrittenNext
<1> QED BY <1>7, <1>8, <1>9 DEF ForgetInv

LEMMA AnswerForgets ==
    ASSUME UsersTyped, ForgetInv, AnonymizeAnswer
    PROVE  ForgetInv'
<1> DEFINE v == privacy.user
<1>0. privacy # None /\ privacy.todo = <<>> /\ privacy.left = {} /\ v \in Users
  BY DEF AnonymizeAnswer, UsersTyped, TypedJobs, Optional, Anonymizing
<1>1. \A i \in 1 .. Len(queue') : queue'[i].table = "profiles" => i \in 1 .. Len(queue) /\ queue'[i] = queue[i]
  <2>1. queue \in Seq(Item)
    BY DEF UsersTyped, TypedQueue
  <2>2. ASSUME NEW c \in Codes, queue' = queue \o <<[table |-> "codes", key |-> c, value |-> v]>>
        PROVE  \A i \in 1 .. Len(queue') : queue'[i].table = "profiles" =>
                   i \in 1 .. Len(queue) /\ queue'[i] = queue[i]
    <3> DEFINE w == [table |-> "codes", key |-> c, value |-> v]
    <3>1. w \in Item /\ w.table # "profiles"
      BY <1>0 DEF Item
    <3>2. queue' = Append(queue, w)
      BY <2>1, <2>2
    <3> HIDE DEF w
    <3> QED BY <2>1, <3>1, <3>2
  <2> QED BY <2>1, <2>2 DEF AnonymizeAnswer, codeFor, Enqueue
<1>2. /\ bindRows' = bindRows /\ binds' = binds /\ privacy' = None
      /\ profileRows' = profileRows /\ profiles' = profiles
      /\ numberOf' = numberOf /\ ownerOf' = ownerOf /\ revived' = revived
      /\ forgotten' = IF privacy.alone THEN forgotten \cup {v} ELSE forgotten
  BY DEF AnonymizeAnswer, numbers, database
<1>3. \A u \in Users : Clear(u) => Clear(u)'
  BY <1>1, <1>2 DEF Clear
<1>4. privacy.alone => Clear(v) /\ bindRows[v] = None /\ NumberGone(v) /\ ProfileGone(v)
  BY <1>0 DEF ForgetInv, RewrittenSoFar, tables
<1>5. ASSUME NEW u \in forgotten'
      PROVE  Clear(u)' /\ bindRows'[u] = None /\ NumberGone(u)' /\ ProfileGone(u)'
  <2>1. Clear(u) /\ bindRows[u] = None /\ NumberGone(u) /\ ProfileGone(u) /\ u \in Users
    BY <1>0, <1>2, <1>4 DEF ForgetInv, UsersTyped, TypedHistory
  <2>2. Leaves(u)
    BY <1>2, <1>3, <2>1, KnownSame, LeavesBy
  <2> HIDE DEF Clear, RowGone, ProfileGone, NumberGone, v
  <2> QED BY <1>2, <2>1, <2>2 DEF Leaves
<1> QED BY <1>2, <1>5 DEF ForgetInv, JobShape

LEMMA MigrateForgets ==
    ASSUME UsersTyped, ForgetInv, NEW by, Migrate(by)
    PROVE  ForgetInv'
<1>1. /\ queue' = queue /\ binds' = binds /\ bindRows' = bindRows /\ profileRows' = profileRows
      /\ numberOf' = numberOf /\ ownerOf' = ownerOf /\ revived' = revived
      /\ profiles' = profiles /\ forgotten' = forgotten /\ privacy' = privacy
  BY DEF Migrate, numbers, database, history
<1>2. \A u \in Users : Clear(u) => Clear(u)'
  BY <1>1 DEF Clear
<1>3. \A u \in Users : Leaves(u)
  BY <1>1, <1>2, KnownSame, LeavesBy
<1> HIDE DEF Leaves
<1> QED BY <1>1, <1>3, ForgetFrameOfNobody

LEMMA ForgetInvNext == UsersTyped /\ ForgetInv /\ [UsersNext]_usersVars => ForgetInv'
<1> SUFFICES ASSUME UsersTyped, ForgetInv, [UsersNext]_usersVars PROVE ForgetInv'
  OBVIOUS
<1>0. ASSUME UNCHANGED usersVars \/ AnonymizeFails PROVE ForgetInv'
  <2>1. /\ queue' = queue /\ binds' = binds /\ forgotten' = forgotten
        /\ numberOf' = numberOf /\ ownerOf' = ownerOf /\ revived' = revived
        /\ bindRows' = bindRows /\ profileRows' = profileRows /\ profiles' = profiles
        /\ privacy' = None \/ privacy' = privacy
    BY <1>0 DEF AnonymizeFails, usersVars, numbers, database, jobs, history
  <2>2. \A u \in Users : Clear(u) => Clear(u)'
    BY <2>1 DEF Clear
  <2>3. \A u \in Users : Leaves(u)
    BY <2>1, <2>2, KnownSame, LeavesBy
  <2> HIDE DEF Leaves
  <2> QED BY <2>1, <2>3, ForgetFrameOfNobody
<1>1. CASE UNCHANGED usersVars
  BY <1>0, <1>1
<1>2. CASE UsersNext
  <2>0. UsersStep
    BY <1>2, UsersSteps
  <2> QED
    BY <2>0, <1>0, BindForgets, BindStepsForget, ShowForgets, ProfileForgets, AliasForgets, WritesForget,
       AnonymizeForgets, TableForgets, ReloadForgets, AnswerForgets, MigrateForgets, MigratingForgets,
       StartForgets DEF UsersStep
<1> QED BY <1>1, <1>2

LEMMA ForgetInvStays == UsersSpec => []ForgetInv
<1>1. UsersInit => ForgetInv
  BY DEF UsersInit, ForgetInv, JobShape
<1> QED BY <1>1, UsersStayTyped, ForgetInvNext, PTL DEF UsersSpec

(* Who was anonymised, and has done nothing since, has no binding, no      *)
(* profile in the table and neither in memory: nothing queued, bound or    *)
(* reloaded brings one back, and nothing at all does but somebody else's   *)
(* failed binding, in memory until the numbers are read anew, and a        *)
(* migration that had scanned the profile.                                 *)
THEOREM ForgottenStay == UsersSpec => []Forgotten
<1>1. ForgetInv => Forgotten
  BY DEF ForgetInv, Forgotten, NumberGone, ProfileGone
<1> QED BY <1>1, ForgetInvStays, PTL

-----------------------------------------------------------------------------
(* Users: short codes. *)

(* A save of a code under way, and all that says whom a code stands for. *)
Saving(c, t) == \E i \in 1 .. Len(queue) : /\ queue[i].table = "codes"
                                           /\ queue[i].key = c /\ queue[i].value = t
Names(c, t) == codes[c] = t \/ codeRows[c] = t \/ Saving(c, t) \/ <<c, t>> \in shown

(* All that names somebody by a code names the same; a code that is used is *)
(* in the pool.                                                            *)
CodesInv ==
    /\ \A c \in Codes : \A t, r \in Users : Names(c, t) /\ Names(c, r) => t = r
    /\ \A c \in Codes : \A t \in Users : Names(c, t) => c \in pool
    /\ \A c \in Codes : codes[c] # None \/ codeRows[c] # None => c \in pool

(* A step after which a code names nobody new but, if it was not in the    *)
(* pool before and is now, one user.                                       *)
LEMMA CodesFrame ==
    ASSUME CodesInv, NEW t0, pool \subseteq pool',
           \A c \in Codes : \A t \in Users : Names(c, t)' => Names(c, t) \/ (c \notin pool /\ c \in pool' /\ t = t0),
           \A c \in Codes : codes'[c] # None \/ codeRows'[c] # None => c \in pool'
    PROVE  CodesInv'
<1> HIDE DEF Names
<1> QED BY DEF CodesInv

LEMMA Appended ==
    ASSUME UsersTyped, NEW ws \in Seq(Item), queue' = queue \o ws
    PROVE  \A i \in 1 .. Len(queue') : \/ i \in 1 .. Len(queue) /\ queue'[i] = queue[i]
                                       \/ \E j \in 1 .. Len(ws) : queue'[i] = ws[j]
<1>1. queue \in Seq(Item)
  BY DEF UsersTyped, TypedQueue
<1>2. /\ Len(queue') = Len(queue) + Len(ws)
      /\ \A i \in 1 .. Len(queue) + Len(ws) : queue'[i] = IF i <= Len(queue) THEN queue[i] ELSE ws[i - Len(queue)]
  BY <1>1, ConcatProperties
<1>3. Len(queue) \in Nat /\ Len(ws) \in Nat
  BY <1>1
<1>4. TAKE i \in 1 .. Len(queue')
<1>5. CASE i <= Len(queue)
  BY <1>2, <1>3, <1>5
<1>6. CASE ~(i <= Len(queue))
  <2>1. i - Len(queue) \in 1 .. Len(ws) /\ queue'[i] = ws[i - Len(queue)]
    BY <1>2, <1>3, <1>6
  <2> QED BY <2>1
<1> QED BY <1>5, <1>6

(* What is appended to the queue saves this one code, or none. *)
LEMMA SavingAppended ==
    ASSUME UsersTyped, NEW ws \in Seq(Item), queue' = queue \o ws, NEW c0, NEW t0,
           \A i \in 1 .. Len(ws) : ws[i].table = "codes" => ws[i].key = c0 /\ ws[i].value = t0
    PROVE  \A c, t : Saving(c, t)' => Saving(c, t) \/ (c = c0 /\ t = t0)
BY Appended DEF Saving

LEMMA NoSavingAppended ==
    ASSUME UsersTyped, NEW ws \in Seq(Item), queue' = queue \o ws,
           \A i \in 1 .. Len(ws) : ws[i].table # "codes"
    PROVE  \A c, t : Saving(c, t)' => Saving(c, t)
BY Appended DEF Saving

LEMMA SavingLess ==
    ASSUME UsersTyped, queue # <<>>, queue' = Tail(queue)
    PROVE  \A c, t : Saving(c, t)' => Saving(c, t)
BY HeadOfQueue DEF Saving

LEMMA CodeForCodes ==
    ASSUME UsersTyped, CodesInv, NEW t0 \in Users, codeFor(t0), codeRows' = codeRows
    PROVE  CodesInv'
<1>1. ASSUME NEW c0 \in Codes, codes[c0] = t0, UNCHANGED <<codes, pool, queue>>,
             shown' = shown \cup {<<c0, t0>>}
      PROVE  CodesInv'
  <2>1. \A c \in Codes : \A t \in Users : Names(c, t)' => Names(c, t)
    BY <1>1 DEF Names, Saving
  <2> QED BY <1>1, <2>1, CodesFrame DEF CodesInv
<1>2. ASSUME NEW c0 \in Codes, c0 \notin pool, pool' = pool \cup {c0}, codes' = [codes EXCEPT ![c0] = t0],
             Enqueue(<<[table |-> "codes", key |-> c0, value |-> t0]>>), shown' = shown \cup {<<c0, t0>>}
      PROVE  CodesInv'
  <2> DEFINE w == [table |-> "codes", key |-> c0, value |-> t0]
             ws == <<w>>
  <2>1. ws \in Seq(Item) /\ Len(ws) = 1 /\ ws[1] = w
    BY DEF Item
  <2>2. w.key = c0 /\ w.value = t0
    OBVIOUS
  <2>3. queue' = queue \o ws
    BY <1>2 DEF Enqueue
  <2> HIDE DEF w, ws
  <2>9. \A i \in 1 .. Len(ws) : ws[i].table = "codes" => ws[i].key = c0 /\ ws[i].value = t0
    BY <2>1, <2>2
  <2>4. \A c, t : Saving(c, t)' => Saving(c, t) \/ (c = c0 /\ t = t0)
    <3>1. \A c1, t1 : (\A i \in 1 .. Len(ws) : ws[i].table = "codes" => ws[i].key = c1 /\ ws[i].value = t1)
                      => \A c, t : Saving(c, t)' => Saving(c, t) \/ (c = c1 /\ t = t1)
      BY <2>1, <2>3, SavingAppended
    <3>2. (\A i \in 1 .. Len(ws) : ws[i].table = "codes" => ws[i].key = c0 /\ ws[i].value = t0)
                      => \A c, t : Saving(c, t)' => Saving(c, t) \/ (c = c0 /\ t = t0)
      BY <3>1
    <3> QED BY <2>9, <3>2
  <2>5. \A c \in Codes : c # c0 => codes'[c] = codes[c]
    BY <1>2 DEF UsersTyped, TypedMaps, CodeMap
  <2>6. codes'[c0] = t0
    BY <1>2 DEF UsersTyped, TypedMaps, CodeMap
  <2>7. ASSUME NEW c \in Codes, NEW t \in Users, Names(c, t)'
        PROVE  Names(c, t) \/ (c \notin pool /\ c \in pool' /\ t = t0)
    BY <1>2, <2>4, <2>5, <2>6, <2>7 DEF Names, CodesInv
  <2>8. \A c \in Codes : codes'[c] # None \/ codeRows'[c] # None => c \in pool'
    BY <1>2, <2>5 DEF CodesInv
  <2> QED BY <1>2, <2>7, <2>8, CodesFrame
<1> QED BY <1>1, <1>2 DEF codeFor, CodeOf

(* A step that leaves the codes, their rows and what was shown alone. *)
LEMMA CodesQuiet ==
    ASSUME CodesInv, UNCHANGED <<codes, codeRows, pool, shown>>,
           \A c, t : Saving(c, t)' => Saving(c, t)
    PROVE  CodesInv'
<1>1. \A c \in Codes : \A t \in Users : Names(c, t)' => Names(c, t)
  BY DEF Names
<1> QED BY <1>1, CodesFrame DEF CodesInv

LEMMA CodesStill ==
    ASSUME CodesInv, UNCHANGED <<codes, codeRows, pool, shown, queue>>
    PROVE  CodesInv'
BY CodesQuiet DEF Saving

LEMMA ReloadCodes ==
    ASSUME UsersTyped, CodesInv, NEW s \in {"profiles", "codes", "numbers"}, reload(s),
           UNCHANGED <<queue, codeRows, shown>>
    PROVE  CodesInv'
<1>1. CASE UNCHANGED <<codes, pool>>
  BY <1>1, CodesStill
<1>2. CASE loadCodes
  <2>1. codes' = codeRows /\ pool' = pool \cup {c \in Codes : codeRows[c] # None}
    BY <1>2 DEF loadCodes
  <2>2. \A c \in Codes : \A t \in Users : Names(c, t)' => Names(c, t)
    BY <2>1 DEF Names, Saving
  <2> QED BY <2>1, <2>2, CodesFrame DEF CodesInv
<1> QED BY <1>1, <1>2 DEF reload

LEMMA CodesInvNext == UsersTyped /\ CodesInv /\ [UsersNext]_usersVars => CodesInv'
<1> SUFFICES ASSUME UsersTyped, CodesInv, [UsersNext]_usersVars PROVE CodesInv'
  OBVIOUS
<1>1. CASE UNCHANGED usersVars
  BY <1>1, CodesStill DEF usersVars, database, history
<1>2. CASE UsersNext
  <2>0. UsersStep
    BY <1>2, UsersSteps
  <2>1. ASSUME NEW o, NEW x, bindUser(o, x) PROVE CodesInv'
    BY <2>1, CodesStill DEF bindUser, database
  <2>2. ASSUME NEW b, Delete(b) \/ Insert(b) \/ BindFails(b) PROVE CodesInv'
    BY <2>2, CodesStill DEF Delete, Insert, BindFails, database, history
  <2>3. ASSUME NEW t \in Users, Show(t) PROVE CodesInv'
    BY <2>3, CodeForCodes DEF Show, database
  <2>4. ASSUME NEW u \in Users, ProfileWrite(u) PROVE CodesInv'
    <3>1. PICK p \in Optional(Profiles), ws \in Seq(Saves) : queue' = queue \o ws /\ ProfileFrame(u)
      BY <2>4 DEF ProfileWrite
    <3>2. ws \in Seq(Item)
      BY SeqMonotonic DEF Item
    <3>3. \A i \in 1 .. Len(ws) : ws[i].table # "codes"
      <4>1. \A i \in 1 .. Len(ws) : ws[i] \in Saves
        BY ElementOfSeq
      <4> QED BY <4>1 DEF Saves
    <3>4. \A c, t : Saving(c, t)' => Saving(c, t)
      BY <3>1, <3>2, <3>3, NoSavingAppended
    <3> QED BY <3>1, <3>4, CodesQuiet DEF ProfileFrame, database
  <2>5. ASSUME NEW w \in Words, NEW c \in Optional(Classes), putAlias(w, c) PROVE CodesInv'
    <3> DEFINE a == [table |-> "aliases", key |-> w, value |-> c]
               ws == <<a>>
    <3>1. ws \in Seq(Item) /\ Len(ws) = 1 /\ ws[1] = a
      BY DEF Item
    <3>2. a.table # "codes"
      OBVIOUS
    <3>3. queue' = queue \o ws
      BY <2>5 DEF putAlias, Enqueue
    <3> HIDE DEF a, ws
    <3>5. \A i \in 1 .. Len(ws) : ws[i].table # "codes"
      BY <3>1, <3>2
    <3>4. \A d, t : Saving(d, t)' => Saving(d, t)
      BY <3>1, <3>3, <3>5, NoSavingAppended
    <3> QED BY <2>5, <3>4, CodesQuiet DEF putAlias, database, history
  <2>6. CASE Land
    <3>0. queue # <<>> /\ queue' = Tail(queue)
      BY <2>6 DEF Land
    <3> DEFINE w == Head(queue)
    <3>1. codeRows' = IF w.table = "codes" THEN codeSaved(w) ELSE codeRows
      BY <2>6 DEF Land
    <3>2. UNCHANGED <<codes, pool, shown>>
      BY <2>6 DEF Land, history
    <3>3. w = queue[1] /\ 1 \in 1 .. Len(queue) /\ w \in Item
      BY <3>0, HeadOfQueue
    <3> HIDE DEF w
    <3>4. w.table = "codes" => w.key \in Codes /\ w.value \in Users /\ Saving(w.key, w.value)
      BY <3>3 DEF Item, Saves, Saving
    <3>5. \A c \in Codes : \/ codeRows'[c] = codeRows[c]
                           \/ w.table = "codes" /\ c = w.key /\ codeRows'[c] = w.value
      BY <3>1, <3>4 DEF codeSaved, UsersTyped, TypedMaps, CodeMap
    <3>6. \A c \in Codes : \A t \in Users : Names(c, t)' => Names(c, t)
      <4>1. \A c, t : Saving(c, t)' => Saving(c, t)
        BY <3>0, SavingLess
      <4> QED BY <3>2, <3>4, <3>5, <4>1 DEF Names
    <3>7. \A c \in Codes : codes'[c] # None \/ codeRows'[c] # None => c \in pool'
      BY <3>2, <3>4, <3>5 DEF CodesInv, Names
    <3> QED BY <3>2, <3>6, <3>7, CodesFrame
  <2>7. CASE WriteFails
    BY <2>7, SavingLess, CodesQuiet DEF WriteFails, database
  <2>8. ASSUME NEW by, NEW u, Anonymize(by, u) PROVE CodesInv'
    BY <2>8, CodesStill DEF Anonymize, database
  <2>9. CASE AnonymizeTable
    <3> DEFINE u == privacy.user
    <3>1. u \in Users /\ UNCHANGED <<codes, pool, shown, queue>>
      BY <2>9 DEF AnonymizeTable, history, UsersTyped, TypedJobs, Optional, Anonymizing
    <3>2. \A c \in Codes : codeRows'[c] = codeRows[c] \/ (codeRows[c] = u /\ codeRows'[c] = Anon)
      BY <2>9 DEF AnonymizeTable
    <3>3. \A c \in Codes : \A t \in Users : Names(c, t)' => Names(c, t)
      BY <3>1, <3>2, UsersConstants DEF Names, Saving
    <3>4. \A c \in Codes : codes'[c] # None \/ codeRows'[c] # None => c \in pool'
      <4>1. u # None
        BY <3>1, UsersConstants
      <4> QED BY <3>1, <3>2, <4>1 DEF CodesInv
    <3> QED BY <3>1, <3>3, <3>4, CodesFrame
  <2>10. CASE AnonymizeReload
    <3>1. PICK s \in privacy.left : reload(s)
      BY <2>10 DEF AnonymizeReload
    <3>2. s \in {"profiles", "codes", "numbers"}
      BY <2>10 DEF AnonymizeReload, UsersTyped, TypedJobs, Optional, Anonymizing
    <3> QED BY <2>10, <3>1, <3>2, ReloadCodes DEF AnonymizeReload, database, history
  <2>11. CASE AnonymizeAnswer
    <3>1. privacy.user \in Users
      BY <2>11 DEF AnonymizeAnswer, UsersTyped, TypedJobs, Optional, Anonymizing
    <3> QED BY <2>11, <3>1, CodeForCodes, CodesStill DEF AnonymizeAnswer, database
  <2>12. CASE AnonymizeFails
    BY <2>12, CodesStill DEF AnonymizeFails, database
  <2>13. ASSUME NEW by, Migrate(by) PROVE CodesInv'
    BY <2>13, CodesStill DEF Migrate, database, history
  <2>14. CASE Backup \/ MigrateProfile \/ MigrateFails
    BY <2>14, CodesStill DEF Backup, MigrateProfile, MigrateFails, database, history
  <2>15. CASE MigrateReload
    <3>1. PICK s \in migration.left : reload(s)
      BY <2>15 DEF MigrateReload
    <3>2. s \in {"profiles", "codes", "numbers"}
      BY <2>15 DEF MigrateReload, UsersTyped, TypedJobs, Optional, Migrating
    <3> QED BY <2>15, <3>1, <3>2, ReloadCodes DEF MigrateReload, database, history
  <2>16. CASE MigrateCode
    <3>1. PICK was \in migration.old, new \in (Codes \ LowerCodes) \ pool :
              /\ pool' = pool \cup {new}
              /\ codeRows' = [codeRows EXCEPT ![was] = None, ![new] = codeRows[was]]
      BY <2>16 DEF MigrateCode
    <3>2. UNCHANGED <<codes, shown, queue>>
      BY <2>16 DEF MigrateCode, history
    <3>3. \A c \in Codes : \/ codeRows'[c] = codeRows[c] \/ codeRows'[c] = None
                           \/ c = new /\ codeRows'[c] = codeRows[was]
      BY <3>1 DEF UsersTyped, TypedMaps, CodeMap
    <3>6. PICK t0 : t0 = codeRows[was]
      OBVIOUS
    <3>4. \A c \in Codes : \A t \in Users :
              Names(c, t)' => Names(c, t) \/ (c \notin pool /\ c \in pool' /\ t = t0)
      BY <3>1, <3>2, <3>3, <3>6, UsersConstants DEF Names, Saving
    <3>7. pool \subseteq pool'
      BY <3>1
    <3>5. \A c \in Codes : codes'[c] # None \/ codeRows'[c] # None => c \in pool'
      BY <3>1, <3>2, <3>3 DEF CodesInv
    <3> QED BY <3>4, <3>5, <3>7, CodesFrame
  <2>17. CASE UsersRestart
    <3>1. /\ codes' = codeRows /\ codeRows' = codeRows /\ pool' = {c \in Codes : codeRows[c] # None}
          /\ queue' = <<>> /\ shown' = {}
      BY <2>17 DEF UsersRestart, database
    <3>2. \A c \in Codes : \A t \in Users : Names(c, t)' => codeRows[c] = t
      BY <3>1 DEF Names, Saving
    <3> QED BY <3>1, <3>2, UsersConstants DEF CodesInv
  <2> QED
    BY <2>0, <2>1, <2>2, <2>3, <2>4, <2>5, <2>6, <2>7, <2>8, <2>9, <2>10, <2>11, <2>12, <2>13, <2>14,
       <2>15, <2>16, <2>17 DEF UsersStep
<1> QED BY <1>1, <1>2

LEMMA CodesInvStays == UsersSpec => []CodesInv
<1>1. UsersInit => CodesInv
  <2> SUFFICES ASSUME UsersInit PROVE CodesInv
    OBVIOUS
  <2>1. /\ codes = codeRows /\ pool = {c \in Codes : codeRows[c] # None} /\ queue = <<>> /\ shown = {}
    BY DEF UsersInit
  <2>2. \A c \in Codes : \A t \in Users : Names(c, t) => codeRows[c] = t
    BY <2>1 DEF Names, Saving
  <2> QED BY <2>1, <2>2, UsersConstants DEF CodesInv
<1> QED BY <1>1, UsersStayTyped, CodesInvNext, PTL DEF UsersSpec

(* A code that was shown never comes to mean somebody else: whatever still  *)
(* names anybody by it, in memory, in its row or on its way there, names    *)
(* the same user, and a new code is taken outside the pool.                *)
THEOREM CodesStayTheirs == UsersSpec => []CodesAreNotReused
<1>1. UsersTyped /\ CodesInv => CodesAreNotReused
  <2> SUFFICES ASSUME UsersTyped, CodesInv PROVE CodesAreNotReused
    OBVIOUS
  <2>1. ASSUME NEW s \in shown
        PROVE  s[1] \in Codes /\ s[2] \in Users /\ Names(s[1], s[2])
    <3>1. s \in Codes \X Users
      BY DEF UsersTyped, TypedHistory
    <3>2. s = <<s[1], s[2]>>
      BY <3>1
    <3> QED BY <3>1, <3>2 DEF Names
  <2>2. ASSUME NEW s \in shown PROVE codes[s[1]] \in {s[2], Anon, None}
    <3>1. codes[s[1]] \in Users \cup {Anon, None}
      BY <2>1 DEF UsersTyped, TypedMaps, CodeMap, Optional
    <3>2. codes[s[1]] \in Users => Names(s[1], codes[s[1]])
      BY DEF Names
    <3> QED BY <2>1, <3>1, <3>2 DEF CodesInv
  <2>3. ASSUME NEW s \in shown, NEW r \in shown, s[1] = r[1] PROVE s[2] = r[2]
    BY <2>1, <2>3 DEF CodesInv
  <2> QED BY <2>2, <2>3 DEF CodesAreNotReused
<1> QED BY <1>1, UsersStayTyped, CodesInvStays, PTL

-----------------------------------------------------------------------------
(* Users: memory and tables on SQLite. *)

Settled  == migration # None => migration.step = "backup"
Resting  == queue = <<>> /\ binds = {} /\ privacy = None /\ Settled
SameNumbers  == numberOf = bindRows
SameProfiles == profiles = profileRows
SameCodes    == codes = codeRows
SameAliases  == aliases = aliasRows
SameAll      == SameNumbers /\ SameProfiles /\ SameCodes /\ SameAliases

(* The writes of one operation wait; once they have landed, all is the same. *)
CodeWaits ==
    /\ Len(queue) = 1 /\ queue[1].table = "codes"
    /\ codeRows[queue[1].key] = None /\ \A d \in Codes : codeRows[d] # queue[1].value
    /\ codes = [codeRows EXCEPT ![queue[1].key] = queue[1].value]
    /\ SameNumbers /\ SameProfiles /\ SameAliases
AliasWaits ==
    /\ Len(queue) = 1 /\ queue[1].table = "aliases"
    /\ aliases = [aliasRows EXCEPT ![queue[1].key] = queue[1].value]
    /\ SameNumbers /\ SameProfiles /\ SameCodes
ProfileWaits ==
    /\ \E u \in Users :
           /\ \A i \in 1 .. Len(queue) : queue[i].table = "profiles" /\ queue[i].key = u
           /\ profiles = [profileRows EXCEPT ![u] = queue[Len(queue)].value]
    /\ SameNumbers /\ SameCodes /\ SameAliases
Waiting == /\ queue # <<>> /\ binds = {} /\ privacy = None /\ Settled
           /\ CodeWaits \/ AliasWaits \/ ProfileWaits

(* The rows a binding leaves to the others. *)
LeftTo(table, b) == [o \in Officials |-> IF o = b.official \/ table[o] = b.external THEN None ELSE table[o]]
OnItsWay(table, map, b) ==
    /\ b.step = "insert" => LeftTo(table, b) = table
    /\ map = [LeftTo(table, b) EXCEPT ![b.official] = b.external]
BindingOne ==
    /\ queue = <<>> /\ privacy = None /\ Settled
    /\ SameProfiles /\ SameCodes /\ SameAliases
    /\ \E b \in binds : binds = {b} /\ OnItsWay(bindRows, numberOf, b)

(* What a job has not reloaded yet may differ. *)
SameBut(left) ==
    /\ SameAliases
    /\ "numbers" \notin left => SameNumbers
    /\ "profiles" \notin left => SameProfiles
    /\ "codes" \notin left => SameCodes

AnonymizingOne == /\ privacy # None /\ queue = <<>> /\ binds = {} /\ Settled
                  /\ SameBut(privacy.left)
MigratingOne == /\ migration # None /\ migration.step = "apply"
                /\ queue = <<>> /\ binds = {} /\ privacy = None
                /\ SameBut(migration.left)

MigrationShape ==
    migration # None =>
        /\ migration.step = "backup" => migration.left = {"profiles", "codes"}
        /\ migration.rows # {} \/ migration.old # {} => migration.left = {"profiles", "codes"}

(* One thing at a time, and what it has not brought in step yet. *)
OneAtATime == (Resting /\ SameAll) \/ Waiting \/ BindingOne \/ AnonymizingOne \/ MigratingOne
SqliteInv  == MigrationShape /\ (~pooled /\ lossless => OneAtATime)

LEMMA SameDefs == SameAll <=> SameNumbers /\ SameProfiles /\ SameCodes /\ SameAliases
BY DEF SameAll

LEMMA FreeRests ==
    ASSUME SqliteInv, ~pooled, lossless, Free
    PROVE  Resting /\ SameAll
BY DEF SqliteInv, OneAtATime, Free, Resting, Settled, Waiting, BindingOne, AnonymizingOne, MigratingOne

LEMMA MigrationShapeNext ==
    ASSUME UsersTyped, MigrationShape, UsersStep
    PROVE  MigrationShape'
<1>1. CASE migration' = migration \/ migration' = None
  BY <1>1 DEF MigrationShape
<1>2. ASSUME NEW by, Migrate(by) PROVE MigrationShape'
  BY <1>2 DEF Migrate, MigrationShape
<1>3. CASE Backup \/ MigrateProfile \/ MigrateCode \/ MigrateReload
  <2>0. migration # None /\ migration \in Migrating
    BY <1>3 DEF Backup, MigrateProfile, MigrateCode, MigrateReload, UsersTyped, TypedJobs, Optional
  <2>1. CASE Backup
    BY <2>0, <2>1 DEF Backup, MigrationShape, Migrating
  <2>2. CASE MigrateProfile
    BY <2>0, <2>2 DEF MigrateProfile, MigrationShape, Migrating
  <2>3. CASE MigrateCode
    BY <2>0, <2>3 DEF MigrateCode, MigrationShape, Migrating
  <2>4. CASE MigrateReload
    BY <2>0, <2>4 DEF MigrateReload, MigrationShape, Migrating
  <2> QED BY <1>3, <2>1, <2>2, <2>3, <2>4
<1>4. (\E o \in Officials, x \in Externals : bindUser(o, x)) => migration' = migration
  BY DEF bindUser
<1>5. (\E b \in binds : Delete(b) \/ Insert(b) \/ BindFails(b)) => migration' = migration
  BY DEF Delete, Insert, BindFails, jobs
<1>6. (\E t \in Users : Show(t)) => migration' = migration
  BY DEF Show
<1>7. (\E u \in Users : ProfileWrite(u)) => migration' = migration
  BY DEF ProfileWrite, ProfileFrame
<1>8. (\E w \in Words, c \in Optional(Classes) : putAlias(w, c)) => migration' = migration
  BY DEF putAlias, jobs
<1>9. Land \/ WriteFails => migration' = migration
  BY DEF Land, WriteFails, jobs
<1>10. (\E by \in Supers, u \in Users : Anonymize(by, u)) => migration' = migration
  BY DEF Anonymize
<1>11. AnonymizeTable \/ AnonymizeReload \/ AnonymizeAnswer \/ AnonymizeFails => migration' = migration
  BY DEF AnonymizeTable, AnonymizeReload, AnonymizeAnswer, AnonymizeFails
<1>12. MigrateFails \/ UsersRestart => migration' = None
  BY DEF MigrateFails, UsersRestart
<1> QED
  BY <1>1, <1>2, <1>3, <1>4, <1>5, <1>6, <1>7, <1>8, <1>9, <1>10, <1>11, <1>12 DEF UsersStep

LEMMA BindOne ==
    ASSUME UsersTyped, SqliteInv, ~pooled, lossless,
           NEW o \in Officials, NEW x \in Externals, bindUser(o, x)
    PROVE  BindingOne'
<1>1. Resting /\ SameAll
  BY FreeRests DEF bindUser, Edit
<1>2. PICK b : b = [id |-> edits, official |-> o, external |-> x, step |-> "delete",
                   numberOf |-> numberOf, ownerOf |-> ownerOf,
                   alone |-> /\ \A c \in binds : ~Touches(c, o, x)
                             /\ (privacy = None \/ privacy.user # o)]
  OBVIOUS
<1>3. b.official = o /\ b.external = x /\ b.step = "delete" /\ binds' = {b}
  BY <1>1, <1>2 DEF bindUser, Resting
<1>4. numberOf' = Bound(o, x)
  BY DEF bindUser
<1>5. /\ queue' = queue /\ migration' = migration /\ bindRows' = bindRows /\ profileRows' = profileRows
      /\ codeRows' = codeRows /\ aliasRows' = aliasRows /\ profiles' = profiles /\ codes' = codes
      /\ aliases' = aliases /\ privacy' = None
  BY <1>1 DEF bindUser, Stirs, database, Resting
<1>6. OnItsWay(bindRows', numberOf', b)
  <2>1. bindRows \in Numbering /\ numberOf = bindRows
    BY <1>1 DEF UsersTyped, TypedNumbers, SameAll, SameNumbers
  <2>2. LeftTo(bindRows', b) = [p \in Officials |-> IF p = o \/ bindRows[p] = x THEN None ELSE bindRows[p]]
    BY <1>3, <1>5 DEF LeftTo
  <2>3. Released(o, x) = [p \in Officials |-> IF p # o /\ bindRows[p] = x THEN None ELSE bindRows[p]]
    BY <2>1 DEF Released
  <2>4. numberOf' = [LeftTo(bindRows', b) EXCEPT ![b.official] = b.external]
    BY <1>3, <1>4, <2>2, <2>3 DEF Bound
  <2> QED BY <1>3, <2>4 DEF OnItsWay
<1>7. \E c \in binds' : binds' = {c} /\ OnItsWay(bindRows', numberOf', c)
  BY <1>3, <1>6
<1> QED
  BY <1>1, <1>5, <1>7 DEF BindingOne, Resting, Settled, SameAll, SameProfiles, SameCodes, SameAliases

LEMMA BindStepsOne ==
    ASSUME UsersTyped, SqliteInv, ~pooled, lossless, lossless',
           NEW b \in binds, Delete(b) \/ Insert(b) \/ BindFails(b)
    PROVE  OneAtATime'
<1>0. b \in Binding /\ bindRows \in Numbering
  BY DEF UsersTyped, TypedNumbers, TypedBinds
<1>1. BindingOne
  BY DEF SqliteInv, OneAtATime, Resting, Waiting, AnonymizingOne, MigratingOne
<1>2. binds = {b} /\ OnItsWay(bindRows, numberOf, b)
  BY <1>1 DEF BindingOne
<1>3. CASE Delete(b)
  <2>1. /\ queue' = queue /\ migration' = migration /\ numberOf' = numberOf /\ profileRows' = profileRows
        /\ codeRows' = codeRows /\ aliasRows' = aliasRows /\ profiles' = profiles /\ codes' = codes
        /\ aliases' = aliases /\ privacy' = privacy /\ bindRows' = LeftTo(bindRows, b)
    BY <1>3 DEF Delete, jobs, LeftTo
  <2>2. PICK c : c = [b EXCEPT !.step = "insert"]
    OBVIOUS
  <2>3. c.official = b.official /\ c.external = b.external
    BY <1>0, <2>2 DEF Binding
  <2>6. binds' = {c}
    BY <1>2, <1>3, <2>2 DEF Delete
  <2>4. LeftTo(bindRows', c) = bindRows'
    BY <1>0, <2>1, <2>3 DEF LeftTo
  <2>7. numberOf' = [bindRows' EXCEPT ![b.official] = b.external]
    BY <1>2, <2>1 DEF OnItsWay
  <2>8. OnItsWay(bindRows', numberOf', c)
    BY <2>3, <2>4, <2>7 DEF OnItsWay
  <2>5. \E d \in binds' : binds' = {d} /\ OnItsWay(bindRows', numberOf', d)
    BY <2>6, <2>8
  <2> QED
    BY <1>1, <2>1, <2>5 DEF OneAtATime, BindingOne, Settled, SameProfiles, SameCodes, SameAliases
<1>4. CASE Insert(b)
  <2>2. bindRows' = [bindRows EXCEPT ![b.official] = b.external]
    BY <1>4 DEF Insert
  <2>3. bindRows' = numberOf
    BY <1>2, <1>4, <2>2 DEF Insert, OnItsWay
  <2>1. /\ queue' = queue /\ migration' = migration /\ numberOf' = numberOf /\ profileRows' = profileRows
        /\ codeRows' = codeRows /\ aliasRows' = aliasRows /\ profiles' = profiles /\ codes' = codes
        /\ aliases' = aliases /\ privacy' = privacy /\ binds' = {}
    BY <1>2, <1>4 DEF Insert, jobs
  <2> QED
    BY <1>1, <2>1, <2>3 DEF OneAtATime, BindingOne, Resting, Settled, SameAll, SameNumbers, SameProfiles,
       SameCodes, SameAliases
<1>5. CASE BindFails(b)
  <2>1. b.step = "insert" /\ Taken(b)
    BY <1>5 DEF BindFails
  <2>2. PICK o \in Officials : o # b.official /\ bindRows[o] = b.external
    BY <2>1 DEF Taken
  <2>3. LeftTo(bindRows, b)[o] = None
    BY <2>2 DEF LeftTo
  <2>4. b.external # None
    BY <1>0, UsersConstants DEF Binding, Externals
  <2>5. LeftTo(bindRows, b) = bindRows
    BY <1>2, <2>1 DEF OnItsWay
  <2> QED BY <2>2, <2>3, <2>4, <2>5
<1> QED BY <1>3, <1>4, <1>5

LEMMA CodeForOne ==
    ASSUME UsersTyped, CodesInv, NEW t \in Users, codeFor(t), queue = <<>>, binds = {}, Settled, SameAll,
           binds' = binds, privacy' = None, migration' = migration, numberOf' = numberOf,
           profiles' = profiles, aliases' = aliases, UNCHANGED database
    PROVE  OneAtATime'
<1>1. CASE UNCHANGED <<codes, queue>>
  BY <1>1 DEF database, OneAtATime, Resting, Settled, SameAll, SameNumbers, SameProfiles, SameCodes,
     SameAliases
<1>2. ASSUME NEW c \in Codes \ pool, CodeOf(t) = {}, codes' = [codes EXCEPT ![c] = t],
             queue' = queue \o <<[table |-> "codes", key |-> c, value |-> t]>>
      PROVE  OneAtATime'
  <2>1. PICK w : w = [table |-> "codes", key |-> c, value |-> t]
    OBVIOUS
  <2>2. w.table = "codes" /\ w.key = c /\ w.value = t /\ w \in Item
    BY <2>1 DEF Item
  <2>3. queue' = <<w>>
    BY <1>2, <2>1, <2>2
  <2>4. Len(queue') = 1 /\ queue'[1] = w /\ queue' # <<>>
    BY <2>2, <2>3
  <2>5. codeRows[c] = None /\ \A d \in Codes : codeRows[d] # t
    BY <1>2 DEF CodesInv, CodeOf, SameAll, SameCodes
  <2>6. CodeWaits'
    BY <1>2, <2>2, <2>4, <2>5 DEF database, CodeWaits, SameAll, SameNumbers, SameProfiles, SameCodes,
       SameAliases
  <2> QED BY <2>4, <2>6 DEF OneAtATime, Waiting, Settled
<1> QED BY <1>1, <1>2 DEF codeFor, Enqueue

LEMMA ShowOne ==
    ASSUME UsersTyped, CodesInv, SqliteInv, ~pooled, lossless, NEW t \in Users, Show(t)
    PROVE  OneAtATime'
<1>1. Resting /\ SameAll
  BY FreeRests DEF Show, Edit
<1> QED BY <1>1, CodeForOne DEF Show, numbers, Stirs, Resting

LEMMA ProfileOne ==
    ASSUME UsersTyped, SqliteInv, ~pooled, lossless, NEW u \in Users, ProfileWrite(u)
    PROVE  OneAtATime'
<1>1. PICK p \in Optional(Profiles), ws \in Seq(Saves) :
          /\ Len(ws) > 0 /\ \A i \in 1 .. Len(ws) : ws[i].key = u
          /\ ws[Len(ws)].value = p /\ Edit
          /\ profiles' = [profiles EXCEPT ![u] = p] /\ queue' = queue \o ws /\ ProfileFrame(u)
  BY DEF ProfileWrite
<1>2. Resting /\ SameAll
  BY <1>1, FreeRests DEF Edit
<1>3. queue' = ws /\ queue' # <<>>
  <2>1. queue = <<>>
    BY <1>2 DEF Resting
  <2>2. queue' = ws
    BY <1>1, <2>1, ConcatEmptySeq
  <2> QED BY <1>1, <2>2
<1>4. \A i \in 1 .. Len(ws) : ws[i].table = "profiles"
  <2>1. \A i \in 1 .. Len(ws) : ws[i] \in Saves
    BY ElementOfSeq
  <2> QED BY <2>1 DEF Saves
<1>5. /\ binds' = {} /\ privacy' = None /\ migration' = migration /\ UNCHANGED <<numberOf, codes, aliases, database>>
  BY <1>1, <1>2 DEF ProfileFrame, numbers, Stirs, Resting
<1>6. ProfileWaits'
  <2>1. profiles' = [profileRows' EXCEPT ![u] = queue'[Len(queue')].value]
    BY <1>1, <1>2, <1>3, <1>5 DEF database, SameAll, SameProfiles
  <2>2. \A i \in 1 .. Len(queue') : queue'[i].table = "profiles" /\ queue'[i].key = u
    BY <1>1, <1>3, <1>4
  <2> QED BY <1>2, <1>5, <2>1, <2>2 DEF database, ProfileWaits, SameAll, SameNumbers, SameCodes, SameAliases
<1> QED BY <1>2, <1>3, <1>5, <1>6 DEF OneAtATime, Waiting, Resting, Settled

LEMMA AliasOne ==
    ASSUME UsersTyped, SqliteInv, ~pooled, lossless,
           NEW w \in Words, NEW c \in Optional(Classes), putAlias(w, c)
    PROVE  OneAtATime'
<1>1. Resting /\ SameAll
  BY FreeRests DEF putAlias, Edit
<1>2. PICK a : a = [table |-> "aliases", key |-> w, value |-> c]
  OBVIOUS
<1>3. a.table = "aliases" /\ a.key = w /\ a.value = c /\ a \in Item
  BY <1>2 DEF Item
<1>4. queue' = <<a>>
  BY <1>1, <1>2, <1>3 DEF putAlias, Enqueue, Resting
<1>5. Len(queue') = 1 /\ queue'[1] = a /\ queue' # <<>>
  BY <1>3, <1>4
<1>6. AliasWaits'
  BY <1>1, <1>3, <1>5 DEF putAlias, numbers, database, AliasWaits, SameAll, SameNumbers, SameProfiles,
     SameCodes, SameAliases
<1> QED
  BY <1>1, <1>5, <1>6 DEF putAlias, numbers, jobs, OneAtATime, Waiting, Resting, Settled

LEMMA LandOne ==
    ASSUME UsersTyped, SqliteInv, ~pooled, lossless, Land
    PROVE  OneAtATime'
<1> DEFINE w == Head(queue)
<1>0. /\ queue # <<>> /\ queue' = Tail(queue)
      /\ codeRows' = IF w.table = "codes" THEN codeSaved(w) ELSE codeRows
      /\ profileRows' = IF w.table = "profiles" THEN [profileRows EXCEPT ![w.key] = w.value] ELSE profileRows
      /\ aliasRows' = IF w.table = "aliases" THEN [aliasRows EXCEPT ![w.key] = w.value] ELSE aliasRows
  BY DEF Land
<1>1. /\ numberOf' = numberOf /\ bindRows' = bindRows /\ profiles' = profiles /\ codes' = codes
      /\ aliases' = aliases /\ binds' = binds /\ privacy' = privacy /\ migration' = migration
  BY DEF Land, numbers, jobs
<1>2. Waiting
  BY <1>0 DEF SqliteInv, OneAtATime, Resting, BindingOne, AnonymizingOne, MigratingOne
<1>3. /\ w = queue[1] /\ w \in Item /\ Len(queue) \in Nat /\ Len(queue) > 0 /\ Len(queue') = Len(queue) - 1
      /\ queue' \in Seq(Item)
      /\ \A i \in 1 .. Len(queue') : i + 1 \in 1 .. Len(queue) /\ queue'[i] = queue[i + 1]
  <2>1. Len(queue) \in Nat
    BY DEF UsersTyped, TypedQueue
  <2> QED BY <1>0, <2>1, HeadOfQueue
<1> HIDE DEF w
<1>4. Len(queue) = 1 => queue' = <<>>
  BY <1>3, EmptySeq
<1>5. ASSUME queue' = <<>>, SameAll' PROVE OneAtATime'
  BY <1>1, <1>2, <1>5 DEF OneAtATime, Waiting, Resting, Settled
<1>6. CASE CodeWaits
  <2>1. w.table = "codes" /\ codeRows[w.key] = None /\ \A d \in Codes : codeRows[d] # w.value
    BY <1>3, <1>6 DEF CodeWaits
  <2>2. codeRows' = [codeRows EXCEPT ![w.key] = w.value]
    BY <1>0, <2>1 DEF codeSaved
  <2>3. codes = codeRows'
    BY <1>3, <1>6, <2>2 DEF CodeWaits
  <2>4. profileRows' = profileRows /\ aliasRows' = aliasRows
    BY <1>0, <2>1
  <2>5. SameAll'
    BY <1>1, <1>6, <2>3, <2>4 DEF CodeWaits, SameAll, SameNumbers, SameProfiles, SameCodes, SameAliases
  <2> QED BY <1>4, <1>5, <1>6, <2>5 DEF CodeWaits
<1>7. CASE AliasWaits
  <2>1. w.table = "aliases" /\ aliases = [aliasRows EXCEPT ![w.key] = w.value]
    BY <1>3, <1>7 DEF AliasWaits
  <2>2. aliases = aliasRows' /\ profileRows' = profileRows /\ codeRows' = codeRows
    BY <1>0, <2>1
  <2>3. SameAll'
    BY <1>1, <1>7, <2>2 DEF AliasWaits, SameAll, SameNumbers, SameProfiles, SameCodes, SameAliases
  <2> QED BY <1>4, <1>5, <1>7, <2>3 DEF AliasWaits
<1>8. CASE ProfileWaits
  <2>1. PICK u \in Users :
            /\ \A i \in 1 .. Len(queue) : queue[i].table = "profiles" /\ queue[i].key = u
            /\ profiles = [profileRows EXCEPT ![u] = queue[Len(queue)].value]
    BY <1>8 DEF ProfileWaits
  <2>2. w.table = "profiles" /\ w.key = u
    BY <1>3, <2>1
  <2>3. profileRows' = [profileRows EXCEPT ![u] = w.value] /\ codeRows' = codeRows /\ aliasRows' = aliasRows
    BY <1>0, <2>2
  <2>4. SameNumbers' /\ SameCodes' /\ SameAliases'
    BY <1>1, <1>8, <2>3 DEF ProfileWaits, SameNumbers, SameCodes, SameAliases
  <2>5. CASE Len(queue) = 1
    <3>1. profiles = profileRows'
      BY <1>3, <2>1, <2>3, <2>5
    <3> QED BY <1>1, <1>4, <1>5, <2>4, <2>5, <3>1 DEF SameAll, SameProfiles
  <2>6. CASE Len(queue) # 1
    <3>1. Len(queue') \in 1 .. Len(queue') /\ Len(queue') + 1 = Len(queue) /\ queue' # <<>>
      BY <1>3, <2>6
    <3>2. queue'[Len(queue')] = queue[Len(queue)]
      BY <1>3, <3>1
    <3>3. profiles' = [profileRows' EXCEPT ![u] = queue'[Len(queue')].value]
      BY <1>1, <2>1, <2>3, <3>2
    <3>4. \A i \in 1 .. Len(queue') : queue'[i].table = "profiles" /\ queue'[i].key = u
      BY <1>3, <2>1
    <3>5. ProfileWaits'
      BY <2>4, <3>3, <3>4 DEF ProfileWaits
    <3> QED BY <1>1, <1>2, <3>1, <3>5 DEF OneAtATime, Waiting, Settled
  <2> QED BY <2>5, <2>6
<1> QED BY <1>2, <1>6, <1>7, <1>8 DEF Waiting

LEMMA AnonymizeOne ==
    ASSUME UsersTyped', SqliteInv, ~pooled, lossless, NEW by, NEW u \in Users, Anonymize(by, u)
    PROVE  OneAtATime'
<1>1. Resting /\ SameAll
  BY FreeRests DEF Anonymize, Edit
<1>2. privacy' = [user |-> u, todo |-> tables, left |-> stores, alone |-> Undisturbed(u)]
  BY DEF Anonymize
<1>3. binds' = {}
  BY <1>1 DEF Anonymize, Resting
<1>4. privacy' # None
  <2>1. Undisturbed(u) \in BOOLEAN
    BY DEF Undisturbed
  <2>2. tables \in Seq({"bindings", "profiles", "codes"})
    BY DEF tables
  <2>3. privacy' \in Anonymizing
    BY <1>2, <2>1, <2>2 DEF Anonymizing, stores
  <2> QED BY <2>3, UsersConstants
<1> QED
  BY <1>1, <1>3, <1>4 DEF Anonymize, database, OneAtATime, AnonymizingOne, SameBut, Resting, Settled, SameAll,
     SameNumbers, SameProfiles, SameCodes, SameAliases

LEMMA AnonymizingIsOne ==
    ASSUME SqliteInv, ~pooled, lossless, privacy # None
    PROVE  AnonymizingOne
BY DEF SqliteInv, OneAtATime, Resting, Waiting, BindingOne, MigratingOne

(* What a reload brings in step is no longer among what is left. *)
LEMMA ReloadOne ==
    ASSUME NEW left, NEW s \in {"profiles", "codes", "numbers"}, reload(s), SameBut(left),
           UNCHANGED <<aliases, database>>
    PROVE  SameBut(left \ {s})'
<1>1. SameAliases'
  BY DEF SameBut, SameAliases, database
<1>2. CASE s = "profiles"
  BY <1>1, <1>2 DEF reload, loadProfiles, SameBut, SameNumbers, SameProfiles, SameCodes, database
<1>3. CASE s = "codes"
  BY <1>1, <1>3 DEF reload, loadCodes, SameBut, SameNumbers, SameProfiles, SameCodes, database
<1>4. CASE s = "numbers"
  BY <1>1, <1>4 DEF reload, loadNumbers, SameBut, SameNumbers, SameProfiles, SameCodes, database
<1> QED BY <1>2, <1>3, <1>4

LEMMA AnonymizingStaysOne ==
    ASSUME UsersTyped, UsersTyped', JobShape, SqliteInv, ~pooled, lossless, AnonymizeTable \/ AnonymizeReload
    PROVE  OneAtATime'
<1>0. privacy # None /\ privacy \in Anonymizing
  BY DEF AnonymizeTable, AnonymizeReload, UsersTyped, TypedJobs, Optional
<1>1. AnonymizingOne
  BY <1>0, AnonymizingIsOne
<1>2. CASE AnonymizeTable
  <2>1. privacy.left = stores
    BY <1>0, <1>2 DEF AnonymizeTable, JobShape
  <2>2. privacy' = [privacy EXCEPT !.todo = Tail(@)]
    BY <1>2 DEF AnonymizeTable
  <2>3. privacy'.left = stores
    BY <1>0, <2>1, <2>2 DEF Anonymizing
  <2>4. privacy' # None
    <3>1. privacy.todo \in Seq({"bindings", "profiles", "codes"}) /\ privacy.todo # <<>>
      BY <1>0, <1>2 DEF Anonymizing, AnonymizeTable
    <3>2. Tail(privacy.todo) \in Seq({"bindings", "profiles", "codes"})
      BY <3>1, HeadTailProperties
    <3> DEFINE t == Tail(privacy.todo)
    <3>3. privacy' = [privacy EXCEPT !.todo = t]
      BY <2>2
    <3> HIDE DEF t
    <3>4. privacy' \in Anonymizing
      BY <1>0, <3>2, <3>3 DEF Anonymizing, t
    <3> QED BY <3>4, UsersConstants
  <2>5. queue' = queue /\ binds' = binds /\ migration' = migration /\ aliases' = aliases /\ aliasRows' = aliasRows
    BY <1>2 DEF AnonymizeTable, numbers
  <2>6. SameBut(stores)'
    BY <1>1, <2>5 DEF AnonymizingOne, SameBut, SameAliases, stores
  <2>7. SameBut(privacy.left)'
    BY <2>3, <2>6 DEF SameBut, stores
  <2> QED BY <1>1, <2>4, <2>5, <2>7 DEF OneAtATime, AnonymizingOne, Settled
<1>3. CASE AnonymizeReload
  <2>1. PICK s \in privacy.left : reload(s) /\ privacy' = [privacy EXCEPT !.left = @ \ {s}]
    BY <1>3 DEF AnonymizeReload
  <2>2. s \in {"profiles", "codes", "numbers"} /\ privacy' \in Anonymizing /\ privacy'.left = privacy.left \ {s}
    BY <1>0, <2>1 DEF Anonymizing
  <2>3. UNCHANGED <<queue, binds, migration, aliases, database>>
    BY <1>3 DEF AnonymizeReload
  <2>4. PICK l : l = privacy.left
    OBVIOUS
  <2>5. SameBut(l)
    BY <1>1, <2>4 DEF AnonymizingOne
  <2>6. SameBut(l \ {s})'
    BY <2>1, <2>2, <2>3, <2>5, ReloadOne
  <2>7. privacy'.left = l \ {s} /\ privacy' # None
    BY <2>2, <2>4, UsersConstants
  <2> QED BY <1>1, <2>3, <2>6, <2>7 DEF OneAtATime, AnonymizingOne, Settled, SameBut
<1> QED BY <1>2, <1>3

LEMMA AnswerOne ==
    ASSUME UsersTyped, CodesInv, SqliteInv, ~pooled, lossless, AnonymizeAnswer
    PROVE  OneAtATime'
<1>0. privacy # None /\ privacy.left = {} /\ privacy.user \in Users /\ privacy' = None
  BY DEF AnonymizeAnswer, UsersTyped, TypedJobs, Optional, Anonymizing
<1>1. AnonymizingOne
  BY <1>0, AnonymizingIsOne
<1>2. queue = <<>> /\ binds = {} /\ Settled /\ SameAll
  BY <1>0, <1>1 DEF AnonymizingOne, SameBut, SameAll
<1>3. /\ numberOf' = numberOf /\ binds' = binds /\ profiles' = profiles /\ aliases' = aliases
      /\ migration' = migration /\ UNCHANGED database
  BY DEF AnonymizeAnswer, numbers
<1>4. CASE codeFor(privacy.user)
  <2>1. PICK t \in Users : t = privacy.user
    BY <1>0
  <2>2. codeFor(t)
    BY <1>4, <2>1
  <2> QED BY <1>0, <1>2, <1>3, <2>2, CodeForOne
<1>5. CASE UNCHANGED <<codes, queue>>
  BY <1>0, <1>2, <1>3, <1>5 DEF database, OneAtATime, Resting, Settled, SameAll, SameNumbers, SameProfiles,
     SameCodes, SameAliases
<1> QED BY <1>4, <1>5 DEF AnonymizeAnswer

LEMMA MigrateOne ==
    ASSUME SqliteInv, ~pooled, lossless, NEW by, Migrate(by)
    PROVE  OneAtATime'
<1>1. Resting /\ SameAll
  BY FreeRests DEF Migrate, Edit
<1>2. migration'.step = "backup"
  BY DEF Migrate
<1> QED
  BY <1>1, <1>2 DEF Migrate, numbers, database, OneAtATime, Resting, Settled, SameAll, SameNumbers,
     SameProfiles, SameCodes, SameAliases

LEMMA BackupOne ==
    ASSUME UsersTyped, SqliteInv, ~pooled, lossless, Backup
    PROVE  OneAtATime'
<1>0. migration # None /\ migration \in Migrating /\ migration.step = "backup"
  BY DEF Backup, UsersTyped, TypedJobs, Optional
<1>1. queue = <<>> /\ binds = {} /\ privacy = None
  BY DEF Backup
<1>2. SameAll
  <2>1. Free
    BY <1>0, <1>1 DEF Free
  <2> QED BY <2>1, FreeRests
<1>3. migration' = [migration EXCEPT !.step = "apply"]
  BY DEF Backup
<1>4. migration' # None /\ migration'.step = "apply"
  <2>1. migration' \in Migrating
    BY <1>0, <1>3 DEF Migrating
  <2> QED BY <1>0, <1>3, <2>1, UsersConstants DEF Migrating
<1>5. SameBut(migration.left)'
  BY <1>2 DEF Backup, numbers, database, SameBut, SameAll, SameNumbers, SameProfiles, SameCodes, SameAliases
<1> QED BY <1>1, <1>4, <1>5 DEF Backup, numbers, OneAtATime, MigratingOne

LEMMA MigratingIsOne ==
    ASSUME SqliteInv, ~pooled, lossless, migration # None, migration.step = "apply"
    PROVE  MigratingOne
BY DEF SqliteInv, OneAtATime, Resting, Waiting, BindingOne, AnonymizingOne, Settled

LEMMA MigratingStaysOne ==
    ASSUME UsersTyped, SqliteInv, ~pooled, lossless, MigrateProfile \/ MigrateCode \/ MigrateReload
    PROVE  OneAtATime'
<1>0. migration # None /\ migration \in Migrating /\ migration.step = "apply"
  BY DEF MigrateProfile, MigrateCode, MigrateReload, UsersTyped, TypedJobs, Optional
<1>1. MigratingOne
  BY <1>0, MigratingIsOne
<1>2. queue' = queue /\ binds' = binds /\ privacy' = privacy
  BY DEF MigrateProfile, MigrateCode, MigrateReload, numbers
<1>3. CASE MigrateProfile \/ MigrateCode
  <2>1. migration.left = {"profiles", "codes"}
    BY <1>0, <1>3 DEF MigrateProfile, MigrateCode, SqliteInv, MigrationShape
  <2>2. migration' \in Migrating /\ migration'.step = "apply" /\ migration'.left = migration.left
    <3>1. CASE MigrateProfile
      BY <1>0, <3>1 DEF MigrateProfile, Migrating
    <3>2. CASE MigrateCode
      BY <1>0, <3>2 DEF MigrateCode, Migrating
    <3> QED BY <1>3, <3>1, <3>2
  <2>3. numberOf' = numberOf /\ bindRows' = bindRows /\ aliases' = aliases /\ aliasRows' = aliasRows
    BY <1>3 DEF MigrateProfile, MigrateCode, numbers
  <2>4. SameBut(migration.left)'
    BY <1>1, <2>1, <2>2, <2>3 DEF MigratingOne, SameBut, SameNumbers, SameAliases
  <2>5. migration' # None
    BY <2>2, UsersConstants
  <2> QED BY <1>1, <1>2, <2>2, <2>4, <2>5 DEF OneAtATime, MigratingOne
<1>4. CASE MigrateReload
  <2>1. PICK s \in migration.left :
            /\ reload(s)
            /\ migration' = IF migration.left = {s} THEN None ELSE [migration EXCEPT !.left = @ \ {s}]
    BY <1>4 DEF MigrateReload
  <2>2. s \in {"profiles", "codes", "numbers"}
    BY <1>0, <2>1 DEF Migrating
  <2>3. UNCHANGED <<aliases, database>>
    BY <1>4 DEF MigrateReload
  <2>4. PICK l : l = migration.left
    OBVIOUS
  <2>5. SameBut(l)
    BY <1>1, <2>4 DEF MigratingOne
  <2>6. SameBut(l \ {s})'
    BY <2>1, <2>2, <2>3, <2>5, ReloadOne
  <2>7. CASE migration.left = {s}
    <3>1. migration' = None /\ l \ {s} = {}
      BY <2>1, <2>4, <2>7
    <3>2. SameAll'
      BY <2>6, <3>1 DEF SameBut, SameAll
    <3> QED BY <1>1, <1>2, <3>1, <3>2 DEF OneAtATime, Resting, Settled, MigratingOne
  <2>8. CASE migration.left # {s}
    <3>1. migration' \in Migrating /\ migration'.left = l \ {s} /\ migration'.step = "apply"
      BY <1>0, <2>1, <2>4, <2>8 DEF Migrating
    <3>2. migration' # None
      BY <3>1, UsersConstants
    <3> QED BY <1>1, <1>2, <2>6, <3>1, <3>2 DEF OneAtATime, MigratingOne
  <2> QED BY <2>7, <2>8
<1> QED BY <1>3, <1>4

LEMMA StartOne ==
    ASSUME UsersRestart
    PROVE  OneAtATime'
BY DEF UsersRestart, loadProfiles, loadNumbers, database, OneAtATime, Resting, Settled, SameAll, SameNumbers,
   SameProfiles, SameCodes, SameAliases

(* A database stays what it is, and only a new process forgets a failure. *)
LEMMA LossStays ==
    ASSUME UsersStep
    PROVE  pooled' = pooled /\ (lossless' => lossless \/ UsersRestart)
<1>1. ASSUME NEW o, NEW x, bindUser(o, x) PROVE pooled' = pooled /\ lossless' = lossless
  BY <1>1 DEF bindUser, Edit
<1>2. ASSUME NEW b, Delete(b) \/ Insert(b) \/ BindFails(b) PROVE pooled' = pooled /\ (lossless' => lossless)
  BY <1>2 DEF Delete, Insert, BindFails, history
<1>3. ASSUME NEW t, Show(t) PROVE pooled' = pooled /\ lossless' = lossless
  BY <1>3 DEF Show, Edit
<1>4. ASSUME NEW u, ProfileWrite(u) PROVE pooled' = pooled /\ lossless' = lossless
  BY <1>4 DEF ProfileWrite, ProfileFrame, Edit
<1>5. ASSUME NEW w, NEW c, putAlias(w, c) PROVE pooled' = pooled /\ lossless' = lossless
  BY <1>5 DEF putAlias, Edit, history
<1>6. ASSUME NEW by, NEW u, Anonymize(by, u) PROVE pooled' = pooled /\ lossless' = lossless
  BY <1>6 DEF Anonymize, Edit
<1>7. ASSUME NEW by, Migrate(by) PROVE pooled' = pooled /\ lossless' = lossless
  BY <1>7 DEF Migrate, Edit, history
<1>8. CASE \/ Land \/ WriteFails \/ AnonymizeTable \/ AnonymizeReload \/ AnonymizeAnswer \/ AnonymizeFails
           \/ Backup \/ MigrateProfile \/ MigrateCode \/ MigrateReload \/ MigrateFails
  BY <1>8 DEF Land, WriteFails, AnonymizeTable, AnonymizeReload, AnonymizeAnswer, AnonymizeFails, Backup,
     MigrateProfile, MigrateCode, MigrateReload, MigrateFails, history
<1>9. CASE UsersRestart
  BY <1>9 DEF UsersRestart
<1> QED BY <1>1, <1>2, <1>3, <1>4, <1>5, <1>6, <1>7, <1>8, <1>9 DEF UsersStep

LEMMA SqliteInvNext ==
    UsersTyped /\ UsersTyped' /\ JobShape /\ CodesInv /\ SqliteInv /\ [UsersNext]_usersVars => SqliteInv'
<1> SUFFICES ASSUME UsersTyped, UsersTyped', JobShape, CodesInv, SqliteInv, [UsersNext]_usersVars
             PROVE  SqliteInv'
  OBVIOUS
<1>1. CASE UNCHANGED usersVars
  <2>1. UNCHANGED <<pooled, numberOf, binds, profiles, codes, aliases, queue, bindRows, profileRows, codeRows,
                    aliasRows, privacy, migration, lossless>>
    BY <1>1 DEF usersVars, numbers, database, jobs, history
  <2>2. /\ MigrationShape' <=> MigrationShape
        /\ Resting' <=> Resting
        /\ SameAll' <=> SameAll
        /\ AnonymizingOne' <=> AnonymizingOne
        /\ MigratingOne' <=> MigratingOne
    BY <2>1 DEF MigrationShape, Resting, Settled, SameAll, SameNumbers, SameProfiles, SameCodes, SameAliases,
       AnonymizingOne, MigratingOne, SameBut
  <2>3. BindingOne' <=> BindingOne
    BY <2>1 DEF BindingOne, Settled, SameProfiles, SameCodes, SameAliases
  <2>4. Waiting' <=> Waiting
    BY <2>1 DEF Waiting, Settled, CodeWaits, AliasWaits, ProfileWaits, SameNumbers, SameProfiles, SameCodes,
       SameAliases
  <2> QED BY <2>1, <2>2, <2>3, <2>4 DEF SqliteInv, OneAtATime
<1>2. CASE UsersNext
  <2>0. UsersStep
    BY <1>2, UsersSteps
  <2>1. MigrationShape'
    BY <2>0, MigrationShapeNext DEF SqliteInv
  <2>2. ASSUME ~pooled', lossless' PROVE OneAtATime'
    <3>1. ~pooled /\ (lossless \/ UsersRestart)
      BY <2>0, <2>2, LossStays
    <3>2. CASE UsersRestart
      BY <3>2, StartOne
    <3>3. CASE lossless
      <4>1. ~(WriteFails \/ AnonymizeFails \/ MigrateFails)
        BY <2>2 DEF WriteFails, AnonymizeFails, MigrateFails
      <4>2. ASSUME NEW o \in Officials, NEW x \in Externals, bindUser(o, x) PROVE OneAtATime'
        BY <3>1, <3>3, <4>2, BindOne DEF OneAtATime
      <4> QED
        BY <2>0, <2>2, <3>1, <3>2, <3>3, <4>1, <4>2, BindStepsOne, ShowOne, ProfileOne, AliasOne, LandOne,
           AnonymizeOne, AnonymizingStaysOne, AnswerOne, MigrateOne, BackupOne, MigratingStaysOne DEF UsersStep
    <3> QED BY <3>1, <3>2, <3>3
  <2> QED BY <2>1, <2>2 DEF SqliteInv
<1> QED BY <1>1, <1>2

(* On SQLite, as long as no call failed, memory is what a restart would     *)
(* read whenever a handler may run: only one thing is ever under way, and   *)
(* what it has not brought in step is what is left of it.                  *)
THEOREM MemoryIsInStep == UsersSpec => []InStep
<1>1. UsersInit => SqliteInv
  BY DEF UsersInit, SqliteInv, MigrationShape, OneAtATime, Resting, Settled, SameAll, SameNumbers,
     SameProfiles, SameCodes, SameAliases
<1>2. SqliteInv => InStep
  BY FreeRests DEF InStep, SameAll, SameNumbers, SameProfiles, SameCodes, SameAliases
<1>3. ForgetInv => JobShape
  BY DEF ForgetInv
<1> QED
  BY <1>1, <1>2, <1>3, UsersStayTyped, ForgetInvStays, CodesInvStays, SqliteInvNext, PTL DEF UsersSpec
=============================================================================
