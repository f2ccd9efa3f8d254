-------------------------- MODULE JoinAudit_proofs --------------------------
(***************************************************************************)
(* Proofs about JoinAudit.tla: its type invariant; no decision is recorded *)
(* that the platform did not take; JoinDecision is implemented; a request  *)
(* is decided once; a live one stays listed; the table catches up.         *)
(***************************************************************************)
EXTENDS JoinAudit, TLAPS, FiniteSetTheorems, SequenceTheorems, WellFoundedInduction

USE DEF Decisions, Terminal, Statuses, Texts

-----------------------------------------------------------------------------
(* The pieces of a step are well typed.                                    *)

LEMMA WritesTyped ==
    /\ \A r \in Requests, row \in Rows : Upsert(r, row) \in Writes
    /\ \A r \in Requests, s \in Terminal, t \in Texts : Update(r, s, t) \in Writes
    /\ \A c \in Nat : Prune(c) \in Writes
    /\ \A r \in Requests, s \in Terminal : Audit(r, s) \in Writes
  BY DEF Upsert, Update, Prune, Audit, Writes

LEMMA FreshTyped == now \in Nat => Fresh \in Rows
  BY DEF Fresh, Rows

LEMMA AbsentTyped == Absent \in Rows
  BY DEF Absent, Rows

LEMMA WrittenTyped ==
    ASSUME NEW w \in Writes, NEW table \in [Requests -> Rows]
    PROVE  Written(w, table) \in [Requests -> Rows]
  <1> SUFFICES ASSUME NEW r \in Requests PROVE Written(w, table)[r] \in Rows
    BY DEF Written
  <1>1. CASE w.op = "upsert"
    BY <1>1 DEF Written, Revised, Writes, Rows
  <1>2. CASE w.op = "update"
    BY <1>2 DEF Written, Revised, Writes, Rows
  <1>3. CASE w.op = "prune"
    BY <1>3, AbsentTyped DEF Written, Writes
  <1>4. CASE w.op = "audit"
    BY <1>4 DEF Written, Writes
  <1> QED BY <1>1, <1>2, <1>3, <1>4 DEF Writes

LEMMA CountedTyped ==
    ASSUME NEW log \in [Requests -> [Terminal -> Nat]],
           NEW r \in Requests, NEW s \in Terminal
    PROVE  Counted(log, r, s) \in [Requests -> [Terminal -> Nat]]
  BY DEF Counted

LEMMA DecidedTyped ==
    ASSUME NEW p \in PlatformStates, NEW v \in Decisions
    PROVE  Decided(p, v) \in PlatformStates /\ Decided(p, v).status = v
  BY DEF Decided, PlatformStates

LEMMA OrdersTyped ==
    ASSUME NEW S \in SUBSET Requests, NEW f \in Orders(S)
    PROVE  f \in Seq(Requests)
  <1>1. IsFiniteSet(S)
    BY FS_Subset, ConstantsAssumption
  <1>2. Cardinality(S) \in Nat
    BY <1>1, FS_CardinalityType
  <1> QED BY <1>2 DEF Orders

LEMMA UpsertsTyped ==
    ASSUME NEW f \in Seq(Requests), now \in Nat
    PROVE  Upserts(f) \in Seq(Writes)
  BY FreshTyped, WritesTyped DEF Upserts

LEMMA ExpiryWritesTyped ==
    ASSUME NEW f \in Seq(Requests)
    PROVE  ExpiryWrites(f) \in Seq(Writes)
  <1> DEFINE n == Len(f)
  <1>1. n \in Nat
    OBVIOUS
  <1>2. ASSUME NEW i \in 1..(2 * n) PROVE ExpiryWrites(f)[i] \in Writes
    <2>1. CASE i % 2 = 1
      <3>1. (i + 1) \div 2 \in 1..n
        BY <1>1, <2>1
      <3> QED BY <2>1, <3>1, WritesTyped DEF ExpiryWrites
    <2>2. CASE i % 2 # 1
      <3>1. i \div 2 \in 1..n
        BY <1>1, <2>2
      <3> QED BY <2>2, <3>1, WritesTyped DEF ExpiryWrites
    <2> QED BY <2>1, <2>2
  <1> QED BY <1>1, <1>2 DEF ExpiryWrites

(* One lemma per conjunct group: what extending the queue preserves.       *)
QueueOK == /\ queue \in Seq(Writes)
           /\ \A i \in DOMAIN queue : WriteIsReal(queue[i])

LEMMA QueueExtends ==
    ASSUME QueueOK, NEW more \in Seq(Writes),
           \A i \in DOMAIN more : WriteIsReal(more[i]),
           queue' = queue \o more, UNCHANGED platform
    PROVE  QueueOK'
  <1>1. queue' \in Seq(Writes)
    BY DEF QueueOK
  <1>2. ASSUME NEW i \in DOMAIN queue' PROVE WriteIsReal(queue[i])'
    <2>1. \/ i \in DOMAIN queue /\ queue'[i] = queue[i]
          \/ i - Len(queue) \in DOMAIN more /\ queue'[i] = more[i - Len(queue)]
      BY <1>2 DEF QueueOK
    <2> QED BY <2>1 DEF QueueOK, WriteIsReal, Matches
  <1> QED BY <1>1, <1>2 DEF QueueOK

IInv == TypeOK /\ DecisionsAreReal

(* What the sweep and the expiry of a set of requests preserve.            *)
LEMMA SubmitAndExpirePreserves ==
    ASSUME IInv, NEW new \in SUBSET Requests, NEW dead \in SUBSET Requests,
           SubmitAndExpire(new, dead), UNCHANGED platform
    PROVE  /\ QueueOK'
           /\ requests' \in [Requests -> Rows]
           /\ auditLog' \in [Requests -> [Terminal -> Nat]]
           /\ \A r \in Requests : Matches(r, requests[r].status)'
           /\ \A r \in Requests, s \in Decisions : auditLog'[r][s] = auditLog[r][s]
  <1> USE DEF IInv, TypeOK, DecisionsAreReal
  <1>1. PICK added \in Orders(new), expired \in Orders(dead) :
            queue' = queue \o Upserts(added) \o ExpiryWrites(expired)
    BY DEF SubmitAndExpire
  <1>2. added \in Seq(Requests) /\ expired \in Seq(Requests)
    BY OrdersTyped
  <1>3. Upserts(added) \in Seq(Writes) /\ ExpiryWrites(expired) \in Seq(Writes)
    BY <1>2, UpsertsTyped, ExpiryWritesTyped
  <1>4. \A i \in DOMAIN Upserts(added) : WriteIsReal(Upserts(added)[i])
    BY <1>2 DEF Upserts, Upsert, Fresh, WriteIsReal
  <1>5. \A i \in DOMAIN ExpiryWrites(expired) : WriteIsReal(ExpiryWrites(expired)[i])
    BY <1>2 DEF ExpiryWrites, Update, Audit, WriteIsReal, Matches
  <1>6. QueueOK'
    <2> DEFINE more == Upserts(added) \o ExpiryWrites(expired)
    <2>1. more \in Seq(Writes)
      BY <1>3
    <2>2. ASSUME NEW i \in DOMAIN more PROVE WriteIsReal(more[i])
      <3>1. \/ i \in DOMAIN Upserts(added) /\ more[i] = Upserts(added)[i]
            \/ /\ i - Len(Upserts(added)) \in DOMAIN ExpiryWrites(expired)
               /\ more[i] = ExpiryWrites(expired)[i - Len(Upserts(added))]
        BY <1>3
      <3> QED BY <3>1, <1>4, <1>5
    <2>3. queue' = queue \o more
      BY <1>1, <1>3
    <2>4. QueueOK
      BY DEF QueueOK
    <2> HIDE DEF more
    <2> QED BY <2>1, <2>2, <2>3, <2>4, QueueExtends
  <1>7. requests' \in [Requests -> Rows]
    BY FreshTyped DEF SubmitAndExpire, WithStatus, Rows
  <1>8. auditLog' \in [Requests -> [Terminal -> Nat]]
    BY DEF SubmitAndExpire
  <1>9. \A r \in Requests : Matches(r, requests[r].status)'
    BY DEF SubmitAndExpire, WithStatus, Matches, Fresh, Rows
  <1>10. \A r \in Requests, s \in Decisions : auditLog'[r][s] = auditLog[r][s]
    BY DEF SubmitAndExpire
  <1> QED BY <1>6, <1>7, <1>8, <1>9, <1>10

-----------------------------------------------------------------------------
(* One lemma per group of actions: it preserves the invariant.             *)

LEMMA InitInv == Init => IInv
  <1> SUFFICES ASSUME Init PROVE IInv
    OBVIOUS
  <1> USE DEF Init
  <1>1. TypeOK
    BY DEF TypeOK, Rows, Absent, Idle, DeciderStates, SyncerStates, PlatformStates
  <1>2. DecisionsAreReal
    BY DEF DecisionsAreReal, Matches, Absent, Idle
  <1> QED BY <1>1, <1>2 DEF IInv

LEMMA PlatformInv ==
    ASSUME IInv, NEW r \in Requests,
           \/ Apply(r)
           \/ \E v \in Decisions : DecideOutside(r, v)
    PROVE  IInv'
  <1> USE DEF IInv, memory, disk, budgets
  <1>0. platform' \in [Requests -> PlatformStates]
    <2>1. CASE Apply(r)
      BY <2>1 DEF TypeOK, Apply, PlatformStates
    <2>2. CASE \E v \in Decisions : DecideOutside(r, v)
      BY <2>2, DecidedTyped DEF TypeOK, DecideOutside
    <2> QED BY <2>1, <2>2
  <1>1. TypeOK'
    BY <1>0 DEF TypeOK, Apply, DecideOutside
  <1>2. platform[r].status \in {"none", "open"} /\
        \A q \in Requests : q # r => platform'[q] = platform[q]
    BY DEF TypeOK, Apply, DecideOutside
  <1>3. \A s : \A q \in Requests : Matches(q, s) => Matches(q, s)'
    BY <1>2 DEF Matches
  <1>4. \A q \in Requests, s \in Decisions :
            platform[q].status = s => platform'[q].status = s
    BY <1>2
  <1>5. UNCHANGED <<requests, rows, queue, auditLog, auditRows, deciders>>
    BY DEF Apply, DecideOutside
  <1>6. \A i \in DOMAIN queue : WriteIsReal(queue[i])'
    <2> SUFFICES ASSUME NEW i \in DOMAIN queue PROVE WriteIsReal(queue[i])'
      OBVIOUS
    <2>1. queue[i] \in Writes /\ WriteIsReal(queue[i])
      BY DEF TypeOK, DecisionsAreReal
    <2>2. queue[i].op \in {"update", "audit"} => queue[i].r \in Requests
      BY <2>1 DEF Writes
    <2> QED BY <1>3, <1>5, <2>1, <2>2 DEF WriteIsReal
  <1>7. \A d \in Deciders : deciders[d].pc = "answered" => deciders[d].r \in Requests
    BY DEF TypeOK, DeciderStates, Idle
  <1>8. DecisionsAreReal'
    BY <1>3, <1>4, <1>5, <1>6, <1>7 DEF DecisionsAreReal
  <1> QED BY <1>1, <1>8

LEMMA WriteInv ==
    ASSUME IInv, WriteDone \/ WriteFails
    PROVE  IInv'
  <1> USE DEF IInv, external, disk, budgets
  <1>1. queue # <<>> /\ queue' = Tail(queue) /\ queue \in Seq(Writes)
    BY DEF TypeOK, WriteDone, WriteFails
  <1>2. Head(queue) \in Writes /\ WriteIsReal(Head(queue))
    BY <1>1 DEF DecisionsAreReal
  <1>3. queue' \in Seq(Writes)
    BY <1>1
  <1>4. UNCHANGED <<platform, requests, auditLog, deciders>>
    BY DEF WriteDone, WriteFails
  <1>5. \A i \in DOMAIN queue' : WriteIsReal(queue[i])'
    <2> SUFFICES ASSUME NEW i \in DOMAIN queue' PROVE WriteIsReal(queue[i])'
      OBVIOUS
    <2>1. i + 1 \in DOMAIN queue /\ queue'[i] = queue[i + 1]
      BY <1>1
    <2> QED BY <2>1, <1>4 DEF DecisionsAreReal, WriteIsReal, Matches
  <1>6. /\ rows' \in [Requests -> Rows]
        /\ auditRows' \in [Requests -> [Terminal -> Nat]]
        /\ \A r \in Requests : Matches(r, rows'[r].status)
        /\ \A r \in Requests, s \in Decisions :
              auditRows'[r][s] > 0 => platform[r].status = s
    <2>1. CASE UNCHANGED <<rows, auditRows>>
      BY <2>1 DEF TypeOK, DecisionsAreReal
    <2>2. CASE /\ Head(queue).op # "audit"
               /\ rows' = Written(Head(queue), rows)
               /\ UNCHANGED auditRows
      <3>1. rows' \in [Requests -> Rows]
        BY <2>2, <1>2, WrittenTyped DEF TypeOK
      <3>2. \A r \in Requests : Matches(r, rows'[r].status)
        BY <2>2, <1>2 DEF Written, Revised, Absent, WriteIsReal, Matches, Writes,
                         DecisionsAreReal, TypeOK
      <3> QED BY <3>1, <3>2, <2>2 DEF TypeOK, DecisionsAreReal
    <2>3. CASE /\ Head(queue).op = "audit"
               /\ auditRows' = Counted(auditRows, Head(queue).r, Head(queue).status)
               /\ UNCHANGED rows
      <3>1. Head(queue).r \in Requests /\ Head(queue).status \in Terminal
        BY <2>3, <1>2 DEF Writes
      <3>2. auditRows' \in [Requests -> [Terminal -> Nat]]
        BY <2>3, <3>1, CountedTyped DEF TypeOK
      <3>3. ASSUME NEW r \in Requests, NEW s \in Decisions, auditRows'[r][s] > 0
            PROVE  platform[r].status = s
        <4>1. CASE r = Head(queue).r /\ s = Head(queue).status
          BY <4>1, <2>3, <1>2 DEF WriteIsReal, Matches
        <4>2. CASE ~(r = Head(queue).r /\ s = Head(queue).status)
          <5>1. auditRows'[r][s] = auditRows[r][s]
            BY <4>2, <2>3, <3>1 DEF Counted, TypeOK
          <5> QED BY <5>1, <3>3 DEF DecisionsAreReal
        <4> QED BY <4>1, <4>2
      <3> QED BY <2>3, <3>2, <3>3 DEF TypeOK, DecisionsAreReal
    <2> QED BY <2>1, <2>2, <2>3 DEF WriteDone, WriteFails
  <1>7. TypeOK'
    BY <1>3, <1>6 DEF TypeOK, WriteDone, WriteFails
  <1>8. DecisionsAreReal'
    BY <1>4, <1>5, <1>6 DEF DecisionsAreReal, Matches
  <1> QED BY <1>7, <1>8

LEMMA DecidersTyped ==
    ASSUME TypeOK, NEW d \in Deciders
    PROVE  /\ deciders[d].pc = "calling" =>
                /\ deciders[d].r \in Requests
                /\ deciders[d].verdict \in Decisions
           /\ deciders[d].pc = "answered" =>
                /\ deciders[d].r \in Requests
                /\ deciders[d].verdict \in Decisions
                /\ deciders[d].answer \in Answers
  BY DEF TypeOK, DeciderStates, Idle

LEMMA HandlerInv ==
    ASSUME IInv, NEW d \in Deciders, NEW r \in Requests,
           \/ HandleEvent(d, r)
           \/ \E v \in Decisions : Review(d, r, v)
    PROVE  IInv'
  <1> USE DEF IInv, external, memory, disk, budgets
  <1>1. QueueOK' /\ requests' \in [Requests -> Rows] /\
        \A q \in Requests : Matches(q, requests[q].status)'
    <2>0. QueueOK /\ UNCHANGED platform
      BY DEF QueueOK, TypeOK, DecisionsAreReal, HandleEvent, Review
    <2>1. CASE UNCHANGED <<requests, queue>>
      BY <2>0, <2>1 DEF QueueOK, TypeOK, DecisionsAreReal, WriteIsReal, Matches
    <2>2. CASE /\ requests' = [requests EXCEPT ![r] = Fresh]
               /\ queue' = Append(queue, Upsert(r, Fresh))
      <3>1. Fresh \in Rows /\ Upsert(r, Fresh) \in Writes
        BY FreshTyped, WritesTyped DEF TypeOK
      <3>2. WriteIsReal(Upsert(r, Fresh))
        BY DEF WriteIsReal, Upsert, Fresh
      <3> DEFINE more == <<Upsert(r, Fresh)>>
      <3>3. queue' = queue \o more
        BY <2>0, <2>2, <3>1 DEF QueueOK
      <3>a. more \in Seq(Writes) /\ \A i \in DOMAIN more : WriteIsReal(more[i])
        BY <3>1, <3>2
      <3>4. QueueOK'
        <4> HIDE DEF more
        <4> QED BY <2>0, <3>a, <3>3, QueueExtends
      <3>5. requests' \in [Requests -> Rows]
        BY <2>2, <3>1 DEF TypeOK
      <3>6. \A q \in Requests : Matches(q, requests[q].status)'
        BY <2>2, <2>0 DEF Fresh, Matches, TypeOK, DecisionsAreReal
      <3> QED BY <3>4, <3>5, <3>6
    <2> QED BY <2>1, <2>2 DEF HandleEvent, Review, Submitted
  <1>2. deciders' \in [Deciders -> DeciderStates]
    <2>1. \A v \in Decisions : [pc |-> "calling", r |-> r, verdict |-> v] \in DeciderStates
      BY DEF DeciderStates
    <2> QED BY <2>1 DEF HandleEvent, Review, Call, TypeOK
  <1>3. \A e \in Deciders : deciders'[e].pc = "answered" => deciders'[e] = deciders[e]
    BY DEF HandleEvent, Review, Call, TypeOK
  <1>4. UNCHANGED <<now, platform, up, rows, auditLog, auditRows, syncers, cooling,
                    crashes, failures>>
    BY DEF HandleEvent, Review
  <1>5. TypeOK'
    BY <1>1, <1>2, <1>4 DEF TypeOK, QueueOK
  <1>6. DecisionsAreReal'
    BY <1>1, <1>3, <1>4 DEF DecisionsAreReal, QueueOK, Matches
  <1> QED BY <1>5, <1>6

LEMMA AnswerInv ==
    ASSUME IInv, NEW d \in Deciders, PlatformDecides(d) \/ PlatformRefuses(d)
    PROVE  IInv'
  <1> USE DEF IInv, external, memory, disk, budgets
  <1> DEFINE r == deciders[d].r
             v == deciders[d].verdict
  <1>1. r \in Requests /\ v \in Decisions
    BY DecidersTyped DEF PlatformDecides, PlatformRefuses
  <1>2. PICK a \in Answers : Answer(d, a) /\ (a = "ok" => PlatformDecides(d))
    BY DEF PlatformDecides, PlatformRefuses, Answers
  <1>3. UNCHANGED <<now, up, requests, queue, rows, auditLog, auditRows, syncers, cooling,
                    crashes, failures>>
    BY DEF PlatformDecides, PlatformRefuses
  <1>4. \/ UNCHANGED platform
        \/ /\ platform[r].status = "open"
           /\ platform' = [platform EXCEPT ![r] = Decided(@, v)]
    BY DEF PlatformDecides, PlatformRefuses
  <1>5. deciders' \in [Deciders -> DeciderStates]
    BY <1>1, <1>2 DEF Answer, TypeOK, DeciderStates
  <1>6. platform' \in [Requests -> PlatformStates]
    <2>1. platform[r] \in PlatformStates
      BY <1>1 DEF TypeOK
    <2>2. Decided(platform[r], v) \in PlatformStates
      BY <1>1, <2>1, DecidedTyped
    <2> HIDE DEF r, v
    <2> QED BY <1>1, <1>4, <2>2 DEF TypeOK
  <1>7. TypeOK'
    BY <1>3, <1>5, <1>6 DEF TypeOK
  <1>8. \A q \in Requests, s \in Decisions :
            platform[q].status = s => platform'[q].status = s
    BY <1>1, <1>4 DEF TypeOK, Decided
  <1>9. \A s : \A q \in Requests : Matches(q, s) => Matches(q, s)'
    BY <1>8 DEF Matches
  <1>10. \A i \in DOMAIN queue : WriteIsReal(queue[i])'
    <2> SUFFICES ASSUME NEW i \in DOMAIN queue PROVE WriteIsReal(queue[i])'
      OBVIOUS
    <2>1. queue[i] \in Writes /\ WriteIsReal(queue[i])
      BY DEF TypeOK, DecisionsAreReal
    <2>2. queue[i].op \in {"update", "audit"} => queue[i].r \in Requests
      BY <2>1 DEF Writes
    <2> QED BY <1>3, <1>9, <2>1, <2>2 DEF WriteIsReal
  <1>11. ASSUME NEW e \in Deciders, deciders'[e].pc = "answered", deciders'[e].answer = "ok"
         PROVE  Matches(deciders[e].r, deciders[e].verdict)'
    <2>1. CASE e = d
      <3>1. a = "ok" /\ deciders'[e].r = r /\ deciders'[e].verdict = v
        BY <2>1, <1>2, <1>11 DEF Answer, TypeOK
      <3>2. platform'[r].status = v
        BY <3>1, <1>2, <1>1 DEF PlatformDecides, Decided, TypeOK
      <3> QED BY <3>1, <3>2 DEF Matches
    <2>2. CASE e # d
      <3>1. deciders'[e] = deciders[e]
        BY <2>2, <1>2 DEF Answer, TypeOK
      <3>2. deciders[e].r \in Requests /\ Matches(deciders[e].r, deciders[e].verdict)
        BY <3>1, <1>11, DecidersTyped DEF DecisionsAreReal
      <3> QED BY <3>1, <3>2, <1>9
    <2> QED BY <2>1, <2>2
  <1>12. DecisionsAreReal'
    BY <1>3, <1>8, <1>9, <1>10, <1>11 DEF DecisionsAreReal
  <1> QED BY <1>7, <1>12

LEMMA RecordPreserves ==
    ASSUME IInv, NEW r \in Requests, NEW v \in Decisions, Matches(r, v),
           Record(r, v), UNCHANGED platform
    PROVE  /\ QueueOK'
           /\ requests' \in [Requests -> Rows]
           /\ auditLog' \in [Requests -> [Terminal -> Nat]]
           /\ \A q \in Requests : Matches(q, requests[q].status)'
           /\ \A q \in Requests, s \in Decisions :
                 auditLog'[q][s] > 0 => platform[q].status = s
  <1> USE DEF IInv, TypeOK
  <1>1. PICK text \in Texts : queue' = queue \o <<Update(r, v, text), Audit(r, v)>>
    BY DEF Record
  <1> DEFINE more == <<Update(r, v, text), Audit(r, v)>>
  <1>2. more \in Seq(Writes)
    <2>1. Update(r, v, text) \in Writes /\ Audit(r, v) \in Writes
      BY WritesTyped
    <2> QED BY <2>1
  <1>3. \A i \in DOMAIN more : WriteIsReal(more[i])
    <2>1. WriteIsReal(Update(r, v, text)) /\ WriteIsReal(Audit(r, v))
      BY DEF WriteIsReal, Update, Audit, Matches
    <2> QED BY <2>1
  <1>4. QueueOK'
    <2>1. QueueOK /\ queue' = queue \o more
      BY <1>1 DEF QueueOK, DecisionsAreReal
    <2> HIDE DEF more
    <2> QED BY <1>2, <1>3, <2>1, QueueExtends
  <1>5. requests' \in [Requests -> Rows] /\
        \A q \in Requests : Matches(q, requests[q].status)'
    <2>1. WithStatus(requests[r], v) \in Rows /\ WithStatus(requests[r], v).status = v
      BY DEF WithStatus, Rows
    <2> QED BY <2>1 DEF Record, Matches, DecisionsAreReal
  <1>6. auditLog' \in [Requests -> [Terminal -> Nat]]
    BY CountedTyped DEF Record
  <1>7. ASSUME NEW q \in Requests, NEW s \in Decisions, auditLog'[q][s] > 0
        PROVE  platform[q].status = s
    <2>1. CASE q = r /\ s = v
      BY <2>1 DEF Matches
    <2>2. CASE ~(q = r /\ s = v)
      <3>1. auditLog'[q][s] = auditLog[q][s]
        BY <2>2 DEF Record, Counted
      <3> QED BY <3>1, <1>7 DEF DecisionsAreReal
    <2> QED BY <2>1, <2>2
  <1> QED BY <1>4, <1>5, <1>6, <1>7

LEMMA SettleInv ==
    ASSUME IInv, NEW d \in Deciders, Settle(d)
    PROVE  IInv'
  <1> USE DEF IInv, external, disk, budgets
  <1> DEFINE r == deciders[d].r
             v == deciders[d].verdict
             a == deciders[d].answer
  <1>1. r \in Requests /\ v \in Decisions /\ a \in Answers
    BY DecidersTyped DEF Settle
  <1>2. UNCHANGED <<now, platform, up, rows, auditRows, syncers, cooling, crashes, failures>>
    BY DEF Settle
  <1>3. /\ QueueOK'
        /\ requests' \in [Requests -> Rows]
        /\ auditLog' \in [Requests -> [Terminal -> Nat]]
        /\ \A q \in Requests : Matches(q, requests[q].status)'
        /\ \A q \in Requests, s \in Decisions :
              auditLog'[q][s] > 0 => platform[q].status = s
    <2>1. CASE UNCHANGED memory
      BY <2>1, <1>2 DEF memory, QueueOK, TypeOK, DecisionsAreReal, WriteIsReal, Matches
    <2>2. CASE a = "ok" /\ Record(r, v)
      <3>1. Matches(r, v)
        BY <2>2 DEF Settle, DecisionsAreReal
      <3> HIDE DEF r, v, a
      <3> QED BY <3>1, <2>2, <1>1, <1>2, RecordPreserves
    <2>3. CASE Expire({r})
      <3>1. SubmitAndExpire({}, {r}) /\ {r} \in SUBSET Requests /\ {} \in SUBSET Requests
        BY <2>3, <1>1 DEF Expire
      <3> HIDE DEF r, v, a
      <3> QED BY <3>1, <1>2, SubmitAndExpirePreserves DEF DecisionsAreReal
    <2> QED BY <2>1, <2>2, <2>3 DEF Settle, Outcome
  <1>4. deciders' \in [Deciders -> DeciderStates]
    BY DEF Settle, TypeOK, DeciderStates
  <1>5. \A e \in Deciders : deciders'[e].pc = "answered" => deciders'[e] = deciders[e]
    BY DEF Settle, Idle, TypeOK
  <1>6. TypeOK'
    BY <1>2, <1>3, <1>4 DEF TypeOK, QueueOK
  <1>7. \A e \in Deciders : deciders'[e].pc = "answered" =>
            (deciders'[e].answer = "ok" => Matches(deciders[e].r, deciders[e].verdict)')
    BY <1>2, <1>5 DEF DecisionsAreReal, Matches
  <1>8. \A q \in Requests, s \in Decisions :
            auditRows'[q][s] > 0 => platform'[q].status = s
    BY <1>2 DEF DecisionsAreReal
  <1>9. \A q \in Requests : Matches(q, rows[q].status)'
    BY <1>2 DEF DecisionsAreReal, Matches
  <1>10. DecisionsAreReal'
    BY <1>2, <1>3, <1>7, <1>8, <1>9 DEF DecisionsAreReal, QueueOK
  <1> QED BY <1>6, <1>10

LEMMA SweepInv ==
    ASSUME IInv, ExpireStalePending \/ \E s \in Syncers : SyncApply(s)
    PROVE  IInv'
  <1> USE DEF IInv, external, disk, budgets
  <1>1. \E new, dead \in SUBSET Requests : SubmitAndExpire(new, dead)
    <2>1. CASE ExpireStalePending
      BY <2>1 DEF ExpireStalePending, Expire, OutOfTtl, Pending
    <2>2. ASSUME NEW s \in Syncers, SyncApply(s)
          PROVE  \E new, dead \in SUBSET Requests : SubmitAndExpire(new, dead)
      <3>0. syncers[s] \in SyncerStates /\ syncers[s].pc = "listed"
        BY <2>2 DEF SyncApply, TypeOK
      <3>1. syncers[s].list \in SUBSET Requests
        BY <3>0 DEF SyncerStates, Idle
      <3> QED BY <2>2, <3>1 DEF SyncApply, Unknown, MissingFrom, OutOfTtl, Pending
    <2> QED BY <2>1, <2>2
  <1>2. UNCHANGED <<now, platform, up, rows, auditRows, deciders, cooling, crashes, failures>>
    BY DEF ExpireStalePending, SyncApply
  <1>3. syncers' \in [Syncers -> SyncerStates]
    BY DEF ExpireStalePending, SyncApply, TypeOK, SyncerStates
  <1>4. /\ QueueOK'
        /\ requests' \in [Requests -> Rows]
        /\ auditLog' \in [Requests -> [Terminal -> Nat]]
        /\ \A r \in Requests : Matches(r, requests[r].status)'
        /\ \A r \in Requests, s \in Decisions : auditLog'[r][s] = auditLog[r][s]
    BY <1>1, <1>2, SubmitAndExpirePreserves
  <1>5. TypeOK'
    BY <1>2, <1>3, <1>4 DEF TypeOK, QueueOK
  <1>6. DecisionsAreReal'
    BY <1>2, <1>4 DEF DecisionsAreReal, QueueOK, Matches
  <1> QED BY <1>5, <1>6

LEMMA PruneInv ==
    ASSUME IInv, PruneReviewed
    PROVE  IInv'
  <1> USE DEF IInv, external, disk, budgets
  <1>1. UNCHANGED <<now, platform, up, rows, auditLog, auditRows, deciders, syncers,
                    cooling, crashes, failures>>
    BY DEF PruneReviewed
  <1>2. requests' \in [Requests -> Rows] /\
        \A r \in Requests : Matches(r, requests[r].status)'
    BY AbsentTyped DEF PruneReviewed, Absent, Matches, TypeOK, DecisionsAreReal
  <1> DEFINE w == Prune(now - RetentionAge)
             more == <<w>>
  <1>3. w \in Writes /\ WriteIsReal(w)
    <2>0. now \in Nat /\ RetentionAge \in Nat /\ now >= RetentionAge
      BY ConstantsAssumption DEF PruneReviewed, TypeOK
    <2>1. now - RetentionAge \in Nat
      BY ONLY <2>0
    <2>2. w \in Writes
      BY <2>1, WritesTyped
    <2>3. WriteIsReal(w)
      BY DEF Prune, WriteIsReal
    <2> QED BY <2>2, <2>3
  <1>4. QueueOK'
    <2>1. QueueOK
      BY DEF QueueOK, TypeOK, DecisionsAreReal
    <2> HIDE DEF w
    <2>2. more \in Seq(Writes) /\ \A i \in DOMAIN more : WriteIsReal(more[i])
      BY <1>3
    <2>3. queue' = queue \o more
      BY <1>3, <2>1 DEF PruneReviewed, QueueOK, w
    <2> HIDE DEF more
    <2> QED BY <2>1, <2>2, <2>3, <1>1, QueueExtends
  <1>5. TypeOK'
    BY <1>1, <1>2, <1>4 DEF TypeOK, QueueOK
  <1>6. DecisionsAreReal'
    BY <1>1, <1>2, <1>4 DEF DecisionsAreReal, QueueOK, Matches
  <1> QED BY <1>5, <1>6

LEMMA SyncInv ==
    ASSUME IInv,
           \/ \E s \in Syncers, g \in Groups : SyncStart(s, g)
           \/ \E s \in Syncers : SyncListed(s) \/ SyncFails(s)
           \/ \E g \in Groups : CooldownEnds(g)
           \/ Tick
    PROVE  IInv'
  <1> USE DEF IInv, external, memory, disk, budgets
  <1>1. UNCHANGED <<platform, up, requests, queue, rows, auditLog, auditRows, deciders,
                    crashes, failures>>
    BY DEF SyncStart, SyncListed, SyncFails, CooldownEnds, Tick
  <1>2. now' \in Nat /\ cooling' \subseteq Groups
    BY DEF SyncStart, SyncListed, SyncFails, CooldownEnds, Tick, TypeOK
  <1>3. syncers' \in [Syncers -> SyncerStates]
    <2>1. ASSUME NEW s \in Syncers, NEW g \in Groups, SyncStart(s, g)
          PROVE  syncers' \in [Syncers -> SyncerStates]
      BY <2>1 DEF SyncStart, TypeOK, SyncerStates
    <2>2. ASSUME NEW s \in Syncers, SyncListed(s)
          PROVE  syncers' \in [Syncers -> SyncerStates]
      <3>1. syncers[s].g \in Groups /\ now \in Nat
        BY <2>2 DEF SyncListed, TypeOK, SyncerStates, Idle
      <3>2. PICK list \in SUBSET Requests :
               syncers' = [syncers EXCEPT ![s] = [pc |-> "listed", g |-> @.g,
                                                  list |-> list, at |-> now]]
        BY <2>2 DEF SyncListed, OpenIn
      <3>3. [pc |-> "listed", g |-> syncers[s].g, list |-> list, at |-> now] \in SyncerStates
        BY <3>1 DEF SyncerStates
      <3> QED BY <3>2, <3>3 DEF TypeOK
    <2>3. ASSUME NEW s \in Syncers, SyncFails(s)
          PROVE  syncers' \in [Syncers -> SyncerStates]
      BY <2>3 DEF SyncFails, TypeOK, SyncerStates
    <2>4. CASE Tick \/ \E g \in Groups : CooldownEnds(g)
      BY <2>4 DEF Tick, CooldownEnds, TypeOK
    <2> QED BY <2>1, <2>2, <2>3, <2>4
  <1>4. TypeOK'
    BY <1>1, <1>2, <1>3 DEF TypeOK
  <1>5. DecisionsAreReal'
    BY <1>1 DEF DecisionsAreReal, WriteIsReal, Matches
  <1> QED BY <1>4, <1>5

LEMMA CrashInv ==
    ASSUME IInv, Crash \/ Restart
    PROVE  IInv'
  <1> USE DEF IInv, external, disk, budgets
  <1>1. CASE Crash
    <2>0. Idle \in DeciderStates /\ Idle \in SyncerStates
      BY DEF DeciderStates, SyncerStates
    <2>a. requests' \in [Requests -> Rows] /\ auditLog' \in [Requests -> [Terminal -> Nat]]
      BY <1>1, AbsentTyped DEF Crash
    <2>b. queue' \in Seq(Writes) /\ cooling' \subseteq Groups /\ crashes' \in Nat
      BY <1>1 DEF Crash, TypeOK
    <2>1. TypeOK'
      BY <1>1, <2>0, <2>a, <2>b DEF Crash, TypeOK
    <2>2. DecisionsAreReal'
      BY <1>1 DEF Crash, DecisionsAreReal, Absent, Idle, Matches, TypeOK
    <2> QED BY <2>1, <2>2
  <1>2. CASE Restart
    <2>1. TypeOK'
      BY <1>2 DEF Restart, TypeOK
    <2>2. DecisionsAreReal'
      BY <1>2 DEF Restart, DecisionsAreReal, WriteIsReal, Matches, TypeOK
    <2> QED BY <2>1, <2>2
  <1> QED BY <1>1, <1>2

-----------------------------------------------------------------------------
LEMMA NextInv == IInv /\ [Next]_vars => IInv'
  <1> SUFFICES ASSUME IInv, [Next]_vars PROVE IInv'
    OBVIOUS
  <1>1. CASE UNCHANGED vars
    BY <1>1 DEF vars, IInv, TypeOK, DecisionsAreReal, WriteIsReal, Matches
  <1>2. CASE Next
    <2>1. Handlers => \E d \in Deciders, r \in Requests :
                         HandleEvent(d, r) \/ \E v \in Decisions : Review(d, r, v)
      BY DEF Handlers, ReviewRequest, ApproveCard, HandleApprove, HandleReject,
             ApproveJoin, RejectJoin
    <2>2. Syncing => \E s \in Syncers : \/ \E g \in Groups : SyncStart(s, g)
                                        \/ SyncListed(s) \/ SyncFails(s) \/ SyncApply(s)
      BY DEF Syncing, SyncCard, JoinSyncRequest, SyncJoinRequests
    <2> QED BY <1>2, <2>1, <2>2, PlatformInv, WriteInv, HandlerInv, AnswerInv, SettleInv,
               SweepInv, PruneInv, SyncInv, CrashInv
            DEF Next, Platform, PendingCard
  <1> QED BY <1>1, <1>2

LEMMA Invariance == Spec => []IInv
  BY InitInv, NextInv, PTL DEF Spec

(* Every variable always holds a value of its type, for any number of      *)
(* requests, groups, concurrent handlers and syncs, and any thresholds.    *)
THEOREM TypeCorrect == Spec => []TypeOK
  BY Invariance, PTL DEF IInv

(* Whatever interleaves, is lost, fails or crashes: no approval or         *)
(* rejection is ever shown, queued, stored or audited that the platform    *)
(* did not take - for every instance of the system.                        *)
THEOREM NoFalseDecision == Spec => []DecisionsAreReal
  BY Invariance, PTL DEF IInv

-----------------------------------------------------------------------------
(* The refinement: under IInv every step is one JoinDecision allows.       *)

Status == [r \in Requests |-> requests[r].status]

(* One status moves as JoinDecision lets it, or stays.                     *)
MovesOf(r) == \/ requests'[r].status = requests[r].status
              \/ /\ <<requests[r].status, requests'[r].status>> \in Abstract!Moves
                 /\ Matches(r, requests'[r].status)

LEMMA WorkStep ==
    ASSUME IInv, up, UNCHANGED <<up, platform>>, requests' \in [Requests -> Rows],
           \A r \in Requests : MovesOf(r)
    PROVE  Abstract!Work
  <1>1. Status' \in [Requests -> Abstract!Views]
    BY DEF Status, Rows, Abstract!Views, Abstract!Decisions
  <1>2. ASSUME NEW r \in Requests
        PROVE  \/ Status'[r] = Status[r]
               \/ /\ <<Status[r], Status'[r]>> \in Abstract!Moves
                  /\ Abstract!Truthful(r, Status'[r], [q \in Requests |-> platform[q].status])
    BY DEF MovesOf, Status, Matches, Abstract!Truthful, Abstract!Decisions
  <1> QED BY <1>1, <1>2 DEF Abstract!Work, Status

LEMMA SubmitAndExpireMoves ==
    ASSUME IInv, NEW new \in SUBSET Requests, NEW dead \in SUBSET Requests,
           SubmitAndExpire(new, dead), dead \subseteq Pending,
           \A r \in new : requests[r].status = "absent"
    PROVE  \A r \in Requests : MovesOf(r)
  <1> SUFFICES ASSUME NEW r \in Requests PROVE MovesOf(r)
    OBVIOUS
  <1>1. CASE r \in new
    <2>1. requests[r].status = "absent" /\ requests'[r].status = "pending"
      BY <1>1 DEF SubmitAndExpire, Fresh
    <2> QED BY <2>1 DEF MovesOf, Matches, Abstract!Moves
  <1>2. CASE r \in dead /\ r \notin new
    <2>1. requests[r].status = "pending" /\ requests'[r].status = "expired"
      BY <1>2 DEF SubmitAndExpire, WithStatus, Pending
    <2> QED BY <2>1 DEF MovesOf, Matches, Abstract!Moves
  <1>3. CASE r \notin dead /\ r \notin new
    BY <1>3 DEF SubmitAndExpire, MovesOf
  <1> QED BY <1>1, <1>2, <1>3

(* The platform's own steps, and the answers it gives the bot.             *)
LEMMA PlatformSteps ==
    ASSUME IInv, Platform
    PROVE  Abstract!Next \/ UNCHANGED Abstract!vars
  <1> USE DEF IInv, memory, disk, budgets, external
  <1>1. ASSUME NEW r \in Requests, Apply(r) PROVE Abstract!Open(r)
    BY <1>1 DEF Apply, TypeOK, Abstract!Open
  <1>2. ASSUME NEW r \in Requests, NEW v \in Decisions, platform[r].status = "open",
               platform' = [platform EXCEPT ![r] = Decided(@, v)],
               UNCHANGED <<requests, up>>
        PROVE  Abstract!Decide(r)
    <2>1. [q \in Requests |-> platform'[q].status]
            = [[q \in Requests |-> platform[q].status] EXCEPT ![r] = v]
      BY <1>2 DEF TypeOK, Decided
    <2> QED BY <1>2, <2>1 DEF Abstract!Decide, Abstract!Decisions
  <1>3. ASSUME NEW r \in Requests, NEW v \in Decisions, DecideOutside(r, v)
        PROVE  Abstract!Decide(r)
    BY <1>2, <1>3 DEF DecideOutside
  <1>4. ASSUME NEW d \in Deciders, PlatformDecides(d)
        PROVE  \E r \in Requests : Abstract!Decide(r)
    <2>1. deciders[d].r \in Requests /\ deciders[d].verdict \in Decisions
      BY <1>4, DecidersTyped DEF PlatformDecides
    <2> QED BY <1>2, <1>4, <2>1 DEF PlatformDecides
  <1>5. ASSUME NEW d \in Deciders, PlatformRefuses(d) PROVE UNCHANGED Abstract!vars
    BY <1>5 DEF PlatformRefuses, Abstract!vars
  <1> QED BY <1>1, <1>3, <1>4, <1>5 DEF Platform, Abstract!Next

(* The steps of the bot that may change what it shows.                     *)
LEMMA HandlerSteps ==
    ASSUME IInv, NEW d \in Deciders, NEW r \in Requests,
           \/ HandleEvent(d, r)
           \/ \E v \in Decisions : Review(d, r, v)
    PROVE  Abstract!Work
  <1> USE DEF IInv, external, memory
  <1>1. up /\ UNCHANGED <<up, platform>>
    BY DEF HandleEvent, Review, CanRun
  <1>2. requests' \in [Requests -> Rows]
    BY HandlerInv DEF TypeOK
  <1>3. ASSUME NEW q \in Requests PROVE MovesOf(q)
    <2>1. CASE UNCHANGED requests
      BY <2>1 DEF MovesOf
    <2>2. CASE requests[r].status = "absent" /\ requests' = [requests EXCEPT ![r] = Fresh]
      <3>1. CASE q = r
        <4>1. requests[q].status = "absent" /\ requests'[q].status = "pending"
          BY <2>2, <3>1 DEF Fresh, TypeOK
        <4> QED BY <4>1 DEF MovesOf, Matches, Abstract!Moves
      <3>2. CASE q # r
        BY <2>2, <3>2 DEF MovesOf, TypeOK
      <3> QED BY <3>1, <3>2
    <2> QED BY <2>1, <2>2 DEF HandleEvent, Review, Submitted
  <1> QED BY <1>1, <1>2, <1>3, WorkStep

LEMMA SettleSteps ==
    ASSUME IInv, NEW d \in Deciders, Settle(d)
    PROVE  Abstract!Work
  <1> USE DEF IInv, external, memory
  <1> DEFINE r == deciders[d].r
             v == deciders[d].verdict
             a == deciders[d].answer
  <1>1. r \in Requests /\ v \in Decisions /\ a \in Answers
    BY DecidersTyped DEF Settle
  <1>2. up /\ UNCHANGED <<up, platform>>
    BY DEF Settle
  <1>3. requests' \in [Requests -> Rows]
    BY SettleInv DEF TypeOK
  <1>4. \A q \in Requests : MovesOf(q)
    <2>1. CASE UNCHANGED memory
      BY <2>1 DEF MovesOf
    <2>2. CASE requests[r].status = "pending" /\ a = "ok" /\ Record(r, v)
      <3>1. Matches(r, v)
        BY <2>2 DEF Settle, DecisionsAreReal
      <3> SUFFICES ASSUME NEW q \in Requests PROVE MovesOf(q)
        OBVIOUS
      <3> HIDE DEF r, v, a
      <3>2. CASE q = r
        <4>1. requests[q].status = "pending" /\ requests'[q].status = v
          BY <1>1, <2>2, <3>2 DEF Record, WithStatus, TypeOK
        <4> QED BY <1>1, <3>1, <3>2, <4>1 DEF MovesOf, Abstract!Moves, Abstract!Decisions
      <3>3. CASE q # r
        BY <1>1, <2>2, <3>3 DEF Record, MovesOf, TypeOK
      <3> QED BY <3>2, <3>3
    <2>3. CASE requests[r].status = "pending" /\ Expire({r})
      <3>1. /\ SubmitAndExpire({}, {r})
            /\ {r} \in SUBSET Requests
            /\ {r} \subseteq Pending
        BY <1>1, <2>3 DEF Expire, Pending
      <3> HIDE DEF r, v, a
      <3> QED BY <3>1, SubmitAndExpireMoves
    <2> QED BY <2>1, <2>2, <2>3 DEF Settle, Outcome
  <1> QED BY <1>2, <1>3, <1>4, WorkStep

LEMMA SweepSteps ==
    ASSUME IInv, ExpireStalePending \/ \E s \in Syncers : SyncApply(s)
    PROVE  Abstract!Work
  <1> USE DEF IInv, external
  <1>1. up /\ UNCHANGED <<up, platform>>
    BY DEF ExpireStalePending, SyncApply, CanRun
  <1>2. requests' \in [Requests -> Rows]
    BY SweepInv DEF TypeOK
  <1>3. \A r \in Requests : MovesOf(r)
    <2>1. CASE ExpireStalePending
      <3>1. SubmitAndExpire({}, OutOfTtl) /\ OutOfTtl \subseteq Pending
        BY <2>1 DEF ExpireStalePending, Expire, OutOfTtl
      <3> QED BY <3>1, SubmitAndExpireMoves DEF Pending
    <2>2. ASSUME NEW s \in Syncers, SyncApply(s) PROVE \A r \in Requests : MovesOf(r)
      <3> DEFINE list == syncers[s].list
                 dead == MissingFrom(syncers[s].g, list) \union OutOfTtl
      <3>1. list \in SUBSET Requests
        <4>1. syncers[s] \in SyncerStates /\ syncers[s].pc = "listed"
          BY <2>2 DEF SyncApply, TypeOK
        <4> QED BY <4>1 DEF SyncerStates, Idle
      <3>2. SubmitAndExpire(Unknown(list), dead)
        BY <2>2 DEF SyncApply
      <3>3. dead \subseteq Pending /\ dead \in SUBSET Requests
        BY DEF MissingFrom, OutOfTtl, Pending
      <3>4. Unknown(list) \in SUBSET Requests
        BY <3>1 DEF Unknown
      <3>5. \A r \in Unknown(list) : requests[r].status = "absent"
        BY DEF Unknown
      <3> HIDE DEF list, dead
      <3> QED BY <3>2, <3>3, <3>4, <3>5, SubmitAndExpireMoves
    <2> QED BY <2>1, <2>2
  <1> QED BY <1>1, <1>2, <1>3, WorkStep

LEMMA PruneSteps ==
    ASSUME IInv, PruneReviewed
    PROVE  Abstract!Work
  <1> USE DEF IInv, external
  <1>1. up /\ UNCHANGED <<up, platform>>
    BY DEF PruneReviewed, CanRun
  <1>2. requests' \in [Requests -> Rows]
    BY PruneInv DEF TypeOK
  <1>3. ASSUME NEW r \in Requests PROVE MovesOf(r)
    <2>1. \/ requests'[r] = requests[r]
          \/ requests[r].status \in Terminal /\ requests'[r].status = "absent"
      BY DEF PruneReviewed, Pruned, Absent
    <2> QED BY <2>1 DEF MovesOf, Matches, Abstract!Moves, Abstract!Decisions
  <1> QED BY <1>1, <1>2, <1>3, WorkStep

LEMMA CrashStep == Crash => Abstract!Crash
  BY DEF Crash, Absent, external, Abstract!Crash

LEMMA RestartStep ==
    ASSUME IInv, Restart
    PROVE  Abstract!Restart
  <1>1. requests' = rows /\ rows \in [Requests -> Rows]
    BY DEF Restart, IInv, TypeOK
  <1>2. Status' \in [Requests -> Abstract!Views]
    BY <1>1 DEF Status, Rows, Abstract!Views, Abstract!Decisions
  <1>3. \A r \in Requests :
            Abstract!Truthful(r, Status'[r], [q \in Requests |-> platform[q].status])
    BY <1>1 DEF IInv, DecisionsAreReal, Matches, Status, Abstract!Truthful,
                Abstract!Decisions
  <1>4. ~up /\ up' = TRUE /\ UNCHANGED platform
    BY DEF Restart, external
  <1> QED BY <1>2, <1>3, <1>4 DEF Abstract!Restart, Status

LEMMA QuietSteps ==
    ASSUME \/ UNCHANGED vars
           \/ Tick
           \/ \E s \in Syncers : \/ \E g \in Groups : SyncStart(s, g)
                                 \/ SyncListed(s) \/ SyncFails(s)
           \/ \E g \in Groups : CooldownEnds(g)
           \/ WriteDone \/ WriteFails
    PROVE  UNCHANGED Abstract!vars
  <1>1. UNCHANGED <<platform, requests, up>>
    BY DEF vars, Tick, SyncStart, SyncListed, SyncFails, CooldownEnds, WriteDone,
           WriteFails, external, memory
  <1> QED BY <1>1 DEF Abstract!vars

LEMMA StepImplements == IInv /\ [Next]_vars => [Abstract!Next]_(Abstract!vars)
  <1> SUFFICES ASSUME IInv, [Next]_vars PROVE Abstract!Next \/ UNCHANGED Abstract!vars
    OBVIOUS
  <1>1. CASE UNCHANGED vars
    BY <1>1, QuietSteps
  <1>2. CASE Next
    <2>1. Handlers => \E d \in Deciders, r \in Requests :
                         HandleEvent(d, r) \/ \E v \in Decisions : Review(d, r, v)
      BY DEF Handlers, ReviewRequest, ApproveCard, HandleApprove, HandleReject,
             ApproveJoin, RejectJoin
    <2>2. Syncing => \E s \in Syncers : \/ \E g \in Groups : SyncStart(s, g)
                                        \/ SyncListed(s) \/ SyncFails(s) \/ SyncApply(s)
      BY DEF Syncing, SyncCard, JoinSyncRequest, SyncJoinRequests
    <2> QED BY <1>2, <2>1, <2>2, PlatformSteps, HandlerSteps, SettleSteps, SweepSteps,
               PruneSteps, CrashStep, RestartStep, QuietSteps
            DEF Next, PendingCard, Abstract!Next
  <1> QED BY <1>1, <1>2

LEMMA InitImplements == Init => Abstract!Init
  BY DEF Init, Absent, Abstract!Init

(* The detailed specification implements the abstract one: whatever        *)
(* interleaves, is lost or crashes, what reviewers are shown of a request  *)
(* only moves from unknown to pending to one truthful outcome, and a       *)
(* restart falls back to nothing worse than an older truth.                *)
THEOREM ImplementsTheDecision == Spec => ImplementsJoinDecision
  <1>1. Init => Abstract!Init
    BY InitImplements
  <1>2. IInv /\ [Next]_vars => [Abstract!Next]_(Abstract!vars)
    BY StepImplements
  <1> QED BY <1>1, <1>2, Invariance, PTL
          DEF Spec, ImplementsJoinDecision, Abstract!Spec

-----------------------------------------------------------------------------
(* At most one decision of a request is ever audited.                      *)

Resumes(d, r) == /\ deciders[d].pc = "answered"
                 /\ deciders[d].answer = "ok"
                 /\ deciders[d].r = r

Queued(i, r) == queue[i].op = "audit" /\ queue[i].r = r /\ queue[i].status \in Decisions

(* A handler told "ok" is the only one for its request and comes before    *)
(* any record of it; a queued record is the only one and not yet a row.    *)
OnceOf(r) ==
    /\ \A s \in Decisions : auditLog[r][s] <= 1 /\ auditRows[r][s] <= 1
    /\ \A i, j \in DOMAIN queue : Queued(i, r) /\ Queued(j, r) => i = j
    /\ \A i \in DOMAIN queue : Queued(i, r) => \A s \in Decisions : auditRows[r][s] = 0
    /\ \A d \in Deciders : Resumes(d, r) =>
          /\ \A s \in Decisions : auditLog[r][s] = 0 /\ auditRows[r][s] = 0
          /\ \A i \in DOMAIN queue : ~Queued(i, r)
    /\ \A d, e \in Deciders : Resumes(d, r) /\ Resumes(e, r) => d = e

OnceInv == \A r \in Requests : OnceOf(r)

(* A step that resumes nobody and adds no record keeps it.                 *)
LEMMA QuietOnce ==
    ASSUME IInv, NEW r \in Requests, OnceOf(r),
           \A s \in Decisions : auditLog'[r][s] \in {0, auditLog[r][s], auditRows[r][s]},
           \A s \in Decisions : auditRows'[r][s] = auditRows[r][s],
           \A i \in DOMAIN queue' : Queued(i, r)' => i \in DOMAIN queue /\ Queued(i, r),
           \A d \in Deciders : Resumes(d, r)' => Resumes(d, r)
    PROVE  OnceOf(r)'
  BY DEF OnceOf

LEMMA ExtensionQuiet ==
    ASSUME QueueOK, NEW more \in Seq(Writes), queue' = queue \o more,
           NEW r \in Requests,
           \A i \in DOMAIN more : ~(/\ more[i].op = "audit"
                                    /\ more[i].r = r
                                    /\ more[i].status \in Decisions),
           NEW i \in DOMAIN queue', Queued(i, r)'
    PROVE  i \in DOMAIN queue /\ Queued(i, r)
  <1>1. \/ i \in DOMAIN queue /\ queue'[i] = queue[i]
        \/ i - Len(queue) \in DOMAIN more /\ queue'[i] = more[i - Len(queue)]
    BY DEF QueueOK
  <1> QED BY <1>1 DEF Queued

LEMMA SubmitAndExpireQuiet ==
    ASSUME IInv, NEW new \in SUBSET Requests, NEW dead \in SUBSET Requests,
           SubmitAndExpire(new, dead), NEW r \in Requests,
           NEW i \in DOMAIN queue', Queued(i, r)'
    PROVE  i \in DOMAIN queue /\ Queued(i, r)
  <1>1. PICK added \in Orders(new), expired \in Orders(dead) :
            queue' = queue \o Upserts(added) \o ExpiryWrites(expired)
    BY DEF SubmitAndExpire
  <1>2. added \in Seq(Requests) /\ expired \in Seq(Requests)
    BY OrdersTyped
  <1> DEFINE more == Upserts(added) \o ExpiryWrites(expired)
  <1>3. Upserts(added) \in Seq(Writes) /\ ExpiryWrites(expired) \in Seq(Writes)
    BY <1>2, UpsertsTyped, ExpiryWritesTyped DEF IInv, TypeOK
  <1>4. \A j \in DOMAIN Upserts(added) : Upserts(added)[j].op # "audit"
    BY <1>2 DEF Upserts, Upsert
  <1>5. \A j \in DOMAIN ExpiryWrites(expired) :
            ExpiryWrites(expired)[j].status \notin Decisions
    BY <1>2 DEF ExpiryWrites, Update, Audit
  <1>6. ASSUME NEW j \in DOMAIN more
        PROVE  ~(more[j].op = "audit" /\ more[j].r = r /\ more[j].status \in Decisions)
    <2>1. \/ j \in DOMAIN Upserts(added) /\ more[j] = Upserts(added)[j]
          \/ /\ j - Len(Upserts(added)) \in DOMAIN ExpiryWrites(expired)
             /\ more[j] = ExpiryWrites(expired)[j - Len(Upserts(added))]
      BY <1>3
    <2> QED BY <2>1, <1>4, <1>5
  <1>7. QueueOK /\ more \in Seq(Writes) /\ queue' = queue \o more
    <2>1. QueueOK
      BY DEF QueueOK, IInv, TypeOK, DecisionsAreReal
    <2>2. more \in Seq(Writes)
      BY <1>3
    <2>3. queue' = queue \o more
      BY <1>1, <1>3, <2>1 DEF QueueOK
    <2> QED BY <2>1, <2>2, <2>3
  <1> HIDE DEF more
  <1> QED BY <1>6, <1>7, ExtensionQuiet

(* An open request has no record and nobody to make one.                   *)
LEMMA OpenIsClear ==
    ASSUME IInv, NEW r \in Requests, platform[r].status \notin Decisions
    PROVE  /\ \A s \in Decisions : auditLog[r][s] = 0 /\ auditRows[r][s] = 0
           /\ \A i \in DOMAIN queue : ~Queued(i, r)
           /\ \A d \in Deciders : ~Resumes(d, r)
  <1>1. ASSUME NEW s \in Decisions PROVE auditLog[r][s] = 0 /\ auditRows[r][s] = 0
    <2>1. auditLog[r][s] \in Nat /\ auditRows[r][s] \in Nat
      BY DEF IInv, TypeOK
    <2>2. ~(auditLog[r][s] > 0 \/ auditRows[r][s] > 0)
      BY DEF IInv, DecisionsAreReal
    <2> QED BY <2>1, <2>2
  <1>2. \A i \in DOMAIN queue : ~Queued(i, r)
    BY DEF IInv, DecisionsAreReal, WriteIsReal, Matches, Queued
  <1>3. ASSUME NEW d \in Deciders PROVE ~Resumes(d, r)
    <2>1. deciders[d].pc = "answered" => deciders[d].verdict \in Decisions
      BY DecidersTyped DEF IInv
    <2> QED BY <2>1 DEF IInv, DecisionsAreReal, Matches, Resumes
  <1> QED BY <1>1, <1>2, <1>3

LEMMA AnswerOnce ==
    ASSUME IInv, OnceInv, NEW d \in Deciders, PlatformDecides(d) \/ PlatformRefuses(d),
           NEW r \in Requests
    PROVE  OnceOf(r)'
  <1> USE DEF memory, disk
  <1>1. UNCHANGED <<queue, auditLog, auditRows>>
    BY DEF PlatformDecides, PlatformRefuses
  <1>2. PICK a \in Answers : Answer(d, a) /\ (a = "ok" => PlatformDecides(d))
    BY DEF PlatformDecides, PlatformRefuses, Answers
  <1>3. \A e \in Deciders : e # d => deciders'[e] = deciders[e]
    BY <1>2 DEF Answer, IInv, TypeOK
  <1>4. deciders'[d].answer = a /\ deciders'[d].r = deciders[d].r
    BY <1>2 DEF Answer, IInv, TypeOK
  <1>5. CASE Resumes(d, r)'
    <2>1. platform[r].status \notin Decisions
      BY <1>2, <1>4, <1>5 DEF Resumes, PlatformDecides
    <2>2. \A e \in Deciders : e # d => ~Resumes(e, r)'
      BY <2>1, <1>3, OpenIsClear DEF Resumes
    <2> QED BY <1>1, <1>5, <2>1, <2>2, OpenIsClear DEF OnceOf, Queued
  <1>6. CASE ~Resumes(d, r)'
    <2>1. \A e \in Deciders : Resumes(e, r)' => Resumes(e, r)
      BY <1>3, <1>6 DEF Resumes
    <2> QED BY <1>1, <2>1, QuietOnce DEF OnceInv, Queued
  <1> QED BY <1>5, <1>6

LEMMA RecordOnce ==
    ASSUME IInv, OnceInv, NEW d \in Deciders, Settle(d), NEW r \in Requests,
           deciders[d].answer = "ok", Record(deciders[d].r, deciders[d].verdict)
    PROVE  OnceOf(r)'
  <1> DEFINE q == deciders[d].r
             v == deciders[d].verdict
  <1>1. q \in Requests /\ v \in Decisions /\ Resumes(d, q)
    BY DecidersTyped DEF Settle, IInv, Resumes
  <1>2. UNCHANGED auditRows
    BY DEF Settle, disk
  <1>3. \A e \in Deciders : Resumes(e, r)' => e # d /\ Resumes(e, r)
    BY DEF Settle, Idle, Resumes, IInv, TypeOK
  <1>4. PICK text \in Texts : queue' = queue \o <<Update(q, v, text), Audit(q, v)>>
    BY DEF Record
  <1>5. queue \in Seq(Writes) /\ Update(q, v, text) \in Writes /\ Audit(q, v) \in Writes
    BY <1>1, WritesTyped DEF IInv, TypeOK
  <1>6. ASSUME NEW i \in DOMAIN queue'
        PROVE  \/ i \in DOMAIN queue /\ queue'[i] = queue[i]
               \/ i = Len(queue) + 1 /\ queue'[i] = Update(q, v, text)
               \/ i = Len(queue) + 2 /\ queue'[i] = Audit(q, v)
    BY <1>4, <1>5
  <1>7. CASE r # q
    <2>1. \A s \in Decisions : auditLog'[r][s] = auditLog[r][s]
      BY <1>7, <1>1 DEF Record, Counted, IInv, TypeOK
    <2>2. \A i \in DOMAIN queue' : Queued(i, r)' => i \in DOMAIN queue /\ Queued(i, r)
      BY <1>6, <1>7 DEF Queued, Update, Audit
    <2> QED BY <1>2, <1>3, <2>1, <2>2, QuietOnce DEF OnceInv
  <1>8. CASE r = q
    <2>1. /\ \A s \in Decisions : auditLog[r][s] = 0 /\ auditRows[r][s] = 0
          /\ \A i \in DOMAIN queue : ~Queued(i, r)
          /\ \A e \in Deciders : Resumes(e, r) => e = d
      BY <1>1, <1>8 DEF OnceInv, OnceOf
    <2>2. \A s \in Decisions : auditLog'[r][s] <= 1 /\ auditRows'[r][s] <= 1
      BY <1>1, <1>2, <1>8, <2>1 DEF Record, Counted, IInv, TypeOK
    <2>3. \A i \in DOMAIN queue' : Queued(i, r)' => i = Len(queue) + 2
      BY <1>6, <2>1 DEF Queued, Update
    <2>4. \A e \in Deciders : ~Resumes(e, r)'
      BY <1>3, <2>1
    <2> QED BY <1>2, <2>1, <2>2, <2>3, <2>4 DEF OnceOf
  <1> QED BY <1>7, <1>8

LEMMA SettleOnce ==
    ASSUME IInv, OnceInv, NEW d \in Deciders, Settle(d), NEW r \in Requests
    PROVE  OnceOf(r)'
  <1>1. UNCHANGED auditRows
    BY DEF Settle, disk
  <1>2. \A e \in Deciders : Resumes(e, r)' => Resumes(e, r)
    BY DEF Settle, Idle, Resumes, IInv, TypeOK
  <1>3. CASE UNCHANGED memory
    BY <1>1, <1>2, <1>3, QuietOnce DEF OnceInv, memory, Queued
  <1>4. CASE deciders[d].answer = "ok" /\ Record(deciders[d].r, deciders[d].verdict)
    BY <1>4, RecordOnce
  <1>5. CASE Expire({deciders[d].r})
    <2>1. deciders[d].r \in Requests
      BY DecidersTyped DEF Settle, IInv
    <2> DEFINE dead == {deciders[d].r}
    <2>2. SubmitAndExpire({}, dead) /\ dead \in SUBSET Requests
      BY <1>5, <2>1 DEF Expire
    <2> HIDE DEF dead
    <2>3. \A s \in Decisions : auditLog'[r][s] = auditLog[r][s]
      BY <2>2 DEF SubmitAndExpire, IInv, TypeOK
    <2>4. \A i \in DOMAIN queue' : Queued(i, r)' => i \in DOMAIN queue /\ Queued(i, r)
      BY <2>2, SubmitAndExpireQuiet
    <2> QED BY <1>1, <1>2, <2>3, <2>4, QuietOnce DEF OnceInv
  <1> QED BY <1>3, <1>4, <1>5 DEF Settle, Outcome

LEMMA HandlerOnce ==
    ASSUME IInv, OnceInv, NEW d \in Deciders, NEW q \in Requests,
           \/ HandleEvent(d, q)
           \/ \E v \in Decisions : Review(d, q, v),
           NEW r \in Requests
    PROVE  OnceOf(r)'
  <1>1. UNCHANGED <<auditLog, auditRows>>
    BY DEF HandleEvent, Review, disk, memory
  <1>2. \A e \in Deciders : Resumes(e, r)' => Resumes(e, r)
    <2>1. \A e \in Deciders : deciders'[e] = deciders[e] \/ deciders'[e].pc = "calling"
      BY DEF HandleEvent, Review, Call, IInv, TypeOK
    <2> QED BY <2>1 DEF Resumes
  <1>3. \A i \in DOMAIN queue' : Queued(i, r)' => i \in DOMAIN queue /\ Queued(i, r)
    <2>1. CASE UNCHANGED queue
      BY <2>1 DEF Queued
    <2>2. CASE queue' = Append(queue, Upsert(q, Fresh))
      <3>1. QueueOK /\ Upsert(q, Fresh) \in Writes
        BY FreshTyped, WritesTyped DEF QueueOK, IInv, TypeOK, DecisionsAreReal
      <3> DEFINE more == <<Upsert(q, Fresh)>>
      <3>2. more \in Seq(Writes) /\ \A i \in DOMAIN more : more[i].op # "audit"
        BY <3>1 DEF Upsert
      <3>3. queue' = queue \o more
        BY <2>2, <3>1 DEF QueueOK
      <3> HIDE DEF more
      <3> QED BY <3>1, <3>2, <3>3, ExtensionQuiet
    <2> QED BY <2>1, <2>2 DEF HandleEvent, Review, Submitted, memory
  <1> QED BY <1>1, <1>2, <1>3, QuietOnce DEF OnceInv

LEMMA SweepOnce ==
    ASSUME IInv, OnceInv, ExpireStalePending \/ \E s \in Syncers : SyncApply(s),
           NEW r \in Requests
    PROVE  OnceOf(r)'
  <1>1. PICK new \in SUBSET Requests, dead \in SUBSET Requests : SubmitAndExpire(new, dead)
    <2>1. CASE ExpireStalePending
      BY <2>1 DEF ExpireStalePending, Expire, OutOfTtl, Pending
    <2>2. ASSUME NEW s \in Syncers, SyncApply(s)
          PROVE  \E new, dead \in SUBSET Requests : SubmitAndExpire(new, dead)
      <3>0. syncers[s] \in SyncerStates /\ syncers[s].pc = "listed"
        BY <2>2 DEF SyncApply, IInv, TypeOK
      <3>1. syncers[s].list \in SUBSET Requests
        BY <3>0 DEF SyncerStates, Idle
      <3> QED BY <2>2, <3>1 DEF SyncApply, Unknown, MissingFrom, OutOfTtl, Pending
    <2> QED BY <2>1, <2>2
  <1>2. UNCHANGED <<auditRows, deciders>>
    BY DEF ExpireStalePending, SyncApply, disk
  <1>3. \A s \in Decisions : auditLog'[r][s] = auditLog[r][s]
    BY <1>1 DEF SubmitAndExpire, IInv, TypeOK
  <1>4. \A i \in DOMAIN queue' : Queued(i, r)' => i \in DOMAIN queue /\ Queued(i, r)
    BY <1>1, SubmitAndExpireQuiet
  <1> QED BY <1>2, <1>3, <1>4, QuietOnce DEF OnceInv, Resumes

LEMMA PruneOnce ==
    ASSUME IInv, OnceInv, PruneReviewed, NEW r \in Requests
    PROVE  OnceOf(r)'
  <1>1. UNCHANGED <<auditLog, auditRows, deciders>>
    BY DEF PruneReviewed, disk
  <1> DEFINE w == Prune(now - RetentionAge)
  <1>2. queue' = Append(queue, w) /\ queue \in Seq(Writes) /\ w.op # "audit"
    BY DEF PruneReviewed, IInv, TypeOK, Prune
  <1> HIDE DEF w
  <1>3. \A i \in DOMAIN queue' : Queued(i, r)' => i \in DOMAIN queue /\ Queued(i, r)
    BY <1>2 DEF Queued
  <1> QED BY <1>1, <1>3, QuietOnce DEF OnceInv, Resumes

LEMMA WriteOnce ==
    ASSUME IInv, OnceInv, WriteDone \/ WriteFails, NEW r \in Requests
    PROVE  OnceOf(r)'
  <1> USE DEF disk
  <1>1. queue # <<>> /\ queue' = Tail(queue) /\ queue \in Seq(Writes)
    BY DEF WriteDone, WriteFails, IInv, TypeOK
  <1>2. Head(queue) = queue[1] /\ 1 \in DOMAIN queue
    BY <1>1
  <1>3. UNCHANGED <<auditLog, deciders>>
    BY DEF WriteDone, WriteFails
  <1>4. ASSUME NEW i \in DOMAIN queue'
        PROVE  i + 1 \in DOMAIN queue /\ i \in Nat \ {0} /\ queue'[i] = queue[i + 1]
    BY <1>1
  <1>5. OnceOf(r)
    BY DEF OnceInv
  <1>6. \A i \in DOMAIN queue' : Queued(i, r)' => Queued(i + 1, r) /\ i + 1 # 1
    BY <1>4 DEF Queued
  <1>7. \A i, j \in DOMAIN queue' : Queued(i, r)' /\ Queued(j, r)' => i = j
    <2> SUFFICES ASSUME NEW i \in DOMAIN queue', NEW j \in DOMAIN queue',
                        Queued(i, r)', Queued(j, r)'
                 PROVE  i = j
      OBVIOUS
    <2>1. i + 1 = j + 1 /\ i \in Nat /\ j \in Nat
      BY <1>4, <1>5, <1>6 DEF OnceOf
    <2> QED BY <2>1
  <1>8. \A d \in Deciders : Resumes(d, r)' = Resumes(d, r)
    BY <1>3 DEF Resumes
  <1>9. CASE Queued(1, r) /\ WriteDone
    <2>1. /\ \A s \in Decisions : auditRows[r][s] = 0
          /\ \A i \in DOMAIN queue' : ~Queued(i, r)'
          /\ \A d \in Deciders : ~Resumes(d, r)'
      BY <1>2, <1>4, <1>5, <1>6, <1>8, <1>9 DEF OnceOf
    <2>2. auditRows' = Counted(auditRows, r, queue[1].status)
      BY <1>2, <1>9 DEF WriteDone, Queued
    <2>3. \A s \in Decisions : auditRows'[r][s] <= 1
      BY <2>1, <2>2, <1>9 DEF Counted, Queued, IInv, TypeOK
    <2> QED BY <1>3, <1>5, <2>1, <2>3 DEF OnceOf
  <1>10. CASE ~(Queued(1, r) /\ WriteDone)
    <2>1. \A s \in Decisions : auditRows'[r][s] = auditRows[r][s]
      <3>1. CASE UNCHANGED auditRows
        BY <3>1
      <3>2. CASE /\ WriteDone /\ Head(queue).op = "audit"
                 /\ auditRows' = Counted(auditRows, Head(queue).r, Head(queue).status)
        <4>1. Head(queue) \in Writes /\ Head(queue).op = "audit"
          BY <1>1, <3>2
        <4>2. Head(queue).r \in Requests /\ Head(queue).status \in Terminal
          BY <4>1 DEF Writes
        <4> QED BY <1>2, <1>10, <3>2, <4>2 DEF Counted, Queued, IInv, TypeOK
      <3> QED BY <3>1, <3>2 DEF WriteDone, WriteFails
    <2> QED BY <1>3, <1>4, <1>5, <1>6, <1>7, <1>8, <2>1 DEF OnceOf
  <1> QED BY <1>9, <1>10

LEMMA OtherOnce ==
    ASSUME IInv, OnceInv,
           \/ UNCHANGED vars
           \/ Tick
           \/ \E q \in Requests : Apply(q) \/ \E v \in Decisions : DecideOutside(q, v)
           \/ \E s \in Syncers : \/ \E g \in Groups : SyncStart(s, g)
                                 \/ SyncListed(s) \/ SyncFails(s)
           \/ \E g \in Groups : CooldownEnds(g)
           \/ Crash \/ Restart,
           NEW r \in Requests
    PROVE  OnceOf(r)'
  <1> USE DEF memory, disk
  <1>1. UNCHANGED auditRows
    BY DEF vars, Tick, Apply, DecideOutside, SyncStart, SyncListed, SyncFails,
           CooldownEnds, Crash, Restart
  <1>2. \A d \in Deciders : Resumes(d, r)' => Resumes(d, r)
    BY DEF vars, Tick, Apply, DecideOutside, SyncStart, SyncListed, SyncFails,
           CooldownEnds, Crash, Restart, Resumes, Idle
  <1>3. queue' = queue \/ queue' = <<>>
    BY DEF vars, Tick, Apply, DecideOutside, SyncStart, SyncListed, SyncFails,
           CooldownEnds, Crash, Restart
  <1>4. \A s \in Decisions : auditLog'[r][s] \in {0, auditLog[r][s], auditRows[r][s]}
    BY DEF vars, Tick, Apply, DecideOutside, SyncStart, SyncListed, SyncFails,
           CooldownEnds, Crash, Restart
  <1>5. \A i \in DOMAIN queue' : Queued(i, r)' => i \in DOMAIN queue /\ Queued(i, r)
    BY <1>3 DEF Queued
  <1> QED BY <1>1, <1>2, <1>4, <1>5, QuietOnce DEF OnceInv

LEMMA OnceInvariance == Spec => []OnceInv
  <1>1. Init => OnceInv
    BY DEF Init, OnceInv, OnceOf, Resumes, Queued, Idle
  <1>2. IInv /\ OnceInv /\ [Next]_vars => OnceInv'
    <2> SUFFICES ASSUME IInv, OnceInv, [Next]_vars, NEW r \in Requests PROVE OnceOf(r)'
      BY DEF OnceInv
    <2>1. Handlers => \E d \in Deciders, q \in Requests :
                         HandleEvent(d, q) \/ \E v \in Decisions : Review(d, q, v)
      BY DEF Handlers, ReviewRequest, ApproveCard, HandleApprove, HandleReject,
             ApproveJoin, RejectJoin
    <2>2. Syncing => \E s \in Syncers : \/ \E g \in Groups : SyncStart(s, g)
                                        \/ SyncListed(s) \/ SyncFails(s) \/ SyncApply(s)
      BY DEF Syncing, SyncCard, JoinSyncRequest, SyncJoinRequests
    <2> QED BY <2>1, <2>2, AnswerOnce, SettleOnce, HandlerOnce, SweepOnce, PruneOnce,
               WriteOnce, OtherOnce DEF Next, Platform, PendingCard
  <1> QED BY <1>1, <1>2, Invariance, PTL DEF Spec

(* However many handlers race, and whatever is redelivered, retried or     *)
(* reloaded: no request has two decisions in the audit log or its table.   *)
THEOREM DecidesOnce == Spec => []DecidedOnce
  <1>1. IInv /\ OnceInv => DecidedOnce
    <2> SUFFICES ASSUME IInv, OnceInv, NEW r \in Requests
                 PROVE  /\ auditLog[r]["approved"] + auditLog[r]["rejected"] <= 1
                        /\ auditRows[r]["approved"] + auditRows[r]["rejected"] <= 1
      BY DEF DecidedOnce
    <2>1. \A s \in Decisions : /\ auditLog[r][s] \in Nat /\ auditLog[r][s] <= 1
                               /\ auditRows[r][s] \in Nat /\ auditRows[r][s] <= 1
      BY DEF IInv, TypeOK, OnceInv, OnceOf
    <2>2. /\ auditLog[r]["approved"] > 0 => platform[r].status = "approved"
          /\ auditLog[r]["rejected"] > 0 => platform[r].status = "rejected"
          /\ auditRows[r]["approved"] > 0 => platform[r].status = "approved"
          /\ auditRows[r]["rejected"] > 0 => platform[r].status = "rejected"
      BY DEF IInv, DecisionsAreReal
    <2> QED BY <2>1, <2>2
  <1> QED BY <1>1, Invariance, OnceInvariance, PTL

-----------------------------------------------------------------------------
(* No live request is dropped: what reconciliation relies on.              *)

(* What memory, table or queue says of a request is no older than it.      *)
AgeOf(r, row) == row.status # "absent" => /\ platform[r].status # "none"
                                          /\ platform[r].since <= row.created

Ages == /\ \A r \in Requests : platform[r].since <= now
        /\ \A r \in Requests : AgeOf(r, requests[r]) /\ AgeOf(r, rows[r])
        /\ \A i \in DOMAIN queue : queue[i].op = "upsert" => AgeOf(queue[i].r, queue[i].row)

(* A list in hand is at most a tick old, within the pages, and - unless    *)
(* those are full - has what the platform still holds since before.        *)
ListOf(list, g, at) ==
    /\ at <= now /\ now <= at + 1
    /\ \A r \in list : GroupOf[r] = g /\ platform[r].status # "none"
    /\ Cardinality(list) <= ListCap
    /\ \A r \in Requests : /\ GroupOf[r] = g
                           /\ platform[r].status = "open"
                           /\ platform[r].since + ListLag <= at
                           => r \in list \/ Cardinality(list) = ListCap

Lists == \A s \in Syncers : syncers[s].pc = "listed" =>
             ListOf(syncers[s].list, syncers[s].g, syncers[s].at)

(* Whoever is told "already handled" was told the truth.                   *)
Asks == \A d \in Deciders :
            /\ deciders[d].pc # "idle" => platform[deciders[d].r].status # "none"
            /\ deciders[d].pc = "answered" /\ deciders[d].answer = "handled"
               => platform[deciders[d].r].status \in Decisions

DownIsEmpty == ~up => \A r \in Requests : requests[r].status = "absent"

LiveInv == Ages /\ Lists /\ Asks /\ DownIsEmpty

LEMMA ListedTyped ==
    ASSUME TypeOK, NEW s \in Syncers, syncers[s].pc = "listed"
    PROVE  /\ syncers[s].g \in Groups
           /\ syncers[s].list \in SUBSET Requests
           /\ syncers[s].at \in Nat
  <1>1. syncers[s] \in SyncerStates
    BY DEF TypeOK
  <1> QED BY <1>1 DEF SyncerStates, Idle

LEMMA AskingTyped ==
    ASSUME TypeOK, NEW d \in Deciders, deciders[d].pc # "idle"
    PROVE  deciders[d].r \in Requests
  BY DEF TypeOK, DeciderStates, Idle

(* The platform only opens what is new and decides what is open.           *)
Grows == \A r \in Requests :
            \/ platform'[r] = platform[r]
            \/ /\ platform[r].status = "none"
               /\ platform'[r].status = "open" /\ platform'[r].since = now
            \/ /\ platform[r].status = "open"
               /\ platform'[r].status \in Decisions
               /\ platform'[r].since = platform[r].since

LEMMA PlatformLive ==
    ASSUME IInv, LiveInv, 0 < ListLag, Platform
    PROVE  LiveInv'
  <1> USE DEF memory, disk, budgets, external
  <1>1. UNCHANGED <<now, up, requests, queue, rows, syncers>>
    BY DEF Platform, Apply, DecideOutside, PlatformDecides, PlatformRefuses
  <1>2. Grows
    <2>1. ASSUME NEW r \in Requests, Apply(r) PROVE Grows
      BY <2>1 DEF Grows, Apply, IInv, TypeOK
    <2>2. ASSUME NEW r \in Requests, NEW v \in Decisions, platform[r].status = "open",
                 platform' = [platform EXCEPT ![r] = Decided(@, v)]
          PROVE  Grows
      BY <2>2 DEF Grows, Decided, IInv, TypeOK
    <2>3. ASSUME NEW d \in Deciders, PlatformDecides(d) PROVE Grows
      <3>1. deciders[d].r \in Requests /\ deciders[d].verdict \in Decisions
        BY <2>3, DecidersTyped DEF PlatformDecides, IInv
      <3> QED BY <2>2, <2>3, <3>1 DEF PlatformDecides
    <2>4. ASSUME NEW d \in Deciders, PlatformRefuses(d) PROVE Grows
      BY <2>4 DEF PlatformRefuses, Grows
    <2> QED BY <2>1, <2>2, <2>3, <2>4 DEF Platform, DecideOutside
  <1>3. ASSUME NEW r \in Requests
        PROVE  /\ platform[r].status # "none" => /\ platform'[r].status # "none"
                                                 /\ platform'[r].since = platform[r].since
               /\ platform[r].status \in Decisions => platform'[r] = platform[r]
    BY <1>2 DEF Grows
  <1>4. Ages'
    <2>1. \A r \in Requests : platform'[r].since <= now
      <3>1. now <= now
        BY DEF IInv, TypeOK
      <3> QED BY <1>2, <3>1 DEF Grows, LiveInv, Ages
    <2>2. \A r \in Requests, row \in Rows : AgeOf(r, row) => AgeOf(r, row)'
      BY <1>3 DEF AgeOf
    <2>3. \A i \in DOMAIN queue : queue[i].op = "upsert" =>
              queue[i].r \in Requests /\ queue[i].row \in Rows
      <3> SUFFICES ASSUME NEW i \in DOMAIN queue, queue[i].op = "upsert"
                   PROVE  queue[i].r \in Requests /\ queue[i].row \in Rows
        OBVIOUS
      <3>1. queue[i] \in Writes
        BY DEF IInv, TypeOK
      <3> QED BY <3>1 DEF Writes
    <2>4. \A r \in Requests : requests[r] \in Rows /\ rows[r] \in Rows
      BY DEF IInv, TypeOK
    <2>5. \A r \in Requests : AgeOf(r, requests[r])' /\ AgeOf(r, rows[r])'
      BY <1>1, <2>2, <2>4 DEF LiveInv, Ages
    <2>6. \A i \in DOMAIN queue' : queue'[i].op = "upsert" => AgeOf(queue[i].r, queue[i].row)'
      BY <1>1, <2>2, <2>3 DEF LiveInv, Ages
    <2> QED BY <1>1, <2>1, <2>5, <2>6 DEF Ages
  <1>5. Lists'
    <2> SUFFICES ASSUME NEW s \in Syncers, syncers[s].pc = "listed"
                 PROVE  ListOf(syncers[s].list, syncers[s].g, syncers[s].at)'
      BY <1>1 DEF Lists
    <2> DEFINE list == syncers[s].list
               g == syncers[s].g
               at == syncers[s].at
    <2>1. list \in SUBSET Requests /\ at \in Nat /\ ListOf(list, g, at)
      BY ListedTyped DEF LiveInv, Lists, IInv
    <2>2. now \in Nat /\ ListLag \in Nat
      BY ConstantsAssumption DEF IInv, TypeOK
    <2> HIDE DEF list, g, at
    <2>3. ASSUME NEW r \in Requests, GroupOf[r] = g, platform'[r].status = "open",
                 platform'[r].since + ListLag <= at
          PROVE  r \in list \/ Cardinality(list) = ListCap
      <3>1. CASE platform'[r] = platform[r]
        BY <2>1, <2>3, <3>1 DEF ListOf
      <3>2. CASE platform'[r].since = now
        BY <2>1, <2>2, <2>3, <3>2 DEF ListOf
      <3> QED BY <1>2, <2>3, <3>1, <3>2 DEF Grows
    <2>4. \A r \in list : GroupOf[r] = g /\ platform'[r].status # "none"
      BY <1>3, <2>1 DEF ListOf
    <2>5. /\ at <= now /\ now <= at + 1
          /\ Cardinality(list) <= ListCap
      BY <2>1 DEF ListOf
    <2>6. list' = list /\ g' = g /\ at' = at /\ now' = now
      BY <1>1 DEF list, g, at
    <2>7. ListOf(list, g, at)'
      BY <2>3, <2>4, <2>5, <2>6 DEF ListOf
    <2> QED BY <2>7 DEF list, g, at
  <1>6. Asks'
    <2>1. ASSUME UNCHANGED deciders PROVE Asks'
      BY <1>3, <2>1, AskingTyped DEF Asks, LiveInv, IInv
    <2>2. ASSUME NEW d \in Deciders, PlatformDecides(d) \/ PlatformRefuses(d) PROVE Asks'
      <3>1. PICK a \in Answers :
                /\ Answer(d, a)
                /\ a = "handled" => platform[deciders[d].r].status # "open"
        BY <2>2 DEF PlatformDecides, PlatformRefuses, Answers
      <3>2. \A e \in Deciders : e # d => deciders'[e] = deciders[e]
        BY <3>1 DEF Answer, IInv, TypeOK
      <3>3. deciders'[d].r = deciders[d].r /\ deciders'[d].answer = a
        BY <3>1 DEF Answer, IInv, TypeOK
      <3>4. deciders[d].pc # "idle"
        BY <2>2 DEF PlatformDecides, PlatformRefuses
      <3>5. deciders[d].r \in Requests /\ platform[deciders[d].r].status # "none"
        BY <3>4, AskingTyped DEF LiveInv, Asks, IInv
      <3>6. platform[deciders[d].r].status \in {"none", "open"} \union Decisions
        BY <3>5 DEF IInv, TypeOK, PlatformStates
      <3>7. /\ platform'[deciders[d].r].status # "none"
            /\ a = "handled" => platform'[deciders[d].r].status \in Decisions
        BY <1>3, <3>1, <3>5, <3>6
      <3>8. ASSUME NEW e \in Deciders, e # d, deciders'[e].pc # "idle"
            PROVE  /\ platform'[deciders'[e].r].status # "none"
                   /\ deciders'[e].pc = "answered" /\ deciders'[e].answer = "handled"
                      => platform'[deciders'[e].r].status \in Decisions
        BY <1>3, <3>2, <3>8, AskingTyped DEF LiveInv, Asks, IInv
      <3> QED BY <3>3, <3>7, <3>8 DEF Asks
    <2> QED BY <2>1, <2>2 DEF Platform, Apply, DecideOutside
  <1>7. DownIsEmpty'
    BY <1>1 DEF LiveInv, DownIsEmpty
  <1> QED BY <1>4, <1>5, <1>6, <1>7 DEF LiveInv

(* What the bot does leaves the platform and the clock alone.              *)
LEMMA AgesExtend ==
    ASSUME QueueOK, Ages, NEW more \in Seq(Writes), queue' = queue \o more,
           UNCHANGED <<now, platform, rows>>,
           \A i \in DOMAIN more : more[i].op = "upsert" => AgeOf(more[i].r, more[i].row),
           \A r \in Requests : AgeOf(r, requests'[r])
    PROVE  Ages'
  <1>1. ASSUME NEW i \in DOMAIN queue'
        PROVE  \/ i \in DOMAIN queue /\ queue'[i] = queue[i]
               \/ i - Len(queue) \in DOMAIN more /\ queue'[i] = more[i - Len(queue)]
    BY DEF QueueOK
  <1>2. \A i \in DOMAIN queue' :
            queue'[i].op = "upsert" => AgeOf(queue'[i].r, queue'[i].row)
    BY <1>1 DEF Ages
  <1> QED BY <1>2 DEF Ages, AgeOf

LEMMA FreshAge ==
    ASSUME Ages, NEW r \in Requests, platform[r].status # "none"
    PROVE  AgeOf(r, Fresh)
  BY DEF Ages, AgeOf, Fresh

LEMMA SubmitAndExpireAges ==
    ASSUME IInv, Ages, NEW new \in SUBSET Requests, NEW dead \in SUBSET Requests,
           SubmitAndExpire(new, dead), dead \subseteq Pending,
           \A r \in new : platform[r].status # "none",
           UNCHANGED <<now, platform, rows>>
    PROVE  Ages'
  <1>1. PICK added \in Orders(new), expired \in Orders(dead) :
            queue' = queue \o Upserts(added) \o ExpiryWrites(expired)
    BY DEF SubmitAndExpire
  <1>2. added \in Seq(Requests) /\ expired \in Seq(Requests)
    BY OrdersTyped
  <1>3. Upserts(added) \in Seq(Writes) /\ ExpiryWrites(expired) \in Seq(Writes)
    BY <1>2, UpsertsTyped, ExpiryWritesTyped DEF IInv, TypeOK
  <1>4. QueueOK
    BY DEF QueueOK, IInv, TypeOK, DecisionsAreReal
  <1> DEFINE more == Upserts(added) \o ExpiryWrites(expired)
  <1>5. more \in Seq(Writes)
    BY <1>3
  <1>6. queue' = queue \o more
    BY <1>1, <1>3, <1>4 DEF QueueOK
  <1>7. ASSUME NEW i \in DOMAIN Upserts(added)
        PROVE  AgeOf(Upserts(added)[i].r, Upserts(added)[i].row)
    <2>1. added[i] \in new
      BY <1>7, <1>1 DEF Orders, Upserts
    <2>2. Upserts(added)[i].r = added[i] /\ Upserts(added)[i].row = Fresh
      BY <1>7 DEF Upserts, Upsert
    <2> QED BY <2>1, <2>2, FreshAge
  <1>8. \A i \in DOMAIN ExpiryWrites(expired) : ExpiryWrites(expired)[i].op # "upsert"
    BY <1>2 DEF ExpiryWrites, Update, Audit
  <1>9. ASSUME NEW i \in DOMAIN more, more[i].op = "upsert"
        PROVE  AgeOf(more[i].r, more[i].row)
    <2>1. \/ i \in DOMAIN Upserts(added) /\ more[i] = Upserts(added)[i]
          \/ /\ i - Len(Upserts(added)) \in DOMAIN ExpiryWrites(expired)
             /\ more[i] = ExpiryWrites(expired)[i - Len(Upserts(added))]
      BY <1>3
    <2> HIDE DEF more
    <2> QED BY <2>1, <1>7, <1>8, <1>9
  <1>10. ASSUME NEW r \in Requests PROVE AgeOf(r, requests'[r])
    <2>1. CASE r \in new
      <3>1. requests'[r] = Fresh
        BY <2>1 DEF SubmitAndExpire
      <3> QED BY <2>1, <3>1, FreshAge
    <2>2. CASE r \in dead /\ r \notin new
      <3>1. requests[r].status = "pending" /\ requests'[r].created = requests[r].created
        BY <2>2 DEF SubmitAndExpire, WithStatus, Pending
      <3> QED BY <3>1 DEF Ages, AgeOf
    <2>3. CASE r \notin dead /\ r \notin new
      <3>1. requests'[r] = requests[r]
        BY <2>3 DEF SubmitAndExpire
      <3> QED BY <3>1 DEF Ages
    <2> QED BY <2>1, <2>2, <2>3
  <1> HIDE DEF more
  <1> QED BY <1>4, <1>5, <1>6, <1>9, <1>10, AgesExtend

LEMMA HandlerLive ==
    ASSUME IInv, LiveInv, NEW d \in Deciders, NEW r \in Requests,
           \/ HandleEvent(d, r)
           \/ \E v \in Decisions : Review(d, r, v)
    PROVE  LiveInv'
  <1> USE DEF external, memory, disk
  <1>1. UNCHANGED <<now, platform, up, rows, syncers>> /\ up
    BY DEF HandleEvent, Review, CanRun
  <1>2. platform[r].status # "none"
    BY DEF HandleEvent, Review, LiveInv, Ages, AgeOf
  <1>3. Ages'
    <2>1. CASE UNCHANGED <<requests, queue>>
      BY <2>1, <1>1 DEF LiveInv, Ages, AgeOf
    <2>2. CASE /\ requests' = [requests EXCEPT ![r] = Fresh]
               /\ queue' = Append(queue, Upsert(r, Fresh))
      <3>1. QueueOK /\ Upsert(r, Fresh) \in Writes
        BY FreshTyped, WritesTyped DEF QueueOK, IInv, TypeOK, DecisionsAreReal
      <3> DEFINE more == <<Upsert(r, Fresh)>>
      <3>2. more \in Seq(Writes) /\ queue' = queue \o more
        BY <2>2, <3>1 DEF QueueOK
      <3>3. AgeOf(r, Fresh)
        BY <1>2, FreshAge DEF LiveInv
      <3>4. \A i \in DOMAIN more : AgeOf(more[i].r, more[i].row)
        BY <3>3 DEF Upsert
      <3>5. \A q \in Requests : AgeOf(q, requests'[q])
        BY <2>2, <3>3 DEF LiveInv, Ages, IInv, TypeOK
      <3>6. Ages
        BY DEF LiveInv
      <3> HIDE DEF more
      <3> QED BY <1>1, <3>1, <3>2, <3>4, <3>5, <3>6, AgesExtend
    <2> QED BY <2>1, <2>2 DEF HandleEvent, Review, Submitted
  <1>4. Lists'
    BY <1>1 DEF LiveInv, Lists, ListOf
  <1>5. Asks'
    <2>1. \A e \in Deciders : \/ deciders'[e] = deciders[e]
                              \/ deciders'[e].pc = "calling" /\ deciders'[e].r = r
      BY DEF HandleEvent, Review, Call, IInv, TypeOK
    <2> QED BY <1>1, <1>2, <2>1 DEF LiveInv, Asks
  <1>6. DownIsEmpty'
    BY <1>1 DEF DownIsEmpty
  <1> QED BY <1>3, <1>4, <1>5, <1>6 DEF LiveInv

LEMMA SettleLive ==
    ASSUME IInv, LiveInv, NEW d \in Deciders, Settle(d)
    PROVE  LiveInv'
  <1> USE DEF external, memory, disk
  <1> DEFINE r == deciders[d].r
             v == deciders[d].verdict
             a == deciders[d].answer
  <1>1. UNCHANGED <<now, platform, up, rows, syncers>> /\ up
    BY DEF Settle
  <1>2. r \in Requests /\ v \in Decisions
    BY DecidersTyped DEF Settle, IInv
  <1>3. Ages'
    <2>1. CASE UNCHANGED memory
      BY <2>1, <1>1 DEF LiveInv, Ages, AgeOf
    <2>2. CASE requests[r].status = "pending" /\ Record(r, v)
      <3>1. PICK text \in Texts : queue' = queue \o <<Update(r, v, text), Audit(r, v)>>
        BY <2>2 DEF Record
      <3> DEFINE more == <<Update(r, v, text), Audit(r, v)>>
      <3> HIDE DEF r, v, a
      <3>2. Update(r, v, text) \in Writes /\ Audit(r, v) \in Writes
        BY <1>2, WritesTyped
      <3>3. more \in Seq(Writes)
        BY <3>2
      <3>4. \A i \in DOMAIN more : more[i].op # "upsert"
        BY DEF Update, Audit
      <3>5. ASSUME NEW q \in Requests PROVE AgeOf(q, requests'[q])
        <4>1. CASE q = r
          <5>1. requests'[r].created = requests[r].created
            BY <1>2, <2>2 DEF Record, WithStatus, IInv, TypeOK
          <5> QED BY <2>2, <4>1, <5>1 DEF LiveInv, Ages, AgeOf
        <4>2. CASE q # r
          BY <1>2, <2>2, <4>2 DEF Record, LiveInv, Ages, IInv, TypeOK
        <4> QED BY <4>1, <4>2
      <3>6. QueueOK /\ Ages
        BY DEF QueueOK, IInv, TypeOK, DecisionsAreReal, LiveInv
      <3>7. queue' = queue \o more
        BY <3>1
      <3> HIDE DEF more
      <3> QED BY <1>1, <3>3, <3>4, <3>5, <3>6, <3>7, AgesExtend
    <2>3. CASE requests[r].status = "pending" /\ Expire({r})
      <3>1. /\ SubmitAndExpire({}, {r})
            /\ {r} \in SUBSET Requests
            /\ {r} \subseteq Pending
            /\ Ages
        BY <1>2, <2>3 DEF Expire, Pending, LiveInv
      <3> HIDE DEF r, v, a
      <3> QED BY <1>1, <3>1, SubmitAndExpireAges
    <2> QED BY <2>1, <2>2, <2>3 DEF Settle, Outcome
  <1>4. Lists'
    BY <1>1 DEF LiveInv, Lists, ListOf
  <1>5. Asks'
    <2>1. \A e \in Deciders : deciders'[e] = deciders[e] \/ deciders'[e].pc = "idle"
      BY DEF Settle, Idle, IInv, TypeOK
    <2> QED BY <1>1, <2>1 DEF LiveInv, Asks
  <1>6. DownIsEmpty'
    BY <1>1 DEF DownIsEmpty
  <1> QED BY <1>3, <1>4, <1>5, <1>6 DEF LiveInv

LEMMA SweepLive ==
    ASSUME IInv, LiveInv, ExpireStalePending \/ \E s \in Syncers : SyncApply(s)
    PROVE  LiveInv'
  <1> USE DEF external, disk
  <1>1. UNCHANGED <<now, platform, up, rows, deciders>> /\ up
    BY DEF ExpireStalePending, SyncApply, CanRun
  <1>2. Ages'
    <2>0. Ages
      BY DEF LiveInv
    <2>1. CASE ExpireStalePending
      <3>1. SubmitAndExpire({}, OutOfTtl) /\ OutOfTtl \subseteq Pending
        BY <2>1 DEF ExpireStalePending, Expire, OutOfTtl
      <3> QED BY <1>1, <2>0, <3>1, SubmitAndExpireAges DEF Pending
    <2>2. ASSUME NEW s \in Syncers, SyncApply(s) PROVE Ages'
      <3> DEFINE list == syncers[s].list
                 dead == MissingFrom(syncers[s].g, list) \union OutOfTtl
      <3>1. list \in SUBSET Requests /\ \A r \in list : platform[r].status # "none"
        BY <2>2, ListedTyped DEF SyncApply, IInv, LiveInv, Lists, ListOf
      <3>2. SubmitAndExpire(Unknown(list), dead)
        BY <2>2 DEF SyncApply
      <3>3. dead \subseteq Pending /\ dead \in SUBSET Requests
        BY DEF MissingFrom, OutOfTtl, Pending
      <3>4. /\ Unknown(list) \in SUBSET Requests
            /\ \A r \in Unknown(list) : platform[r].status # "none"
        BY <3>1 DEF Unknown
      <3> HIDE DEF list, dead
      <3> QED BY <1>1, <2>0, <3>2, <3>3, <3>4, SubmitAndExpireAges
    <2> QED BY <2>1, <2>2
  <1>3. Lists'
    <2>1. \A s \in Syncers : syncers'[s] = syncers[s] \/ syncers'[s].pc = "idle"
      <3>1. CASE ExpireStalePending
        BY <3>1 DEF ExpireStalePending
      <3>2. ASSUME NEW t \in Syncers, syncers' = [syncers EXCEPT ![t] = Idle]
            PROVE  \A s \in Syncers : syncers'[s] = syncers[s] \/ syncers'[s].pc = "idle"
        BY <3>2 DEF Idle, IInv, TypeOK
      <3> QED BY <3>1, <3>2 DEF SyncApply
    <2> QED BY <1>1, <2>1 DEF LiveInv, Lists, ListOf
  <1>4. Asks'
    BY <1>1 DEF LiveInv, Asks
  <1>5. DownIsEmpty'
    BY <1>1 DEF DownIsEmpty
  <1> QED BY <1>2, <1>3, <1>4, <1>5 DEF LiveInv

LEMMA PruneLive ==
    ASSUME IInv, LiveInv, PruneReviewed
    PROVE  LiveInv'
  <1> USE DEF external, disk
  <1>1. UNCHANGED <<now, platform, up, rows, deciders, syncers>> /\ up
    BY DEF PruneReviewed, CanRun
  <1> DEFINE w == Prune(now - RetentionAge)
  <1>2. queue' = Append(queue, w) /\ queue \in Seq(Writes) /\ w.op # "upsert"
    BY DEF PruneReviewed, IInv, TypeOK, Prune
  <1> HIDE DEF w
  <1>3. \A i \in DOMAIN queue' : queue'[i].op = "upsert" =>
            i \in DOMAIN queue /\ queue'[i] = queue[i]
    BY <1>2
  <1>4. \A r \in Requests : requests'[r] = requests[r] \/ requests'[r].status = "absent"
    BY DEF PruneReviewed, Absent
  <1>5. Ages'
    BY <1>1, <1>3, <1>4 DEF LiveInv, Ages, AgeOf
  <1>6. Lists' /\ Asks' /\ DownIsEmpty'
    BY <1>1 DEF LiveInv, Lists, ListOf, Asks, DownIsEmpty
  <1> QED BY <1>5, <1>6 DEF LiveInv

LEMMA WriteLive ==
    ASSUME IInv, LiveInv, WriteDone \/ WriteFails
    PROVE  LiveInv'
  <1> USE DEF external, disk
  <1>1. UNCHANGED <<now, platform, up, requests, deciders, syncers>>
    BY DEF WriteDone, WriteFails
  <1>2. queue # <<>> /\ queue' = Tail(queue) /\ queue \in Seq(Writes)
    BY DEF WriteDone, WriteFails, IInv, TypeOK
  <1>3. \A i \in DOMAIN queue' : i + 1 \in DOMAIN queue /\ queue'[i] = queue[i + 1]
    BY <1>2
  <1>4. Head(queue) = queue[1] /\ 1 \in DOMAIN queue
    BY <1>2
  <1>5. ASSUME NEW r \in Requests PROVE AgeOf(r, rows'[r])
    <2>1. CASE rows' = rows
      BY <2>1 DEF LiveInv, Ages
    <2>2. CASE rows' = Written(Head(queue), rows)
      <3>1. \/ rows'[r] = rows[r]
            \/ rows'[r].status = "absent"
            \/ rows[r].status # "absent" /\ rows'[r].created = rows[r].created
            \/ queue[1].op = "upsert" /\ queue[1].r = r /\ rows'[r] = queue[1].row
        BY <1>4, <2>2 DEF Written, Revised, Absent
      <3> QED BY <1>4, <3>1 DEF LiveInv, Ages, AgeOf
    <2> QED BY <2>1, <2>2 DEF WriteDone, WriteFails
  <1>6. Ages'
    BY <1>1, <1>3, <1>5 DEF LiveInv, Ages, AgeOf
  <1>7. Lists' /\ Asks' /\ DownIsEmpty'
    BY <1>1 DEF LiveInv, Lists, ListOf, Asks, DownIsEmpty
  <1> QED BY <1>6, <1>7 DEF LiveInv

LEMMA SyncLive ==
    ASSUME IInv, LiveInv,
           \/ UNCHANGED vars
           \/ \E s \in Syncers, g \in Groups : SyncStart(s, g)
           \/ \E s \in Syncers : SyncListed(s) \/ SyncFails(s)
           \/ \E g \in Groups : CooldownEnds(g)
           \/ Tick
    PROVE  LiveInv'
  <1> USE DEF external, memory, disk
  <1>1. UNCHANGED <<platform, up, requests, queue, rows, deciders>>
    BY DEF vars, SyncStart, SyncListed, SyncFails, CooldownEnds, Tick
  <1>2. now \in Nat /\ (now' = now \/ now' = now + 1)
    BY DEF vars, SyncStart, SyncListed, SyncFails, CooldownEnds, Tick, IInv, TypeOK
  <1>3. Ages'
    <2>1. \A r \in Requests : platform[r].since \in Nat
      BY DEF IInv, TypeOK, PlatformStates
    <2> QED BY <1>1, <1>2, <2>1 DEF LiveInv, Ages, AgeOf
  <1>4. Lists'
    <2> SUFFICES ASSUME NEW s \in Syncers, syncers'[s].pc = "listed"
                 PROVE  ListOf(syncers[s].list, syncers[s].g, syncers[s].at)'
      BY DEF Lists
    <2>1. CASE syncers'[s] = syncers[s]
      <3>1. now' = now \/ (now' = now + 1 /\ syncers[s].at = now)
        BY <2>1 DEF vars, SyncStart, SyncListed, SyncFails, CooldownEnds, Tick
      <3>2. syncers[s].at \in Nat
        BY <2>1, ListedTyped DEF IInv
      <3> QED BY <1>1, <1>2, <2>1, <3>1, <3>2 DEF LiveInv, Lists, ListOf
    <2>2. CASE SyncListed(s)
      <3>1. syncers[s].g \in Groups
        BY <2>2 DEF SyncListed, IInv, TypeOK, SyncerStates, Idle
      <3>2. PICK list \in SUBSET OpenIn(syncers[s].g) :
               /\ Cardinality(list) <= ListCap
               /\ Settled(syncers[s].g) \subseteq list \/ Cardinality(list) = ListCap
               /\ syncers' = [syncers EXCEPT ![s] = [pc |-> "listed", g |-> @.g,
                                                     list |-> list, at |-> now]]
        BY <2>2 DEF SyncListed
      <3>3. syncers'[s].list = list /\ syncers'[s].g = syncers[s].g /\ syncers'[s].at = now
        BY <3>2 DEF IInv, TypeOK
      <3>4. now' = now
        BY <2>2 DEF SyncListed
      <3>5. ListOf(list, syncers[s].g, now)
        BY <1>2, <3>2 DEF ListOf, OpenIn, Settled
      <3> QED BY <1>1, <3>3, <3>4, <3>5 DEF ListOf
    <2>3. CASE syncers'[s].pc # "listed"
      BY <2>3
    <2> QED BY <2>1, <2>2, <2>3
            DEF vars, SyncStart, SyncListed, SyncFails, CooldownEnds, Tick, Idle, IInv, TypeOK
  <1>5. Asks' /\ DownIsEmpty'
    BY <1>1 DEF LiveInv, Asks, DownIsEmpty
  <1> QED BY <1>3, <1>4, <1>5 DEF LiveInv

LEMMA CrashLive ==
    ASSUME IInv, LiveInv, Crash \/ Restart
    PROVE  LiveInv'
  <1> USE DEF external, disk
  <1>1. CASE Crash
    <2>1. \A r \in Requests : requests'[r].status = "absent"
      BY <1>1 DEF Crash, Absent
    <2>2. queue' = <<>> /\ UNCHANGED <<now, platform, rows>>
      BY <1>1 DEF Crash
    <2>3. /\ \A d \in Deciders : deciders'[d].pc = "idle"
          /\ \A s \in Syncers : syncers'[s].pc = "idle"
      BY <1>1 DEF Crash, Idle
    <2> QED BY <2>1, <2>2, <2>3
            DEF LiveInv, Ages, AgeOf, Lists, ListOf, Asks, DownIsEmpty
  <1>2. CASE Restart
    <2>1. up' /\ requests' = rows /\ UNCHANGED <<now, platform, rows, queue, deciders, syncers>>
      BY <1>2 DEF Restart
    <2> QED BY <2>1 DEF LiveInv, Ages, AgeOf, Lists, ListOf, Asks, DownIsEmpty
  <1> QED BY <1>1, <1>2

LEMMA InitLive == Init => LiveInv
  BY DEF Init, Absent, Idle, LiveInv, Ages, AgeOf, Lists, Asks, DownIsEmpty

LEMMA NextLive ==
    ASSUME 0 < ListLag, IInv, LiveInv, [Next]_vars
    PROVE  LiveInv'
  <1>1. Handlers => \E d \in Deciders, r \in Requests :
                       HandleEvent(d, r) \/ \E v \in Decisions : Review(d, r, v)
    BY DEF Handlers, ReviewRequest, ApproveCard, HandleApprove, HandleReject,
           ApproveJoin, RejectJoin
  <1>2. Syncing => \E s \in Syncers : \/ \E g \in Groups : SyncStart(s, g)
                                      \/ SyncListed(s) \/ SyncFails(s) \/ SyncApply(s)
    BY DEF Syncing, SyncCard, JoinSyncRequest, SyncJoinRequests
  <1> QED BY <1>1, <1>2, PlatformLive, HandlerLive, SettleLive, SweepLive, PruneLive,
             WriteLive, SyncLive, CrashLive DEF Next, PendingCard

(* A list that may be in hand misses only what is young, unless its pages  *)
(* are full.                                                               *)
LEMMA MissingIsGone ==
    ASSUME 0 < ListLag, IInv, LiveInv, NEW s \in Syncers, syncers[s].pc = "listed",
           NEW r \in MissingFrom(syncers[s].g, syncers[s].list),
           Cardinality({q \in Requests : GroupOf[q] = GroupOf[r]}) <= ListCap
    PROVE  platform[r].status # "open"
  <1> DEFINE list == syncers[s].list
             group == {q \in Requests : GroupOf[q] = GroupOf[r]}
  <1>1. /\ r \in Requests /\ requests[r].status = "pending" /\ r \notin list
        /\ GroupOf[r] = syncers[s].g
        /\ now - requests[r].created >= ReconcileMinAge
    BY DEF MissingFrom, Pending
  <1>2. ListOf(list, syncers[s].g, syncers[s].at) /\ syncers[s].at \in Nat
        /\ list \in SUBSET Requests
    BY ListedTyped DEF LiveInv, Lists, IInv
  <1>3. SUFFICES ASSUME platform[r].status = "open" PROVE FALSE
    OBVIOUS
  <1>4. platform[r].since <= requests[r].created
    BY <1>1 DEF LiveInv, Ages, AgeOf
  <1>5. /\ now \in Nat /\ requests[r].created \in Nat /\ platform[r].since \in Nat
        /\ ListLag \in Nat /\ ReconcileMinAge \in Nat /\ ListLag < ReconcileMinAge
        /\ ListCap \in Nat
    BY <1>1, ConstantsAssumption DEF IInv, TypeOK, Rows, PlatformStates
  <1>6. platform[r].since + ListLag <= syncers[s].at
    BY <1>1, <1>2, <1>4, <1>5 DEF ListOf
  <1>7. Cardinality(list) = ListCap
    BY <1>1, <1>2, <1>3, <1>6 DEF ListOf
  <1>8. IsFiniteSet(group)
    <2>1. group \in SUBSET Requests
      OBVIOUS
    <2> QED BY <2>1, FS_Subset, ConstantsAssumption
  <1>9. list \in SUBSET group
    BY <1>1, <1>2 DEF ListOf
  <1>10. r \in group
    BY <1>1
  <1>11. Cardinality(group) <= ListCap
    OBVIOUS
  <1> HIDE DEF list, group
  <1>12. /\ Cardinality(list) <= Cardinality(group)
         /\ Cardinality(group) = Cardinality(list) => group = list
    BY <1>8, <1>9, FS_Subset
  <1>13. Cardinality(group) \in Nat
    BY <1>8, FS_CardinalityType
  <1>14. group = list
    BY <1>5, <1>7, <1>11, <1>12, <1>13
  <1> QED BY <1>1, <1>10, <1>14

(* The step that expires a request expires nothing the platform holds open *)
(* before its time.                                                        *)
LiveStep ==
    \A r \in Requests :
        /\ Cardinality({q \in Requests : GroupOf[q] = GroupOf[r]}) <= ListCap
        /\ requests[r].status = "pending"
        /\ requests'[r].status = "expired"
        /\ platform[r].status = "open"
        => PendingTtl > 0 /\ now - requests[r].created >= PendingTtl

LEMMA ExpiryIsDue ==
    ASSUME 0 < ListLag, IInv, LiveInv, [Next]_vars
    PROVE  LiveStep
  <1> USE DEF external, memory, disk
  <1> SUFFICES ASSUME NEW r \in Requests,
                      Cardinality({q \in Requests : GroupOf[q] = GroupOf[r]}) <= ListCap,
                      requests[r].status = "pending",
                      requests'[r].status = "expired",
                      platform[r].status = "open"
               PROVE  r \in OutOfTtl
    BY DEF LiveStep, OutOfTtl
  <1>1. CASE ExpireStalePending
    BY <1>1 DEF ExpireStalePending, Expire, SubmitAndExpire
  <1>2. ASSUME NEW s \in Syncers, SyncApply(s) PROVE r \in OutOfTtl
    <2>1. syncers[s].pc = "listed"
      BY <1>2 DEF SyncApply
    <2>2. r \notin MissingFrom(syncers[s].g, syncers[s].list)
      BY <2>1, MissingIsGone
    <2>3. r \in MissingFrom(syncers[s].g, syncers[s].list) \union OutOfTtl
      BY <1>2 DEF SyncApply, SubmitAndExpire, Fresh
    <2> QED BY <2>2, <2>3
  <1>3. ASSUME NEW d \in Deciders, Settle(d) PROVE FALSE
    <2>1. deciders[d].r \in Requests /\ deciders[d].verdict \in Decisions
          /\ deciders[d].answer \in Answers
      BY <1>3, DecidersTyped DEF Settle, IInv
    <2>2. CASE UNCHANGED requests
      BY <2>2
    <2>3. CASE Record(deciders[d].r, deciders[d].verdict)
      <3>1. requests'[r] = requests[r] \/ requests'[r].status = deciders[d].verdict
        BY <2>1, <2>3 DEF Record, WithStatus, IInv, TypeOK
      <3> QED BY <2>1, <3>1
    <2>4. CASE deciders[d].answer = "handled" /\ Expire({deciders[d].r})
      <3>1. r = deciders[d].r
        BY <2>4 DEF Expire, SubmitAndExpire
      <3>2. platform[deciders[d].r].status \in Decisions
        BY <1>3, <2>4 DEF Settle, LiveInv, Asks
      <3> QED BY <3>1, <3>2
    <2> QED BY <1>3, <2>1, <2>2, <2>3, <2>4 DEF Settle, Outcome, Answers
  <1>4. ASSUME NEW d \in Deciders, NEW q \in Requests,
               HandleEvent(d, q) \/ \E v \in Decisions : Review(d, q, v)
        PROVE  FALSE
    <2>1. requests' = requests \/ requests' = [requests EXCEPT ![q] = Fresh]
      BY <1>4 DEF HandleEvent, Review, Submitted
    <2>2. requests'[r] = requests[r] \/ requests'[r].status = "pending"
      BY <2>1 DEF Fresh, IInv, TypeOK
    <2> QED BY <2>2
  <1>5. CASE Crash \/ Restart \/ PruneReviewed
    <2>1. CASE Crash
      BY <2>1 DEF Crash, Absent
    <2>2. CASE Restart
      BY <2>2 DEF Restart, LiveInv, DownIsEmpty
    <2>3. CASE PruneReviewed
      BY <2>3 DEF PruneReviewed, Absent
    <2> QED BY <1>5, <2>1, <2>2, <2>3
  <1>6. CASE \/ UNCHANGED vars \/ Tick \/ Platform \/ WriteDone \/ WriteFails
             \/ \E s \in Syncers : \/ \E g \in Groups : SyncStart(s, g)
                                   \/ SyncListed(s) \/ SyncFails(s)
             \/ \E g \in Groups : CooldownEnds(g)
    BY <1>6 DEF vars, Tick, Platform, Apply, DecideOutside, PlatformDecides,
                PlatformRefuses, WriteDone, WriteFails, SyncStart, SyncListed,
                SyncFails, CooldownEnds
  <1>7. Handlers => \E d \in Deciders, q \in Requests :
                       HandleEvent(d, q) \/ \E v \in Decisions : Review(d, q, v)
    BY DEF Handlers, ReviewRequest, ApproveCard, HandleApprove, HandleReject,
           ApproveJoin, RejectJoin
  <1>8. Syncing => \E s \in Syncers : \/ \E g \in Groups : SyncStart(s, g)
                                      \/ SyncListed(s) \/ SyncFails(s) \/ SyncApply(s)
    BY DEF Syncing, SyncCard, JoinSyncRequest, SyncJoinRequests
  <1> QED BY <1>1, <1>2, <1>3, <1>4, <1>5, <1>6, <1>7, <1>8 DEF Next, PendingCard

(* A request the platform still holds open never leaves the pending list   *)
(* before its time, as long as its group's requests fit the pages fetched: *)
(* for any lag of the list that is shorter than the minimum age.           *)
THEOREM LiveOnesStay ==
    ASSUME 0 < ListLag
    PROVE  Spec => LiveRequestsStay
  <1>1. IInv /\ LiveInv /\ [Next]_vars => LiveInv'
    BY NextLive
  <1>2. IInv /\ LiveInv /\ [Next]_vars =>
          [\A r \in Requests :
              /\ Cardinality({q \in Requests : GroupOf[q] = GroupOf[r]}) <= ListCap
              /\ requests[r].status = "pending"
              /\ requests'[r].status = "expired"
              /\ platform[r].status = "open"
              => PendingTtl > 0 /\ now - requests[r].created >= PendingTtl]_vars
    BY ExpiryIsDue DEF LiveStep
  <1> QED BY <1>1, <1>2, InitLive, Invariance, PTL DEF Spec, LiveRequestsStay

-----------------------------------------------------------------------------
(* What the table becomes when the queue has drained.                     *)

(* Every set of naturals that is not empty has a least element: how a fact *)
(* about each step of a drained queue is carried to its end.               *)
LEMMA LeastNumber ==
    ASSUME NEW T \in SUBSET Nat, T # {}
    PROVE  \E m \in T : \A n \in T : m <= n
  <1> DEFINE R == StrictSubsetOrdering(Nat)
             F == FiniteSubsetsOf(Nat)
             I == {0 .. n : n \in T}
  <1>1. IsWellFoundedOn(R, F)
    BY FS_StrictSubsetOrderingWellFounded
  <1>2. I \subseteq F
    <2> SUFFICES ASSUME NEW n \in T PROVE 0 .. n \in F
      OBVIOUS
    <2>1. IsFiniteSet(0 .. n)
      BY FS_Interval
    <2> QED BY <2>1 DEF FiniteSubsetsOf
  <1>3. I # {}
    OBVIOUS
  <1>4. ASSUME NEW m \in Nat, NEW n \in Nat, m < n
        PROVE  <<0 .. m, 0 .. n>> \in R
    <2>1. 0 .. m \in SUBSET Nat /\ 0 .. n \in SUBSET Nat /\ 0 .. m \subseteq 0 .. n
      BY <1>4
    <2>2. n \in 0 .. n /\ n \notin 0 .. m
      BY <1>4
    <2> QED BY <2>1, <2>2 DEF StrictSubsetOrdering
  <1> HIDE DEF R, F
  <1>5. \E X \in I : \A Y \in I : <<Y, X>> \notin R
    <2> HIDE DEF I
    <2> QED BY <1>1, <1>2, <1>3, WFMin, Zenon
  <1>6. PICK m \in T : \A Y \in I : <<Y, 0 .. m>> \notin R
    BY <1>5
  <1>7. ASSUME NEW n \in T, n < m PROVE FALSE
    <2>1. 0 .. n \in I
      OBVIOUS
    <2> QED BY <1>4, <1>6, <1>7, <2>1
  <1> QED BY <1>7

Tables == [Requests -> Rows]

(* T is what the table becomes write by write while q is executed.         *)
Drains(from, q, T) ==
    /\ T \in [0 .. Len(q) -> Tables]
    /\ T[0] = from
    /\ \A n \in 1 .. Len(q) : T[n] = Written(q[n], T[n - 1])

Leads(from, q, to) == \E T : Drains(from, q, T) /\ T[Len(q)] = to

(* A queue leads a table to one table only.                                *)
LEMMA OneCourse ==
    ASSUME NEW q \in Seq(Writes), NEW from \in Tables, NEW T, Drains(from, q, T),
           NEW f, f = [n \in 0 .. Len(q) |->
                         IF n = 0 THEN from
                         ELSE IF q[n].op = "audit" THEN f[n - 1] ELSE Written(q[n], f[n - 1])]
    PROVE  f[Len(q)] = T[Len(q)]
  <1> DEFINE bad == {n \in 0 .. Len(q) : f[n] # T[n]}
  <1>0. Len(q) \in Nat
    OBVIOUS
  <1>1. ASSUME bad # {} PROVE FALSE
    <2>0. bad \in SUBSET Nat
      BY <1>0
    <2>1. PICK m \in bad : \A n \in bad : m <= n
      <3> HIDE DEF bad
      <3> QED BY <1>1, <2>0, LeastNumber
    <2>2. m # 0
      BY DEF Drains
    <2>3. m \in 1 .. Len(q) /\ m - 1 \in 0 .. Len(q) /\ m - 1 \notin bad
      BY <2>1, <2>2
    <2>4. f[m - 1] = T[m - 1]
      BY <2>3
    <2>5. f[m] = IF q[m].op = "audit" THEN T[m - 1] ELSE Written(q[m], T[m - 1])
      BY <2>3, <2>4
    <2>6. T[m - 1] \in Tables /\ T[m] = Written(q[m], T[m - 1])
      BY <2>3 DEF Drains
    <2>7. q[m].op = "audit" => Written(q[m], T[m - 1]) = T[m - 1]
      BY <2>6 DEF Written, Tables
    <2> QED BY <2>1, <2>5, <2>6, <2>7
  <1>2. Len(q) \in 0 .. Len(q)
    BY <1>0
  <1>3. Len(q) \notin bad
    BY <1>1
  <1> QED BY <1>2, <1>3

LEMMA DrainedIs ==
    ASSUME queue \in Seq(Writes), rows \in Tables, NEW t, Leads(rows, queue, t)
    PROVE  Drained = t
  <1>1. PICK T : Drains(rows, queue, T) /\ T[Len(queue)] = t
    BY DEF Leads
  <1> DEFINE Eqn(f) == f = [n \in 0 .. Len(queue) |->
                         IF n = 0 THEN rows
                         ELSE IF queue[n].op = "audit" THEN f[n - 1] ELSE Written(queue[n], f[n - 1])]
             table == CHOOSE f : Eqn(f)
  <1>2. Eqn(T)
    <2>1. \A n \in 1 .. Len(queue) : queue[n].op = "audit" => Written(queue[n], T[n - 1]) = T[n - 1]
      BY <1>1 DEF Drains, Written, Tables
    <2> QED BY <1>1, <2>1 DEF Drains
  <1>3. Eqn(table)
    <2> HIDE DEF Eqn
    <2> QED BY <1>2
  <1>4. Drained = table[Len(queue)]
    BY DEF Drained
  <1>5. table[Len(queue)] = T[Len(queue)]
    <2> HIDE DEF table
    <2> QED BY <1>1, <1>3, OneCourse
  <1> QED BY <1>1, <1>4, <1>5

LEMMA LeadsEmpty ==
    ASSUME NEW t \in Tables
    PROVE  Leads(t, <<>>, t)
  <1> DEFINE T == [n \in 0 .. 0 |-> t]
  <1>1. Drains(t, <<>>, T) /\ T[Len(<<>>)] = t
    BY DEF Drains
  <1> QED BY <1>1 DEF Leads

LEMMA LeadsOne ==
    ASSUME NEW t \in Tables, NEW w \in Writes
    PROVE  Leads(t, <<w>>, Written(w, t))
  <1> DEFINE T == [n \in 0 .. 1 |-> IF n = 0 THEN t ELSE Written(w, t)]
  <1>1. Written(w, t) \in Tables
    BY WrittenTyped DEF Tables
  <1>2. Len(<<w>>) = 1 /\ <<w>>[1] = w
    OBVIOUS
  <1>3. \A n \in 1 .. 1 : T[n] = Written(<<w>>[n], T[n - 1])
    BY <1>2
  <1>4. Drains(t, <<w>>, T) /\ T[Len(<<w>>)] = Written(w, t)
    BY <1>1, <1>2, <1>3 DEF Drains
  <1> QED BY <1>4 DEF Leads

LEMMA LeadsOn ==
    ASSUME NEW q \in Seq(Writes), NEW more \in Seq(Writes), NEW from, NEW mid, NEW to,
           Leads(from, q, mid), Leads(mid, more, to)
    PROVE  Leads(from, q \o more, to)
  <1>1. PICK A : Drains(from, q, A) /\ A[Len(q)] = mid
    BY DEF Leads
  <1>2. PICK B : Drains(mid, more, B) /\ B[Len(more)] = to
    BY DEF Leads
  <1> DEFINE k == Len(q)
             m == Len(more)
             T == [n \in 0 .. k + m |-> IF n <= k THEN A[n] ELSE B[n - k]]
  <1>3. k \in Nat /\ m \in Nat /\ Len(q \o more) = k + m
    OBVIOUS
  <1>4. ASSUME NEW n \in 0 .. k + m PROVE T[n] \in Tables
    <2>1. n <= k => n \in 0 .. k
      BY <1>3
    <2>2. ~(n <= k) => n - k \in 0 .. m
      BY <1>3
    <2> QED BY <1>1, <1>2, <2>1, <2>2 DEF Drains
  <1>5. ASSUME NEW n \in 1 .. k + m PROVE T[n] = Written((q \o more)[n], T[n - 1])
    <2>1. CASE n <= k
      <3>1. n \in 1 .. k /\ n - 1 <= k /\ n - 1 \in 0 .. k + m
        BY <1>3, <2>1
      <3>2. (q \o more)[n] = q[n]
        BY <3>1
      <3> QED BY <1>1, <2>1, <3>1, <3>2 DEF Drains
    <2>2. CASE ~(n <= k)
      <3>1. n - k \in 1 .. m /\ n - 1 \in 0 .. k + m
        BY <1>3, <2>2
      <3>2. (q \o more)[n] = more[n - k]
        BY <1>3, <2>2
      <3>3. T[n - 1] = B[n - k - 1]
        BY <1>1, <1>2, <1>3, <2>2, <3>1 DEF Drains
      <3>4. B[n - k] = Written(more[n - k], B[n - k - 1])
        BY <1>2, <3>1 DEF Drains
      <3> QED BY <2>2, <3>1, <3>2, <3>3, <3>4
    <2> QED BY <2>1, <2>2
  <1>6. T[0] = from
    BY <1>1, <1>3 DEF Drains
  <1>7. T[k + m] = to
    <2>1. CASE m = 0
      BY <1>1, <1>2, <1>3, <2>1 DEF Drains
    <2>2. CASE m # 0
      BY <1>2, <1>3, <2>2
    <2> QED BY <2>1, <2>2
  <1>8. Drains(from, q \o more, T) /\ T[Len(q \o more)] = to
    <2> HIDE DEF T
    <2>1. T \in [0 .. k + m -> Tables]
      BY <1>4 DEF T
    <2> HIDE DEF k, m
    <2> QED BY <1>3, <1>5, <1>6, <1>7, <2>1 DEF Drains
  <1> HIDE DEF T
  <1> QED BY <1>8 DEF Leads

LEMMA LeadsTail ==
    ASSUME NEW q \in Seq(Writes), q # <<>>, NEW from, NEW to, Leads(from, q, to)
    PROVE  Leads(Written(Head(q), from), Tail(q), to)
  <1>1. PICK A : Drains(from, q, A) /\ A[Len(q)] = to
    BY DEF Leads
  <1> DEFINE k == Len(q)
             T == [n \in 0 .. k - 1 |-> A[n + 1]]
  <1>2. k \in Nat \ {0} /\ Len(Tail(q)) = k - 1 /\ Head(q) = q[1]
    OBVIOUS
  <1>3. T \in [0 .. k - 1 -> Tables]
    BY <1>1, <1>2 DEF Drains
  <1>4. T[0] = Written(Head(q), from)
    BY <1>1, <1>2 DEF Drains
  <1>5. ASSUME NEW n \in 1 .. k - 1 PROVE T[n] = Written(Tail(q)[n], T[n - 1])
    <2>1. n + 1 \in 1 .. k /\ n - 1 \in 0 .. k - 1 /\ Tail(q)[n] = q[n + 1]
      BY <1>2
    <2> QED BY <1>1, <1>2, <2>1 DEF Drains
  <1>6. Drains(Written(Head(q), from), Tail(q), T) /\ T[Len(Tail(q))] = to
    BY <1>1, <1>2, <1>3, <1>4, <1>5 DEF Drains
  <1> QED BY <1>6 DEF Leads

(* An order of a set visits each of its members once.                      *)
LEMMA OrdersCover ==
    ASSUME NEW S \in SUBSET Requests, NEW f \in Orders(S)
    PROVE  /\ f \in Seq(Requests)
           /\ \A i, j \in DOMAIN f : f[i] = f[j] => i = j
           /\ \A r : r \in S <=> \E i \in 1 .. Len(f) : f[i] = r
  <1> DEFINE n == Cardinality(S)
  <1>1. IsFiniteSet(S)
    BY FS_Subset, ConstantsAssumption
  <1>2. n \in Nat
    BY <1>1, FS_CardinalityType
  <1>3. f \in [1 .. n -> S] /\ \A i, j \in 1 .. n : f[i] = f[j] => i = j
    BY DEF Orders
  <1>4. Cardinality(1 .. n) = n
    BY <1>2, FS_Interval
  <1>5. f \in Injection(1 .. n, S)
    BY <1>3 DEF Injection, IsInjective
  <1>6. f \in Surjection(1 .. n, S)
    <2> HIDE DEF n
    <2> QED BY <1>1, <1>4, <1>5, FS_Injection DEF n
  <1>7. \A r \in S : \E i \in 1 .. n : f[i] = r
    BY <1>6 DEF Surjection
  <1>8. f \in Seq(Requests) /\ Len(f) = n /\ DOMAIN f = 1 .. n
    BY <1>2, <1>3
  <1> QED BY <1>3, <1>7, <1>8

(* The writes of submit() and of expirePending(), one by one.              *)
LEMMA SubmitLeads ==
    ASSUME now \in Nat, NEW t \in Tables, NEW new \in SUBSET Requests,
           \A r \in new : t[r].status = "absent", NEW added \in Orders(new)
    PROVE  Leads(t, Upserts(added), [r \in Requests |-> IF r \in new THEN Fresh ELSE t[r]])
  <1> DEFINE T == [n \in 0 .. Len(added) |->
                      [r \in Requests |-> IF \E i \in 1 .. n : added[i] = r THEN Fresh ELSE t[r]]]
             u == [r \in Requests |-> IF r \in new THEN Fresh ELSE t[r]]
  <1>1. /\ added \in Seq(Requests)
        /\ \A i, j \in DOMAIN added : added[i] = added[j] => i = j
        /\ \A r : r \in new <=> \E i \in 1 .. Len(added) : added[i] = r
    BY OrdersCover
  <1>2. Len(Upserts(added)) = Len(added) /\ Len(added) \in Nat
    BY <1>1 DEF Upserts
  <1>3. T \in [0 .. Len(added) -> Tables]
    BY FreshTyped DEF Tables
  <1>4. T[0] = t
    BY <1>2 DEF Tables
  <1>5. ASSUME NEW n \in 1 .. Len(added) PROVE T[n] = Written(Upserts(added)[n], T[n - 1])
    <2>1. Upserts(added)[n] = Upsert(added[n], Fresh) /\ added[n] \in new
      BY <1>1, <1>2 DEF Upserts
    <2>2. n - 1 \in 0 .. Len(added) /\ n \in 0 .. Len(added)
      BY <1>2
    <2>3. ASSUME NEW r \in Requests PROVE T[n][r] = Written(Upserts(added)[n], T[n - 1])[r]
      <3>1. (\E i \in 1 .. n : added[i] = r) <=> (\E i \in 1 .. n - 1 : added[i] = r) \/ r = added[n]
        BY <1>2
      <3>2. r = added[n] => ~ \E i \in 1 .. n - 1 : added[i] = r
        BY <1>1, <1>2
      <3>3. r = added[n] => T[n - 1][r].status = "absent"
        BY <2>1, <2>2, <3>2
      <3>4. T[n][r] = IF \E i \in 1 .. n : added[i] = r THEN Fresh ELSE t[r]
        BY <2>2
      <3>5. T[n - 1][r] = IF \E i \in 1 .. n - 1 : added[i] = r THEN Fresh ELSE t[r]
        BY <2>2
      <3> HIDE DEF T
      <3>6. Written(Upserts(added)[n], T[n - 1])[r] = IF r = added[n] THEN Fresh ELSE T[n - 1][r]
        <4> DEFINE w == Upserts(added)[n]
                   b == T[n - 1]
        <4>1. w.op = "upsert" /\ w.r = added[n] /\ w.row = Fresh
          BY <2>1 DEF Upsert
        <4>2. r = added[n] => b[r].status = "absent"
          BY <3>3
        <4> HIDE DEF w, b
        <4>3. Written(w, b)[r] = IF r = added[n] THEN Fresh ELSE b[r]
          BY <4>1, <4>2 DEF Written
        <4> QED BY <4>3 DEF w, b
      <3>7. CASE r = added[n]
        BY <3>1, <3>4, <3>6, <3>7
      <3>8. CASE r # added[n]
        BY <3>1, <3>4, <3>5, <3>6, <3>8
      <3> QED BY <3>7, <3>8
    <2>4. T[n] = [r \in Requests |-> T[n][r]]
      BY <2>2
    <2> HIDE DEF T
    <2> QED BY <2>3, <2>4 DEF Written
  <1>6. T[Len(added)] = u
    BY <1>1, <1>2
  <1> HIDE DEF T
  <1>7. Drains(t, Upserts(added), T) /\ T[Len(Upserts(added))] = u
    BY <1>2, <1>3, <1>4, <1>5, <1>6 DEF Drains
  <1> QED BY <1>7 DEF Leads

ExpiredRow(row) == Revised(row, Update("", "expired", "reviewer"))

LEMMA ExpiryLeads ==
    ASSUME NEW t \in Tables, NEW dead \in SUBSET Requests,
           \A r \in dead : t[r].status # "absent", NEW expired \in Orders(dead)
    PROVE  Leads(t, ExpiryWrites(expired),
                 [r \in Requests |-> IF r \in dead THEN ExpiredRow(t[r]) ELSE t[r]])
  <1> DEFINE m == Len(expired)
             Done(n, r) == \E j \in 1 .. m : 2 * j - 1 <= n /\ expired[j] = r
             T == [n \in 0 .. 2 * m |->
                      [r \in Requests |-> IF Done(n, r) THEN ExpiredRow(t[r]) ELSE t[r]]]
             u == [r \in Requests |-> IF r \in dead THEN ExpiredRow(t[r]) ELSE t[r]]
  <1>1. /\ expired \in Seq(Requests)
        /\ \A i, j \in DOMAIN expired : expired[i] = expired[j] => i = j
        /\ \A r : r \in dead <=> \E i \in 1 .. m : expired[i] = r
    BY OrdersCover
  <1>2. m \in Nat /\ Len(ExpiryWrites(expired)) = 2 * m
    BY <1>1 DEF ExpiryWrites
  <1>3. T \in [0 .. 2 * m -> Tables]
    BY DEF Tables, ExpiredRow, Revised, Update, Rows
  <1>4. T[0] = t
    <2>1. \A r : ~Done(0, r)
      BY <1>2
    <2> QED BY <1>2, <2>1 DEF Tables
  <1>5. ASSUME NEW n \in 1 .. 2 * m PROVE T[n] = Written(ExpiryWrites(expired)[n], T[n - 1])
    <2>1. n - 1 \in 0 .. 2 * m /\ n \in 0 .. 2 * m
      BY <1>2
    <2>2. CASE n % 2 = 1
      <3> DEFINE k == (n + 1) \div 2
      <3>1. k \in 1 .. m /\ n = 2 * k - 1
        BY <1>2, <2>2
      <3>2. ExpiryWrites(expired)[n] = Update(expired[k], "expired", "reviewer")
        BY <1>2, <2>2 DEF ExpiryWrites
      <3>3. expired[k] \in dead
        BY <1>1, <3>1
      <3> HIDE DEF k
      <3>4. ASSUME NEW r \in Requests
            PROVE  T[n][r] = Written(ExpiryWrites(expired)[n], T[n - 1])[r]
        <4>1. Done(n, r) <=> Done(n - 1, r) \/ r = expired[k]
          BY <1>2, <3>1
        <4>2. r = expired[k] => ~Done(n - 1, r)
          BY <1>1, <1>2, <3>1
        <4> HIDE DEF Done
        <4>3. r = expired[k] => T[n - 1][r] = t[r] /\ t[r].status # "absent"
          BY <2>1, <3>3, <4>2
        <4>4. Written(ExpiryWrites(expired)[n], T[n - 1])[r]
                = IF r = expired[k] THEN ExpiredRow(t[r]) ELSE T[n - 1][r]
          BY <3>2, <4>3 DEF Written, Update, ExpiredRow, Revised
        <4> QED BY <2>1, <4>1, <4>4
      <3>5. T[n] = [r \in Requests |-> T[n][r]]
        BY <2>1
      <3> HIDE DEF T
      <3> QED BY <3>4, <3>5 DEF Written
    <2>3. CASE n % 2 # 1
      <3>1. \A j \in 1 .. m : 2 * j - 1 <= n <=> 2 * j - 1 <= n - 1
        BY <1>2, <2>3
      <3>2. \A r : Done(n, r) <=> Done(n - 1, r)
        BY <3>1
      <3>3. ExpiryWrites(expired)[n].op = "audit"
        BY <1>2, <2>3 DEF ExpiryWrites, Audit
      <3>4. T[n] = T[n - 1] /\ T[n] = [r \in Requests |-> T[n][r]]
        <4> HIDE DEF Done
        <4> QED BY <2>1, <3>2
      <3> HIDE DEF T
      <3> QED BY <3>3, <3>4 DEF Written
    <2> QED BY <2>2, <2>3
  <1>6. T[2 * m] = u
    <2>1. \A r : Done(2 * m, r) <=> r \in dead
      BY <1>1, <1>2
    <2> HIDE DEF Done
    <2> QED BY <1>2, <2>1
  <1> HIDE DEF T
  <1>7. Drains(t, ExpiryWrites(expired), T) /\ T[Len(ExpiryWrites(expired))] = u
    BY <1>2, <1>3, <1>4, <1>5, <1>6 DEF Drains
  <1> QED BY <1>7 DEF Leads

-----------------------------------------------------------------------------
(* The queue leads the table to what memory holds.                         *)

Alike(t, m) == \A r \in Requests : t[r].status = m[r].status /\ t[r].created = m[r].created

LeadsToMemory == up /\ failures = 0 => \E t \in Tables : Leads(rows, queue, t) /\ Alike(t, requests)

DownHasNoQueue == ~up => queue = <<>>

ThroughInv == DownHasNoQueue /\ LeadsToMemory

LEMMA QuietThrough ==
    ASSUME ThroughInv, UNCHANGED <<up, requests, queue, rows, failures>>
    PROVE  ThroughInv'
  BY DEF ThroughInv, DownHasNoQueue, LeadsToMemory, Alike

(* Appending writes that take a table like memory to one like the new memory. *)
LEMMA ExtensionThrough ==
    ASSUME TypeOK, ThroughInv, up, UNCHANGED <<up, rows, failures>>,
           NEW more \in Seq(Writes), queue' = queue \o more,
           \A t \in Tables : Alike(t, requests) => \E u \in Tables : Leads(t, more, u) /\ Alike(u, requests')
    PROVE  ThroughInv'
  <1>1. ASSUME failures = 0
        PROVE  \E u \in Tables : Leads(rows, queue', u) /\ Alike(u, requests')
    <2>1. PICK t \in Tables : Leads(rows, queue, t) /\ Alike(t, requests)
      BY <1>1 DEF ThroughInv, LeadsToMemory
    <2>2. PICK u \in Tables : Leads(t, more, u) /\ Alike(u, requests')
      BY <2>1
    <2>3. Leads(rows, queue \o more, u)
      BY <2>1, <2>2, LeadsOn DEF TypeOK
    <2> QED BY <2>2, <2>3
  <1> QED BY <1>1 DEF ThroughInv, DownHasNoQueue, LeadsToMemory

LEMMA SubmitAndExpireThrough ==
    ASSUME TypeOK, ThroughInv, up, UNCHANGED <<up, rows, failures>>,
           NEW new \in SUBSET Requests, NEW dead \in SUBSET Requests,
           \A r \in new : requests[r].status = "absent",
           \A r \in dead : requests[r].status = "pending",
           SubmitAndExpire(new, dead)
    PROVE  ThroughInv'
  <1>1. PICK added \in Orders(new), expired \in Orders(dead) :
            queue' = queue \o Upserts(added) \o ExpiryWrites(expired)
    BY DEF SubmitAndExpire
  <1> DEFINE a == Upserts(added)
             e == ExpiryWrites(expired)
  <1>2. a \in Seq(Writes) /\ e \in Seq(Writes)
    BY OrdersTyped, UpsertsTyped, ExpiryWritesTyped DEF TypeOK
  <1>3. queue' = queue \o (a \o e)
    BY <1>1, <1>2 DEF TypeOK
  <1>4. ASSUME NEW t \in Tables, Alike(t, requests)
        PROVE  \E u \in Tables : Leads(t, a \o e, u) /\ Alike(u, requests')
    <2> DEFINE mid == [r \in Requests |-> IF r \in new THEN Fresh ELSE t[r]]
               u == [r \in Requests |-> IF r \in dead THEN ExpiredRow(mid[r]) ELSE mid[r]]
    <2>1. now \in Nat /\ \A r \in new : t[r].status = "absent"
      BY <1>4 DEF Alike, TypeOK
    <2>2. mid \in Tables
      BY <2>1, FreshTyped DEF Tables
    <2>3. \A r \in dead : mid[r] = t[r] /\ t[r].status = "pending"
      BY <1>4 DEF Alike
    <2>4. u \in Tables
      <3> HIDE DEF mid
      <3> QED BY <2>2 DEF Tables, ExpiredRow, Revised, Update, Rows
    <2>5. Leads(t, a, mid)
      BY <2>1, SubmitLeads
    <2>6. Leads(mid, e, u)
      <3> HIDE DEF mid
      <3> QED BY <2>2, <2>3, ExpiryLeads
    <2>7. Leads(t, a \o e, u)
      <3> HIDE DEF mid, u, a, e
      <3> QED BY <1>2, <2>5, <2>6, LeadsOn
    <2>8. Alike(u, requests')
      BY <1>4, <2>3 DEF Alike, SubmitAndExpire, WithStatus, ExpiredRow, Revised, Update, TypeOK
    <2> HIDE DEF u, a, e
    <2> QED BY <2>4, <2>7, <2>8
  <1> HIDE DEF a, e
  <1>5. a \o e \in Seq(Writes)
    BY <1>2
  <1> QED BY <1>3, <1>4, <1>5, ExtensionThrough

LEMMA RecordThrough ==
    ASSUME TypeOK, ThroughInv, up, UNCHANGED <<up, rows, failures>>,
           NEW r \in Requests, NEW v \in Decisions,
           requests[r].status = "pending", Record(r, v)
    PROVE  ThroughInv'
  <1>1. PICK text \in Texts : queue' = queue \o <<Update(r, v, text), Audit(r, v)>>
    BY DEF Record
  <1> DEFINE w == Update(r, v, text)
             x == Audit(r, v)
  <1>2. w \in Writes /\ x \in Writes
    BY WritesTyped
  <1>3. <<w, x>> = <<w>> \o <<x>>
    OBVIOUS
  <1>4. ASSUME NEW t \in Tables, Alike(t, requests)
        PROVE  \E u \in Tables : Leads(t, <<w>> \o <<x>>, u) /\ Alike(u, requests')
    <2> DEFINE u == Written(w, t)
    <2>1. u \in Tables
      BY <1>2, WrittenTyped DEF Tables
    <2>2. Leads(t, <<w>>, u)
      BY <1>2, LeadsOne
    <2>3. Written(x, u) = u
      <3> HIDE DEF u
      <3> QED BY <2>1 DEF Written, Audit, Tables
    <2>4. Leads(u, <<x>>, u)
      <3> HIDE DEF u, x
      <3> QED BY <1>2, <2>1, <2>3, LeadsOne
    <2>5. Leads(t, <<w>> \o <<x>>, u)
      <3>1. <<w>> \in Seq(Writes) /\ <<x>> \in Seq(Writes)
        BY <1>2
      <3> HIDE DEF u, w, x
      <3> QED BY <2>2, <2>4, <3>1, LeadsOn
    <2>6. Alike(u, requests')
      BY <1>4 DEF Alike, Record, WithStatus, Written, Revised, Update, TypeOK
    <2> HIDE DEF u
    <2> QED BY <2>1, <2>5, <2>6
  <1> HIDE DEF w, x
  <1>5. <<w>> \o <<x>> \in Seq(Writes)
    BY <1>2
  <1> QED BY <1>1, <1>3, <1>4, <1>5, ExtensionThrough DEF w, x

(* One write that takes a table like memory to one like the new memory.    *)
LEMMA OneWriteThrough ==
    ASSUME TypeOK, ThroughInv, up, UNCHANGED <<up, rows, failures>>,
           NEW w \in Writes, queue' = Append(queue, w),
           \A t \in Tables : Alike(t, requests) => Alike(Written(w, t), requests')
    PROVE  ThroughInv'
  <1>1. queue' = queue \o <<w>> /\ <<w>> \in Seq(Writes)
    BY DEF TypeOK
  <1>2. \A t \in Tables : Leads(t, <<w>>, Written(w, t)) /\ Written(w, t) \in Tables
    BY LeadsOne, WrittenTyped DEF Tables
  <1> QED BY <1>1, <1>2, ExtensionThrough

LEMMA HandlerThrough ==
    ASSUME TypeOK, ThroughInv, NEW d \in Deciders, NEW r \in Requests,
           HandleEvent(d, r)
    PROVE  ThroughInv'
  <1> USE DEF external, disk, budgets
  <1>1. CASE UNCHANGED <<requests, queue>>
    BY <1>1, QuietThrough DEF HandleEvent
  <1>2. CASE /\ requests[r].status = "absent"
             /\ requests' = [requests EXCEPT ![r] = Fresh]
             /\ queue' = Append(queue, Upsert(r, Fresh))
    <2>1. Upsert(r, Fresh) \in Writes
      BY FreshTyped, WritesTyped DEF TypeOK
    <2>2. ASSUME NEW t \in Tables, Alike(t, requests) PROVE Alike(Written(Upsert(r, Fresh), t), requests')
      BY <1>2, <2>2 DEF Alike, Written, Upsert, Tables, TypeOK
    <2>3. up /\ UNCHANGED <<up, rows, failures>>
      BY DEF HandleEvent, CanRun
    <2> QED BY <1>2, <2>1, <2>2, <2>3, OneWriteThrough
  <1> QED BY <1>1, <1>2 DEF HandleEvent, Submitted

LEMMA PruneThrough ==
    ASSUME TypeOK, ThroughInv, PruneReviewed
    PROVE  ThroughInv'
  <1> USE DEF external, disk, budgets
  <1> DEFINE cutoff == now - RetentionAge
             w == Prune(cutoff)
  <1>1. /\ up /\ UNCHANGED <<up, rows, failures>>
        /\ queue' = Append(queue, w)
        /\ requests' = [r \in Requests |-> IF Pruned(requests[r], cutoff) THEN Absent ELSE requests[r]]
    BY DEF PruneReviewed, CanRun
  <1>2. w \in Writes
    <2>1. cutoff \in Nat
      BY ConstantsAssumption DEF PruneReviewed, TypeOK
    <2> QED BY <2>1, WritesTyped
  <1>3. ASSUME NEW t \in Tables, Alike(t, requests) PROVE Alike(Written(w, t), requests')
    <2> SUFFICES ASSUME NEW r \in Requests
                 PROVE  /\ Written(w, t)[r].status = requests'[r].status
                        /\ Written(w, t)[r].created = requests'[r].created
      BY DEF Alike
    <2>1. Pruned(t[r], cutoff) <=> Pruned(requests[r], cutoff)
      BY <1>3 DEF Alike, Pruned
    <2>2. Written(w, t)[r] = IF Pruned(t[r], cutoff) THEN Absent ELSE t[r]
      BY DEF Written, Prune
    <2> HIDE DEF cutoff, w
    <2> QED BY <1>1, <1>3, <2>1, <2>2 DEF Alike
  <1> HIDE DEF cutoff, w
  <1> QED BY <1>1, <1>2, <1>3, OneWriteThrough

LEMMA SettleThrough ==
    ASSUME TypeOK, ThroughInv, NEW d \in Deciders, Settle(d)
    PROVE  ThroughInv'
  <1> USE DEF external, disk, budgets, memory
  <1> DEFINE r == deciders[d].r
             v == deciders[d].verdict
  <1>1. up /\ UNCHANGED <<up, rows, failures>>
    BY DEF Settle
  <1>2. r \in Requests /\ v \in Decisions
    BY DecidersTyped DEF Settle
  <1>3. CASE UNCHANGED <<requests, queue>>
    BY <1>1, <1>3, QuietThrough
  <1>4. CASE requests[r].status = "pending" /\ Record(r, v)
    <2> HIDE DEF r, v
    <2> QED BY <1>1, <1>2, <1>4, RecordThrough
  <1>5. CASE requests[r].status = "pending" /\ Expire({r})
    <2>1. {} \in SUBSET Requests /\ {r} \in SUBSET Requests
      BY <1>2
    <2>2. SubmitAndExpire({}, {r})
      BY <1>5 DEF Expire
    <2> HIDE DEF r
    <2> QED BY <1>1, <1>5, <2>1, <2>2, SubmitAndExpireThrough
  <1> QED BY <1>3, <1>4, <1>5 DEF Settle, Outcome

LEMMA SweepThrough ==
    ASSUME TypeOK, ThroughInv, ExpireStalePending
    PROVE  ThroughInv'
  <1>1. up /\ UNCHANGED <<up, rows, failures>>
    BY DEF ExpireStalePending, CanRun, disk, budgets
  <1>2. SubmitAndExpire({}, OutOfTtl)
    BY DEF ExpireStalePending, Expire
  <1>3. OutOfTtl \in SUBSET Requests /\ \A r \in OutOfTtl : requests[r].status = "pending"
    BY DEF OutOfTtl, Pending
  <1> QED BY <1>1, <1>2, <1>3, SubmitAndExpireThrough

LEMMA SyncThrough ==
    ASSUME TypeOK, ThroughInv, NEW s \in Syncers, SyncApply(s)
    PROVE  ThroughInv'
  <1> DEFINE list == syncers[s].list
             new == Unknown(list)
             dead == MissingFrom(syncers[s].g, list) \union OutOfTtl
  <1>1. up /\ UNCHANGED <<up, rows, failures>>
    BY DEF SyncApply, CanRun, disk, budgets
  <1>2. SubmitAndExpire(new, dead)
    BY DEF SyncApply
  <1>3. new \in SUBSET Requests /\ \A r \in new : requests[r].status = "absent"
    BY ListedTyped DEF SyncApply, Unknown
  <1>4. dead \in SUBSET Requests /\ \A r \in dead : requests[r].status = "pending"
    BY DEF MissingFrom, OutOfTtl, Pending
  <1> HIDE DEF new, dead
  <1> QED BY <1>1, <1>2, <1>3, <1>4, SubmitAndExpireThrough

LEMMA WriteThroughStep ==
    ASSUME TypeOK, ThroughInv, WriteDone \/ WriteFails
    PROVE  ThroughInv'
  <1> USE DEF external, disk, budgets
  <1>1. CASE WriteFails
    BY <1>1 DEF WriteFails, TypeOK, ThroughInv, DownHasNoQueue, LeadsToMemory
  <1>2. CASE WriteDone
    <2> DEFINE w == Head(queue)
    <2>1. /\ up /\ queue # <<>> /\ queue \in Seq(Writes) /\ queue' = Tail(queue)
          /\ UNCHANGED <<up, requests, failures>>
      BY <1>2 DEF WriteDone, TypeOK
    <2>2. rows' = Written(w, rows)
      <3>1. w.op = "audit" => Written(w, rows) = rows
        BY DEF Written, TypeOK
      <3> QED BY <1>2, <3>1 DEF WriteDone
    <2>3. \A t : Leads(rows, queue, t) => Leads(rows', queue', t)
      <3> HIDE DEF w
      <3> QED BY <2>1, <2>2, LeadsTail DEF w
    <2> QED BY <2>1, <2>3 DEF ThroughInv, DownHasNoQueue, LeadsToMemory, Alike
  <1> QED BY <1>1, <1>2

LEMMA CrashThrough ==
    ASSUME TypeOK, ThroughInv, Crash \/ Restart
    PROVE  ThroughInv'
  <1> USE DEF external, disk, budgets
  <1>1. CASE Crash
    BY <1>1 DEF Crash, ThroughInv, DownHasNoQueue, LeadsToMemory
  <1>2. CASE Restart
    <2>1. /\ queue' = <<>> /\ rows' = rows /\ requests' = rows /\ up' /\ rows \in Tables
      BY <1>2 DEF Restart, ThroughInv, DownHasNoQueue, TypeOK, Tables
    <2>2. Leads(rows, <<>>, rows) /\ Alike(rows, requests')
      BY <2>1, LeadsEmpty DEF Alike
    <2> QED BY <2>1, <2>2 DEF ThroughInv, DownHasNoQueue, LeadsToMemory
  <1> QED BY <1>1, <1>2

LEMMA InitThrough == Init => ThroughInv
  <1> SUFFICES ASSUME Init PROVE ThroughInv
    OBVIOUS
  <1>1. rows \in Tables
    BY InitInv DEF IInv, TypeOK, Tables
  <1>2. Leads(rows, queue, rows) /\ Alike(rows, requests)
    BY <1>1, LeadsEmpty DEF Init, Alike
  <1> QED BY <1>1, <1>2 DEF Init, ThroughInv, DownHasNoQueue, LeadsToMemory

LEMMA NextThrough == TypeOK /\ ThroughInv /\ [Next]_vars => ThroughInv'
  <1> SUFFICES ASSUME TypeOK, ThroughInv, [Next]_vars PROVE ThroughInv'
    OBVIOUS
  <1> USE DEF external, memory, disk, budgets
  <1>1. CASE UNCHANGED vars
    BY <1>1, QuietThrough DEF vars
  <1>2. CASE Tick \/ Platform
    BY <1>2, QuietThrough DEF Tick, Platform, Apply, DecideOutside, PlatformDecides, PlatformRefuses
  <1>3. CASE Handlers
    <2>1. PICK d \in Deciders, r \in Requests : HandleEvent(d, r) \/ \E v : Review(d, r, v)
      BY <1>3 DEF Handlers, ApproveCard, HandleApprove, HandleReject, ReviewRequest,
                  ApproveJoin, RejectJoin
    <2>2. CASE \E v : Review(d, r, v)
      BY <2>2, QuietThrough DEF Review
    <2> QED BY <2>1, <2>2, HandlerThrough
  <1>4. CASE \E d \in Deciders : Settle(d)
    BY <1>4, SettleThrough
  <1>5. CASE Syncing
    <2>1. PICK s \in Syncers : \/ \E g \in Groups : SyncStart(s, g)
                               \/ SyncListed(s) \/ SyncFails(s) \/ SyncApply(s)
      BY <1>5 DEF Syncing, SyncCard, JoinSyncRequest, SyncJoinRequests
    <2>2. CASE SyncApply(s)
      BY <2>2, SyncThrough
    <2>3. CASE (\E g \in Groups : SyncStart(s, g)) \/ SyncListed(s) \/ SyncFails(s)
      BY <2>3, QuietThrough DEF SyncStart, SyncListed, SyncFails
    <2> QED BY <2>1, <2>2, <2>3
  <1>6. CASE \E g \in Groups : CooldownEnds(g)
    BY <1>6, QuietThrough DEF CooldownEnds
  <1>7. CASE ExpireStalePending \/ PruneReviewed
    BY <1>7, SweepThrough, PruneThrough
  <1>8. CASE WriteDone \/ WriteFails
    BY <1>8, WriteThroughStep
  <1>9. CASE Crash \/ Restart
    BY <1>9, CrashThrough
  <1> QED BY <1>1, <1>2, <1>3, <1>4, <1>5, <1>6, <1>7, <1>8, <1>9 DEF Next, PendingCard

LEMMA ThroughShown == TypeOK /\ ThroughInv => WriteThrough
  <1> SUFFICES ASSUME TypeOK, ThroughInv, up, failures = 0
               PROVE  \A r \in Requests : /\ Drained[r].status = requests[r].status
                                          /\ Drained[r].created = requests[r].created
    BY DEF WriteThrough
  <1>1. PICK t \in Tables : Leads(rows, queue, t) /\ Alike(t, requests)
    BY DEF ThroughInv, LeadsToMemory
  <1>2. Drained = t
    BY <1>1, DrainedIs DEF TypeOK, Tables
  <1> QED BY <1>1, <1>2 DEF Alike

(* As long as no write failed, memory is what the table becomes once the   *)
(* queue has drained - whatever is submitted, decided, expired, pruned,    *)
(* lost in a crash and loaded again (writeQueue.ts:8, joinAudit.ts).       *)
THEOREM WritesReachTheTable == Spec => []WriteThrough
  <1>1. Spec => []TypeOK
    BY TypeCorrect
  <1>2. TypeOK /\ ThroughInv /\ [Next]_vars => ThroughInv'
    BY NextThrough
  <1> QED BY <1>1, <1>2, InitThrough, ThroughShown, PTL DEF Spec
=============================================================================
