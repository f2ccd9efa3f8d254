---------------------------- MODULE Schedule_proofs ----------------------------
(***************************************************************************)
(* For any calendar, any expressions and any number of announcements, rounds'*)
(* steps and "send now" commands:                                           *)
(*   - sending an announcement works on a copy read before the send was      *)
(*     awaited, and leaves what administrators changed meanwhile as it is;   *)
(*   - no announcement is sent twice for a minute without an excuse, and no  *)
(*     window has more copies than its limit but for the sends under way at  *)
(*     once, and for what a kill leaves out of the log.                      *)
(***************************************************************************)
EXTENDS Schedule, FiniteSetTheorems, WellFoundedInduction, TLAPS

\* An announcement that exists has these four fields.
Alive(x) == x = [st |-> "live", on |-> x.on, cron |-> x.cron, last |-> x.last]

Table(t) ==
    /\ t = [i \in Ids |-> t[i]]
    /\ \A i \in Ids : t[i] \in {New, Gone} \/ Alive(t[i])

\* Memory, and the rows a start reads it from.
Tables == Table(ann) /\ Table(disk.ann)

\* t is what memory holds but for marks.
OnlyMarked(t) == Table(t) /\ \A i \in Ids : AsLeft(ann[i], t[i])

-----------------------------------------------------------------------------
LEMMA MarkLiteral ==
    ASSUME NEW on, NEW cron, NEW last, NEW minute
    PROVE  [[st |-> "live", on |-> on, cron |-> cron, last |-> last] EXCEPT !.last = minute]
              = [st |-> "live", on |-> on, cron |-> cron, last |-> minute]
OBVIOUS

LEMMA MarkAlive ==
    ASSUME NEW x, Alive(x), NEW minute
    PROVE  LET y == [x EXCEPT !.last = minute]
           IN  Alive(y) /\ y.st = "live" /\ Edited(y) = Edited(x)
<1> DEFINE Marked(m) == [st |-> "live", on |-> x.on, cron |-> x.cron, last |-> m]
<1>1. x = Marked(x.last)
  BY DEF Alive
<1>2. \A m, n : [Marked(m) EXCEPT !.last = n] = Marked(n)
  BY MarkLiteral
<1>3. Alive(Marked(minute)) /\ Marked(minute).st = "live"
  BY DEF Alive
<1> HIDE DEF Marked
<1>4. [x EXCEPT !.last = minute] = Marked(minute)
  BY <1>1, <1>2, Zenon
<1>5. Edited(x) = Marked(Never) /\ Edited(Marked(minute)) = Marked(Never)
  BY <1>1, <1>2, Zenon DEF Edited
<1> QED BY <1>3, <1>4, <1>5

LEMMA MarkOnly ==
    ASSUME Table(ann), NEW t, OnlyMarked(t), NEW j, NEW minute
    PROVE  OnlyMarked(MarkFired(t, j, minute))
<1> DEFINE u == MarkFired(t, j, minute)
<1>1. CASE ~Live(j)
  BY <1>1 DEF MarkFired
<1>2. CASE Live(j)
  <2>1. u = [i \in Ids |-> IF i = j THEN [t[i] EXCEPT !.last = minute] ELSE t[i]]
    <3>1. u = [t EXCEPT ![j] = [t[j] EXCEPT !.last = minute]]
      BY <1>2, Zenon DEF MarkFired
    <3>2. t = [i \in Ids |-> t[i]]
      BY DEF OnlyMarked, Table
    <3> DEFINE x == [t[j] EXCEPT !.last = minute]
    <3>3. u = [i \in Ids |-> IF i = j THEN x ELSE t[i]]
      <4> HIDE DEF x, u
      <4>1. u = [t EXCEPT ![j] = x]
        BY <3>1 DEF x
      <4> QED BY <3>2, <4>1
    <3> QED BY <3>3
  <2>2. ASSUME NEW i \in Ids
        PROVE  (u[i] \in {New, Gone} \/ Alive(u[i])) /\ AsLeft(ann[i], u[i])
    <3>1. CASE i # j
      BY <2>1, <3>1 DEF OnlyMarked, Table
    <3>2. CASE i = j
      <4>1. Alive(ann[i]) /\ ann[i].st = "live"
        BY <1>2, <3>2 DEF Live, Table, New, Gone
      <4>2. Alive(t[i]) /\ t[i].st = "live" /\ Edited(t[i]) = Edited(ann[i])
        <5>1. CASE ann[i] = t[i]
          BY <4>1, <5>1
        <5>2. CASE t[i].st = "live" /\ Edited(ann[i]) = Edited(t[i])
          <6>1. t[i] \notin {New, Gone}
            BY <5>2 DEF New, Gone
          <6> QED BY <5>2, <6>1 DEF OnlyMarked, Table
        <5> QED BY <5>1, <5>2 DEF OnlyMarked, AsLeft
      <4>3. u[i] = [t[i] EXCEPT !.last = minute]
        BY <2>1, <3>2
      <4> QED BY <4>1, <4>2, <4>3, MarkAlive DEF AsLeft
    <3> QED BY <3>1, <3>2
  <2>3. u = [i \in Ids |-> u[i]]
    BY <2>1
  <2> QED BY <2>2, <2>3 DEF OnlyMarked, Table
<1> QED BY <1>1, <1>2

LEMMA AsIs == Table(ann) => OnlyMarked(ann)
BY DEF OnlyMarked, AsLeft

\* One stretch of a round marks at most the announcement it came to.
LEMMA GoOnMarks ==
    ASSUME Table(ann), NEW r, NEW at, NEW todo, NEW t, NEW log, OnlyMarked(t),
           GoOn(r, at, todo, t, log)
    PROVE  OnlyMarked(ann')
<1>1. PICK j : ann' = t \/ ann' = MarkFired(t, j, at)
  BY DEF GoOn
<1> QED BY <1>1, MarkOnly

LEMMA SendingMarks ==
    ASSUME Table(ann),
           (\E r \in Rounds : RoundStep(r)) \/ (\E s \in Slots : SendNowEnd(s))
    PROVE  OnlyMarked(ann')
<1>1. ASSUME NEW r \in Rounds, RemindStep(r) \/ CastEnd(r)
      PROVE  OnlyMarked(ann')
  BY <1>1, AsIs DEF RemindStep, CastEnd
<1>2. ASSUME NEW r \in Rounds, AnnounceStart(r)
      PROVE  OnlyMarked(ann')
  BY <1>2, AsIs, GoOnMarks DEF AnnounceStart
<1>3. ASSUME NEW r \in Rounds, DeliverEnd(r)
      PROVE  OnlyMarked(ann')
  <2> DEFINE t == MarkFired(ann, round[r].cur, round[r].at)
  <2>1. OnlyMarked(t)
    BY AsIs, MarkOnly
  <2>2. \/ GoOn(r, round[r].at, round[r].todo, t, RecordFire(round[r].at))
        \/ ann' = t
    BY <1>3 DEF DeliverEnd
  <2> HIDE DEF t
  <2> QED BY <2>1, <2>2, GoOnMarks
<1>4. ASSUME NEW r \in Rounds, TellEnd(r)
      PROVE  OnlyMarked(ann')
  BY <1>4, AsIs, GoOnMarks DEF TellEnd
<1>5. ASSUME NEW s \in Slots, SendNowEnd(s)
      PROVE  OnlyMarked(ann')
  <2>1. ann' = MarkFired(ann, manual[s].cur, manual[s].at)
    BY <1>5 DEF SendNowEnd
  <2> QED BY <2>1, AsIs, MarkOnly
<1> QED BY <1>1, <1>2, <1>3, <1>4, <1>5 DEF RoundStep

-----------------------------------------------------------------------------
LEMMA TablesInit == Init => Tables
<1> SUFFICES ASSUME Init PROVE Tables
  OBVIOUS
<1>1. ann \in [Ids -> Task \cup {New}]
  BY StoredTables DEF Init
<1>2. \A x \in Task : Alive(x)
  BY DEF Task, Alive
<1>3. Table(ann)
  BY <1>1, <1>2 DEF Table
<1>4. disk.ann = ann
  BY DEF Init, Rows
<1> QED BY <1>3, <1>4 DEF Tables

\* Edits: the rest of the table is left alone.
LEMMA EditKeepsTable ==
    ASSUME Table(ann), NEW j, NEW x, x = Gone \/ Alive(x), ann' = [ann EXCEPT ![j] = x]
    PROVE  Table(ann')
BY DEF Table

LEMMA EditKeeps == Tables /\ (HandleAnnounce \/ AnnouncementRequest) => Tables'
<1> SUFFICES ASSUME Tables, HandleAnnounce \/ AnnouncementRequest PROVE Tables'
  OBVIOUS
<1>1. CASE CreateAnnouncement
  <2>1. PICK i \in Ids, e \in Exprs :
            ann' = [ann EXCEPT ![i] = [st |-> "live", on |-> FALSE, cron |-> e, last |-> Never]]
    BY <1>1 DEF CreateAnnouncement
  <2>2. Alive([st |-> "live", on |-> FALSE, cron |-> e, last |-> Never])
    BY DEF Alive
  <2> QED BY <1>1, <2>1, <2>2, EditKeepsTable DEF CreateAnnouncement, EditFrame, Tables
<1>2. ASSUME NEW i \in Ids, NEW e, NEW on, Change(i, e, on)
      PROVE  Tables'
  <2> DEFINE x == [ann[i] EXCEPT !.cron = e, !.on = on]
  <2>1. Alive(ann[i])
    BY <1>2 DEF Change, Live, Tables, Table, New, Gone
  <2>2. Alive(x)
    <3> DEFINE old == [st |-> "live", on |-> ann[i].on, cron |-> ann[i].cron,
                       last |-> ann[i].last]
    <3>1. [old EXCEPT !.cron = e, !.on = on]
             = [st |-> "live", on |-> on, cron |-> e, last |-> ann[i].last]
      <4> DEFINE mid == [st |-> "live", on |-> ann[i].on, cron |-> e, last |-> ann[i].last]
      <4>1. [old EXCEPT !.cron = e] = mid
        OBVIOUS
      <4>2. [mid EXCEPT !.on = on]
               = [st |-> "live", on |-> on, cron |-> e, last |-> ann[i].last]
        OBVIOUS
      <4> HIDE DEF old, mid
      <4> QED BY <4>1, <4>2
    <3>2. ann[i] = old
      BY <2>1 DEF Alive
    <3>3. x = [st |-> "live", on |-> on, cron |-> e, last |-> ann[i].last]
      BY <3>1, <3>2, Zenon
    <3> QED BY <3>3 DEF Alive
  <2>3. ann' = [ann EXCEPT ![i] = x]
    BY <1>2 DEF Change, Tables, Table
  <2> HIDE DEF x
  <2> QED BY <1>2, <2>2, <2>3, EditKeepsTable DEF Change, EditFrame, Tables
<1>3. CASE RemoveAnnouncement
  BY <1>3, EditKeepsTable DEF RemoveAnnouncement, EditFrame, Tables
<1>4. CASE \E s \in Slots : SendTask(s)
  BY <1>4 DEF SendTask, SendNow, ManualFrame, Tables
<1> QED
  BY <1>1, <1>2, <1>3, <1>4
     DEF HandleAnnounce, AnnouncementRequest, CreateTask, UpdateTask, RemoveTask,
         UpdateAnnouncement, SetEnabled

LEMMA TablesNext == Tables /\ [Next]_vars => Tables'
<1> SUFFICES ASSUME Tables, [Next]_vars PROVE Tables'
  OBVIOUS
<1>1. CASE HandleAnnounce \/ AnnouncementRequest
  BY <1>1, EditKeeps
<1>2. CASE Tick \/ SetReminder \/ Silence \/ SetInterval \/ UNCHANGED vars
  BY <1>2 DEF Tick, SetReminder, Silence, SetInterval, RoundFrame, vars, Tables
<1>3. CASE (\E r \in Rounds : RoundStep(r)) \/ (\E s \in Slots : SendNowEnd(s))
  <2>1. Table(ann')
    BY <1>3, SendingMarks DEF Tables, OnlyMarked
  <2>2. disk' = disk
    BY <1>3 DEF RoundStep, RemindStep, CastEnd, AnnounceStart, DeliverEnd, TellEnd,
                RoundFrame, SendNowEnd, ManualFrame
  <2> QED BY <2>1, <2>2 DEF Tables
<1>4. CASE \E s \in Slots : SendNow(s)
  BY <1>4 DEF SendNow, ManualFrame, Tables
<1>5. CASE Drain
  BY <1>5 DEF Drain, Rows, memory, Tables
<1>6. CASE Start
  BY <1>6 DEF Start, Tables
<1>7. CASE Crash
  <2>1. disk'.ann = ann \/ disk'.ann = disk.ann
    BY <1>7 DEF Crash, Rows
  <2> QED BY <1>7, <2>1 DEF Crash, memory, Tables
<1>8. CASE Minute
  BY <1>8 DEF Minute, memory, Tables
<1> QED
  BY <1>1, <1>2, <1>3, <1>4, <1>5, <1>6, <1>7, <1>8 DEF Next

LEMMA TablesInvariant == Spec => []Tables
BY TablesInit, TablesNext, PTL DEF Spec

\* A send never undoes an edit: markFired looks the announcement up again and
\* sets nothing but the minute (scheduledAnnouncements.ts:1194).
THEOREM SendingLeavesEdits == Spec => SendingEditsNothing
<1>1. Tables /\ [Next]_vars =>
        [(\E r \in Rounds : RoundStep(r)) \/ (\E s \in Slots : SendNowEnd(s))
            => \A i \in Ids : AsLeft(ann[i], ann'[i])]_vars
  BY SendingMarks DEF Tables, OnlyMarked
<1> QED BY TablesInvariant, <1>1, PTL DEF Spec, SendingEditsNothing

-----------------------------------------------------------------------------
(***************************************************************************)
(* How often an announcement is sent for one minute: n is the minute on     *)
(* the clock, t the table the next round reads, me and you are the two      *)
(* rounds, c counts the copies of i for minute m, e the excuses.            *)
(***************************************************************************)

Before == {"remind", "cast", "announce"}
After == {"deliver", "tell"}

\* The table the next round reads: the rows, while the process is down.
Current == IF up THEN ann ELSE disk.ann

\* A round that starts now or later may come to i for minute m.
Fresh(n, t, i, m) ==
    IF n <= m /\ t[i].st # "gone" /\ ~(t[i].st = "live" /\ t[i].last = m) THEN 1 ELSE 0

\* A round may still send i for minute m from the copies it read, or mark it
\* for an earlier minute, which makes it due for m again.
Holds(me, i, m) ==
    /\ me.pc \in After /\ me.at <= m
    /\ \/ me.pc = "deliver" /\ me.cur = i
       \/ \E k \in DOMAIN me.todo : /\ me.todo[k].id = i
                                    /\ me.at = m => me.todo[k].last # m

Owes(n, t, me, i, m) ==
    IF me.pc \in Before THEN Fresh(n, t, i, m) ELSE IF Holds(me, i, m) THEN 1 ELSE 0

\* Each copy beyond the first is excused, those still to come included; two
\* rounds at a time have cost an excuse themselves.
Counted(n, t, me, you, c, e, i, m) ==
    /\ c + Fresh(n, t, i, m) <= 1 + e
    /\ c + Owes(n, t, me, i, m) + Owes(n, t, you, i, m) <= 1 + e
    /\ me.pc \in Before /\ you.pc \in Before => c + Fresh(n, t, i, m) <= e
    /\ me.pc # "idle" /\ you.pc # "idle" => 1 <= e
    /\ m > n => c = 0

\* A round's copies are of different announcements that exist or existed, and
\* the one it is sending is no longer among them.
Copy == [id : Ids, on : BOOLEAN, cron : Exprs, last : 0 .. Never]
Slip == [pc : Before \cup After \cup {"idle"}, at : Minutes, todo : Seq(Copy), cur : 0 .. NAnn]
Once(todo) == \A j, k \in DOMAIN todo : todo[j].id = todo[k].id => j = k
Known(t, me) ==
    /\ \A k \in DOMAIN me.todo : t[me.todo[k].id].st # "new"
    /\ me.pc = "deliver" => /\ me.cur \in Ids /\ t[me.cur].st # "new"
                            /\ \A k \in DOMAIN me.todo : me.todo[k].id # me.cur
RoundOK(n, t, me) ==
    /\ me \in Slip /\ me.at <= n /\ Once(me.todo)
    /\ me.pc \in After => Known(t, me)

-----------------------------------------------------------------------------
LEMMA FreshBit ==
    ASSUME NEW n, NEW t, NEW me, NEW i, NEW m
    PROVE  /\ Fresh(n, t, i, m) \in {0, 1} /\ Owes(n, t, me, i, m) \in {0, 1}
           /\ me.pc \in Before => Owes(n, t, me, i, m) = Fresh(n, t, i, m)
           /\ me.pc = "idle" => Owes(n, t, me, i, m) = 0
           /\ me.pc \in After => Owes(n, t, me, i, m) = IF Holds(me, i, m) THEN 1 ELSE 0
<1>1. Fresh(n, t, i, m) \in {0, 1}
  BY DEF Fresh
<1>2. Before \cap After = {} /\ "idle" \notin Before \cup After
  BY DEF Before, After
<1>3. me.pc = "idle" => ~Holds(me, i, m)
  BY <1>2 DEF Holds
<1> QED BY <1>1, <1>2, <1>3 DEF Owes

\* Nothing more can become due than was before.
LEMMA NoFresher ==
    ASSUME NEW n, NEW t, NEW me, NEW you, NEW c \in Nat, NEW e \in Nat, NEW i, NEW m,
           Counted(n, t, me, you, c, e, i, m),
           NEW k, NEW u, Fresh(k, u, i, m) <= Fresh(n, t, i, m), m > k => m > n
    PROVE  Counted(k, u, me, you, c, e, i, m)
<1>1. /\ Fresh(n, t, i, m) \in {0, 1} /\ Fresh(k, u, i, m) \in {0, 1}
      /\ Owes(n, t, me, i, m) \in {0, 1} /\ Owes(n, t, you, i, m) \in {0, 1}
      /\ Owes(k, u, me, i, m) \in {0, 1} /\ Owes(k, u, you, i, m) \in {0, 1}
  BY FreshBit
<1>2. /\ Owes(k, u, me, i, m) <= Owes(n, t, me, i, m)
      /\ Owes(k, u, you, i, m) <= Owes(n, t, you, i, m)
  BY <1>1 DEF Owes
<1> QED BY <1>1, <1>2 DEF Counted

\* An excuse pays for a minute that becomes due again.
LEMMA Excused ==
    ASSUME NEW n, NEW t, NEW me, NEW you, NEW c \in Nat, NEW e \in Nat, NEW i, NEW m,
           Counted(n, t, me, you, c, e, i, m), NEW u
    PROVE  Counted(n, u, me, you, c, e + 1, i, m)
<1>1. /\ Fresh(n, t, i, m) \in {0, 1} /\ Fresh(n, u, i, m) \in {0, 1}
      /\ Owes(n, t, me, i, m) \in {0, 1} /\ Owes(n, t, you, i, m) \in {0, 1}
      /\ Owes(n, u, me, i, m) \in {0, 1} /\ Owes(n, u, you, i, m) \in {0, 1}
  BY FreshBit
<1>2. /\ me.pc \in Before => /\ Owes(n, u, me, i, m) = Fresh(n, u, i, m)
                             /\ Owes(n, t, me, i, m) = Fresh(n, t, i, m)
      /\ you.pc \in Before => /\ Owes(n, u, you, i, m) = Fresh(n, u, i, m)
                              /\ Owes(n, t, you, i, m) = Fresh(n, t, i, m)
      /\ me.pc \notin Before => Owes(n, u, me, i, m) = Owes(n, t, me, i, m)
      /\ you.pc \notin Before => Owes(n, u, you, i, m) = Owes(n, t, you, i, m)
  BY DEF Owes
<1>3. CASE me.pc \in Before /\ you.pc \in Before
  BY <1>1, <1>2, <1>3 DEF Counted
<1>4. CASE ~(me.pc \in Before /\ you.pc \in Before)
  BY <1>1, <1>2, <1>4 DEF Counted
<1> QED BY <1>3, <1>4

\* A round starts: while the other one runs, that is an excuse.
LEMMA RoundStarts ==
    ASSUME NEW n, NEW t, NEW me, NEW you, NEW c \in Nat, NEW e \in Nat, NEW i, NEW m,
           Counted(n, t, me, you, c, e, i, m), me.pc = "idle",
           NEW me2, me2.pc \in Before
    PROVE  /\ you.pc = "idle" => Counted(n, t, me2, you, c, e, i, m)
           /\ Counted(n, t, me2, you, c, e + 1, i, m)
<1>1. /\ Fresh(n, t, i, m) \in {0, 1}
      /\ Owes(n, t, me, i, m) = 0 /\ Owes(n, t, you, i, m) \in {0, 1}
      /\ Owes(n, t, me2, i, m) = Fresh(n, t, i, m)
      /\ you.pc = "idle" => Owes(n, t, you, i, m) = 0
      /\ you.pc \in Before => Owes(n, t, you, i, m) = Fresh(n, t, i, m)
  BY FreshBit
<1>2. "idle" \notin Before
  BY DEF Before
<1> QED BY <1>1, <1>2 DEF Counted

\* A round goes on without having read the announcements.
LEMMA RoundWaits ==
    ASSUME NEW n, NEW t, NEW me, NEW you, NEW c \in Nat, NEW e \in Nat, NEW i, NEW m,
           Counted(n, t, me, you, c, e, i, m), me.pc \in Before,
           NEW me2, me2.pc \in Before
    PROVE  Counted(n, t, me2, you, c, e, i, m)
<1>1. Owes(n, t, me2, i, m) = Owes(n, t, me, i, m) /\ me.pc # "idle"
  BY DEF Owes, Before
<1> QED BY <1>1 DEF Counted

\* It reads them: what it may send now, any round might have.
LEMMA RoundReads ==
    ASSUME NEW n \in Nat, NEW t, NEW me, NEW you, NEW c \in Nat, NEW e \in Nat, NEW i, NEW m \in Nat,
           Counted(n, t, me, you, c, e, i, m), me.pc \in Before,
           NEW me2, me2.pc = "tell", me2.at = n,
           \A k \in DOMAIN me2.todo : /\ t[me2.todo[k].id].st = "live"
                                      /\ t[me2.todo[k].id].last = me2.todo[k].last
    PROVE  Counted(n, t, me2, you, c, e, i, m)
<1>1. /\ Fresh(n, t, i, m) \in {0, 1}
      /\ Owes(n, t, me, i, m) = Fresh(n, t, i, m) /\ Owes(n, t, you, i, m) \in {0, 1}
      /\ Owes(n, t, me2, i, m) \in {0, 1}
      /\ you.pc \in Before => Owes(n, t, you, i, m) = Fresh(n, t, i, m)
      /\ you.pc = "idle" => Owes(n, t, you, i, m) = 0
  BY FreshBit DEF After
<1>2. me.pc # "idle" /\ me2.pc \notin Before
  BY DEF Before
<1>3. CASE m > n
  BY <1>1, <1>2, <1>3 DEF Counted
<1>4. CASE ~(m > n)
  <2>1. Owes(n, t, me2, i, m) <= Fresh(n, t, i, m)
    <3>1. ASSUME Holds(me2, i, m) PROVE Fresh(n, t, i, m) = 1
      BY <1>4, <3>1 DEF Holds, Fresh
    <3> QED BY <1>1, <1>2, <3>1 DEF Owes
  <2> QED BY <1>1, <1>2, <2>1 DEF Counted
<1> QED BY <1>3, <1>4

-----------------------------------------------------------------------------
(* What a mark does: MarkFired, with the table it looks into named.         *)
Mark(t, j, at) == IF t[j].st = "live" THEN [t EXCEPT ![j].last = at] ELSE t

Entry == Task \cup {New, Gone}

LEMMA MarkedTable ==
    ASSUME NEW t \in [Ids -> Entry], NEW j \in Ids, NEW at \in 0 .. Never
    PROVE  /\ Mark(t, j, at) \in [Ids -> Entry]
           /\ \A i \in Ids : Mark(t, j, at)[i].st = t[i].st
           /\ \A i \in Ids \ {j} : Mark(t, j, at)[i] = t[i]
           /\ t[j].st = "live" => Mark(t, j, at)[j].last = at
<1>1. CASE t[j].st # "live"
  BY <1>1 DEF Mark
<1>2. CASE t[j].st = "live"
  <2> DEFINE x == [t[j] EXCEPT !.last = at]
  <2>1. t[j] \in Task
    BY <1>2 DEF Entry, New, Gone
  <2>2. x \in Task /\ x.st = "live" /\ x.last = at
    BY <2>1 DEF Task
  <2>3. Mark(t, j, at) = [t EXCEPT ![j] = x]
    BY <1>2, Zenon DEF Mark
  <2> HIDE DEF x
  <2> QED BY <1>2, <2>2, <2>3 DEF Entry
<1> QED BY <1>1, <1>2

\* The row of an announcement that exists or existed.
LEMMA RowStates ==
    ASSUME NEW t \in [Ids -> Entry], NEW j \in Ids
    PROVE  t[j].st \in {"live", "gone", "new"} /\ (t[j].st = "new" => t[j] = New)
BY DEF Entry, Task, New, Gone

\* After a mark the minute is not due, the earlier ones are past.
LEMMA MarkFreshens ==
    ASSUME NEW t \in [Ids -> Entry], NEW j \in Ids, NEW at \in Nat, at <= Never,
           NEW n \in Nat, at <= n, NEW i \in Ids, NEW m \in Nat
    PROVE  /\ i # j => Fresh(n, Mark(t, j, at), i, m) = Fresh(n, t, i, m)
           /\ i = j /\ m <= at /\ t[j].st # "new" => Fresh(n, Mark(t, j, at), i, m) = 0
<1>0. at \in 0 .. Never
  BY ScheduleConstants DEF Never
<1>1. /\ \A k \in Ids : Mark(t, j, at)[k].st = t[k].st
      /\ \A k \in Ids \ {j} : Mark(t, j, at)[k] = t[k]
      /\ t[j].st = "live" => Mark(t, j, at)[j].last = at
  BY <1>0, MarkedTable
<1>2. t[j].st \in {"live", "gone", "new"}
  BY RowStates
<1>3. i # j => Fresh(n, Mark(t, j, at), i, m) = Fresh(n, t, i, m)
  BY <1>1 DEF Fresh
<1>4. ASSUME i = j, m <= at, t[j].st # "new" PROVE Fresh(n, Mark(t, j, at), i, m) = 0
  <2>1. CASE t[j].st = "gone"
    BY <1>1, <1>4, <2>1 DEF Fresh
  <2>2. CASE t[j].st = "live"
    BY <1>1, <1>4, <2>2 DEF Fresh
  <2> QED BY <1>2, <1>4, <2>1, <2>2
<1> QED BY <1>3, <1>4

\* A round that gives up its claim on j, and marks it, leaves the count true:
\* what the mark may make due again the claim had paid for.
LEMMA ClaimPays ==
    ASSUME NEW t \in [Ids -> Entry], NEW j \in Ids, NEW at \in Nat, at <= Never, t[j].st # "new",
           NEW n \in Nat, at <= n, NEW i \in Ids, NEW m \in Nat,
           NEW me, NEW you, NEW c \in Nat, NEW d \in Nat, NEW e \in Nat,
           Counted(n, t, me, you, c, e, i, m), me.pc \in After,
           NEW me2, me2.pc \in After,
           Holds(me2, i, m) => Holds(me, i, m),
           i = j /\ m > at => Holds(me, i, m),
           i = j => ~Holds(me2, i, m),
           d = c \/ (d = c + 1 /\ i = j /\ m = at /\ Holds(me, i, m))
    PROVE  Counted(n, Mark(t, j, at), me2, you, d, e, i, m)
<1> DEFINE u == Mark(t, j, at)
<1>1. /\ i # j => Fresh(n, u, i, m) = Fresh(n, t, i, m)
      /\ i = j /\ m <= at => Fresh(n, u, i, m) = 0
  BY MarkFreshens
<1> HIDE DEF u
<1>2. /\ Fresh(n, t, i, m) \in {0, 1} /\ Fresh(n, u, i, m) \in {0, 1}
      /\ Owes(n, t, me, i, m) = IF Holds(me, i, m) THEN 1 ELSE 0
      /\ Owes(n, u, me2, i, m) = IF Holds(me2, i, m) THEN 1 ELSE 0
      /\ Owes(n, t, you, i, m) \in {0, 1} /\ Owes(n, u, you, i, m) \in {0, 1}
  BY FreshBit
<1>3. /\ you.pc \in Before => /\ Owes(n, u, you, i, m) = Fresh(n, u, i, m)
                              /\ Owes(n, t, you, i, m) = Fresh(n, t, i, m)
      /\ you.pc \notin Before => Owes(n, u, you, i, m) = Owes(n, t, you, i, m)
  BY DEF Owes
<1>4. me.pc \notin Before /\ me2.pc \notin Before /\ me.pc # "idle"
  BY DEF Before, After
<1> DEFINE F == Fresh(n, t, i, m)
           G == Fresh(n, u, i, m)
           Om == Owes(n, t, me, i, m)
           Om2 == Owes(n, u, me2, i, m)
           Oy == Owes(n, t, you, i, m)
           Oy2 == Owes(n, u, you, i, m)
<1>5. /\ c + F <= 1 + e /\ c + Om + Oy <= 1 + e
      /\ you.pc # "idle" => 1 <= e
      /\ m > n => c = 0
  BY <1>4 DEF Counted
<1>6. /\ F \in {0, 1} /\ G \in {0, 1} /\ Om \in {0, 1} /\ Om2 \in {0, 1}
      /\ Oy \in {0, 1} /\ Oy2 \in {0, 1} /\ Om2 <= Om
      /\ i = j => Om2 = 0
      /\ Oy2 = Oy \/ (Oy2 = G /\ Oy = F)
  BY <1>2, <1>3
<1>7. \/ d = c /\ G = F
      \/ d = c /\ Om = 1 /\ i = j
      \/ d <= c + Om /\ G = 0 /\ i = j
  <2>1. CASE i # j
    BY <1>1, <2>1
  <2>2. CASE i = j /\ m > at
    BY <1>2, <2>2
  <2>3. CASE i = j /\ m <= at
    BY <1>1, <1>2, <2>3
  <2> QED BY <2>1, <2>2, <2>3
<1> HIDE DEF F, G, Om, Om2, Oy, Oy2
<1>8. d + G <= 1 + e /\ d + Om2 + Oy2 <= 1 + e
  <2>1. CASE d = c /\ G = F
    BY <1>5, <1>6, <2>1
  <2>2. CASE d = c /\ Om = 1 /\ i = j
    BY <1>5, <1>6, <2>2
  <2>3. CASE d <= c + Om /\ G = 0 /\ i = j
    BY <1>5, <1>6, <2>3
  <2> QED BY <1>7, <2>1, <2>2, <2>3
<1>9. m > n => d = 0
  BY <1>5
<1> QED BY <1>4, <1>5, <1>8, <1>9 DEF Counted, G, Om2, Oy2, u

\* A round that keeps no more than it had.
LEMMA ClaimShrinks ==
    ASSUME NEW n, NEW t, NEW i, NEW m, NEW me, NEW you, NEW c \in Nat, NEW e \in Nat,
           Counted(n, t, me, you, c, e, i, m), me.pc \in After,
           NEW me2, me2.pc \in After \cup {"idle"},
           me2.pc \in After /\ Holds(me2, i, m) => Holds(me, i, m)
    PROVE  Counted(n, t, me2, you, c, e, i, m)
<1>1. /\ Fresh(n, t, i, m) \in {0, 1}
      /\ Owes(n, t, me, i, m) = IF Holds(me, i, m) THEN 1 ELSE 0
      /\ me2.pc = "idle" => Owes(n, t, me2, i, m) = 0
      /\ me2.pc \in After => Owes(n, t, me2, i, m) = IF Holds(me2, i, m) THEN 1 ELSE 0
      /\ Owes(n, t, me2, i, m) \in {0, 1} /\ Owes(n, t, you, i, m) \in {0, 1}
  BY FreshBit
<1>2. me.pc \notin Before /\ me2.pc \notin Before /\ me.pc # "idle"
  BY DEF Before, After
<1> QED BY <1>1, <1>2 DEF Counted

\* The count does not tell which of the two rounds is which.
LEMMA Either ==
    ASSUME NEW n, NEW t, NEW i, NEW m, NEW me, NEW you, NEW c \in Nat, NEW e \in Nat
    PROVE  Counted(n, t, me, you, c, e, i, m) <=> Counted(n, t, you, me, c, e, i, m)
<1>1. Owes(n, t, me, i, m) \in {0, 1} /\ Owes(n, t, you, i, m) \in {0, 1}
  BY FreshBit
<1> QED BY <1>1 DEF Counted

\* Every set of numbers that is not empty has a least one.
LEMMA LeastNumber ==
    ASSUME NEW T \in SUBSET Nat, T # {}
    PROVE  \E m \in T : \A n \in T : m <= n
<1> DEFINE R == StrictSubsetOrdering(Nat)
             F == FiniteSubsetsOf(Nat)
             I == {0 .. n : n \in T}
<1>1. IsWellFoundedOn(R, F)
  BY FS_StrictSubsetOrderingWellFounded
<1>2. I \subseteq F
  <2> SUFFICES ASSUME NEW n \in T PROVE 0 .. n \in F
    OBVIOUS
  <2>1. IsFiniteSet(0 .. n)
    BY FS_Interval
  <2> QED BY <2>1 DEF FiniteSubsetsOf
<1>3. I # {}
  OBVIOUS
<1>4. ASSUME NEW m \in Nat, NEW n \in Nat, m < n
      PROVE  <<0 .. m, 0 .. n>> \in R
  <2>1. 0 .. m \in SUBSET Nat /\ 0 .. n \in SUBSET Nat /\ 0 .. m \subseteq 0 .. n
    BY <1>4
  <2>2. n \in 0 .. n /\ n \notin 0 .. m
    BY <1>4
  <2> QED BY <2>1, <2>2 DEF StrictSubsetOrdering
<1> HIDE DEF R, F
<1>5. \E X \in I : \A Y \in I : <<Y, X>> \notin R
  <2> HIDE DEF I
  <2> QED BY <1>1, <1>2, <1>3, WFMin, Zenon
<1>6. PICK m \in T : \A Y \in I : <<Y, 0 .. m>> \notin R
  BY <1>5
<1>7. ASSUME NEW n \in T, n < m PROVE FALSE
  <2>1. 0 .. n \in I
  OBVIOUS
  <2> QED BY <1>4, <1>6, <1>7, <2>1
<1> QED BY <1>7

-----------------------------------------------------------------------------
\* What is left of a list after its k-th element.
LEMMA RestOf ==
    ASSUME NEW todo \in Seq(Copy), NEW k \in DOMAIN todo
    PROVE  LET rest == SubSeq(todo, k + 1, Len(todo))
           IN  /\ rest \in Seq(Copy)
               /\ \A j \in DOMAIN rest : j + k \in DOMAIN todo /\ j + k # k /\ rest[j] = todo[j + k]
               /\ DOMAIN rest \subseteq Nat
<1> DEFINE rest == SubSeq(todo, k + 1, Len(todo))
<1>1. Len(todo) \in Nat /\ k \in 1 .. Len(todo) /\ DOMAIN todo = 1 .. Len(todo)
  OBVIOUS
<1>2. /\ rest \in Seq(Copy)
      /\ Len(rest) = Len(todo) - k
      /\ \A j \in 1 .. (Len(todo) - k) : rest[j] = todo[j + k]
  <2>1. CASE k = Len(todo)
    BY <1>1, <2>1
  <2>2. CASE k # Len(todo)
    BY <1>1, <2>2
  <2> QED BY <2>1, <2>2
<1>3. DOMAIN rest = 1 .. (Len(todo) - k)
  BY <1>2
<1> HIDE DEF rest
<1>4. \A j \in DOMAIN rest : j + k \in DOMAIN todo /\ j + k # k /\ rest[j] = todo[j + k]
  BY <1>1, <1>2, <1>3
<1>5. DOMAIN rest \subseteq Nat
  BY <1>1, <1>3
<1> QED BY <1>2, <1>4, <1>5 DEF rest

Leaves(todo, k, rest) ==
    /\ rest \in Seq(Copy) /\ Once(rest)
    /\ \A j \in DOMAIN rest : rest[j].id # todo[k].id
    /\ \A j \in DOMAIN rest : \E l \in DOMAIN todo : rest[j] = todo[l]

LEMMA RestIsOnce ==
    ASSUME NEW todo \in Seq(Copy), Once(todo), NEW k \in DOMAIN todo
    PROVE  Leaves(todo, k, SubSeq(todo, k + 1, Len(todo)))
<1> DEFINE rest == SubSeq(todo, k + 1, Len(todo))
<1>1. /\ rest \in Seq(Copy)
      /\ \A j \in DOMAIN rest : j + k \in DOMAIN todo /\ j + k # k /\ rest[j] = todo[j + k]
      /\ DOMAIN rest \subseteq Nat
  BY RestOf
<1>2. k \in Nat
  OBVIOUS
<1> HIDE DEF rest
<1>3. Once(rest)
  <2> SUFFICES ASSUME NEW i \in DOMAIN rest, NEW j \in DOMAIN rest, rest[i].id = rest[j].id
               PROVE  i = j
    BY DEF Once
  <2>1. i + k = j + k
    BY <1>1 DEF Once
  <2>2. i \in Nat /\ j \in Nat
    BY <1>1
  <2> QED BY <1>2, <2>1, <2>2
<1>4. \A j \in DOMAIN rest : rest[j].id # todo[k].id
  BY <1>1 DEF Once
<1> QED BY <1>1, <1>3, <1>4 DEF Leaves, rest

\* How a round, looked at when it goes on from me, comes to me2: a send is begun
\* within the limit and makes a copy, and the minute of the round stays.
Comes(me, me2, log) ==
    /\ me2.pc \in After => me2.at = me.at
    /\ me2.pc = "deliver" => /\ ~Limited(log, me.at)
                             /\ copies' = copies \cup {OneMore(copies, me.at)}
    /\ me2.pc # "deliver" => UNCHANGED copies

\* A round comes to the next announcement that is due, or to its end.
LEMMA GoesOn ==
    ASSUME NEW t \in [Ids -> Entry], \A i \in Ids : t[i].st = ann[i].st,
           now \in Minutes,
           NEW me, me.pc = "tell", RoundOK(now, t, me),
           NEW r, NEW log, GoOn(r, me.at, me.todo, t, log)
    PROVE  \E me2 :
              /\ round' = [round EXCEPT ![r] = me2]
              /\ ann' \in [Ids -> Entry] /\ \A i \in Ids : ann'[i].st = t[i].st
              /\ RoundOK(now, ann', me2)
              /\ me2.pc \in After \cup {"idle"}
              /\ Comes(me, me2, log)
              /\ \A i \in Ids, m \in Minutes, c \in Nat, e \in Nat : \A you :
                    Counted(now, t, me, you, c, e, i, m)
                       => Counted(now, ann', me2, you, c, e, i, m)
<1> DEFINE todo == me.todo
           at == me.at
           due == {k \in DOMAIN todo : Due(todo[k], at)}
           k == CHOOSE k \in due : \A j \in due : k <= j
           rest == SubSeq(todo, k + 1, Len(todo))
           Slot(pc) == [pc |-> pc, at |-> at, todo |-> rest, cur |-> todo[k].id]
<1>1. /\ me \in Slip /\ at \in Minutes /\ at <= now /\ todo \in Seq(Copy) /\ Once(todo)
      /\ \A l \in DOMAIN todo : t[todo[l].id].st # "new"
      /\ now \in Nat /\ MaxMinute \in Nat /\ at \in Nat /\ at <= Never
  <2>1. MaxMinute \in Nat
    BY ScheduleConstants
  <2>2. me \in Slip /\ at \in Minutes /\ at <= now /\ todo \in Seq(Copy) /\ Once(todo)
    BY DEF RoundOK, Slip
  <2>3. \A l \in DOMAIN todo : t[todo[l].id].st # "new"
    BY DEF RoundOK, Known, After
  <2> QED BY <2>1, <2>2, <2>3 DEF Minutes, Never
<1>4. \A l \in DOMAIN todo : todo[l] \in Copy /\ todo[l].id \in Ids
  <2>1. \A l \in DOMAIN todo : todo[l] \in Copy
    BY <1>1
  <2> QED BY <2>1 DEF Copy
<1>2. CASE due = {}
  <2>1. round' = [round EXCEPT ![r] = IdleRound] /\ ann' = t /\ UNCHANGED copies
    BY <1>2 DEF GoOn
  <2>2. IdleRound.pc = "idle" /\ RoundOK(now, t, IdleRound)
    <3>1. IdleRound \in Slip
      <4>1. <<>> \in Seq(Copy) /\ 0 \in Minutes /\ 0 \in 0 .. NAnn
        BY <1>1, ScheduleConstants DEF Minutes
      <4> QED BY <4>1 DEF IdleRound, Slip
    <3>2. IdleRound.at <= now /\ Once(IdleRound.todo)
      BY <1>1 DEF IdleRound, Once
    <3> QED BY <3>1, <3>2 DEF RoundOK, IdleRound, After
  <2>3. \A i \in Ids, m \in Minutes, c \in Nat, e \in Nat : \A you :
            Counted(now, t, me, you, c, e, i, m)
               => Counted(now, t, IdleRound, you, c, e, i, m)
    BY <2>2, ClaimShrinks DEF After
  <2>4. Comes(me, IdleRound, log)
    BY <2>1 DEF Comes, IdleRound, After
  <2> QED BY <2>1, <2>2, <2>3, <2>4
<1>3. CASE due # {}
  <2>1. k \in due
    <3>1. due \in SUBSET Nat
      BY <1>1
    <3>2. \E l \in due : \A j \in due : l <= j
      BY <1>3, <3>1, LeastNumber
    <3> QED BY <3>2
  <2> HIDE DEF k
  <2>2. k \in DOMAIN todo /\ todo[k].last # at
    BY <2>1 DEF Due
  <2> DEFINE j == todo[k].id
  <2> HIDE DEF due
  <2>3. j \in Ids /\ t[j].st # "new"
    BY <1>1, <1>4, <2>2
  <2>4. /\ rest \in Seq(Copy) /\ Once(rest)
        /\ \A l \in DOMAIN rest : rest[l].id # j
        /\ \A l \in DOMAIN rest : \E p \in DOMAIN todo : rest[l] = todo[p]
    <3>1. rest = SubSeq(todo, k + 1, Len(todo))
      OBVIOUS
    <3>2. todo \in Seq(Copy) /\ Once(todo) /\ k \in DOMAIN todo
      BY <1>1, <2>2
    <3> HIDE DEF rest, todo
    <3>3. Leaves(todo, k, rest)
      BY <3>1, <3>2, RestIsOnce
    <3> QED BY <3>3 DEF Leaves
  <2> HIDE DEF rest
  <2>5. \A pc \in After : /\ Slot(pc) \in Slip
                          /\ Slot(pc).pc = pc /\ Slot(pc).at = at /\ Slot(pc).todo = rest
                          /\ Slot(pc).cur = j
    BY <1>1, <2>3, <2>4 DEF Slip, Ids
  <2> HIDE DEF Slot
  <2>6. \A u \in [Ids -> Entry], pc \in After :
            (\A i \in Ids : u[i].st = t[i].st) => RoundOK(now, u, Slot(pc))
    <3>1. \A l \in DOMAIN rest : rest[l].id \in Ids /\ t[rest[l].id].st # "new"
      BY <1>1, <1>4, <2>4
    <3> QED BY <1>1, <2>3, <2>4, <2>5, <3>1 DEF RoundOK, Known, After
  <2>7. \A m \in Minutes : m >= at => Holds(me, j, m)
    BY <1>1, <2>2 DEF Holds, After
  <2>8. \A i, m, pc : pc \in After /\ Holds(Slot(pc), i, m) => Holds(me, i, m)
    <3> SUFFICES ASSUME NEW i, NEW m, NEW pc \in After, Holds(Slot(pc), i, m)
                 PROVE  Holds(me, i, m)
      OBVIOUS
    <3>1. CASE i = j /\ Slot(pc).cur = i
      BY <2>2, <2>5, <3>1 DEF Holds, After
    <3>2. CASE \E l \in DOMAIN rest : rest[l].id = i /\ (at = m => rest[l].last # m)
      BY <2>4, <2>5, <3>2 DEF Holds, After
    <3> QED BY <2>5, <3>1, <3>2 DEF Holds
  <2>9. CASE Limited(log, at)
    <3>1. /\ round' = [round EXCEPT ![r] = Slot("tell")] /\ ann' = MarkFired(t, j, at)
          /\ UNCHANGED copies
      BY <1>3, <2>9 DEF GoOn, Slot, k, due, rest
    <3>2. ann' = Mark(t, j, at)
      BY <2>3, <3>1 DEF MarkFired, Mark, Live
    <3>3. ann' \in [Ids -> Entry] /\ \A i \in Ids : ann'[i].st = t[i].st
      <4>1. at \in 0 .. Never
        BY <1>1 DEF Never
      <4> QED BY <2>3, <3>2, <4>1, MarkedTable
    <3>4. \A m : ~Holds(Slot("tell"), j, m)
      BY <2>4, <2>5 DEF Holds, After
    <3>5. ASSUME NEW i \in Ids, NEW m \in Minutes, NEW c \in Nat, NEW e \in Nat, NEW you,
                 Counted(now, t, me, you, c, e, i, m)
          PROVE  Counted(now, ann', Slot("tell"), you, c, e, i, m)
      <4>1. m \in Nat
        BY DEF Minutes
      <4>2. Holds(Slot("tell"), i, m) => Holds(me, i, m)
        BY <2>8 DEF After
      <4>3. i = j /\ m > at => Holds(me, i, m)
        BY <1>1, <2>7, <4>1
      <4>4. Slot("tell").pc \in After /\ me.pc \in After
        BY <2>5 DEF After
      <4> HIDE DEF at, j
      <4> QED BY <1>1, <2>3, <3>2, <3>4, <3>5, <4>1, <4>2, <4>3, <4>4, ClaimPays
    <3>6. Comes(me, Slot("tell"), log)
      BY <2>5, <3>1 DEF Comes, After
    <3> QED BY <2>5, <2>6, <3>1, <3>3, <3>5, <3>6 DEF After
  <2>10. CASE ~Limited(log, at)
    <3>1. /\ round' = [round EXCEPT ![r] = Slot("deliver")] /\ ann' = t
          /\ copies' = copies \cup {OneMore(copies, at)}
      BY <1>3, <2>10 DEF GoOn, Slot, k, due, rest
    <3>2. ASSUME NEW i \in Ids, NEW m \in Minutes, NEW c \in Nat, NEW e \in Nat, NEW you,
                 Counted(now, t, me, you, c, e, i, m)
          PROVE  Counted(now, t, Slot("deliver"), you, c, e, i, m)
      <4>1. Slot("deliver").pc \in After /\ me.pc \in After
        BY <2>5 DEF After
      <4>2. Holds(Slot("deliver"), i, m) => Holds(me, i, m)
        BY <2>8 DEF After
      <4> QED BY <3>2, <4>1, <4>2, ClaimShrinks
    <3>3. Comes(me, Slot("deliver"), log)
      BY <2>5, <2>10, <3>1 DEF Comes, After
    <3> QED BY <2>5, <2>6, <3>1, <3>2, <3>3 DEF After
  <2> QED BY <2>9, <2>10
<1> QED BY <1>2, <1>3

-----------------------------------------------------------------------------
\* The k-th smallest element of a finite set of numbers exists.
LEMMA Ranked ==
    ASSUME NEW S \in SUBSET Nat, IsFiniteSet(S), NEW k \in 1 .. Cardinality(S)
    PROVE  \E i \in S : Cardinality({j \in S : j <= i}) = k
<1> DEFINE Upto(i) == {j \in S : j <= i}
           n == Cardinality(S)
           f == [i \in S |-> Cardinality(Upto(i))]
<1>1. n \in Nat /\ IsFiniteSet(1 .. n) /\ Cardinality(1 .. n) = n
  BY FS_CardinalityType, FS_Interval
<1>2. ASSUME NEW i \in S
      PROVE  IsFiniteSet(Upto(i)) /\ Cardinality(Upto(i)) \in 1 .. n
  <2>1. Upto(i) \in SUBSET S /\ i \in Upto(i)
    OBVIOUS
  <2>2. IsFiniteSet(Upto(i)) /\ Cardinality(Upto(i)) <= n /\ Cardinality(Upto(i)) \in Nat
    BY <2>1, FS_Subset, FS_CardinalityType
  <2>3. Cardinality(Upto(i)) # 0
    BY <2>1, <2>2, FS_EmptySet
  <2> HIDE DEF Upto
  <2> QED BY <1>1, <2>2, <2>3
<1>3. ASSUME NEW i \in S, NEW j \in S, i < j
      PROVE  Cardinality(Upto(i)) # Cardinality(Upto(j))
  <2>1. Upto(i) \in SUBSET Upto(j) /\ j \in Upto(j) /\ j \notin Upto(i)
    <3>1. i \in Nat /\ j \in Nat /\ \A q \in S : q \in Nat
      OBVIOUS
    <3>2. \A q \in S : q <= i => q <= j
      BY <1>3, <3>1
    <3>3. j <= j /\ ~(j <= i)
      BY <1>3, <3>1
    <3> QED BY <3>2, <3>3
  <2>2. IsFiniteSet(Upto(j))
    BY <1>2
  <2> HIDE DEF Upto
  <2> QED BY <2>1, <2>2, FS_Subset
<1>4. f \in Injection(S, 1 .. n)
  <2>1. f \in [S -> 1 .. n]
    BY <1>2
  <2>2. ASSUME NEW i \in S, NEW j \in S, f[i] = f[j] PROVE i = j
    <3>1. i \in Nat /\ j \in Nat
      OBVIOUS
    <3>2. Cardinality(Upto(i)) = Cardinality(Upto(j))
      BY <2>2
    <3>3. ~(i < j) /\ ~(j < i)
      <4> HIDE DEF Upto, f
      <4> QED BY <1>3, <3>2
    <3> QED BY <3>1, <3>3
  <2> HIDE DEF f, n
  <2> QED BY <2>1, <2>2 DEF Injection, IsInjective
<1>5. f \in Surjection(S, 1 .. n)
  <2> HIDE DEF f
  <2> QED BY <1>1, <1>4, FS_Injection
<1>6. PICK i \in S : f[i] = k
  BY <1>5 DEF Surjection
<1> QED BY <1>6

\* What a scan reads: each announcement once, as it is now.
LEMMA SnapshotReads ==
    ASSUME ann \in [Ids -> Entry]
    PROVE  /\ Snapshot \in Seq(Copy) /\ Once(Snapshot)
           /\ \A k \in DOMAIN Snapshot : /\ ann[Snapshot[k].id].st = "live"
                                         /\ ann[Snapshot[k].id].last = Snapshot[k].last
<1> DEFINE live == {i \in Ids : Live(i)}
           Nth(k) == CHOOSE i \in live : Cardinality({j \in live : j <= i}) = k
           n == Cardinality(live)
<1>1. live \in SUBSET Nat /\ IsFiniteSet(live) /\ n \in Nat
  <2>1. NAnn \in Nat
    BY ScheduleConstants
  <2>2. IsFiniteSet(Ids) /\ live \in SUBSET Ids /\ live \in SUBSET Nat
    BY <2>1, FS_Interval DEF Ids
  <2> HIDE DEF live
  <2>3. IsFiniteSet(live)
    BY <2>2, FS_Subset
  <2> QED BY <2>2, <2>3, FS_CardinalityType
<1>2. Snapshot = [k \in 1 .. n |-> [id |-> Nth(k), on |-> ann[Nth(k)].on, cron |-> ann[Nth(k)].cron,
                                    last |-> ann[Nth(k)].last]]
  BY DEF Snapshot
<1>3. ASSUME NEW k \in 1 .. n
      PROVE  Nth(k) \in live /\ Cardinality({j \in live : j <= Nth(k)}) = k
  <2> HIDE DEF live
  <2>1. \E i \in live : Cardinality({j \in live : j <= i}) = k
    BY <1>1, Ranked
  <2> QED BY <2>1
<1> HIDE DEF Nth, n
<1>4. ASSUME NEW i \in live
      PROVE  i \in Ids /\ ann[i] \in Task /\ ann[i].st = "live"
  BY DEF Live, Entry, New, Gone
<1> HIDE DEF live
<1>5. ASSUME NEW k \in 1 .. n
      PROVE  /\ Snapshot[k] \in Copy /\ Snapshot[k].id = Nth(k)
             /\ Snapshot[k].last = ann[Nth(k)].last /\ ann[Nth(k)].st = "live"
  <2>1. Snapshot[k] = [id |-> Nth(k), on |-> ann[Nth(k)].on, cron |-> ann[Nth(k)].cron,
                       last |-> ann[Nth(k)].last]
    BY <1>2
  <2>2. Nth(k) \in Ids /\ ann[Nth(k)] \in Task /\ ann[Nth(k)].st = "live"
    BY <1>3, <1>4
  <2> QED BY <2>1, <2>2 DEF Task, Copy
<1>6. DOMAIN Snapshot = 1 .. n
  BY <1>2
<1>7. Snapshot \in Seq(Copy)
  <2>1. Snapshot = [k \in 1 .. n |-> Snapshot[k]]
    BY <1>2
  <2> QED BY <1>1, <1>5, <2>1
<1>8. Once(Snapshot)
  <2> SUFFICES ASSUME NEW j \in 1 .. n, NEW k \in 1 .. n, Snapshot[j].id = Snapshot[k].id
               PROVE  j = k
    BY <1>6 DEF Once
  <2>1. Nth(j) = Nth(k)
    BY <1>5
  <2> QED BY <1>3, <2>1
<1> QED BY <1>5, <1>6, <1>7, <1>8

-----------------------------------------------------------------------------
Log == Minutes \X Nat
Errand == [pc : {"idle", "deliver"}, at : Minutes, cur : 0 .. NAnn]

Typed ==
    /\ up \in BOOLEAN /\ interval \in BOOLEAN /\ beat \in BOOLEAN /\ quiet \in BOOLEAN
    /\ now \in Minutes
    /\ ann \in [Ids -> Entry] /\ disk.ann \in [Ids -> Entry]
    /\ remind \in 0 .. Never /\ disk.remind \in 0 .. Never
    /\ fires \subseteq Log /\ IsFiniteSet(fires)
    /\ disk.fires \subseteq Log /\ IsFiniteSet(disk.fires)
    /\ disk = [ann |-> disk.ann, fires |-> disk.fires, remind |-> disk.remind]
    /\ manual \in [Slots -> Errand]
    /\ \A s \in Slots : /\ manual[s].at <= now
                        /\ manual[s].pc = "deliver" => manual[s].cur \in Ids
    /\ sends \in [Ids \X Minutes -> Nat] /\ excuse \in Nat

RoundsInv ==
    /\ round = [r \in Rounds |-> round[r]]
    /\ \A r \in Rounds : RoundOK(now, ann, round[r])
    /\ ~up => (\A r \in Rounds : round[r].pc = "idle") /\ (\A s \in Slots : manual[s].pc = "idle")

CountOf(i, m) ==
    Counted(now, Current, round["boot"], round["tick"], sends[<<i, m>>], excuse, i, m)
CountInv == \A i \in Ids, m \in Minutes : CountOf(i, m)

LEMMA Numbers ==
    /\ NAnn \in Nat /\ MaxMinute \in Nat /\ Limit \in Nat /\ Window \in Nat /\ NManual \in Nat
    /\ Minutes \subseteq Nat /\ 0 \in Minutes /\ Minutes \subseteq 0 .. Never
    /\ Never \in Nat /\ Never \notin Minutes /\ Ids \subseteq Nat /\ Ids \subseteq 0 .. NAnn
BY ScheduleConstants DEF Minutes, Never, Ids

LEMMA IdleOK ==
    ASSUME NEW n \in Nat, NEW t
    PROVE  RoundOK(n, t, IdleRound) /\ IdleRound.pc = "idle"
<1>1. <<>> \in Seq(Copy)
  OBVIOUS
<1>2. IdleRound \in Slip
  BY <1>1, Numbers DEF IdleRound, Slip
<1>3. IdleRound.at <= n /\ Once(IdleRound.todo)
  BY DEF IdleRound, Once
<1> QED BY <1>2, <1>3 DEF RoundOK, IdleRound, After

\* One round moves on; the other one's copies stay what they are.
LEMMA RoundMove ==
    ASSUME Typed, RoundsInv, CountInv, up,
           NEW r \in Rounds, NEW me2, round' = [round EXCEPT ![r] = me2],
           UNCHANGED <<up, now>>,
           \A i \in Ids : ann'[i].st = ann[i].st, RoundOK(now, ann', me2),
           \A i \in Ids, m \in Minutes : \A you :
               Counted(now, ann, round[r], you, sends[<<i, m>>], excuse, i, m)
                  => Counted(now, ann', me2, you, sends'[<<i, m>>], excuse', i, m),
           sends' \in [Ids \X Minutes -> Nat], excuse' \in Nat
    PROVE  RoundsInv' /\ CountInv'
<1>1. /\ \A q \in Rounds : round'[q] = IF q = r THEN me2 ELSE round[q]
      /\ round' = [q \in Rounds |-> round'[q]]
      /\ up'
  BY DEF RoundsInv
<1>2. ASSUME NEW q \in Rounds, q # r PROVE RoundOK(now, ann', round[q])
  <2>1. RoundOK(now, ann, round[q])
    BY DEF RoundsInv
  <2>2. \A k \in DOMAIN round[q].todo : round[q].todo[k].id \in Ids
    <3>1. round[q].todo \in Seq(Copy)
      BY <2>1 DEF RoundOK, Slip
    <3>2. \A k \in DOMAIN round[q].todo : round[q].todo[k] \in Copy
      BY <3>1
    <3> QED BY <3>2 DEF Copy
  <2> QED BY <2>1, <2>2 DEF RoundOK, Known
<1>3. RoundsInv'
  <2>1. \A q \in Rounds : RoundOK(now, ann', round'[q])
    BY <1>1, <1>2
  <2>2. \A q \in Rounds : RoundOK(now, ann, round[q])'
    BY <2>1
  <2> QED BY <1>1, <2>2 DEF RoundsInv
<1>4. ASSUME NEW i \in Ids, NEW m \in Minutes PROVE CountOf(i, m)'
  <2> DEFINE c == sends[<<i, m>>]
             d == sends'[<<i, m>>]
  <2>1. c \in Nat /\ d \in Nat /\ excuse \in Nat /\ Current = ann /\ Current' = ann'
    BY <1>1 DEF Typed, Current
  <2>2. Counted(now, ann, round["boot"], round["tick"], c, excuse, i, m)
    BY <2>1 DEF CountInv, CountOf
  <2>3. CASE r = "boot"
    <3>1. round'["boot"] = me2 /\ round'["tick"] = round["tick"]
      BY <1>1, <2>3 DEF Rounds
    <3>2. Counted(now, ann', me2, round["tick"], d, excuse', i, m)
      BY <2>2, <2>3
    <3>3. Counted(now', Current', round'["boot"], round'["tick"], d, excuse', i, m)
      BY <2>1, <3>1, <3>2
    <3> QED BY <3>3 DEF CountOf
  <2>4. CASE r = "tick"
    <3>1. round'["tick"] = me2 /\ round'["boot"] = round["boot"]
      BY <1>1, <2>4 DEF Rounds
    <3>2. Counted(now, ann, round["tick"], round["boot"], c, excuse, i, m)
      BY <2>1, <2>2, Either
    <3>3. Counted(now, ann', me2, round["boot"], d, excuse', i, m)
      BY <2>4, <3>2
    <3>4. Counted(now, ann', round["boot"], me2, d, excuse', i, m)
      BY <2>1, <3>3, Either
    <3>5. Counted(now', Current', round'["boot"], round'["tick"], d, excuse', i, m)
      BY <2>1, <3>1, <3>4
    <3> QED BY <3>5 DEF CountOf
  <2> QED BY <2>3, <2>4 DEF Rounds
<1> QED BY <1>3, <1>4 DEF CountInv

\* A round that is under way belongs to a process that runs.
LEMMA RunsUp ==
    ASSUME Typed, RoundsInv, NEW r \in Rounds, round[r].pc # "idle"
    PROVE  up /\ RoundOK(now, ann, round[r]) /\ round[r] \in Slip /\ now \in Nat
<1>1. up
  BY DEF RoundsInv, Typed
<1> QED BY <1>1, Numbers DEF RoundsInv, Typed, RoundOK

\* The steps of a round before it reads the announcements.
LEMMA WaitingMoves ==
    ASSUME Typed, RoundsInv, CountInv, NEW r \in Rounds, RemindStep(r) \/ CastEnd(r)
    PROVE  RoundsInv' /\ CountInv'
<1>1. PICK pc \in Before : round' = [round EXCEPT ![r].pc = pc]
  BY DEF RemindStep, CastEnd, Before
<1>2. /\ round[r].pc \in Before
      /\ UNCHANGED <<ann, sends, excuse, up, now>>
  BY DEF RemindStep, CastEnd, RoundFrame, Before
<1> DEFINE me2 == [round[r] EXCEPT !.pc = pc]
<1>3. up /\ RoundOK(now, ann, round[r]) /\ round[r] \in Slip
  BY <1>2, RunsUp DEF Before
<1>4. /\ me2 \in Slip /\ me2.pc = pc /\ me2.at = round[r].at /\ me2.todo = round[r].todo
  BY <1>3 DEF Slip
<1>5. round' = [round EXCEPT ![r] = me2]
  BY <1>1
<1> HIDE DEF me2
<1>6. RoundOK(now, ann', me2)
  BY <1>2, <1>3, <1>4 DEF RoundOK, Before, After
<1>7. \A i \in Ids, m \in Minutes : \A you :
         Counted(now, ann, round[r], you, sends[<<i, m>>], excuse, i, m)
            => Counted(now, ann', me2, you, sends'[<<i, m>>], excuse', i, m)
  <2>1. \A i \in Ids, m \in Minutes : sends[<<i, m>>] \in Nat /\ excuse \in Nat
    BY DEF Typed
  <2> QED BY <1>2, <1>4, <2>1, RoundWaits
<1> QED BY <1>2, <1>3, <1>5, <1>6, <1>7, RoundMove DEF Typed

\* Where a round is after its step, how its sends keep to the limit and what
\* copies it makes.
Arrives(r, me2) ==
    /\ round' = [round EXCEPT ![r] = me2]
    /\ me2 \in Slip
    /\ me2.pc = "deliver" => /\ ~Limited(fires', me2.at)
                             /\ copies' = copies \cup {OneMore(copies, me2.at)}
    /\ me2.pc # "deliver" => UNCHANGED copies
    /\ me2.pc \in After => me2.at = now \/ (round[r].pc \in After /\ me2.at = round[r].at)

\* A round reads the announcements.
LEMMA ReadingMoves ==
    ASSUME Typed, RoundsInv, CountInv, NEW r \in Rounds, AnnounceStart(r)
    PROVE  /\ RoundsInv' /\ CountInv' /\ ann' \in [Ids -> Entry]
           /\ \E me2 : Arrives(r, me2)
<1> DEFINE todo == IF quiet THEN <<>> ELSE Snapshot
           me == [pc |-> "tell", at |-> now, todo |-> todo, cur |-> 0]
<1>1. /\ round[r].pc = "announce" /\ GoOn(r, now, todo, ann, fires)
      /\ UNCHANGED <<up, now, fires, sends, excuse>>
  BY DEF AnnounceStart, RoundFrame
<1>2. /\ up /\ RoundOK(now, ann, round[r]) /\ now \in Nat /\ now \in Minutes
      /\ ann \in [Ids -> Entry]
  BY <1>1, RunsUp DEF Typed
<1>3. /\ todo \in Seq(Copy) /\ Once(todo)
      /\ \A k \in DOMAIN todo : /\ ann[todo[k].id].st = "live"
                                /\ ann[todo[k].id].last = todo[k].last
  <2>1. CASE quiet
    <3>1. todo = <<>> /\ DOMAIN todo = {}
      BY <2>1
    <3>2. <<>> \in Seq(Copy)
      OBVIOUS
    <3> QED BY <3>1, <3>2 DEF Once
  <2>2. CASE ~quiet
    BY <1>2, <2>2, SnapshotReads
  <2> QED BY <2>1, <2>2
<1> HIDE DEF todo
<1>4. me.pc = "tell" /\ me.at = now /\ me.todo = todo /\ me \in Slip
  BY <1>2, <1>3, Numbers DEF Slip, After
<1> HIDE DEF me
<1>5. RoundOK(now, ann, me)
  BY <1>2, <1>3, <1>4 DEF RoundOK, Known
<1>6. PICK me2 :
        /\ round' = [round EXCEPT ![r] = me2]
        /\ ann' \in [Ids -> Entry] /\ \A i \in Ids : ann'[i].st = ann[i].st
        /\ RoundOK(now, ann', me2)
        /\ me2.pc \in After \cup {"idle"}
        /\ Comes(me, me2, fires)
        /\ \A i \in Ids, m \in Minutes, c \in Nat, e \in Nat : \A you :
              Counted(now, ann, me, you, c, e, i, m)
                 => Counted(now, ann', me2, you, c, e, i, m)
  BY <1>1, <1>2, <1>4, <1>5, GoesOn
<1>7. ASSUME NEW i \in Ids, NEW m \in Minutes, NEW you,
             Counted(now, ann, round[r], you, sends[<<i, m>>], excuse, i, m)
      PROVE  Counted(now, ann', me2, you, sends'[<<i, m>>], excuse', i, m)
  <2>1. sends[<<i, m>>] \in Nat /\ excuse \in Nat /\ m \in Nat
    BY Numbers DEF Typed
  <2>2. round[r].pc \in Before
    BY <1>1 DEF Before
  <2>3. Counted(now, ann, me, you, sends[<<i, m>>], excuse, i, m)
    BY <1>2, <1>3, <1>4, <1>7, <2>1, <2>2, RoundReads
  <2> QED BY <1>1, <1>6, <2>1, <2>3
<1>8. RoundsInv' /\ CountInv'
  <2>1. sends' \in [Ids \X Minutes -> Nat] /\ excuse' \in Nat
    BY <1>1 DEF Typed
  <2> QED BY <1>1, <1>2, <1>6, <1>7, <2>1, RoundMove
<1>9. Arrives(r, me2)
  <2>1. Comes(me, me2, fires) /\ me.at = now /\ fires' = fires
    BY <1>1, <1>4, <1>6
  <2>2. /\ me2.pc \in After => me2.at = now
        /\ me2.pc = "deliver" => /\ me2.at = now /\ ~Limited(fires', now)
                                 /\ copies' = copies \cup {OneMore(copies, now)}
        /\ me2.pc # "deliver" => UNCHANGED copies
    BY <2>1 DEF Comes, After
  <2> QED BY <1>6, <2>2 DEF Arrives, RoundOK
<1> QED BY <1>6, <1>8, <1>9

\* The owner has been told.
LEMMA TellingMoves ==
    ASSUME Typed, RoundsInv, CountInv, NEW r \in Rounds, TellEnd(r)
    PROVE  /\ RoundsInv' /\ CountInv' /\ ann' \in [Ids -> Entry]
           /\ \E me2 : Arrives(r, me2)
<1> DEFINE me == round[r]
<1>1. /\ me.pc = "tell" /\ GoOn(r, me.at, me.todo, ann, fires)
      /\ UNCHANGED <<up, now, fires, sends, excuse>>
  BY DEF TellEnd, RoundFrame
<1>2. /\ up /\ RoundOK(now, ann, me) /\ now \in Minutes /\ ann \in [Ids -> Entry]
  BY <1>1, RunsUp DEF Typed
<1>3. PICK me2 :
        /\ round' = [round EXCEPT ![r] = me2]
        /\ ann' \in [Ids -> Entry] /\ \A i \in Ids : ann'[i].st = ann[i].st
        /\ RoundOK(now, ann', me2)
        /\ me2.pc \in After \cup {"idle"}
        /\ Comes(me, me2, fires)
        /\ \A i \in Ids, m \in Minutes, c \in Nat, e \in Nat : \A you :
              Counted(now, ann, me, you, c, e, i, m)
                 => Counted(now, ann', me2, you, c, e, i, m)
  <2> HIDE DEF me
  <2> QED BY <1>1, <1>2, GoesOn
<1>4. RoundsInv' /\ CountInv'
  <2>1. /\ sends' \in [Ids \X Minutes -> Nat] /\ excuse' \in Nat
        /\ \A i \in Ids, m \in Minutes : sends[<<i, m>>] \in Nat /\ excuse \in Nat
    BY <1>1 DEF Typed
  <2>2. \A i \in Ids, m \in Minutes : \A you :
            Counted(now, ann, round[r], you, sends[<<i, m>>], excuse, i, m)
               => Counted(now, ann', me2, you, sends'[<<i, m>>], excuse', i, m)
    BY <1>1, <1>3, <2>1
  <2> QED BY <1>1, <1>2, <1>3, <2>1, <2>2, RoundMove
<1>5. Arrives(r, me2)
  <2>1. Comes(me, me2, fires) /\ me.pc \in After /\ fires' = fires
    BY <1>1, <1>3 DEF After
  <2>2. /\ me2.pc \in After => me2.at = me.at
        /\ me2.pc = "deliver" => /\ me2.at = me.at /\ ~Limited(fires', me.at)
                                 /\ copies' = copies \cup {OneMore(copies, me.at)}
        /\ me2.pc # "deliver" => UNCHANGED copies
    BY <2>1 DEF Comes, After
  <2> QED BY <1>3, <2>1, <2>2 DEF Arrives, RoundOK
<1> QED BY <1>3, <1>4, <1>5

\* The send came back.  The copy is counted, the claim that paid for it is gone.
LEMMA DeliveryMoves ==
    ASSUME Typed, RoundsInv, CountInv, NEW r \in Rounds, DeliverEnd(r)
    PROVE  /\ RoundsInv' /\ CountInv' /\ ann' \in [Ids -> Entry]
           /\ sends' \in [Ids \X Minutes -> Nat] /\ excuse' \in Nat
           /\ \E me2 : Arrives(r, me2)
<1> DEFINE me == round[r]
           j == me.cur
           at == me.at
           t == Mark(ann, j, at)
           me1 == [me EXCEPT !.pc = "tell"]
<1>1. /\ me.pc = "deliver"
      /\ sends' = [sends EXCEPT ![<<j, at>>] = @ + 1]
      /\ fires' = RecordFire(at)
      /\ excuse' = excuse \/ excuse' = excuse + 1
      /\ UNCHANGED <<up, now>>
      /\ \/ GoOn(r, at, me.todo, MarkFired(ann, j, at), RecordFire(at))
         \/ /\ ann' = MarkFired(ann, j, at) /\ round' = [round EXCEPT ![r].pc = "tell"]
            /\ UNCHANGED copies
  BY DEF DeliverEnd, RoundFrame
<1>2. /\ up /\ RoundOK(now, ann, me) /\ now \in Nat /\ now \in Minutes /\ me \in Slip
      /\ ann \in [Ids -> Entry] /\ MarkFired(ann, j, at) = t
      /\ \A i \in Ids, m \in Minutes : sends[<<i, m>>] \in Nat /\ excuse \in Nat
  BY <1>1, RunsUp DEF Typed, MarkFired, Mark, Live
<1>3. /\ j \in Ids /\ ann[j].st # "new" /\ at \in Minutes /\ at <= now /\ Once(me.todo)
      /\ \A k \in DOMAIN me.todo : me.todo[k].id # j /\ ann[me.todo[k].id].st # "new"
      /\ me.todo \in Seq(Copy)
  BY <1>1, <1>2 DEF RoundOK, Known, After, Slip
<1>4. /\ at \in Nat /\ at <= Never /\ at \in 0 .. Never
  BY <1>3, Numbers DEF Minutes
<1>5. t \in [Ids -> Entry] /\ \A i \in Ids : t[i].st = ann[i].st
  <2> HIDE DEF at, j
  <2> QED BY <1>2, <1>3, <1>4, MarkedTable
<1>6. /\ me1 \in Slip /\ me1.pc = "tell" /\ me1.at = at /\ me1.todo = me.todo
      /\ [round EXCEPT ![r].pc = "tell"] = [round EXCEPT ![r] = me1]
  BY <1>2 DEF Slip, After
<1>7. RoundOK(now, t, me1)
  <2>1. \A k \in DOMAIN me.todo : me.todo[k] \in Copy
    BY <1>3
  <2>2. \A k \in DOMAIN me.todo : t[me.todo[k].id].st # "new"
    <3> HIDE DEF t, j, at, me
    <3> QED BY <1>3, <1>5, <2>1 DEF Copy
  <2> HIDE DEF t, j, at, me, me1
  <2> QED BY <1>3, <1>6, <2>2 DEF RoundOK, Known
<1> HIDE DEF me1
<1>8. ASSUME NEW i \in Ids, NEW m \in Minutes, NEW you,
             Counted(now, ann, me, you, sends[<<i, m>>], excuse, i, m)
      PROVE  /\ Counted(now, t, me1, you, sends'[<<i, m>>], excuse', i, m)
             /\ sends'[<<i, m>>] \in Nat
  <2> DEFINE c == sends[<<i, m>>]
             d == sends'[<<i, m>>]
  <2>1. Holds(me1, i, m) => Holds(me, i, m)
    BY <1>1, <1>6 DEF Holds, After
  <2>2. i = j /\ m >= at => Holds(me, i, m)
    BY <1>1, <1>4, Numbers DEF Holds, After
  <2>3. i = j => ~Holds(me1, i, m)
    BY <1>3, <1>6 DEF Holds
  <2>4. c \in Nat /\ d \in Nat /\ (d = c \/ (d = c + 1 /\ i = j /\ m = at))
    <3>1. c \in Nat
      BY <1>2
    <3>2. <<i, m>> = <<j, at>> => d = c + 1
      BY <1>1, <1>3, <3>1 DEF Typed
    <3>3. <<i, m>> # <<j, at>> => d = c
      BY <1>1 DEF Typed
    <3> HIDE DEF c, d
    <3> QED BY <3>1, <3>2, <3>3
  <2>5. d = c \/ (d = c + 1 /\ i = j /\ m = at /\ Holds(me, i, m))
    BY <1>4, <2>2, <2>4
  <2>6. me.pc \in After /\ me1.pc \in After /\ m \in Nat /\ excuse \in Nat
    BY <1>1, <1>2, <1>6, Numbers DEF After
  <2>7. i = j /\ m > at => Holds(me, i, m)
    BY <1>4, <2>2, <2>6
  <2>8. Counted(now, ann, me, you, c, excuse, i, m)
    BY <1>8
  <2>9. Counted(now, t, me1, you, d, excuse, i, m)
    <3> HIDE DEF me, j, at, c, d
    <3> QED BY <1>2, <1>3, <1>4, <2>1, <2>3, <2>4, <2>5, <2>6, <2>7, <2>8, ClaimPays DEF t
  <2>10. Counted(now, t, me1, you, d, excuse + 1, i, m)
    <3> HIDE DEF me, t, c, d
    <3> QED BY <2>4, <2>6, <2>9, Excused
  <2> QED BY <1>1, <2>4, <2>9, <2>10
<1>9. sends' \in [Ids \X Minutes -> Nat] /\ excuse' \in Nat
  BY <1>1, <1>3 DEF Typed
<1> HIDE DEF t
<1>10. CASE GoOn(r, at, me.todo, t, RecordFire(at))
  <2>1. GoOn(r, me1.at, me1.todo, t, fires')
    BY <1>1, <1>6, <1>10
  <2>2. PICK me2 :
          /\ round' = [round EXCEPT ![r] = me2]
          /\ ann' \in [Ids -> Entry] /\ \A i \in Ids : ann'[i].st = t[i].st
          /\ RoundOK(now, ann', me2)
          /\ me2.pc \in After \cup {"idle"}
          /\ Comes(me1, me2, fires')
          /\ \A i \in Ids, m \in Minutes, c \in Nat, e \in Nat : \A you :
                Counted(now, t, me1, you, c, e, i, m)
                   => Counted(now, ann', me2, you, c, e, i, m)
    <3>1. now \in Minutes /\ me1.pc = "tell"
      BY <1>2, <1>6
    <3> HIDE DEF me, at, j
    <3> QED BY <3>1, <1>5, <1>7, <2>1, GoesOn
  <2>3. \A i \in Ids, m \in Minutes : \A you :
           Counted(now, ann, round[r], you, sends[<<i, m>>], excuse, i, m)
              => Counted(now, ann', me2, you, sends'[<<i, m>>], excuse', i, m)
    BY <1>8, <1>9, <2>2
  <2>4. RoundsInv' /\ CountInv'
    <3>1. up /\ UNCHANGED <<up, now>> /\ \A i \in Ids : ann'[i].st = ann[i].st
      BY <1>1, <1>2, <1>5, <2>2
    <3> QED BY <3>1, <1>9, <2>2, <2>3, RoundMove
  <2>5. Arrives(r, me2)
    <3>1. me1.at = round[r].at /\ round[r].pc \in After
      BY <1>1, <1>6 DEF After
    <3>2. /\ me2.pc \in After => me2.at = round[r].at
          /\ me2.pc = "deliver" => /\ me2.at = round[r].at /\ ~Limited(fires', round[r].at)
                                   /\ copies' = copies \cup {OneMore(copies, round[r].at)}
          /\ me2.pc # "deliver" => UNCHANGED copies
      BY <2>2, <3>1 DEF Comes, After
    <3> QED BY <2>2, <3>1, <3>2 DEF Arrives, RoundOK
  <2> QED BY <1>9, <2>2, <2>4, <2>5
<1>11. CASE ann' = t /\ round' = [round EXCEPT ![r] = me1] /\ UNCHANGED copies
  <2>1. RoundsInv' /\ CountInv'
    <3>1. up /\ UNCHANGED <<up, now>> /\ \A i \in Ids : ann'[i].st = ann[i].st
      BY <1>1, <1>2, <1>5, <1>11
    <3>2. RoundOK(now, ann', me1)
      BY <1>7, <1>11
    <3>3. \A i \in Ids, m \in Minutes : \A you :
             Counted(now, ann, round[r], you, sends[<<i, m>>], excuse, i, m)
                => Counted(now, ann', me1, you, sends'[<<i, m>>], excuse', i, m)
      BY <1>8, <1>11
    <3> QED BY <1>9, <1>11, <3>1, <3>2, <3>3, RoundMove
  <2>2. Arrives(r, me1)
    BY <1>1, <1>6, <1>11 DEF Arrives, After
  <2> QED BY <1>5, <1>9, <1>11, <2>1, <2>2
<1> QED BY <1>1, <1>2, <1>6, <1>10, <1>11

-----------------------------------------------------------------------------
\* Steps of anybody else: what was not due may only become due with an excuse.
LEMMA TableMove ==
    ASSUME Typed, RoundsInv, CountInv, UNCHANGED <<up, round, sends>>,
           now' \in Nat, now <= now', excuse' \in Nat,
           \A i \in Ids : ann[i].st # "new" => ann'[i].st # "new",
           ~up => \A s \in Slots : manual'[s].pc = "idle",
           \A i \in Ids, m \in Minutes :
              \/ /\ excuse' = excuse
                 /\ Fresh(now', Current', i, m) <= Fresh(now, Current, i, m)
              \/ excuse' = excuse + 1 /\ now' = now
    PROVE  RoundsInv' /\ CountInv'
<1>0. now \in Nat
  BY Numbers DEF Typed
<1>1. ASSUME NEW r \in Rounds PROVE RoundOK(now, ann, round[r])'
  <2>1. RoundOK(now, ann, round[r])
    BY DEF RoundsInv
  <2>2. round[r].todo \in Seq(Copy) /\ round[r].at \in Nat
    BY <2>1, Numbers DEF RoundOK, Slip
  <2>3. \A k \in DOMAIN round[r].todo : round[r].todo[k].id \in Ids
    <3>1. \A k \in DOMAIN round[r].todo : round[r].todo[k] \in Copy
      BY <2>2
    <3> QED BY <3>1 DEF Copy
  <2>4. round[r].at <= now'
    BY <1>0, <2>1, <2>2 DEF RoundOK
  <2> DEFINE me == round[r]
  <2>5. Known(ann, me) => Known(ann', me)
    BY <2>3 DEF Known
  <2>6. RoundOK(now', ann', me)
    BY <2>1, <2>4, <2>5 DEF RoundOK
  <2> QED BY <2>6
<1>2. RoundsInv'
  BY <1>1 DEF RoundsInv
<1>3. ASSUME NEW i \in Ids, NEW m \in Minutes PROVE CountOf(i, m)'
  <2> DEFINE c == sends[<<i, m>>]
             me == round["boot"]
             you == round["tick"]
  <2>1. c \in Nat /\ excuse \in Nat /\ m \in Nat
    BY Numbers DEF Typed
  <2>2. Counted(now, Current, me, you, c, excuse, i, m)
    BY DEF CountInv, CountOf
  <2>3. Counted(now', Current', me, you, c, excuse', i, m)
    <3>1. CASE /\ excuse' = excuse
               /\ Fresh(now', Current', i, m) <= Fresh(now, Current, i, m)
      <4>1. m > now' => m > now
        BY <1>0, <2>1
      <4> QED BY <2>1, <2>2, <3>1, <4>1, NoFresher
    <3>2. CASE excuse' = excuse + 1 /\ now' = now
      BY <2>1, <2>2, <3>2, Excused
    <3> QED BY <3>1, <3>2
  <2> QED BY <2>3 DEF CountOf
<1> QED BY <1>2, <1>3 DEF CountInv

\* What Fresh asks of a table is the state of a row and its mark.
LEMMA SameRow ==
    ASSUME NEW n, NEW t, NEW u, NEW i, NEW m, u[i] = t[i]
    PROVE  Fresh(n, u, i, m) <= Fresh(n, t, i, m)
<1>1. Fresh(n, u, i, m) = Fresh(n, t, i, m) /\ Fresh(n, t, i, m) \in {0, 1}
  BY FreshBit DEF Fresh
<1> QED BY <1>1

\* Edits: a new announcement was due already, an edit keeps the mark, a removed
\* one is due no more.
LEMMA EditMoves ==
    ASSUME Typed, RoundsInv, CountInv, EditFrame,
           NEW j \in Ids, NEW x \in Entry, x.st # "new",
           ann' = [ann EXCEPT ![j] = x],
           \/ ann[j] = New /\ x.st = "live" /\ x.last = Never
           \/ ann[j].st = "live" /\ x.st = "live" /\ x.last = ann[j].last
           \/ x = Gone
    PROVE  Typed' /\ RoundsInv' /\ CountInv'
<1>1. up /\ UNCHANGED <<up, now, interval, beat, quiet, fires, remind, disk, round, manual, sends, excuse>>
  BY DEF EditFrame
<1>2. /\ Current = ann /\ Current' = ann' /\ ann \in [Ids -> Entry] /\ ann' \in [Ids -> Entry]
      /\ now \in Nat /\ excuse \in Nat
  BY <1>1, Numbers DEF Current, Typed
<1>3. \A i \in Ids : ann'[i] = IF i = j THEN x ELSE ann[i]
  BY <1>2
<1>4. ASSUME NEW i \in Ids, NEW m \in Minutes
      PROVE  Fresh(now, ann', i, m) <= Fresh(now, ann, i, m)
  <2>1. CASE i # j
    BY <1>3, <2>1, SameRow
  <2>2. CASE i = j
    <3>0. Fresh(now, ann, i, m) \in {0, 1} /\ Fresh(now, ann', i, m) \in {0, 1}
      BY FreshBit
    <3>1. CASE ann[j] = New
      <4>1. ann[j].st = "new"
        BY <3>1 DEF New
      <4>2. Fresh(now, ann', i, m) = 1 => Fresh(now, ann, i, m) = 1
        BY <2>2, <4>1 DEF Fresh
      <4> QED BY <3>0, <4>2
    <3>2. CASE ann[j].st = "live" /\ x.st = "live" /\ x.last = ann[j].last
      <4>1. Fresh(now, ann', i, m) = 1 => Fresh(now, ann, i, m) = 1
        BY <1>3, <2>2, <3>2 DEF Fresh
      <4> QED BY <3>0, <4>1
    <3>3. CASE x = Gone
      <4>1. ann'[i].st = "gone"
        BY <1>3, <2>2, <3>3 DEF Gone
      <4>2. Fresh(now, ann', i, m) = 0
        BY <4>1 DEF Fresh
      <4> QED BY <3>0, <4>2
    <3> QED BY <3>1, <3>2, <3>3
  <2> QED BY <2>1, <2>2
<1>5. RoundsInv' /\ CountInv'
  <2>1. \A i \in Ids : ann[i].st # "new" => ann'[i].st # "new"
    BY <1>3
  <2>2. \A i \in Ids, m \in Minutes : Fresh(now', Current', i, m) <= Fresh(now, Current, i, m)
    BY <1>1, <1>2, <1>4
  <2>3. now' \in Nat /\ now <= now' /\ excuse' \in Nat /\ excuse' = excuse
    BY <1>1, <1>2
  <2> QED BY <1>1, <2>1, <2>2, <2>3, TableMove
<1>6. Typed'
  BY <1>1, <1>2 DEF Typed
<1> QED BY <1>5, <1>6

LEMMA EditsMove ==
    ASSUME Typed, RoundsInv, CountInv,
           CreateAnnouncement \/ UpdateAnnouncement \/ SetEnabled \/ UpdateTask \/ RemoveAnnouncement
    PROVE  Typed' /\ RoundsInv' /\ CountInv'
<1>0. ann \in [Ids -> Entry]
  BY DEF Typed
<1>1. CASE CreateAnnouncement
  <2>1. PICK i \in Ids, e \in Exprs :
          /\ ann[i] = New
          /\ ann' = [ann EXCEPT ![i] = [st |-> "live", on |-> FALSE, cron |-> e, last |-> Never]]
    BY <1>1 DEF CreateAnnouncement
  <2> DEFINE x == [st |-> "live", on |-> FALSE, cron |-> e, last |-> Never]
  <2>2. x \in Entry /\ x.st = "live" /\ x.last = Never
    BY Numbers DEF Entry, Task
  <2>3. EditFrame /\ ann' = [ann EXCEPT ![i] = x]
    BY <1>1, <2>1 DEF CreateAnnouncement
  <2> HIDE DEF x
  <2> QED BY <2>1, <2>2, <2>3, EditMoves
<1>2. ASSUME NEW i \in Ids, NEW e, NEW on, Change(i, e, on),
             Live(i) => e \in Exprs /\ on \in BOOLEAN
      PROVE  Typed' /\ RoundsInv' /\ CountInv'
  <2> DEFINE x == [ann[i] EXCEPT !.cron = e, !.on = on]
  <2>1. ann[i].st = "live" /\ e \in Exprs /\ on \in BOOLEAN /\ EditFrame
    BY <1>2 DEF Change, Live
  <2>2. ann[i] \in Task
    BY <1>0, <2>1 DEF Entry, New, Gone
  <2>3. x \in Task /\ x.st = "live" /\ x.last = ann[i].last
    BY <2>1, <2>2 DEF Task
  <2>4. ann' = [ann EXCEPT ![i] = x]
    BY <1>0, <1>2 DEF Change
  <2> HIDE DEF x
  <2>5. x \in Entry /\ x.st # "new"
    BY <2>3 DEF Entry
  <2> QED BY <2>1, <2>3, <2>4, <2>5, EditMoves
<1>3. CASE RemoveAnnouncement
  <2>1. PICK i \in Ids : Live(i) /\ ann' = [ann EXCEPT ![i] = Gone]
    BY <1>3 DEF RemoveAnnouncement
  <2>2. Gone \in Entry /\ Gone.st # "new" /\ EditFrame
    BY <1>3 DEF Entry, Gone, RemoveAnnouncement
  <2> QED BY <2>1, <2>2, EditMoves
<1>4. \A i \in Ids : Live(i) => ann[i].cron \in Exprs /\ ann[i].on \in BOOLEAN
  BY <1>0 DEF Live, Entry, Task, New, Gone
<1>5. CASE UpdateAnnouncement
  BY <1>2, <1>4, <1>5 DEF UpdateAnnouncement
<1>6. CASE SetEnabled
  <2>1. PICK i \in Ids : Live(i) /\ Change(i, ann[i].cron, ~ann[i].on)
    BY <1>6 DEF SetEnabled
  <2>2. (~ann[i].on) \in BOOLEAN /\ ann[i].cron \in Exprs
    BY <1>4, <2>1
  <2> QED BY <1>2, <2>1, <2>2
<1>7. CASE UpdateTask
  BY <1>2, <1>7 DEF UpdateTask
<1> QED BY <1>1, <1>3, <1>5, <1>6, <1>7

\* The settings, the write queue and the clock leave the announcements alone.
LEMMA QuietMoves ==
    ASSUME Typed, RoundsInv, CountInv,
           SetReminder \/ Silence \/ SetInterval \/ Drain \/ Minute
    PROVE  Typed' /\ RoundsInv' /\ CountInv'
<1>1. /\ UNCHANGED <<up, ann, fires, round, manual, sends, excuse>>
      /\ up \/ UNCHANGED disk
  BY DEF SetReminder, Silence, SetInterval, Drain, Minute, memory
<1>2. now' \in Minutes /\ now' \in Nat /\ now \in Nat /\ now <= now'
  <2>1. now \in Minutes /\ now \in Nat /\ MaxMinute \in Nat
    BY Numbers DEF Typed
  <2>2. CASE now' = now
    BY <2>1, <2>2
  <2>3. CASE now < MaxMinute /\ now' = now + 1
    BY <2>1, <2>3 DEF Minutes
  <2> QED BY <2>2, <2>3 DEF SetReminder, Silence, SetInterval, Drain, Minute
<1>3. Current' = Current
  BY <1>1 DEF Current
<1>4. \A i \in Ids, m \in Minutes : Fresh(now', Current', i, m) <= Fresh(now, Current, i, m)
  <2> SUFFICES ASSUME NEW i \in Ids, NEW m \in Minutes
               PROVE  Fresh(now', Current, i, m) <= Fresh(now, Current, i, m)
    BY <1>3
  <2>1. Fresh(now', Current, i, m) \in {0, 1} /\ Fresh(now, Current, i, m) \in {0, 1}
    BY FreshBit
  <2>2. m \in Nat
    BY Numbers
  <2>3. Fresh(now', Current, i, m) = 1 => Fresh(now, Current, i, m) = 1
    BY <1>2, <2>2 DEF Fresh
  <2> QED BY <2>1, <2>3
<1>5. RoundsInv' /\ CountInv'
  <2>1. excuse' \in Nat /\ excuse' = excuse
    BY <1>1 DEF Typed
  <2>2. ~up => \A s \in Slots : manual'[s].pc = "idle"
    BY <1>1 DEF RoundsInv
  <2> QED BY <1>1, <1>2, <1>4, <2>1, <2>2, TableMove
<1>6. Typed'
  <2>1. disk' = disk \/ disk' = [ann |-> ann, fires |-> fires, remind |-> remind]
    BY DEF SetReminder, Silence, SetInterval, Drain, Minute, Rows
  <2>2. /\ disk'.ann \in [Ids -> Entry] /\ disk'.remind \in 0 .. Never
        /\ disk'.fires \subseteq Log /\ IsFiniteSet(disk'.fires)
        /\ disk' = [ann |-> disk'.ann, fires |-> disk'.fires, remind |-> disk'.remind]
    <3>1. CASE disk' = disk
      BY <3>1 DEF Typed
    <3>2. CASE disk' = [ann |-> ann, fires |-> fires, remind |-> remind]
      BY <3>2 DEF Typed
    <3> QED BY <2>1, <3>1, <3>2
  <2>3. interval' \in BOOLEAN /\ beat' \in BOOLEAN /\ quiet' \in BOOLEAN
    BY DEF Typed, SetReminder, Silence, SetInterval, Drain, Minute
  <2>4. remind' \in 0 .. Never
    BY Numbers DEF Typed, SetReminder, Silence, SetInterval, Drain, Minute, memory
  <2>5. \A s \in Slots : manual[s].at <= now'
    <3> TAKE s \in Slots
    <3>1. manual[s].at \in Nat /\ manual[s].at <= now
      BY Numbers DEF Typed, Errand
    <3> QED BY <1>2, <3>1
  <2>6. /\ up' \in BOOLEAN /\ ann' \in [Ids -> Entry]
        /\ fires' \subseteq Log /\ IsFiniteSet(fires')
        /\ manual' \in [Slots -> Errand]
        /\ \A s \in Slots : manual'[s].at <= now' /\ (manual'[s].pc = "deliver" => manual'[s].cur \in Ids)
        /\ sends' \in [Ids \X Minutes -> Nat] /\ excuse' \in Nat
    BY <1>1, <2>5 DEF Typed
  <2> QED BY <1>2, <2>2, <2>3, <2>4, <2>6 DEF Typed
<1> QED BY <1>5, <1>6

\* The log of the firings with one more.
LEMMA Recorded ==
    ASSUME Typed, NEW at \in Minutes
    PROVE  RecordFire(at) \subseteq Log /\ IsFiniteSet(RecordFire(at))
<1> DEFINE old == {f \in fires : f[1] + Keep >= at}
           same == {f \in fires : f[1] = at}
           k == 1 + Cardinality(same)
<1>1. fires \subseteq Log /\ IsFiniteSet(fires)
  BY DEF Typed
<1>2. IsFiniteSet(old) /\ IsFiniteSet(same) /\ old \subseteq Log
  <2>1. old \subseteq fires /\ same \subseteq fires
    OBVIOUS
  <2> HIDE DEF old, same
  <2> QED BY <1>1, <2>1, FS_Subset
<1>3. k \in Nat
  <2> HIDE DEF same
  <2> QED BY <1>2, FS_CardinalityType
<1>4. RecordFire(at) = old \cup {<<at, k>>}
  BY DEF RecordFire, OneMore
<1> HIDE DEF old, k
<1>5. IsFiniteSet(old \cup {<<at, k>>})
  BY <1>2, FS_AddElement
<1> QED BY <1>2, <1>3, <1>4, <1>5 DEF Log

\* "Send now": its mark is no excuse unless it puts a later one back.
LEMMA ManualMoves ==
    ASSUME Typed, RoundsInv, CountInv, NEW s \in Slots, SendNow(s) \/ SendNowEnd(s)
    PROVE  Typed' /\ RoundsInv' /\ CountInv'
<1>1. UNCHANGED <<up, now, interval, beat, quiet, remind, disk, round, sends>>
  BY DEF SendNow, SendNowEnd, ManualFrame
<1>2. now \in Nat /\ now \in Minutes /\ ann \in [Ids -> Entry] /\ manual \in [Slots -> Errand]
  BY Numbers DEF Typed
<1>3. CASE SendNow(s)
  <2>1. PICK i \in Ids : manual' = [manual EXCEPT ![s] = [pc |-> "deliver", at |-> now, cur |-> i]]
    BY <1>3 DEF SendNow
  <2>2. up /\ UNCHANGED <<ann, fires, excuse>>
    BY <1>3 DEF SendNow
  <2>3. Typed'
    <3> DEFINE x == [pc |-> "deliver", at |-> now, cur |-> i]
    <3>1. x \in Errand /\ x.at = now /\ x.cur = i
      BY <1>2, Numbers DEF Errand
    <3>2. \A q \in Slots : manual'[q] = IF q = s THEN x ELSE manual[q]
      BY <1>2, <2>1
    <3> HIDE DEF x
    <3>3. manual' \in [Slots -> Errand]
      BY <1>2, <2>1, <3>1 DEF x
    <3>4. \A q \in Slots : /\ manual'[q].at <= now'
                           /\ manual'[q].pc = "deliver" => manual'[q].cur \in Ids
      BY <1>1, <1>2, <3>1, <3>2 DEF Typed
    <3> QED BY <1>1, <2>2, <3>3, <3>4 DEF Typed
  <2>4. \A j \in Ids, m \in Minutes : Fresh(now', Current', j, m) <= Fresh(now, Current, j, m)
    BY <1>1, <2>2, SameRow DEF Current
  <2>5. now' \in Nat /\ now <= now' /\ excuse' \in Nat /\ excuse' = excuse
    BY <1>1, <1>2, <2>2 DEF Typed
  <2> QED BY <1>1, <2>2, <2>3, <2>4, <2>5, TableMove
<1>4. CASE SendNowEnd(s)
  <2> DEFINE j == manual[s].cur
             at == manual[s].at
  <2>1. /\ manual[s].pc = "deliver" /\ ann' = MarkFired(ann, j, at) /\ fires' = RecordFire(at)
        /\ excuse' = IF PutsBack(j, at) THEN excuse + 1 ELSE excuse
        /\ manual' = [manual EXCEPT ![s] = IdleManual]
    BY <1>4 DEF SendNowEnd
  <2>2. /\ j \in Ids /\ at \in Minutes /\ at \in Nat /\ at <= now /\ at \in 0 .. Never
        /\ excuse \in Nat /\ up
    BY <1>2, <2>1, Numbers DEF Typed, RoundsInv, Errand
  <2>3. ann' = Mark(ann, j, at)
    BY <2>1 DEF MarkFired, Mark, Live
  <2> HIDE DEF j, at
  <2>4. /\ ann' \in [Ids -> Entry] /\ \A i \in Ids : ann'[i].st = ann[i].st
        /\ \A i \in Ids \ {j} : ann'[i] = ann[i]
        /\ ann[j].st = "live" => ann'[j].last = at
    BY <1>2, <2>2, <2>3, MarkedTable
  <2>5. Typed'
    <3>1. IdleManual \in Errand /\ IdleManual.at = 0 /\ IdleManual.pc = "idle"
      BY Numbers DEF IdleManual, Errand
    <3>2. \A q \in Slots : manual'[q] = IF q = s THEN IdleManual ELSE manual[q]
      BY <1>2, <2>1
    <3>3. manual' \in [Slots -> Errand]
      BY <1>2, <2>1, <3>1
    <3>4. \A q \in Slots : /\ manual'[q].at <= now'
                           /\ manual'[q].pc = "deliver" => manual'[q].cur \in Ids
      BY <1>1, <1>2, <3>1, <3>2 DEF Typed
    <3>5. fires' \subseteq Log /\ IsFiniteSet(fires')
      BY <2>1, <2>2, Recorded
    <3>6. excuse' \in Nat
      BY <2>1, <2>2
    <3> QED BY <1>1, <2>4, <3>3, <3>4, <3>5, <3>6 DEF Typed
  <2>6. ASSUME NEW i \in Ids, NEW m \in Minutes, ~PutsBack(j, at)
        PROVE  Fresh(now, ann', i, m) <= Fresh(now, ann, i, m)
    <3>1. CASE i # j
      BY <2>4, <3>1, SameRow
    <3>2. CASE i = j /\ ann[j].st = "live"
      <4>1. Fresh(now, ann, i, m) \in {0, 1} /\ Fresh(now, ann', i, m) \in {0, 1}
        BY FreshBit
      <4>2. m \in Nat /\ m # Never
        BY Numbers
      <4>3. ann[j].last = Never \/ at >= ann[j].last
        <5>1. ann[j].last \in Nat
          BY <1>2, <2>2, <3>2, Numbers DEF Entry, Task, New, Gone
        <5> QED BY <2>2, <2>6, <3>2, <5>1 DEF PutsBack, Live
      <4>4. ASSUME Fresh(now, ann', i, m) = 1 PROVE ann[j].last # m
        <5>1. now <= m /\ at # m
          BY <2>4, <3>2, <4>4 DEF Fresh
        <5> QED BY <1>2, <2>2, <4>2, <4>3, <5>1
      <4>5. Fresh(now, ann', i, m) = 1 => Fresh(now, ann, i, m) = 1
        BY <3>2, <4>4 DEF Fresh
      <4> QED BY <4>1, <4>5
    <3>3. CASE i = j /\ ann[j].st # "live"
      <4>1. ann' = ann
        BY <2>3, <3>3 DEF Mark
      <4> QED BY <4>1, SameRow
    <3> QED BY <3>1, <3>2, <3>3
  <2>7. RoundsInv' /\ CountInv'
    <3>1. Current' = ann' /\ Current = ann
      BY <1>1, <2>2 DEF Current
    <3>2. \A i \in Ids, m \in Minutes :
             \/ excuse' = excuse /\ Fresh(now', Current', i, m) <= Fresh(now, Current, i, m)
             \/ excuse' = excuse + 1 /\ now' = now
      BY <1>1, <2>1, <2>6, <3>1
    <3>3. now' \in Nat /\ now <= now' /\ excuse' \in Nat
      BY <1>1, <1>2, <2>1, <2>2
    <3>4. (\A i \in Ids : ann[i].st # "new" => ann'[i].st # "new") /\ up
      BY <2>2, <2>4
    <3> QED BY <1>1, <3>2, <3>3, <3>4, TableMove
  <2> QED BY <2>5, <2>7
<1> QED BY <1>3, <1>4

\* A round is started; a timer that starts one while the first round of a start
\* still runs has been counted as an excuse.
LEMMA StartingMoves ==
    ASSUME Typed, RoundsInv, CountInv, Tick \/ Start
    PROVE  Typed' /\ RoundsInv' /\ CountInv'
<1> DEFINE r == IF Tick THEN "tick" ELSE "boot"
           q == IF Tick THEN "boot" ELSE "tick"
           me2 == [round[r] EXCEPT !.pc = "remind"]
<1>1. /\ round' = [round EXCEPT ![r].pc = "remind"]
      /\ round[r].pc = "idle" /\ up'
      /\ UNCHANGED <<now, interval, beat, quiet, disk, manual, sends>>
      /\ r \in Rounds /\ q \in Rounds /\ r # q /\ Rounds = {r, q}
      /\ excuse' = excuse + 1 \/ (excuse' = excuse /\ round[q].pc = "idle")
  BY DEF Tick, Start, RoundFrame, RoundsInv, Rounds
<1>2. /\ ann' = Current /\ Current' = ann' /\ ann' \in [Ids -> Entry]
      /\ ann' = ann \/ round[q].pc = "idle"
  BY DEF Current, Typed, Tick, Start, RoundFrame, RoundsInv, Rounds
<1>3. now \in Nat /\ excuse \in Nat /\ excuse' \in Nat
  BY <1>1, Numbers DEF Typed
<1>4. Typed'
  <2>1. /\ up' \in BOOLEAN /\ remind' \in 0 .. Never
        /\ fires' \subseteq Log /\ IsFiniteSet(fires')
    BY DEF Typed, Tick, Start, RoundFrame
  <2> QED BY <1>1, <1>2, <1>3, <2>1 DEF Typed
<1> HIDE DEF r, q
<1>5. \A p \in Rounds : RoundOK(now, ann, round[p])
  BY DEF RoundsInv
<1>6. /\ me2 \in Slip /\ me2.pc = "remind" /\ me2.at = round[r].at /\ me2.todo = round[r].todo
  BY <1>1, <1>5 DEF RoundOK, Slip, Before
<1>7. round' = [round EXCEPT ![r] = me2]
  BY <1>1
<1> HIDE DEF me2
<1>8. round'[r] = me2 /\ round'[q] = round[q] /\ round' = [p \in Rounds |-> round'[p]]
  BY <1>1, <1>7 DEF RoundsInv
<1>9. RoundOK(now, ann', me2) /\ RoundOK(now, ann', round[q])
  BY <1>1, <1>2, <1>5, <1>6 DEF RoundOK, After
<1>10. RoundsInv'
  <2>1. \A p \in Rounds : RoundOK(now', ann', round'[p])
    BY <1>1, <1>8, <1>9
  <2>2. \A p \in Rounds : RoundOK(now, ann, round[p])'
    BY <2>1
  <2> QED BY <1>1, <1>8, <2>2 DEF RoundsInv
<1>11. ASSUME NEW i \in Ids, NEW m \in Minutes PROVE CountOf(i, m)'
  <2> DEFINE c == sends[<<i, m>>]
  <2>1. c \in Nat /\ c' = c
    BY <1>1 DEF Typed
  <2>2. Counted(now, Current, round["boot"], round["tick"], c, excuse, i, m)
    BY DEF CountInv, CountOf
  <2>3. Counted(now, Current, round[r], round[q], c, excuse, i, m)
    <3>1. (r = "boot" /\ q = "tick") \/ (r = "tick" /\ q = "boot")
      BY DEF r, q
    <3> QED BY <1>3, <2>1, <2>2, <3>1, Either
  <2> HIDE DEF c
  <2>4. Counted(now, Current, me2, round[q], c, excuse', i, m)
    <3>1. me2.pc \in Before
      BY <1>6 DEF Before
    <3> QED BY <1>1, <1>3, <2>1, <2>3, <3>1, RoundStarts
  <2>5. Counted(now', Current', round'[r], round'[q], c', excuse', i, m)
    BY <1>1, <1>2, <1>8, <2>1, <2>4
  <2>6. Counted(now', Current', round'["boot"], round'["tick"], c', excuse', i, m)
    <3>1. (r = "boot" /\ q = "tick") \/ (r = "tick" /\ q = "boot")
      BY DEF r, q
    <3>2. c' \in Nat
      BY <2>1
    <3> QED BY <1>3, <2>5, <3>1, <3>2, Either
  <2> QED BY <2>6 DEF CountOf, c
<1> QED BY <1>4, <1>10, <1>11 DEF CountInv

\* At most two rounds send, and each that sends i for m holds a claim on it.
LEMMA SendsUnderWay ==
    ASSUME NEW i, NEW m
    PROVE  LET out == {r \in Rounds : round[r].pc = "deliver" /\ <<i, m>> = <<round[r].cur, round[r].at>>}
               Out(r) == IF r \in out THEN 1 ELSE 0
           IN  Cardinality(out) = Out("boot") + Out("tick")
<1> DEFINE out == {r \in Rounds : round[r].pc = "deliver" /\ <<i, m>> = <<round[r].cur, round[r].at>>}
<1>1. out \subseteq {"boot", "tick"}
  BY DEF Rounds
<1> HIDE DEF out
<1>2. out = {} \/ out = {"boot"} \/ out = {"tick"} \/ out = {"boot", "tick"}
  BY <1>1
<1>3. Cardinality({}) = 0 /\ Cardinality({"boot"}) = 1 /\ Cardinality({"tick"}) = 1
  BY FS_EmptySet, FS_Singleton
<1>4. Cardinality({"boot", "tick"}) = 2
  <2>1. {"boot", "tick"} = {"boot"} \cup {"tick"} /\ "tick" \notin {"boot"}
    OBVIOUS
  <2>2. IsFiniteSet({"boot"})
    BY FS_Singleton
  <2>3. Cardinality({"boot"} \cup {"tick"}) = Cardinality({"boot"}) + 1
    BY <2>1, <2>2, FS_AddElement
  <2> QED BY <1>3, <2>1, <2>3
<1> DEFINE Out(r) == IF r \in out THEN 1 ELSE 0
<1>5. Cardinality(out) = Out("boot") + Out("tick")
  <2>1. CASE out = {}
    BY <1>3, <2>1
  <2>2. CASE out = {"boot"}
    BY <1>3, <2>2
  <2>3. CASE out = {"tick"}
    BY <1>3, <2>3
  <2>4. CASE out = {"boot", "tick"}
    BY <1>4, <2>4
  <2> QED BY <1>2, <2>1, <2>2, <2>3, <2>4
<1> QED BY <1>5 DEF out

\* A kill: what was being sent counts, what the rows lost is excused.
LEMMA CrashMoves ==
    ASSUME Typed, RoundsInv, CountInv, Crash
    PROVE  Typed' /\ RoundsInv' /\ CountInv'
<1>1. /\ up /\ up' = FALSE /\ beat' = FALSE
      /\ excuse' = IF Sending \/ disk'.ann # ann THEN excuse + 1 ELSE excuse
      /\ sends' = [x \in Ids \X Minutes |->
                    sends[x] + Cardinality({r \in Rounds : round[r].pc = "deliver"
                                                /\ x = <<round[r].cur, round[r].at>>})]
      /\ round' = [r \in Rounds |-> IdleRound]
      /\ manual' = [s \in Slots |-> IdleManual]
      /\ UNCHANGED <<now, interval, quiet, ann, fires, remind>>
  BY DEF Crash, memory
<1>2. now \in Nat /\ excuse \in Nat /\ excuse' \in Nat
  BY <1>1, Numbers DEF Typed
<1>3. /\ disk'.ann = ann \/ disk'.ann = disk.ann
      /\ disk'.fires = fires \/ disk'.fires = disk.fires
      /\ disk'.remind = remind \/ disk'.remind = disk.remind
      /\ disk' = [ann |-> disk'.ann, fires |-> disk'.fires, remind |-> disk'.remind]
  <2>1. PICK landed \in SUBSET DOMAIN Rows :
          disk' = [row \in DOMAIN Rows |-> IF row \in landed THEN Rows[row] ELSE disk[row]]
    BY DEF Crash
  <2>2. /\ DOMAIN Rows = {"ann", "fires", "remind"}
        /\ Rows.ann = ann /\ Rows.fires = fires /\ Rows.remind = remind
    BY DEF Rows
  <2> QED BY <2>1, <2>2
<1>4. ASSUME NEW i \in Ids, NEW m \in Minutes
      PROVE  /\ sends'[<<i, m>>] \in Nat
             /\ CountOf(i, m)'
  <2> DEFINE out == {r \in Rounds : round[r].pc = "deliver" /\ <<i, m>> = <<round[r].cur, round[r].at>>}
             Out(r) == IF r \in out THEN 1 ELSE 0
             c == sends[<<i, m>>]
             d == sends'[<<i, m>>]
             F == Fresh(now, ann, i, m)
             G == Fresh(now, disk'.ann, i, m)
             O == Owes(now, ann, round["boot"], i, m)
             P == Owes(now, ann, round["tick"], i, m)
             e2 == excuse'
  <2>1. d = c + Cardinality(out)
    BY <1>1
  <2>2. Cardinality(out) = Out("boot") + Out("tick")
    BY SendsUnderWay
  <2>3. c \in Nat /\ m \in Nat
    BY Numbers DEF Typed
  <2>4. d = c + Out("boot") + Out("tick") /\ Out("boot") \in {0, 1} /\ Out("tick") \in {0, 1}
    <3>1. Out("boot") \in {0, 1} /\ Out("tick") \in {0, 1}
      OBVIOUS
    <3> HIDE DEF Out, c, d, out
    <3> QED BY <2>1, <2>2, <2>3, <3>1
  <2>5. /\ F \in {0, 1} /\ G \in {0, 1} /\ O \in {0, 1} /\ P \in {0, 1}
    BY FreshBit
  <2>6. ASSUME NEW r \in Rounds, r \in out
        PROVE  Owes(now, ann, round[r], i, m) = 1 /\ Sending /\ m <= now
    <3>1. round[r].pc = "deliver" /\ round[r].cur = i /\ round[r].at = m
      BY <2>6
    <3>2. m <= now
      BY <3>1 DEF RoundsInv, RoundOK
    <3>3. Holds(round[r], i, m) /\ round[r].pc \in After
      BY <2>3, <3>1 DEF Holds, After
    <3> QED BY <3>1, <3>2, <3>3, FreshBit DEF Sending
  <2>7. "boot" \in Rounds /\ "tick" \in Rounds
    BY DEF Rounds
  <2>8. Out("boot") <= O /\ Out("tick") <= P
    BY <2>5, <2>6, <2>7
  <2>9. /\ m > now => Out("boot") = 0 /\ Out("tick") = 0
        /\ ~Sending => Out("boot") = 0 /\ Out("tick") = 0
    BY <1>2, <2>3, <2>6, <2>7
  <2>10. e2 = excuse + 1 \/ (e2 = excuse /\ ~Sending /\ G = F)
    BY <1>1
  <2>11. c + F <= 1 + excuse /\ c + O + P <= 1 + excuse /\ (m > now => c = 0)
    <3>1. Counted(now, ann, round["boot"], round["tick"], c, excuse, i, m)
      <4>1. Current = ann
        BY <1>1 DEF Current
      <4> QED BY <4>1 DEF CountInv, CountOf
    <3> QED BY <3>1 DEF Counted
  <2>12. d \in Nat /\ d + G <= 1 + e2 /\ d <= 1 + e2 /\ (m > now => d = 0)
    <3> HIDE DEF Out, c, d, F, G, O, P, e2, out
    <3>1. d \in Nat /\ (m > now => d = 0) /\ d <= c + O + P
      BY <2>3, <2>4, <2>5, <2>8, <2>9, <2>11
    <3>2. CASE e2 = excuse + 1
      BY <1>2, <2>3, <2>5, <2>11, <3>1, <3>2
    <3>3. CASE e2 = excuse /\ ~Sending /\ G = F
      BY <1>2, <2>3, <2>4, <2>5, <2>9, <2>11, <3>1, <3>3
    <3> QED BY <2>10, <3>1, <3>2, <3>3
  <2>13. Counted(now, disk'.ann, IdleRound, IdleRound, d, e2, i, m)
    <3>1. IdleRound.pc = "idle" /\ IdleRound.pc \notin Before
      BY DEF IdleRound, Before
    <3>2. Owes(now, disk'.ann, IdleRound, i, m) = 0
      BY <3>1, FreshBit
    <3> HIDE DEF d, e2
    <3> QED BY <2>12, <3>1, <3>2 DEF Counted, G
  <2>14. /\ Current' = disk'.ann /\ now' = now
         /\ round'["boot"] = IdleRound /\ round'["tick"] = IdleRound
    BY <1>1, <2>7 DEF Current
  <2>15. Counted(now', Current', round'["boot"], round'["tick"], d, e2, i, m)
    BY <2>13, <2>14
  <2> QED BY <2>12, <2>15 DEF CountOf
<1>5. RoundsInv'
  <2>1. \A r \in Rounds : round'[r] = IdleRound /\ RoundOK(now', ann', IdleRound)
    BY <1>1, <1>2, IdleOK
  <2>2. \A r \in Rounds : RoundOK(now, ann, round[r])'
    BY <2>1
  <2>3. \A s \in Slots : manual'[s].pc = "idle"
    BY <1>1 DEF IdleManual
  <2>4. \A r \in Rounds : round'[r].pc = "idle"
    BY <2>1, IdleOK
  <2>5. round' = [r \in Rounds |-> round'[r]]
    BY <1>1
  <2> QED BY <2>2, <2>3, <2>4, <2>5 DEF RoundsInv
<1>6. Typed'
  <2>1. IdleManual \in Errand /\ IdleManual.at = 0 /\ IdleManual.pc = "idle"
    BY Numbers DEF IdleManual, Errand
  <2>2. /\ manual' \in [Slots -> Errand]
        /\ \A s \in Slots : manual'[s].at <= now' /\ (manual'[s].pc = "deliver" => manual'[s].cur \in Ids)
    BY <1>1, <1>2, <2>1
  <2>3. sends' \in [Ids \X Minutes -> Nat]
    <3>1. \A x \in Ids \X Minutes : sends'[x] \in Nat
      <4> TAKE x \in Ids \X Minutes
      <4>1. PICK i \in Ids, m \in Minutes : x = <<i, m>>
        OBVIOUS
      <4> QED BY <1>4, <4>1
    <3> QED BY <1>1, <3>1
  <2>4. /\ disk'.ann \in [Ids -> Entry] /\ disk'.remind \in 0 .. Never
        /\ disk'.fires \subseteq Log /\ IsFiniteSet(disk'.fires)
    BY <1>3 DEF Typed
  <2>5. up' \in BOOLEAN /\ beat' \in BOOLEAN
    BY <1>1 DEF Crash
  <2> QED BY <1>1, <1>2, <1>3, <2>2, <2>3, <2>4, <2>5 DEF Typed
<1> QED BY <1>4, <1>5, <1>6 DEF CountInv

-----------------------------------------------------------------------------
\* The steps of a round, together.
LEMMA RoundsMove ==
    ASSUME Typed, RoundsInv, CountInv, NEW r \in Rounds, RoundStep(r)
    PROVE  /\ Typed' /\ RoundsInv' /\ CountInv'
           /\ \E me2 : Arrives(r, me2)
           /\ UNCHANGED <<up, now, lapses, manual, disk>>
           /\ \/ round[r].pc # "deliver" /\ UNCHANGED fires
              \/ round[r].pc = "deliver" /\ fires' = RecordFire(round[r].at)
<1>1. /\ UNCHANGED <<up, now, interval, quiet, disk, manual, lapses>>
      /\ remind' \in 0 .. Never /\ beat' \in BOOLEAN
      /\ \/ round[r].pc # "deliver" /\ UNCHANGED fires
         \/ round[r].pc = "deliver" /\ fires' = RecordFire(round[r].at)
  <2>1. remind \in 0 .. Never /\ beat \in BOOLEAN /\ Never \in 0 .. Never
    BY Numbers DEF Typed
  <2>2. (beat \/ (r = "boot" /\ interval)) \in BOOLEAN
    OBVIOUS
  <2>3. ASSUME NEW at, NEW todo, NEW t, NEW log, GoOn(r, at, todo, t, log)
        PROVE  beat' \in BOOLEAN
    BY <2>1, <2>2, <2>3 DEF GoOn
  <2>4. CASE RemindStep(r) \/ CastEnd(r)
    BY <2>1, <2>4 DEF RemindStep, CastEnd, RoundFrame
  <2>5. CASE AnnounceStart(r)
    BY <2>1, <2>3, <2>5 DEF AnnounceStart, RoundFrame
  <2>6. CASE DeliverEnd(r)
    BY <2>1, <2>3, <2>6 DEF DeliverEnd, RoundFrame
  <2>7. CASE TellEnd(r)
    BY <2>1, <2>3, <2>7 DEF TellEnd, RoundFrame
  <2> QED BY <2>4, <2>5, <2>6, <2>7 DEF RoundStep
<1>2. /\ RoundsInv' /\ CountInv' /\ ann' \in [Ids -> Entry]
      /\ sends' \in [Ids \X Minutes -> Nat] /\ excuse' \in Nat
      /\ \E me2 : Arrives(r, me2)
  <2>1. CASE RemindStep(r) \/ CastEnd(r)
    <3>1. PICK pc \in Before : round' = [round EXCEPT ![r].pc = pc]
      BY <2>1 DEF RemindStep, CastEnd, Before
    <3> DEFINE me2 == [round[r] EXCEPT !.pc = pc]
    <3>2. me2 \in Slip /\ me2.pc = pc
      BY DEF RoundsInv, RoundOK, Slip
    <3>3. round' = [round EXCEPT ![r] = me2]
      BY <3>1
    <3> HIDE DEF me2
    <3>4. Arrives(r, me2)
      BY <2>1, <3>2, <3>3 DEF Arrives, Before, After, RemindStep, CastEnd
    <3> QED BY <2>1, <3>4, WaitingMoves DEF RemindStep, CastEnd, Typed
  <2>2. CASE AnnounceStart(r)
    BY <2>2, ReadingMoves DEF AnnounceStart, Typed
  <2>3. CASE DeliverEnd(r)
    BY <2>3, DeliveryMoves
  <2>4. CASE TellEnd(r)
    BY <2>4, TellingMoves DEF TellEnd, Typed
  <2> QED BY <2>1, <2>2, <2>3, <2>4 DEF RoundStep
<1>3. fires' \subseteq Log /\ IsFiniteSet(fires')
  <2>1. round[r].at \in Minutes
    BY DEF RoundsInv, RoundOK, Slip
  <2> QED BY <1>1, <2>1, Recorded DEF Typed
<1>4. Typed'
  BY <1>1, <1>2, <1>3 DEF Typed
<1> QED BY <1>1, <1>2, <1>4

LEMMA CountInit ==
    ASSUME Init
    PROVE  Typed /\ RoundsInv /\ CountInv
<1>1. /\ up = FALSE /\ now = 0 /\ interval = TRUE /\ beat = FALSE /\ quiet = FALSE
      /\ fires = {} /\ remind = Never /\ excuse = 0
      /\ disk = [ann |-> ann, fires |-> {}, remind |-> Never]
      /\ round = [r \in Rounds |-> IdleRound]
      /\ manual = [s \in Slots |-> IdleManual]
      /\ sends = [x \in Ids \X Minutes |-> 0]
  BY DEF Init, Rows
<1>2. ann \in [Ids -> Entry]
  BY StoredTables DEF Init, Entry
<1>3. Typed
  <2>1. IdleManual \in Errand /\ IdleManual.at = 0 /\ IdleManual.pc = "idle" /\ 0 \in Nat /\ 0 <= 0
    BY Numbers DEF IdleManual, Errand
  <2>2. /\ manual \in [Slots -> Errand]
        /\ \A s \in Slots : manual[s].at <= now /\ (manual[s].pc = "deliver" => manual[s].cur \in Ids)
    BY <1>1, <2>1
  <2>3. IsFiniteSet({}) /\ {} \subseteq Log /\ Never \in 0 .. Never /\ 0 \in Minutes
    BY FS_EmptySet, Numbers
  <2>4. sends \in [Ids \X Minutes -> Nat]
    BY <1>1
  <2> QED BY <1>1, <1>2, <2>2, <2>3, <2>4 DEF Typed
<1>4. RoundsInv
  <2>1. \A r \in Rounds : round[r] = IdleRound /\ RoundOK(now, ann, IdleRound) /\ IdleRound.pc = "idle"
    BY <1>1, IdleOK
  <2>2. \A s \in Slots : manual[s].pc = "idle"
    BY <1>1 DEF IdleManual
  <2> QED BY <1>1, <2>1, <2>2 DEF RoundsInv
<1>5. ASSUME NEW i \in Ids, NEW m \in Minutes PROVE CountOf(i, m)
  <2>1. sends[<<i, m>>] = 0 /\ excuse = 0
    BY <1>1
  <2>2. round["boot"] = IdleRound /\ round["tick"] = IdleRound
    BY <1>1 DEF Rounds
  <2>3. /\ Fresh(now, Current, i, m) \in {0, 1} /\ Owes(now, Current, IdleRound, i, m) = 0
        /\ IdleRound.pc = "idle" /\ IdleRound.pc \notin Before
    BY FreshBit DEF IdleRound, Before
  <2> QED BY <2>1, <2>2, <2>3 DEF CountOf, Counted
<1> QED BY <1>3, <1>4, <1>5 DEF CountInv

LEMMA CountNext ==
    ASSUME Typed, RoundsInv, CountInv, [Next]_vars
    PROVE  Typed' /\ RoundsInv' /\ CountInv'
<1>1. CASE HandleAnnounce \/ AnnouncementRequest
  <2>1. CASE \E s \in Slots : SendTask(s)
    BY <2>1, ManualMoves DEF SendTask
  <2> QED BY <1>1, <2>1, EditsMove
             DEF HandleAnnounce, AnnouncementRequest, CreateTask, RemoveTask
<1>2. CASE Tick \/ Start
  BY <1>2, StartingMoves
<1>3. CASE \E r \in Rounds : RoundStep(r)
  BY <1>3, RoundsMove
<1>4. CASE \E s \in Slots : SendNow(s) \/ SendNowEnd(s)
  BY <1>4, ManualMoves
<1>5. CASE SetReminder \/ Silence \/ SetInterval \/ Drain \/ Minute
  BY <1>5, QuietMoves
<1>6. CASE Crash
  BY <1>6, CrashMoves
<1>7. CASE UNCHANGED vars
  <2>1. Typed'
    BY <1>7 DEF Typed, vars, memory
  <2>2. RoundsInv'
    BY <1>7 DEF RoundsInv, vars, memory
  <2>3. CountInv'
    BY <1>7 DEF CountInv, CountOf, Current, vars, memory
  <2> QED BY <2>1, <2>2, <2>3
<1> QED BY <1>1, <1>2, <1>3, <1>4, <1>5, <1>6, <1>7 DEF Next

-----------------------------------------------------------------------------
(***************************************************************************)
(* The limit of a group.  A send that is under way holds a place in the     *)
(* windows that will hold its record; a send is started only when the       *)
(* record leaves a place in all of them but for the other sends under way.  *)
(***************************************************************************)
Covers(at, m) == at <= m /\ m <= at + Window
Within(log, m) == {f \in log : Covers(f[1], m)}
RoundsOut(rs, m) == {r \in Rounds : rs[r].pc = "deliver" /\ Covers(rs[r].at, m)}
ManualOut(ms, m) == {s \in Slots : ms[s].pc = "deliver" /\ Covers(ms[s].at, m)}
Bound == Limit + Cardinality(Rounds) + NManual - 1

Under(log, rs, ms, m) ==
    Cardinality(Within(log, m)) + Cardinality(RoundsOut(rs, m)) + Cardinality(ManualOut(ms, m))
        <= Bound

LimitInv ==
    \A m \in Minutes : /\ Under(fires, round, manual, m)
                       /\ Cardinality(Within(disk.fires, m)) <= Bound

LEMMA Sizes ==
    ASSUME NEW log, IsFiniteSet(log), NEW rs, NEW ms, NEW m
    PROVE  /\ IsFiniteSet(Within(log, m)) /\ Cardinality(Within(log, m)) \in Nat
           /\ IsFiniteSet(RoundsOut(rs, m)) /\ Cardinality(RoundsOut(rs, m)) \in 0 .. 2
           /\ IsFiniteSet(ManualOut(ms, m)) /\ Cardinality(ManualOut(ms, m)) \in 0 .. NManual
           /\ Cardinality(Rounds) = 2 /\ NManual \in Nat /\ Limit \in Nat
<1>1. NManual \in Nat /\ Limit \in Nat
  BY Numbers
<1>2. IsFiniteSet(Slots) /\ Cardinality(Slots) = NManual
  BY <1>1, FS_Interval DEF Slots
<1>3. IsFiniteSet(Rounds) /\ Cardinality(Rounds) = 2
  <2>1. Rounds = {"boot"} \cup {"tick"} /\ "tick" \notin {"boot"}
    BY DEF Rounds
  <2>2. IsFiniteSet({"boot"}) /\ Cardinality({"boot"}) = 1
    BY FS_Singleton
  <2> QED BY <2>1, <2>2, FS_AddElement
<1>4. Within(log, m) \subseteq log /\ RoundsOut(rs, m) \subseteq Rounds /\ ManualOut(ms, m) \subseteq Slots
  BY DEF Within, RoundsOut, ManualOut
<1>5. IsFiniteSet(Within(log, m)) /\ Cardinality(Within(log, m)) \in Nat
  BY <1>4, FS_Subset, FS_CardinalityType
<1>6. /\ IsFiniteSet(RoundsOut(rs, m)) /\ Cardinality(RoundsOut(rs, m)) \in Nat
      /\ Cardinality(RoundsOut(rs, m)) <= 2
  BY <1>3, <1>4, FS_Subset, FS_CardinalityType
<1>7. /\ IsFiniteSet(ManualOut(ms, m)) /\ Cardinality(ManualOut(ms, m)) \in Nat
      /\ Cardinality(ManualOut(ms, m)) <= NManual
  BY <1>2, <1>4, FS_Subset, FS_CardinalityType
<1> QED BY <1>1, <1>3, <1>5, <1>6, <1>7

\* Where the limit was not reached, all that are under way find a place.
LEMMA RoomLeft ==
    ASSUME NEW log \in SUBSET Log, IsFiniteSet(log), NEW rs, NEW ms, NEW at \in Minutes, NEW m \in Minutes,
           Limit > 0, ~Limited(log, at), Covers(at, m)
    PROVE  Under(log, rs, ms, m)
<1> DEFINE since == FiresSince(log, at)
<1>1. Within(log, m) \subseteq since
  <2> SUFFICES ASSUME NEW f \in log, Covers(f[1], m) PROVE f[1] + Window >= at
    BY DEF Within, FiresSince
  <2>1. f[1] \in Nat /\ at \in Nat /\ m \in Nat /\ Window \in Nat
    BY Numbers DEF Log
  <2> QED BY <2>1 DEF Covers
<1>2. IsFiniteSet(since)
  <2>1. since \subseteq log
    BY DEF FiresSince
  <2> QED BY <2>1, FS_Subset
<1>3. Cardinality(since) < Limit \/ ~(Cardinality(since) \in Nat)
  BY Numbers DEF Limited
<1> HIDE DEF since
<1>4. Cardinality(Within(log, m)) <= Cardinality(since) /\ Cardinality(since) \in Nat
  BY <1>1, <1>2, FS_Subset, FS_CardinalityType
<1> DEFINE W == Cardinality(Within(log, m))
           R == Cardinality(RoundsOut(rs, m))
           M == Cardinality(ManualOut(ms, m))
           S == Cardinality(since)
<1>5. W \in Nat /\ R \in 0 .. 2 /\ M \in 0 .. NManual /\ Cardinality(Rounds) = 2
      /\ NManual \in Nat /\ Limit \in Nat
  BY Sizes
<1>6. W <= S /\ S \in Nat /\ S < Limit
  BY <1>3, <1>4
<1> HIDE DEF W, R, M, S
<1>7. W + R + M <= Limit + Cardinality(Rounds) + NManual - 1
  BY <1>5, <1>6
<1> QED BY <1>7 DEF Under, Bound, W, R, M

\* No more records, no more sends under way.
LEMMA FitsStill ==
    ASSUME NEW log, IsFiniteSet(log), NEW log2, IsFiniteSet(log2), NEW rs, NEW ms, NEW rs2, NEW ms2,
           NEW m, Under(log, rs, ms, m),
           Within(log2, m) \subseteq Within(log, m),
           RoundsOut(rs2, m) \subseteq RoundsOut(rs, m),
           ManualOut(ms2, m) \subseteq ManualOut(ms, m)
    PROVE  Under(log2, rs2, ms2, m)
<1> DEFINE W == Cardinality(Within(log, m))
           R == Cardinality(RoundsOut(rs, m))
           M == Cardinality(ManualOut(ms, m))
           W2 == Cardinality(Within(log2, m))
           R2 == Cardinality(RoundsOut(rs2, m))
           M2 == Cardinality(ManualOut(ms2, m))
<1>1. /\ IsFiniteSet(Within(log, m)) /\ IsFiniteSet(RoundsOut(rs, m)) /\ IsFiniteSet(ManualOut(ms, m))
      /\ W \in Nat /\ R \in Nat /\ M \in Nat /\ NManual \in Nat /\ Limit \in Nat
      /\ Cardinality(Rounds) = 2
  BY Sizes
<1>2. W2 \in Nat /\ R2 \in Nat /\ M2 \in Nat
  BY Sizes
<1>3. W2 <= W /\ R2 <= R /\ M2 <= M
  BY <1>1, FS_Subset
<1>4. W + R + M <= Bound /\ Bound \in Int
  BY <1>1 DEF Under, Bound
<1> HIDE DEF W, R, M, W2, R2, M2
<1>5. W2 + R2 + M2 <= Bound
  BY <1>1, <1>2, <1>3, <1>4
<1> QED BY <1>5 DEF Under, W2, R2, M2

\* One more record takes the place its send held.
LEMMA FitsInPlace ==
    ASSUME NEW log, IsFiniteSet(log), NEW log2, IsFiniteSet(log2), NEW rs, NEW ms, NEW rs2, NEW ms2,
           NEW m, Under(log, rs, ms, m),
           NEW f, Within(log2, m) \subseteq Within(log, m) \cup {f},
           RoundsOut(rs2, m) \subseteq RoundsOut(rs, m),
           ManualOut(ms2, m) \subseteq ManualOut(ms, m),
           \/ \E r \in RoundsOut(rs, m) : r \notin RoundsOut(rs2, m)
           \/ \E s \in ManualOut(ms, m) : s \notin ManualOut(ms2, m)
    PROVE  Under(log2, rs2, ms2, m)
<1> DEFINE W == Cardinality(Within(log, m))
           R == Cardinality(RoundsOut(rs, m))
           M == Cardinality(ManualOut(ms, m))
           W2 == Cardinality(Within(log2, m))
           R2 == Cardinality(RoundsOut(rs2, m))
           M2 == Cardinality(ManualOut(ms2, m))
<1>1. /\ IsFiniteSet(Within(log, m)) /\ IsFiniteSet(RoundsOut(rs, m)) /\ IsFiniteSet(ManualOut(ms, m))
      /\ W \in Nat /\ R \in Nat /\ M \in Nat /\ NManual \in Nat /\ Limit \in Nat
      /\ Cardinality(Rounds) = 2
  BY Sizes
<1>2. W2 \in Nat /\ R2 \in Nat /\ M2 \in Nat
  BY Sizes
<1>3. W2 <= W + 1
  <2> DEFINE More == Within(log, m) \cup {f}
  <2>1. IsFiniteSet(More) /\ (Cardinality(More) = W \/ Cardinality(More) = W + 1)
    BY <1>1, FS_AddElement
  <2> HIDE DEF W
  <2>2. W2 <= Cardinality(More)
    BY <2>1, FS_Subset
  <2> HIDE DEF W2, More
  <2> QED BY <1>1, <1>2, <2>1, <2>2
<1>4. R2 <= R /\ M2 <= M /\ (R2 # R \/ M2 # M)
  <2>1. R2 <= R /\ M2 <= M
    BY <1>1, FS_Subset
  <2>2. CASE \E r \in RoundsOut(rs, m) : r \notin RoundsOut(rs2, m)
    BY <1>1, <2>1, <2>2, FS_Subset
  <2>3. CASE \E s \in ManualOut(ms, m) : s \notin ManualOut(ms2, m)
    BY <1>1, <2>1, <2>3, FS_Subset
  <2> QED BY <2>1, <2>2, <2>3
<1>5. W + R + M <= Bound /\ Bound \in Int
  BY <1>1 DEF Under, Bound
<1> HIDE DEF W, R, M, W2, R2, M2
<1>6. W2 + R2 + M2 <= Bound
  BY <1>1, <1>2, <1>3, <1>4, <1>5
<1> QED BY <1>6 DEF Under, W2, R2, M2

\* The records a send leaves in a window when it is recorded.
LEMMA OneRecord ==
    ASSUME NEW at
    PROVE  \E f : \A m : /\ Covers(at, m) => Within(RecordFire(at), m) \subseteq Within(fires, m) \cup {f}
                         /\ ~Covers(at, m) => Within(RecordFire(at), m) \subseteq Within(fires, m)
<1> DEFINE f == <<at, 1 + Cardinality({g \in fires : g[1] = at})>>
<1>1. RecordFire(at) \subseteq fires \cup {f} /\ f[1] = at
  BY DEF RecordFire, OneMore
<1> HIDE DEF f
<1> QED BY <1>1 DEF Within

\* A round comes to its next await.
LEMMA LimitRound ==
    ASSUME Limit > 0, Typed, Typed', RoundsInv, LimitInv, NEW r \in Rounds, NEW me2, Arrives(r, me2),
           UNCHANGED <<manual, disk>>,
           \/ UNCHANGED fires
           \/ round[r].pc = "deliver" /\ fires' = RecordFire(round[r].at)
    PROVE  LimitInv'
<1>1. \A q \in Rounds : round'[q] = IF q = r THEN me2 ELSE round[q]
  BY DEF Arrives, RoundsInv
<1>2. /\ fires' \in SUBSET Log /\ IsFiniteSet(fires') /\ fires \in SUBSET Log /\ IsFiniteSet(fires)
  BY DEF Typed
<1>3. ASSUME NEW m \in Minutes PROVE Under(fires', round', manual', m)
  <2>1. Under(fires, round, manual, m) /\ manual' = manual
    BY DEF LimitInv
  <2>2. CASE me2.pc = "deliver" /\ Covers(me2.at, m)
    <3>1. me2.at \in Minutes /\ ~Limited(fires', me2.at)
      BY <2>2 DEF Arrives, Slip
    <3> QED BY <1>2, <2>2, <3>1, RoomLeft
  <2>3. CASE ~(me2.pc = "deliver" /\ Covers(me2.at, m))
    <3>1. RoundsOut(round', m) \subseteq RoundsOut(round, m) /\ r \notin RoundsOut(round', m)
      BY <1>1, <2>3 DEF RoundsOut
    <3>2. ManualOut(manual', m) \subseteq ManualOut(manual, m)
      BY <2>1
    <3>3. CASE Within(fires', m) \subseteq Within(fires, m)
      BY <1>2, <2>1, <3>1, <3>2, <3>3, FitsStill
    <3>4. CASE ~(Within(fires', m) \subseteq Within(fires, m))
      <4>1. fires' # fires
        BY <3>4
      <4>2. round[r].pc = "deliver" /\ fires' = RecordFire(round[r].at)
        BY <4>1
      <4>3. PICK f : /\ Covers(round[r].at, m) => Within(fires', m) \subseteq Within(fires, m) \cup {f}
                     /\ ~Covers(round[r].at, m) => Within(fires', m) \subseteq Within(fires, m)
        BY <4>2, OneRecord
      <4>4. r \in RoundsOut(round, m) /\ Within(fires', m) \subseteq Within(fires, m) \cup {f}
        BY <3>4, <4>2, <4>3 DEF RoundsOut
      <4> QED BY <1>2, <2>1, <3>1, <3>2, <4>4, FitsInPlace
    <3> QED BY <3>3, <3>4
  <2> QED BY <2>2, <2>3
<1> QED BY <1>3 DEF LimitInv

LEMMA LimitManual ==
    ASSUME Limit > 0, Typed, Typed', LimitInv, NEW s \in Slots, SendNow(s) \/ SendNowEnd(s)
    PROVE  LimitInv'
<1>1. /\ UNCHANGED <<round, disk>> /\ manual \in [Slots -> Errand]
      /\ fires' \in SUBSET Log /\ IsFiniteSet(fires') /\ fires \in SUBSET Log /\ IsFiniteSet(fires)
  BY DEF SendNow, SendNowEnd, ManualFrame, Typed
<1>2. ASSUME NEW m \in Minutes PROVE Under(fires', round', manual', m)
  <2>1. Under(fires, round, manual, m) /\ RoundsOut(round', m) \subseteq RoundsOut(round, m)
    BY <1>1 DEF LimitInv
  <2>2. CASE SendNow(s)
    <3>1. PICK i \in Ids : manual' = [manual EXCEPT ![s] = [pc |-> "deliver", at |-> now, cur |-> i]]
      BY <2>2 DEF SendNow
    <3>2. ~Limited(fires, now) /\ fires' = fires /\ now \in Minutes
      BY <2>2 DEF SendNow, Typed
    <3>3. CASE Covers(now, m)
      BY <1>1, <3>2, <3>3, RoomLeft
    <3>4. CASE ~Covers(now, m)
      <4>1. \A q \in Slots : q = s \/ manual'[q] = manual[q]
        BY <1>1, <3>1
      <4>2. manual'[s].at = now
        BY <1>1, <3>1
      <4>3. ManualOut(manual', m) \subseteq ManualOut(manual, m)
        BY <3>4, <4>1, <4>2 DEF ManualOut
      <4> QED BY <1>1, <2>1, <3>2, <4>3, FitsStill
    <3> QED BY <3>3, <3>4
  <2>3. CASE SendNowEnd(s)
    <3>1. /\ manual[s].pc = "deliver" /\ fires' = RecordFire(manual[s].at)
          /\ manual' = [manual EXCEPT ![s] = IdleManual]
      BY <2>3 DEF SendNowEnd
    <3>2. \A q \in Slots : manual'[q] = IF q = s THEN IdleManual ELSE manual[q]
      BY <1>1, <3>1
    <3>3. ManualOut(manual', m) \subseteq ManualOut(manual, m) /\ s \notin ManualOut(manual', m)
      BY <3>2 DEF ManualOut, IdleManual
    <3>4. PICK f : /\ Covers(manual[s].at, m) => Within(fires', m) \subseteq Within(fires, m) \cup {f}
                   /\ ~Covers(manual[s].at, m) => Within(fires', m) \subseteq Within(fires, m)
      BY <3>1, OneRecord
    <3>5. CASE ~Covers(manual[s].at, m)
      BY <1>1, <2>1, <3>3, <3>4, <3>5, FitsStill
    <3>6. CASE Covers(manual[s].at, m)
      <4>1. s \in ManualOut(manual, m)
        BY <3>1, <3>6 DEF ManualOut
      <4> QED BY <1>1, <2>1, <3>3, <3>4, <3>6, <4>1, FitsInPlace
    <3> QED BY <3>5, <3>6
  <2> QED BY <2>2, <2>3
<1> QED BY <1>1, <1>2 DEF LimitInv

\* Nothing is under way while the process is down, and none of the other steps
\* sends.
LEMMA LimitOthers ==
    ASSUME Typed, Typed', RoundsInv, RoundsInv', LimitInv,
           \/ UNCHANGED vars \/ Minute \/ Drain \/ Start \/ Crash
           \/ SetReminder \/ Silence \/ SetInterval \/ EditFrame
    PROVE  LimitInv'
<1>1. /\ fires' \in SUBSET Log /\ IsFiniteSet(fires') /\ fires \in SUBSET Log /\ IsFiniteSet(fires)
      /\ IsFiniteSet(disk.fires) /\ IsFiniteSet(disk'.fires)
  BY DEF Typed
<1>2. ASSUME NEW m \in Minutes
      PROVE  Under(fires', round', manual', m) /\ Cardinality(Within(disk'.fires, m)) <= Bound
  <2>1. Under(fires, round, manual, m) /\ Cardinality(Within(disk.fires, m)) <= Bound
    BY DEF LimitInv
  <2>2. Cardinality(Within(fires, m)) <= Bound
    <3> DEFINE W == Cardinality(Within(fires, m))
               R == Cardinality(RoundsOut(round, m))
               M == Cardinality(ManualOut(manual, m))
    <3>1. W \in Nat /\ R \in 0 .. 2 /\ M \in 0 .. NManual /\ NManual \in Nat /\ Limit \in Nat
          /\ Cardinality(Rounds) = 2
      BY <1>1, Sizes
    <3>2. W + R + M <= Bound /\ Bound \in Int
      BY <2>1, <3>1 DEF Under, Bound
    <3> HIDE DEF W, R, M
    <3>3. W <= Bound
      BY <3>1, <3>2
    <3> QED BY <3>3 DEF W
  <2>3. CASE UNCHANGED <<fires, round, manual>>
    <3>1. disk'.fires = disk.fires \/ disk'.fires = fires
      BY DEF vars, Minute, Drain, Rows, Start, Crash, SetReminder, Silence, SetInterval, EditFrame
    <3> QED BY <2>1, <2>2, <2>3, <3>1
  <2>4. CASE Start
    <3>1. disk' = disk /\ fires' = disk.fires
      BY <2>4 DEF Start
    <3>2. RoundsOut(round', m) = {} /\ ManualOut(manual', m) = {}
      <4>1. \A r \in Rounds : round'[r].pc # "deliver"
        BY <2>4 DEF Start, RoundsInv, RoundOK, Slip
      <4>2. \A s \in Slots : manual'[s].pc # "deliver"
        BY <2>4 DEF Start, RoundsInv
      <4> QED BY <4>1, <4>2 DEF RoundsOut, ManualOut
    <3>3. Cardinality(Within(fires', m)) \in Nat
      BY <1>1, Sizes
    <3>4. Under(fires', round', manual', m)
      BY <2>1, <3>1, <3>2, <3>3, FS_EmptySet DEF Under
    <3> QED BY <2>1, <3>1, <3>4
  <2>5. CASE Crash
    <3>1. /\ disk'.fires = fires \/ disk'.fires = disk.fires
          /\ fires' = fires
      <4>1. PICK landed \in SUBSET DOMAIN Rows :
              disk' = [row \in DOMAIN Rows |-> IF row \in landed THEN Rows[row] ELSE disk[row]]
        BY <2>5 DEF Crash
      <4>2. "fires" \in DOMAIN Rows /\ Rows.fires = fires
        BY DEF Rows
      <4> QED BY <2>5, <4>1, <4>2 DEF Crash, memory
    <3>2. RoundsOut(round', m) = {} /\ ManualOut(manual', m) = {}
      BY <2>5 DEF Crash, RoundsOut, ManualOut, IdleRound, IdleManual
    <3>3. Under(fires', round', manual', m)
      BY <2>1, <3>1, <3>2, <1>1, FitsStill
    <3> QED BY <2>1, <2>2, <3>1, <3>3
  <2> QED BY <2>3, <2>4, <2>5
          DEF vars, memory, Minute, Drain, SetReminder, Silence, SetInterval, EditFrame
<1> QED BY <1>2 DEF LimitInv

LEMMA LimitInit ==
    ASSUME Init
    PROVE  LimitInv
<1>1. fires = {} /\ disk.fires = {}
  BY DEF Init, Rows
<1>2. ASSUME NEW m \in Minutes
      PROVE  Under(fires, round, manual, m) /\ Cardinality(Within(disk.fires, m)) <= Bound
  <2>1. RoundsOut(round, m) = {} /\ ManualOut(manual, m) = {} /\ Within({}, m) = {}
    BY DEF Init, RoundsOut, ManualOut, IdleRound, IdleManual, Within
  <2>2. Cardinality({}) = 0 /\ Cardinality(Rounds) = 2 /\ NManual \in Nat /\ Limit \in Nat
    BY FS_EmptySet, Sizes
  <2> QED BY <1>1, <2>1, <2>2 DEF Under, Bound
<1> QED BY <1>2 DEF LimitInv

LEMMA LimitNext ==
    ASSUME Limit > 0, Typed, RoundsInv, CountInv, LimitInv, [Next]_vars
    PROVE  LimitInv'
<1>0. Typed' /\ RoundsInv'
  BY CountNext
<1>1. CASE \E s \in Slots : SendNow(s) \/ SendNowEnd(s)
  BY <1>0, <1>1, LimitManual
<1>2. CASE HandleAnnounce \/ AnnouncementRequest
  <2>1. CASE \E s \in Slots : SendTask(s)
    BY <1>1, <2>1 DEF SendTask
  <2>2. CASE EditFrame
    BY <1>0, <2>2, LimitOthers
  <2> QED BY <1>2, <2>1, <2>2
          DEF HandleAnnounce, AnnouncementRequest, CreateTask, RemoveTask, UpdateTask,
              UpdateAnnouncement, SetEnabled, CreateAnnouncement, Change, RemoveAnnouncement
<1>3. CASE Tick
  <2> DEFINE me2 == [round["tick"] EXCEPT !.pc = "remind"]
  <2>1. /\ round' = [round EXCEPT !["tick"] = me2] /\ "tick" \in Rounds
        /\ UNCHANGED <<manual, disk, fires, copies>>
    BY <1>3 DEF Tick, RoundFrame, Rounds
  <2>2. me2 \in Slip /\ me2.pc = "remind"
    BY <2>1 DEF RoundsInv, RoundOK, Slip, Before
  <2> HIDE DEF me2
  <2>3. Arrives("tick", me2)
    BY <2>1, <2>2 DEF Arrives, After
  <2> QED BY <1>0, <2>1, <2>3, LimitRound
<1>4. CASE \E r \in Rounds : RoundStep(r)
  BY <1>0, <1>4, RoundsMove, LimitRound
<1>5. CASE \/ UNCHANGED vars \/ Minute \/ Drain \/ Start \/ Crash
           \/ SetReminder \/ Silence \/ SetInterval
  BY <1>0, <1>5, LimitOthers
<1> QED BY <1>1, <1>2, <1>3, <1>4, <1>5 DEF Next

-----------------------------------------------------------------------------
(***************************************************************************)
(* The copies.  The log of a process that was not killed with sends on the  *)
(* way holds every copy of a window that a send may still be begun in, but  *)
(* for those under way: a record is dropped only a day later, and no send   *)
(* outlasts the log.  A kill may leave a window's worth of copies out of it. *)
(***************************************************************************)
Logged == IF up THEN fires ELSE disk.fires

\* The records of minute at, and of the windows it lies in, are still kept.
Timely(at) == now + Window <= at + Keep

\* The records of a minute are numbered from one without a gap.
Numbered(log) == \A f \in log : f[2] \in 1 .. Cardinality({g \in log : g[1] = f[1]})

Accounted(m) ==
    Cardinality(Within(copies, m))
        <= Cardinality(Within(Logged, m)) + Cardinality(RoundsOut(round, m))
              + Cardinality(ManualOut(manual, m)) + lapses * Bound

CopiesTyped == copies \subseteq Log /\ IsFiniteSet(copies) /\ lapses \in Nat
RecordsInv == Numbered(fires) /\ Numbered(disk.fires)
TimelyInv ==
    /\ \A r \in Rounds : round[r].pc \in After => Timely(round[r].at)
    /\ \A s \in Slots : manual[s].pc = "deliver" => Timely(manual[s].at)
AccountInv == \A m \in Minutes : Timely(m) => Accounted(m)
FloodInv == \A m \in Minutes : Cardinality(Within(copies, m)) <= (1 + lapses) * Bound

CopiesInv == CopiesTyped /\ RecordsInv /\ TimelyInv /\ AccountInv /\ FloodInv

\* The place of a new copy, or of a new record, in a window.
Place(at, m) == IF Covers(at, m) THEN 1 ELSE 0

LEMMA Times ==
    ASSUME NEW n \in Nat, NEW b \in Nat
    PROVE  /\ n * b \in Nat /\ (1 + n) * b = n * b + b /\ (n + 1) * b = n * b + b
           /\ (1 + (n + 1)) * b = n * b + b + b
OBVIOUS

LEMMA BoundIsNumber == Limit > 0 => Bound \in Nat
<1>1. IsFiniteSet({})
  BY FS_EmptySet
<1>2. Cardinality(Rounds) = 2 /\ NManual \in Nat /\ Limit \in Nat
  BY <1>1, Sizes
<1> QED BY <1>2 DEF Bound

\* A new copy takes no more than its place.
LEMMA CopyMade ==
    ASSUME CopiesTyped, NEW at \in Minutes
    PROVE  LET more == copies \cup {OneMore(copies, at)}
           IN  /\ more \subseteq Log /\ IsFiniteSet(more)
               /\ \A m \in Minutes : Cardinality(Within(more, m))
                                        <= Cardinality(Within(copies, m)) + Place(at, m)
<1> DEFINE f == OneMore(copies, at)
           more == copies \cup {f}
<1>1. f \in Log /\ f[1] = at
  <2> DEFINE same == {g \in copies : g[1] = at}
  <2>1. IsFiniteSet(same)
    BY FS_Subset DEF CopiesTyped
  <2> HIDE DEF same
  <2>2. 1 + Cardinality(same) \in Nat
    BY <2>1, FS_CardinalityType
  <2>3. f = <<at, 1 + Cardinality(same)>>
    BY DEF OneMore, same
  <2> HIDE DEF f
  <2> QED BY <2>2, <2>3 DEF Log
<1> HIDE DEF f
<1>2. more \subseteq Log /\ IsFiniteSet(more)
  BY <1>1, FS_AddElement DEF CopiesTyped
<1>3. ASSUME NEW m \in Minutes
      PROVE  Cardinality(Within(more, m)) <= Cardinality(Within(copies, m)) + Place(at, m)
  <2>1. IsFiniteSet(Within(copies, m)) /\ Cardinality(Within(copies, m)) \in Nat
    BY Sizes DEF CopiesTyped
  <2>2. CASE Covers(at, m)
    <3>1. Within(more, m) = Within(copies, m) \cup {f}
      BY <1>1, <2>2 DEF Within
    <3>2. /\ Cardinality(Within(copies, m) \cup {f}) = Cardinality(Within(copies, m))
          \/ Cardinality(Within(copies, m) \cup {f}) = Cardinality(Within(copies, m)) + 1
      BY <2>1, FS_AddElement
    <3>3. Cardinality(Within(more, m)) <= Cardinality(Within(copies, m)) + 1
      <4> HIDE DEF more
      <4> QED BY <2>1, <3>1, <3>2
    <3> QED BY <2>2, <3>3 DEF Place
  <2>3. CASE ~Covers(at, m)
    <3>1. Within(more, m) = Within(copies, m)
      BY <1>1, <2>3 DEF Within
    <3> QED BY <2>1, <2>3, <3>1 DEF Place
  <2> QED BY <2>2, <2>3
<1> QED BY <1>2, <1>3 DEF more, f

\* A new record takes a place of its own, and those dropped for it are of no
\* window a send may still be begun in.
LEMMA RecordMade ==
    ASSUME Typed, Numbered(fires), NEW at \in Minutes, at <= now
    PROVE  /\ Numbered(RecordFire(at))
           /\ \A m \in Minutes : Timely(m) =>
                 Cardinality(Within(fires, m)) + Place(at, m) <= Cardinality(Within(RecordFire(at), m))
<1> DEFINE old == {g \in fires : g[1] + Keep >= at}
           Same(log, n) == {g \in log : g[1] = n}
           k == Cardinality(Same(fires, at))
           f == <<at, 1 + k>>
           log == RecordFire(at)
<1>1. /\ fires \subseteq Log /\ IsFiniteSet(fires) /\ now \in Nat /\ at \in Nat
      /\ Keep \in Nat /\ Window \in Nat
  BY Numbers, ScheduleConstants DEF Typed
<1>2. \A n : IsFiniteSet(Same(fires, n)) /\ Cardinality(Same(fires, n)) \in Nat
  <2> TAKE n
  <2>1. Same(fires, n) \subseteq fires
    OBVIOUS
  <2> HIDE DEF Same
  <2> QED BY <1>1, <2>1, FS_Subset, FS_CardinalityType
<1>3. log = old \cup {f}
  BY DEF RecordFire, OneMore
<1>4. k \in Nat /\ IsFiniteSet(log)
  BY <1>2, Recorded
<1>5. f \notin fires /\ f[1] = at /\ f[2] = 1 + k
  <2>1. \A g \in fires : g[1] = at => g[2] <= k /\ g[2] \in Int
    <3> TAKE g \in fires
    <3>1. g[2] \in 1 .. Cardinality(Same(fires, g[1]))
      BY DEF Numbered
    <3> HIDE DEF Same
    <3> QED BY <1>4, <3>1
  <2> HIDE DEF k
  <2>2. f[1] = at /\ f[2] = 1 + k
    OBVIOUS
  <2> HIDE DEF f
  <2> QED BY <1>4, <2>1, <2>2
<1> HIDE DEF log, f
<1>6. Numbered(log)
  <2>1. Same(log, at) = Same(fires, at) \cup {f}
    <3>1. \A g \in Same(fires, at) : g \in old
      BY <1>1
    <3> QED BY <1>3, <1>5, <3>1
  <2>2. Cardinality(Same(log, at)) = k + 1
    <3>1. f \notin Same(fires, at)
      BY <1>5
    <3> HIDE DEF Same
    <3> QED BY <1>2, <2>1, <3>1, FS_AddElement DEF k
  <2> SUFFICES ASSUME NEW g \in log PROVE g[2] \in 1 .. Cardinality(Same(log, g[1]))
    BY DEF Numbered
  <2>3. CASE g = f
    <3> HIDE DEF Same, k
    <3> QED BY <1>4, <1>5, <2>2, <2>3
  <2>4. CASE g # f
    <3>1. g \in fires /\ g[1] + Keep >= at
      BY <1>3, <2>4
    <3>2. g[2] \in 1 .. Cardinality(Same(fires, g[1]))
      BY <3>1 DEF Numbered
    <3>3. CASE g[1] = at
      <4> HIDE DEF Same
      <4>1. g[2] \in 1 .. k
        BY <3>2, <3>3 DEF k
      <4> HIDE DEF k
      <4> QED BY <1>4, <2>2, <3>3, <4>1
    <3>4. CASE g[1] # at
      <4>1. Same(log, g[1]) = Same(fires, g[1])
        BY <1>3, <1>5, <3>1, <3>4
      <4> HIDE DEF Same
      <4> QED BY <3>2, <4>1
    <3> QED BY <3>3, <3>4
  <2> QED BY <2>3, <2>4
<1>7. ASSUME NEW m \in Minutes, Timely(m)
      PROVE  Cardinality(Within(fires, m)) + Place(at, m) <= Cardinality(Within(log, m))
  <2>1. Within(fires, m) \subseteq old
    <3> SUFFICES ASSUME NEW g \in fires, Covers(g[1], m) PROVE g[1] + Keep >= at
      BY DEF Within
    <3>1. g[1] \in Nat /\ m \in Nat
      BY <1>1, Numbers DEF Log
    <3>2. m <= g[1] + Window /\ now + Window <= m + Keep
      BY <1>7 DEF Covers, Timely
    <3> QED BY <1>1, <3>1, <3>2
  <2>2. IsFiniteSet(Within(fires, m)) /\ Cardinality(Within(fires, m)) \in Nat
    BY <1>1, Sizes
  <2>3. CASE Covers(at, m)
    <3>1. Within(log, m) = Within(fires, m) \cup {f}
      BY <1>3, <1>5, <2>1, <2>3 DEF Within
    <3>2. f \notin Within(fires, m)
      BY <1>5 DEF Within
    <3>3. Cardinality(Within(fires, m) \cup {f}) = Cardinality(Within(fires, m)) + 1
      BY <2>2, <3>2, FS_AddElement
    <3>4. Place(at, m) = 1
      BY <2>3 DEF Place
    <3> QED BY <2>2, <3>1, <3>3, <3>4
  <2>4. CASE ~Covers(at, m)
    <3>1. Within(log, m) = Within(fires, m)
      BY <1>3, <1>5, <2>1, <2>4 DEF Within
    <3> QED BY <2>2, <2>4, <3>1 DEF Place
  <2> QED BY <2>3, <2>4
<1> QED BY <1>6, <1>7 DEF log

\* What is under way, with one of the senders set apart.
LEMMA Apart ==
    ASSUME NEW S, IsFiniteSet(S), NEW x
    PROVE  /\ Cardinality(S) \in Nat /\ Cardinality(S \ {x}) \in Nat
           /\ Cardinality(S) = Cardinality(S \ {x}) + (IF x \in S THEN 1 ELSE 0)
<1>1. IsFiniteSet(S \ {x}) /\ Cardinality(S) \in Nat /\ Cardinality(S \ {x}) \in Nat
  BY FS_Subset, FS_CardinalityType
<1>2. CASE x \in S
  <2>1. S = (S \ {x}) \cup {x} /\ x \notin S \ {x}
    BY <1>2
  <2>2. Cardinality((S \ {x}) \cup {x}) = Cardinality(S \ {x}) + 1
    BY <1>1, <2>1, FS_AddElement
  <2> QED BY <1>1, <1>2, <2>1, <2>2
<1>3. CASE x \notin S
  <2>1. S \ {x} = S
    BY <1>3
  <2>2. Cardinality(S \ {x}) = Cardinality(S)
    BY <2>1
  <2> QED BY <1>1, <1>3, <2>2
<1> QED BY <1>2, <1>3

\* A window holds no more than its limit allows for once, and for every lapse:
\* the log and the sends under way are within it, and where a send can no longer
\* be begun no copy is added.
LEMMA FloodStill ==
    ASSUME Limit > 0, Typed', RoundsInv', LimitInv', CopiesInv, CopiesTyped', AccountInv',
           lapses' = lapses \/ lapses' = lapses + 1,
           \A m \in Minutes : Timely(m)' \/ Within(copies', m) = Within(copies, m)
    PROVE  FloodInv'
<1> SUFFICES ASSUME NEW m \in Minutes
             PROVE  Cardinality(Within(copies', m)) <= (1 + lapses') * Bound
  BY DEF FloodInv, Bound, Within, Covers
<1> DEFINE C == Cardinality(Within(copies, m))
           D == Cardinality(Within(copies', m))
           L == Cardinality(Within(Logged', m))
           R == Cardinality(RoundsOut(round', m))
           M == Cardinality(ManualOut(manual', m))
           P == lapses * Bound
           Q == lapses' * Bound
<1>1. /\ lapses \in Nat /\ lapses' \in Nat /\ Bound \in Nat
      /\ IsFiniteSet(copies) /\ IsFiniteSet(copies')
  BY BoundIsNumber DEF CopiesInv, CopiesTyped
<1>2. P \in Nat /\ Q \in Nat /\ (1 + lapses) * Bound = P + Bound /\ (1 + lapses') * Bound = Q + Bound
      /\ (Q = P \/ Q = P + Bound)
  <2>1. \A n \in Nat : n * Bound \in Nat /\ (1 + n) * Bound = n * Bound + Bound
                       /\ (n + 1) * Bound = n * Bound + Bound
    BY <1>1, Times
  <2> QED BY <1>1, <2>1
<1>3. C \in Nat /\ D \in Nat
  BY <1>1, Sizes
<1>4. IsFiniteSet(Logged')
  BY DEF Logged, Typed
<1>5. L \in Nat /\ R \in 0 .. 2 /\ M \in 0 .. NManual /\ NManual \in Nat
  BY <1>4, Sizes
<1>6. L + R + M <= Bound
  <2>1. CASE up'
    BY <2>1 DEF LimitInv, Under, Logged
  <2>2. CASE ~up'
    <3>1. RoundsOut(round', m) = {} /\ ManualOut(manual', m) = {}
      BY <2>2 DEF RoundsInv, RoundsOut, ManualOut
    <3>2. R = 0 /\ M = 0
      BY <3>1, FS_EmptySet
    <3>3. L <= Bound
      BY <2>2 DEF LimitInv, Logged
    <3> HIDE DEF L, R, M
    <3> QED BY <1>1, <1>5, <3>2, <3>3
  <2> QED BY <2>1, <2>2
<1>7. CASE Timely(m)'
  <2>1. D <= L + R + M + Q
    BY <1>7 DEF AccountInv, Accounted, Bound, Within, Covers, RoundsOut, ManualOut
  <2> HIDE DEF D, L, R, M, Q, P
  <2> QED BY <1>1, <1>2, <1>3, <1>5, <1>6, <2>1 DEF D, Q
<1>8. CASE Within(copies', m) = Within(copies, m)
  <2>1. D = C /\ C <= P + Bound
    BY <1>2, <1>8 DEF CopiesInv, FloodInv
  <2>2. D <= Q + Bound
    <3> HIDE DEF D, C, Q, P
    <3> QED BY <1>1, <1>2, <1>3, <2>1
  <2> QED BY <1>2, <2>2
<1> QED BY <1>7, <1>8

\* A round comes to its next await: what it recorded, no longer under way, is in
\* the log, and the copy it makes is under way.
LEMMA CopiesRound ==
    ASSUME Limit > 0, Typed, Typed', RoundsInv, RoundsInv', LimitInv', CopiesInv, up,
           NEW r \in Rounds, NEW me2, Arrives(r, me2),
           UNCHANGED <<up, now, lapses, manual, disk>>,
           \/ round[r].pc # "deliver" /\ UNCHANGED fires
           \/ round[r].pc = "deliver" /\ fires' = RecordFire(round[r].at)
    PROVE  CopiesInv'
<1>1. \A q \in Rounds : round'[q] = IF q = r THEN me2 ELSE round[q]
  BY DEF Arrives, RoundsInv
<1>2. now \in Nat /\ Window \in Nat /\ Keep \in Nat /\ Window <= Keep /\ lapses \in Nat /\ Bound \in Nat
  BY Numbers, ScheduleConstants, BoundIsNumber DEF Typed, CopiesInv, CopiesTyped
<1>3. me2.at \in Minutes /\ me2.at \in Nat
  BY Numbers DEF Arrives, Slip
<1>4. me2.pc \in After => Timely(me2.at)
  BY <1>2 DEF Arrives, Timely, CopiesInv, TimelyInv
<1>5. CopiesTyped'
  <2>1. CASE me2.pc = "deliver"
    BY <1>3, <2>1, CopyMade DEF Arrives, CopiesInv, CopiesTyped
  <2>2. CASE me2.pc # "deliver"
    BY <2>2 DEF Arrives, CopiesInv, CopiesTyped
  <2> QED BY <2>1, <2>2
<1>6. ASSUME round[r].pc = "deliver"
      PROVE  round[r].at \in Minutes /\ round[r].at <= now /\ fires' = RecordFire(round[r].at)
  BY <1>6 DEF RoundsInv, RoundOK, Slip
<1>7. RecordsInv'
  <2>1. Numbered(fires')
    BY <1>6, RecordMade DEF CopiesInv, RecordsInv
  <2> QED BY <2>1 DEF CopiesInv, RecordsInv, Numbered
<1>8. TimelyInv'
  BY <1>1, <1>4 DEF CopiesInv, TimelyInv, Timely
<1>9. ASSUME NEW m \in Minutes, Timely(m)
      PROVE  Accounted(m)'
  <2> DEFINE C == Cardinality(Within(copies, m))
             D == Cardinality(Within(copies', m))
             W == Cardinality(Within(fires, m))
             V == Cardinality(Within(fires', m))
             R == Cardinality(RoundsOut(round, m))
             S == Cardinality(RoundsOut(round', m))
             K == Cardinality(RoundsOut(round, m) \ {r})
             M == Cardinality(ManualOut(manual, m))
             P == lapses * Bound
             a == IF r \in RoundsOut(round, m) THEN 1 ELSE 0
             b == IF r \in RoundsOut(round', m) THEN 1 ELSE 0
  <2>1. /\ C \in Nat /\ D \in Nat /\ W \in Nat /\ V \in Nat /\ M \in Nat
        /\ IsFiniteSet(RoundsOut(round, m)) /\ IsFiniteSet(RoundsOut(round', m))
    <3>1. /\ IsFiniteSet(copies) /\ IsFiniteSet(copies')
          /\ IsFiniteSet(fires) /\ IsFiniteSet(fires')
      BY <1>5 DEF Typed, CopiesInv, CopiesTyped
    <3>2. \A log : IsFiniteSet(log) => Cardinality(Within(log, m)) \in Nat
      BY Sizes
    <3>3. M \in Nat /\ IsFiniteSet(RoundsOut(round, m)) /\ IsFiniteSet(RoundsOut(round', m))
      BY <3>1, Sizes
    <3> HIDE DEF M
    <3> QED BY <3>1, <3>2, <3>3
  <2>2. RoundsOut(round, m) \ {r} = RoundsOut(round', m) \ {r}
    BY <1>1 DEF RoundsOut
  <2>3. R = K + a /\ S = K + b /\ K \in Nat /\ R \in Nat /\ S \in Nat
    BY <2>1, <2>2, Apart
  <2>4. W + a <= V
    <3>1. CASE round[r].pc = "deliver"
      <4>1. a = Place(round[r].at, m)
        BY <3>1 DEF Place, RoundsOut
      <4>2. Cardinality(Within(fires, m)) + Place(round[r].at, m) <= V
        BY <1>6, <1>9, <3>1, RecordMade DEF CopiesInv, RecordsInv
      <4> HIDE DEF a, V
      <4> QED BY <4>1, <4>2
    <3>2. CASE round[r].pc # "deliver"
      <4>1. a = 0 /\ V = W
        BY <3>2 DEF RoundsOut
      <4> HIDE DEF a, V, W
      <4> QED BY <2>1, <4>1
    <3> QED BY <3>1, <3>2
  <2>5. D <= C + b
    <3>1. CASE me2.pc = "deliver"
      <4>1. b = Place(me2.at, m)
        BY <1>1, <3>1 DEF Place, RoundsOut
      <4>2. copies' = copies \cup {OneMore(copies, me2.at)}
        BY <3>1 DEF Arrives
      <4>3. D <= Cardinality(Within(copies, m)) + Place(me2.at, m)
        BY <1>3, <4>2, CopyMade DEF CopiesInv
      <4> HIDE DEF b, D
      <4> QED BY <4>1, <4>3
    <3>2. CASE me2.pc # "deliver"
      <4>1. b = 0 /\ D = C
        BY <1>1, <3>2 DEF RoundsOut, Arrives
      <4> HIDE DEF b, C, D
      <4> QED BY <2>1, <4>1
    <3> QED BY <3>1, <3>2
  <2>6. C <= W + R + M + P
    BY <1>9 DEF CopiesInv, AccountInv, Accounted, Logged
  <2>7. P \in Nat /\ a \in {0, 1} /\ b \in {0, 1}
    BY <1>2, Times
  <2>8. D <= V + S + M + P
    <3> HIDE DEF C, D, W, V, R, S, K, M, P, a, b
    <3> QED BY <2>1, <2>3, <2>4, <2>5, <2>6, <2>7
  <2>9. /\ Logged' = fires' /\ manual' = manual /\ lapses' = lapses
    BY DEF Logged
  <2> QED BY <2>8, <2>9 DEF Accounted, Bound, Within, Covers, RoundsOut, ManualOut
<1>10. AccountInv'
  BY <1>9 DEF AccountInv, Timely
<1>11. ASSUME NEW m \in Minutes
       PROVE  Timely(m)' \/ Within(copies', m) = Within(copies, m)
  <2>1. CASE me2.pc = "deliver" /\ Covers(me2.at, m)
    <3>1. Timely(me2.at) /\ me2.at <= m /\ m \in Nat
      BY <1>4, <2>1, Numbers DEF After, Covers
    <3>2. Timely(m)
      BY <1>2, <1>3, <3>1 DEF Timely
    <3> QED BY <3>2 DEF Timely
  <2>2. CASE me2.pc = "deliver" /\ ~Covers(me2.at, m)
    <3>1. copies' = copies \cup {OneMore(copies, me2.at)} /\ OneMore(copies, me2.at)[1] = me2.at
      BY <2>2 DEF Arrives, OneMore
    <3> QED BY <2>2, <3>1 DEF Within
  <2>3. CASE me2.pc # "deliver"
    BY <2>3 DEF Arrives
  <2> QED BY <2>1, <2>2, <2>3
<1>12. FloodInv'
  BY <1>5, <1>10, <1>11, FloodStill
<1> QED BY <1>5, <1>7, <1>8, <1>10, <1>12 DEF CopiesInv

\* "Send now" is counted in the same way.
LEMMA CopiesManual ==
    ASSUME Limit > 0, Typed, Typed', RoundsInv, RoundsInv', LimitInv', CopiesInv,
           NEW s \in Slots, SendNow(s) \/ SendNowEnd(s)
    PROVE  CopiesInv'
<1>1. UNCHANGED <<up, now, lapses, round, disk>> /\ manual \in [Slots -> Errand] /\ up
  BY DEF SendNow, SendNowEnd, ManualFrame, Typed, RoundsInv
<1>2. now \in Nat /\ Window \in Nat /\ Keep \in Nat /\ Window <= Keep /\ lapses \in Nat
      /\ Bound \in Nat /\ now \in Minutes
  BY Numbers, ScheduleConstants, BoundIsNumber DEF Typed, CopiesInv, CopiesTyped
<1>3. PICK me2 :
        /\ \A q \in Slots : manual'[q] = IF q = s THEN me2 ELSE manual[q]
        /\ \/ /\ me2.pc = "deliver" /\ me2.at = now
              /\ copies' = copies \cup {OneMore(copies, now)}
              /\ manual[s].pc # "deliver" /\ fires' = fires
           \/ /\ me2.pc # "deliver" /\ copies' = copies
              /\ manual[s].pc = "deliver" /\ fires' = RecordFire(manual[s].at)
  <2>1. CASE SendNow(s)
    <3>1. PICK i \in Ids : manual' = [manual EXCEPT ![s] = [pc |-> "deliver", at |-> now, cur |-> i]]
      BY <2>1 DEF SendNow
    <3> DEFINE x == [pc |-> "deliver", at |-> now, cur |-> i]
    <3>2. x.pc = "deliver" /\ x.at = now
      OBVIOUS
    <3>3. \A q \in Slots : manual'[q] = IF q = s THEN x ELSE manual[q]
      BY <1>1, <3>1
    <3>4. manual[s].pc # "deliver"
      BY <2>1 DEF SendNow, IdleManual
    <3> HIDE DEF x
    <3> QED BY <2>1, <3>2, <3>3, <3>4 DEF SendNow
  <2>2. CASE SendNowEnd(s)
    <3>1. \A q \in Slots : manual'[q] = IF q = s THEN IdleManual ELSE manual[q]
      BY <1>1, <2>2 DEF SendNowEnd
    <3>2. IdleManual.pc # "deliver"
      BY DEF IdleManual
    <3> QED BY <2>2, <3>1, <3>2 DEF SendNowEnd
  <2> QED BY <2>1, <2>2
<1>4. CopiesTyped'
  <2>1. CASE me2.pc = "deliver"
    BY <1>1, <1>2, <1>3, <2>1, CopyMade DEF CopiesInv, CopiesTyped
  <2>2. CASE me2.pc # "deliver"
    BY <1>1, <1>3, <2>2 DEF CopiesInv, CopiesTyped
  <2> QED BY <2>1, <2>2
<1>5. ASSUME manual[s].pc = "deliver"
      PROVE  manual[s].at \in Minutes /\ manual[s].at <= now /\ fires' = RecordFire(manual[s].at)
  BY <1>1, <1>3, <1>5 DEF Typed, Errand
<1>6. RecordsInv'
  <2>1. Numbered(fires')
    BY <1>3, <1>5, RecordMade DEF CopiesInv, RecordsInv
  <2> QED BY <1>1, <2>1 DEF CopiesInv, RecordsInv, Numbered
<1>7. TimelyInv'
  BY <1>1, <1>2, <1>3 DEF CopiesInv, TimelyInv, Timely
<1>8. ASSUME NEW m \in Minutes, Timely(m)
      PROVE  Accounted(m)'
  <2> DEFINE C == Cardinality(Within(copies, m))
             D == Cardinality(Within(copies', m))
             W == Cardinality(Within(fires, m))
             V == Cardinality(Within(fires', m))
             R == Cardinality(RoundsOut(round, m))
             M == Cardinality(ManualOut(manual, m))
             N == Cardinality(ManualOut(manual', m))
             K == Cardinality(ManualOut(manual, m) \ {s})
             P == lapses * Bound
             a == IF s \in ManualOut(manual, m) THEN 1 ELSE 0
             b == IF s \in ManualOut(manual', m) THEN 1 ELSE 0
  <2>1. /\ C \in Nat /\ D \in Nat /\ W \in Nat /\ V \in Nat /\ R \in Nat
        /\ IsFiniteSet(ManualOut(manual, m)) /\ IsFiniteSet(ManualOut(manual', m))
    <3>1. /\ IsFiniteSet(copies) /\ IsFiniteSet(copies')
          /\ IsFiniteSet(fires) /\ IsFiniteSet(fires')
      BY <1>4 DEF Typed, CopiesInv, CopiesTyped
    <3>2. \A log : IsFiniteSet(log) => Cardinality(Within(log, m)) \in Nat
      BY Sizes
    <3>3. R \in Nat /\ IsFiniteSet(ManualOut(manual, m)) /\ IsFiniteSet(ManualOut(manual', m))
      BY <3>1, Sizes
    <3> HIDE DEF R
    <3> QED BY <3>1, <3>2, <3>3
  <2>2. ManualOut(manual, m) \ {s} = ManualOut(manual', m) \ {s}
    BY <1>3 DEF ManualOut
  <2>3. M = K + a /\ N = K + b /\ K \in Nat /\ M \in Nat /\ N \in Nat
    BY <2>1, <2>2, Apart
  <2>4. W + a <= V
    <3>1. CASE manual[s].pc = "deliver"
      <4>1. a = Place(manual[s].at, m)
        BY <3>1 DEF Place, ManualOut
      <4>2. Cardinality(Within(fires, m)) + Place(manual[s].at, m) <= V
        BY <1>5, <1>8, <3>1, RecordMade DEF CopiesInv, RecordsInv
      <4> HIDE DEF a, V
      <4> QED BY <4>1, <4>2
    <3>2. CASE manual[s].pc # "deliver"
      <4>1. a = 0 /\ V = W
        BY <1>3, <3>2 DEF ManualOut
      <4> HIDE DEF a, V, W
      <4> QED BY <2>1, <4>1
    <3> QED BY <3>1, <3>2
  <2>5. D <= C + b
    <3>1. CASE me2.pc = "deliver"
      <4>1. b = Place(now, m)
        BY <1>3, <3>1 DEF Place, ManualOut
      <4>2. copies' = copies \cup {OneMore(copies, now)}
        BY <1>3, <3>1
      <4>3. D <= Cardinality(Within(copies, m)) + Place(now, m)
        BY <1>2, <4>2, CopyMade DEF CopiesInv
      <4> HIDE DEF b, D
      <4> QED BY <4>1, <4>3
    <3>2. CASE me2.pc # "deliver"
      <4>1. b = 0 /\ D = C
        BY <1>3, <3>2 DEF ManualOut
      <4> HIDE DEF b, C, D
      <4> QED BY <2>1, <4>1
    <3> QED BY <3>1, <3>2
  <2>6. C <= W + R + M + P
    BY <1>1, <1>8 DEF CopiesInv, AccountInv, Accounted, Logged
  <2>7. P \in Nat /\ a \in {0, 1} /\ b \in {0, 1}
    BY <1>2, Times
  <2>8. D <= V + R + N + P
    <3> HIDE DEF C, D, W, V, R, M, N, K, P, a, b
    <3> QED BY <2>1, <2>3, <2>4, <2>5, <2>6, <2>7
  <2>9. /\ Logged' = fires' /\ round' = round /\ lapses' = lapses
    BY <1>1 DEF Logged
  <2> QED BY <2>8, <2>9 DEF Accounted, Bound, Within, Covers, RoundsOut, ManualOut
<1>9. AccountInv'
  BY <1>1, <1>8 DEF AccountInv, Timely
<1>10. ASSUME NEW m \in Minutes
       PROVE  Timely(m)' \/ Within(copies', m) = Within(copies, m)
  <2>1. CASE me2.pc = "deliver" /\ Covers(now, m)
    BY <1>1, <1>2, <2>1, Numbers DEF Covers, Timely
  <2>2. CASE me2.pc = "deliver" /\ ~Covers(now, m)
    <3>1. copies' = copies \cup {OneMore(copies, now)} /\ OneMore(copies, now)[1] = now
      BY <1>3, <2>2 DEF OneMore
    <3> QED BY <2>2, <3>1 DEF Within
  <2>3. CASE me2.pc # "deliver"
    BY <1>3, <2>3
  <2> QED BY <2>1, <2>2, <2>3
<1>11. FloodInv'
  BY <1>1, <1>4, <1>9, <1>10, FloodStill
<1> QED BY <1>4, <1>6, <1>7, <1>9, <1>11 DEF CopiesInv

\* The clock goes on, the rows are written, the process starts or an edit is
\* made: no copy, no record and no send under way.
LEMMA CopiesOthers ==
    ASSUME Limit > 0, Typed, Typed', RoundsInv, RoundsInv', LimitInv', CopiesInv,
           \/ UNCHANGED vars \/ Minute \/ Drain \/ Start
           \/ SetReminder \/ Silence \/ SetInterval \/ EditFrame
    PROVE  CopiesInv'
<1>1. /\ UNCHANGED <<copies, lapses, manual>> /\ Logged' = Logged
      /\ \A r \in Rounds : round'[r].pc \in After => round'[r] = round[r]
      /\ \A r \in Rounds : round[r].pc = "deliver" \/ round'[r].pc = "deliver"
                              => round'[r] = round[r]
  <2>1. CASE Start
    <3>1. \A r \in Rounds : round'[r].pc \in {"idle", "remind"} /\ round[r].pc = "idle"
      BY <2>1 DEF Start, RoundsInv, RoundOK, Slip
    <3> QED BY <2>1, <3>1 DEF Start, Logged, After
  <2>2. CASE ~Start
    <3>1. UNCHANGED <<copies, lapses, manual, round, up, fires>>
      BY <2>2 DEF vars, memory, Minute, Drain, SetReminder, Silence, SetInterval, EditFrame
    <3>2. up \/ disk' = disk
      BY <2>2 DEF vars, memory, Minute, Drain, SetReminder, Silence, SetInterval, EditFrame
    <3> QED BY <3>1, <3>2 DEF Logged, Typed
  <2> QED BY <2>1, <2>2
<1>2. CopiesTyped'
  BY <1>1 DEF CopiesInv, CopiesTyped
<1>3. RecordsInv'
  <2>1. /\ fires' = fires \/ fires' = disk.fires
        /\ disk'.fires = fires \/ disk'.fires = disk.fires
    BY DEF vars, memory, Minute, Drain, Rows, Start, SetReminder, Silence, SetInterval, EditFrame
  <2> QED BY <2>1 DEF CopiesInv, RecordsInv, Numbered
<1>4. /\ now \in Nat /\ now' \in Nat /\ now <= now' /\ Window \in Nat /\ Keep \in Nat
  <2>1. now' = now \/ now' = now + 1
    BY DEF vars, memory, Minute, Drain, Start, SetReminder, Silence, SetInterval, EditFrame
  <2> QED BY <2>1, Numbers, ScheduleConstants DEF Typed
<1>5. \A m \in Minutes : Timely(m)' => Timely(m)
  <2>1. ASSUME NEW m \in Nat, NEW n \in Nat, NEW k \in Nat, NEW w \in Nat, NEW d \in Nat,
               n <= k, k + w <= m + d
        PROVE  n + w <= m + d
    BY <2>1
  <2>2. \A m \in Minutes : m \in Nat
    BY Numbers
  <2>3. \A m \in Minutes : now' + Window <= m + Keep => now + Window <= m + Keep
    BY <1>4, <2>1, <2>2
  <2> QED BY <2>3 DEF Timely
<1>6. TimelyInv'
  <2>1. CASE Minute
    <3>1. \A r \in Rounds : round'[r].pc \in After => now' + Window <= round'[r].at + Keep
      BY <2>1 DEF Minute, InTime, After
    <3>2. \A s \in Slots : manual'[s].pc = "deliver" => now' + Window <= manual'[s].at + Keep
      BY <2>1 DEF Minute, InTime
    <3> QED BY <3>1, <3>2 DEF TimelyInv, Timely
  <2>2. CASE ~Minute
    <3>1. now' = now
      BY <2>2 DEF vars, memory, Minute, Drain, Start, SetReminder, Silence, SetInterval, EditFrame
    <3> QED BY <1>1, <3>1 DEF CopiesInv, TimelyInv, Timely
  <2> QED BY <2>1, <2>2
<1>7. ASSUME NEW m \in Minutes, Timely(m)'
      PROVE  Accounted(m)'
  <2>1. RoundsOut(round', m) = RoundsOut(round, m)
    <3>1. \A r \in Rounds : round'[r].pc = "deliver" <=> round[r].pc = "deliver"
      BY <1>1
    <3>2. \A r \in Rounds : round[r].pc = "deliver" => round'[r].at = round[r].at
      BY <1>1
    <3> QED BY <3>1, <3>2 DEF RoundsOut
  <2>2. Timely(m) /\ Accounted(m)
    BY <1>5, <1>7 DEF CopiesInv, AccountInv
  <2> QED BY <1>1, <2>1, <2>2 DEF Accounted, Bound, Within, Covers, RoundsOut, ManualOut
<1>8. AccountInv'
  BY <1>7 DEF AccountInv
<1>9. FloodInv'
  BY <1>1, <1>2, <1>8, FloodStill
<1> QED BY <1>2, <1>3, <1>6, <1>8, <1>9 DEF CopiesInv

\* A kill: either all that was sent is in the rows, or a lapse is counted, which
\* allows for all that the window may have held.
LEMMA CopiesCrash ==
    ASSUME Limit > 0, Typed, Typed', RoundsInv, RoundsInv', LimitInv, LimitInv', CopiesInv, Crash
    PROVE  CopiesInv'
<1>1. /\ up /\ ~up' /\ UNCHANGED <<now, fires, copies>>
      /\ round' = [r \in Rounds |-> IdleRound] /\ manual' = [s \in Slots |-> IdleManual]
      /\ lapses' = IF Sending \/ SendingNow \/ disk'.fires # fires THEN lapses + 1 ELSE lapses
  BY DEF Crash, memory
<1>2. CopiesTyped'
  BY <1>1 DEF CopiesInv, CopiesTyped
<1>3. RecordsInv'
  <2>1. PICK landed \in SUBSET DOMAIN Rows :
          disk' = [row \in DOMAIN Rows |-> IF row \in landed THEN Rows[row] ELSE disk[row]]
    BY DEF Crash
  <2>2. disk'.fires = fires \/ disk'.fires = disk.fires
    BY <2>1 DEF Rows
  <2> QED BY <1>1, <2>2 DEF CopiesInv, RecordsInv, Numbered
<1>4. TimelyInv'
  BY <1>1 DEF TimelyInv, IdleRound, IdleManual, After
<1>5. ASSUME NEW m \in Minutes, Timely(m)
      PROVE  Accounted(m)'
  <2> DEFINE C == Cardinality(Within(copies, m))
             W == Cardinality(Within(fires, m))
             L == Cardinality(Within(disk'.fires, m))
             R == Cardinality(RoundsOut(round, m))
             M == Cardinality(ManualOut(manual, m))
             P == lapses * Bound
             Q == lapses' * Bound
  <2>1. C <= W + R + M + P /\ W + R + M <= Bound
    BY <1>1, <1>5 DEF CopiesInv, AccountInv, Accounted, Logged, LimitInv, Under
  <2>2. RoundsOut(round', m) = {} /\ ManualOut(manual', m) = {}
    BY <1>1 DEF RoundsOut, ManualOut, IdleRound, IdleManual
  <2>3. C \in Nat /\ W \in Nat /\ L \in Nat /\ R \in Nat /\ M \in Nat
    <3>1. IsFiniteSet(copies) /\ IsFiniteSet(fires) /\ IsFiniteSet(disk'.fires)
      BY DEF CopiesInv, CopiesTyped, Typed
    <3>2. \A log : IsFiniteSet(log) => Cardinality(Within(log, m)) \in Nat
      BY Sizes
    <3>3. R \in Nat /\ M \in Nat
      BY <3>1, Sizes
    <3> HIDE DEF R, M
    <3> QED BY <3>1, <3>2, <3>3
  <2>4. P \in Nat /\ Bound \in Nat /\ (lapses + 1) * Bound = P + Bound
    BY BoundIsNumber, Times DEF CopiesInv, CopiesTyped
  <2>5. C <= L + Q
    <3>1. CASE Sending \/ SendingNow \/ disk'.fires # fires
      <4>1. Q = P + Bound
        BY <1>1, <2>4, <3>1
      <4> HIDE DEF C, W, L, R, M, P, Q
      <4> QED BY <2>1, <2>3, <2>4, <4>1
    <3>2. CASE ~(Sending \/ SendingNow \/ disk'.fires # fires)
      <4>1. Q = P /\ L = W
        BY <1>1, <3>2
      <4>2. RoundsOut(round, m) = {} /\ ManualOut(manual, m) = {}
        BY <3>2 DEF Sending, SendingNow, RoundsOut, ManualOut
      <4>3. R = 0 /\ M = 0
        BY <4>2, FS_EmptySet
      <4> HIDE DEF C, W, L, R, M, P, Q
      <4> QED BY <2>1, <2>3, <2>4, <4>1, <4>3
    <3> QED BY <3>1, <3>2
  <2>6. Cardinality(RoundsOut(round', m)) = 0 /\ Cardinality(ManualOut(manual', m)) = 0
    BY <2>2, FS_EmptySet
  <2>7. Logged' = disk'.fires /\ copies' = copies
    BY <1>1 DEF Logged
  <2>8. Q \in Nat
    BY <1>2, <2>4, Times DEF CopiesTyped
  <2>9. Cardinality(Within(copies', m)) <= L + Cardinality(RoundsOut(round', m))
           + Cardinality(ManualOut(manual', m)) + Q
    <3>1. C <= L + 0 + 0 + Q
      <4> HIDE DEF C, L, Q
      <4> QED BY <2>3, <2>5, <2>8
    <3> QED BY <2>6, <2>7, <3>1
  <2> QED BY <2>7, <2>9 DEF Accounted, Bound, Within, Covers, RoundsOut, ManualOut
<1>6. AccountInv'
  BY <1>1, <1>5 DEF AccountInv, Timely
<1>7. FloodInv'
  BY <1>1, <1>2, <1>6, FloodStill
<1> QED BY <1>2, <1>3, <1>4, <1>6, <1>7 DEF CopiesInv

LEMMA CopiesInit ==
    ASSUME Limit > 0, Init
    PROVE  CopiesInv
<1>1. /\ copies = {} /\ lapses = 0 /\ fires = {} /\ disk.fires = {} /\ ~up
      /\ \A r \in Rounds : round[r].pc = "idle"
      /\ \A s \in Slots : manual[s].pc = "idle"
  BY DEF Init, Rows, IdleRound, IdleManual
<1>2. CopiesTyped /\ RecordsInv /\ TimelyInv
  BY <1>1, FS_EmptySet DEF CopiesTyped, RecordsInv, Numbered, TimelyInv, After
<1>3. ASSUME NEW m \in Minutes
      PROVE  Accounted(m) /\ Cardinality(Within(copies, m)) <= (1 + lapses) * Bound
  <2>1. Within({}, m) = {} /\ RoundsOut(round, m) = {} /\ ManualOut(manual, m) = {} /\ Logged = {}
    BY <1>1 DEF Within, RoundsOut, ManualOut, Logged
  <2>2. Cardinality({}) = 0 /\ Bound \in Nat /\ 0 \in Nat
    BY FS_EmptySet, BoundIsNumber
  <2>3. 0 * Bound \in Nat /\ (1 + 0) * Bound = 0 * Bound + Bound
    BY <2>2, Times
  <2>4. /\ Cardinality(Within(copies, m)) = 0 /\ Cardinality(Within(Logged, m)) = 0
        /\ Cardinality(RoundsOut(round, m)) = 0 /\ Cardinality(ManualOut(manual, m)) = 0
        /\ lapses * Bound \in Nat /\ (1 + lapses) * Bound \in Nat
    <3>1. Within(copies, m) = {} /\ Within(Logged, m) = {}
      BY <1>1, <2>1
    <3> QED BY <1>1, <2>1, <2>2, <2>3, <3>1
  <2> QED BY <2>4 DEF Accounted
<1> QED BY <1>2, <1>3 DEF CopiesInv, AccountInv, FloodInv

LEMMA CopiesNext ==
    ASSUME Limit > 0, Typed, RoundsInv, CountInv, LimitInv, CopiesInv, [Next]_vars
    PROVE  CopiesInv'
<1>0. Typed' /\ RoundsInv' /\ LimitInv'
  BY CountNext, LimitNext
<1>1. CASE \E s \in Slots : SendNow(s) \/ SendNowEnd(s)
  BY <1>0, <1>1, CopiesManual
<1>2. CASE HandleAnnounce \/ AnnouncementRequest
  <2>1. CASE \E s \in Slots : SendTask(s)
    BY <1>1, <2>1 DEF SendTask
  <2>2. CASE EditFrame
    BY <1>0, <2>2, CopiesOthers
  <2> QED BY <1>2, <2>1, <2>2
          DEF HandleAnnounce, AnnouncementRequest, CreateTask, RemoveTask, UpdateTask,
              UpdateAnnouncement, SetEnabled, CreateAnnouncement, Change, RemoveAnnouncement
<1>3. CASE Tick
  <2> DEFINE me2 == [round["tick"] EXCEPT !.pc = "remind"]
  <2>1. /\ round' = [round EXCEPT !["tick"] = me2] /\ "tick" \in Rounds /\ up
        /\ UNCHANGED <<up, now, lapses, manual, disk, fires, copies>>
        /\ round["tick"].pc # "deliver"
    BY <1>3 DEF Tick, RoundFrame, Rounds
  <2>2. me2 \in Slip /\ me2.pc = "remind"
    BY <2>1 DEF RoundsInv, RoundOK, Slip, Before
  <2> HIDE DEF me2
  <2>3. Arrives("tick", me2)
    BY <2>1, <2>2 DEF Arrives, After
  <2> QED BY <1>0, <2>1, <2>3, CopiesRound
<1>4. CASE \E r \in Rounds : RoundStep(r)
  <2>1. PICK r \in Rounds : RoundStep(r)
    BY <1>4
  <2>2. up
    BY <2>1, RunsUp DEF RoundStep, RemindStep, CastEnd, AnnounceStart, DeliverEnd, TellEnd
  <2> QED BY <1>0, <2>1, <2>2, RoundsMove, CopiesRound
<1>5. CASE \/ UNCHANGED vars \/ Minute \/ Drain \/ Start
           \/ SetReminder \/ Silence \/ SetInterval
  BY <1>0, <1>5, CopiesOthers
<1>6. CASE Crash
  BY <1>0, <1>6, CopiesCrash
<1> QED BY <1>1, <1>2, <1>3, <1>4, <1>5, <1>6 DEF Next

-----------------------------------------------------------------------------
ScheduleInv == Typed /\ RoundsInv /\ CountInv /\ (Limit > 0 => LimitInv /\ CopiesInv)

LEMMA ScheduleInvariant == Spec => []ScheduleInv
<1>1. Init => ScheduleInv
  BY CountInit, LimitInit, CopiesInit DEF ScheduleInv
<1>2. ScheduleInv /\ [Next]_vars => ScheduleInv'
  BY CountNext, LimitNext, CopiesNext DEF ScheduleInv
<1> QED BY <1>1, <1>2, PTL DEF Spec

\* Memory, the rows, the rounds and the sends under way keep their shape.
THEOREM TypeCorrect == Spec => []TypeOK
<1>1. ScheduleInv => TypeOK
  <2> SUFFICES ASSUME ScheduleInv PROVE TypeOK
    OBVIOUS
  <2>1. \A r \in Rounds : round[r].at \in Minutes /\ round[r].cur \in 0 .. NAnn
    BY DEF ScheduleInv, RoundsInv, RoundOK, Slip
  <2>2. \A s \in Slots : manual[s].at \in Minutes /\ manual[s].cur \in 0 .. NAnn
    BY DEF ScheduleInv, Typed, Errand
  <2>3. \A i \in Ids : ann[i] \in Task \cup {New, Gone}
    BY DEF ScheduleInv, Typed, Entry
  <2>4. {up, interval, beat, quiet} \subseteq BOOLEAN /\ now \in Minutes /\ remind \in 0 .. Never
    BY DEF ScheduleInv, Typed
  <2> QED BY <2>1, <2>2, <2>3, <2>4 DEF TypeOK
<1> QED BY <1>1, ScheduleInvariant, PTL

\* However rounds, kills, restarts, edits and "send now" overlap: a copy of an
\* announcement beyond the first of a minute has an excuse, and the copies sent
\* within a window are at most the limit and the sends that can be under way at
\* once, as many again for every kill that left a send out of the log
\* (scheduledAnnouncements.ts:841, 1236, 1257; tickScheduler.ts:231).
THEOREM SendsBounded == Spec => []SendsAreBounded
<1>1. ScheduleInv => SendsAreBounded
  <2> SUFFICES ASSUME ScheduleInv PROVE SendsAreBounded
    OBVIOUS
  <2>1. OncePerMinute
    <3> SUFFICES ASSUME NEW x \in Ids \X Minutes PROVE sends[x] <= 1 + excuse
      BY DEF OncePerMinute
    <3>1. PICK i \in Ids, m \in Minutes : x = <<i, m>>
      OBVIOUS
    <3> DEFINE c == sends[<<i, m>>]
               F == Fresh(now, Current, i, m)
    <3>2. c + F <= 1 + excuse
      BY DEF ScheduleInv, CountInv, CountOf, Counted
    <3>3. c \in Nat /\ excuse \in Nat /\ F \in {0, 1}
      BY FreshBit DEF ScheduleInv, Typed
    <3> HIDE DEF c, F
    <3>4. c <= 1 + excuse
      BY <3>2, <3>3
    <3> QED BY <3>1, <3>4 DEF c
  <2>2. LimitHolds
    <3> SUFFICES ASSUME Limit > 0, NEW m \in Minutes
                 PROVE  Cardinality({c \in copies : c[1] <= m /\ m <= c[1] + Window})
                           <= (1 + lapses) * Bound
      BY DEF LimitHolds, Bound
    <3>1. {c \in copies : c[1] <= m /\ m <= c[1] + Window} = Within(copies, m)
      BY DEF Within, Covers
    <3> QED BY <3>1 DEF ScheduleInv, CopiesInv, FloodInv
  <2> QED BY <2>1, <2>2 DEF SendsAreBounded
<1> QED BY <1>1, ScheduleInvariant, PTL

-----------------------------------------------------------------------------
(***************************************************************************)
(* The next firings of an expression, by walking days, hours and minutes as *)
(* the card does and by testing each minute as the scanner does.            *)
(***************************************************************************)
\* Quotient and remainder, by any calendar.
LEMMA Division ==
    ASSUME NEW a \in Nat, NEW b \in Nat \ {0}
    PROVE  /\ a \div b \in Nat /\ a % b \in 0 .. b - 1
           /\ a = (a \div b) * b + (a % b)
<1>1. a \div b \in Int /\ a % b \in 0 .. b - 1
  OBVIOUS
<1>2. a = b * (a \div b) + (a % b)
  OBVIOUS
<1>3. a \div b >= 0
  BY <1>1, <1>2
<1>4. b * (a \div b) = (a \div b) * b
  BY <1>1
<1> QED BY <1>1, <1>2, <1>3, <1>4

LEMMA Multiples ==
    ASSUME NEW p \in Nat, NEW q \in Nat, p < q, NEW b \in Nat \ {0}
    PROVE  p * b + b <= q * b
<1>1. q = p + 1 + (q - p - 1) /\ q - p - 1 \in Nat
  OBVIOUS
<1> DEFINE k == q - p - 1
<1>2. k * b \in Nat
  <2>1. k \in Nat
   OBVIOUS
  <2> HIDE DEF k
  <2> QED BY <2>1
<1>3. q * b = p * b + b + k * b
  OBVIOUS
<1> QED BY <1>2, <1>3

LEMMA OneQuotient ==
    ASSUME NEW p \in Nat, NEW q \in Nat, NEW b \in Nat \ {0},
           NEW r \in 0 .. b - 1, NEW s \in 0 .. b - 1, p * b + r = q * b + s
    PROVE  p = q /\ r = s
<1>1. ~(p < q)
  <2> SUFFICES ASSUME p < q PROVE FALSE
    OBVIOUS
  <2>1. p * b + b <= q * b
    BY Multiples
  <2>2. p * b \in Nat /\ q * b \in Nat
    OBVIOUS
  <2> QED BY <2>1, <2>2
<1>2. ~(q < p)
  <2> SUFFICES ASSUME q < p PROVE FALSE
    OBVIOUS
  <2>1. q * b + b <= p * b
    BY Multiples
  <2>2. p * b \in Nat /\ q * b \in Nat
    OBVIOUS
  <2> QED BY <2>1, <2>2
<1>3. p = q
  BY <1>1, <1>2
<1> QED BY <1>3
LEMMA Calendar ==
    /\ MinutesPerHour \in Nat \ {0} /\ HoursPerDay \in Nat \ {0} /\ ScanDays \in Nat \ {0}
    /\ MinutesPerDay \in Nat \ {0}
    /\ \A d \in Nat : d * MinutesPerDay \in Nat
    /\ \A h \in Nat : h * MinutesPerHour \in Nat
<1>1. MinutesPerHour \in Nat \ {0} /\ HoursPerDay \in Nat \ {0} /\ ScanDays \in Nat \ {0}
  BY CronConstants
<1>2. MinutesPerDay \in Nat \ {0}
  BY <1>1 DEF MinutesPerDay
<1> QED BY <1>1, <1>2

\* The minute a day, an hour and a minute of the hour make, read back.
LEMMA MinuteOfParts ==
    ASSUME NEW d \in Nat, NEW h \in 0 .. HoursPerDay - 1, NEW m \in 0 .. MinutesPerHour - 1
    PROVE  LET t == d * MinutesPerDay + h * MinutesPerHour + m
           IN  t \in Nat /\ DayOf(t) = d /\ HourAt(t) = h /\ MinuteAt(t) = m
<1> DEFINE M == MinutesPerHour
           H == HoursPerDay
           t == d * MinutesPerDay + h * M + m
           q == d * H + h
<1>1. M \in Nat \ {0} /\ H \in Nat \ {0} /\ MinutesPerDay \in Nat \ {0} /\ h \in Nat /\ m \in Nat
  BY Calendar
<1>2. d * MinutesPerDay = (d * H) * M /\ MinutesPerDay = H * M
  BY <1>1 DEF MinutesPerDay
<1>3. q \in Nat /\ t \in Nat
  BY <1>1
<1>4. t = q * M + m
  BY <1>1, <1>2
<1>5. t \div M = q /\ t % M = m
  <2> HIDE DEF q, t, M
  <2> QED BY <1>1, <1>3, <1>4, Division, OneQuotient DEF M
<1>6. q \div H = d /\ q % H = h
  <2>1. q = d * H + h
    OBVIOUS
  <2> HIDE DEF q, H
  <2> QED BY <1>1, <1>3, <2>1, Division, OneQuotient DEF H
<1>7. t \div MinutesPerDay = d
  <2> DEFINE r == h * M + m
  <2>1. t = d * MinutesPerDay + r
    BY <1>1
  <2>2. h * M + M <= H * M
    BY <1>1, Multiples
  <2>3. r \in 0 .. MinutesPerDay - 1
    BY <1>1, <1>2, <2>2
  <2> HIDE DEF r, t
  <2> QED BY <1>1, <1>3, <2>1, <2>3, Division, OneQuotient
<1> QED BY <1>3, <1>5, <1>6, <1>7 DEF DayOf, HourAt, MinuteAt

\* And any minute is made of its parts.
LEMMA PartsOfMinute ==
    ASSUME NEW t \in Nat
    PROVE  /\ DayOf(t) \in Nat /\ HourAt(t) \in 0 .. HoursPerDay - 1
           /\ MinuteAt(t) \in 0 .. MinutesPerHour - 1
           /\ t = DayOf(t) * MinutesPerDay + HourAt(t) * MinutesPerHour + MinuteAt(t)
<1> DEFINE M == MinutesPerHour
           H == HoursPerDay
           q == t \div M
           d == q \div H
<1>1. M \in Nat \ {0} /\ H \in Nat \ {0} /\ MinutesPerDay \in Nat \ {0}
  BY Calendar
<1>2. q \in Nat /\ MinuteAt(t) \in 0 .. M - 1 /\ t = q * M + MinuteAt(t)
  BY <1>1, Division DEF MinuteAt
<1>3. d \in Nat /\ HourAt(t) \in 0 .. H - 1 /\ q = d * H + HourAt(t)
  BY <1>1, <1>2, Division DEF HourAt
<1> HIDE DEF q, d
<1>4. t = d * MinutesPerDay + HourAt(t) * M + MinuteAt(t)
  BY <1>1, <1>2, <1>3 DEF MinutesPerDay
<1>5. DayOf(t) = d
  BY <1>2, <1>3, <1>4, MinuteOfParts
<1> QED BY <1>2, <1>3, <1>4, <1>5

\* Hours and minutes of an expression are hours and minutes of the clock.
LEMMA FieldBounds ==
    ASSUME NEW items, NEW max \in Int
    PROVE  ParseField(items, 0, max) \subseteq 0 .. max
<1> SUFFICES ASSUME NEW item \in items, ItemOk(item, 0, max), NEW v \in ItemValues(item, 0, max)
             PROVE  v \in 0 .. max
  BY DEF ParseField
<1>1. v \in ItemFrom(item, 0) .. ItemTo(item, max)
  BY DEF ItemValues
<1>2. CASE item.star
  BY <1>1, <1>2 DEF ItemFrom, ItemTo
<1>3. CASE ~item.star
  BY <1>1, <1>3 DEF ItemFrom, ItemTo, ItemOk
<1> QED BY <1>2, <1>3

\* The days walked and the minutes tested give the same firings.
LEMMA SameFirings ==
    ASSUME NEW e, NEW n \in Nat
    PROVE  {t \in Candidates(SpecOf(e), n) : t > n}
              = {u \in n + 1 .. (DayOf(n) + ScanDays) * MinutesPerDay - 1 : CronMatches(SpecOf(e), u)}
<1> DEFINE spec == SpecOf(e)
           D == DayOf(n)
           L == {t \in Candidates(spec, n) : t > n}
           R == {u \in n + 1 .. (D + ScanDays) * MinutesPerDay - 1 : CronMatches(spec, u)}
<1>1. spec.minutes \subseteq 0 .. MinutesPerHour - 1 /\ spec.hours \subseteq 0 .. HoursPerDay - 1
  BY FieldBounds, Calendar DEF SpecOf
<1> HIDE DEF spec
<1>2. D \in Nat /\ ScanDays \in Nat \ {0} /\ MinutesPerDay \in Nat \ {0}
  BY PartsOfMinute, Calendar
<1>3. ASSUME NEW t \in L PROVE t \in R
  <2>1. PICK d \in D .. D + ScanDays - 1, h \in spec.hours, m \in spec.minutes :
          /\ MonthOf(d) \in spec.months /\ DayMatches(spec, d)
          /\ t = d * MinutesPerDay + h * MinutesPerHour + m /\ t > n
    BY DEF Candidates
  <2>2. d \in Nat /\ h \in 0 .. HoursPerDay - 1 /\ m \in 0 .. MinutesPerHour - 1
    BY <1>1, <1>2, <2>1
  <2>3. t \in Nat /\ DayOf(t) = d /\ HourAt(t) = h /\ MinuteAt(t) = m
    BY <2>1, <2>2, MinuteOfParts
  <2>4. CronMatches(spec, t)
    BY <2>1, <2>3 DEF CronMatches
  <2>5. t < (D + ScanDays) * MinutesPerDay
    <3> DEFINE x == d * MinutesPerDay
               y == h * MinutesPerHour + m
    <3>1. t = x + y /\ x \in Nat /\ y \in Nat
      BY <2>1, <2>2, Calendar
    <3>2. y < MinutesPerDay
      <4>1. h * MinutesPerHour + MinutesPerHour <= HoursPerDay * MinutesPerHour
        BY <2>2, Calendar, Multiples
      <4>2. MinutesPerDay = HoursPerDay * MinutesPerHour
        BY Calendar DEF MinutesPerDay
      <4> QED BY <2>2, <4>1, <4>2, Calendar
    <3>3. x + MinutesPerDay <= (D + ScanDays) * MinutesPerDay
      <4>1. D + ScanDays \in Nat /\ d < D + ScanDays
        BY <1>2, <2>1, <2>2
      <4> QED BY <1>2, <2>2, <4>1, Multiples
    <3>4. (D + ScanDays) * MinutesPerDay \in Nat
      BY <1>2
    <3> HIDE DEF x, y, D
    <3> QED BY <1>2, <3>1, <3>2, <3>3, <3>4
  <2>6. (D + ScanDays) * MinutesPerDay \in Nat
    BY <1>2
  <2> HIDE DEF D
  <2>7. t \in n + 1 .. (D + ScanDays) * MinutesPerDay - 1
    BY <2>1, <2>3, <2>5, <2>6
  <2> QED BY <2>4, <2>7
<1>4. ASSUME NEW u \in R PROVE u \in L
  <2> DEFINE d == DayOf(u)
             h == HourAt(u)
             m == MinuteAt(u)
             top == (D + ScanDays) * MinutesPerDay
  <2>0. top \in Nat
    BY <1>2
  <2>1. u \in Nat /\ u > n /\ u < top /\ CronMatches(spec, u)
    <3> HIDE DEF top, D
    <3>1. u \in n + 1 .. top - 1 /\ CronMatches(spec, u)
      BY DEF top
    <3> QED BY <2>0, <3>1
  <2>2. /\ d \in Nat /\ h \in spec.hours /\ m \in spec.minutes
        /\ MonthOf(d) \in spec.months /\ DayMatches(spec, d)
        /\ u = d * MinutesPerDay + h * MinutesPerHour + m
    BY <2>1, PartsOfMinute DEF CronMatches
  <2>3. /\ n = D * MinutesPerDay + HourAt(n) * MinutesPerHour + MinuteAt(n)
        /\ HourAt(n) \in 0 .. HoursPerDay - 1 /\ MinuteAt(n) \in 0 .. MinutesPerHour - 1
    BY PartsOfMinute
  <2>4. D * MinutesPerDay <= n /\ d * MinutesPerDay <= u /\ u < d * MinutesPerDay + MinutesPerDay
    <3>1. ASSUME NEW x \in Nat
          PROVE  /\ DayOf(x) * MinutesPerDay <= x
                 /\ x < DayOf(x) * MinutesPerDay + MinutesPerDay
      <4>1. /\ x = (x \div MinutesPerDay) * MinutesPerDay + (x % MinutesPerDay)
            /\ x \div MinutesPerDay \in Nat /\ x % MinutesPerDay \in 0 .. MinutesPerDay - 1
        BY <1>2, Division
      <4> DEFINE k == (x \div MinutesPerDay) * MinutesPerDay
                 s == x % MinutesPerDay
      <4>2. k \in Nat
        BY <1>2, <4>1
      <4>3. DayOf(x) * MinutesPerDay = k
        BY DEF DayOf
      <4>4. x = k + s /\ s \in 0 .. MinutesPerDay - 1
        BY <4>1
      <4> HIDE DEF k, s
      <4> QED BY <1>2, <4>2, <4>3, <4>4
    <3> QED BY <2>1, <3>1
  <2> HIDE DEF d, h, m
  <2>5. d >= D
    <3> SUFFICES ASSUME d < D PROVE FALSE
      BY <1>2, <2>2
    <3> DEFINE a == d * MinutesPerDay
               b == D * MinutesPerDay
    <3>1. a + MinutesPerDay <= b
      BY <1>2, <2>2, Multiples
    <3>2. a \in Nat /\ b \in Nat
      BY <1>2, <2>2
    <3>3. b <= n /\ u < a + MinutesPerDay
      BY <2>4
    <3> HIDE DEF a, b
    <3> QED BY <1>2, <2>1, <3>1, <3>2, <3>3
  <2>6. d < D + ScanDays
    <3> SUFFICES ASSUME ~(d < D + ScanDays) PROVE FALSE
      OBVIOUS
    <3> DEFINE a == d * MinutesPerDay
    <3>1. top <= a
      <4>1. D + ScanDays \in Nat
        BY <1>2
      <4>2. CASE D + ScanDays = d
        BY <2>0, <4>2
      <4>3. CASE D + ScanDays < d
        <5>1. top + MinutesPerDay <= a
          BY <1>2, <2>2, <4>1, <4>3, Multiples
        <5>2. a \in Nat
          BY <1>2, <2>2
        <5> HIDE DEF top, a
        <5> QED BY <1>2, <2>0, <5>1, <5>2
      <4> QED BY <2>2, <4>1, <4>2, <4>3
    <3>2. a <= u /\ a \in Nat
      BY <1>2, <2>2, <2>4
    <3> HIDE DEF top, a
    <3> QED BY <2>0, <2>1, <3>1, <3>2
  <2>7. d \in D .. D + ScanDays - 1
    <3> HIDE DEF D
    <3> QED BY <1>2, <2>2, <2>5, <2>6
  <2>8. d \in {x \in D .. D + ScanDays - 1 : MonthOf(x) \in spec.months /\ DayMatches(spec, x)}
    BY <2>2, <2>7
  <2>9. u \in Candidates(spec, n)
    BY <2>2, <2>8 DEF Candidates
  <2> QED BY <2>1, <2>9
<1> HIDE DEF L, R
<1>5. L = R
  BY <1>3, <1>4
<1> QED BY <1>5 DEF L, R, spec

\* The firings a card announces are those the scanner comes to, whatever the
\* calendar and the expression: the walk over days, hours and minutes leaves no
\* matching minute out and lists no other (scheduledAnnouncements.ts:242).
THEOREM NextTimesMatch == Spec => []NextTimesAreFirings
<1>1. ScheduleInv => NextTimesAreFirings
  <2> SUFFICES ASSUME ScheduleInv, NEW i \in Ids, Live(i)
               PROVE  NextTimes[ann[i].cron][now] = Firings[ann[i].cron][now]
    BY DEF NextTimesAreFirings
  <2> DEFINE e == ann[i].cron
  <2>1. e \in Exprs /\ now \in Minutes /\ now \in Nat
    BY Numbers DEF ScheduleInv, Typed, Live, Entry, Task, New, Gone
  <2>2. Parsed[e] = SpecOf(e)
    BY <2>1 DEF Parsed
  <2> HIDE DEF e
  <2>3. NextTimes[e][now] = Earliest(3, {t \in Candidates(SpecOf(e), now) : t > now})
    BY <2>1, <2>2 DEF NextTimes, NextFireTimes
  <2>4. Firings[e][now]
           = Earliest(3, {u \in now + 1 .. (DayOf(now) + ScanDays) * MinutesPerDay - 1 :
                             CronMatches(SpecOf(e), u)})
    BY <2>1, <2>2 DEF Firings
  <2> QED BY <2>1, <2>3, <2>4, SameFirings DEF e
<1> QED BY <1>1, ScheduleInvariant, PTL
=============================================================================
