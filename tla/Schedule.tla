------------------------------ MODULE Schedule ------------------------------
(***************************************************************************)
(* The one timer of the process and the two periodic tasks that send group  *)
(* messages: the announcements an administrator schedules and the reminder  *)
(* of an activity.  Rounds of the timer, "send now" commands, edits from    *)
(* commands and from the admin page, and the sends themselves interleave at  *)
(* every await; the process may be killed at any point and restarts from the *)
(* rows the write queue had written.                                         *)
(***************************************************************************)
EXTENDS Cron, Sequences

CONSTANTS
    NAnn,             \* announcements that can be created, in order of creation
    MaxPerGroup,      \* MAX_ANNOUNCEMENTS_PER_GROUP
    Exprs,            \* the expressions an administrator may write
    Stored,           \* tables of announcements a process may start from
    Limit,            \* announcements one group gets within a window
    Window,           \* ... of this many minutes (an hour)
    Keep,             \* minutes a record of a send is kept (a day)
    NManual,          \* "send now" commands at the same time
    MaxMinute,        \* bound on the clock
    MaxEdits,         \* bound on the number of edits and settings
    MaxCrashes        \* bound on the number of kills

ASSUME ScheduleConstants ==
    /\ {NAnn, MaxPerGroup, Limit, Window, Keep, NManual, MaxMinute, MaxEdits, MaxCrashes}
           \subseteq Nat
    /\ Window <= Keep

Ids     == 1 .. NAnn
Minutes == 0 .. MaxMinute
Never   == MaxMinute + 1        \* no minute: never fired, no reminder set
New     == [st |-> "new"]
Gone    == [st |-> "gone"]
Task    == [st : {"live"}, on : BOOLEAN, cron : Exprs, last : 0 .. Never]

ASSUME StoredTables == Stored \subseteq [Ids -> Task \cup {New}]

Rounds  == {"boot", "tick"}
Slots   == 1 .. NManual

VARIABLES
    up,          \* the process runs
    now,         \* the minute on the clock
    interval,    \* SCAN_INTERVAL_MS is positive
    beat,        \* the timer is started
    quiet,       \* the tasks that send are switched off (stop, main switch)
    ann,         \* the announcements of the group, in memory
    fires,       \* when they were fired, in memory
    remind,      \* remindAt of the activity, in memory
    disk,        \* the rows of these three
    round,       \* the rounds in progress
    manual,      \* the "send now" commands in progress
    sends,       \* history: how often each announcement was sent for a minute
    copies,      \* history: the copies sent, numbered within their minutes
    lapses,      \* history: kills that left a send out of the log
    excuse,      \* history: what may justify a second copy
    edits, crashes

memory == <<ann, fires, remind>>
vars == <<up, now, interval, beat, quiet, ann, fires, remind, disk,
          round, manual, sends, copies, lapses, excuse, edits, crashes>>

IdleRound  == [pc |-> "idle", at |-> 0, todo |-> <<>>, cur |-> 0]
IdleManual == [pc |-> "idle", at |-> 0, cur |-> 0]

Parsed == [e \in Exprs |-> SpecOf(e)]

Live(i)   == ann[i].st = "live"
Sending    == \E r \in Rounds : round[r].pc = "deliver"
SendingNow == \E s \in Slots : manual[s].pc = "deliver"
Rows      == [ann |-> ann, fires |-> fires, remind |-> remind]

Init ==
    /\ up = FALSE
    /\ now = 0
    /\ interval = TRUE
    /\ beat = FALSE
    /\ quiet = FALSE
    /\ ann \in Stored
    /\ fires = {}
    /\ remind = Never
    /\ disk = Rows
    /\ round = [r \in Rounds |-> IdleRound]
    /\ manual = [s \in Slots |-> IdleManual]
    /\ sends = [x \in Ids \X Minutes |-> 0]
    /\ copies = {}
    /\ lapses = 0
    /\ excuse = 0
    /\ edits = 0
    /\ crashes = 0

-----------------------------------------------------------------------------
(* A bug for the runs to find: the object the round read is put back.        *)
MarkFiredStale(table, i, minute) ==
    [table EXCEPT ![i] = [st |-> "live", on |-> TRUE, last |-> minute,
                          cron |-> IF Live(i) THEN ann[i].cron ELSE CHOOSE e \in Exprs : TRUE]]

(* The store.  markFired looks the announcement up again: one that was       *)
(* removed meanwhile is left alone, one that was edited keeps the edit.      *)
MarkFired(table, i, minute) ==
    IF Live(i) THEN [table EXCEPT ![i].last = minute] ELSE table

(* A send that took longer puts the mark back to its own, earlier minute.    *)
PutsBack(i, minute) == Live(i) /\ ann[i].last # Never /\ minute < ann[i].last

(* One more of a minute.                                                     *)
OneMore(log, at) == <<at, 1 + Cardinality({f \in log : f[1] = at})>>

(* The records are kept for a day.  (And the last 200 of them, twice as many *)
(* as the limit can be.)                                                     *)
RecordFire(at) ==
    {f \in fires : f[1] + Keep >= at} \cup {OneMore(fires, at)}

(* A bug for the runs to find: the count begins anew with every minute.      *)
FiresAt(log, minute) == {f \in log : f[1] = minute}

(* firesSince the start of the window that ends now.                         *)
FiresSince(log, minute) == {f \in log : f[1] + Window >= minute}

(* rateLimitOf; a limit of 0 is none.                                        *)
Limited(log, minute) ==
    Limit > 0 /\ Cardinality(FiresSince(log, minute)) >= Limit

(* store.all(): the announcements as they are when the scan starts, in order *)
(* of creation.                                                              *)
Snapshot ==
    LET live == {i \in Ids : Live(i)}
        Nth(k) == CHOOSE i \in live : Cardinality({j \in live : j <= i}) = k
    IN  [k \in 1 .. Cardinality(live) |->
            [id |-> Nth(k), on |-> ann[Nth(k)].on, cron |-> ann[Nth(k)].cron,
             last |-> ann[Nth(k)].last]]

-----------------------------------------------------------------------------
(* Edits: /announce and the announcement page reach the same service.  The   *)
(* page and the command check that the caller administers the group; content *)
(* that normalisation refuses leaves no trace and is not a step.             *)
EditFrame ==
    /\ up /\ edits < MaxEdits
    /\ edits' = edits + 1
    /\ UNCHANGED <<up, now, interval, beat, quiet, fires, remind, disk,
                   round, manual, sends, copies, lapses, excuse, crashes>>

(* A new announcement is switched off.                                       *)
CreateAnnouncement ==
    /\ EditFrame
    /\ Cardinality({i \in Ids : Live(i)}) < MaxPerGroup
    /\ \E i \in Ids, e \in Exprs :
        /\ ann[i] = New
        /\ \A j \in 1 .. i - 1 : ann[j] # New
        /\ Parses(e)
        /\ ann' = [ann EXCEPT ![i] = [st |-> "live", on |-> FALSE, cron |-> e, last |-> Never]]

(* An expression that does not parse refuses the whole change.               *)
Change(i, e, on) ==
    /\ EditFrame
    /\ Live(i) /\ Parses(e)
    /\ <<e, on>> # <<ann[i].cron, ann[i].on>>
    /\ ann' = [ann EXCEPT ![i].cron = e, ![i].on = on]

UpdateAnnouncement == \E i \in Ids, e \in Exprs : Live(i) /\ Change(i, e, ann[i].on)
SetEnabled == \E i \in Ids : Live(i) /\ Change(i, ann[i].cron, ~ann[i].on)

RemoveAnnouncement ==
    /\ EditFrame
    /\ \E i \in Ids :
        /\ Live(i)
        /\ ann' = [ann EXCEPT ![i] = Gone]

HandleAnnounce ==
    CreateAnnouncement \/ UpdateAnnouncement \/ SetEnabled \/ RemoveAnnouncement

(* The admin API: one request may change the expression and the switch, and   *)
(* who may is asked of the group the announcement belongs to.                 *)
CreateTask == CreateAnnouncement
UpdateTask == \E i \in Ids, e \in Exprs, on \in BOOLEAN : Change(i, e, on)
RemoveTask == RemoveAnnouncement

-----------------------------------------------------------------------------
(* A round.  The due test uses the copy read at the start of the scan.       *)
Due(task, minute) ==
    /\ task.on
    /\ CronMatches(Parsed[task.cron], minute)
    /\ task.last # minute

(* runOnce of the announcements from one await to the next: what is not due  *)
(* is passed over; the first that is due is sent, or, over the limit, marked *)
(* without being sent and its owner told.                                    *)
GoOn(r, at, todo, table, log) ==
    LET due == {k \in DOMAIN todo : Due(todo[k], at)}
        k   == CHOOSE k \in due : \A j \in due : k <= j
        At(pc) == [pc |-> pc, at |-> at, todo |-> SubSeq(todo, k + 1, Len(todo)),
                   cur |-> todo[k].id]
    IN  \/ /\ due = {}
           /\ round' = [round EXCEPT ![r] = IdleRound]
           /\ ann' = table
           /\ beat' = (beat \/ (r = "boot" /\ interval))
           /\ UNCHANGED copies
        \/ /\ due # {} /\ Limited(log, at)
           /\ round' = [round EXCEPT ![r] = At("tell")]
           /\ ann' = MarkFired(table, todo[k].id, at)
           /\ UNCHANGED <<beat, copies>>
        \/ /\ due # {} /\ ~Limited(log, at)
           /\ round' = [round EXCEPT ![r] = At("deliver")]
           /\ ann' = table
           /\ copies' = copies \cup {OneMore(copies, at)}
           /\ UNCHANGED beat

RoundFrame == UNCHANGED <<up, now, interval, quiet, disk, manual, lapses, edits, crashes>>

(* The start of a round.  The first is run before the timer is started; the  *)
(* timer starts no round while one of its own is running.                    *)
Tick ==
    /\ up /\ beat
    /\ round["tick"].pc = "idle"
    /\ round' = [round EXCEPT !["tick"].pc = "remind"]
    /\ excuse' = IF round["boot"].pc = "idle" THEN excuse ELSE excuse + 1
    /\ UNCHANGED <<beat, ann, fires, remind, sends, copies>>
    /\ RoundFrame

(* The reminder task: a reminder that is due is broadcast to the bound       *)
(* groups, or, when the activity is not open or all of them have had a card  *)
(* of this kind (Activity.tla), to nobody; it is cleared in every case.      *)
RemindStep(r) ==
    /\ round[r].pc = "remind"
    /\ LET due == ~quiet /\ remind <= now /\ remind # Never
       IN  \/ /\ due
              /\ round' = [round EXCEPT ![r].pc = "cast"]
              /\ UNCHANGED remind
           \/ /\ due
              /\ remind' = Never
              /\ round' = [round EXCEPT ![r].pc = "announce"]
           \/ /\ ~due
              /\ round' = [round EXCEPT ![r].pc = "announce"]
              /\ UNCHANGED remind
    /\ UNCHANGED <<beat, ann, fires, sends, copies, excuse>>
    /\ RoundFrame

(* The broadcast came back; a group it failed for is not tried again.
   A task that throws is reported and the round goes on to the next one.     *)
CastEnd(r) ==
    /\ round[r].pc = "cast"
    /\ remind' = Never
    /\ round' = [round EXCEPT ![r].pc = "announce"]
    /\ UNCHANGED <<beat, ann, fires, sends, copies, excuse>>
    /\ RoundFrame

AnnounceStart(r) ==
    /\ round[r].pc = "announce"
    /\ GoOn(r, now, IF quiet THEN <<>> ELSE Snapshot, ann, fires)
    /\ UNCHANGED <<fires, remind, sends, excuse>>
    /\ RoundFrame

(* The send came back: the minute counts as served whether it worked or not; *)
(* a failure is first told to the owner, which is another await.             *)
DeliverEnd(r) ==
    LET me    == round[r]
        table == MarkFired(ann, me.cur, me.at)
        log   == RecordFire(me.at)
    IN  /\ me.pc = "deliver"
        /\ sends' = [sends EXCEPT ![<<me.cur, me.at>>] = @ + 1]
        /\ fires' = log
        /\ excuse' = IF PutsBack(me.cur, me.at) THEN excuse + 1 ELSE excuse
        /\ \/ GoOn(r, me.at, me.todo, table, log)
           \/ /\ ann' = table
              /\ round' = [round EXCEPT ![r].pc = "tell"]
              /\ UNCHANGED <<beat, copies>>
        /\ UNCHANGED remind
        /\ RoundFrame

TellEnd(r) ==
    /\ round[r].pc = "tell"
    /\ GoOn(r, round[r].at, round[r].todo, ann, fires)
    /\ UNCHANGED <<fires, remind, sends, excuse>>
    /\ RoundFrame

RoundStep(r) ==
    RemindStep(r) \/ CastEnd(r) \/ AnnounceStart(r) \/ DeliverEnd(r) \/ TellEnd(r)

-----------------------------------------------------------------------------
(* "Send now": counted within the same limit, whatever the switch says.      *)
ManualFrame ==
    UNCHANGED <<up, now, interval, beat, quiet, remind, disk, round, sends, lapses, edits,
                crashes>>

SendNow(s) ==
    /\ up
    /\ manual[s] = IdleManual
    /\ \A t \in 1 .. s - 1 : manual[t] # IdleManual
    /\ \E i \in Ids :
        /\ Live(i)
        /\ ~Limited(fires, now)
        /\ manual' = [manual EXCEPT ![s] = [pc |-> "deliver", at |-> now, cur |-> i]]
    /\ copies' = copies \cup {OneMore(copies, now)}
    /\ UNCHANGED <<ann, fires, excuse>>
    /\ ManualFrame

SendTask(s) == SendNow(s)
AnnouncementRequest ==
    CreateTask \/ UpdateTask \/ RemoveTask \/ \E s \in Slots : SendTask(s)

SendNowEnd(s) ==
    /\ manual[s].pc = "deliver"
    /\ fires' = RecordFire(manual[s].at)
    /\ ann' = MarkFired(ann, manual[s].cur, manual[s].at)
    /\ excuse' = IF PutsBack(manual[s].cur, manual[s].at) THEN excuse + 1 ELSE excuse
    /\ manual' = [manual EXCEPT ![s] = IdleManual]
    /\ UNCHANGED copies
    /\ ManualFrame

-----------------------------------------------------------------------------
(* The rest of the process.                                                  *)

(* The reminder of the activity is set or cleared; one set for later does     *)
(* nothing until its minute comes and is set then here.                       *)
SetReminder ==
    /\ up /\ edits < MaxEdits
    /\ edits' = edits + 1
    /\ \E m \in {now, Never} : remind # m /\ remind' = m
    /\ UNCHANGED <<up, now, interval, beat, quiet, ann, fires, disk, round,
                   manual, sends, copies, lapses, excuse, crashes>>

Silence ==
    /\ up /\ edits < MaxEdits
    /\ edits' = edits + 1
    /\ quiet' = ~quiet
    /\ UNCHANGED <<up, now, interval, beat, ann, fires, remind, disk, round,
                   manual, sends, copies, lapses, excuse, crashes>>

(* A change of SCAN_INTERVAL_MS restarts the timer, during the first round    *)
(* of a start too.                                                            *)
SetInterval ==
    /\ up /\ edits < MaxEdits
    /\ edits' = edits + 1
    /\ interval' = ~interval
    /\ beat' = interval'
    /\ UNCHANGED <<up, now, quiet, ann, fires, remind, disk, round, manual,
                   sends, copies, lapses, excuse, crashes>>

(* The write queue lands what was enqueued so far.                           *)
Drain ==
    /\ up
    /\ disk # Rows
    /\ disk' = Rows
    /\ UNCHANGED <<up, now, interval, beat, quiet, memory, round, manual, sends,
                   copies, lapses, excuse, edits, crashes>>

Start ==
    /\ ~up
    /\ up' = TRUE
    /\ ann' = disk.ann /\ fires' = disk.fires /\ remind' = disk.remind
    /\ round' = [round EXCEPT !["boot"].pc = "remind"]
    /\ UNCHANGED <<now, interval, beat, quiet, disk, manual, sends, copies,
                   lapses, excuse, edits, crashes>>

(* A kill: some of the rows still queued have landed; a send that was under   *)
(* way reaches the group all the same.                                        *)
Crash ==
    /\ up /\ crashes < MaxCrashes
    /\ up' = FALSE
    /\ beat' = FALSE
    /\ crashes' = crashes + 1
    /\ \E landed \in SUBSET DOMAIN Rows :
        /\ disk' = [row \in DOMAIN Rows |-> IF row \in landed THEN Rows[row] ELSE disk[row]]
        /\ excuse' = IF Sending \/ disk'.ann # ann THEN excuse + 1 ELSE excuse
        /\ lapses' = IF Sending \/ SendingNow \/ disk'.fires # fires THEN lapses + 1 ELSE lapses
    /\ sends' = [x \in Ids \X Minutes |->
                    sends[x] + Cardinality({r \in Rounds : round[r].pc = "deliver"
                                                /\ x = <<round[r].cur, round[r].at>>})]
    /\ round' = [r \in Rounds |-> IdleRound]
    /\ manual' = [s \in Slots |-> IdleManual]
    /\ UNCHANGED <<now, interval, quiet, memory, copies, edits>>

(* No round and no command takes longer than the log outlasts the window:    *)
(* 23 hours.                                                                 *)
InTime(at) == now + 1 + Window <= at + Keep
Minute ==
    /\ now < MaxMinute
    /\ \A r \in Rounds : round[r].pc \in {"deliver", "tell"} => InTime(round[r].at)
    /\ \A s \in Slots : manual[s].pc = "deliver" => InTime(manual[s].at)
    /\ now' = now + 1
    /\ UNCHANGED <<up, interval, beat, quiet, memory, disk, round, manual, sends,
                   copies, lapses, excuse, edits, crashes>>

Next ==
    \/ HandleAnnounce \/ AnnouncementRequest
    \/ Tick
    \/ \E r \in Rounds : RoundStep(r)
    \/ \E s \in Slots : SendNow(s) \/ SendNowEnd(s)
    \/ SetReminder \/ Silence \/ SetInterval
    \/ Drain \/ Start \/ Crash \/ Minute

Spec == Init /\ [][Next]_vars

-----------------------------------------------------------------------------
(* What each row holds; the history variables included.                      *)
TypeOK ==
    /\ {up, interval, beat, quiet} \subseteq BOOLEAN
    /\ now \in Minutes
    /\ \A i \in Ids : ann[i] \in Task \cup {New, Gone}
    /\ remind \in 0 .. Never
    /\ \A r \in Rounds : round[r].at \in Minutes /\ round[r].cur \in 0 .. NAnn
    /\ \A s \in Slots : manual[s].at \in Minutes /\ manual[s].cur \in 0 .. NAnn

(* An announcement is sent once for a minute, across restarts too: a second   *)
(* copy needs a kill before the mark of the first was written, a timer that   *)
(* was started while the first round was still running, or a slower send that *)
(* put the mark back to an earlier minute.                                    *)
OncePerMinute ==
    \A x \in Ids \X Minutes : sends[x] <= 1 + excuse

(* The limit of the group holds for the copies sent within any window, not    *)
(* only for those the log still knows: it is exceeded by no more than the     *)
(* sends under way at once, because the log is read before a send is awaited  *)
(* and written after; a kill that leaves sends out of the log (they were under *)
(* way, or their record was still queued) lets the count begin anew, once.    *)
(* A copy counts for the minute at which its round or command began.          *)
LimitHolds ==
    Limit > 0 => \A m \in Minutes :
        Cardinality({c \in copies : c[1] <= m /\ m <= c[1] + Window})
            <= (1 + lapses) * (Limit + Cardinality(Rounds) + NManual - 1)

(* However rounds, kills, restarts and "send now" overlap, a group is not     *)
(* flooded: no announcement twice for a minute, no window beyond its limit.   *)
(* Both allow what a kill between a send and the landing of its mark or       *)
(* record brings about: the announcement is sent again after the restart,     *)
(* although "a restart does not resend" is said of them (ADR-0062).           *)
SendsAreBounded == OncePerMinute /\ LimitHolds

(* Sending never undoes an edit: a step of a round or of "send now" leaves    *)
(* the existence, the switch and the expression of every announcement as an   *)
(* administrator left them, although it works on a copy from before the send. *)
Edited(a) == [a EXCEPT !.last = Never]
AsLeft(a, b) == a = b \/ (a.st = "live" /\ b.st = "live" /\ Edited(a) = Edited(b))
SendingEditsNothing ==
    [][(\E r \in Rounds : RoundStep(r)) \/ (\E s \in Slots : SendNowEnd(s))
            => \A i \in Ids : AsLeft(ann[i], ann'[i])]_vars

(* The firings a card announces are the minutes at which the scanner would    *)
(* fire, no more and none left out.                                           *)
NextTimes == [e \in Exprs |-> [t \in Minutes |-> NextFireTimes(Parsed[e], t, 3)]]
Firings   == [e \in Exprs |-> [t \in Minutes |->
    Earliest(3, {u \in t + 1 .. (DayOf(t) + ScanDays) * MinutesPerDay - 1 :
                    CronMatches(Parsed[e], u)})]]
NextTimesAreFirings ==
    \A i \in Ids : Live(i) => NextTimes[ann[i].cron][now] = Firings[ann[i].cron][now]
=============================================================================
