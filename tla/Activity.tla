------------------------------ MODULE Activity ------------------------------
(***************************************************************************)
(* One activity: registration, waiting list, frozen places, promotion, the *)
(* settings that change them, the groups it is bound to, the notices the   *)
(* desk sends, and the write-through to SQL with crashes.                  *)
(*                                                                         *)
(* Sources: services/activity.ts, services/activitySettings.ts,            *)
(* services/commands/activity*.ts, services/activityNotifications.ts and   *)
(* the activity routes of adminApi.                                        *)
(*                                                                         *)
(* ActivityService never awaits, so each of its operations is one step of  *)
(* the handler that calls it; what awaits is the sending of cards, once    *)
(* per group or member, which goes on beside everything else.  Titles,     *)
(* links and texts play no part here, nor do the cards that only show.     *)
(* Years stand for the colleges too: both have an allowed and a denied     *)
(* list.  A user has one registration at most (OnePlace), so `regs` is a   *)
(* set of users.                                                           *)
(***************************************************************************)
EXTENDS Naturals, Sequences, FiniteSets, SequencesExt

CONSTANTS
    Users,
    YearOf,          \* the year in a user's profile
    Subscribers,     \* users who subscribed to the groups' new activities
    Creator,         \* who created the activity
    Admins,          \* the administrators of its group
    Groups,
    Home,            \* the group the activity was created in
    Broadcasters,    \* sendings of cards that may be in flight
    Capacities,      \* capacities a manager sets
    Deadlines,       \* deadlines a manager sets
    Unlimited,       \* no capacity
    None,            \* no deadline
    DailyLimit,      \* activityNotifyDailyLimit, 0 for none
    MaxTime,         \* bound: the clock
    MaxHeld,         \* bound: frozen places
    MaxQueue,        \* bound: handlers run only while the write queue is this short
    MaxEdits,        \* bound: what managers do
    MaxCrashes       \* bound: crashes

ASSUME ActivityConstants ==
    /\ IsFiniteSet(Users) /\ Subscribers \subseteq Users
    /\ Home \in Groups
    /\ Capacities \subseteq Nat \ {0}
    /\ Deadlines \subseteq Nat
    /\ Unlimited \notin Nat /\ None \notin Nat
    /\ {DailyLimit, MaxTime, MaxHeld, MaxQueue, MaxEdits, MaxCrashes} \subseteq Nat

VARIABLES
    now,
    status, cap, mode, held, closeAt, rules,   \* the Activity object
    bound,           \* the groups it is bound to
    regs,            \* users with a registration
    wait,            \* the waiting list, by createdAt
    queue,           \* the services' one WriteQueue: writes not yet executed
    disk,            \* the tables of ActivityService
    sending,         \* cards being sent, by Broadcasters
    sent,            \* ActivityNotificationService.sent: marked <<kind, target>>
    marks,           \* its own WriteQueue: marks not yet written
    told,            \* the marks in its table
    owed,            \* history: promoted by a quit or a release, no send failed
    raised, lowered, \* history: capacity was raised / set below the occupancy
    edits, crashes

settings == <<status, cap, mode, held, closeAt, rules>>
places   == <<regs, wait>>
history  == <<raised, lowered>>
vars == <<now, status, cap, mode, held, closeAt, rules, bound, regs, wait, queue,
          disk, sending, sent, marks, told, owed, raised, lowered, edits, crashes>>

Years     == {YearOf[u] : u \in Users}
Waiting   == {wait[i] : i \in 1 .. Len(wait)}
(* Frozen places count as taken.                                           *)
Taken(rs, h)   == Cardinality(rs) + h
Full(rs, h, c) == c # Unlimited /\ Taken(rs, h) >= c
Idle == [at |-> "idle"]

(* createActivity: a draft, bound to the group it was created in, nobody   *)
(* barred; its first settings are already made and written.                *)
Init ==
    /\ now = 0 /\ status = "draft" /\ closeAt = None /\ held = 0
    /\ cap \in Capacities \union {Unlimited}
    /\ mode \in {"auto", "manual"}
    /\ rules = [allow |-> {}, deny |-> {}]
    /\ bound = {Home}
    /\ regs = {} /\ wait = <<>> /\ queue = <<>>
    /\ disk = [status |-> status, cap |-> cap, mode |-> mode, held |-> 0,
               closeAt |-> None, rules |-> rules, bound |-> bound,
               regs |-> {}, wait |-> <<>>]
    /\ sending = [b \in Broadcasters |-> Idle]
    /\ sent = {} /\ marks = <<>> /\ told = {} /\ owed = {}
    /\ raised = FALSE /\ lowered = FALSE /\ edits = 0 /\ crashes = 0

-----------------------------------------------------------------------------
(* Writes.                                                                 *)

Put(key, value) == [op |-> key, value |-> value]
Row(s, c, r)    == [op |-> "row", status |-> s, cap |-> c, rules |-> r]

(* A write that repeats what memory held before the handler ran changes    *)
(* nothing: an earlier write of the queue put it there.  It is left out.   *)
Fresh(new, old, write) == IF new = old THEN <<>> ELSE <<write>>

(* persistSettings: one write for each key.                                *)
Settings(m, h, at) ==
    Fresh(m, mode, Put("mode", m)) \o Fresh(at, closeAt, Put("closeAt", at))
        \o Fresh(h, held, Put("held", h))

(* persist: the activity row, then its settings.                           *)
Saved(s, c, r, m, h, at) ==
    Fresh(<<s, c, r>>, <<status, cap, rules>>, Row(s, c, r)) \o Settings(m, h, at)

(* The primary key of activity_waitlist allows a user one row.             *)
Without(s, u) ==
    IF \A i \in DOMAIN s : s[i] # u THEN s
    ELSE RemoveAt(s, CHOOSE i \in DOMAIN s : s[i] = u)

(* The tables after one write.                                             *)
Written(d, w) ==
    CASE w.op = "row"     -> [d EXCEPT !.status = w.status, !.cap = w.cap, !.rules = w.rules]
      [] w.op = "mode"    -> [d EXCEPT !.mode = w.value]
      [] w.op = "held"    -> [d EXCEPT !.held = w.value]
      [] w.op = "closeAt" -> [d EXCEPT !.closeAt = w.value]
      [] w.op = "bind"       -> [d EXCEPT !.bound = @ \union {w.value}]
      [] w.op = "unbind"     -> [d EXCEPT !.bound = @ \ {w.value}]
      [] w.op = "register"   -> [d EXCEPT !.regs = @ \union {w.value}]
      [] w.op = "deregister" -> [d EXCEPT !.regs = @ \ {w.value}]
      [] w.op = "queueUp"    -> [d EXCEPT !.wait = Append(@, w.value)]
      [] w.op = "dequeue"    -> [d EXCEPT !.wait = Without(@, w.value)]

(* The head of the queue is executed.                                      *)
Write ==
    /\ queue # <<>>
    /\ disk' = Written(disk, Head(queue))
    /\ queue' = Tail(queue)
    /\ UNCHANGED <<now, settings, bound, places, sending, sent, marks, told, owed, history,
                   edits, crashes>>

(* The head of the other queue: a mark.                                    *)
WriteMark ==
    /\ marks # <<>>
    /\ told' = told \union {Head(marks)}
    /\ marks' = Tail(marks)
    /\ UNCHANGED <<now, settings, bound, places, queue, disk, sending, sent, owed, history,
                   edits, crashes>>

Handles == Len(queue) <= MaxQueue /\ Len(marks) <= MaxQueue

-----------------------------------------------------------------------------
(* ActivityService.  These leave to the handler what it tells to whom.     *)

(* listBoundGroups: without a binding, the group of the activity.          *)
BoundGroups == IF bound = {} THEN {Home} ELSE bound

(* isRegistrationClosed: the deadline has no timer, the clock is read.     *)
RegistrationClosed == status # "open" \/ (closeAt # None /\ now >= closeAt)

(* checkEligibility: the denied list first, an empty allowed list allows.  *)
Eligible(u) ==
    /\ YearOf[u] \notin rules.deny
    /\ rules.allow # {} => YearOf[u] \in rules.allow

(* joinActivity's `occupied`.                                              *)
Occupied == Taken(regs, held)

(* joinActivity: a place, or the end of the waiting list.                  *)
JoinActivity(u) ==
    /\ ~RegistrationClosed
    /\ u \notin regs \union Waiting
    /\ IF cap # Unlimited /\ Occupied >= cap
       THEN /\ wait' = Append(wait, u)
            /\ queue' = Append(queue, Put("queueUp", u))
            /\ UNCHANGED regs
       ELSE /\ regs' = regs \union {u}
            /\ queue' = Append(queue, Put("register", u))
            /\ UNCHANGED wait
    /\ UNCHANGED <<settings, bound>>

(* promoteNextWaitlist: the first of the waiting list gets a registration, *)
(* whatever the status and the capacity.  The waiting-list row goes first. *)
(* `before` and `after` are the caller's own writes.                       *)
Promote(rs, before, after) ==
    IF wait = <<>>
    THEN regs' = rs /\ UNCHANGED wait /\ queue' = queue \o before \o after
    ELSE /\ regs' = rs \union {Head(wait)}
         /\ wait' = Tail(wait)
         /\ queue' = queue \o before \o
                <<Put("dequeue", Head(wait)), Put("register", Head(wait))>> \o after

(* cancelRegistrationWithPromotion.                                        *)
CancelRegistration(u) ==
    /\ u \in regs
    /\ \/ /\ mode = "auto"
          /\ Promote(regs \ {u}, <<Put("deregister", u)>>, <<>>)
          /\ UNCHANGED held
       \/ /\ mode = "manual" /\ held < MaxHeld
          /\ regs' = regs \ {u} /\ held' = held + 1
          /\ queue' = queue \o <<Put("deregister", u)>> \o Settings(mode, held', closeAt)
          /\ UNCHANGED wait
    /\ UNCHANGED <<status, cap, mode, closeAt, rules, bound>>

(* Mutant of ReleaseHeldSlot: the count is written after the promotion.    *)
ReleaseWrittenLate ==
    /\ held > 0 /\ held' = held - 1
    /\ Promote(regs, <<>>, Settings(mode, held', closeAt))
    /\ UNCHANGED <<status, cap, mode, closeAt, rules, bound>>

(* Mutant of ReleaseHeldSlot: the place goes to nobody.                    *)
ReleaseToAll ==
    /\ held > 0 /\ held' = held - 1
    /\ queue' = queue \o Settings(mode, held', closeAt)
    /\ UNCHANGED <<status, cap, mode, closeAt, rules, bound, places>>

(* releaseHeldSlot: a frozen place goes to the waiting list, or to all.    *)
ReleaseHeldSlot ==
    /\ held > 0 /\ held' = held - 1
    /\ Promote(regs, Settings(mode, held', closeAt), <<>>)
    /\ UNCHANGED <<status, cap, mode, closeAt, rules, bound>>

(* openActivity, closeActivity, cancelActivity: from any status.           *)
SetStatus(s) ==
    /\ status' = s
    /\ queue' = queue \o Saved(s, cap, rules, mode, held, closeAt)
    /\ UNCHANGED <<cap, mode, held, closeAt, rules, bound, places>>

(* bindGroup and unbindGroup: the home group may be unbound too.           *)
BindGroup(g) ==
    /\ g \notin bound
    /\ bound' = bound \union {g} /\ queue' = Append(queue, Put("bind", g))
    /\ UNCHANGED <<settings, places>>

UnbindGroup(g) ==
    /\ g \in bound
    /\ bound' = bound \ {g} /\ queue' = Append(queue, Put("unbind", g))
    /\ UNCHANGED <<settings, places>>

(* updateActivity, for the fields that matter here.                        *)
UpdateCapacity(c) ==
    /\ cap' = c
    /\ queue' = queue \o Saved(status, c, rules, mode, held, closeAt)
    /\ UNCHANGED <<status, mode, held, closeAt, rules, bound, places>>

UpdateCloseAt(at) ==
    /\ closeAt' = at
    /\ queue' = queue \o Saved(status, cap, rules, mode, held, at)
    /\ UNCHANGED <<status, cap, mode, held, rules, bound, places>>

UpdateRules(r) ==
    /\ rules' = r
    /\ queue' = queue \o Saved(status, cap, r, mode, held, closeAt)
    /\ UNCHANGED <<status, cap, mode, held, closeAt, bound, places>>

(* Mutant of UpdatePromotion: the new mode is only kept in memory.         *)
UpdatePromotionUnsaved(m) ==
    /\ mode' = m
    /\ UNCHANGED <<status, cap, held, closeAt, rules, bound, places, queue>>

(* resolveWaitlistPromotion: auto releases one frozen place first.         *)
UpdatePromotion(m) ==
    /\ mode' = m
    /\ \/ /\ m = "auto" /\ held > 0 /\ held' = held - 1
          /\ Promote(regs, Settings(mode, held', closeAt),
                           Saved(status, cap, rules, m, held', closeAt))
       \/ /\ ~(m = "auto" /\ held > 0)
          /\ queue' = queue \o Saved(status, cap, rules, m, held, closeAt)
          /\ UNCHANGED <<held, places>>
    /\ UNCHANGED <<status, cap, closeAt, rules, bound>>

-----------------------------------------------------------------------------
(* Cards on their way.                                                     *)

(* publishActivity and `resend` send to every group; the rest goes through *)
(* ActivityNotificationService, which tells a target once of each kind.    *)
OncePerTarget(kind) == kind \notin {"open", "resend"}

(* PushService.deliver: a member gets so many cards a day.  (The model has *)
(* one day.)                                                               *)
Limited(t, marked) ==
    t \in Users /\ DailyLimit > 0
    /\ Cardinality({m \in marked : m[2] = t}) >= DailyLimit

Skipped(kind, t, marked) ==
    OncePerTarget(kind) /\ (<<kind, t>> \in marked \/ Limited(t, marked))

(* The next target that is not skipped; the code takes them in the order   *)
(* of their ids, here any order.                                           *)
Deliveries(kind, todo, after, marked) ==
    {[at |-> "sending", kind |-> kind, to |-> t, todo |-> todo \ {t}, after |-> after] :
        t \in {x \in todo : ~Skipped(kind, x, marked)}}

(* participantIds: whoever has a place or waits for one.                   *)
Participants == regs \union Waiting

(* What follows when nobody is left: the groups' subscribers hear of a new *)
(* activity (pushNewActivity), the participants of a change.               *)
Onward(kind, todo, after, marked) ==
    LET audience == CASE after = "published" -> Subscribers
                      [] after = "changed"   -> Participants
                      [] after = "nothing"   -> {}
        here == Deliveries(kind, todo, after, marked)
        next == Deliveries(after, audience, "nothing", marked)
    IN  IF here # {} THEN here ELSE IF next # {} THEN next ELSE {Idle}

(* A handler starts a sending.                                             *)
Send(kind, targets, after) ==
    IF Onward(kind, targets, after, sent) = {Idle} THEN UNCHANGED sending
    ELSE \E b \in Broadcasters :
            /\ sending[b] = Idle
            /\ \E next \in Onward(kind, targets, after, sent) :
                  sending' = [sending EXCEPT ![b] = next]

(* announceActivityFull: only when full.                                   *)
AnnounceFull(rs, h, c, after) ==
    Send("full", IF Full(rs, h, c) THEN BoundGroups ELSE {}, after)

(* Mutant of NotifyPromoted: nobody is told.                               *)
NotifyNobody(p) == owed' = owed \union p /\ UNCHANGED sending

(* notifyPromoted, for those a handler took off the waiting list.          *)
NotifyPromoted(p) == owed' = owed \union p /\ Send("promoted", p, "nothing")

(* notifyActivityCancelled.                                                *)
NotifyCancelled == Send("cancelled", Participants, "nothing")

(* voidNotifyActivityChanged.                                              *)
NotifyChanged == Send("changed", Participants, "nothing")

(* The card went out: PushService has it marked (record).                  *)
CardSent(b) ==
    /\ sending[b] # Idle
    /\ LET s == sending[b]
           mark == IF OncePerTarget(s.kind) THEN {<<s.kind, s.to>>} ELSE {}
       IN  /\ sent' = sent \union mark
           /\ marks' = IF mark = {} THEN marks ELSE Append(marks, <<s.kind, s.to>>)
           /\ \E next \in Onward(s.kind, s.todo, s.after, sent') :
                 sending' = [sending EXCEPT ![b] = next]
    /\ UNCHANGED <<now, settings, bound, places, queue, disk, told, owed, history, edits, crashes>>

(* It did not, and nobody tries again.                                     *)
CardFailed(b) ==
    /\ sending[b] # Idle
    /\ LET s == sending[b]
       IN  /\ owed' = IF s.kind = "promoted" THEN owed \ {s.to} ELSE owed
           /\ \E next \in Onward(s.kind, s.todo, s.after, sent) :
                 sending' = [sending EXCEPT ![b] = next]
    /\ UNCHANGED <<now, settings, bound, places, queue, disk, sent, marks, told, history,
                   edits, crashes>>

-----------------------------------------------------------------------------
(* Members.                                                                *)

(* joinActivityCard: the last place is announced in the groups.  (A refusal*)
(* changes nothing.)                                                       *)
JoinCard(u) ==
    /\ Handles
    /\ Eligible(u)
    /\ JoinActivity(u)
    /\ IF u \in regs' THEN AnnounceFull(regs', held, cap, "nothing") ELSE UNCHANGED sending
    /\ UNCHANGED <<now, disk, sent, marks, told, owed, history, edits, crashes>>

(* quitActivityCard: only who has a registration; a waiting member cannot  *)
(* leave the list.                                                         *)
QuitCard(u) ==
    /\ Handles
    /\ CancelRegistration(u)
    /\ NotifyPromoted(regs' \ regs)
    /\ UNCHANGED <<now, disk, sent, marks, told, history, edits, crashes>>

-----------------------------------------------------------------------------
(* Managers.                                                               *)

(* canManageActivity, looked at again whatever the button.                 *)
CanManageActivity(m) == m = Creator \/ m \in Admins

Manage ==
    /\ Handles
    /\ edits < MaxEdits /\ edits' = edits + 1
    /\ UNCHANGED <<now, disk, sent, marks, told, crashes>>

(* publishActivity: the groups get the card, then the subscribers.         *)
PublishActivity(m) ==
    /\ Manage /\ CanManageActivity(m)
    /\ SetStatus("open") /\ Send("open", BoundGroups, "published")
    /\ UNCHANGED <<owed, history>>

(* handleActivityStatus: closing tells nobody.                             *)
HandleActivityStatus(m, s) ==
    /\ Manage /\ CanManageActivity(m)
    /\ SetStatus(s)
    /\ IF s = "cancelled" THEN NotifyCancelled ELSE UNCHANGED sending
    /\ UNCHANGED <<owed, history>>

HandleActivityRelease(m) ==
    /\ Manage /\ CanManageActivity(m)
    /\ ReleaseHeldSlot /\ NotifyPromoted(regs' \ regs)
    /\ UNCHANGED history

HandleActivityResend(m) ==
    /\ Manage /\ CanManageActivity(m)
    /\ Send("resend", BoundGroups, "nothing")
    /\ UNCHANGED <<settings, bound, places, queue, owed, history>>

Bind(g)   == Manage /\ BindGroup(g) /\ UNCHANGED <<sending, owed, history>>
Unbind(g) == Manage /\ UnbindGroup(g) /\ UNCHANGED <<sending, owed, history>>

HandleActivityBindCommand(m, g)   == CanManageActivity(m) /\ Bind(g)
HandleActivityUnbindCommand(m, g) == CanManageActivity(m) /\ Unbind(g)

(* The button of the group's row in the list of bound groups.              *)
HandleActivityUnbind(m, g) == CanManageActivity(m) /\ Unbind(g)

(* applyActivitySettingValue, one operator for each field.  The waiting    *)
(* list is not looked at when the capacity grows; when it is full the      *)
(* groups hear that before the participants hear of the change.            *)
SetCapacity(c) ==
    /\ Manage /\ UpdateCapacity(c)
    /\ AnnounceFull(regs, held, c, "changed")
    /\ raised' = (raised \/ c = Unlimited \/ (cap # Unlimited /\ c > cap))
    /\ lowered' = (lowered \/ (c # Unlimited /\ Taken(regs, held) > c))
    /\ UNCHANGED owed

SetCloseAt(at) ==
    /\ Manage /\ UpdateCloseAt(at) /\ NotifyChanged /\ UNCHANGED <<owed, history>>

(* The mode is no field participants hear of, and whom the change promotes *)
(* is not told.                                                            *)
SetPromotion(p) ==
    /\ Manage /\ UpdatePromotion(p) /\ UNCHANGED <<sending, owed, history>>

SetRules(r) ==
    /\ Manage /\ UpdateRules(r) /\ NotifyChanged /\ UNCHANGED <<owed, history>>

(* A field and its value.                                                  *)
ApplyActivitySetting ==
    \/ \E c \in Capacities \union {Unlimited} : SetCapacity(c)
    \/ \E at \in Deadlines \union {None} : SetCloseAt(at)
    \/ \E p \in {"auto", "manual"} : SetPromotion(p)
    \/ \E list \in {"allow", "deny"}, years \in SUBSET Years :
          SetRules([rules EXCEPT ![list] = years])

HandleActivitySet(m)         == CanManageActivity(m) /\ ApplyActivitySetting
HandleActivitySetCallback(m) == CanManageActivity(m) /\ ApplyActivitySetting

(* applyActivityRuleOption: a button of a rule card puts a year on a list, *)
(* takes it off, or clears the list, and tells nobody.                     *)
ApplyActivityRuleOption(list, option) ==
    /\ UpdateRules([rules EXCEPT ![list] =
          IF option = "clear" THEN {}
          ELSE IF option \in @ THEN @ \ {option} ELSE @ \union {option}])
    /\ UNCHANGED <<sending, owed, history>>

HandleActivityRuleToggle(m, list, option) ==
    Manage /\ CanManageActivity(m) /\ ApplyActivityRuleOption(list, option)

-----------------------------------------------------------------------------
(* The admin API: the group's administrators only, not the creator.        *)

(* setActivityStatus: no card goes out.                                    *)
SetActivityStatus(m, s) ==
    Manage /\ m \in Admins /\ SetStatus(s) /\ UNCHANGED <<sending, owed, history>>

UpdateActivity(m)        == m \in Admins /\ ApplyActivitySetting
BindActivityGroup(m, g)   == m \in Admins /\ Bind(g)
UnbindActivityGroup(m, g) == m \in Admins /\ Unbind(g)

-----------------------------------------------------------------------------
(* The three ways in.                                                      *)

MemberCard == \E u \in Users : JoinCard(u) \/ QuitCard(u)

(* handleActivity.                                                         *)
ActivityCommand(m) ==
    \/ PublishActivity(m)
    \/ \E s \in {"closed", "cancelled"} : HandleActivityStatus(m, s)
    \/ \E g \in Groups : HandleActivityBindCommand(m, g) \/ HandleActivityUnbindCommand(m, g)
    \/ HandleActivitySet(m)

(* activityCallbackCard: old cards stay in the chats, so any button may be *)
(* pressed in any state.                                                   *)
ActivityButton(m) ==
    \/ PublishActivity(m)
    \/ \E s \in {"closed", "cancelled"} : HandleActivityStatus(m, s)
    \/ HandleActivityRelease(m)
    \/ HandleActivityResend(m)
    \/ \E g \in Groups : HandleActivityUnbind(m, g)
    \/ HandleActivitySetCallback(m)
    \/ \E list \in {"allow", "deny"}, o \in Years \union {"clear"} :
          HandleActivityRuleToggle(m, list, o)

(* The routes under /api/activities.                                       *)
ActivityRequest(m) ==
    \/ \E s \in {"open", "closed", "cancelled"} : SetActivityStatus(m, s)
    \/ UpdateActivity(m)
    \/ \E g \in Groups : BindActivityGroup(m, g) \/ UnbindActivityGroup(m, g)

(* Time matters to nothing but a deadline.                                 *)
Tick ==
    /\ now < MaxTime /\ closeAt # None
    /\ now' = now + 1
    /\ UNCHANGED <<settings, bound, places, queue, disk, sending, sent, marks, told, owed, history,
                   edits, crashes>>

(* The process dies: what is queued is lost, load() reads the tables back. *)
Crash ==
    /\ crashes < MaxCrashes
    /\ crashes' = crashes + 1
    /\ status' = disk.status /\ cap' = disk.cap /\ mode' = disk.mode
    /\ held' = disk.held /\ closeAt' = disk.closeAt /\ rules' = disk.rules
    /\ bound' = disk.bound /\ regs' = disk.regs /\ wait' = disk.wait
    /\ sent' = told
    /\ queue' = <<>> /\ marks' = <<>>
    /\ sending' = [b \in Broadcasters |-> Idle]
    /\ owed' = {}
    /\ UNCHANGED <<now, disk, told, history, edits>>

Next ==
    \/ Write \/ WriteMark \/ Tick \/ Crash
    \/ MemberCard
    \/ \E m \in {Creator} \union Admins :
          ActivityCommand(m) \/ ActivityButton(m) \/ ActivityRequest(m)
    \/ \E b \in Broadcasters : CardSent(b) \/ CardFailed(b)

Spec == Init /\ [][Next]_vars

-----------------------------------------------------------------------------
(* Properties.                                                             *)

Statuses == {"draft", "open", "closed", "cancelled"}

(* Every variable has its type.                                            *)
TypeOK ==
    /\ now \in 0 .. MaxTime /\ status \in Statuses /\ mode \in {"auto", "manual"}
    /\ cap \in Capacities \union {Unlimited} /\ held \in Nat
    /\ closeAt \in Deadlines \union {None}
    /\ rules \in [allow : SUBSET Years, deny : SUBSET Years]
    /\ bound \subseteq Groups
    /\ regs \subseteq Users /\ wait \in Seq(Users)
    /\ owed \subseteq Users /\ {raised, lowered} \subseteq BOOLEAN
    /\ edits \in 0 .. MaxEdits /\ crashes \in 0 .. MaxCrashes

(* Nobody holds two places: joinActivity refuses a user it finds in either *)
(* map, and every promotion takes the user out of the waiting list, also   *)
(* when a restart rebuilds both from tables written one row at a time.     *)
OnePlace ==
    /\ regs \intersect Waiting = {}
    /\ Cardinality(Waiting) = Len(wait)

(* The activity is never overbooked: registrations and frozen places stay  *)
(* within the capacity, through quits, releases, promotions, mode changes  *)
(* and restarts, unless the capacity itself was set below them.            *)
WithinCapacity ==
    cap # Unlimited /\ ~lowered => Taken(regs, held) <= cap

(* One user, one place, and no more places than there are.                 *)
PlacesAreKept == OnePlace /\ WithinCapacity

(* Nobody waits while there is a free place a newcomer could take: every   *)
(* way a place comes free gives it to the waiting list or freezes it.      *)
(* (Raising the capacity does not promote anybody; a crash may come        *)
(* between the two writes of a release.)                                   *)
FairQueue ==
    wait # <<>> /\ ~raised /\ crashes = 0 => Full(regs, held, cap)

(* The tables catch up with memory: when a queue is empty a restart would  *)
(* change nothing of what it writes, whatever handlers queued and a crash  *)
(* dropped.                                                                *)
DiskCatchesUp ==
    /\ queue = <<>> =>
        disk = [status |-> status, cap |-> cap, mode |-> mode, held |-> held,
                closeAt |-> closeAt, rules |-> rules, bound |-> bound,
                regs |-> regs, wait |-> wait]
    /\ marks = <<>> => told = sent

(* Whom a quit or a release promoted hears of it, however the sendings     *)
(* overlap: when none is left in flight, each has got the notice of this   *)
(* activity, once (now or for an earlier promotion), or has had all cards  *)
(* of the day; a notice that failed is not owed any more.                  *)
PromotedHear ==
    (\A b \in Broadcasters : sending[b] = Idle) =>
        \A u \in owed : <<"promoted", u>> \in sent \/ Limited(u, sent)
=============================================================================
