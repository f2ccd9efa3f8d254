---------------------------- MODULE Moderation ------------------------------
(***************************************************************************)
(* Keyword punishments of one member of one group: the message guard that  *)
(* records and executes them, the reviewers who change them from cards and *)
(* commands, the blacklist, the member's appeals, and the moderators who   *)
(* take turns answering them.                                              *)
(*                                                                         *)
(* Sources: services/moderation.ts, messageGuard.ts, punishments.ts,       *)
(* blacklist.ts, appeals.ts, moderationNotifier.ts, appealWatcher.ts,      *)
(* retention.ts and commands/punishCommands.ts, appealCommands.ts,         *)
(* blacklistCommands.ts, and their routes in adminApi/server.ts and        *)
(* adminApi/backend.ts.                                                    *)
(*                                                                         *)
(* A handler runs until it awaits a call to QQ; `todo` holds the calls it  *)
(* has still to make, and other handlers run in between.  A handler that   *)
(* read the record before its first await writes that copy (`rec`) back    *)
(* after the last one.  QQ's answer to a call is a failure or a success;   *)
(* only what the member can feel of it is kept: is he muted?               *)
(***************************************************************************)
EXTENDS Naturals, Sequences

CONSTANTS
    Puns,            \* punishment codes
    NApps,           \* bound: appeal codes
    NWorkers,        \* bound: handlers in flight
    Actors, Level,   \* who presses the buttons, and his level in the group
    Mods,            \* moderators subscribed to "punish", in subscription order
    Configs,         \* punishActions a group may be configured with
    Matches,         \* sets of actions of the rules that a message may hit
    MaxStarts,       \* bound: handlers started
    MaxRestarts      \* bound: restarts

Apps == 1..NApps
Workers == 1..NWorkers

Moderator == 120
GlobalSuperAdmin == 300

ASSUME ModerationConstants ==
    /\ Level \in [Actors -> Nat]
    /\ Mods \in Seq(STRING) /\ Len(Mods) > 0
    /\ {NApps, NWorkers, MaxStarts, MaxRestarts} \subseteq Nat

VARIABLES
    recs,            \* PunishmentService.records
    bans,            \* BlacklistService.entries for the member: scopes
    muted,           \* QQ: is the member muted?
    run,             \* the handlers in flight
    appeals,         \* AppealService.appeals: status per code, and the punishment
    rows,            \* appeals that have a row in appeal_records
    old,             \* records and appeals created before the retention cutoff
    duty, cursor,    \* ModerationNotifier.assignments and groupCursor
    scan,            \* AppealWatcher.runOnce: snapshot still to visit
    unsure,          \* history: a mute may have escaped the records (see below)
    starts, restarts

service == <<recs, bans, appeals, rows>>
rota    == <<duty, cursor, scan>>
vars == <<recs, bans, muted, run, appeals, rows, old, duty, cursor, scan, unsure, starts, restarts>>

Idle == [kind |-> "idle"]
NoDuty == [holder |-> 0, stale |-> FALSE]
NoRec == [status |-> "none", muted |-> FALSE, black |-> ""]
NoAppeal == [status |-> "none"]

Exists(p) == recs[p].status # "none"
Pending(a) == appeals[a].status = "pending"
PendingByPunishment(p) == {a \in Apps : Pending(a) /\ appeals[a].pun = p}

(* ------------------------- rules and the guard ------------------------- *)

ActionPriority(x) ==
    CASE x = "allow" -> 0 [] x = "warn" -> 1 [] x = "review" -> 2
      [] x = "recall" -> 3 [] x = "mute" -> 4 [] x = "kick" -> 5

\* RuleEngine.highestAction over the actions of the rules that match.
HighestAction(matches) ==
    IF matches = {} THEN "allow"
    ELSE CHOOSE x \in matches : \A y \in matches : ActionPriority(y) <= ActionPriority(x)

\* Group configuration and rule action, united.
PlanFor(action, configured) ==
    LET hard == (configured \union {action}) \intersect {"recall", "mute", "kick"}
        acts == hard \union (configured \intersect {"blacklist"})
    IN IF acts # {} \/ "warn" \in configured THEN acts \union {"warn"} ELSE {}

\* The calls of execute(), in its order; a rule that asks for review makes none.
Execute(action, plan) ==
    IF action = "review" THEN <<>>
    ELSE (IF "mute" \in plan THEN <<"mute">> ELSE <<>>)
         \o (IF "kick" \in plan THEN <<"kick">> ELSE <<>>)
         \o (IF "blacklist" \in plan THEN <<"ban">> ELSE <<>>)

\* A handler starts in the first free slot.
Starts(w) == /\ run[w] = Idle /\ \A v \in 1..(w - 1) : run[v] # Idle
             /\ starts < MaxStarts /\ starts' = starts + 1
Begin(w, op) == Starts(w) /\ run' = [run EXCEPT ![w] = op]

\* A message of the member hits rules: the record is written first, with the
\* planned actions, and then the actions are executed.
HandleMessage(w, p, matches, configured) ==
    LET action == HighestAction(matches)
        plan   == PlanFor(action, configured)
    IN /\ matches # {}
       /\ plan \ {"warn"} # {}
       /\ ~Exists(p) /\ p \notin old
       /\ recs' = [recs EXCEPT ![p] =
             [status |-> "active", muted |-> "mute" \in plan,
              black |-> IF "blacklist" \in plan THEN "group" ELSE ""]]
       /\ Begin(w, [kind |-> "guard", pun |-> p, todo |-> Execute(action, plan)])
       /\ UNCHANGED <<bans, muted, appeals, rows, old, rota, unsure, restarts>>

(* --------------------------- card operations --------------------------- *)

\* Another handler has read, or is about to change, the same record.
Overlaps(w, p) == \E v \in Workers \ {w} : run[v].kind \in
                     {"guard", "release", "setMute", "kick", "blacklist"} /\ run[v].pun = p

CardOp(w, kind, p, todo, extra) ==
    /\ Exists(p)
    /\ Begin(w, [kind |-> kind, pun |-> p, rec |-> recs[p], todo |-> todo, extra |-> extra])
    /\ unsure' = (unsure \/ Overlaps(w, p))
    /\ UNCHANGED <<recs, muted, appeals, rows, old, rota, restarts>>

\* release(): unmute if the record says muted, then drop its blacklist entry.
\* `app` is the appeal being accepted, or 0 for /punish release.
Release(w, p, app) ==
    /\ recs[p].status = "active"
    /\ CardOp(w, "release", p,
              (IF recs[p].muted THEN <<"unmute">> ELSE <<>>)
              \o (IF recs[p].black # "" THEN <<"unban">> ELSE <<>>), app)
    /\ UNCHANGED bans

SetMute(w, p, seconds) ==
    /\ CardOp(w, "setMute", p, <<IF seconds > 0 THEN "mute" ELSE "unmute">>, seconds)
    /\ UNCHANGED bans

Kick(w, p) == CardOp(w, "kick", p, <<"kick">>, 0) /\ UNCHANGED bans

\* blacklistUser(): add() sets the entry before it kicks and calls QQ.
BlacklistUser(w, p, scope) ==
    /\ CardOp(w, "blacklist", p, <<"kick">>, scope)
    /\ bans' = bans \union {scope}

RequireReviewer(x) == Level[x] >= Moderator
MayUseScope(x, scope) == Level[x] >= IF scope = "global" THEN GlobalSuperAdmin ELSE Moderator

\* The operations a record's card, /punish and the admin API offer alike.
Dispose(w, x, p, act) ==
    \/ act = "release" /\ Release(w, p, 0)
    \/ act = "mute" /\ \E seconds \in {0, 1} : SetMute(w, p, seconds)
    \/ act = "kick" /\ Kick(w, p)
    \/ act \in {"group", "global"} /\ MayUseScope(x, act) /\ BlacklistUser(w, p, act)

\* /punish release|mute|kick|blacklist.
HandlePunish(w, x, p) ==
    /\ RequireReviewer(x)
    /\ \E act \in {"release", "mute", "kick", "group", "global"} : Dispose(w, x, p, act)

\* What the card sent to x offers; the appeal card has two buttons more.
PunishmentCard(x) ==
    {"release", "mute", "kick", "group"}
    \union IF Level[x] >= GlobalSuperAdmin THEN {"global"} ELSE {}
AppealCard(x) == {"accept", "reject"} \union PunishmentCard(x)

\* cb:punish:*: the click is authorised again, whoever got the card.
PunishCallback(w, x, p) ==
    /\ RequireReviewer(x)
    /\ \E button \in AppealCard(x) : Dispose(w, x, p, button)

\* AdminWriters.punish, behind POST /api/punishments/:code/:action.
Punish(w, x, p, act) == RequireReviewer(x) /\ Dispose(w, x, p, act)
PunishmentRequest(w, x, p) ==
    \E act \in {"release", "mute", "kick", "group", "global"} : Punish(w, x, p, act)

\* BlacklistService.add for /blacklist add: no record is involved.
BlacklistAdd(w, scope) ==
    /\ bans' = bans \union {scope}
    /\ Begin(w, [kind |-> "ban", todo |-> <<"kick">>])
    /\ UNCHANGED <<recs, muted, appeals, rows, old, rota, unsure, restarts>>

BlacklistRemove(scope) ==
    /\ scope \in bans
    /\ bans' = bans \ {scope}
    /\ UNCHANGED <<recs, muted, run, appeals, rows, old, rota, unsure, starts, restarts>>

HandleBlacklist(w, x, scope) ==
    MayUseScope(x, scope) /\ (BlacklistAdd(w, scope) \/ BlacklistRemove(scope))

\* POST and DELETE /api/blacklist.
AddBlacklist(w, x, scope) == MayUseScope(x, scope) /\ BlacklistAdd(w, scope)
RemoveBlacklist(x, scope) == MayUseScope(x, scope) /\ BlacklistRemove(scope)
BlacklistRequest(w, x, scope) == AddBlacklist(w, x, scope) \/ RemoveBlacklist(x, scope)

\* The buttons of the list card: an entry can only be lifted.
BlacklistDeleteCard(x, scope) == MayUseScope(x, scope) /\ BlacklistRemove(scope)

(* ------------------------------- appeals ------------------------------- *)

\* A code no appeal has had (the first of them).
NewCode(a) ==
    /\ appeals[a] = NoAppeal /\ a \notin old
    /\ \A b \in 1..(a - 1) : appeals[b] # NoAppeal \/ b \in old

\* Mutant: "new" checked for a pending appeal before it awaited the guide, so
\* submit need not check again.
SubmitUnchecked(w, p, a) ==
    /\ NewCode(a)
    /\ appeals' = [appeals EXCEPT ![a] = [status |-> "pending", pun |-> p]]
    /\ rows' = rows \union {a}
    /\ run' = [run EXCEPT ![w] = [kind |-> "appeal", app |-> a, todo |-> <<"notify">>]]

\* submit(): one pending appeal per punishment and member; a second one only
\* changes the reason.  Returns through `run` whether reviewers are to be told.
Submit(w, p, a) ==
    IF PendingByPunishment(p) # {}
    THEN UNCHANGED <<appeals, rows>> /\ run' = [run EXCEPT ![w] = Idle]
    ELSE /\ NewCode(a)
         /\ appeals' = [appeals EXCEPT ![a] = [status |-> "pending", pun |-> p]]
         /\ rows' = rows \union {a}
         /\ run' = [run EXCEPT ![w] = [kind |-> "appeal", app |-> a, todo |-> <<"notify">>]]

\* decide(): whatever the status is by now.
Decided(as, S, status) == [a \in Apps |-> IF a \in S THEN [as[a] EXCEPT !.status = status]
                                                    ELSE as[a]]

\* /appeal <code>, or the "submit" button: refused while one is pending.
HandleAppeal(w, p, a) ==
    /\ Starts(w) /\ Exists(p) /\ PendingByPunishment(p) = {}
    /\ Submit(w, p, a)
    /\ UNCHANGED <<recs, bans, muted, old, rota, unsure, restarts>>

\* The "new" button under the group card: send the guide privately; when that
\* fails, the appeal is submitted without a reason.
AppealNew(w, p) ==
    /\ Exists(p) /\ PendingByPunishment(p) = {}
    /\ Begin(w, [kind |-> "guide", pun |-> p, todo |-> <<"guide">>])
    /\ UNCHANGED <<service, muted, old, rota, unsure, restarts>>

GuideSent(w) ==
    /\ run[w].kind = "guide"
    /\ run' = [run EXCEPT ![w] = Idle]
    /\ UNCHANGED <<service, muted, old, rota, unsure, starts, restarts>>

GuideFails(w, a) ==
    /\ run[w].kind = "guide"
    /\ Submit(w, run[w].pun, a)
    /\ UNCHANGED <<recs, bans, muted, old, rota, unsure, starts, restarts>>

\* afterAppealDecided(): tell the appellant, then the reviewers.  Nothing is
\* sent when the punishment is gone.
AfterAppealDecided(w, a) ==
    run' = [run EXCEPT ![w] = IF Exists(appeals[a].pun)
                              THEN [kind |-> "outcome", app |-> a, todo |-> <<"tell">>]
                              ELSE Idle]

\* Mutant: the button decides whatever the status has become.
AppealRejectAnyway(w, x, a) ==
    /\ Starts(w) /\ RequireReviewer(x)
    /\ appeals[a] # NoAppeal
    /\ appeals' = Decided(appeals, {a}, "rejected")
    /\ rows' = rows \union {a}
    /\ AfterAppealDecided(w, a)
    /\ UNCHANGED <<recs, bans, muted, old, rota, unsure, restarts>>

AppealReject(w, x, a) ==
    /\ Starts(w) /\ RequireReviewer(x)
    /\ Pending(a)
    /\ appeals' = Decided(appeals, {a}, "rejected")
    /\ rows' = rows \union {a}
    /\ AfterAppealDecided(w, a)
    /\ UNCHANGED <<recs, bans, muted, old, rota, unsure, restarts>>

\* "accept" releases the punishment first; the appeal is decided afterwards.
AppealAccept(w, x, a) ==
    /\ RequireReviewer(x) /\ Pending(a)
    /\ LET p == appeals[a].pun IN
       \/ Release(w, p, a)
       \/ /\ recs[p].status # "active" /\ Starts(w)
          /\ appeals' = Decided(appeals, {a}, "accepted")
          /\ rows' = rows \union {a}
          /\ AfterAppealDecided(w, a)
          /\ UNCHANGED <<recs, bans, muted, old, rota, unsure, restarts>>

\* decideAppeal() of the admin API, behind POST /api/appeals/:code/:decision: like
\* the buttons it looks whether the appeal is pending before it awaits the release.
DecideAppeal(w, x, a, accepted) ==
    IF accepted THEN AppealAccept(w, x, a) ELSE AppealReject(w, x, a)
AppealRequest(w, x, a) == \E accepted \in BOOLEAN : DecideAppeal(w, x, a, accepted)

(* -------------------------- calls and their end ------------------------ *)

Todo(w) == IF run[w] = Idle THEN <<>> ELSE run[w].todo

\* One awaited call of a punishment handler.  A failed setMute or kick ends the
\* handler; release() and the guard go on.
Call(w, ok) ==
    /\ Todo(w) # <<>> /\ run[w].kind \in {"guard", "release", "setMute", "kick", "blacklist", "ban"}
    /\ LET op == run[w]  c == Head(op.todo) IN
       /\ muted' = IF ok /\ c \in {"mute", "unmute"} THEN c = "mute" ELSE muted
       /\ bans' = IF c = "ban" THEN bans \union {"group"}
                  ELSE IF c = "unban" THEN bans \ {op.rec.black} ELSE bans
       /\ run' = [run EXCEPT ![w] =
                     IF ~ok /\ op.kind \in {"setMute", "kick"} THEN Idle
                     ELSE [op EXCEPT !.todo = Tail(@)]]
       /\ unsure' = (unsure \/ (~ok /\ c = "unmute" /\ op.kind = "release"))
    /\ UNCHANGED <<recs, appeals, rows, old, rota, starts, restarts>>

\* Mutant: every card operation but release() leaves `actions` as it was.
WrittenBack(op) ==
    IF op.kind = "release"
    THEN [op.rec EXCEPT !.muted = FALSE, !.black = "", !.status = "released"] ELSE op.rec

\* What the handler writes over the record, from the copy it read.
Written(op) ==
    CASE op.kind = "release"   -> [op.rec EXCEPT !.muted = FALSE, !.black = "", !.status = "released"]
      [] op.kind = "setMute"   -> [op.rec EXCEPT !.muted = op.extra > 0]
      [] op.kind = "kick"      -> op.rec
      [] op.kind = "blacklist" -> [op.rec EXCEPT !.black = op.extra]

\* After a card operation every pending appeal of the record counts as accepted.
AcceptAppeals(p) ==
    LET S == PendingByPunishment(p)
    IN appeals' = Decided(appeals, S, "accepted") /\ rows' = rows \union S

Finish(w) ==
    /\ run[w] # Idle /\ Todo(w) = <<>>
    /\ LET op == run[w] IN
       \/ /\ op.kind \in {"guard", "ban"}
          /\ run' = [run EXCEPT ![w] = Idle] /\ UNCHANGED <<recs, appeals, rows>>
       \/ /\ op.kind \in {"setMute", "kick", "blacklist"}
                \/ (op.kind = "release" /\ op.extra = 0)
          /\ recs' = [recs EXCEPT ![op.pun] = Written(op)]
          /\ AcceptAppeals(op.pun)
          /\ run' = [run EXCEPT ![w] = Idle]
       \/ /\ op.kind = "release" /\ op.extra # 0
          /\ recs' = [recs EXCEPT ![op.pun] = Written(op)]
          /\ IF appeals[op.extra] = NoAppeal
             THEN run' = [run EXCEPT ![w] = Idle] /\ UNCHANGED <<appeals, rows>>
             ELSE /\ appeals' = Decided(appeals, {op.extra}, "accepted")
                  /\ rows' = rows \union {op.extra}
                  /\ run' = [run EXCEPT ![w] = [kind |-> "outcome", app |-> op.extra,
                                todo |-> <<"tell">>]]
    /\ UNCHANGED <<bans, muted, old, rota, unsure, starts, restarts>>

(* ------------------------ the moderators' rota ------------------------- *)

\* nextModerator(): a first assignment takes the group's cursor, a later one
\* the moderator after the holder, and none after the last.
FirstTurn == (cursor % Len(Mods)) + 1
\* Mutant: the search for the next one starts at the holder.
NextTurnFromHolder(holder) == holder

NextTurn(holder) == holder + 1

Assign(a, i) == duty' = [duty EXCEPT ![a] = [holder |-> i, stale |-> FALSE]]

\* notifyAppeal(): every administrator, and one moderator.
NotifyAppeal(w) ==
    /\ run[w].kind = "appeal"
    /\ Assign(run[w].app, FirstTurn)
    /\ cursor' = FirstTurn
    /\ run' = [run EXCEPT ![w] = Idle]
    /\ UNCHANGED <<service, muted, old, scan, unsure, starts, restarts>>

\* notifyAppealDecision() has come back; notifyAppealHandled() drops the assignment
\* and tells the others.
NotifyAppealHandled(w) ==
    /\ run[w].kind = "outcome"
    /\ duty' = [duty EXCEPT ![run[w].app] = NoDuty]
    /\ run' = [run EXCEPT ![w] = Idle]
    /\ UNCHANGED <<service, muted, old, cursor, scan, unsure, starts, restarts>>

HoldExpires(a) ==
    /\ duty[a] # NoDuty /\ ~duty[a].stale
    /\ duty' = [duty EXCEPT ![a].stale = TRUE]
    /\ UNCHANGED <<service, muted, run, old, cursor, scan, unsure, starts, restarts>>

\* AppealWatcher.runOnce(): a snapshot of the pending appeals, one at a time.
WatcherRuns ==
    /\ scan = {}
    /\ scan' = {a \in Apps : Pending(a)}
    /\ scan' # {}
    /\ UNCHANGED <<service, muted, run, old, duty, cursor, unsure, starts, restarts>>

\* forwardAppealIfStale(): `a` was pending when the snapshot was taken.
ForwardIfStale(a) ==
    /\ a \in scan
    /\ scan' = scan \ {a}
    /\ IF appeals[a] = NoAppeal \/ ~Exists(appeals[a].pun) THEN UNCHANGED <<duty, cursor>>
       ELSE IF duty[a] = NoDuty THEN Assign(a, FirstTurn) /\ cursor' = FirstTurn
       ELSE IF ~duty[a].stale THEN UNCHANGED <<duty, cursor>>
       ELSE IF NextTurn(duty[a].holder) <= Len(Mods)
            THEN Assign(a, NextTurn(duty[a].holder)) /\ UNCHANGED cursor
       ELSE Assign(a, duty[a].holder) /\ UNCHANGED cursor
    /\ UNCHANGED <<service, muted, run, old, unsure, starts, restarts>>

(* ------------------------- retention and restart ----------------------- *)

\* The cutoff moves past all there is (bound: once).
TimePasses ==
    /\ old = {}
    /\ old' = old \union {p \in Puns : Exists(p)} \union {a \in Apps : appeals[a] # NoAppeal}
    /\ old' # old
    /\ UNCHANGED <<service, muted, run, rota, unsure, starts, restarts>>

\* PunishmentService.pruneOlderThan.
PrunePunishments == [p \in Puns |-> IF p \in old THEN NoRec ELSE recs[p]]

\* AppealService.pruneOlderThan: memory loses the old decided ones; when there
\* were any, the table loses every old row.
StaleAppeals == {a \in Apps \intersect old : appeals[a] # NoAppeal /\ ~Pending(a)}
PruneRows == IF StaleAppeals # {} THEN rows \ old ELSE rows

RetentionRuns ==
    /\ recs' = PrunePunishments
    /\ appeals' = [a \in Apps |-> IF a \in StaleAppeals THEN NoAppeal ELSE appeals[a]]
    /\ rows' = PruneRows
    /\ unsure' = (unsure \/ \E p \in Puns : recs[p] # recs'[p] /\ recs[p].muted)
    /\ <<recs', appeals', rows'>> # <<recs, appeals, rows>>
    /\ UNCHANGED <<bans, muted, run, old, rota, starts, restarts>>

\* Everything in memory is lost but what was saved; handlers end where they are.
Restart ==
    /\ restarts < MaxRestarts
    /\ restarts' = restarts + 1
    /\ run' = [w \in Workers |-> Idle]
    /\ duty' = [a \in Apps |-> NoDuty] /\ cursor' = 0 /\ scan' = {}
    /\ appeals' = [a \in Apps |-> IF a \in rows THEN appeals[a] ELSE NoAppeal]
    /\ unsure' = (unsure \/ \E w \in Workers : run[w].kind \in {"setMute", "release"} /\ Todo(w) = <<>>)
    /\ UNCHANGED <<recs, bans, muted, rows, old, starts>>

(* ----------------------------- specification --------------------------- *)

Init ==
    /\ recs = [p \in Puns |-> NoRec] /\ bans = {} /\ muted = FALSE
    /\ run = [w \in Workers |-> Idle]
    /\ appeals = [a \in Apps |-> NoAppeal] /\ rows = {} /\ old = {}
    /\ duty = [a \in Apps |-> NoDuty] /\ cursor = 0 /\ scan = {}
    /\ unsure = FALSE /\ starts = 0 /\ restarts = 0

Next ==
    \/ \E w \in Workers, p \in Puns, m \in Matches, c \in Configs : HandleMessage(w, p, m, c)
    \/ \E w \in Workers, x \in Actors, p \in Puns :
          HandlePunish(w, x, p) \/ PunishCallback(w, x, p) \/ PunishmentRequest(w, x, p)
    \/ \E w \in Workers, x \in Actors, s \in {"group", "global"} :
          HandleBlacklist(w, x, s) \/ BlacklistDeleteCard(x, s) \/ BlacklistRequest(w, x, s)
    \/ \E w \in Workers, p \in Puns, a \in Apps : HandleAppeal(w, p, a)
    \/ \E w \in Workers, p \in Puns : AppealNew(w, p)
    \/ \E w \in Workers, x \in Actors, a \in Apps :
          AppealReject(w, x, a) \/ AppealAccept(w, x, a) \/ AppealRequest(w, x, a)
    \/ \E w \in Workers, a \in Apps : GuideFails(w, a)
    \/ \E w \in Workers : GuideSent(w) \/ Finish(w) \/ NotifyAppeal(w) \/ NotifyAppealHandled(w)
    \/ \E w \in Workers, ok \in BOOLEAN : Call(w, ok)
    \/ \E a \in Apps : HoldExpires(a) \/ ForwardIfStale(a)
    \/ WatcherRuns \/ TimePasses \/ RetentionRuns \/ Restart

\* The tick scheduler runs the watcher for ever and the clock does not stop;
\* nothing else has to happen.
Fairness ==
    /\ WF_vars(WatcherRuns)
    /\ \A a \in Apps : WF_vars(ForwardIfStale(a)) /\ WF_vars(HoldExpires(a))

Spec == Init /\ [][Next]_vars /\ Fairness

(* ------------------------------ properties ----------------------------- *)

TypeOK ==
    /\ DOMAIN recs = Puns
    /\ \A p \in Puns : recs[p].status \in {"none", "active", "released"}
                       /\ recs[p].black \in {"", "group", "global"}
    /\ bans \subseteq {"group", "global"}
    /\ rows \subseteq Apps /\ scan \subseteq Apps /\ old \subseteq Puns \union Apps
    /\ \A a \in Apps : duty[a].holder \in 0..Len(Mods)
    /\ cursor \in 0..Len(Mods)

(* A member never has two appeals pending for one punishment, whatever     *)
(* buttons and commands overlap (pendingFor is checked before the private  *)
(* guide is awaited, and checked again in submit).                         *)
OnePending == \A a, b \in Apps :
    Pending(a) /\ Pending(b) /\ appeals[a].pun = appeals[b].pun => a = b

Rank(s) == CASE s = "pending" -> 1 [] s = "rejected" -> 2 [] s = "accepted" -> 3

(* An appeal is not reopened, and an acceptance is not taken back by a     *)
(* reviewer who pressed "reject" on his own copy of the card; it leaves    *)
(* the list only with retention or a restart.                              *)
OutcomeStands == [][\A a \in Apps :
    (appeals[a] # NoAppeal /\ appeals'[a] # NoAppeal)
       => Rank(appeals'[a].status) >= Rank(appeals[a].status)]_vars

(* A mute the bot has made stays on a record, where a reviewer can lift it *)
(* - also when the process died between the call and the end of the guard, *)
(* which is why the guard writes the record first.  `unsure` names the     *)
(* ways out: two handlers on one record, an unmute that failed in          *)
(* release(), a death between the call and the write of a card operation,  *)
(* and a record that retention removed.                                    *)
MutesAreOnRecord == muted /\ ~unsure =>
    \/ \E p \in Puns : recs[p].muted
    \/ \E w \in Workers : run[w].kind = "setMute" /\ Todo(w) = <<>>

(* A pending appeal nobody answers is forwarded until the last moderator   *)
(* holds it, across restarts and decisions on other appeals.               *)
DutyReachesLast == \A a \in Apps :
    (Pending(a) /\ Exists(appeals[a].pun)) ~>
       (~Pending(a) \/ ~Exists(appeals[a].pun) \/ duty[a].holder = Len(Mods))
=============================================================================
