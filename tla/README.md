# A verification model of qq-group-ops

TLA+ models of the QQ group operations bot and its admin console, model-checked
with TLC, with theorems checked by TLAPS. Every definition is translated from
the TypeScript and Vue source; `PROJECT.json` (`map`) names the lines each one
stands for. Paths below are relative to `src/` of the repository unless they
begin with `web/`, `docs/` or `scripts/`.

1. [The system](#the-system) and its inventory
2. [Modules](#modules): what models what, and how
3. [Runs](#runs): what each one checks, its bounds, what it shows
4. [Fairness](#fairness)
5. [Proofs](#proofs)
6. [Disagreements found](#disagreements-found)
7. [What is not modelled](#what-is-not-modelled)

## The system

One Node process serves a set of QQ groups. It connects to the QQ open platform
over a WebSocket (or a webhook), maps what arrives to events, routes each event
to a service, and answers over HTTP. Services keep their state in memory and
write every change through one serial queue to SQLite or PostgreSQL; files under
`data/` hold what must survive without a database. A tick scheduler runs the
periodic tasks. An admin API inside the process shares its services, and a
browser console talks to that API.

Node runs one callback at a time, so **the atomic steps are the stretches of code
between two `await`s**, and an action of a module is one such stretch. What makes
the system hard is what may happen in between: other events, timers, the same
operation started a second time, an answer that never comes, a crash.

### Inventory

| Part | State | Operations | Hard behaviour | Correct when |
|---|---|---|---|---|
| **Join requests** `joinAudit`, `joinApproval`, `joinAuditSync`, `joinRules`, `joinRequestRepository` | requests and audit log in memory; queued writes; two tables | event, rules, approve / reject, sync with the platform's list, TTL, retention | platform decides between read and record; lost answers; redelivered events; stale lists; crash before the write | no recorded decision the platform did not take; one decision per request; memory and tables agree |
| **Gateway** `qqOfficialGateway`, address cache of `qqOfficialClient` | socket, session, lastSequence, timers, attempts, cached address | connect, identify, resume, heartbeat, op 7 / 9, backoff, stop | error + close + timer in any order; silent links; moved addresses; stop during connect | one connection; each event once; never stuck; recovers |
| **Activities** `activity`, `activitySettings`, `activityNotifications`, `activity*Commands` | activity, registrations, waiting list, frozen places, groups, sent marks; tables | join, quit, release, promote, status, capacity, mode, deadline, rules, cards and notices | crash between queued writes; overlapping announcements | no overbooking; nobody waits beside a free place; the promoted hear of it |
| **Sending** `richMessages`, `sendThrottle`, `retry`, `passiveReplyQuota`, `qqOfficialClient` | the throttle's chain, disabled keyboards, quota | reply / send to user / group, retries, fallback forms | a timeout that was delivered; three layers that repeat | at most one copy; truthful results; every call ends |
| **Deployment** `deployInstaller`, `distSnapshot`, `restart`, `respawn.mjs`, restart flow of `main` | live targets, snapshot, archive, `incoming/`, deploy state, waiting package | scan, grace period, commit, cancel, rollback, preflight, respawn | failing renames; awaits inside a scan; crash; broken builds | no mixed build; the bot stays up; the way back is kept |
| **Scheduled tasks** `tickScheduler`, `scheduledAnnouncements`, `activityReminder` | running round, tasks, fire marks, hourly counts | tick, fire, send now, edit | fired then marked; edits while sending; overlapping triggers | once per minute at most; edits are not lost; the next firings shown are the firings |
| **Punishments, appeals, message guard** `punishments`, `appeals`, `messageGuard`, `blacklist`, `moderationNotifier`, `retention` | records, appeals, cooldowns, rota | warn, mute, kick, blacklist, release, appeal, decide, forward | read–await–write on one record; a death between call and record | one pending appeal; outcomes stand; a mute is on record; somebody is on duty |
| **Roles, subscriptions, settings** `permissions`, `notifications`, `platformSettings`, `settingsImport` | maps with write-through, markers | grant, revoke, subscribe, opt out, set, clear, import, retry a module | start-up plants seeds again; lost writes; failed loads | nobody locks the owners out; what is taken back stays so |
| **Group rules** `groupConfig`, `groupConfigCore`, `ruleCommands` | default rules, overrides, which fields are explicit; three tables | set, clear, reset, keywords, lists, reload | memory, marks, columns, keywords and settings rows written apart | a restart changes nothing; what is cleared falls back |
| **Users** `identityMap`, `shortCodes`, `userProfiles`, `classAliases`, `privacy`, `dataMigration` | bindings, codes, profiles, aliases; tables | bind, show, resolve, set, clear, anonymise, migrate, backup | tables rewritten beside services; DELETE + INSERT; PostgreSQL's pool | bindings kept; codes not reused; the forgotten stay forgotten |
| **Console and admin API** `web/src`, `adminApi/server`, `session`, `permissions` | the tab's page, identity, dialogs, busy flags; login sessions | load, write, switch group, sign in and out, expire | answers late, lost, of another page or group; sessions that end | what is offered is granted; one write at a time; a session in use stays |
| Write queue, persistence `writeQueue`, `db/*`, `persistence` | promise chain, tables | enqueue, flush | a failed write is dropped; crash | tables catch up with memory |
| Token cache `qqOfficialClient`, `botCache` | token, expiry, request in flight | ensure, refresh, invalidate | a late 401 discards a fresh token | one refresh at a time |
| Lock, stop, deploy watcher `instanceLock`, `stop`, `deployWatcher` | lock file, stop file, scheduled version | acquire, release, watch, schedule | two processes at once; shutdown order | one process |
| Webhook gateway `webhookEventGateway` | serial queue of events | receive, handle | acknowledged, then lost in a crash | handled in order |
| Cards, statistics, reports, menus, help, export, health, logging | – | parse, count, render | – | – |

How they meet: the **gateway** (or webhook) hands events to the **event router**,
which calls one service; services call the platform through the **client** (token,
throttle, retries), notify through **notifications** and **sending**, and queue
their writes on the one **write queue**. The **tick scheduler** calls join
reconciliation and TTL, reminders, announcements, retention, appeal forwarding,
and the deploy watcher and installer. **Commands** and the **admin API** call the
same services as events do, at any await of theirs; the **console** only knows what
the API last answered.

## Modules

| Module | Models | Lines to read beside it |
|---|---|---|
| `JoinDecision` | what join approval promises, without saying how | – (abstract) |
| `JoinRules` | blacklist, switches, mode and answer rules: pure operators | `joinRules.ts`, `joinApproval.ts` (`applyJoinRules`) |
| `JoinAudit` | the join components, their reviewers, the write queue with its two tables, crash and restart, the platform | `joinAudit.ts`, `joinApproval.ts`, `joinAuditSync.ts`, `reviewCommands.ts`, `eventRouter.ts:279`, `writeQueue.ts` |
| `Gateway` | the WebSocket gateway, the address cache, the platform's side of the sockets | `qqOfficialGateway.ts` |
| `Activity` | one activity from draft to end, its entrances, groups and notices, its tables, crash | `activity.ts`, `activitySettings.ts`, `activityNotifications.ts`, `commands/activity*.ts` |
| `Sending` | overlapping outgoing messages | `richMessages.ts`, `sendThrottle.ts`, `retry.ts`, `qqOfficialClient.ts` |
| `Deploy` | installer, restart flow, respawn helper, start | `deployInstaller.ts`, `main.ts:801-994`, `scripts/respawn.mjs` |
| `Moderation` | one member's punishments, the guard, the reviewers, the blacklist, appeals and the rota | `messageGuard.ts`, `punishments.ts`, `appeals.ts`, `moderationNotifier.ts` and their commands |
| `Cron` | schedule expressions: parsing into sets, the match, the next firings | `scheduledAnnouncements.ts:62-313` |
| `Schedule` | the timer's rounds, announcements, "send now", the activity reminder | `scheduledAnnouncements.ts`, `tickScheduler.ts`, `activityReminder.ts` |
| `Rules` | default rules and overrides, every edit of them, the queued writes, reload | `groupConfig.ts`, `groupConfigCore.ts`, `ruleCommands.ts` |
| `Access` | roles, subscriptions, a topic's threshold, a hot setting; start-up order | `permissions.ts`, `notifications.ts`, `platformSettings.ts`, `settingsImport.ts` |
| `Users` | bindings, short codes, profiles, aliases; anonymising and migrating | `identityMap.ts`, `shortCodes.ts`, `userProfiles.ts`, `privacyRepository.ts`, `dataMigration.ts` |
| `Console` | one tab of the console against the admin API and its sessions | `web/src/views/*.vue`, `adminApi/server.ts`, `adminApi/session.ts` |
| `MC*` | constants for TLC | |
| `*_proofs` | theorems | |

**JoinAudit.** `requests` is the service's map, `rows` its table, `queue` the write
queue. A handler that approves is a small process: `HandleEvent` or a review calls the
platform, `PlatformDecides` / `PlatformRefuses` is its answer (a decision whose answer
is lost included), `Settle` is what the handler does when it resumes. What the bot
does by itself is `JoinRules` over a configuration of the group, the blacklist and the
roster. A sync is `SyncStart` (throttle window), `SyncListed` (the list as the platform
shows it, which may lag by `ListLag`), `SyncApply` (add, then expire what is missing).
`WriteDone` and `WriteFails` execute the head of the queue; a failed write is dropped,
as the code does. `Crash` clears memory and queue, `Restart` loads the tables.
`JoinAudit` **implements** `JoinDecision` under the mapping `platform <- status`,
`view <- requests' status`, `running <- up`: checked by `join_safety` and proved.

**Gateway.** No event names the socket it came from: every handler acts on the fields
of the one gateway object, and so does the model. `connect` is the `connectOnce` in
progress, at one of its two awaits; `conn` holds each socket as both ends see it,
with the platform's session and how far it has sent. `GoesSilent` is a half-open link.

**Activity.** `ActivityService` never awaits, so an operation is one action; the
writes it queues reach `disk` one at a time and a crash may come between them (a write
that repeats what memory and table hold is left out of the queue). The desk's handlers
— commands, card buttons, API routes — first change the activity and then send notices
and cards, one await each; `sending` holds what is in flight, `sent` the marks, `owed`
whom a promotion concerns. `ActivityNotificationService` has a write queue of its own
(`activityNotifications.ts:94`): `marks` is that queue and `told` its table, so a crash
may keep the activity and lose the marks, or the other way round.

**Sending.** A message is one call of `RichMessageSender`. `plan` holds the forms
still to be tried (buttons, markdown, text; reply, then active), `chain` the throttle's
promise chain. The platform may deliver and answer, deliver and not answer, refuse
with any error the code distinguishes, or answer 401.

**Deploy.** A directory tree is the version it came from. `Commit` has four outcomes:
the replacement is refused, fails at some rename, is undone because the live `dist`
does not match, or installs. The old process (`flow`), the helper and the new process
never run at once except where the code lets them. Buttons and API act only where a
version to go back to exists.

**Moderation.** `recs`, `rows` and the appeals are what the services keep; `run` holds
the handlers under way, each with the calls it has `todo` and, when it read the record
before its first await, the copy it will write back. `muted` is the truth at QQ.
`unsure` marks the ways a mute may lose its record that the code has and no line
excludes; the properties name them.

**Schedule** over **Cron.** Rounds of the timer work on copies read before their awaits;
`MarkFired` looks the announcement up again. `fires` is the log the code counts, which a
kill may shorten; `copies` is every copy that was sent, and the limit is stated of it.
`lapses` counts the kills that left a send out of the log, `excuse` what may justify a
second copy in a minute. `InTime` is an assumption: no round and no send-now takes
longer than the log outlasts the window, which is 23 hours. The calendar's sizes are
constants, so a small year is explored completely. The reminder's broadcast may be
skipped.

**Rules.** A field is a set of words. Each entrance goes through `SetOverride`,
`ClearFields` or `RemoveOverride`, which change memory at once and queue writes to
columns, keywords and settings rows; some closures read memory when they run, as the
code's do. `load()` is two awaited reads while the program serves.

**Access.** A start loads each store (or fails to), plants the seeds that are missing,
imports `.env`, then serves; a retry loads a failed module again. Every edit checks
the editor's level as the command or route does. A reset of the default rules is an
edit too: `removeAll` deletes the threshold's and the opt-outs' rows (`[reset]` in the
queue) and tells `NotifyTopicLevelStore` nothing (`RemoveDefaultOverride`).

**Users.** `pooled` tells PostgreSQL from SQLite: with the first, answers come late and
in any order; with the second nothing runs inside a chain of queries. Binding is
awaited (`DELETE`, `INSERT`), the rest is queued, and anonymising and migrating rewrite
the tables and reload. `forgotten` are the users anonymised with nothing of theirs in
flight and untouched since; `revived` notes the two ways the code has of bringing part
of one back, until the store concerned is read anew.

**Console.** A tab has a page, a group, an identity it was told (`current`: nothing
changed since), dialogs, and calls under way; the server answers in any order, an
answer may be lost, the session may have ended. The levels a page asks for are the
page's, the levels a route wants are the route's: two sets of definitions from two
sources, compared by `OffersAreGranted`.

The modules of services compose with the write queue and the platform rather than
instantiating one module for each: the services share maps, and the hazards lie in
their interleaving.

## Runs

Every bound is a constant of the module or of its MC module; `PROJECT.json` lists a
mutant, a plausible bug in a mapped definition, for every property, and TLC finds the
property violated with it. Each module that is run also states its `TypeOK`; it holds on the
instance of its run and is proved for every instance, so the configurations spend their
time on the properties below.

| Run | Bounds | Shows |
|---|---|---|
| `join_safety` | 1 request, 4 configurations of rules, 2 deciders, 1 syncer, 3 ticks, TTL 1, retention 2, 1 crash, 1 failed write | `DecisionsAreReal`: no memory, queue, table or audit entry says "approved" or "rejected" unless the platform decided so. `WriteThrough`: without failed writes the queue drains to exactly what memory holds (a failed one is `DecisionsAreReal`'s case: memory may be ahead, never false). `DecidedOnce`. `ImplementsJoinDecision`. |
| `join_live` | 1 request, 1 decider, list lag 1, 3 ticks, 1 crash; fair | `ListCatchesUp`: requests decided in QQ leave the pending list and lost events are recovered. `LiveRequestsStay`: a live request never expires before its TTL. |
| `gateway` | 2 sockets, 2 sessions, 3 attempts, threshold 2, 2 moves, 2 events per session; fair | One connection, never stalled, each event once, silence noticed, recovery. |
| `activity_safety` | 2 members of one year, a creator and an administrator, 1 group, capacity 1 or none, 1 deadline, 2 sendings, 2 edits, 1 crash | `PlacesAreKept`, `FairQueue`, `DiskCatchesUp`, `PromotedHear`. |
| `sending_safety` | 3 messages, 2 of them replies to one event, quota 1, 3 attempts, delays capped; fair | At most one copy, truthful results, every call ends. |
| `deploy_safety` | 3 versions, one broken, 3 targets, archive of 2, 2 uploads, 2 faults of four kinds, 1 crash | `NoMixture`, `StaysUp`, `RollbackReady`, `CancelledStaysOut`. |
| `moderation` | 1 punishment, 2 appeals, 2 handlers at a time, 2 moderators, a rule hit of warn + mute, 4 starts, 1 restart; fair | `OnePending`, `MutesAreOnRecord`, `OutcomeStands`, `DutyReachesLast`. |
| `schedule` | 2 announcements, 2 expressions, limit 1 within 2 minutes (`Window` 1), the log kept for 3 (`Keep` 2), 3 minutes of a calendar of 2 × 2 minutes a day, 3 weekdays, 4 dates, 2 months; the first round, a timer round and a send-now; 1 edit, 1 kill | `SendsAreBounded`, `SendingEditsNothing`, `NextTimesAreFirings`. |
| `rules` | default rules and 1 group, 2 columns, keywords, 1 list, 3 edits, 1 lost write, reload or restart, queue 3 | `RestartChangesNothing`, `ClearedFallsBack`. |
| `admin` | 2 users, one of them in `ADMIN_USER_IDS`, 1 group role, 2 thresholds, 2 values, 4 edits, resets of the default rules among them, 2 troubles (lost writes, failed loads, stops), queue 2 | `AlwaysASuper`, `TakenBackStands`. |
| `users` | 2 users, 2 QQ numbers, 1 group, 2 new codes and 1 old, 1 alias, 3 messages, 3 operations, 1 trouble, queue 3; SQLite and PostgreSQL | `BoundIsKept`, `CodesAreNotReused`, `InStep`, `Forgotten`. |
| `console` | 1 tab, 2 groups, a super administrator and two ordinary accounts, 2 sessions of its own and 2 of another account, 2 kept, TTL 1, 2 calls, 3 events (requests sent, time, lost answers, restarts, what others do) | `OffersAreGranted`, `OneWriteAtATime`, `ActiveSessionStays`. |

Why the bounds are enough. *Join*: requests share nothing but the queue, the list
pages and the audit log, each of which is keyed by request, so one request with two
handlers, a sync, a crash and a failed write meets every interleaving of one request;
three ticks let TTL, minimum age and retention all pass. *Gateway*: the object has one
socket field, so two sockets are what can be confused; a session id and its successor
likewise; three attempts pass the threshold and the limit. *Activity*: a holder and
one who waits, with one place, meet every path that frees it; two sendings are what
one mark can be raced by. *Sending*: two replies compete for one passive slot beside
an active message, and three attempts have a first, a last, a retry and a second delay,
which the cap cuts.
*Deploy*: the previous, the current and the next version; two faults let a replacement
fail and its repair fail too. *Moderation*: a record is written back by one handler
over another, so two at a time; two moderators are a first and a last. *Schedule*: a
restart's first round beside the timer's and a command is all the code lets overlap;
the expressions restrict date and weekday together, the one rule that is not a
conjunction; a window of two minutes in three is passed by the clock, forgotten by the
log and spanned by sends of two minutes. *Rules*: rules fall back in one step, so one group under the defaults;
three edits are a set, a clear and one in between. *Access*: a seed, one more who can
become super, and two troubles (a lost write and the start that reads without it).
*Users*: two users claim two numbers in every order. *Console*: one write under way
and one more; two sessions kept and two more, so that a newcomer makes one of two others
go, whichever was seen last.

`CHECK_DEADLOCK FALSE` is set where the system may really rest or where a bound ends
it: a stopped gateway, a cancelled activity with everything written, a process the
helper gave up on, a console whose events are used up, edits used up.

## Fairness

Liveness is checked only under what the code's scheduling justifies.

- *Event loop*: a callback whose promise has settled runs (WF on the resuming actions).
- *HTTP*: every call ends, by an answer or by the fetch timeout (`fetchTransport.ts`).
- *Write queue*: its promise chain drains, because a failure is caught (`writeQueue.ts:25`).
- *Scheduler*: `TickScheduler` keeps running `join-reconcile`, `join-pending-ttl` and the
  appeal watcher (`main.ts:640-724`). Strong fairness appears only where the model's own
  bound on the queue switches an action off and on.
- *The platform's list*: `SF(SyncListed)` assumes of the environment that a sync started
  again and again is answered with the list some time. No line of the code can promise
  it; `ListCatchesUp` is under this assumption.
- *Restart*: a supervisor restarts a crashed process (`JoinAudit` only).
- *Gateway*: timers fire, awaits of `connectOnce` end, a socket to the working address
  opens, one to a dead address or that is closing closes, and the platform answers the
  handshake on a link that is alive. Nothing is assumed about the platform producing
  events, keeping a link alive or keeping its address.
- *Sending*: the chain's head runs and answers come. No fairness on the platform
  accepting anything.
- *Moderation*: the watcher runs, a stale appeal is looked at, a hold runs out. None on
  moderators answering or on handlers being started.

The other modules are checked for safety only: what they would reach depends on people.

## Proofs

TLC checks instances; these hold for every value of the constants. Assumptions are
the named `ASSUME`s of the modules and, for `LiveOnesStay`, the one in its statement.

| Module | Theorem | States | Argument |
|---|---|---|---|
| `JoinAudit_proofs` | `TypeCorrect` | `[]TypeOK` | each action keeps every type; one lemma per helper of the write queue |
| | `NoFalseDecision` | `[]DecisionsAreReal` | `DecisionsAreReal` speaks of memory, table, audit, queued writes and resuming handlers together: a write queued now is executed much later, so the table alone would not be inductive. With `TypeOK` it is, because a decision of the platform never changes |
| | `WritesReachTheTable` | `[]WriteThrough` | `LeadsToMemory`: a sequence of tables starts at the one on disk, makes one queued write a step and ends at one like memory. A handler prolongs it, the queue takes its first step away |
| | `ImplementsTheDecision` | `ImplementsJoinDecision` | under the invariant of `NoFalseDecision`, each group of actions is a step of `JoinDecision` or a stutter; a handler resuming with "ok" maps to a stutter of the platform and the record of a decision already taken |
| | `DecidesOnce` | `[]DecidedOnce` | `OnceInv`: a handler told "ok" is the only one for its request and comes before any record of it; a queued audit record is the only one and not yet a row |
| | `LiveOnesStay` | `LiveRequestsStay` | `LiveInv`: a list in hand is at most a tick old and, unless its pages are full, has every request of its group that was open for longer than the lag; where the group fits the pages, counting shows that none is missing. Assumes `0 < ListLag`, stated in the theorem |
| `Gateway_proofs` | `TypeCorrect` | `[]TypeOK` | `Counters`, `AddressesOf` and `Connections` beside `IInv`, next row, and `EventInv`: a connection is to an address of the platform, and an attempt that has looked one up holds it |
| | `SingleConnection` | `[]OneConnection` | `IInv` = shape of the sockets, "a connecting socket is the one of the attempt in flight" and "the current socket is the live one", with both properties as conjuncts: without `CurrentIsLive` a close event might belong to another socket |
| | `NeverStalls` | `[]NoStall` | same invariant |
| | `NothingTwice` | `[]EachEventOnce` | `InTouch`: an open connection with a session is one of the current session, and the platform's cursor on it is `lastSequence` |
| `Activity_proofs` | `TypeCorrect` | `[]TypeOK` | `IInv`, below |
| | `PlacesKept` | `[]PlacesAreKept` | `TablesInv`: a path of tables leads from the disk, write by write, to what memory holds, and every table on the path is `Sound`: no user has two rows, and places and frozen places fit the capacity. So the tables that a crash leaves in the middle of a promotion are sound too |
| | `TablesCatchUp` | `[]DiskCatchesUp` | the path of an empty queue has one table; the marks in memory are those of their table and those still queued |
| | `QueueIsFair` | `[]FairQueue` | inductive with `TablesInv`: who is promoted was not registered, so the promotion takes up exactly what a quit or a release gave back |
| | `PromotedAreTold` | `[]PromotedHear` | `Notices`: a notice that is owed is marked, over the day's number, or carried by a sending in flight; `Onward` drops only targets it may skip |
| | `SendingIsTyped` (`Sending`) | `[]SendingTypeOK` | `Chained`, `HeadTries`, `Planned`: a message is in the chain once, those behind the head wait, and the counter of attempts and the delay are the head's; 2^n is a number as the count of the subsets of n things |
| | `SentOnce` (`Sending`) | `[]AtMostOneCopy` | `CopiesAccounted`: while an attempt is still to come the platform has delivered nothing |
| | `ResultsAreHonest` (`Sending`) | `[]HonestResult` | same invariant |
| `Deploy_proofs` | `TypeCorrect` | `[]TypeOK` | each action keeps every type |
| | `RestartComesBack` | `[]StaysUp` | `RestartInv`: the snapshot is of a build that came up, and the helper works only while no process runs |
| | `RollbackFindsIt` | `[]RollbackReady` | `ArchiveInv`: unless its copy failed, the version applied is the newest package; so the next one only pushes it into second place, and the cut leaves at least two |
| | `GivenUpStaysOut` | `CancelledStaysOut` | `OutOfReach`: what was given up has no marker in the box and is not waiting; the one exception is in the statement |
| | `BuildsDoNotMix` | `NoMixture` | each outcome of `Commit` separately, the failing repair included |
| `Rules_proofs` | `TypeCorrect` | `[]TypeOK` | each edit, write and reload keeps every type |
| | `RestartKeepsTheRules` | `[]RestartChangesNothing` | `InStep`: a cell of the database ends as its last queued write leaves it, and that is what memory marks as set (`FieldEnds`, `RowEnds`); while a load is under way nothing of the rules is queued (`Calm`) |
| | `ClearedIsInherited` | `[]ClearedFallsBack` | memory, marks and the explicit sets move together in every edit, and a reload rebuilds all three |
| `Access_proofs` | `TypeCorrect` | `[]TypeOK` | each step of the services and of the queue keeps every type |
| | `ASuperRemains` | `[]AlwaysASuper` | a revocation needs a second super administrator, a load that leaves none plants the seeds, and between the two nothing is served |
| | `TakenBackStays` | `[]TakenBackStands` | `InStep` and `Ends`, the same for grants, subscriptions, tombstones and settings: behind every queued write that would bring something back there is one that takes it away. A queued reset leaves no opt-outs, so whoever counts as having declined did so after it, or has a tombstone behind it |
| | `ConsoleIsTyped` (`Console`) | `[]ConsoleTypeOK` | each thing pressed, served and heard keeps the types: what each page offers and what it makes of an answer, page by page |
| | `OffersAreKept` (`Console`) | `[]OffersAreGranted` | `GrantsInv`: while nothing has changed since the tab was told, every call and every dialog is one the server grants (`Granted`), which holds when it is offered because the pages' tests imply the routes' (`OffersAreInRange`, `ListsAreGranted`). The announcements page tests nothing when it draws a row, so its rows, answers and dialogs are followed as well (`OursAnnounced`) |
| | `WritesAreSingle` (`Console`) | `[]OneWriteAtATime` | `WritesInv`: calls the tab still waits for are of the page shown, and the page is busy with each, the list it asks for after a write included |
| | `SessionsAreKept` (`Console`) | `[]ActiveSessionStays` | `SessionsAgree` (a session was last seen when it was last accepted); an eviction takes the one not seen for longest, so all that stay were seen later, and counting them reaches the limit (`SessionsStay`) |
| `Moderation_proofs` | `TypeCorrect` | `[]TypeOK` | each handler keeps every type |
| | `MutesStayOnRecord` | `[]MutesAreOnRecord` | `SureInv`: a record has one handler at a time, none that holds it as not muted while it is, and a muted member has a record that says so and that nobody is lifting, or a handler about to write it |
| | `OneAppealPends` | `[]OnePending` | every step that touches appeals submits one where none is pending, rejects a pending one, accepts some or drops some (`AppealSteps`) |
| | `OutcomesHold` | `OutcomeStands` | each of those four raises the rank of an outcome, leaves it or removes the appeal |
| | `UsersAreTyped` (`Users`) | `[]UsersTypeOK` | the operations that differ only in who asks are one step each (`UsersSteps`); a message that sets several fields is a chain of `Take`s (`TakeKeeps`) |
| | `BindingsStay` (`Users`) | `[]BoundIsKept` | `KeptInv`: a binding kept has its row, and one still being written is alone only if no other binding under way names either of its sides and no job rewrites it |
| | `CodesStayTheirs` (`Users`) | `[]CodesAreNotReused` | `CodesInv`: whatever names somebody by a code (memory, its row, a queued save, what was shown) names the same user, and a code in use is in the pool, where no new one is taken |
| | `ForgottenStay` (`Users`) | `[]Forgotten` | `ForgetInv`: while a job runs alone, each table it has passed is empty of the user and nothing in the queue or a binding is the user's; the same stays true of everybody forgotten. Every other step leaves a user out of whom nothing is in flight where it found him (`Leaves`); the two that do not, a failed binding's snapshot and a migration's scan, are noted in `revived` |
| | `MemoryIsInStep` (`Users`) | `[]InStep` | `OneAtATime`: on SQLite either all is in step, or one operation's writes wait, or one binding is on its way, or one job runs, and each says how far memory and tables differ. It needs `CodesInv` (a save of a code lands) and `JobShape` of `ForgetInv` (reloads come after all tables) |
| `Schedule_proofs` | `TypeCorrect` | `[]TypeOK` | each step of a round keeps every type |
| | `SendsBounded` | `[]SendsAreBounded` | `ScheduleInv`: copies sent for a minute and copies that rounds in progress still owe it stay within one more than the excuses (`CountInv`). `CopiesInv`: while a window can still grow, each of its copies is in the log, under way, or left out by a kill (`AccountInv`), and a send begins only while the log has less than the limit of that window; so no window holds more copies than limit and overlapping sends, once per lapse and once more (`FloodInv`). A limit of 0 is none |
| | `NextTimesMatch` | `[]NextTimesAreFirings` | the set of minutes the walk over days, hours and minutes makes is the set the scanner's test accepts before the horizon (`SameFirings`): day, hour and minute of a minute, and the minute of a day, hour and minute, are inverse by division with remainder |
| | `SendingLeavesEdits` | `SendingEditsNothing` | `Tables`: what a round or a send-now writes is the minute of the announcement as it is found then (`OnlyMarked`), not of the copy it holds |

The queue's writes applied one after the other would be a recursive function of the
queue. The proofs have no induction over data, so they say instead that a *path* of
tables exists whose steps are the writes (`LeadsToMemory`, `TablesInv`); extending or
shortening it by one write needs no induction.

`Activity_proofs` holds the theorems about `Sending` as well, which carries the
activity's cards; this is why the definitions of `Sending` that every module has (its
`Init`, `Next`, `Spec` and `TypeOK`) bear its name. In the same way `Moderation_proofs`
holds those about `Users`, and `Access_proofs` those about `Console`, which compares its
levels with the ones the permissions of `Access` grant.

Every safety property that a run checks is proved. Only model-checked is every liveness
property (`ListCatchesUp`, `SilenceIsNoticed`, `Recovers`, `Settles`, `DutyReachesLast`):
fairness and `ENABLED` are out of the prover's reach.

## Disagreements found

Places where the code does something other than a document, comment or neighbouring
line says. They were met while translating it; the properties of the runs state what
does hold, with the exceptions named here.

| Where | The repository says | The code does |
|---|---|---|
| join approval | the platform is called first and the local status updated on success (`joinApproval.ts`) | while the call is awaited, the sync, the TTL or another handler told "already handled" expires the request; the accepted decision is not recorded and the request stays "expired" |
| join records | memory and tables hold the same (`writeQueue.ts:8`) | a decision overwrites the applicant's words in the reason column only (`joinRequestRepository.ts:71`) |
| gateway | a dead cached address is dropped after repeated failures (`qqOfficialGateway.ts:242`) | a socket that cannot connect only fires `error` and `close` (`:161`), which never reach the code that drops the address |
| activity | waiting list and registrations survive a restart (`docs/OPERATIONS.md:428`) | a promotion is two queued writes; a crash between them loses the user from both lists |
| activity | a group is told of a full activity once (`docs/OPERATIONS.md:426`) | two overlapping announcements both send the card (`activityNotifications.ts:282`) |
| activity | automatic mode never has frozen places (`activityCore.ts:59`) | a change of mode releases one of them (`activitySettings.ts:370`) |
| sending | buttons are disabled only when the platform says it has none (`richMessages.ts:307`) | every unrecognised error disables them (`:393`) |
| deployment | a failing replacement is put back whole (`deployInstaller.ts:1225`, `:677`) | a target whose second rename fails is not in `done` and stays missing (`:1254`) |
| deployment | `deploy-state.json` holds the version in effect (`deployInstaller.ts:82`) | after a failed preflight `dist` is restored, the record is not (`main.ts:918`) |
| moderation | pending appeals are never removed by retention (`retention.ts:41`) | memory keeps them (`appeals.ts:220`), but the `DELETE` goes by age alone (`appealRepository.ts:71`), so the next start forgets them; one whose punishment was removed is never answered |
| moderation | the answer of a release says that the mute is lifted | a failed unmute is ignored and reported as released; accepting from a card tells the appellant nothing (`moderationCards.ts:236`); an acceptance overwrites a refusal given meanwhile (`appealCommands.ts:336`) |
| schedule | once per minute (`scheduledAnnouncements.ts:1258`) | a send-now that crosses a minute puts the mark back, and the next round sends again (`announceCommands.ts:34`) |
| schedule | a reminder can be set again (`docs/COMMANDS.md:483`) | the second one is skipped because the card was sent (`activityNotifications.ts:278`); one set during its own broadcast is cleared (`activityReminder.ts:79`) |
| schedule | a restart does not send again (ADR-0062; `scheduledAnnouncements.ts:957`, `announceCommands.ts:32`) | a kill between the send and the landing of its mark sends the announcement again in the same minute, and one that loses the record of a send lets the hourly count begin anew; `SendsAreBounded` admits one such copy, and one such lapse, a kill |
| rules | `/rules reset` touches rules; announcements stay (`scheduledAnnouncements.ts:769`, `docs/COMMANDS.md:541`, `:1009`) | `removeAll` deletes every row of the group in `group_settings`, those of announcements and, for the defaults, of notification levels included (`groupConfig.ts:495`); `WrittenThrough` in `Rules` states it, and no run checks it |
| rules | clearing a default field falls back at once (`docs/COMMANDS.md:1298`, `docs/DECISIONS.md:757`) | a field of `group_settings` keeps its value in memory until the next start (`groupConfig.ts:367`) |
| access | an unsubscription leaves a tombstone, "otherwise the next start plants it again" (`notifications.ts:315`); no restart plants it again (`notifyCommands.ts:391`) | a reset of the default rules deletes the tombstones, and the threshold, from the table (`groupConfig.ts:494-499`), and the next start subscribes again; what memory holds as an opt-out is not written again by turning the topic off once more |
| access | who opts out stays out | below level 200 no tombstone is written, so raising the level and restarting subscribes again |
| users | a failed write of a binding rolls memory back (`identityMap.ts:36`) | the old binding's row is not put back when its `DELETE` landed and the `INSERT` failed, and the maps restored are those of before the await: bindings made and users anonymised meanwhile are undone in memory, whoever's they are (`identityMap.ts:187`), although memory is reloaded so that it does not know the person (`privacy.ts:18`) |
| users | every row of an anonymised user has the placeholder, personal fields are emptied (`privacy.ts:49`) | a migration that scanned before saves the profile it has scanned (`dataMigration.ts:299`); it overwrites a profile edited meanwhile in the same way, in the table and by the reload in memory, so that `InStep` holds of the old values |
| users | the same id always has the same code (`shortCodes.ts`) | a reload under a queued save makes a second code that never lands |
| users | nothing leads from the placeholder to the person (`privacy.ts:49`, `docs/COMMANDS.md:736`) | the answer of `/data anonymize` shows the user and so makes a new code row for the id (`dataCommands.ts:94`) |
| console | a session slides (`docs/ADMIN-API.md:130`, `web/src/views/LoginView.vue:82`, `session.ts:10`) | the server's does; the cookie's `Max-Age` is set at login only (`server.ts:1335`) |
| console | a page shows the group that is selected | `RulesView` resets and edits by the fields it shows, which are the previous group's until the answer comes (`web/src/views/RulesView.vue:290`) |
| console | the audit's CSV is offered to moderators | the server wants a group administrator |

Smaller things worth knowing: an override that was there when `.env` was first imported
gets no marker (`settingsImport.ts:16`), so after it is cleared the next start imports
`.env` (`ClearedStaysCleared` is of settings imported with their marker); a group with more open requests than five pages loses
live ones from the pending list (`joinAudit.ts:187`; `LiveRequestsStay` states the
condition); raising a capacity promotes nobody; a second promotion of the same user is
silent; a smart `/profile set` may write half of what it was given before it fails; an
edit made while a module is reloaded saves a row without the columns not yet read
(`groupConfig.ts:111`); a late 401 of an old session sends a tab that has just signed
in back to the login page; Esc on a dialog whose request is under way lets the answer
close the next dialog; in the console's join page opening a refusal forgets that an
approval is under way (`PendingView.vue:150`).

## What is not modelled

`PROJECT.json` (`components`) lists every part with its status. Left out for good:
rendering and wording (cards, menus, help, statistics, reports), the mapping of raw
payloads, SQL dialects and migrations of the schema, export, logging: they hold no
state on which a decision depends, or are translations a unit test covers. The **token
cache** (a late 401 costs one more refresh), the **webhook gateway** (a serial queue),
and the **instance lock, stop file and file-by-file deployment** (files shared between
processes) would each be a module of its own; `Sending`, `JoinAudit` and `Deploy` treat
their effects (401, lost and repeated events, a restart asked for) as choices of the
environment.

Within the modelled parts:

- `Sending`: the silent-mode guard, plain-text sends, image uploads; the exact count of
  the passive quota, which overlapping replies may exceed (`qqOfficialClient.ts:218`).
- `Deploy`: unreadable markers, receipts, dependency refresh, a process killed inside
  the synchronous replacement.
- `Activity`: promotions by a change of mode are not in `owed`; titles, links, subscriptions as such; failing writes, which `JoinAudit`,
  `Rules`, `Access` and `Users` explore.
- `Moderation`: what two handlers overwriting one record lose (that case sets `unsure`, and
  `MutesAreOnRecord` says nothing from then on), and a refusal overwritten by an acceptance
  (`OutcomeStands` lets the outcome rise); message excerpts, exempt members, which pattern matches (the
  environment's choice), blacklist import, global kicks group by group.
- `Cron`: dates and their arithmetic are the calendar's. The code goes through the local
  `Date` (`scheduledAnnouncements.ts:282`), where a change of clocks leaves an hour out or
  has it twice; nothing is said of those days.
- `Schedule`: the contents of announcements; whether the reminder's broadcast goes out
  is a free choice; a hot change of the scan interval.
- `Rules`: `RestartChangesNothing` leaves out a keyword list set to nothing, for which the
  database has no row (`Durable`), and `ClearedFallsBack` the list fields of
  `group_settings`, whose value stays in memory until the next start; panels that only show; the wizard's steps before it saves.
- `Access`: `ADMIN_USER_IDS` names at least one user (`SeedList # <<>>`). The code accepts
  an empty list (`config.ts:309`), with which a platform may have no administrator;
  subscriptions to one group, the delivery of alerts and its dedupe
  (checked before the awaited send and recorded after it, `notifications.ts:128`).
- `Users`: `BoundIsKept` is of bindings no other operation touches; an old binding lost
  between the `DELETE` and a failing `INSERT` is not among them. The codes of an anonymised
  user are `CodesAreNotReused`'s subject, not `Forgotten`'s. The roster file; loads are atomic; one anonymising and one migration at a time.
- `Console`: machine tokens, rate limits, routes answered 503 because no reader is
  wired, filters and paging; an answer that was "ok" to a page already left does not
  start its reload; the redirect after login opens any page.
