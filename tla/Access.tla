------------------------------- MODULE Access -------------------------------
(***************************************************************************)
(* What administrators hold and choose, in memory and in the database:     *)
(* roles, the subscriptions to a topic, the topic's threshold, and a hot   *)
(* setting that used to live in .env.  Each store changes memory at once   *)
(* and queues its write on the one write queue; a start loads every store, *)
(* gives roles, subscriptions and the setting their first values when the  *)
(* database has none, and only then serves commands, buttons and requests  *)
(* of the admin API.                                                       *)
(*                                                                         *)
(* Sources: services/permissions.ts, permissionRoles.ts, notifications.ts, *)
(* notifyTopics.ts, platformSettings.ts, settingsImport.ts, health.ts,     *)
(* commands/permCommands.ts, notifyCommands.ts, configCommands.ts,         *)
(* ruleCommands.ts, groupConfig.ts, main.ts, runtime.ts and the matching   *)
(* parts of adminApi/backend.ts.                                           *)
(*                                                                         *)
(* One group, one topic and one setting stand for all; a subscription is   *)
(* one to "all groups", the only kind that start-up plants.                *)
(***************************************************************************)
EXTENDS Integers, Sequences, FiniteSets

CONSTANTS
    Users,
    SeedList,         \* ADMIN_USER_IDS
    GroupRoles,       \* "group_super", "group_admin", "moderator"
    Levels,           \* thresholds a topic may be given
    DefaultLevel,     \* NOTIFY_TOPIC_META[topic].defaultLevel
    NoValue,          \* no override of the setting: its built-in default applies
    EnvValue,         \* what .env says, other than the default
    Values,           \* what the setting can be set to
    Modules,          \* "platform", "notify", "permissions", in the order they load
    MaxEdits, MaxTroubles, MaxQueue    \* bounds: edits; failures, stops and retries; queue length

PLATFORM_LEVEL_MIN == 200

Seeds == {SeedList[i] : i \in DOMAIN SeedList}

\* The code lets ADMIN_USER_IDS be empty: nothing below is about a platform
\* that nobody can administer.
ASSUME AccessConstants ==
    /\ SeedList \in Seq(Users) /\ SeedList # <<>>
    /\ "super" \notin GroupRoles
    /\ DefaultLevel \in Levels
    /\ NoValue \notin Values /\ EnvValue \in Values
    /\ Modules = {"platform", "notify", "permissions"}
    /\ {MaxEdits, MaxTroubles, MaxQueue} \subseteq Nat

VARIABLES
    phase,      \* how far main() has come: "down", "loaded", "seeded", "serving"
    degraded,   \* modules whose load() failed
    grants,     \* PermissionService: pairs of a user and a role
    subs,       \* NotificationService.subscriptions, the users
    level,      \* NotifyTopicLevelStore.levels
    optOut,     \* NotifyTopicLevelStore.optOut: who turned the topic off for good
    setting,    \* PlatformSettingsStore.overrides
    imported,   \* PlatformSettingsStore.importedFromEnv: the marker
    intact,     \* history: the rows of optOut were not deleted since memory wrote or read them
    rows,       \* the database, under the same names
    queue,      \* writes not yet landed, in order
    ousted,     \* history: revoked as global super admin and not granted since
    declined,   \* history: turned the planted topic off and not on again
    cleared,    \* history: the imported setting was cleared and not set since
    lossless,   \* history: no write was lost, no load failed or crossed a write
    edits, troubles

memory  == <<grants, subs, level, optOut, intact, setting, imported>>
history == <<ousted, declined, cleared>>
budget  == <<lossless, edits, troubles>>
vars == <<phase, degraded, memory, rows, queue, history, budget>>

(***************************************************************************)
(* Who may do what                                                         *)
(***************************************************************************)
SupersOf(G) == {u \in Users : <<u, "super">> \in G}
Supers == SupersOf(grants)
GlobalLevelOf(u) == IF u \in Supers THEN 240 ELSE 0
RoleLevel(r) == CASE r = "group_super" -> 140 [] r = "group_admin" -> 130 [] r = "moderator" -> 120
\* The highest of the user's roles in the group; a member has 110.
GroupLevelOf(u) ==
    IF <<u, "group_super">> \in grants THEN RoleLevel("group_super")
    ELSE IF <<u, "group_admin">> \in grants THEN RoleLevel("group_admin")
    ELSE IF <<u, "moderator">> \in grants THEN RoleLevel("moderator") ELSE 110

\* A platform role counts inside a group for 100 less.
LevelFor(u) == IF u \in Supers /\ GroupLevelOf(u) < 140 THEN 140 ELSE GroupLevelOf(u)

\* "Anywhere" asks only groups in which somebody was granted a role.
MeetsAnywhere(u, required) ==
    /\ \E g \in grants : g[2] \in GroupRoles
    /\ LevelFor(u) >= required

MeetsNotifyLevel(u) ==
    \/ level <= 0
    \/ level >= PLATFORM_LEVEL_MIN /\ GlobalLevelOf(u) >= level
    \/ level \in 1..(PLATFORM_LEVEL_MIN - 1) /\ (u \in Supers \/ MeetsAnywhere(u, level))

\* Whom a card about the topic goes to.
TopicSubscribers == {u \in subs : MeetsNotifyLevel(u)}

(***************************************************************************)
(* The database and the write queue                                        *)
(***************************************************************************)
Put(S, item, kept) == IF kept THEN S \union {item} ELSE S \ {item}

\* What one queued write does to the database.  The topic's threshold and its
\* opt-outs are two settings of the row "__default__", so the reset of the
\* default rules deletes them too.
Apply(w, r) ==
    [grants   |-> IF "grant" \in DOMAIN w THEN Put(r.grants, w.grant, w.kept) ELSE r.grants,
     subs     |-> IF "sub" \in DOMAIN w THEN Put(r.subs, w.sub, w.kept) ELSE r.subs,
     level    |-> IF "level" \in DOMAIN w THEN w.level
                  ELSE IF "reset" \in DOMAIN w THEN DefaultLevel ELSE r.level,
     optOut   |-> IF "optOut" \in DOMAIN w THEN w.optOut
                  ELSE IF "reset" \in DOMAIN w THEN {} ELSE r.optOut,
     setting  |-> IF "setting" \in DOMAIN w THEN w.setting ELSE r.setting,
     imported |-> r.imported \/ "marker" \in DOMAIN w]

\* A write that fails is logged and dropped.
Land ==
    /\ queue # <<>>
    /\ queue' = Tail(queue)
    /\ rows' = Apply(Head(queue), rows)
    /\ UNCHANGED <<phase, degraded, memory, history, budget>>

\* Something went wrong: what the histories promise holds no longer.
Trouble(harmless) ==
    /\ troubles < MaxTroubles
    /\ troubles' = troubles + 1
    /\ lossless' = (lossless /\ harmless)
    /\ IF lossless' THEN UNCHANGED history
       ELSE ousted' = {} /\ declined' = {} /\ cleared' = FALSE

WriteFails ==
    /\ queue # <<>>
    /\ Trouble(FALSE)
    /\ queue' = Tail(queue)
    /\ UNCHANGED <<phase, degraded, memory, rows, edits>>

(***************************************************************************)
(* Start-up                                                                *)
(***************************************************************************)
\* Mutant: ADMIN_USER_IDS counts at every start.
SeedAlways(G) == G \union (Seeds \X {"super"})

\* load() of the permissions: the seeds count only while no global super
\* admin is stored, and are then written back.
Loaded(G) == IF SupersOf(G) # {} THEN G ELSE G \union (Seeds \X {"super"})
SeedWrites == [i \in DOMAIN SeedList |-> [grant |-> <<SeedList[i], "super">>, kept |-> TRUE]]

\* loadAll: each module on its own; the services of one whose rows cannot be
\* read keep what their constructors gave them.
Load(ok) ==
    /\ phase = "down"
    /\ phase' = "loaded"
    /\ degraded' = Modules \ ok
    /\ grants' = IF "permissions" \in ok THEN Loaded(rows.grants) ELSE Seeds \X {"super"}
    /\ queue' = IF "permissions" \in ok /\ SupersOf(rows.grants) = {} THEN SeedWrites ELSE <<>>
    /\ subs' = IF "notify" \in ok THEN rows.subs ELSE {}
    /\ level' = IF "notify" \in ok THEN rows.level ELSE DefaultLevel
    /\ optOut' = IF "notify" \in ok THEN rows.optOut ELSE {}
    /\ intact' = TRUE
    /\ setting' = IF "platform" \in ok THEN rows.setting ELSE NoValue
    /\ imported' = ("platform" \in ok /\ rows.imported)
    /\ IF ok = Modules THEN UNCHANGED <<history, lossless, troubles>> ELSE Trouble(FALSE)
    /\ UNCHANGED <<rows, edits>>

\* subscribe() and unsubscribe(): a subscription ends the opt-out; only
\* turning off a topic of the platform leaves one.
Subscribe(u) ==
    /\ optOut' = optOut \ {u}
    /\ subs' = subs \union {u}
    /\ intact' = (intact \/ u \in optOut)
    /\ queue' = queue \o (IF u \in optOut THEN <<[optOut |-> optOut \ {u}]>> ELSE <<>>)
                      \o (IF u \in subs THEN <<>> ELSE <<[sub |-> u, kept |-> TRUE]>>)

Marked(u) == level >= PLATFORM_LEVEL_MIN /\ u \notin optOut

Unsubscribe(u) ==
    /\ optOut' = IF Marked(u) THEN optOut \union {u} ELSE optOut
    /\ subs' = subs \ {u}
    /\ intact' = (intact \/ Marked(u))
    /\ queue' = queue \o (IF Marked(u) THEN <<[optOut |-> optOut \union {u}]>> ELSE <<>>)
                      \o (IF u \in subs THEN <<[sub |-> u, kept |-> FALSE]>> ELSE <<>>)

\* seedSuperAdminDefaults: a topic of the platform is on for every global
\* super admin who has not turned it off.  One user at a time; the loop ends
\* before anything else runs.
Unplanted ==
    IF level >= PLATFORM_LEVEL_MIN /\ degraded \intersect {"permissions", "notify"} = {}
    THEN Supers \ (subs \union optOut) ELSE {}

Plant(u) ==
    /\ phase = "loaded" /\ u \in Unplanted
    /\ Subscribe(u)
    /\ UNCHANGED <<phase, degraded, grants, level, setting, imported, rows, history, budget>>

Planted ==
    /\ phase = "loaded" /\ Unplanted = {} /\ queue = <<>>
    /\ phase' = "seeded"
    /\ UNCHANGED <<degraded, memory, rows, queue, history, budget>>

\* importEnvSettingsToStore: once, and never over a value of the database.
ImportEnv ==
    /\ phase = "seeded" /\ phase' = "imported"
    /\ IF imported \/ setting # NoValue
       THEN UNCHANGED <<setting, imported, queue>>
       ELSE /\ setting' = EnvValue
            /\ imported' = TRUE
            /\ queue' = queue \o <<[setting |-> EnvValue], [marker |-> TRUE]>>
    /\ UNCHANGED <<degraded, grants, subs, level, optOut, intact, rows, history, budget>>

\* The import was flushed: the gateway, the buttons and the admin API start.
Serve ==
    /\ phase = "imported" /\ queue = <<>>
    /\ phase' = "serving"
    /\ UNCHANGED <<degraded, memory, rows, queue, history, budget>>

\* The process ends; writes still queued are lost unless it was stopped in
\* order, which flushes them first.
Stop ==
    /\ phase # "down"
    /\ Trouble(queue = <<>>)
    /\ phase' = "down"
    /\ queue' = <<>>
    /\ UNCHANGED <<degraded, memory, rows, edits>>

(***************************************************************************)
(* Commands, buttons and requests of the admin API                         *)
(***************************************************************************)
Edit ==
    /\ phase = "serving"
    /\ edits < MaxEdits /\ Len(queue) < MaxQueue
    /\ edits' = edits + 1
    /\ UNCHANGED <<phase, degraded, rows, lossless, troubles>>

IsGlobalSuperAdmin(op) == op \in Supers

\* grantPermissionRole and revokePermissionRole.
Grant(role, u) ==
    /\ grants' = grants \union {<<u, role>>}
    /\ queue' = Append(queue, [grant |-> <<u, role>>, kept |-> TRUE])
    /\ ousted' = IF role = "super" THEN ousted \ {u} ELSE ousted

\* Mutant: the last global super admin can be revoked.
RevokeAnybody(role, u) == TRUE

MayRevoke(role, u) == role = "super" /\ u \in Supers => Supers # {u}

Revoke(role, u) ==
    /\ MayRevoke(role, u)
    /\ <<u, role>> \in grants
    /\ grants' = grants \ {<<u, role>>}
    /\ queue' = Append(queue, [grant |-> <<u, role>>, kept |-> FALSE])
    /\ ousted' = IF role = "super" /\ lossless THEN ousted \union {u} ELSE ousted

PermKept == UNCHANGED <<subs, level, optOut, intact, setting, imported, declined, cleared>>

\* /perm grant and /perm revoke
HandlePermissionConfig(op, role, u) ==
    /\ Edit /\ IsGlobalSuperAdmin(op) /\ "permissions" \notin degraded
    /\ Grant(role, u) \/ Revoke(role, u)
    /\ PermKept

\* The API's request: not held back by a degraded module, and nobody takes
\* the global role from himself there.
SetPermission(op, role, u) ==
    /\ Edit /\ IsGlobalSuperAdmin(op)
    /\ \/ Grant(role, u)
       \/ ~(role = "super" /\ u = op) /\ Revoke(role, u)
    /\ PermKept

\* The buttons of the notification centre and of the cards themselves.
NotifyToggle(u) ==
    /\ Edit /\ "notify" \notin degraded
    /\ MeetsNotifyLevel(u)
    /\ Subscribe(u)
    /\ declined' = declined \ {u}
    /\ UNCHANGED <<grants, level, setting, imported, ousted, cleared>>

NotifyUnsubscribe(u) ==
    /\ Edit /\ "notify" \notin degraded
    /\ Unsubscribe(u)
    /\ declined' = IF level >= PLATFORM_LEVEL_MIN /\ lossless /\ intact'
                   THEN declined \union {u} ELSE declined
    /\ UNCHANGED <<grants, level, setting, imported, ousted, cleared>>

SetTopicLevel(l) ==
    /\ level' = l
    /\ queue' = Append(queue, [level |-> l])
    /\ UNCHANGED <<grants, subs, optOut, intact, setting, imported, history>>

\* /notify level and the reset button
HandleNotifyLevel(op, l) ==
    /\ Edit /\ IsGlobalSuperAdmin(op) /\ "notify" \notin degraded
    /\ SetTopicLevel(l)

SetNotifyLevel(op, l) == Edit /\ IsGlobalSuperAdmin(op) /\ SetTopicLevel(l)

ResetNotifyLevels(op) == SetNotifyLevel(op, DefaultLevel)

\* removeOverride("__default__"), from the rules card and from the API: every
\* setting of the default rules is deleted, the threshold and the opt-outs of
\* the topic among them, and NotifyTopicLevelStore is not told.  Who is opted
\* out in its memory only is subscribed again by the next start, and turning
\* the topic off again writes nothing for him.
RemoveDefaultOverride ==
    /\ queue' = Append(queue, [reset |-> TRUE])
    /\ intact' = FALSE
    /\ declined' = {}
    /\ UNCHANGED <<grants, subs, level, optOut, setting, imported, ousted, cleared>>

ResetAllRulesCard(op) == Edit /\ IsGlobalSuperAdmin(op) /\ RemoveDefaultOverride

ResetRuleGroup(op) == Edit /\ IsGlobalSuperAdmin(op) /\ RemoveDefaultOverride

\* PlatformSettingsStore.set and clear.
Set(v) ==
    /\ setting' = v
    /\ queue' = Append(queue, [setting |-> v])
    /\ cleared' = FALSE
    /\ UNCHANGED <<grants, subs, level, optOut, intact, imported, ousted, declined>>

Clear ==
    /\ setting' = NoValue
    /\ queue' = IF setting = NoValue THEN queue ELSE Append(queue, [setting |-> NoValue])
    /\ cleared' = (lossless /\ imported)
    /\ UNCHANGED <<grants, subs, level, optOut, intact, imported, ousted, declined>>

\* /config, which no module holds back
HandleConfig(op) ==
    /\ Edit /\ IsGlobalSuperAdmin(op)
    /\ Clear \/ \E v \in Values : Set(v)

UpdateSetting(op, v) == Edit /\ IsGlobalSuperAdmin(op) /\ Set(v)

ClearSetting(op) == Edit /\ IsGlobalSuperAdmin(op) /\ Clear

\* What the routes of the admin API lead to.
SettingRequests(op) == ClearSetting(op) \/ \E v \in Values : UpdateSetting(op, v)

NotifyRequests(op) == ResetNotifyLevels(op) \/ \E l \in Levels : SetNotifyLevel(op, l)

PermissionRequests(op) == \E u \in Users, role \in GroupRoles \union {"super"} : SetPermission(op, role, u)

\* A retry loads one module again while writes may still be queued, and
\* overwrites what memory held.  One that fails leaves memory alone, except
\* that the settings are emptied before they are read.
Retry(op, m, ok) ==
    /\ phase = "serving" /\ IsGlobalSuperAdmin(op)
    /\ Trouble(ok /\ queue = <<>>)
    /\ degraded' = IF ok THEN degraded \ {m} ELSE degraded \union {m}
    /\ UNCHANGED <<phase, rows, edits>>

RetryPermissions(op, ok) ==
    /\ Retry(op, "permissions", ok)
    /\ grants' = IF ok THEN Loaded(rows.grants) ELSE grants
    /\ queue' = queue \o (IF ok /\ SupersOf(rows.grants) = {} THEN SeedWrites ELSE <<>>)
    /\ UNCHANGED <<subs, level, optOut, intact, setting, imported>>

RetryNotify(op, ok) ==
    /\ Retry(op, "notify", ok)
    /\ subs' = IF ok THEN rows.subs ELSE subs
    /\ level' = IF ok THEN rows.level ELSE level
    /\ optOut' = IF ok THEN rows.optOut ELSE optOut
    /\ intact' = (intact \/ ok)
    /\ UNCHANGED <<grants, setting, imported, queue>>

RetryPlatform(op, ok) ==
    /\ Retry(op, "platform", ok)
    /\ setting' = IF ok THEN rows.setting ELSE NoValue
    /\ imported' = (ok /\ rows.imported)
    /\ UNCHANGED <<grants, subs, level, optOut, intact, queue>>

(***************************************************************************)
(* Specification                                                           *)
(***************************************************************************)
\* A database of an older version may hold an override and no marker.
Init ==
    /\ phase = "down" /\ degraded = {}
    /\ grants = {} /\ subs = {} /\ level = DefaultLevel /\ optOut = {} /\ intact = TRUE
    /\ setting = NoValue /\ imported = FALSE
    /\ rows \in {[grants |-> {}, subs |-> {}, level |-> DefaultLevel, optOut |-> {},
                  setting |-> v, imported |-> FALSE] : v \in {NoValue} \union Values}
    /\ queue = <<>>
    /\ ousted = {} /\ declined = {} /\ cleared = FALSE
    /\ lossless = TRUE /\ edits = 0 /\ troubles = 0

Starting ==
    \/ \E ok \in SUBSET Modules : Load(ok)
    \/ \E u \in Users : Plant(u)
    \/ Planted \/ ImportEnv \/ Serve

Editing ==
    \E op \in Users :
        \/ \E u \in Users, role \in GroupRoles \union {"super"} : HandlePermissionConfig(op, role, u)
        \/ \E l \in Levels : HandleNotifyLevel(op, l)
        \/ NotifyToggle(op) \/ NotifyUnsubscribe(op) \/ HandleConfig(op)
        \/ ResetAllRulesCard(op) \/ ResetRuleGroup(op)
        \/ SettingRequests(op) \/ NotifyRequests(op) \/ PermissionRequests(op)

Retrying ==
    \E op \in Users, ok \in BOOLEAN :
        RetryPermissions(op, ok) \/ RetryNotify(op, ok) \/ RetryPlatform(op, ok)

Next == Starting \/ Editing \/ Retrying \/ Land \/ WriteFails \/ Stop

Spec == Init /\ [][Next]_vars

(***************************************************************************)
(* Properties                                                              *)
(***************************************************************************)
Grants == Users \X (GroupRoles \union {"super"})
Settings == Values \union {NoValue}

TypeOK ==
    /\ phase \in {"down", "loaded", "seeded", "imported", "serving"}
    /\ degraded \subseteq Modules
    /\ grants \subseteq Grants /\ subs \subseteq Users /\ optOut \subseteq Users
    /\ level \in Levels /\ setting \in Settings /\ imported \in BOOLEAN /\ intact \in BOOLEAN
    /\ rows \in [grants : SUBSET Grants, subs : SUBSET Users, level : Levels,
                 optOut : SUBSET Users, setting : Settings, imported : BOOLEAN]
    /\ ousted \subseteq Users /\ declined \subseteq Users /\ cleared \in BOOLEAN
    /\ lossless \in BOOLEAN /\ edits \in 0..MaxEdits /\ troubles \in 0..MaxTroubles

\* Whatever is revoked, by whom and through which entrance, whatever write is
\* lost and whichever module fails to load: a program that has loaded has a
\* global super admin, so /perm, /config and the retry button stay usable.
AlwaysASuper == phase # "down" => Supers # {}

\* As long as no write is lost and no load fails, a super admin who was
\* revoked does not return: not by a restart, although ADMIN_USER_IDS still
\* names him, and not by a retry of the module.
RevokedStaysOut == phase # "down" => ousted \intersect Supers = {}

\* Under the same condition, who turned a planted topic off gets no card about
\* it before he turns it on himself, however often the program restarts, roles
\* change or the threshold moves.  One thing else ends it: a reset of the
\* default rules, which deletes the opt-outs (RemoveDefaultOverride) although
\* unsubscribe() and the notification centre promise that no restart brings the
\* topic back; README.md, "Disagreements found".
OptOutStands == phase # "down" => declined \intersect TopicSubscribers = {}

\* Under the same condition, a setting that was imported from .env and then
\* cleared keeps its built-in default: no later start takes the value of .env
\* again.  It must have been imported with its marker: an override kept from a
\* version without markers is imported again after it is cleared.
ClearedStaysCleared == phase # "down" /\ cleared => setting = NoValue

\* What an administrator took back stays taken back, across restarts, retries
\* of failed modules, changes of level and resets of the rules, which end only
\* the opt-outs.
TakenBackStands == RevokedStaysOut /\ OptOutStands /\ ClearedStaysCleared
=============================================================================
