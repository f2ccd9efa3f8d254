-------------------------------- MODULE Rules --------------------------------
(***************************************************************************)
(* The rules of the groups: the default rules and what each group has      *)
(* overridden, in memory and in the database.  Every command, button and   *)
(* API request that edits a rule goes through setOverride, clearFields or  *)
(* removeOverride of GroupConfigStore, which change memory at once and     *)
(* queue their writes; load() reads the database back at start-up and      *)
(* whenever the module is retried, while the program serves.               *)
(*                                                                         *)
(* Sources: services/groupConfig.ts, groupConfigCore.ts,                   *)
(* db/groupConfigRepository.ts, groupSettingsRepository.ts,                *)
(* commands/ruleCommands.ts, commands/support.ts and the rule operations   *)
(* of adminApi/backend.ts.                                                 *)
(*                                                                         *)
(* A field's value is a set of Words, whatever the field: a switch is on   *)
(* when its set is not empty, a list is its elements (lists are kept       *)
(* sorted and without duplicates, so the set is all there is).             *)
(***************************************************************************)
EXTENDS Naturals, Sequences, FiniteSets

CONSTANTS
    Groups, Default,  \* the groups, and "__default__"
    Users,            \* who edits
    Manages,          \* what each of them may edit: subsets of Scopes
    Columns,          \* fields with a column of their own in group_configs
    Keywords,         \* the field kept in group_keywords
    Lists,            \* fields kept as key-value rows in group_settings
    Foreign,          \* a key of group_settings that is not a rule: see Schedule
    Words,            \* what values are made of
    MaxList,          \* RULE_LIST_MAX_COUNT
    MaxEdits, MaxTroubles, MaxQueue    \* bounds: edits; loads, failed writes and restarts

Scopes == Groups \union {Default}
SqlFields == Columns \union {Keywords}
Fields == SqlFields \union Lists
Patch(S) == UNION {[T -> SUBSET Words] : T \in SUBSET S}

ASSUME RulesConstants ==
    /\ Default \notin Groups /\ Keywords \notin Columns
    /\ SqlFields \intersect Lists = {} /\ Foreign \notin Fields
    /\ Manages \in [Users -> SUBSET Scopes]

VARIABLES
    base,       \* GroupConfigStore.defaultConfig: a value for every field
    over,       \* overrides: per group, the values it has of its own
    explicit,   \* overridden and overriddenDefault: fields marked as set
    rows,       \* group_configs: does the group have a row, and its columns
    words,      \* group_keywords
    settings,   \* group_settings
    foreign,    \* what another service keeps there: a group's announcements
    queue,      \* writes not yet landed, in order
    loading,    \* how far load() has come
    lossless,   \* history: no write was lost, no edit crossed a load()
    edits, troubles

memory   == <<base, over, explicit>>
database == <<rows, words, settings>>
vars == <<base, over, explicit, rows, words, settings, foreign, queue, loading, lossless, edits, troubles>>

\* The values of DEFAULT_CONFIG; nothing else is seeded at run time.
Seed == [f \in Fields |-> {}]

None == [f \in {} |-> {}]
Restricted(p, S) == [f \in (DOMAIN p) \intersect S |-> p[f]]
Without(p, S)    == [f \in (DOMAIN p) \ S |-> p[f]]
Merged(p, q) == [f \in (DOMAIN p) \union (DOMAIN q) |->
                    IF f \in DOMAIN q THEN q[f] ELSE p[f]]

\* get(): the group's own value, or else the default one.
Effective(g) == IF g = Default THEN base ELSE Merged(base, over[g])

(* ------------------------------- the writes ------------------------------ *)

\* saveOverride() writes every column of the row: null for those not given.
SaveRow(g, p) == <<[op |-> "saveRow", group |-> g, patch |-> Restricted(p, Columns)]>>
\* The closure of clearFields() reads memory when it runs, not when queued.
SaveBase == <<[op |-> "saveBase"]>>
ClearColumns(g, S) == <<[op |-> "clearColumns", group |-> g, fields |-> S \intersect Columns]>>
DeleteRow(g) == <<[op |-> "deleteRow", group |-> g]>>
ReplaceWords(g, w) == <<[op |-> "replaceWords", group |-> g, words |-> w]>>
SaveSettings(g, p) == <<[op |-> "saveSettings", group |-> g, patch |-> p]>>
RemoveAll(g) == <<[op |-> "removeAll", group |-> g]>>
RemoveSettings(g, S) == <<[op |-> "removeSettings", group |-> g, fields |-> S \intersect Lists]>>

When(cond, writes) == IF cond THEN writes ELSE <<>>

Enqueue(writes) ==
    /\ Len(queue) + Len(writes) <= MaxQueue
    /\ queue' = queue \o writes

\* An edit that finds load() under way changes what is about to be replaced.
Edited ==
    /\ edits < MaxEdits /\ edits' = edits + 1
    /\ lossless' = (lossless /\ loading = "no")
    /\ UNCHANGED <<database, foreign, loading, troubles>>

(* --------------------------- GroupConfigStore ---------------------------- *)

\* A row is written only when a field kept there changes; the row holds the
\* columns of the merged override.
SetGroupOverride(g, p) ==
    LET merged == Merged(over[g], p)
        given(S) == (DOMAIN p) \intersect S # {}
    IN /\ over' = [over EXCEPT ![g] = merged]
       /\ explicit' = [explicit EXCEPT ![g] = @ \union DOMAIN p]
       /\ Enqueue(When(given(SqlFields), SaveRow(g, merged))
                  \o When(given({Keywords}), ReplaceWords(g, p[Keywords]))
                  \o When(given(Lists), SaveSettings(g, Restricted(p, Lists))))
       /\ UNCHANGED base

\* Mutant: the whole default row is saved, inherited fields included.
SetDefaultWholeRow(p) ==
    LET merged == Merged(base, p)
        given(S) == (DOMAIN p) \intersect S # {}
    IN /\ base' = merged
       /\ explicit' = [explicit EXCEPT ![Default] = @ \union DOMAIN p]
       /\ Enqueue(SaveRow(Default, merged)
                  \o When(given({Keywords}), ReplaceWords(Default, p[Keywords]))
                  \o When(given(Lists), SaveSettings(Default, Restricted(p, Lists))))
       /\ UNCHANGED over

\* The default row is saved whatever changed, with the explicit fields only.
SetDefaultOverride(p) ==
    LET merged == Merged(base, p)
        marks  == explicit[Default] \union DOMAIN p
        given(S) == (DOMAIN p) \intersect S # {}
    IN /\ base' = merged
       /\ explicit' = [explicit EXCEPT ![Default] = marks]
       /\ Enqueue(SaveRow(Default, Restricted(merged, marks))
                  \o When(given({Keywords}), ReplaceWords(Default, p[Keywords]))
                  \o When(given(Lists), SaveSettings(Default, Restricted(p, Lists))))
       /\ UNCHANGED over

SetOverride(g, p) ==
    /\ Edited
    /\ IF g = Default THEN SetDefaultOverride(p) ELSE SetGroupOverride(g, p)

ClearGroupFields(g, S) ==
    /\ over' = [over EXCEPT ![g] = Without(@, S)]
    /\ explicit' = [explicit EXCEPT ![g] = @ \ S]
    /\ Enqueue(When(S \intersect Columns # {}, ClearColumns(g, S))
               \o When(Keywords \in S, ReplaceWords(g, {}))
               \o When(S \intersect Lists # {}, RemoveSettings(g, S)))
    /\ UNCHANGED base

\* Mutant: the fields are no longer marked, but keep their values.
ClearDefaultMarks(S) ==
    /\ explicit' = [explicit EXCEPT ![Default] = @ \ S]
    /\ Enqueue(When(S \intersect SqlFields # {}, SaveBase)
               \o When(Keywords \in S, ReplaceWords(Default, {}))
               \o When(S \intersect Lists # {}, RemoveSettings(Default, S)))
    /\ UNCHANGED <<base, over>>

\* Only the fields kept in SQL return to their seed: a list keeps its value.
ClearDefaultFields(S) ==
    /\ base' = Merged(base, Restricted(Seed, S \intersect SqlFields))
    /\ explicit' = [explicit EXCEPT ![Default] = @ \ S]
    /\ Enqueue(When(S \intersect SqlFields # {}, SaveBase)
               \o When(Keywords \in S, ReplaceWords(Default, {}))
               \o When(S \intersect Lists # {}, RemoveSettings(Default, S)))
    /\ UNCHANGED over

ClearFields(g, S) ==
    /\ Edited
    /\ S # {}
    /\ IF g = Default THEN ClearDefaultFields(S) ELSE ClearGroupFields(g, S)

\* removeAll() takes every key of the group from group_settings.
RemoveOverride(g) ==
    /\ Edited
    /\ base' = IF g = Default THEN Seed ELSE base
    /\ over' = IF g = Default THEN over ELSE [over EXCEPT ![g] = None]
    /\ explicit' = [explicit EXCEPT ![g] = {}]
    /\ Enqueue(DeleteRow(g) \o ReplaceWords(g, {}) \o RemoveAll(g))

(* ----------------------- commands, buttons and API ----------------------- *)

CanManageRules(u, g) == g \in Manages[u]
RequireRuleTarget(u, g) == g \in Manages[u]

\* A setting is parsed into a patch of one field.  Clearing the warning copies
\* the default's text into the group instead of inheriting it.
ParseRuleSetting(f, v) == [x \in {f} |-> v]

HandleRulesSet(u, g, f, v) ==
    /\ g # Default /\ CanManageRules(u, g)
    /\ SetOverride(g, ParseRuleSetting(f, v))

HandleGlobalRulesSet(u, f, v) ==
    /\ CanManageRules(u, Default)
    /\ SetOverride(Default, ParseRuleSetting(f, v))

\* The button carries the value the switch is to have.
ToggleRulesCard(u, g, f, v) ==
    IF g = Default THEN HandleGlobalRulesSet(u, f, v) ELSE HandleRulesSet(u, g, f, v)

KeywordAdd(u, g, w) ==
    /\ CanManageRules(u, g)
    /\ w \notin Effective(g)[Keywords]
    /\ SetOverride(g, ParseRuleSetting(Keywords, Effective(g)[Keywords] \union {w}))

KeywordDelete(u, g, w) ==
    /\ CanManageRules(u, g)
    /\ w \in Effective(g)[Keywords]
    /\ SetOverride(g, ParseRuleSetting(Keywords, Effective(g)[Keywords] \ {w}))

\* The button carries an index: the word that is there when it is pressed.
DelKeywordCard(u, g) == \E w \in Effective(g)[Keywords] : KeywordDelete(u, g, w)

ClearKeywordsCard(u, g) ==
    CanManageRules(u, g) /\ SetOverride(g, ParseRuleSetting(Keywords, {}))

ListAdd(u, g, f, w) ==
    /\ CanManageRules(u, g)
    /\ Cardinality(Effective(g)[f]) < MaxList /\ w \notin Effective(g)[f]
    /\ SetOverride(g, ParseRuleSetting(f, Effective(g)[f] \union {w}))

ListDelete(u, g, f, w) ==
    /\ CanManageRules(u, g)
    /\ w \in Effective(g)[f]
    /\ SetOverride(g, ParseRuleSetting(f, Effective(g)[f] \ {w}))

ClearRuleListCard(u, g, f) ==
    CanManageRules(u, g) /\ SetOverride(g, ParseRuleSetting(f, {}))

\* One element in or out: the colleges and years, the punish actions.
Flip(v, w) == (v \ {w}) \union ({w} \ v)
RosterToggleCard(u, g, f, w) ==
    CanManageRules(u, g) /\ SetOverride(g, ParseRuleSetting(f, Flip(Effective(g)[f], w)))
PunishToggleCard(u, g, f, w) ==
    CanManageRules(u, g) /\ SetOverride(g, ParseRuleSetting(f, Flip(Effective(g)[f], w)))

\* The button names the fields; only those of its panel are cleared.
ResetRulePageCard(u, g, named, panel) ==
    CanManageRules(u, g) /\ ClearFields(g, named \intersect panel)

ResetAllRulesCard(u, g) == CanManageRules(u, g) /\ RemoveOverride(g)

\* Several fields in one request: all are parsed before the first is set, and
\* all are set in one tick.
ApplyRuleUpdates(u, g, p) ==
    /\ RequireRuleTarget(u, g)
    /\ SetOverride(g, p)

AddRuleKeywords(u, g, ws) ==
    /\ RequireRuleTarget(u, g)
    /\ ws \ Effective(g)[Keywords] # {}
    /\ SetOverride(g, ParseRuleSetting(Keywords, Effective(g)[Keywords] \union ws))

RemoveRuleKeywords(u, g, ws) ==
    /\ RequireRuleTarget(u, g)
    /\ ws \intersect Effective(g)[Keywords] # {}
    /\ SetOverride(g, ParseRuleSetting(Keywords, Effective(g)[Keywords] \ ws))

ResetRuleFields(u, g, S) == RequireRuleTarget(u, g) /\ ClearFields(g, S)
ResetRuleGroup(u, g) == RequireRuleTarget(u, g) /\ RemoveOverride(g)

\* The requests that call them check only that something is named.
PutRules(u, g, p) == DOMAIN p # {} /\ ApplyRuleUpdates(u, g, p)
PostRuleKeywords(u, g, ws) ==
    ws # {} /\ (AddRuleKeywords(u, g, ws) \/ RemoveRuleKeywords(u, g, ws))
PostResetFields(u, g, S) == S # {} /\ ResetRuleFields(u, g, S)

Edit(u, g) ==
    \/ \E f \in Columns, v \in {{}, Words} :
          HandleRulesSet(u, g, f, v) \/ ToggleRulesCard(u, g, f, v)
    \/ \E f \in Fields, v \in SUBSET Words : g = Default /\ HandleGlobalRulesSet(u, f, v)
    \/ \E w \in Words : KeywordAdd(u, g, w) \/ KeywordDelete(u, g, w)
    \/ DelKeywordCard(u, g) \/ ClearKeywordsCard(u, g)
    \/ \E f \in Lists, w \in Words : \/ ListAdd(u, g, f, w) \/ ListDelete(u, g, f, w)
                                     \/ RosterToggleCard(u, g, f, w)
                                     \/ PunishToggleCard(u, g, f, w)
    \/ \E f \in Lists : ClearRuleListCard(u, g, f)
    \/ \E S \in {Columns, {Keywords}, Lists} : ResetRulePageCard(u, g, Fields, S)
    \/ ResetAllRulesCard(u, g) \/ ResetRuleGroup(u, g)
    \/ \E p \in [Columns \union Lists -> {{}, Words}] : PutRules(u, g, p)
    \/ \E ws \in SUBSET Words : PostRuleKeywords(u, g, ws)
    \/ \E S \in SUBSET Fields : PostResetFields(u, g, S)

\* ScheduledAnnouncementStore.put() saves all the group's announcements as one
\* row; NotifyTopicLevelStore does the same with the default's.
PutForeign(g, v) ==
    /\ foreign[g] # v /\ edits < MaxEdits /\ edits' = edits + 1
    /\ foreign' = [foreign EXCEPT ![g] = v]
    /\ Enqueue(SaveSettings(g, [k \in {Foreign} |-> v]))
    /\ UNCHANGED <<memory, database, loading, lossless, troubles>>

(* ------------------------ the database and load() ------------------------ *)

Trouble == troubles < MaxTroubles /\ troubles' = troubles + 1

NoRow == [has |-> FALSE, cols |-> None]

LandRow(g, p) == rows' = [rows EXCEPT ![g] = [has |-> TRUE, cols |-> p]]

Landed(w) ==
    \/ w.op = "saveRow" /\ LandRow(w.group, w.patch) /\ UNCHANGED <<words, settings>>
    \/ /\ w.op = "saveBase"
       /\ LandRow(Default, Restricted(base, explicit[Default] \intersect Columns))
       /\ UNCHANGED <<words, settings>>
    \/ /\ w.op = "clearColumns"
       /\ rows' = [rows EXCEPT ![w.group].cols = Without(@, w.fields)]
       /\ UNCHANGED <<words, settings>>
    \/ /\ w.op = "deleteRow"
       /\ rows' = [rows EXCEPT ![w.group] = NoRow] /\ UNCHANGED <<words, settings>>
    \/ /\ w.op = "replaceWords"
       /\ words' = [words EXCEPT ![w.group] = w.words] /\ UNCHANGED <<rows, settings>>
    \/ /\ w.op = "saveSettings"
       /\ settings' = [settings EXCEPT ![w.group] = Merged(@, w.patch)]
       /\ UNCHANGED <<rows, words>>
    \/ /\ w.op = "removeSettings"
       /\ settings' = [settings EXCEPT ![w.group] = Without(@, w.fields)]
       /\ UNCHANGED <<rows, words>>
    \/ /\ w.op = "removeAll"
       /\ settings' = [settings EXCEPT ![w.group] = None] /\ UNCHANGED <<rows, words>>

Land ==
    /\ queue # <<>> /\ Landed(Head(queue)) /\ queue' = Tail(queue)
    /\ UNCHANGED <<memory, foreign, loading, lossless, edits, troubles>>

\* The queue logs a write that fails and goes on with the next one.
WriteFails ==
    /\ queue # <<>> /\ queue' = Tail(queue) /\ lossless' = FALSE
    /\ Trouble
    /\ UNCHANGED <<memory, database, foreign, loading, edits>>

\* replaceKeywords() deletes and then inserts one by one: a failure in between
\* leaves some of the words.
ReplaceFails ==
    /\ queue # <<>> /\ Head(queue).op = "replaceWords"
    /\ \E w \in SUBSET Head(queue).words : words' = [words EXCEPT ![Head(queue).group] = w]
    /\ queue' = Tail(queue) /\ lossless' = FALSE
    /\ Trouble
    /\ UNCHANGED <<memory, rows, settings, foreign, loading, edits>>

\* findAll(), its two reads taken together: a group without a row has no keywords either, and keywords are
\* an override only if there is at least one.
FoundFields(g) == IF ~rows[g].has THEN None
                  ELSE Merged(rows[g].cols,
                              IF words[g] = {} THEN None
                              ELSE ParseRuleSetting(Keywords, words[g]))

\* applySettingField() passes over keys that are not rules.
FoundSettings(g) == Restricted(settings[g], Lists)

Stored(g) == Merged(FoundFields(g), FoundSettings(g))

ForeignRow(g) == IF Foreign \in DOMAIN settings[g] THEN settings[g][Foreign] ELSE {}

\* applyLoadedOverride(), for all that one of the two reads returned.
ApplyLoaded(found) ==
    /\ base' = Merged(base, found[Default])
    /\ over' = [g \in Groups |-> Merged(over[g], found[g])]
    /\ explicit' = [g \in Scopes |-> explicit[g] \union DOMAIN found[g]]

\* load() empties memory before it awaits the first read.
LoadStarts ==
    /\ loading = "no" /\ Trouble
    /\ loading' = "overrides"
    /\ base' = Seed /\ over' = [g \in Groups |-> None] /\ explicit' = [g \in Scopes |-> {}]
    /\ lossless' = (lossless /\ queue = <<>>)
    /\ UNCHANGED <<database, foreign, queue, edits>>

LoadOverrides ==
    /\ loading = "overrides" /\ loading' = "settings"
    /\ ApplyLoaded([g \in Scopes |-> FoundFields(g)])
    /\ UNCHANGED <<database, foreign, queue, lossless, edits, troubles>>

LoadSettings ==
    /\ loading = "settings" /\ loading' = "no"
    /\ ApplyLoaded([g \in Scopes |-> FoundSettings(g)])
    /\ UNCHANGED <<database, foreign, queue, lossless, edits, troubles>>

\* The process ends, with whatever is queued, and starts again; nothing is
\* served before its load() is done.
Restart ==
    /\ Trouble
    /\ queue' = <<>> /\ loading' = "no"
    /\ base' = Merged(Seed, Stored(Default))
    /\ over' = [g \in Groups |-> Stored(g)]
    /\ explicit' = [g \in Scopes |-> DOMAIN Stored(g)]
    /\ foreign' = [g \in Scopes |-> ForeignRow(g)]
    /\ lossless' = (lossless /\ queue = <<>>)
    /\ UNCHANGED <<database, edits>>

Init ==
    /\ base = Seed /\ over = [g \in Groups |-> None] /\ explicit = [g \in Scopes |-> {}]
    /\ rows = [g \in Scopes |-> NoRow]
    /\ words = [g \in Scopes |-> {}] /\ settings = [g \in Scopes |-> None]
    /\ foreign = [g \in Scopes |-> {}]
    /\ queue = <<>> /\ loading = "no" /\ lossless = TRUE
    /\ edits = 0 /\ troubles = 0

Next ==
    \/ \E u \in Users, g \in Scopes : Edit(u, g)
    \/ \E g \in Groups : PutForeign(g, Words)
    \/ Land \/ WriteFails \/ ReplaceFails
    \/ LoadStarts \/ LoadOverrides \/ LoadSettings \/ Restart

Spec == Init /\ [][Next]_vars

(* ------------------------------- properties ------------------------------ *)

\* Every variable has its type.
TypeOK ==
    /\ base \in [Fields -> SUBSET Words] /\ over \in [Groups -> Patch(Fields)]
    /\ explicit \in [Scopes -> SUBSET Fields]
    /\ rows \in [Scopes -> [has : BOOLEAN, cols : Patch(Columns)]]
    /\ words \in [Scopes -> SUBSET Words] /\ settings \in [Scopes -> Patch(Lists \union {Foreign})]
    /\ foreign \in [Scopes -> SUBSET Words]
    /\ loading \in {"no", "overrides", "settings"}
    /\ lossless \in BOOLEAN /\ edits \in Nat /\ troubles \in Nat

\* Fields marked as set, with their values, as memory has them; and without
\* the keyword list that was set to nothing, which the database cannot hold.
Shown(g) == Restricted(Effective(g), explicit[g])
Durable(p) == Without(p, IF Keywords \in DOMAIN p /\ p[Keywords] = {} THEN {Keywords} ELSE {})

\* Once the queue has landed, a restart changes neither what a group has set
\* for itself nor which fields are shown as set (ADR-0072), unless a write was
\* lost or an edit crossed a load().
RestartChangesNothing ==
    (lossless /\ queue = <<>> /\ loading = "no") =>
        \A g \in Scopes : Durable(Shown(g)) = Stored(g)

\* A field that no longer counts as set is inherited: the group has no value
\* for it, and in the default rules it is back at its seed.
FallsBack(S) ==
    /\ \A g \in Groups : DOMAIN over[g] = explicit[g]
    /\ \A f \in S \ explicit[Default] : base[f] = Seed[f]

\* True of the fields kept in SQL.  (In the default rules, a cleared field of
\* group_settings keeps its value until the next restart.)
ClearedFallsBack == FallsBack(SqlFields)

\* What another service keeps in group_settings is written through: memory
\* rules, and the rows follow it (scheduledAnnouncements.ts:769).  Not so in
\* the code, because resetting the rules of a group deletes every row the group
\* has there (groupConfig.ts:495); no run checks it.
WrittenThrough ==
    (lossless /\ queue = <<>>) => \A g \in Scopes : ForeignRow(g) = foreign[g]
=============================================================================
