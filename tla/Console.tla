------------------------------- MODULE Console -------------------------------
(* The admin console: one browser tab (web/src) against the admin API       *)
(* (src/adminApi).  The tab shows one page at a time; what it asks is under  *)
(* way as calls, which the server serves and the tab hears in any order.     *)
(* The server keeps login sessions; the browser keeps the cookie; the tab    *)
(* keeps the permissions it was told and what the page has shown.            *)
(*                                                                           *)
(* Of a page's things (requests, punishments, rules, ...) a group has one,   *)
(* open or not; which there are is left open at each answer, and filters and *)
(* paging only leave rows out.  What the writes do is in the other modules:  *)
(* here a write is refused, fails or is done.                                *)
EXTENDS Naturals, FiniteSets

CONSTANTS
    Groups,         \* groups the bot knows
    Default,        \* "__default__": the global rules, blacklist, settings
    None,
    Mine, Others,   \* session ids of this account and of others
    Ttl,            \* a session ends when not used for longer
    MaxSessions,    \* sessions kept at most
    GroupLevels,         \* levels in the groups an ordinary account may have
    MaxCalls,       \* bounds: calls under way, and things that happen: requests,
    MaxEvents       \* units of time, lost answers, restarts, what others do

Moderator  == 120
GroupAdmin == 130
GroupSuper == 140

\* What a page may be busy with, besides a row of a group.
FlagNames == {"none", "busy", "syncing", "add", "remove", "creating", "update", "batch",
              "keywords", "reset", "resetAll", "testing", "saving", "retrying",
              "rollingBack", "revoking", "submitting", "removing"}
Sids == Mine \cup Others

ASSUME ConsoleConstants ==
    /\ GroupLevels \subseteq [Groups -> {0, Moderator, GroupAdmin}]
    /\ IsFiniteSet(Sids)
    /\ Ttl \in Nat /\ MaxSessions \in Nat /\ MaxCalls \in Nat /\ MaxEvents \in Nat
    /\ None \notin Nat \cup Sids \cup Groups /\ Default \notin Groups \cup {None}
    /\ Groups \cap FlagNames = {}

\* An account: a platform super administrator (whose level in the groups means
\* nothing), or one with a level in each group.
Accounts == {[super |-> TRUE, level |-> [g \in Groups |-> 0]]}
            \cup {[super |-> FALSE, level |-> l] : l \in GroupLevels}

GroupPages    == {"pending", "audit", "appeals", "punishments", "blacklist", "rules",
                  "activities", "announcements", "reports"}
PlatformPages == {"status", "notify", "deliveries", "settings", "aliases", "permissions",
                  "identities"}
Pages == GroupPages \cup PlatformPages

VARIABLES
    now,        \* the clock
    store,      \* the server's sessions: when each was last seen, or None
    closed,     \* session ids ended by signing out or by a restart
    used,       \* when the server last accepted each id (history)
    account,    \* what the account may do now
    cookie,     \* the browser's cookie, or None
    identity,   \* what the tab was told the account may do, or None
    current,    \* nothing of that has changed since
    tab,        \* the page shown
    calls,      \* what is under way
    events

sessions == <<store, closed, used>>
consoleVars == <<now, sessions, account, cookie, identity, current, tab, calls, events>>

Slots == 1 .. MaxCalls
Free  == {n \in Slots : calls[n] = None}
Slot  == CHOOSE n \in Free : \A m \in Free : n <= m
Fresh(ids) == {s \in ids : used[s] = None}

Blank(p, g) == [page |-> p, group |-> g, rows |-> {}, view |-> FALSE, loading |-> FALSE,
                dialog |-> None, busy |-> {}]

-----------------------------------------------------------------------------
(* The server: who may read and write what. *)

\* The level in a group, the platform's folded in.
AccountLevel(a, g) == IF a.super THEN GroupSuper ELSE IF g \in Groups THEN a.level[g] ELSE 0
\* The groups an account is told of: those it can do something in.
Told(a) == {g \in Groups : AccountLevel(a, g) >= Moderator}
ReadLevel(a, g) == IF g \in Told(a) THEN AccountLevel(a, g) ELSE 0

Answer(granted) == IF granted THEN "ok" ELSE "forbidden"
PlatformRead(a) == Answer(a.super)
GroupRead(a, g, level) == Answer(ReadLevel(a, g) >= level)
\* Only the platform's super administrators may leave the group out.
ScopedRead(a, g, level) ==
    IF a.super THEN "ok" ELSE IF g = None THEN "bad" ELSE GroupRead(a, g, level)

TasksRead(a)            == PlatformRead(a)
SettingsRead(a)         == PlatformRead(a)
PunishmentsRead(a, g)   == ScopedRead(a, g, Moderator)
BlacklistRead(a, g)     == IF g = None THEN "bad" ELSE GroupRead(a, g, Moderator)
AppealsRead(a, g)       == ScopedRead(a, g, Moderator)
DeliveriesRead(a, g)    == ScopedRead(a, g, Moderator)
SubscriptionsRead(a)    == PlatformRead(a)
HealthRead(a)           == PlatformRead(a)
TokensRead(a)           == PlatformRead(a)
AnnouncementsRead(a, g) == IF g = None THEN "bad" ELSE GroupRead(a, g, GroupAdmin)
AliasesRead(a)          == PlatformRead(a)
StatusRead(a)           == PlatformRead(a)
AuditRead(a, g)         == ScopedRead(a, g, Moderator)
RulesRead(a, g) ==
    IF g = None THEN "bad"
    ELSE IF g = Default THEN PlatformRead(a) ELSE GroupRead(a, g, Moderator)
TopicsRead(a)           == PlatformRead(a)
ReportsRead(a, g)       == ScopedRead(a, g, GroupAdmin)
PermissionsRead(a)      == PlatformRead(a)
IdentitiesRead(a)       == PlatformRead(a)

\* A page that asks several things at once shows nothing unless all are granted.
All(answers) == Answer("forbidden" \notin answers)

ListRead(p, a, g) ==
    CASE p \in {"pending", "activities"} -> "ok"    \* filtered, never refused
      [] p = "audit"         -> AuditRead(a, g)
      [] p = "punishments"   -> PunishmentsRead(a, g)
      [] p = "blacklist"     -> BlacklistRead(a, g)
      [] p = "appeals"       -> AppealsRead(a, g)
      [] p = "deliveries"    -> DeliveriesRead(a, g)
      [] p = "rules"         -> RulesRead(a, g)
      [] p = "announcements" -> AnnouncementsRead(a, g)
      [] p = "reports"       -> ReportsRead(a, g)
      [] p = "notify"        -> All({TopicsRead(a), SubscriptionsRead(a)})
      [] p = "aliases"       -> AliasesRead(a)
      [] p = "permissions"   -> PermissionsRead(a)
      [] p = "identities"    -> IdentitiesRead(a)
      [] p = "status"        -> All({StatusRead(a), TasksRead(a), HealthRead(a), TokensRead(a)})
      [] p = "settings"      -> SettingsRead(a)

GlobalRow == [group |-> Default, open |-> TRUE]
Asked(g) == IF g = None THEN Groups ELSE Groups \cap {g}
RowsOf(gs, open) == {[group |-> g, open |-> g \in open] : g \in gs}

\* The open join requests of the groups the account moderates.
PendingRows(a, g, open)    == RowsOf(Asked(g) \cap Told(a) \cap open, open)
ActivityRows(a, g, open)   == RowsOf(Asked(g) \cap Told(a), open)
PunishmentRows(g, open)    == RowsOf(Asked(g), open)
AppealRows(g, open)        == RowsOf(Asked(g), open)
AnnouncementRows(g)        == RowsOf(Asked(g), {})
\* The group's entries, and the global ones for those who may see them.
BlacklistRows(a, g, open)  ==
    RowsOf(Asked(g) \cap open, open) \cup {r \in {GlobalRow} : a.super}
\* What the shown rules override, as one row.
RuleRows(g, open)          ==
    RowsOf(Asked(g) \cap open, open) \cup {r \in {GlobalRow} : g = Default}

ListRows(p, a, g, open) ==
    CASE p = "pending"       -> PendingRows(a, g, open)
      [] p = "activities"    -> ActivityRows(a, g, open)
      [] p = "punishments"   -> PunishmentRows(g, open)
      [] p = "appeals"       -> AppealRows(g, open)
      [] p = "announcements" -> AnnouncementRows(g)
      [] p = "blacklist"     -> BlacklistRows(a, g, open)
      [] p = "rules"         -> RuleRows(g, open)
      [] OTHER               -> {}        \* nothing is done on rows there

GroupAdminWrite(a, g) == AccountLevel(a, g) >= GroupAdmin
ModeratorWrite(a, g)  == AccountLevel(a, g) >= Moderator
PlatformWrite(a)      == a.super

JoinWrite(a, act, g)   == IF act = "sync" THEN ModeratorWrite(a, g) ELSE GroupAdminWrite(a, g)
AppealWrite(a, g)      == ModeratorWrite(a, g)
PunishWrite(a, act, g) == ModeratorWrite(a, g) /\ (act = "banEverywhere" => PlatformWrite(a))
BlacklistWrite(a, g)   == IF g = Default THEN PlatformWrite(a) ELSE ModeratorWrite(a, g)
ActivityWrite(a, g)    == GroupAdminWrite(a, g)
AnnouncementWrite(a, g) == g # None /\ GroupAdminWrite(a, g)
RuleWrite(a, g)        == IF g = Default THEN PlatformWrite(a) ELSE GroupAdminWrite(a, g)
RuleReset(a, g)        == IF g = Default THEN PlatformWrite(a) ELSE GroupAdminWrite(a, g)
TopicWrite(a, act)     == act = "test" \/ PlatformWrite(a)
RetryModule(a)         == PlatformWrite(a)
RollbackDeploy(a)      == PlatformWrite(a)
RevokeTokens(a)        == PlatformWrite(a)
StatusWrite(a, act)    ==
    CASE act = "retry" -> RetryModule(a) [] act = "rollback" -> RollbackDeploy(a)
      [] act = "revoke" -> RevokeTokens(a)
SettingWrite(a)        == PlatformWrite(a)
PermissionWrite(a)     == PlatformWrite(a)
AliasWrite(a)          == PlatformWrite(a)
AuditExport(a, act, g) ==
    IF g = None \/ act = "exportInFull" THEN PlatformWrite(a) ELSE GroupAdminWrite(a, g)
ReportsExport(a, act, g) ==
    IF g = None \/ act = "exportInFull" THEN PlatformWrite(a) ELSE GroupAdminWrite(a, g)
ActivityExport(a, g)   == GroupAdminWrite(a, g)

MayWrite(p, a, act, g) ==
    CASE p = "pending"       -> JoinWrite(a, act, g)
      [] p = "appeals"       -> AppealWrite(a, g)
      [] p = "punishments"   -> PunishWrite(a, act, g)
      [] p = "blacklist"     -> BlacklistWrite(a, g)
      [] p = "activities"    -> IF act = "export" THEN ActivityExport(a, g) ELSE ActivityWrite(a, g)
      [] p = "announcements" -> AnnouncementWrite(a, g)
      [] p = "rules"         -> IF act \in {"reset", "resetAll"} THEN RuleReset(a, g) ELSE RuleWrite(a, g)
      [] p = "notify"        -> TopicWrite(a, act)
      [] p = "status"        -> StatusWrite(a, act)
      [] p = "settings"      -> SettingWrite(a)
      [] p = "permissions"   -> PermissionWrite(a)
      [] p = "aliases"       -> AliasWrite(a)
      [] p = "audit"         -> AuditExport(a, act, g)
      [] p = "reports"       -> ReportsExport(a, act, g)

-----------------------------------------------------------------------------
(* The tab: what it may offer. *)

IsSuper == identity # None /\ identity.super
GroupOptions == IF identity = None THEN {} ELSE Told(identity)
LevelIn(g) ==
    IF IsSuper THEN GroupSuper ELSE IF g \in GroupOptions THEN identity.level[g] ELSE 0
Manageable == {g \in GroupOptions : LevelIn(g) >= GroupAdmin}
Reviewable == {g \in GroupOptions : LevelIn(g) >= Moderator}

\* The pages the navigation links to; any page opens by its address.
Linked(p) == p \notin PlatformPages \/ IsSuper

\* One of gs to begin with (the first in the list; which one is left open).
OneOf(gs, otherwise) == IF gs = {} THEN {otherwise} ELSE gs
SuperOr(gs) == IF IsSuper THEN {None} ELSE OneOf(gs, None)

\* The group a page begins with, and those its selector has.
Begins(p) ==
    CASE p \in {"audit", "appeals", "punishments", "deliveries"} -> SuperOr(Reviewable)
      [] p = "reports"       -> SuperOr(Manageable)
      [] p = "blacklist"     -> OneOf(Reviewable, None)
      [] p = "announcements" -> OneOf(Manageable, None)
      [] p = "rules"         -> IF Manageable # {} THEN Manageable
                                ELSE OneOf(GroupOptions, IF IsSuper THEN Default ELSE None)
      [] OTHER               -> {None}

Choices(p) ==
    CASE p \in {"pending", "activities"} -> GroupOptions \cup {None}
      [] p \in {"audit", "appeals", "punishments", "deliveries"} ->
             GroupOptions \cup {x \in {None} : IsSuper}
      [] p = "reports"       -> Manageable \cup {x \in {None} : IsSuper}
      [] p = "blacklist"     -> GroupOptions
      [] p = "announcements" -> Manageable
      [] p = "rules"         -> GroupOptions \cup {x \in {Default} : IsSuper}
      [] p = "permissions"   -> {g \in Groups : IsSuper} \cup {None}
      [] OTHER               -> {}

\* Whether each page asks the server at all.
PendingAsks            == TRUE
AuditAsks(g)           == IsSuper \/ g # None
AppealsAsks(g)         == IsSuper \/ g # None
PunishmentsAsks(g)     == IsSuper \/ g # None
DeliveriesAsks(g)      == IsSuper \/ g # None
BlacklistAsks(g)       == g # None
RulesAsks(g)           == g # None /\ (g = Default => IsSuper)
ActivitiesAsks         == TRUE
AnnouncementsAsks(g)   == g # None
ReportsAsks(g)         == IsSuper \/ g # None
NotifyAsks             == TRUE
StatusAsks             == IsSuper
SettingsAsks           == IsSuper
AliasesAsks            == IsSuper
PermissionsAsks        == IsSuper
IdentitiesAsks         == IsSuper

Asks(p, g) ==
    CASE p = "pending"       -> PendingAsks
      [] p = "audit"         -> AuditAsks(g)
      [] p = "appeals"       -> AppealsAsks(g)
      [] p = "punishments"   -> PunishmentsAsks(g)
      [] p = "deliveries"    -> DeliveriesAsks(g)
      [] p = "blacklist"     -> BlacklistAsks(g)
      [] p = "rules"         -> RulesAsks(g)
      [] p = "activities"    -> ActivitiesAsks
      [] p = "announcements" -> AnnouncementsAsks(g)
      [] p = "reports"       -> ReportsAsks(g)
      [] p = "notify"        -> NotifyAsks
      [] p = "status"        -> StatusAsks
      [] p = "settings"      -> SettingsAsks
      [] p = "aliases"       -> AliasesAsks
      [] p = "permissions"   -> PermissionsAsks
      [] p = "identities"    -> IdentitiesAsks

\* What can be pressed: sent at once, asked about in a dialog first, or a link
\* the browser follows by itself.  flag is what the page sets meanwhile.
Direct(act, g, flag) == [act |-> act, group |-> g, flag |-> flag, how |-> "direct"]
Ask(act, g, flag)    == [act |-> act, group |-> g, flag |-> flag, how |-> "ask"]
Link(act, g)         == [act |-> act, group |-> g, flag |-> "none", how |-> "link"]

Idle(flag) == flag \notin tab.busy
RowsAt(level) == {r \in tab.rows : LevelIn(r.group) >= level}
Open(rows) == {r \in rows : r.open}
Shown == {g \in {tab.group} : g # None}

PendingOffers ==
    {Direct("sync", g, "syncing") : g \in {x \in Shown : LevelIn(x) >= Moderator /\ Idle("syncing")}}
    \cup {Ask(act, r.group, "busy") : act \in {"approve", "reject"}, r \in RowsAt(GroupAdmin)}

AppealsOffers ==
    {Ask(act, r.group, "busy") : act \in {"accept", "dismiss"}, r \in Open(RowsAt(Moderator))}

\* Mutant: the ban everywhere is offered to every moderator of the group.
MPunishmentsOffers ==
    {Ask("release", r.group, "busy") : r \in Open(RowsAt(Moderator))}
    \cup {Ask(act, r.group, "busy") : act \in {"mute", "ban", "banEverywhere"},
                                      r \in RowsAt(Moderator)}

PunishmentsOffers ==
    {Ask("release", r.group, "busy") : r \in Open(RowsAt(Moderator))}
    \cup {Ask(act, r.group, "busy") : act \in {"mute", "ban"}, r \in RowsAt(Moderator)}
    \cup {Ask("banEverywhere", r.group, "busy") : r \in {x \in tab.rows : IsSuper}}

BlacklistOffers ==
    {Ask("add", g, "add") : g \in Shown \cup {x \in {Default} : IsSuper}}
    \cup {Ask("remove", r.group, "remove") : r \in RowsAt(Moderator)}

ActivitiesOffers ==
    {Direct("create", g, "creating") : g \in {x \in Manageable : Idle("creating")}}
    \cup {Direct(act, r.group, r.group) :
             act \in {"set", "bind"}, r \in {x \in RowsAt(GroupAdmin) : Idle(x.group)}}
    \cup {Direct("open", r.group, r.group) :
             r \in {x \in RowsAt(GroupAdmin) : ~x.open /\ Idle(x.group)}}
    \cup {Link("export", r.group) : r \in RowsAt(GroupAdmin)}

AnnouncementsOffers ==
    IF ~Idle("busy") THEN {}
    ELSE {Direct("create", g, "busy") : g \in {x \in {tab.group} : tab.view}}
         \cup {Direct("update", r.group, "busy") : r \in tab.rows}
         \cup {Ask(act, r.group, "busy") : act \in {"send", "remove"}, r \in tab.rows}

RulesOffers ==
    LET editable == {g \in Shown : tab.view /\ LevelIn(g) >= GroupAdmin}
    IN  {Ask(act, g, act) : act \in {"update", "batch"}, g \in editable}
        \cup {Direct("keywords", g, "keywords") : g \in {x \in editable : Idle("keywords")}}
        \cup {Ask("reset", g, "reset") : g \in {x \in editable : Idle("reset") /\ tab.rows # {}}}
        \cup {Ask("resetAll", g, "resetAll") : g \in {x \in editable : Idle("resetAll")}}

\* A thing of the whole platform is offered when the condition holds.
Platform(offer, condition) == {o \in {offer} : condition}

NotifyOffers ==
    Platform(Direct("test", Default, "testing"), Idle("testing"))
    \cup Platform(Ask("level", Default, "saving"), IsSuper /\ tab.view /\ Idle("saving"))
    \cup Platform(Ask("reset", Default, "saving"), IsSuper /\ ~tab.loading /\ Idle("saving"))

StatusOffers ==
    Platform(Direct("retry", Default, "retrying"), tab.view /\ Idle("retrying"))
    \cup Platform(Ask("rollback", Default, "rollingBack"), tab.view /\ Idle("rollingBack"))
    \cup Platform(Ask("revoke", Default, "revoking"), tab.view /\ Idle("revoking"))

\* The Enter key saves even while a save is under way.
SettingsOffers ==
    Platform(Direct("set", Default, "saving"), tab.view)
    \cup Platform(Direct("clear", Default, "saving"), tab.view /\ Idle("saving"))

PermissionsOffers ==
    UNION {Platform(Ask(act, Default, "saving"), IsSuper /\ Idle("saving")) :
              act \in {"grant", "revoke"}}

\* An alias the table shows already is asked about before it is overwritten.
AliasesOffers ==
    Platform(Direct("set", Default, "submitting"), IsSuper /\ Idle("submitting"))
    \cup Platform(Ask("overwrite", Default, "submitting"), IsSuper /\ tab.view /\ Idle("submitting"))
    \cup Platform(Ask("remove", Default, "removing"), IsSuper /\ tab.view /\ Idle("removing"))

AuditOffers ==
    {Link("export", tab.group)} \cup {Link("exportInFull", g) : g \in {x \in {tab.group} : IsSuper}}

ReportsOffers ==
    {Link("export", tab.group)} \cup {Link("exportInFull", g) : g \in {x \in {tab.group} : IsSuper}}

Offers ==
    CASE tab.page = "pending"       -> PendingOffers
      [] tab.page = "appeals"       -> AppealsOffers
      [] tab.page = "punishments"   -> PunishmentsOffers
      [] tab.page = "blacklist"     -> BlacklistOffers
      [] tab.page = "activities"    -> ActivitiesOffers
      [] tab.page = "announcements" -> AnnouncementsOffers
      [] tab.page = "rules"         -> RulesOffers
      [] tab.page = "notify"        -> NotifyOffers
      [] tab.page = "status"        -> StatusOffers
      [] tab.page = "settings"      -> SettingsOffers
      [] tab.page = "permissions"   -> PermissionsOffers
      [] tab.page = "aliases"       -> AliasesOffers
      [] tab.page = "audit"         -> AuditOffers
      [] tab.page = "reports"       -> ReportsOffers
      [] OTHER                      -> {}

-----------------------------------------------------------------------------
(* Sessions. *)

Alive(s) == /\ store[s] # None
            /\ now - store[s] <= Ttl
Accepted(s) == s # None /\ Alive(s)
Touched(s) == [store EXCEPT ![s] = now]

\* The session of a request, renewed; one that is too old is dropped.
Touch(s) ==
    /\ store' = IF Alive(s) THEN Touched(s) ELSE [store EXCEPT ![s] = None]
    /\ used' = IF Alive(s) THEN [used EXCEPT ![s] = now] ELSE used
    /\ UNCHANGED closed

Pruned == [s \in Sids |-> IF Alive(s) THEN store[s] ELSE None]
Live(st) == {s \in Sids : st[s] # None}

Without(st, v) == [s \in Sids |-> IF s = v THEN None ELSE st[s]]

\* Mutant: the session seen last but the new one goes.
MEvicted(st, newest) ==
    IF Cardinality(Live(st)) <= MaxSessions THEN {st}
    ELSE {Without(st, v) : v \in {x \in Live(st) \ {newest} : \A y \in Live(st) \ {newest} : st[x] >= st[y]}}

\* The sessions left when there may be one too many: the one not seen for
\* longest goes (never the newest).
Evicted(st, newest) ==
    IF Cardinality(Live(st)) <= MaxSessions THEN {st}
    ELSE {Without(st, v) : v \in {x \in Live(st) \ {newest} : \A y \in Live(st) : st[x] <= st[y]}}

Create(s) ==
    /\ store' \in Evicted([Pruned EXCEPT ![s] = now], s)
    /\ used' = [used EXCEPT ![s] = now]
    /\ UNCHANGED closed

-----------------------------------------------------------------------------
(* The browser. *)

\* The cookie goes with a request while the browser keeps it.
Cookie == IF cookie # None /\ now <= cookie.till THEN cookie.sid ELSE None

Call(p, act, g, flag) ==
    [page |-> p, act |-> act, group |-> g, flag |-> flag, sid |-> Cookie, here |-> TRUE,
     fair |-> current /\ Linked(p), back |-> FALSE, status |-> "none", rows |-> {}]

\* The answer to a link goes to the browser, not to the tab.
ToTab(c) == c.act = "list" \/ c.flag # "none"

\* Leaving a page: what it asked is answered to nobody, but that the session
\* is gone.
Left(c) == [c EXCEPT !.here = FALSE, !.fair = FALSE, !.page = "left", !.group = None,
                     !.flag = "none", !.act = IF ToTab(c) THEN "list" ELSE @]
Unheard(c) == c = None \/ (c.back /\ c.status # "gone")
Orphaned == [n \in Slots |-> IF Unheard(calls[n]) THEN None ELSE Left(calls[n])]

Event == events < MaxEvents /\ events' = events + 1

\* Following a link; at the start any page may come up by its address.  From
\* page to page the way is over the dashboard (leaving a page is the same
\* whichever comes next).
OpenPage(p) ==
    /\ identity # None
    /\ \/ tab.page = "starting" /\ UNCHANGED events
       \/ Linked(p) /\ (p = "dashboard" <=> tab.page # "dashboard") /\ Event
    /\ \E g \in Begins(p) :
          LET asks == p \in Pages /\ Asks(p, g)
          IN  /\ asks => Free # {}
              /\ tab' = [Blank(p, g) EXCEPT !.loading = asks]
              /\ calls' = IF asks THEN [Orphaned EXCEPT ![Slot] = Call(p, "list", g, "none")]
                          ELSE Orphaned
    /\ UNCHANGED <<now, sessions, account, cookie, identity, current>>

\* Another group, or the same again.
Choose(g) ==
    /\ tab.dialog = None
    /\ \/ g \in (IF tab.page \in Pages THEN Choices(tab.page) ELSE {}) \ {tab.group}
       \/ g = tab.group /\ tab.page \in Pages /\ ~tab.loading
    /\ Event
    /\ LET asks == Asks(tab.page, g)
       IN  /\ asks => Free # {}
           /\ tab' = [tab EXCEPT !.group = g, !.loading = asks \/ @]
           /\ calls' = IF asks THEN [calls EXCEPT ![Slot] = Call(tab.page, "list", g, "none")]
                       ELSE calls
    /\ UNCHANGED <<now, sessions, account, cookie, identity, current>>

\* Mutant: opening a dialog forgets that something is under way, on every page.
MOpened(o) == [tab EXCEPT !.dialog = o, !.busy = @ \ {o.flag}]

\* Opening the refusal of a join request forgets that something is under way.
Opened(o) ==
    [tab EXCEPT !.dialog = o,
                !.busy = IF tab.page = "pending" /\ o.act = "reject" THEN @ \ {o.flag} ELSE @]

\* The activities page remembers one row as busy; permissions closes its dialog first.
Sent(o) ==
    [tab EXCEPT !.dialog = IF tab.page = "permissions" THEN None ELSE @,
                !.busy = IF o.how = "link" THEN @
                         ELSE IF o.flag \in Groups THEN (@ \ Groups) \cup {o.flag}
                         ELSE @ \cup {o.flag}]

Send(o) ==
    /\ Free # {}
    /\ tab' = Sent(o)
    /\ calls' = [calls EXCEPT ![Slot] = Call(tab.page, o.act, o.group, o.flag)]

Press(o) ==
    /\ tab.dialog = None /\ events < MaxEvents /\ o \in Offers
    /\ IF o.how = "ask" THEN tab' = Opened(o) /\ UNCHANGED <<calls, events>>
       ELSE Send(o) /\ Event
    /\ UNCHANGED <<now, sessions, account, cookie, identity, current>>

Confirm ==
    /\ tab.dialog # None /\ Idle(tab.dialog.flag) /\ Event
    /\ Send(tab.dialog)
    /\ UNCHANGED <<now, sessions, account, cookie, identity, current>>

\* Esc closes a dialog, a busy one too.
Escape ==
    /\ tab.dialog # None
    /\ tab' = [tab EXCEPT !.dialog = None]
    /\ UNCHANGED <<now, sessions, account, cookie, identity, current, calls, events>>

\* A one-time token makes a session; then the tab asks who it is.
Login ==
    /\ tab.page = "login" /\ Event
    /\ \E s \in Fresh(Mine) :
          Create(s) /\ cookie' = [sid |-> s, till |-> now + Ttl]
    /\ identity' = account /\ current' = TRUE
    /\ tab' = Blank("starting", None)
    /\ UNCHANGED <<now, account, calls>>

\* F5: the app starts again and asks who it is before it shows anything.
Reload ==
    /\ Event
    /\ calls' = Orphaned
    /\ IF Accepted(Cookie)
       THEN identity' = account /\ tab' = Blank("starting", None)
       ELSE identity' = None /\ tab' = Blank("login", None)
    /\ current' = TRUE
    /\ IF Cookie = None THEN UNCHANGED sessions ELSE Touch(Cookie)
    /\ UNCHANGED <<now, account, cookie>>

\* The server ends the session and clears the cookie, if it is reached and
\* still knows the session; the tab forgets in any case.
SignOut ==
    /\ identity # None /\ Event
    /\ calls' = Orphaned /\ identity' = None /\ tab' = Blank("login", None)
    /\ current' = TRUE
    /\ \/ /\ Accepted(Cookie)
          /\ store' = [store EXCEPT ![Cookie] = None]
          /\ used' = [used EXCEPT ![Cookie] = now]
          /\ closed' = closed \cup {Cookie}
          /\ cookie' = None
       \/ /\ ~Accepted(Cookie)
          /\ IF Cookie = None THEN UNCHANGED sessions ELSE Touch(Cookie)
          /\ UNCHANGED cookie
       \/ UNCHANGED <<sessions, cookie>>
    /\ UNCHANGED <<now, account>>

-----------------------------------------------------------------------------
(* The server answers. *)

Answered(n, status, rows) ==
    calls' = [calls EXCEPT ![n].back = TRUE, ![n].status = status, ![n].rows = rows]

Outcomes(c) ==
    CASE c.act = "list" -> {ListRead(c.page, account, c.group)}
      [] OTHER -> IF MayWrite(c.page, account, c.act, c.group) THEN {"ok", "failed"}
                  ELSE {"forbidden"}

\* The rows of a list; a write of an announcement comes with the list too.
Payload(c, status) ==
    IF status # "ok" \/ ~(c.act = "list" \/ c.page = "announcements") THEN {{}}
    ELSE {ListRows(c.page, account, c.group, open) : open \in SUBSET Groups}

ServeCall(n) ==
    /\ calls[n] # None /\ ~calls[n].back
    /\ LET c == calls[n]
       IN  IF c.sid = None
           THEN Answered(n, "gone", {}) /\ UNCHANGED sessions
           ELSE /\ Touch(c.sid)
                /\ IF ~Alive(c.sid) THEN Answered(n, "gone", {})
                   ELSE IF ~c.here THEN calls' = [calls EXCEPT ![n] = None]
                   ELSE \E status \in Outcomes(c) : \E rows \in Payload(c, status) :
                           Answered(n, status, rows)
    /\ UNCHANGED <<now, account, cookie, identity, current, tab, events>>

\* The answer is lost on the way: the call fails, the server may have served it.
Lose(n) ==
    /\ calls[n] # None /\ calls[n].here /\ calls[n].status # "failed" /\ Event
    /\ Answered(n, "failed", {})
    /\ UNCHANGED <<now, sessions, account, cookie, identity, current, tab>>

-----------------------------------------------------------------------------
(* The tab hears the answer. *)

\* A list that came is shown, whichever group it was asked for.
Listed(c) ==
    [tab EXCEPT !.rows = IF c.status = "ok" THEN c.rows ELSE IF c.page = "rules" THEN {} ELSE @,
                !.view = c.status = "ok" \/ (@ /\ c.page # "rules"),
                !.loading = FALSE,
                !.busy = @ \ {c.flag}]

Freed(t, c) == [t EXCEPT !.busy = @ \ (IF c.flag \in Groups THEN Groups ELSE {c.flag})]
Shut(t, c)  == [t EXCEPT !.dialog = IF @ # None /\ @.act = c.act THEN None ELSE @]

\* What a page does with the answer to a write: it closes the dialog that
\* asked for it (t is the page without), shows the list again, and stays busy
\* until that came (a page without a group asks for none) ...
Relisted(t, c) ==
    IF c.status # "ok" THEN [tab |-> Freed(tab, c), again |-> FALSE]
    ELSE IF Asks(c.page, tab.group)
    THEN [tab |-> [t EXCEPT !.loading = TRUE], again |-> TRUE]
    ELSE [tab |-> [Freed(t, c) EXCEPT !.view = FALSE, !.rows = {}], again |-> FALSE]
Relisting(c) == Relisted(Shut(tab, c), c)
\* ... or shows what came with the answer.
Showing(c) ==
    [tab |-> Freed(IF c.status = "ok" THEN [tab EXCEPT !.rows = c.rows, !.view = TRUE] ELSE tab, c),
     again |-> FALSE]

PendingHears(c)     == Relisting(c)
AppealsHears(c)     == Relisting(c)
BlacklistHears(c)   == Relisting(c)
ActivitiesHears(c)  == Relisting(c)
RulesHears(c)       == Relisting(c)
PermissionsHears(c) == Relisting(c)

\* The page of the punishments closes whichever dialog is open by then.
PunishmentsHears(c) == Relisted([tab EXCEPT !.dialog = None], c)

\* The dialogs of announcements and topics close whatever the answer.
AnnouncementsHears(c) ==
    [Showing(IF c.act = "send" THEN [c EXCEPT !.status = "sent"] ELSE c) EXCEPT !.tab = Shut(@, c)]
NotifyHears(c) == [Showing(c) EXCEPT !.tab = Shut(@, c)]

SettingsHears(c) == [tab |-> Freed(tab, c), again |-> FALSE]
AliasesHears(c) ==
    IF c.status = "ok" THEN [Showing(c) EXCEPT !.tab = Shut(@, c)] ELSE Showing(c)

\* The status page reads the part it changed again; its dialogs then close.
StatusHears(c) ==
    IF c.status = "ok" THEN [tab |-> Shut(tab, c), again |-> TRUE]
    ELSE [tab |-> Shut(Freed(tab, c), c), again |-> FALSE]

Hears(c) ==
    CASE c.page = "pending"       -> PendingHears(c)
      [] c.page = "appeals"       -> AppealsHears(c)
      [] c.page = "punishments"   -> PunishmentsHears(c)
      [] c.page = "blacklist"     -> BlacklistHears(c)
      [] c.page = "activities"    -> ActivitiesHears(c)
      [] c.page = "announcements" -> AnnouncementsHears(c)
      [] c.page = "rules"         -> RulesHears(c)
      [] c.page = "notify"        -> NotifyHears(c)
      [] c.page = "status"        -> StatusHears(c)
      [] c.page = "settings"      -> SettingsHears(c)
      [] c.page = "permissions"   -> PermissionsHears(c)
      [] c.page = "aliases"       -> AliasesHears(c)

\* A session that is gone sends the tab to the login page, whichever page and
\* session the call was from; the tab keeps the identity.
SentAway(n) ==
    /\ tab' = IF tab.page = "login" THEN tab ELSE Blank("login", None)
    /\ calls' = [Orphaned EXCEPT ![n] = None]

\* The list asked for again, the page still busy with what it did.
Again(n, c) == [calls EXCEPT ![n] = Call(c.page, "list", tab.group, c.flag)]

\* The groups that have permissions come with the first answer of that page,
\* which picks one, if there is one, and asks again.
Hear(n) ==
    /\ calls[n] # None /\ calls[n].back
    /\ LET c == calls[n]
       IN  CASE c.status = "gone" /\ ToTab(c) -> SentAway(n)
             [] ~c.here \/ ~ToTab(c) -> calls' = [calls EXCEPT ![n] = None] /\ UNCHANGED tab
             [] c.act = "list" /\ c.here ->
                  \/ tab' = Listed(c) /\ calls' = [calls EXCEPT ![n] = None]
                  \/ /\ c.page = "permissions" /\ c.status = "ok" /\ tab.group = None
                     /\ \E g \in Groups :
                          /\ tab' = [Listed(c) EXCEPT !.group = g, !.loading = TRUE, !.busy = tab.busy]
                          /\ calls' = [calls EXCEPT ![n] = Call(c.page, "list", g, c.flag)]
             [] OTHER ->
                  /\ tab' = Hears(c).tab
                  /\ calls' = IF Hears(c).again THEN Again(n, c) ELSE [calls EXCEPT ![n] = None]
    /\ UNCHANGED <<now, sessions, account, cookie, identity, current, events>>

-----------------------------------------------------------------------------
(* Others, and time. *)

OtherLogin ==
    /\ Event
    /\ \E s \in Fresh(Others) : Create(s)
    /\ UNCHANGED <<now, account, cookie, identity, current, tab, calls>>

OtherUses(s) ==
    /\ store[s] # None /\ store[s] # now /\ Event
    /\ Touch(s)
    /\ UNCHANGED <<now, account, cookie, identity, current, tab, calls>>

\* Sessions live in memory only.
Restart ==
    /\ Event /\ Live(store) # {}
    /\ store' = [s \in Sids |-> None]
    /\ closed' = closed \cup Live(store)
    /\ UNCHANGED <<now, used, account, cookie, identity, current, tab, calls>>

\* The account is granted or loses something; what is under way was offered
\* under the old permissions.
Regrade(a) ==
    /\ a # account /\ Event
    /\ account' = a /\ current' = FALSE
    /\ calls' = [n \in Slots |-> IF calls[n] = None THEN None ELSE [calls[n] EXCEPT !.fair = FALSE]]
    /\ UNCHANGED <<now, sessions, cookie, identity, tab>>

Tick ==
    /\ Event /\ now' = now + 1
    /\ UNCHANGED <<sessions, account, cookie, identity, current, tab, calls>>

-----------------------------------------------------------------------------
ConsoleInit ==
    /\ now = 0 /\ events = 0
    /\ account \in Accounts /\ identity = account /\ current = TRUE
    /\ tab = Blank("starting", None)
    /\ calls = [n \in Slots |-> None]
    /\ closed = {}
    /\ \E s \in Mine :
          /\ store = [x \in Sids |-> IF x = s THEN 0 ELSE None]
          /\ used = store
          /\ cookie = [sid |-> s, till |-> Ttl]

ConsoleNext ==
    \/ \E p \in Pages \cup {"dashboard"} : OpenPage(p)
    \/ \E g \in Groups \cup {Default, None} : Choose(g)
    \/ \E o \in Offers : Press(o)
    \/ Confirm \/ Escape \/ Login \/ Reload \/ SignOut
    \/ \E n \in Slots : ServeCall(n) \/ Lose(n) \/ Hear(n)
    \/ OtherLogin \/ \E s \in Others : OtherUses(s)
    \/ Restart \/ \E a \in Accounts : Regrade(a)
    \/ Tick

ConsoleSpec == ConsoleInit /\ [][ConsoleNext]_consoleVars

-----------------------------------------------------------------------------
Acts ==
    {"list", "sync", "approve", "reject", "accept", "dismiss", "release", "mute", "ban",
     "banEverywhere", "add", "remove", "create", "update", "set", "bind", "open", "send",
     "batch", "keywords", "reset", "resetAll", "test", "level", "retry", "rollback", "revoke",
     "clear", "grant", "overwrite", "export", "exportInFull"}
Flags  == FlagNames \cup Groups \cup {Default}
Places == Groups \cup {Default, None}
Rows   == [group : Groups \cup {Default}, open : BOOLEAN]
Offered == [act : Acts, group : Places, flag : Flags, how : {"direct", "ask", "link"}]
CallType ==
    [page : Pages \cup {"left"}, act : Acts, group : Places, flag : Flags,
     sid : Sids \cup {None}, here : BOOLEAN, fair : BOOLEAN, back : BOOLEAN,
     status : {"none", "ok", "failed", "gone", "forbidden", "bad"}, rows : SUBSET Rows]
TabType ==
    [page : Pages \cup {"login", "starting", "dashboard"}, group : Places, rows : SUBSET Rows,
     view : BOOLEAN, loading : BOOLEAN, dialog : Offered \cup {None}, busy : SUBSET Flags]

\* Every variable has its type; time passes by events.
ConsoleTypeOK ==
    /\ now \in Nat /\ events \in Nat /\ now <= events /\ events <= MaxEvents
    /\ account \in Accounts /\ identity \in Accounts \cup {None}
    /\ store \in [Sids -> Nat \cup {None}] /\ used \in [Sids -> Nat \cup {None}]
    /\ closed \subseteq Sids
    /\ cookie \in [sid : Sids, till : Nat] \cup {None}
    /\ current \in BOOLEAN
    /\ tab \in TabType
    /\ calls \in [Slots -> CallType \cup {None}]

\* What a page offers the server grants: a list or write asked for on a page
\* the navigation links to, while the tab's permissions are current, is not
\* answered with "forbidden" or "bad request".  Left out: calls that name no
\* group (a page says so when there is no group to pick) and the audit's CSV
\* link, which the page shows to moderators and the server keeps for group
\* administrators.
OffersAreGranted ==
    \A n \in Slots :
        calls[n] # None =>
            LET c == calls[n]
            IN  /\ c.fair
                /\ c.group # None \/ account.super
                /\ ~(c.page = "audit" /\ c.act = "export")
                => c.status \notin {"forbidden", "bad"}

\* A page has one write of a kind under way at a time, whatever is pressed,
\* escaped and answered late.  Not so, in the code, for join requests (opening a
\* refusal forgets the approval under way), settings (the Enter key) and
\* activities (one busy row is remembered).
OneWriteAtATime ==
    \A m, n \in Slots :
        /\ m # n /\ calls[m] # None /\ calls[n] # None
        => LET c == calls[m]
               d == calls[n]
           IN  ~ (/\ c.here /\ d.here /\ c.flag = d.flag /\ c.flag # "none"
                  /\ c.page \notin {"pending", "settings", "activities"})

\* A session that was used within its time is still there: neither pruning nor
\* eviction takes it unless as many others were seen since, and only signing
\* out and a restart end it.
ActiveSessionStays ==
    \A s \in Sids :
        /\ used[s] # None /\ now - used[s] <= Ttl /\ s \notin closed
        /\ Cardinality({o \in Sids \ {s} : used[o] # None /\ used[o] >= used[s]}) < MaxSessions
        => store[s] # None

=============================================================================
