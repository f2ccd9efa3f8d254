-------------------------------- MODULE Users --------------------------------
(***************************************************************************)
(* What the bot knows of its users: the QQ number or group number bound to *)
(* an official id, the short code shown for an id without one, a personal  *)
(* profile, the aliases of class names; and the two operations that        *)
(* rewrite these tables beside the services: anonymising a user and        *)
(* migrating rows of an old format.  Bindings are written through and      *)
(* awaited, the rest goes through the one write queue.                     *)
(*                                                                         *)
(* Sources: services/identityMap.ts, shortCodes.ts, userProfiles.ts,       *)
(* classAliases.ts, displayNames.ts, privacy.ts, dataMigration.ts, their   *)
(* repositories, their commands and the API's alias entrances.             *)
(*                                                                         *)
(* pooled tells the two databases apart: PostgreSQL answers each query     *)
(* later and in any order (a pool of connections); SQLite answers within   *)
(* the caller's turn, so nothing else runs while a chain of queries does.  *)
(* A profile's name and college are one value each, a student id stands    *)
(* for its first two digits, and Legacy is a year written in four.         *)
(***************************************************************************)
EXTENDS Naturals, Sequences, FiniteSets, Functions

CONSTANTS
    Users, Supers,          \* users, and the global super admins who act on them
    Groups,
    Qqs, Numbers,           \* what a user, and what a group, is bound to
    Codes, LowerCodes,      \* short codes; those that an old version wrote
    Name,                   \* the one name
    Classes, Words,         \* class names of the roster; what else people call a class
    YearOf,                 \* the year of each class
    Years, Legacy,          \* PROFILE_ENTRY_YEARS; the four-digit form of one of them
    None, Anon,             \* nobody or nothing; the placeholder anonymising leaves
    Fields,                 \* fields that are set or cleared one at a time
    Messages,               \* what /profile set may find in one message
    MaxEdits, MaxTroubles, MaxQueue      \* bounds: operations; failures and crashes; queue length

VARIABLES
    pooled,           \* the database is PostgreSQL
    numberOf,         \* memory: IdentityMapService, official id to number
    ownerOf,          \* memory: the same, number to official id
    binds,            \* bindings being written
    profiles,         \* memory: UserProfileService.profiles
    codes,            \* memory: ShortCodeService.byCode
    pool,             \* globalCodePool: codes no new entry may take
    aliases,          \* memory: ClassAliasService.aliases
    queue,            \* WriteQueue, in order
    bindRows, profileRows, codeRows, aliasRows,      \* the database
    privacy,          \* the anonymisation under way
    migration,        \* the migration under way
    bound,            \* history: bindings answered with success and not touched since
    shown,            \* history: codes this process has shown, and for whom
    forgotten,        \* history: anonymised while nothing else touched them, and still since
    revived,          \* history: users put back behind an anonymisation, and where
    lossless,         \* history: no database call failed and no process died
    edits, troubles

numbers == <<numberOf, ownerOf, binds>>
database == <<bindRows, profileRows, codeRows, aliasRows>>
jobs    == <<privacy, migration>>
history == <<bound, shown, forgotten, revived, lossless>>
bounds  == <<edits, troubles>>
usersVars == <<pooled, numbers, profiles, codes, pool, aliases, queue, database, jobs, history, bounds>>

Officials == Users \cup Groups
Externals == Qqs \cup Numbers
Targets   == Users               \* of short codes; groups and join requests are alike
Blank     == [name |-> None, studentId |-> None, className |-> None, college |-> None, year |-> None]

(* A profile, a row to save, and the two jobs: what is left to do of them. *)
Profiles == [name : {None, Name}, studentId : Years \cup {None}, className : Classes \cup {None},
             college : Classes \cup {None}, year : Years \cup {Legacy, None}]
Saves == [table : {"profiles"}, key : Users, value : Profiles \cup {None}]
Anonymizing == [user : Users, todo : Seq({"bindings", "profiles", "codes"}),
                left : SUBSET {"profiles", "codes", "numbers"}, alone : BOOLEAN]
Migrating == [step : {"backup", "apply"}, rows : SUBSET Saves, old : SUBSET LowerCodes,
              left : SUBSET {"profiles", "codes"}]

ASSUME UsersConstants ==
    /\ LowerCodes \subseteq Codes /\ Fields \subseteq DOMAIN Blank
    /\ YearOf \in [Classes -> Years] /\ Legacy \notin Years /\ Years # {}
    /\ Users \cap Groups = {} /\ Qqs \cap Numbers = {}
    /\ None \notin Users \cup Groups \cup Qqs \cup Numbers \cup Classes /\ Anon \notin Users \cup Groups
    /\ None \notin Anonymizing \cup Migrating
    /\ {MaxEdits, MaxTroubles} \subseteq Nat

SameKind(o, x) == (o \in Users) = (x \in Qqs)

(* Who a code stands for, read the other way: codeByTarget. *)
CodeOf(t) == {c \in Codes : codes[c] = t}

(* SQLite's queries are over before another handler runs; only the backup  *)
(* of a migration lets others in.                                          *)
Free == \/ pooled
        \/ queue = <<>> /\ binds = {} /\ privacy = None
           /\ (migration # None => migration.step = "backup")

Enqueue(writes) == /\ Len(queue) + Len(writes) <= MaxQueue
                   /\ queue' = queue \o writes

Edit == /\ Free /\ edits < MaxEdits
        /\ edits' = edits + 1
        /\ UNCHANGED <<pooled, troubles>>

(* u did something: an anonymisation under way or done no longer covers it. *)
Stirs(u) == /\ forgotten' = forgotten \ {u}
            /\ privacy' = IF privacy # None /\ privacy.user = u
                          THEN [privacy EXCEPT !.alone = FALSE] ELSE privacy

UsersInit ==
    /\ pooled \in BOOLEAN
    /\ numberOf = [o \in Officials |-> None]
    /\ ownerOf = [x \in Externals |-> None]
    /\ binds = {}
    /\ bindRows = numberOf
    /\ \E old \in SUBSET Users :             \* rows an older version left behind
           /\ profileRows = [u \in Users |-> IF u \in old THEN [Blank EXCEPT !.year = Legacy] ELSE None]
           /\ \E f \in [LowerCodes -> old \cup {None}] :
                  /\ \A c, d \in LowerCodes : c # d => f[c] = None \/ f[c] # f[d]
                  /\ codeRows = [c \in Codes |-> IF c \in LowerCodes THEN f[c] ELSE None]
    /\ profiles = profileRows
    /\ codes = codeRows
    /\ pool = {c \in Codes : codeRows[c] # None}
    /\ aliases = [w \in Words |-> None]
    /\ aliasRows = aliases
    /\ queue = <<>>
    /\ privacy = None /\ migration = None
    /\ bound = {} /\ shown = {} /\ forgotten = {} /\ revived = {} /\ lossless = TRUE
    /\ edits = 0 /\ troubles = 0

-----------------------------------------------------------------------------
(* Bindings: memory first, then two statements, then memory again if one of *)
(* them fails.                                                             *)

(* An official id leaves its old number, a number its old owner. *)
Released(o, x) == [p \in Officials |-> IF p # o /\ numberOf[p] = x THEN None ELSE numberOf[p]]
Bound(o, x)    == [Released(o, x) EXCEPT ![o] = x]
Owned(o, x)    == [y \in Externals |-> IF y = x THEN o
                                       ELSE IF y = numberOf[o] THEN None ELSE ownerOf[y]]

Touches(b, o, x) == b.official = o \/ b.external = x

bindUser(o, x) ==
    /\ SameKind(o, x)
    /\ Edit
    /\ numberOf' = Bound(o, x)
    /\ ownerOf' = Owned(o, x)
    /\ binds' = {IF Touches(b, o, x) THEN [b EXCEPT !.alone = FALSE] ELSE b : b \in binds}
                \cup {[id |-> edits, official |-> o, external |-> x, step |-> "delete",
                       numberOf |-> numberOf, ownerOf |-> ownerOf,
                       alone |-> /\ \A b \in binds : ~Touches(b, o, x)
                                 /\ (privacy = None \/ privacy.user # o)]}
    /\ bound' = {b \in bound : b[1] # o /\ b[2] # x}
    /\ Stirs(o)
    /\ UNCHANGED <<profiles, codes, pool, aliases, queue, database, migration, shown, revived, lossless>>

(* /bind qq, /bind group, /bind user and /bind groupid *)
BindQq(u, x)          == u \in Users /\ x \in Qqs /\ bindUser(u, x)
BindGroup(g, x)       == g \in Groups /\ x \in Numbers /\ bindUser(g, x)
BindForUser(by, u, x) == by \in Supers /\ BindQq(u, x)
BindForGroup(by, g, x) == by \in Supers /\ BindGroup(g, x)

Delete(b) ==
    /\ b \in binds /\ b.step = "delete"
    /\ bindRows' = [o \in Officials |-> IF o = b.official \/ bindRows[o] = b.external
                                        THEN None ELSE bindRows[o]]
    /\ binds' = (binds \ {b}) \cup {[b EXCEPT !.step = "insert"]}
    /\ UNCHANGED <<pooled, numberOf, ownerOf, profiles, codes, pool, aliases, queue, profileRows,
                   codeRows, aliasRows, jobs, history, bounds>>

Taken(b) == \E o \in Officials : o # b.official /\ bindRows[o] = b.external

Insert(b) ==
    /\ b \in binds /\ b.step = "insert" /\ ~Taken(b)
    /\ bindRows' = [bindRows EXCEPT ![b.official] = b.external]
    /\ binds' = binds \ {b}
    /\ bound' = IF b.alone THEN bound \cup {<<b.official, b.external>>} ELSE bound
    /\ UNCHANGED <<pooled, numberOf, ownerOf, profiles, codes, pool, aliases, queue, profileRows,
                   codeRows, aliasRows, jobs, shown, forgotten, revived, lossless, bounds>>

(* A statement fails, or the unique index refuses the row: memory goes back *)
(* to what it was before this binding, for every id of its kind.           *)
restore(b) ==
    LET mine(o) == (o \in Users) = (b.official \in Users) IN
    /\ numberOf' = [o \in Officials |-> IF mine(o) THEN b.numberOf[o] ELSE numberOf[o]]
    /\ ownerOf' = [x \in Externals |-> IF SameKind(b.official, x) THEN b.ownerOf[x] ELSE ownerOf[x]]

Known(u) == numberOf[u] # None \/ \E x \in Externals : ownerOf[x] = u

BindFails(b) ==
    /\ b \in binds
    /\ \/ b.step = "insert" /\ Taken(b) /\ UNCHANGED <<troubles, lossless>>
       \/ troubles < MaxTroubles /\ troubles' = troubles + 1 /\ lossless' = FALSE
    /\ restore(b)
    /\ revived' = revived \cup {<<u, "numbers">> : u \in {v \in Users : ~Known(v) /\ Known(v)'}}
    /\ binds' = binds \ {b}
    /\ UNCHANGED <<pooled, profiles, codes, pool, aliases, queue, database, jobs, bound, shown, forgotten,
                   edits>>

-----------------------------------------------------------------------------
(* Short codes *)

(* A number is shown when there is one; otherwise the code, made on first use. *)
\* Mutant: a new code is compared with the codes in memory, not with the pool.
McodeFor(t) ==
    /\ \/ \E c \in CodeOf(t) : /\ <<c, t>> \notin shown
                               /\ shown' = shown \cup {<<c, t>>}
                               /\ UNCHANGED <<codes, pool, queue>>
       \/ \E c \in {d \in Codes \ LowerCodes : codes[d] = None} :
              /\ CodeOf(t) = {}
              /\ pool' = pool \cup {c}
              /\ codes' = [codes EXCEPT ![c] = t]
              /\ Enqueue(<<[table |-> "codes", key |-> c, value |-> t]>>)
              /\ shown' = shown \cup {<<c, t>>}

codeFor(t) ==
    /\ \/ \E c \in CodeOf(t) : /\ <<c, t>> \notin shown
                               /\ shown' = shown \cup {<<c, t>>}
                               /\ UNCHANGED <<codes, pool, queue>>
       \/ \E c \in (Codes \ LowerCodes) \ pool :
              /\ CodeOf(t) = {}
              /\ pool' = pool \cup {c}
              /\ codes' = [codes EXCEPT ![c] = t]
              /\ Enqueue(<<[table |-> "codes", key |-> c, value |-> t]>>)
              /\ shown' = shown \cup {<<c, t>>}

Show(t) ==
    /\ Edit
    /\ codeFor(t)
    /\ Stirs(t)
    /\ UNCHANGED <<numbers, profiles, aliases, database, migration, bound, revived, lossless>>

(* A target is named by its code, its number or its id. *)
Resolve(input) ==
    IF input \in Codes THEN codes[input]
    ELSE IF input \in Externals THEN ownerOf[input] ELSE input

(* /whois answers with the number and always with the code. *)
Whois(by, input) ==
    /\ by \in Supers
    /\ Resolve(input) \in Targets
    /\ Show(Resolve(input))

-----------------------------------------------------------------------------
(* Profiles *)

(* One field; a class brings its college, and its year where none is known; *)
(* a student id brings its year.                                           *)
SetField(p, f, v) ==
    LET next == [p EXCEPT ![f] = v] IN
    CASE f = "studentId" -> [next EXCEPT !.year = v]
      [] f = "className" -> [next EXCEPT !.college = v,
                                         !.year = IF p.year = None THEN YearOf[v] ELSE p.year]
      [] f \in {"name", "college", "year"} -> next

(* What a field accepts; an alias has been expanded before. *)
Accepts(f, v) ==
    CASE f = "name"      -> v = Name
      [] f = "className" -> v \in Classes
      [] f = "college"   -> v \in Classes          \* a college is named by its class here
      [] f \in {"studentId", "year"} -> v \in Years

current(u) == IF profiles[u] = None THEN Blank ELSE profiles[u]

save(u, p) == [table |-> "profiles", key |-> u, value |-> p]

ProfileFrame(u) == /\ Stirs(u)
                   /\ UNCHANGED <<numbers, codes, pool, aliases, database, migration, bound, shown, revived,
                                  lossless>>

SetProfile(u, f, v) ==
    /\ Edit
    /\ Accepts(f, v)
    /\ profiles' = [profiles EXCEPT ![u] = SetField(current(u), f, v)]
    /\ Enqueue(<<save(u, SetField(current(u), f, v))>>)
    /\ ProfileFrame(u)

(* What /profile set makes of one message: fields named explicitly, and     *)
(* pieces recognised in any order once aliases are expanded.  Two different *)
(* pieces of one sort, or a rest that is none, and nothing is taken.       *)
Expand(v) == IF v \in Words /\ aliases[v] # None THEN aliases[v] ELSE v

Parse(m) ==
    LET explicit == [f \in DOMAIN m.explicit |-> Expand(m.explicit[f])]
        classes  == {Expand(c) : c \in m.classes}
        found    == [f \in {"studentId", "className", "name"} |->
                       CASE f = "studentId" -> m.ids
                         [] f = "className" -> classes \cap Classes
                         [] f = "name"      -> m.names]
        taken(f) == IF f \in DOMAIN explicit THEN {explicit[f]} ELSE found[f]
        unclear  == \/ Cardinality(m.ids) > 1 \/ Cardinality(found["className"]) > 1
                    \/ Cardinality(m.names) > 1 \/ ("name" \in DOMAIN explicit /\ m.names # {})
                    \/ m.rest \/ ~(classes \subseteq Classes)
    IN  IF unclear THEN <<>>
        ELSE [f \in {g \in DOMAIN found : taken(g) # {}} \cup DOMAIN explicit |->
                IF f \in DOMAIN explicit THEN explicit[f] ELSE CHOOSE v \in found[f] : TRUE]

(* The student id, the class and the name are checked before anything is   *)
(* written; college and year are not, and a bad one stops the sequence     *)
(* after the fields before it.                                             *)
order == <<"studentId", "className", "college", "year", "name">>

(* The next field of the order, if it is reached: set in memory, and saved. *)
Take(at, u, i, fields, done) ==
    IF i \notin done THEN at
    ELSE LET next == SetField(at.profile, order[i], fields[order[i]])
         IN  [profile |-> next, writes |-> Append(at.writes, save(u, next))]

SmartProfile(u, m) ==
    /\ Edit
    /\ LET fields == Parse(m)
           ok(f)  == Accepts(f, fields[f])
           named  == {i \in DOMAIN order : order[i] \in DOMAIN fields}
           done   == {i \in named : \A j \in named : j <= i => ok(order[j])}
           next(at, i) == Take(at, u, i, fields, done)
           start  == [profile |-> current(u), writes |-> <<>>]
           end    == next(next(next(next(next(start, 1), 2), 3), 4), 5)
       IN
       /\ \A f \in {"studentId", "className", "name"} \cap DOMAIN fields : ok(f)
       /\ done # {}
       /\ profiles' = [profiles EXCEPT ![u] = end.profile]
       /\ Enqueue(end.writes)
       /\ ProfileFrame(u)

ClearField(u, f) ==
    /\ profiles[u] # None
    /\ Edit
    /\ profiles' = [profiles EXCEPT ![u][f] = Blank[f]]
    /\ Enqueue(<<save(u, [profiles[u] EXCEPT ![f] = Blank[f]])>>)
    /\ ProfileFrame(u)

ClearProfile(u) ==
    /\ profiles[u] # None
    /\ Edit
    /\ profiles' = [profiles EXCEPT ![u] = None]
    /\ Enqueue(<<save(u, None)>>)
    /\ ProfileFrame(u)

-----------------------------------------------------------------------------
(* Aliases of class names *)

putAlias(w, c) ==
    /\ Edit
    /\ aliases[w] # c
    /\ aliases' = [aliases EXCEPT ![w] = c]
    /\ Enqueue(<<[table |-> "aliases", key |-> w, value |-> c]>>)
    /\ UNCHANGED <<numbers, profiles, codes, pool, database, jobs, history>>

SetAlias(by, w, c)       == by \in Supers /\ c \in Classes /\ putAlias(w, c)
RemoveAlias(by, w)       == by \in Supers /\ aliases[w] # None /\ putAlias(w, None)
ApiSetAlias(by, w, c)    == by \in Supers /\ c \in Classes /\ putAlias(w, c)
ApiRemoveAlias(by, w)    == by \in Supers /\ aliases[w] # None /\ putAlias(w, None)

-----------------------------------------------------------------------------
(* The write queue: one write at a time; a failed one is logged and dropped. *)

(* A code or a target that already has a row keeps it. *)
codeSaved(w) == IF codeRows[w.key] # None \/ \E c \in Codes : codeRows[c] = w.value
                THEN codeRows ELSE [codeRows EXCEPT ![w.key] = w.value]

Land ==
    /\ queue # <<>>
    /\ LET w == Head(queue) IN
       /\ codeRows' = IF w.table = "codes" THEN codeSaved(w) ELSE codeRows
       /\ profileRows' = IF w.table = "profiles" THEN [profileRows EXCEPT ![w.key] = w.value] ELSE profileRows
       /\ aliasRows' = IF w.table = "aliases" THEN [aliasRows EXCEPT ![w.key] = w.value] ELSE aliasRows
    /\ queue' = Tail(queue)
    /\ UNCHANGED <<pooled, numbers, profiles, codes, pool, aliases, bindRows, jobs, history, bounds>>

WriteFails ==
    /\ queue # <<>> /\ troubles < MaxTroubles
    /\ queue' = Tail(queue)
    /\ troubles' = troubles + 1 /\ lossless' = FALSE
    /\ UNCHANGED <<pooled, numbers, profiles, codes, pool, aliases, database, jobs, bound, shown, forgotten,
                   revived, edits>>

-----------------------------------------------------------------------------
(* Reading the tables anew; pool only grows. *)

\* Mutant: the map is filled without being cleared.
MloadProfiles == profiles' = [u \in Users |-> IF profileRows[u] = None THEN profiles[u] ELSE profileRows[u]]
loadProfiles == profiles' = profileRows
loadCodes    == codes' = codeRows /\ pool' = pool \cup {c \in Codes : codeRows[c] # None}
loadNumbers  == /\ numberOf' = bindRows
                /\ ownerOf' = [x \in Externals |->
                                  IF \E o \in Officials : bindRows[o] = x
                                  THEN CHOOSE o \in Officials : bindRows[o] = x ELSE None]

(* Whoever a table no longer names is gone from memory too once it is read. *)
Still(read) == {r \in revived : r[2] \in read => r[2] = "profiles" /\ profileRows[r[1]] # None}

reload(store) ==
    /\ CASE store = "profiles" -> loadProfiles /\ UNCHANGED <<codes, pool, numberOf, ownerOf>>
         [] store = "codes"    -> loadCodes /\ UNCHANGED <<profiles, numberOf, ownerOf>>
         [] store = "numbers"  -> loadNumbers /\ UNCHANGED <<profiles, codes, pool>>
    /\ revived' = Still({store})

-----------------------------------------------------------------------------
(* /data anonymize: count, then rewrite table after table, then reload the  *)
(* stores that know people.                                                *)

tables == <<"bindings", "profiles", "codes">>           \* of STEPS, those of this module
\* Mutant: the codes are not reloaded.
Mstores == {"profiles", "numbers"}
stores == {"profiles", "codes", "numbers"}

HasRows(u) == bindRows[u] # None \/ profileRows[u] # None \/ \E c \in Codes : codeRows[c] = u

Undisturbed(u) ==
    /\ \A b \in binds : b.official # u
    /\ \A i \in DOMAIN queue : queue[i].key # u /\ queue[i].value # u

Anonymize(by, u) ==
    /\ by \in Supers /\ privacy = None /\ HasRows(u)
    /\ Edit
    /\ privacy' = [user |-> u, todo |-> tables, left |-> stores, alone |-> Undisturbed(u)]
    /\ bound' = {b \in bound : b[1] # u}
    /\ binds' = {IF b.official = u THEN [b EXCEPT !.alone = FALSE] ELSE b : b \in binds}
    /\ UNCHANGED <<numberOf, ownerOf, profiles, codes, pool, aliases, queue, database, migration, shown,
                   forgotten, revived, lossless>>

(* Nothing to anonymise, or only a preview: the answer names the user. *)
DataCard(by, u) == by \in Supers /\ numberOf[u] = None /\ Show(u)

\* Mutant: the condition on the official id is dropped.
MAnonymizeTable ==
    /\ privacy # None /\ privacy.todo # <<>>
    /\ LET u == privacy.user
           t == Head(privacy.todo) IN
       /\ bindRows' = IF t = "bindings" THEN [o \in Officials |-> IF o \in Users THEN None ELSE bindRows[o]]
                      ELSE bindRows
       /\ profileRows' = IF t = "profiles" THEN [profileRows EXCEPT ![u] = None] ELSE profileRows
       /\ codeRows' = IF t = "codes"
                      THEN [c \in Codes |-> IF codeRows[c] = u THEN Anon ELSE codeRows[c]] ELSE codeRows
    /\ privacy' = [privacy EXCEPT !.todo = Tail(@)]
    /\ UNCHANGED <<pooled, numbers, profiles, codes, pool, aliases, queue, aliasRows, migration, history,
                   bounds>>

AnonymizeTable ==
    /\ privacy # None /\ privacy.todo # <<>>
    /\ LET u == privacy.user
           t == Head(privacy.todo) IN
       /\ bindRows' = IF t = "bindings" THEN [bindRows EXCEPT ![u] = None] ELSE bindRows
       /\ profileRows' = IF t = "profiles" THEN [profileRows EXCEPT ![u] = None] ELSE profileRows
       /\ codeRows' = IF t = "codes"
                      THEN [c \in Codes |-> IF codeRows[c] = u THEN Anon ELSE codeRows[c]] ELSE codeRows
    /\ privacy' = [privacy EXCEPT !.todo = Tail(@)]
    /\ UNCHANGED <<pooled, numbers, profiles, codes, pool, aliases, queue, aliasRows, migration, history,
                   bounds>>

AnonymizeReload ==
    /\ privacy # None /\ privacy.todo = <<>>
    /\ \E s \in privacy.left : reload(s) /\ privacy' = [privacy EXCEPT !.left = @ \ {s}]
    /\ UNCHANGED <<pooled, binds, aliases, queue, database, migration, bound, shown, forgotten, lossless,
                   bounds>>

(* The answer names the user too. *)
AnonymizeAnswer ==
    /\ privacy # None /\ privacy.todo = <<>> /\ privacy.left = {}
    /\ \/ codeFor(privacy.user)
       \/ /\ numberOf[privacy.user] # None \/ \E c \in CodeOf(privacy.user) : <<c, privacy.user>> \in shown
          /\ UNCHANGED <<codes, pool, queue, shown>>
    /\ forgotten' = IF privacy.alone THEN forgotten \cup {privacy.user} ELSE forgotten
    /\ privacy' = None
    /\ UNCHANGED <<pooled, numbers, profiles, aliases, database, migration, bound, revived, lossless, bounds>>

AnonymizeFails ==
    /\ privacy # None /\ privacy.todo # <<>> /\ troubles < MaxTroubles
    /\ privacy' = None
    /\ troubles' = troubles + 1 /\ lossless' = FALSE
    /\ UNCHANGED <<pooled, numbers, profiles, codes, pool, aliases, queue, database, migration, bound, shown,
                   forgotten, revived, edits>>

-----------------------------------------------------------------------------
(* /migrate: scan, back up, rewrite row after row as scanned, reload. *)

collapseYear == CHOOSE y \in Years : TRUE      \* the two digits of Legacy

Scanned == {save(u, [profileRows[u] EXCEPT !.year = collapseYear]) :
               u \in {v \in Users : profileRows[v] # None /\ profileRows[v].year = Legacy}}
Old     == {c \in LowerCodes : codeRows[c] # None}

Migrate(by) ==
    /\ by \in Supers /\ migration = None
    /\ Scanned # {} \/ Old # {}
    /\ Edit
    /\ migration' = [step |-> "backup", rows |-> Scanned, old |-> Old, left |-> {"profiles", "codes"}]
    /\ UNCHANGED <<numbers, profiles, codes, pool, aliases, queue, database, privacy, history>>

(* A backup that fails is mentioned in the answer and stops nothing. *)
Backup ==
    /\ migration # None /\ migration.step = "backup"
    /\ pooled \/ (queue = <<>> /\ binds = {} /\ privacy = None)
    /\ migration' = [migration EXCEPT !.step = "apply"]
    /\ UNCHANGED <<pooled, numbers, profiles, codes, pool, aliases, queue, database, privacy, history, bounds>>

MigrateProfile ==
    /\ migration # None /\ migration.step = "apply"
    /\ \E w \in migration.rows :
           /\ profileRows' = [profileRows EXCEPT ![w.key] = w.value]
           /\ revived' = IF profileRows[w.key] = None THEN revived \cup {<<w.key, "profiles">>} ELSE revived
           /\ migration' = [migration EXCEPT !.rows = @ \ {w}]
    /\ UNCHANGED <<pooled, numbers, profiles, codes, pool, aliases, queue, bindRows, codeRows, aliasRows,
                   privacy, bound, shown, forgotten, lossless, bounds>>

MigrateCode ==
    /\ migration # None /\ migration.step = "apply" /\ migration.rows = {}
    /\ \E old \in migration.old, new \in (Codes \ LowerCodes) \ pool :
           /\ pool' = pool \cup {new}
           /\ codeRows' = [codeRows EXCEPT ![old] = None, ![new] = codeRows[old]]
           /\ migration' = [migration EXCEPT !.old = @ \ {old}]
    /\ UNCHANGED <<pooled, numbers, profiles, codes, aliases, queue, bindRows, profileRows, aliasRows,
                   privacy, history, bounds>>

MigrateReload ==
    /\ migration # None /\ migration.step = "apply" /\ migration.rows = {} /\ migration.old = {}
    /\ \E s \in migration.left :
           /\ reload(s)
           /\ migration' = IF migration.left = {s} THEN None ELSE [migration EXCEPT !.left = @ \ {s}]
    /\ UNCHANGED <<pooled, binds, aliases, queue, database, privacy, bound, shown, forgotten, lossless, bounds>>

MigrateFails ==
    /\ migration # None /\ migration.step = "apply" /\ troubles < MaxTroubles
    /\ migration.rows # {} \/ migration.old # {}
    /\ migration' = None
    /\ troubles' = troubles + 1 /\ lossless' = FALSE
    /\ UNCHANGED <<pooled, numbers, profiles, codes, pool, aliases, queue, database, privacy, bound, shown,
                   forgotten, revived, edits>>

-----------------------------------------------------------------------------
(* The process dies and starts again: every store is read from its table. *)
UsersRestart ==
    /\ troubles < MaxTroubles /\ troubles' = troubles + 1
    /\ loadProfiles /\ loadNumbers
    /\ codes' = codeRows /\ pool' = {c \in Codes : codeRows[c] # None}
    /\ aliases' = aliasRows
    /\ binds' = {} /\ queue' = <<>> /\ privacy' = None /\ migration' = None
    /\ shown' = {} /\ lossless' = TRUE
    /\ revived' = Still({"profiles", "numbers"})
    /\ UNCHANGED <<pooled, database, bound, forgotten, edits>>

-----------------------------------------------------------------------------
UsersNext ==
    \/ \E u \in Users, x \in Qqs : BindQq(u, x)
    \/ \E g \in Groups, x \in Numbers : BindGroup(g, x)
    \/ \E by \in Supers, u \in Users, x \in Qqs : BindForUser(by, u, x)
    \/ \E by \in Supers, g \in Groups, x \in Numbers : BindForGroup(by, g, x)
    \/ \E b \in binds : Delete(b) \/ Insert(b) \/ BindFails(b)
    \/ \E t \in Targets : Show(t)
    \/ \E by \in Supers, i \in Targets \cup Externals \cup Codes : Whois(by, i)
    \/ \E u \in Users, f \in Fields, v \in Classes \cup Years \cup {Name, Legacy} : SetProfile(u, f, v)
    \/ \E u \in Users, m \in Messages : SmartProfile(u, m)
    \/ \E u \in Users, f \in Fields : ClearField(u, f)
    \/ \E u \in Users : ClearProfile(u)
    \/ \E by \in Supers, w \in Words, c \in Classes : SetAlias(by, w, c) \/ ApiSetAlias(by, w, c)
    \/ \E by \in Supers, w \in Words : RemoveAlias(by, w) \/ ApiRemoveAlias(by, w)
    \/ Land \/ WriteFails
    \/ \E by \in Supers, u \in Users : Anonymize(by, u) \/ DataCard(by, u)
    \/ AnonymizeTable \/ AnonymizeReload \/ AnonymizeAnswer \/ AnonymizeFails
    \/ \E by \in Supers : Migrate(by)
    \/ Backup \/ MigrateProfile \/ MigrateCode \/ MigrateReload \/ MigrateFails
    \/ UsersRestart

UsersSpec == UsersInit /\ [][UsersNext]_usersVars

-----------------------------------------------------------------------------
(* Properties *)

(* Every map keeps its keys and values; no id is bound to a number of the  *)
(* other kind, and a code row may also name the placeholder.               *)
UsersTypeOK ==
    LET optional(S) == S \cup {None}
        numbered(f) == /\ f \in [Officials -> optional(Externals)]
                       /\ \A o \in Officials : f[o] # None => SameKind(o, f[o])
        owners      == [Externals -> optional(Officials)]
    IN  /\ pooled \in BOOLEAN /\ lossless \in BOOLEAN
        /\ numbered(numberOf) /\ numbered(bindRows) /\ ownerOf \in owners
        /\ \A b \in binds : /\ b \in [id : Nat, official : Officials, external : Externals,
                                        step : {"delete", "insert"},
                                        numberOf : [Officials -> optional(Externals)],
                                        ownerOf : owners, alone : BOOLEAN]
                             /\ SameKind(b.official, b.external) /\ numbered(b.numberOf)
        /\ {profiles, profileRows} \subseteq [Users -> optional(Profiles)]
        /\ {codes, codeRows} \subseteq [Codes -> optional(Targets \cup {Anon})]
        /\ pool \subseteq Codes
        /\ {aliases, aliasRows} \subseteq [Words -> optional(Classes)]
        /\ queue \in Seq(Saves \cup [table : {"codes"}, key : Codes, value : Users]
                               \cup [table : {"aliases"}, key : Words, value : optional(Classes)])
        /\ privacy \in optional(Anonymizing) /\ migration \in optional(Migrating)
        /\ shown \subseteq Codes \X Targets /\ bound \subseteq Officials \X Externals
        /\ forgotten \subseteq Users /\ revived \subseteq Users \X {"numbers", "profiles"}
        /\ edits \in 0 .. MaxEdits /\ troubles \in 0 .. MaxTroubles

(* A binding answered with success while nothing else touched its two      *)
(* sides keeps its row, whatever fails, restarts or is anonymised around it *)
(* (identityBindingRepository.ts, privacyRepository.ts).                   *)
BoundIsKept == \A b \in bound : bindRows[b[1]] = b[2]

(* A code this process has shown never comes to mean somebody else: it     *)
(* names its target, the placeholder, or nothing any more, even when a     *)
(* reload crosses the write that was to save it or the migration renews it *)
(* (shortCodes.ts, globalCodePool).                                        *)
CodesAreNotReused ==
    /\ \A s \in shown : codes[s[1]] \in {s[2], Anon, None}
    /\ \A s, r \in shown : s[1] = r[1] => s[2] = r[2]

(* On SQLite, as long as no call failed, whenever a handler may run memory *)
(* is what a restart would read: through anonymising, migrating, the writes *)
(* of a message that sets half its fields, and users active during the     *)
(* backup (runtime.ts reloadPersistedState, writeQueue.ts).                *)
InStep ==
    ~pooled /\ Free /\ lossless =>
        /\ numberOf = bindRows /\ profiles = profileRows
        /\ codes = codeRows /\ aliases = aliasRows

(* Anonymised with nothing of the user in flight, and nothing done by or   *)
(* to the user since: the binding's row stays gone, and neither memory nor *)
(* the profiles' table knows the user again (privacy.ts), with the two      *)
(* exceptions that the code has: a binding of somebody else that fails      *)
(* brings back the maps as they were before it (identityMap.ts             *)
(* restoreUsers), until the numbers are read anew; and a migration saves a *)
(* profile it scanned before (dataMigration.ts apply).                     *)
Forgotten ==
    \A u \in forgotten :
        /\ bindRows[u] = None
        /\ <<u, "numbers">> \notin revived => ~Known(u)
        /\ <<u, "profiles">> \notin revived => profileRows[u] = None /\ profiles[u] = None

=============================================================================
