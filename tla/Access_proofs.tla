---------------------------- MODULE Access_proofs ----------------------------
(***************************************************************************)
(* Proofs about Access for any users, roles, seeds, thresholds and bounds: *)
(* the variables keep their types, there is always a global super admin,   *)
(* and what was taken back stays taken back.                               *)
(*                                                                         *)
(* The last needs to know what a restart will read.  Every queued write is *)
(* blind: it leaves in its cell of the database what does not depend on    *)
(* what was there.  So a cell ends as its last queued write leaves it, and *)
(* the inductive invariant (InStep) says that, as long as nothing is lost, *)
(* this is what memory holds.                                              *)
(*                                                                         *)
(* The second part is about Console, for any groups, accounts, sessions    *)
(* and bounds: what its pages offer is granted, each has one write of a    *)
(* kind under way, and active sessions stay (ConsoleInv).                  *)
(***************************************************************************)
EXTENDS Access, Console, FiniteSetTheorems, SequenceTheorems, TLAPS

(* ---------------------------- type correctness --------------------------- *)

\* What the queue is made of.
Write ==
    [grant : Grants, kept : BOOLEAN] \union [sub : Users, kept : BOOLEAN]
    \union [level : Levels] \union [optOut : SUBSET Users] \union [setting : Settings]
    \union [marker : {TRUE}] \union [reset : {TRUE}]

Typed == TypeOK /\ queue \in Seq(Write)

LEMMA SeedsTyped ==
    Seeds \subseteq Users /\ Seeds \X {"super"} \subseteq Grants /\ SeedWrites \in Seq(Write)
<1>1. SeedList \in Seq(Users)
  BY AccessConstants
<1>2. \A i \in DOMAIN SeedList : SeedList[i] \in Users
  BY <1>1
<1>3. Seeds \subseteq Users
  BY <1>2 DEF Seeds
<1>4. Seeds \X {"super"} \subseteq Grants
  BY <1>3 DEF Grants
<1>5. \A i \in DOMAIN SeedList : [grant |-> <<SeedList[i], "super">>, kept |-> TRUE] \in Write
  <2> TAKE i \in DOMAIN SeedList
  <2>1. <<SeedList[i], "super">> \in Grants
    BY <1>2 DEF Grants
  <2> QED BY <2>1 DEF Write
<1>6. SeedWrites \in Seq(Write)
  <2>1. Len(SeedList) \in Nat /\ DOMAIN SeedList = 1 .. Len(SeedList)
    BY <1>1
  <2> QED BY <1>5, <2>1 DEF SeedWrites
<1> QED BY <1>3, <1>4, <1>6

LEMMA LoadedTyped ==
    ASSUME NEW G \in SUBSET Grants
    PROVE  Loaded(G) \in SUBSET Grants
BY SeedsTyped DEF Loaded

\* The writes of a sequence, as a set.
Among(ws, S) == ws \in Seq(Write) /\ \A w : w \in S <=> \E k \in DOMAIN ws : ws[k] = w
\* An edit puts its writes at the end of the queue.
Queued(S) == \E ws : Among(ws, S) /\ queue' = queue \o ws

LEMMA AmongFew ==
    /\ Among(<<>>, {})
    /\ \A a \in Write : Among(<<a>>, {a})
    /\ \A a \in Write, b \in Write : Among(<<a, b>>, {a, b})
<1>1. Among(<<>>, {})
  BY DEF Among
<1>2. ASSUME NEW a \in Write PROVE Among(<<a>>, {a})
  <2>1. <<a>> \in Seq(Write) /\ DOMAIN <<a>> = {1} /\ <<a>>[1] = a
    OBVIOUS
  <2> QED BY <2>1 DEF Among
<1>3. ASSUME NEW a \in Write, NEW b \in Write PROVE Among(<<a, b>>, {a, b})
  <2>1. /\ <<a, b>> \in Seq(Write) /\ DOMAIN <<a, b>> = {1, 2}
        /\ <<a, b>>[1] = a /\ <<a, b>>[2] = b
    OBVIOUS
  <2> QED BY <2>1 DEF Among
<1> QED BY <1>1, <1>2, <1>3

LEMMA AmongBoth ==
    ASSUME NEW a, NEW b, NEW A, NEW B, Among(a, A), Among(b, B)
    PROVE  Among(a \o b, A \union B)
<1>1. a \in Seq(Write) /\ b \in Seq(Write)
  BY DEF Among
<1>2. /\ a \o b \in Seq(Write) /\ Len(a \o b) = Len(a) + Len(b)
      /\ \A k \in 1 .. Len(a) + Len(b) :
            (a \o b)[k] = IF k <= Len(a) THEN a[k] ELSE b[k - Len(a)]
  BY <1>1, ConcatProperties
<1>3. /\ Len(a) \in Nat /\ Len(b) \in Nat
      /\ DOMAIN a = 1 .. Len(a) /\ DOMAIN b = 1 .. Len(b)
      /\ DOMAIN (a \o b) = 1 .. Len(a) + Len(b)
  BY <1>1, <1>2
<1>4. ASSUME NEW w, \E k \in DOMAIN a : a[k] = w PROVE \E k \in DOMAIN (a \o b) : (a \o b)[k] = w
  <2>1. PICK k \in 1 .. Len(a) : a[k] = w
    BY <1>3, <1>4
  <2>2. k \in 1 .. Len(a) + Len(b) /\ (a \o b)[k] = w
    BY <1>2, <1>3, <2>1
  <2> QED BY <1>3, <2>2
<1>5. ASSUME NEW w, \E k \in DOMAIN b : b[k] = w PROVE \E k \in DOMAIN (a \o b) : (a \o b)[k] = w
  <2>1. PICK k \in 1 .. Len(b) : b[k] = w
    BY <1>3, <1>5
  <2>2. k + Len(a) \in 1 .. Len(a) + Len(b) /\ (a \o b)[k + Len(a)] = w
    BY <1>2, <1>3, <2>1
  <2> QED BY <1>3, <2>2
<1>6. ASSUME NEW k \in DOMAIN (a \o b)
      PROVE  \/ \E j \in DOMAIN a : a[j] = (a \o b)[k]
             \/ \E j \in DOMAIN b : b[j] = (a \o b)[k]
  <2>1. CASE k <= Len(a)
    BY <1>2, <1>3, <1>6, <2>1
  <2>2. CASE k > Len(a)
    <3>1. k - Len(a) \in 1 .. Len(b) /\ (a \o b)[k] = b[k - Len(a)]
      BY <1>2, <1>3, <1>6, <2>2
    <3> QED BY <1>3, <3>1
  <2> QED BY <1>3, <1>6, <2>1, <2>2
<1> QED BY <1>1, <1>2, <1>4, <1>5, <1>6 DEF Among

\* Each constructor gives one write, of its type.

LEMMA QueuedFew ==
    ASSUME queue \in Seq(Write)
    PROVE  /\ UNCHANGED queue => Queued({})
           /\ \A a \in Write : queue' = queue \o <<a>> => Queued({a})
           /\ \A a \in Write : queue' = Append(queue, a) => Queued({a})
           /\ \A a \in Write, b \in Write : queue' = (queue \o <<a>>) \o <<b>> => Queued({a, b})
           /\ \A a \in Write, b \in Write : queue' = queue \o <<a, b>> => Queued({a, b})
<1>1. queue \o <<>> = queue
  OBVIOUS
<1>2. \A a \in Write : Append(queue, a) = queue \o <<a>>
  OBVIOUS
<1>3. ASSUME NEW a \in Write, NEW b \in Write, queue' = (queue \o <<a>>) \o <<b>>
      PROVE  Queued({a, b})
  <2>1. Among(<<a>>, {a}) /\ Among(<<b>>, {b}) /\ {a} \union {b} = {a, b}
    BY AmongFew
  <2>2. Among(<<a>> \o <<b>>, {a, b})
    BY <2>1, AmongBoth
  <2>3. queue' = queue \o (<<a>> \o <<b>>)
    BY <1>3, <2>1, ConcatAssociative DEF Among
  <2> QED BY <2>2, <2>3 DEF Queued
<1> QED BY <1>1, <1>2, <1>3, AmongFew DEF Queued

LEMMA QueuedTyped ==
    ASSUME queue \in Seq(Write), NEW S, Queued(S)
    PROVE  queue' \in Seq(Write)
<1>1. PICK ws : ws \in Seq(Write) /\ queue' = queue \o ws
  BY DEF Queued, Among
<1> QED BY <1>1, ConcatProperties

\* What the edits and the planting queue.
SubscribeWrites(u) ==
    (IF u \in optOut THEN {[optOut |-> optOut \ {u}]} ELSE {})
    \union (IF u \in subs THEN {} ELSE {[sub |-> u, kept |-> TRUE]})
UnsubscribeWrites(u) ==
    (IF Marked(u) THEN {[optOut |-> optOut \union {u}]} ELSE {})
    \union (IF u \in subs THEN {[sub |-> u, kept |-> FALSE]} ELSE {})

LEMMA SubscribeQueues ==
    ASSUME Typed, NEW u \in Users, Subscribe(u)
    PROVE  Queued(SubscribeWrites(u))
<1> DEFINE a == [optOut |-> optOut \ {u}]
           b == [sub |-> u, kept |-> TRUE]
<1>1. a \in Write /\ b \in Write
  <2>1. optOut \ {u} \in SUBSET Users
    BY DEF Typed, TypeOK
  <2> QED BY <2>1 DEF Write
<1>2. queue' = queue \o (IF u \in optOut THEN <<a>> ELSE <<>>)
                     \o (IF u \in subs THEN <<>> ELSE <<b>>)
  BY DEF Subscribe
<1>3. SubscribeWrites(u) = (IF u \in optOut THEN {a} ELSE {})
                           \union (IF u \in subs THEN {} ELSE {b})
  BY DEF SubscribeWrites
<1>4. queue \in Seq(Write)
  BY DEF Typed
<1> HIDE DEF a, b
<1>5. CASE u \in optOut /\ u \in subs
  BY <1>1, <1>2, <1>3, <1>4, <1>5, QueuedFew
<1>6. CASE u \in optOut /\ u \notin subs
  <2>1. queue' = (queue \o <<a>>) \o <<b>> /\ SubscribeWrites(u) = {a, b}
    BY <1>2, <1>3, <1>6
  <2> QED BY <1>1, <1>4, <2>1, QueuedFew
<1>7. CASE u \notin optOut /\ u \in subs
  BY <1>1, <1>2, <1>3, <1>4, <1>7, QueuedFew
<1>8. CASE u \notin optOut /\ u \notin subs
  BY <1>1, <1>2, <1>3, <1>4, <1>8, QueuedFew
<1> QED BY <1>5, <1>6, <1>7, <1>8

LEMMA UnsubscribeQueues ==
    ASSUME Typed, NEW u \in Users, Unsubscribe(u)
    PROVE  Queued(UnsubscribeWrites(u))
<1> DEFINE a == [optOut |-> optOut \union {u}]
           b == [sub |-> u, kept |-> FALSE]
           m == Marked(u)
<1>1. a \in Write /\ b \in Write
  <2>1. optOut \union {u} \in SUBSET Users
    BY DEF Typed, TypeOK
  <2> QED BY <2>1 DEF Write
<1>2. queue' = queue \o (IF m THEN <<a>> ELSE <<>>)
                     \o (IF u \in subs THEN <<b>> ELSE <<>>)
  BY DEF Unsubscribe
<1>3. UnsubscribeWrites(u) = (IF m THEN {a} ELSE {})
                             \union (IF u \in subs THEN {b} ELSE {})
  BY DEF UnsubscribeWrites
<1>4. queue \in Seq(Write)
  BY DEF Typed
<1> HIDE DEF a, b, m
<1>5. CASE m /\ u \in subs
  <2>1. queue' = (queue \o <<a>>) \o <<b>> /\ UnsubscribeWrites(u) = {a, b}
    BY <1>2, <1>3, <1>5
  <2> QED BY <1>1, <1>4, <2>1, QueuedFew
<1>6. CASE m /\ u \notin subs
  BY <1>1, <1>2, <1>3, <1>4, <1>6, QueuedFew
<1>7. CASE ~m /\ u \in subs
  BY <1>1, <1>2, <1>3, <1>4, <1>7, QueuedFew
<1>8. CASE ~m /\ u \notin subs
  BY <1>1, <1>2, <1>3, <1>4, <1>8, QueuedFew
<1> QED BY <1>5, <1>6, <1>7, <1>8

\* Every command, button and request of the administrators is one of these.
RoleEdit ==
    \E u \in Users, role \in GroupRoles \union {"super"} :
        (Grant(role, u) \/ Revoke(role, u)) /\ PermKept
TopicOn(u) ==
    /\ Subscribe(u) /\ declined' = declined \ {u}
    /\ UNCHANGED <<grants, level, setting, imported, ousted, cleared>>
TopicOff(u) ==
    /\ Unsubscribe(u)
    /\ declined' = IF level >= PLATFORM_LEVEL_MIN /\ lossless /\ intact'
                   THEN declined \union {u} ELSE declined
    /\ UNCHANGED <<grants, level, setting, imported, ousted, cleared>>

LEMMA EditIsOneOf ==
    ASSUME Editing
    PROVE  /\ Edit
           /\ \/ RoleEdit
              \/ \E u \in Users : TopicOn(u) \/ TopicOff(u)
              \/ \E l \in Levels : SetTopicLevel(l)
              \/ Clear \/ \E v \in Values : Set(v)
              \/ RemoveDefaultOverride
<1>1. PICK op \in Users :
         \/ \E u \in Users, role \in GroupRoles \union {"super"} : HandlePermissionConfig(op, role, u)
         \/ \E l \in Levels : HandleNotifyLevel(op, l)
         \/ NotifyToggle(op) \/ NotifyUnsubscribe(op) \/ HandleConfig(op)
         \/ ResetAllRulesCard(op) \/ ResetRuleGroup(op)
         \/ SettingRequests(op) \/ NotifyRequests(op) \/ PermissionRequests(op)
  BY DEF Editing
<1>2. CASE \/ \E u \in Users, role \in GroupRoles \union {"super"} : HandlePermissionConfig(op, role, u)
           \/ PermissionRequests(op)
  BY <1>2 DEF HandlePermissionConfig, PermissionRequests, SetPermission, RoleEdit
<1>3. CASE (\E l \in Levels : HandleNotifyLevel(op, l)) \/ NotifyRequests(op)
  BY <1>3, AccessConstants DEF HandleNotifyLevel, NotifyRequests, ResetNotifyLevels, SetNotifyLevel
<1>4. CASE NotifyToggle(op) \/ NotifyUnsubscribe(op)
  BY <1>4 DEF NotifyToggle, NotifyUnsubscribe, TopicOn, TopicOff
<1>5. CASE HandleConfig(op) \/ SettingRequests(op)
  BY <1>5 DEF HandleConfig, SettingRequests, ClearSetting, UpdateSetting
<1>6. CASE ResetAllRulesCard(op) \/ ResetRuleGroup(op)
  BY <1>6 DEF ResetAllRulesCard, ResetRuleGroup
<1> QED BY <1>1, <1>2, <1>3, <1>4, <1>5, <1>6

LEMMA EditTyped ==
    ASSUME Typed, Editing
    PROVE  Typed'
<1>1. edits' \in 0 .. MaxEdits /\ UNCHANGED <<phase, degraded, rows, lossless, troubles>>
  BY EditIsOneOf, AccessConstants DEF Edit, Typed, TypeOK
<1>2. queue \in Seq(Write)
  BY DEF Typed
<1>3. CASE RoleEdit
  <2>1. PICK u \in Users, role \in GroupRoles \union {"super"} :
              (Grant(role, u) \/ Revoke(role, u)) /\ PermKept
    BY <1>3 DEF RoleEdit
  <2>2. <<u, role>> \in Grants
    BY DEF Grants
  <2>3. \A k \in BOOLEAN : [grant |-> <<u, role>>, kept |-> k] \in Write
    BY <2>2 DEF Write
  <2>4. queue' \in Seq(Write)
    BY <1>2, <2>1, <2>3, QueuedFew, QueuedTyped DEF Grant, Revoke
  <2>5. grants' \subseteq Grants /\ ousted' \subseteq Users
    BY <2>1, <2>2 DEF Grant, Revoke, Typed, TypeOK
  <2> QED BY <1>1, <2>1, <2>4, <2>5 DEF PermKept, Typed, TypeOK
<1>4. CASE \E u \in Users : TopicOn(u) \/ TopicOff(u)
  <2>1. PICK u \in Users : TopicOn(u) \/ TopicOff(u)
    BY <1>4
  <2>2. queue' \in Seq(Write)
    BY <1>2, <2>1, SubscribeQueues, UnsubscribeQueues, QueuedTyped DEF TopicOn, TopicOff
  <2>3. subs' \subseteq Users /\ optOut' \subseteq Users /\ declined' \subseteq Users
    BY <2>1 DEF TopicOn, TopicOff, Subscribe, Unsubscribe, Typed, TypeOK
  <2>4. intact' \in BOOLEAN
    BY <2>1 DEF TopicOn, TopicOff, Subscribe, Unsubscribe, Typed, TypeOK
  <2> QED BY <1>1, <2>1, <2>2, <2>3, <2>4 DEF TopicOn, TopicOff, Typed, TypeOK
<1>5. CASE \E l \in Levels : SetTopicLevel(l)
  <2>1. PICK l \in Levels : SetTopicLevel(l)
    BY <1>5
  <2>2. [level |-> l] \in Write
    BY DEF Write
  <2>3. queue' \in Seq(Write)
    BY <1>2, <2>1, <2>2, QueuedFew, QueuedTyped DEF SetTopicLevel
  <2> QED BY <1>1, <2>1, <2>3 DEF SetTopicLevel, history, Typed, TypeOK
<1>6. CASE Clear \/ \E v \in Values : Set(v)
  <2>1. \A v \in Settings : [setting |-> v] \in Write
    BY DEF Write
  <2>2. setting' \in Settings
    BY <1>6 DEF Clear, Set, Settings
  <2>3. queue' \in Seq(Write)
    BY <1>2, <1>6, <2>1, QueuedFew, QueuedTyped DEF Clear, Set, Settings
  <2>4. cleared' \in BOOLEAN
    BY <1>6 DEF Clear, Set, Typed, TypeOK
  <2> QED BY <1>1, <1>6, <2>2, <2>3, <2>4 DEF Clear, Set, Typed, TypeOK
<1>7. CASE RemoveDefaultOverride
  <2>1. [reset |-> TRUE] \in Write
    BY DEF Write
  <2>2. queue' \in Seq(Write)
    BY <1>2, <1>7, <2>1, QueuedFew, QueuedTyped DEF RemoveDefaultOverride
  <2> QED BY <1>1, <1>7, <2>2 DEF RemoveDefaultOverride, Typed, TypeOK
<1> QED BY <1>3, <1>4, <1>5, <1>6, <1>7, EditIsOneOf

LEMMA TroubleTyped ==
    ASSUME Typed, NEW harmless \in BOOLEAN, Trouble(harmless)
    PROVE  /\ troubles' \in 0 .. MaxTroubles /\ lossless' \in BOOLEAN
           /\ ousted' \subseteq Users /\ declined' \subseteq Users /\ cleared' \in BOOLEAN
<1>1. troubles' \in 0 .. MaxTroubles
  BY AccessConstants DEF Trouble, Typed, TypeOK
<1>2. lossless' \in BOOLEAN
  BY Zenon DEF Trouble, Typed, TypeOK
<1>3. CASE lossless'
  BY <1>1, <1>2, <1>3 DEF Trouble, history, Typed, TypeOK
<1>4. CASE ~lossless'
  BY <1>1, <1>2, <1>4 DEF Trouble
<1> QED BY <1>3, <1>4

LEMMA LoadTyped ==
    ASSUME Typed, NEW ok \in SUBSET Modules, Load(ok)
    PROVE  Typed'
<1>1. grants' \subseteq Grants
  BY SeedsTyped, LoadedTyped DEF Load, Typed, TypeOK
<1>2. queue' \in Seq(Write)
  BY SeedsTyped DEF Load
<1>3. subs' \subseteq Users /\ optOut' \subseteq Users /\ level' \in Levels
  BY AccessConstants DEF Load, Typed, TypeOK
<1>4. setting' \in Settings /\ imported' \in BOOLEAN
  BY DEF Load, Typed, TypeOK, Settings
<1>5. /\ troubles' \in 0 .. MaxTroubles /\ lossless' \in BOOLEAN
      /\ ousted' \subseteq Users /\ declined' \subseteq Users /\ cleared' \in BOOLEAN
  <2>1. CASE ok = Modules
    BY <2>1 DEF Load, history, Typed, TypeOK
  <2>2. CASE ok # Modules
    BY <2>2, TroubleTyped DEF Load
  <2> QED BY <2>1, <2>2
<1>6. /\ phase' = "loaded" /\ degraded' \subseteq Modules /\ UNCHANGED <<rows, edits>>
      /\ intact' \in BOOLEAN
  BY DEF Load
<1> QED BY <1>1, <1>2, <1>3, <1>4, <1>5, <1>6 DEF Typed, TypeOK

LEMMA StartTyped ==
    ASSUME Typed, \/ \E u \in Users : Plant(u)
                  \/ Planted \/ ImportEnv \/ Serve
    PROVE  Typed'
<1>1. CASE \E u \in Users : Plant(u)
  <2>1. PICK u \in Users : Plant(u)
    BY <1>1
  <2>2. queue' \in Seq(Write)
    BY <2>1, SubscribeQueues, QueuedTyped DEF Plant, Typed
  <2>3. subs' \subseteq Users /\ optOut' \subseteq Users
    BY <2>1 DEF Plant, Subscribe, Typed, TypeOK
  <2>4. intact' \in BOOLEAN
    BY <2>1 DEF Plant, Subscribe, Typed, TypeOK
  <2> QED BY <2>1, <2>2, <2>3, <2>4 DEF Plant, history, budget, Typed, TypeOK
<1>2. CASE Planted \/ Serve
  BY <1>2 DEF Planted, Serve, memory, history, budget, Typed, TypeOK
<1>3. CASE ImportEnv
  <2>1. [setting |-> EnvValue] \in Write /\ [marker |-> TRUE] \in Write /\ EnvValue \in Settings
    BY AccessConstants DEF Write, Settings
  <2>2. queue' \in Seq(Write)
    BY <1>3, <2>1, QueuedFew, QueuedTyped DEF ImportEnv, Typed
  <2>3. setting' \in Settings /\ imported' \in BOOLEAN
    BY <1>3, <2>1 DEF ImportEnv, Typed, TypeOK
  <2> QED BY <1>3, <2>2, <2>3 DEF ImportEnv, history, budget, Typed, TypeOK
<1> QED BY <1>1, <1>2, <1>3

LEMMA LandTyped ==
    ASSUME Typed, Land
    PROVE  Typed'
<1>1. Head(queue) \in Write /\ queue' \in Seq(Write)
  BY HeadTailProperties DEF Typed, Land
<1> DEFINE w == Head(queue)
<1>2. /\ rows'.grants = IF "grant" \in DOMAIN w THEN Put(rows.grants, w.grant, w.kept) ELSE rows.grants
      /\ rows'.subs = IF "sub" \in DOMAIN w THEN Put(rows.subs, w.sub, w.kept) ELSE rows.subs
      /\ rows'.level = IF "level" \in DOMAIN w THEN w.level
                       ELSE IF "reset" \in DOMAIN w THEN DefaultLevel ELSE rows.level
      /\ rows'.optOut = IF "optOut" \in DOMAIN w THEN w.optOut
                        ELSE IF "reset" \in DOMAIN w THEN {} ELSE rows.optOut
      /\ rows'.setting = IF "setting" \in DOMAIN w THEN w.setting ELSE rows.setting
      /\ rows'.imported = (rows.imported \/ "marker" \in DOMAIN w)
      /\ rows' = [grants |-> rows'.grants, subs |-> rows'.subs, level |-> rows'.level,
                  optOut |-> rows'.optOut, setting |-> rows'.setting, imported |-> rows'.imported]
  BY DEF Land, Apply
<1>3. /\ "grant" \in DOMAIN w => w.grant \in Grants /\ w.kept \in BOOLEAN
      /\ "sub" \in DOMAIN w => w.sub \in Users /\ w.kept \in BOOLEAN
      /\ "level" \in DOMAIN w => w.level \in Levels
      /\ "optOut" \in DOMAIN w => w.optOut \subseteq Users
      /\ "setting" \in DOMAIN w => w.setting \in Settings
  BY <1>1 DEF Write
<1> HIDE DEF w
<1>4. rows'.grants \subseteq Grants /\ rows'.subs \subseteq Users
  BY <1>2, <1>3 DEF Put, Typed, TypeOK
<1>5. rows'.level \in Levels /\ rows'.optOut \subseteq Users /\ rows'.setting \in Settings
  BY <1>2, <1>3, AccessConstants DEF Typed, TypeOK
<1>6. rows'.imported \in BOOLEAN
  BY <1>2
<1>7. rows' \in [grants : SUBSET Grants, subs : SUBSET Users, level : Levels,
                 optOut : SUBSET Users, setting : Settings, imported : BOOLEAN]
  BY <1>2, <1>4, <1>5, <1>6
<1> QED BY <1>1, <1>7 DEF Land, memory, history, budget, Typed, TypeOK

LEMMA RetryTyped ==
    ASSUME Typed, Retrying
    PROVE  Typed'
<1>1. PICK op \in Users, ok \in BOOLEAN :
          RetryPermissions(op, ok) \/ RetryNotify(op, ok) \/ RetryPlatform(op, ok)
  BY DEF Retrying
<1>2. PICK m \in Modules : Retry(op, m, ok)
  <2>1. {"permissions", "notify", "platform"} \subseteq Modules
    BY AccessConstants
  <2> QED BY <1>1, <2>1 DEF RetryPermissions, RetryNotify, RetryPlatform
<1>3. /\ troubles' \in 0 .. MaxTroubles /\ lossless' \in BOOLEAN
      /\ ousted' \subseteq Users /\ declined' \subseteq Users /\ cleared' \in BOOLEAN
  <2> DEFINE h == ok /\ queue = <<>>
  <2>1. h \in BOOLEAN /\ Trouble(h)
    BY <1>2 DEF Retry
  <2> HIDE DEF h
  <2> QED BY <2>1, TroubleTyped
<1>4. degraded' \subseteq Modules /\ UNCHANGED <<phase, rows, edits>>
  BY <1>2 DEF Retry, Typed, TypeOK
<1>5. grants' \subseteq Grants
  BY <1>1, LoadedTyped DEF RetryPermissions, RetryNotify, RetryPlatform, Typed, TypeOK
<1>6. queue' \in Seq(Write)
  <2>1. queue \in Seq(Write) /\ SeedWrites \in Seq(Write) /\ <<>> \in Seq(Write)
    BY SeedsTyped DEF Typed
  <2> HIDE DEF SeedWrites
  <2> QED BY <1>1, <2>1, ConcatProperties DEF RetryPermissions, RetryNotify, RetryPlatform
<1>7. subs' \subseteq Users /\ optOut' \subseteq Users /\ level' \in Levels
  BY <1>1 DEF RetryPermissions, RetryNotify, RetryPlatform, Typed, TypeOK
<1>8. setting' \in Settings /\ imported' \in BOOLEAN /\ intact' \in BOOLEAN
  BY <1>1 DEF RetryPermissions, RetryNotify, RetryPlatform, Typed, TypeOK, Settings
<1> QED BY <1>3, <1>4, <1>5, <1>6, <1>7, <1>8 DEF Typed, TypeOK

LEMMA StepTyped == Typed /\ [Next]_vars => Typed'
<1> SUFFICES ASSUME Typed, [Next]_vars PROVE Typed'
  OBVIOUS
<1>1. CASE Starting
  BY <1>1, LoadTyped, StartTyped DEF Starting
<1>2. CASE Editing
  BY <1>2, EditTyped
<1>3. CASE Retrying
  BY <1>3, RetryTyped
<1>4. CASE Land
  BY <1>4, LandTyped
<1>5. CASE WriteFails
  <2>1. queue' \in Seq(Write)
    BY <1>5, HeadTailProperties DEF WriteFails, Typed
  <2>2. /\ troubles' \in 0 .. MaxTroubles /\ lossless' \in BOOLEAN
        /\ ousted' \subseteq Users /\ declined' \subseteq Users /\ cleared' \in BOOLEAN
    BY <1>5, TroubleTyped DEF WriteFails
  <2> QED BY <1>5, <2>1, <2>2 DEF WriteFails, memory, Typed, TypeOK
<1>6. CASE Stop
  <2> DEFINE h == queue = <<>>
  <2>1. h \in BOOLEAN /\ Trouble(h)
    BY <1>6 DEF Stop
  <2> HIDE DEF h
  <2>2. /\ troubles' \in 0 .. MaxTroubles /\ lossless' \in BOOLEAN
        /\ ousted' \subseteq Users /\ declined' \subseteq Users /\ cleared' \in BOOLEAN
    BY <2>1, TroubleTyped
  <2> QED BY <1>6, <2>2 DEF Stop, memory, Typed, TypeOK
<1>7. CASE UNCHANGED vars
  BY <1>7 DEF vars, memory, history, budget, Typed, TypeOK
<1> QED BY <1>1, <1>2, <1>3, <1>4, <1>5, <1>6, <1>7 DEF Next

LEMMA InitTyped == Init => Typed
<1> SUFFICES ASSUME Init PROVE Typed
  OBVIOUS
<1>1. DefaultLevel \in Levels /\ MaxEdits \in Nat /\ MaxTroubles \in Nat
  BY AccessConstants
<1>2. \A v \in {NoValue} \union Values :
         [grants |-> {}, subs |-> {}, level |-> DefaultLevel, optOut |-> {},
          setting |-> v, imported |-> FALSE]
            \in [grants : SUBSET Grants, subs : SUBSET Users, level : Levels,
                 optOut : SUBSET Users, setting : Settings, imported : BOOLEAN]
  BY <1>1 DEF Settings
<1>3. rows \in [grants : SUBSET Grants, subs : SUBSET Users, level : Levels,
                optOut : SUBSET Users, setting : Settings, imported : BOOLEAN]
  BY <1>2 DEF Init
<1>4. queue \in Seq(Write) /\ setting \in Settings
  BY DEF Init, Settings
<1>5. phase = "down" /\ degraded = {} /\ grants = {} /\ subs = {} /\ optOut = {} /\ level = DefaultLevel
  BY DEF Init
<1>6. imported = FALSE /\ ousted = {} /\ declined = {} /\ cleared = FALSE /\ lossless = TRUE
  BY DEF Init
<1>7. edits \in 0 .. MaxEdits /\ troubles \in 0 .. MaxTroubles /\ intact
  BY <1>1 DEF Init
<1> QED BY <1>1, <1>3, <1>4, <1>5, <1>6, <1>7 DEF Typed, TypeOK

\* Roles, subscriptions, thresholds and settings keep their types, in memory
\* and in the database (permissions.ts, notifications.ts, notifyTopics.ts and
\* platformSettings.ts), whatever a failed load leaves behind.
THEOREM TypeCorrect == Spec => []TypeOK
<1>1. Typed => TypeOK
  BY DEF Typed
<1> QED BY <1>1, InitTyped, StepTyped, PTL DEF Spec

(* ------------------------ there is always a super admin ------------------ *)

\* ADMIN_USER_IDS names somebody.
LEMMA SeedExists == \E u \in Users : u \in Seeds
<1>1. SeedList \in Seq(Users) /\ SeedList # <<>>
  BY AccessConstants
<1>2. 1 \in DOMAIN SeedList /\ SeedList[1] \in Users
  BY <1>1
<1> QED
  BY <1>2 DEF Seeds

\* load() leaves a global super admin whatever the database holds.
LEMMA LoadedHasSuper ==
    ASSUME NEW G
    PROVE  SupersOf(Loaded(G)) # {}
<1>1. PICK u \in Users : u \in Seeds
  BY SeedExists
<1>2. CASE SupersOf(G) # {}
  BY <1>2 DEF Loaded
<1>3. CASE SupersOf(G) = {}
  <2>1. <<u, "super">> \in Loaded(G)
    BY <1>1, <1>3 DEF Loaded
  <2> QED
    BY <2>1 DEF SupersOf
<1> QED
  BY <1>2, <1>3

\* The seeds alone are global super admins too.
LEMMA SeedsAreSupers == SupersOf(Seeds \X {"super"}) # {}
<1>1. PICK u \in Users : u \in Seeds
  BY SeedExists
<1>2. <<u, "super">> \in Seeds \X {"super"}
  BY <1>1
<1> QED
  BY <1>2 DEF SupersOf

\* Granting a role takes the global role from nobody.
LEMMA GrantKeepsSuper ==
    ASSUME NEW role, NEW u, Grant(role, u), Supers # {}
    PROVE  Supers' # {}
BY DEF Grant, Supers, SupersOf

\* revokeSuperAdmin refuses to revoke the last one; no other role matters.
LEMMA RevokeKeepsSuper ==
    ASSUME NEW role, NEW u, Revoke(role, u), Supers # {}
    PROVE  Supers' # {}
<1>1. CASE role = "super" /\ u \in Supers
  <2>1. PICK v : v \in Supers /\ v # u
    BY <1>1 DEF Revoke, MayRevoke
  <2>2. <<v, "super">> \in grants'
    BY <2>1 DEF Revoke, Supers, SupersOf
  <2> QED
    BY <2>1, <2>2 DEF Supers, SupersOf
<1>2. CASE ~(role = "super" /\ u \in Supers)
  <2>1. PICK v : v \in Supers
    OBVIOUS
  <2>2. <<v, "super">> \in grants'
    BY <1>2, <2>1 DEF Revoke, Supers, SupersOf
  <2> QED
    BY <2>1, <2>2 DEF Supers, SupersOf
<1> QED
  BY <1>1, <1>2

\* The rest of the edits and the later steps of a start leave the roles alone.
LEMMA EditKeepsSuper ==
    ASSUME AlwaysASuper, Editing
    PROVE  AlwaysASuper'
<1>1. phase = "serving" /\ phase' = phase
  BY DEF Editing, HandlePermissionConfig, HandleNotifyLevel, NotifyToggle, NotifyUnsubscribe,
         HandleConfig, SettingRequests, NotifyRequests, PermissionRequests, ClearSetting,
         UpdateSetting, ResetNotifyLevels, SetNotifyLevel, SetPermission, ResetAllRulesCard,
         ResetRuleGroup, Edit
<1>2. Supers # {}
  BY <1>1 DEF AlwaysASuper
<1>3. ASSUME NEW op, NEW role, NEW u, HandlePermissionConfig(op, role, u) \/ SetPermission(op, role, u)
      PROVE  Supers' # {}
  BY <1>2, <1>3, GrantKeepsSuper, RevokeKeepsSuper DEF HandlePermissionConfig, SetPermission
<1>4. ASSUME NEW op, \/ \E l \in Levels : HandleNotifyLevel(op, l)
                     \/ NotifyToggle(op) \/ NotifyUnsubscribe(op) \/ HandleConfig(op)
                     \/ ResetAllRulesCard(op) \/ ResetRuleGroup(op)
                     \/ SettingRequests(op) \/ NotifyRequests(op)
      PROVE  grants' = grants
  BY <1>4 DEF HandleNotifyLevel, SetTopicLevel, NotifyToggle, NotifyUnsubscribe, HandleConfig,
              SettingRequests, NotifyRequests, ClearSetting, UpdateSetting, ResetNotifyLevels,
              SetNotifyLevel, Set, Clear, ResetAllRulesCard, ResetRuleGroup, RemoveDefaultOverride
<1> QED
  BY <1>1, <1>2, <1>3, <1>4 DEF Editing, PermissionRequests, AlwaysASuper, Supers, SupersOf

\* So does everything but a load of the permissions, which LoadedHasSuper covers.
LEMMA StepKeepsSuper ==
    ASSUME AlwaysASuper, [Next]_vars
    PROVE  AlwaysASuper'
<1>1. CASE Editing
  BY <1>1, EditKeepsSuper
<1>2. ASSUME NEW ok, Load(ok) PROVE AlwaysASuper'
  <2>1. grants' = Loaded(rows.grants) \/ grants' = Seeds \X {"super"}
    BY <1>2 DEF Load
  <2> QED
    BY <2>1, LoadedHasSuper, SeedsAreSupers DEF AlwaysASuper, Supers, SupersOf
<1>3. ASSUME \/ \E u \in Users : Plant(u)
             \/ Planted \/ ImportEnv \/ Serve
      PROVE  AlwaysASuper'
  <2>1. grants' = grants /\ phase # "down"
    BY <1>3 DEF Plant, Planted, ImportEnv, Serve, memory
  <2> QED
    BY <2>1 DEF AlwaysASuper, Supers, SupersOf
<1>4. ASSUME NEW op, NEW ok, RetryPermissions(op, ok) PROVE AlwaysASuper'
  <2>1. /\ phase = "serving" /\ phase' = phase
        /\ grants' = Loaded(rows.grants) \/ grants' = grants
    BY <1>4 DEF RetryPermissions, Retry
  <2> QED
    BY <2>1, LoadedHasSuper DEF AlwaysASuper, Supers, SupersOf
<1>5. ASSUME NEW op, NEW ok, RetryNotify(op, ok) \/ RetryPlatform(op, ok) PROVE AlwaysASuper'
  <2>1. phase = "serving" /\ phase' = phase /\ grants' = grants
    BY <1>5 DEF RetryNotify, RetryPlatform, Retry
  <2> QED
    BY <2>1 DEF AlwaysASuper, Supers, SupersOf
<1>6. CASE Land \/ WriteFails \/ UNCHANGED vars
  <2>1. phase' = phase /\ grants' = grants
    BY <1>6 DEF Land, WriteFails, vars, memory
  <2> QED
    BY <2>1 DEF AlwaysASuper, Supers, SupersOf
<1>7. CASE Stop
  BY <1>7 DEF Stop, AlwaysASuper
<1> QED
  BY <1>1, <1>2, <1>3, <1>4, <1>5, <1>6, <1>7 DEF Next, Starting, Retrying

\* A program that has loaded has a global super admin, for any users and seeds
\* and any sequence of grants, revocations, lost writes, failed loads, retries
\* and restarts: revokeSuperAdmin's refusal and the seeds of load() suffice.
THEOREM ASuperRemains == Spec => []AlwaysASuper
<1>1. Init => AlwaysASuper
  BY DEF Init, AlwaysASuper
<1>2. AlwaysASuper /\ [Next]_vars => AlwaysASuper'
  BY StepKeepsSuper
<1> QED
  BY <1>1, <1>2, PTL DEF Spec

(* ------------------------- the database catches up ----------------------- *)

\* A cell of the database: the kind of the writes that touch it and, where
\* there is one per grant or user, which.
Cells ==
    ({"grant"} \X Grants) \union ({"sub"} \X Users)
    \union ({"optOut", "setting", "marker"} \X {NoValue})
Mark(m) == IF m THEN {"marker"} ELSE {}
Held(c) ==
    IF c[1] = "grant" THEN rows.grants \intersect {c[2]}
    ELSE IF c[1] = "sub" THEN rows.subs \intersect {c[2]}
    ELSE IF c[1] = "optOut" THEN rows.optOut
    ELSE IF c[1] = "setting" THEN {rows.setting} ELSE Mark(rows.imported)
\* The opt-outs a load should find: a reset of the default rules leaves none,
\* until the list is written again.
OptOutKept == IF intact THEN optOut ELSE {}
\* What a load should find there.
Wanted(c) ==
    IF c[1] = "grant" THEN grants \intersect {c[2]}
    ELSE IF c[1] = "sub" THEN subs \intersect {c[2]}
    ELSE IF c[1] = "optOut" THEN OptOutKept
    ELSE IF c[1] = "setting" THEN {setting} ELSE Mark(imported)

Touches(w, c) ==
    /\ c[1] \in DOMAIN w \/ (c[1] = "optOut" /\ "reset" \in DOMAIN w)
    /\ c[1] = "grant" => w.grant = c[2]
    /\ c[1] = "sub" => w.sub = c[2]
Leaves(w, c) ==
    IF c[1] \in {"grant", "sub"} THEN IF w.kept THEN {c[2]} ELSE {}
    ELSE IF c[1] = "optOut" THEN IF "optOut" \in DOMAIN w THEN w.optOut ELSE {}
    ELSE IF c[1] = "setting" THEN {w.setting} ELSE {"marker"}

\* The last queued write that touches the cell leaves what is wanted there;
\* if there is none, it is there.
Ends(q, c, held, want) ==
    /\ (\A i \in DOMAIN q : ~Touches(q[i], c)) => held = want
    /\ \A i \in DOMAIN q :
         (Touches(q[i], c) /\ \A j \in DOMAIN q : j > i => ~Touches(q[j], c))
            => Leaves(q[i], c) = want
Synced == \A c \in Cells : Ends(queue, c, Held(c), Wanted(c))

\* As long as nothing is lost, a program that runs will have its memory in the
\* database, and one that is down has nothing left to write.
InStep == lossless => IF phase = "down" THEN queue = <<>> ELSE Synced

\* Writes at the end of the queue.
LEMMA Joined ==
    ASSUME NEW q \in Seq(Write), NEW ws, NEW S, Among(ws, S)
    PROVE  /\ \A i \in DOMAIN q : i \in DOMAIN (q \o ws) /\ (q \o ws)[i] = q[i]
           /\ \A i \in DOMAIN (q \o ws) : i \notin DOMAIN q => (q \o ws)[i] \in S
           /\ \A w \in S : \E i \in DOMAIN (q \o ws) : (q \o ws)[i] = w
           /\ \A w \in S : \E j \in DOMAIN (q \o ws) :
                 (q \o ws)[j] = w /\ \A i \in DOMAIN q : j > i
<1>1. ws \in Seq(Write) /\ \A w : w \in S <=> \E k \in DOMAIN ws : ws[k] = w
  BY DEF Among
<1>2. /\ q \o ws \in Seq(Write) /\ Len(q \o ws) = Len(q) + Len(ws)
      /\ \A k \in 1 .. Len(q) + Len(ws) :
            (q \o ws)[k] = IF k <= Len(q) THEN q[k] ELSE ws[k - Len(q)]
  BY <1>1, ConcatProperties
<1>3. /\ Len(q) \in Nat /\ Len(ws) \in Nat
      /\ DOMAIN q = 1 .. Len(q) /\ DOMAIN ws = 1 .. Len(ws)
      /\ DOMAIN (q \o ws) = 1 .. Len(q) + Len(ws)
  BY <1>1, <1>2
<1>4. ASSUME NEW i \in DOMAIN q PROVE i \in DOMAIN (q \o ws) /\ (q \o ws)[i] = q[i]
  BY <1>2, <1>3
<1>5. ASSUME NEW i \in DOMAIN (q \o ws), i \notin DOMAIN q PROVE (q \o ws)[i] \in S
  <2>1. i - Len(q) \in 1 .. Len(ws) /\ (q \o ws)[i] = ws[i - Len(q)]
    BY <1>2, <1>3, <1>5
  <2> QED BY <1>1, <1>3, <2>1
<1>6. ASSUME NEW w \in S
      PROVE  \E j \in DOMAIN (q \o ws) : (q \o ws)[j] = w /\ \A i \in DOMAIN q : j > i
  <2>1. PICK k \in 1 .. Len(ws) : ws[k] = w
    BY <1>1, <1>3
  <2>2. k + Len(q) \in 1 .. Len(q) + Len(ws) /\ (q \o ws)[k + Len(q)] = w
    BY <1>2, <1>3, <2>1
  <2>3. \A i \in DOMAIN q : k + Len(q) > i
    BY <1>3, <2>1
  <2> QED BY <1>3, <2>2, <2>3
<1> QED BY <1>4, <1>5, <1>6

LEMMA EndsJoins ==
    ASSUME NEW q \in Seq(Write), NEW ws, NEW S, Among(ws, S),
           NEW c, NEW held, NEW want, NEW wanted,
           Ends(q, c, held, want),
           \A w \in S : Touches(w, c) => Leaves(w, c) = wanted,
           wanted = want \/ \E w \in S : Touches(w, c)
    PROVE  Ends(q \o ws, c, held, wanted)
<1> DEFINE r == q \o ws
<1>1. /\ \A i \in DOMAIN q : i \in DOMAIN r /\ r[i] = q[i]
      /\ \A i \in DOMAIN r : i \notin DOMAIN q => r[i] \in S
      /\ \A w \in S : \E j \in DOMAIN r : r[j] = w /\ \A i \in DOMAIN q : j > i
  BY Joined
<1> HIDE DEF r
<1>2. ASSUME \A i \in DOMAIN r : ~Touches(r[i], c) PROVE held = wanted
  <2>1. wanted = want /\ \A i \in DOMAIN q : ~Touches(q[i], c)
    BY <1>1, <1>2
  <2> QED BY <2>1 DEF Ends
<1>3. ASSUME NEW i \in DOMAIN r, Touches(r[i], c),
             \A j \in DOMAIN r : j > i => ~Touches(r[j], c)
      PROVE  Leaves(r[i], c) = wanted
  <2>1. CASE i \in DOMAIN q
    <3>1. wanted = want
      BY <1>1, <1>3, <2>1
    <3>2. Touches(q[i], c) /\ \A j \in DOMAIN q : j > i => ~Touches(q[j], c)
      BY <1>1, <1>3, <2>1
    <3> QED BY <1>1, <2>1, <3>1, <3>2 DEF Ends
  <2>2. CASE i \notin DOMAIN q
    BY <1>1, <1>3, <2>2
  <2> QED BY <2>1, <2>2
<1>4. Ends(r, c, held, wanted)
  BY <1>2, <1>3 DEF Ends
<1> QED BY <1>4 DEF r

\* The head of the queue lands.
LEMMA Shorter ==
    ASSUME NEW q \in Seq(Write), q # <<>>
    PROVE  /\ 1 \in DOMAIN q /\ q[1] = Head(q)
           /\ \A i \in DOMAIN Tail(q) : i + 1 \in DOMAIN q /\ Tail(q)[i] = q[i + 1] /\ i + 1 > 1
           /\ \A i \in DOMAIN q : i # 1 => i - 1 \in DOMAIN Tail(q) /\ Tail(q)[i - 1] = q[i]
           /\ \A i \in DOMAIN q : i \in Nat
           /\ \A i \in DOMAIN Tail(q) : i \in Nat
<1>1. /\ Len(q) \in Nat /\ Len(q) >= 1 /\ DOMAIN q = 1 .. Len(q)
      /\ Tail(q) \in Seq(Write) /\ Len(Tail(q)) = Len(q) - 1
      /\ DOMAIN Tail(q) = 1 .. Len(q) - 1
      /\ \A i \in 1 .. Len(q) - 1 : Tail(q)[i] = q[i + 1]
      /\ Head(q) = q[1]
  OBVIOUS
<1> QED BY <1>1

LEMMA EndsLands ==
    ASSUME NEW q \in Seq(Write), q # <<>>, NEW c, NEW held, NEW want,
           Ends(q, c, held, want), NEW left,
           left = IF Touches(Head(q), c) THEN Leaves(Head(q), c) ELSE held
    PROVE  Ends(Tail(q), c, left, want)
<1> DEFINE t == Tail(q)
<1>1. /\ 1 \in DOMAIN q /\ q[1] = Head(q)
      /\ \A i \in DOMAIN t : i + 1 \in DOMAIN q /\ t[i] = q[i + 1] /\ i + 1 > 1
      /\ \A i \in DOMAIN q : i # 1 => i - 1 \in DOMAIN t /\ t[i - 1] = q[i]
      /\ \A i \in DOMAIN q : i \in Nat
      /\ \A i \in DOMAIN t : i \in Nat
  BY Shorter
<1> HIDE DEF t
<1>2. ASSUME \A i \in DOMAIN t : ~Touches(t[i], c) PROVE left = want
  <2>1. \A i \in DOMAIN q : i # 1 => ~Touches(q[i], c)
    BY <1>1, <1>2
  <2>2. CASE Touches(Head(q), c)
    BY <1>1, <2>1, <2>2 DEF Ends
  <2>3. CASE ~Touches(Head(q), c)
    BY <1>1, <2>1, <2>3 DEF Ends
  <2> QED BY <2>2, <2>3
<1>3. ASSUME NEW i \in DOMAIN t, Touches(t[i], c),
             \A j \in DOMAIN t : j > i => ~Touches(t[j], c)
      PROVE  Leaves(t[i], c) = want
  <2>1. i + 1 \in DOMAIN q /\ t[i] = q[i + 1]
    BY <1>1
  <2>2. ASSUME NEW j \in DOMAIN q, j > i + 1 PROVE ~Touches(q[j], c)
    <3>1. j \in Nat /\ i \in Nat
      BY <1>1
    <3>2. j # 1 /\ j - 1 > i
      BY <2>2, <3>1
    <3> QED BY <1>1, <1>3, <3>2
  <2> QED BY <1>3, <2>1, <2>2 DEF Ends
<1>4. Ends(t, c, left, want)
  BY <1>2, <1>3 DEF Ends
<1> QED BY <1>4 DEF t

\* With nothing queued, the database is what memory holds.
LEMMA Drained ==
    ASSUME Typed, Synced, queue = <<>>
    PROVE  /\ grants = rows.grants /\ subs = rows.subs /\ OptOutKept = rows.optOut
           /\ setting = rows.setting /\ (imported <=> rows.imported)
<1>1. \A c \in Cells : Held(c) = Wanted(c)
  BY DEF Synced, Ends
<1>2. /\ \A g \in Grants : <<"grant", g>> \in Cells
      /\ \A u \in Users : <<"sub", u>> \in Cells
      /\ <<"optOut", NoValue>> \in Cells /\ <<"setting", NoValue>> \in Cells
      /\ <<"marker", NoValue>> \in Cells
  BY DEF Cells
<1>3. \A g \in Grants : rows.grants \intersect {g} = grants \intersect {g}
  BY <1>1, <1>2 DEF Held, Wanted
<1>4. \A u \in Users : rows.subs \intersect {u} = subs \intersect {u}
  BY <1>1, <1>2 DEF Held, Wanted
<1>5. rows.optOut = OptOutKept /\ {rows.setting} = {setting} /\ Mark(rows.imported) = Mark(imported)
  BY <1>1, <1>2 DEF Held, Wanted
<1>6. rows.grants \subseteq Grants /\ grants \subseteq Grants /\ rows.subs \subseteq Users /\ subs \subseteq Users
  BY DEF Typed, TypeOK
<1>7. \A g \in Grants : g \in rows.grants <=> g \in grants
  BY <1>3
<1>8. \A u \in Users : u \in rows.subs <=> u \in subs
  BY <1>4
<1>9. grants = rows.grants /\ subs = rows.subs
  BY <1>6, <1>7, <1>8
<1>10. imported <=> rows.imported
  BY <1>5 DEF Mark
<1> QED BY <1>5, <1>9, <1>10

\* What an edit has to queue.
LEMMA EditSyncs ==
    ASSUME queue \in Seq(Write), Synced, NEW S, Queued(S), UNCHANGED rows,
           \A c \in Cells : \A w \in S : Touches(w, c) => Leaves(w, c) = Wanted(c)',
           \A c \in Cells : Wanted(c)' = Wanted(c) \/ \E w \in S : Touches(w, c)
    PROVE  Synced'
<1>1. PICK ws : Among(ws, S) /\ queue' = queue \o ws
  BY DEF Queued
<1>2. ASSUME NEW c \in Cells PROVE Ends(queue', c, Held(c)', Wanted(c)')
  <2>1. Held(c)' = Held(c)
    BY DEF Held
  <2>2. Ends(queue, c, Held(c), Wanted(c))
    BY DEF Synced
  <2>3. \A w \in S : Touches(w, c) => Leaves(w, c) = Wanted(c)'
    OBVIOUS
  <2>4. Wanted(c)' = Wanted(c) \/ \E w \in S : Touches(w, c)
    OBVIOUS
  <2> DEFINE held == Held(c)
             want == Wanted(c)
             wanted == Wanted(c)'
  <2>5. /\ Ends(queue, c, held, want) /\ \A w \in S : Touches(w, c) => Leaves(w, c) = wanted
        /\ wanted = want \/ \E w \in S : Touches(w, c)
    BY <2>2, <2>3, <2>4
  <2> HIDE DEF held, want, wanted
  <2>6. Ends(queue \o ws, c, held, wanted)
    BY <1>1, <2>5, EndsJoins
  <2>7. held = Held(c)' /\ wanted = Wanted(c)'
    BY <2>1 DEF held, wanted
  <2> QED BY <1>1, <2>6, <2>7
<1> QED BY <1>2 DEF Synced

\* What the database holds after a write.
LEMMA Applied ==
    ASSUME NEW w, NEW r
    PROVE  /\ Apply(w, r).grants = IF "grant" \in DOMAIN w THEN Put(r.grants, w.grant, w.kept) ELSE r.grants
           /\ Apply(w, r).subs = IF "sub" \in DOMAIN w THEN Put(r.subs, w.sub, w.kept) ELSE r.subs
           /\ Apply(w, r).optOut = IF "optOut" \in DOMAIN w THEN w.optOut
                                   ELSE IF "reset" \in DOMAIN w THEN {} ELSE r.optOut
           /\ Apply(w, r).setting = IF "setting" \in DOMAIN w THEN w.setting ELSE r.setting
           /\ Apply(w, r).imported = (r.imported \/ "marker" \in DOMAIN w)
BY DEF Apply

LEMMA LandSyncs ==
    ASSUME Typed, Synced, Land
    PROVE  Synced'
<1>1. queue \in Seq(Write) /\ queue # <<>> /\ queue' = Tail(queue) /\ rows' = Apply(Head(queue), rows)
  BY DEF Typed, Land
<1> DEFINE w == Head(queue)
<1>2. w \in Write
  BY <1>1, HeadTailProperties
<1>3. /\ rows'.grants = IF "grant" \in DOMAIN w THEN Put(rows.grants, w.grant, w.kept) ELSE rows.grants
      /\ rows'.subs = IF "sub" \in DOMAIN w THEN Put(rows.subs, w.sub, w.kept) ELSE rows.subs
      /\ rows'.optOut = IF "optOut" \in DOMAIN w THEN w.optOut
                        ELSE IF "reset" \in DOMAIN w THEN {} ELSE rows.optOut
      /\ rows'.setting = IF "setting" \in DOMAIN w THEN w.setting ELSE rows.setting
      /\ rows'.imported <=> (rows.imported \/ "marker" \in DOMAIN w)
  BY <1>1, Applied
<1> HIDE DEF w
<1>4. ASSUME NEW c \in Cells
      PROVE  Held(c)' = IF Touches(w, c) THEN Leaves(w, c) ELSE Held(c)
  <2>1. CASE c[1] = "grant"
    <3>1. Held(c)' = rows'.grants \intersect {c[2]} /\ Held(c) = rows.grants \intersect {c[2]}
      BY <2>1 DEF Held
    <3>2. /\ Touches(w, c) <=> "grant" \in DOMAIN w /\ w.grant = c[2]
          /\ Leaves(w, c) = IF w.kept THEN {c[2]} ELSE {}
      BY <2>1 DEF Touches, Leaves
    <3> QED BY <1>3, <3>1, <3>2 DEF Put
  <2>2. CASE c[1] = "sub"
    <3>1. Held(c)' = rows'.subs \intersect {c[2]} /\ Held(c) = rows.subs \intersect {c[2]}
      BY <2>2 DEF Held
    <3>2. /\ Touches(w, c) <=> "sub" \in DOMAIN w /\ w.sub = c[2]
          /\ Leaves(w, c) = IF w.kept THEN {c[2]} ELSE {}
      BY <2>2 DEF Touches, Leaves
    <3> QED BY <1>3, <3>1, <3>2 DEF Put
  <2>3. CASE c[1] = "optOut"
    BY <1>3, <2>3 DEF Held, Touches, Leaves
  <2>4. CASE c[1] = "setting"
    BY <1>3, <2>4 DEF Held, Touches, Leaves
  <2>5. CASE c[1] = "marker"
    <3>1. Held(c)' = Mark(rows'.imported) /\ Held(c) = Mark(rows.imported)
      BY <2>5 DEF Held
    <3>2. (Touches(w, c) <=> "marker" \in DOMAIN w) /\ Leaves(w, c) = {"marker"}
      BY <2>5 DEF Touches, Leaves
    <3> QED BY <1>3, <3>1, <3>2 DEF Mark
  <2> QED BY <2>1, <2>2, <2>3, <2>4, <2>5 DEF Cells
<1>5. ASSUME NEW c \in Cells PROVE Ends(queue', c, Held(c)', Wanted(c)')
  <2> DEFINE held == Held(c)
             want == Wanted(c)
             left == Held(c)'
  <2>1. Ends(queue, c, held, want)
    BY DEF Synced
  <2>2. left = IF Touches(Head(queue), c) THEN Leaves(Head(queue), c) ELSE held
    BY <1>4 DEF w
  <2>3. Wanted(c)' = want
    BY DEF Wanted, OptOutKept, Land, memory
  <2> HIDE DEF held, want, left
  <2>4. Ends(Tail(queue), c, left, want)
    BY <1>1, <2>1, <2>2, EndsLands
  <2>5. left = Held(c)'
    BY DEF left
  <2> QED BY <1>1, <2>3, <2>4, <2>5
<1> QED BY <1>5 DEF Synced

(* Each edit queues what memory then wants.                                *)

LEMMA RoleSyncs ==
    ASSUME Typed, Synced, UNCHANGED rows, RoleEdit
    PROVE  Synced'
<1>1. PICK u \in Users, role \in GroupRoles \union {"super"} :
            (Grant(role, u) \/ Revoke(role, u)) /\ PermKept
  BY DEF RoleEdit
<1>2. PICK k \in BOOLEAN :
         /\ grants' = IF k THEN grants \union {<<u, role>>} ELSE grants \ {<<u, role>>}
         /\ queue' = Append(queue, [grant |-> <<u, role>>, kept |-> k])
  BY <1>1 DEF Grant, Revoke
<1> DEFINE w == [grant |-> <<u, role>>, kept |-> k]
<1>3. w \in Write
  BY DEF Write, Grants
<1>4. DOMAIN w = {"grant", "kept"} /\ w.grant = <<u, role>> /\ w.kept = k
  OBVIOUS
<1>5. queue \in Seq(Write) /\ queue' = Append(queue, w)
  BY <1>2 DEF Typed
<1> HIDE DEF w
<1>6. Queued({w})
  BY <1>3, <1>5, QueuedFew
<1>7. ASSUME NEW c \in Cells
      PROVE  /\ Touches(w, c) => Leaves(w, c) = Wanted(c)'
             /\ ~Touches(w, c) => Wanted(c)' = Wanted(c)
  <2>1. CASE c[1] = "grant"
    <3>1. Wanted(c)' = grants' \intersect {c[2]} /\ Wanted(c) = grants \intersect {c[2]}
      BY <2>1 DEF Wanted
    <3>2. /\ Touches(w, c) <=> <<u, role>> = c[2]
          /\ Leaves(w, c) = IF k THEN {c[2]} ELSE {}
      BY <1>4, <2>1 DEF Touches, Leaves
    <3> QED BY <1>2, <3>1, <3>2
  <2>2. CASE c[1] # "grant"
    <3>1. ~Touches(w, c)
      BY <1>4, <2>2 DEF Touches, Cells
    <3>2. Wanted(c)' = Wanted(c)
      BY <1>1, <2>2 DEF Wanted, OptOutKept, PermKept
    <3> QED BY <3>1, <3>2
  <2> QED BY <2>1, <2>2
<1> QED BY <1>5, <1>6, <1>7, EditSyncs

LEMMA SubscribeSyncs ==
    ASSUME Typed, Synced, UNCHANGED <<rows, grants, setting, imported>>, NEW u \in Users, Subscribe(u)
    PROVE  Synced'
<1> DEFINE S == SubscribeWrites(u)
<1>1. Queued(S) /\ queue \in Seq(Write)
  BY SubscribeQueues DEF Typed
<1>2. /\ subs' = subs \union {u} /\ optOut' = optOut \ {u}
      /\ u \in optOut => OptOutKept' = optOut \ {u}
      /\ u \notin optOut => OptOutKept' = OptOutKept
  BY DEF Subscribe, OptOutKept
<1>3. ASSUME NEW w \in S
      PROVE  \/ w = [optOut |-> optOut \ {u}] /\ u \in optOut
             \/ w = [sub |-> u, kept |-> TRUE] /\ u \notin subs
  BY DEF SubscribeWrites
<1>4. ASSUME NEW c \in Cells, NEW w \in S, Touches(w, c) PROVE Leaves(w, c) = Wanted(c)'
  <2>1. CASE w = [optOut |-> optOut \ {u}] /\ u \in optOut
    <3>1. c[1] = "optOut"
      BY <1>4, <2>1 DEF Touches, Cells
    <3> QED BY <1>2, <2>1, <3>1 DEF Leaves, Wanted
  <2>2. CASE w = [sub |-> u, kept |-> TRUE]
    <3>1. c[1] = "sub" /\ c[2] = u
      BY <1>4, <2>2 DEF Touches, Cells
    <3>2. Leaves(w, c) = {u} /\ Wanted(c)' = subs' \intersect {u}
      BY <2>2, <3>1 DEF Leaves, Wanted
    <3> QED BY <1>2, <3>2
  <2> QED BY <1>3, <2>1, <2>2
<1>5. ASSUME NEW c \in Cells PROVE Wanted(c)' = Wanted(c) \/ \E w \in S : Touches(w, c)
  <2>1. CASE c[1] = "sub"
    <3>1. CASE c[2] = u /\ u \notin subs
      <4>1. [sub |-> u, kept |-> TRUE] \in S /\ Touches([sub |-> u, kept |-> TRUE], c)
        BY <2>1, <3>1 DEF SubscribeWrites, Touches
      <4> QED BY <4>1
    <3>2. CASE ~(c[2] = u /\ u \notin subs)
      <4>1. Wanted(c)' = subs' \intersect {c[2]} /\ Wanted(c) = subs \intersect {c[2]}
        BY <2>1 DEF Wanted
      <4> QED BY <1>2, <3>2, <4>1
    <3> QED BY <3>1, <3>2
  <2>2. CASE c[1] = "optOut"
    <3>1. CASE u \in optOut
      <4>1. [optOut |-> optOut \ {u}] \in S /\ Touches([optOut |-> optOut \ {u}], c)
        BY <2>2, <3>1 DEF SubscribeWrites, Touches
      <4> QED BY <4>1
    <3>2. CASE u \notin optOut
      <4>1. OptOutKept' = OptOutKept
        BY <1>2, <3>2
      <4> QED BY <2>2, <4>1 DEF Wanted
    <3> QED BY <3>1, <3>2
  <2>3. CASE c[1] \notin {"sub", "optOut"}
    BY <2>3 DEF Wanted
  <2> QED BY <2>1, <2>2, <2>3
<1> HIDE DEF S
<1> QED BY <1>1, <1>4, <1>5, EditSyncs

LEMMA UnsubscribeSyncs ==
    ASSUME Typed, Synced, UNCHANGED <<rows, grants, setting, imported>>, NEW u \in Users, Unsubscribe(u)
    PROVE  Synced'
<1> DEFINE S == UnsubscribeWrites(u)
           m == Marked(u)
<1>1. Queued(S) /\ queue \in Seq(Write)
  BY UnsubscribeQueues DEF Typed
<1>2. /\ subs' = subs \ {u}
      /\ OptOutKept' = IF m THEN optOut \union {u} ELSE OptOutKept
  BY DEF Unsubscribe, OptOutKept
<1>3. S = (IF m THEN {[optOut |-> optOut \union {u}]} ELSE {})
          \union (IF u \in subs THEN {[sub |-> u, kept |-> FALSE]} ELSE {})
  BY DEF UnsubscribeWrites
<1> HIDE DEF S, m
<1>4. ASSUME NEW c \in Cells, NEW w \in S, Touches(w, c) PROVE Leaves(w, c) = Wanted(c)'
  <2>1. CASE w = [optOut |-> optOut \union {u}] /\ m
    <3>1. c[1] = "optOut"
      BY <1>4, <2>1 DEF Touches, Cells
    <3> QED BY <1>2, <2>1, <3>1 DEF Leaves, Wanted
  <2>2. CASE w = [sub |-> u, kept |-> FALSE]
    <3>1. c[1] = "sub" /\ c[2] = u
      BY <1>4, <2>2 DEF Touches, Cells
    <3>2. Leaves(w, c) = {} /\ Wanted(c)' = subs' \intersect {u}
      BY <2>2, <3>1 DEF Leaves, Wanted
    <3> QED BY <1>2, <3>2
  <2> QED BY <1>3, <2>1, <2>2
<1>5. ASSUME NEW c \in Cells PROVE Wanted(c)' = Wanted(c) \/ \E w \in S : Touches(w, c)
  <2>1. CASE c[1] = "sub"
    <3>1. CASE c[2] = u /\ u \in subs
      <4>1. [sub |-> u, kept |-> FALSE] \in S /\ Touches([sub |-> u, kept |-> FALSE], c)
        BY <1>3, <2>1, <3>1 DEF Touches
      <4> QED BY <4>1
    <3>2. CASE ~(c[2] = u /\ u \in subs)
      <4>1. Wanted(c)' = subs' \intersect {c[2]} /\ Wanted(c) = subs \intersect {c[2]}
        BY <2>1 DEF Wanted
      <4> QED BY <1>2, <3>2, <4>1
    <3> QED BY <3>1, <3>2
  <2>2. CASE c[1] = "optOut"
    <3>1. CASE m
      <4>1. [optOut |-> optOut \union {u}] \in S /\ Touches([optOut |-> optOut \union {u}], c)
        BY <1>3, <2>2, <3>1 DEF Touches
      <4> QED BY <4>1
    <3>2. CASE ~m
      <4>1. OptOutKept' = OptOutKept
        BY <1>2, <3>2
      <4> QED BY <2>2, <4>1 DEF Wanted
    <3> QED BY <3>1, <3>2
  <2>3. CASE c[1] \notin {"sub", "optOut"}
    BY <2>3 DEF Wanted
  <2> QED BY <2>1, <2>2, <2>3
<1> QED BY <1>1, <1>4, <1>5, EditSyncs

LEMMA LevelSyncs ==
    ASSUME Typed, Synced, UNCHANGED rows, NEW l \in Levels, SetTopicLevel(l)
    PROVE  Synced'
<1> DEFINE w == [level |-> l]
<1>1. w \in Write /\ DOMAIN w = {"level"}
  BY DEF Write
<1>2. queue \in Seq(Write) /\ queue' = Append(queue, w)
  BY DEF Typed, SetTopicLevel
<1> HIDE DEF w
<1>3. Queued({w})
  BY <1>1, <1>2, QueuedFew
<1>4. \A c \in Cells : ~Touches(w, c)
  BY <1>1 DEF Touches, Cells
<1>5. \A c \in Cells : Wanted(c)' = Wanted(c)
  BY DEF Wanted, OptOutKept, SetTopicLevel
<1> QED BY <1>2, <1>3, <1>4, <1>5, EditSyncs

LEMMA SettingSyncs ==
    ASSUME Typed, Synced, UNCHANGED rows, Clear \/ \E v \in Values : Set(v)
    PROVE  Synced'
<1>1. PICK v \in Settings :
         /\ setting' = v /\ UNCHANGED <<grants, subs, optOut, intact, imported>>
         /\ \/ queue' = Append(queue, [setting |-> v])
            \/ queue' = queue /\ setting = v
  BY DEF Clear, Set, Settings
<1> DEFINE w == [setting |-> v]
<1>2. w \in Write /\ DOMAIN w = {"setting"} /\ w.setting = v
  BY DEF Write
<1>3. /\ queue \in Seq(Write)
      /\ queue' = Append(queue, w) \/ (queue' = queue /\ setting = v)
  BY <1>1 DEF Typed
<1> HIDE DEF w
<1>4. \A c \in Cells : Touches(w, c) <=> c[1] = "setting"
  BY <1>2 DEF Touches, Cells
<1>5. \A c \in Cells : c[1] = "setting" => Leaves(w, c) = {v} /\ Wanted(c)' = {v} /\ Wanted(c) = {setting}
  BY <1>1, <1>2 DEF Leaves, Wanted
<1>6. \A c \in Cells : c[1] # "setting" => Wanted(c)' = Wanted(c)
  BY <1>1 DEF Wanted, OptOutKept
<1>7. CASE queue' = Append(queue, w)
  <2>1. Queued({w})
    BY <1>2, <1>3, <1>7, QueuedFew
  <2> QED BY <1>3, <1>4, <1>5, <1>6, <2>1, EditSyncs
<1>8. CASE queue' = queue /\ setting = v
  <2>1. Queued({})
    BY <1>3, <1>8, QueuedFew
  <2>2. \A c \in Cells : Wanted(c)' = Wanted(c)
    BY <1>5, <1>6, <1>8
  <2> QED BY <1>3, <2>1, <2>2, EditSyncs
<1> QED BY <1>3, <1>7, <1>8

\* A reset of the default rules empties the opt-outs of the database.
LEMMA ResetSyncs ==
    ASSUME Typed, Synced, UNCHANGED rows, RemoveDefaultOverride
    PROVE  Synced'
<1> DEFINE w == [reset |-> TRUE]
<1>1. w \in Write /\ DOMAIN w = {"reset"}
  BY DEF Write
<1>2. queue \in Seq(Write) /\ queue' = Append(queue, w)
  BY DEF Typed, RemoveDefaultOverride
<1> HIDE DEF w
<1>3. Queued({w})
  BY <1>1, <1>2, QueuedFew
<1>4. \A c \in Cells : Touches(w, c) <=> c[1] = "optOut"
  BY <1>1 DEF Touches, Cells
<1>5. OptOutKept' = {}
  BY DEF OptOutKept, RemoveDefaultOverride
<1>6. \A c \in Cells : c[1] = "optOut" => Leaves(w, c) = Wanted(c)'
  BY <1>1, <1>5 DEF Leaves, Wanted
<1>7. \A c \in Cells : c[1] # "optOut" => Wanted(c)' = Wanted(c)
  BY DEF Wanted, RemoveDefaultOverride
<1> QED BY <1>2, <1>3, <1>4, <1>6, <1>7, EditSyncs

LEMMA ImportSyncs ==
    ASSUME Typed, Synced, ImportEnv
    PROVE  Synced'
<1>1. queue \in Seq(Write)
  BY DEF Typed
<1>2. CASE UNCHANGED <<setting, imported, queue>>
  <2>1. Queued({})
    BY <1>1, <1>2, QueuedFew
  <2>2. \A c \in Cells : Wanted(c)' = Wanted(c)
    BY <1>2 DEF Wanted, OptOutKept, ImportEnv
  <2>3. rows' = rows
    BY DEF ImportEnv
  <2> QED BY <1>1, <2>1, <2>2, <2>3, EditSyncs
<1>3. CASE /\ setting' = EnvValue /\ imported' = TRUE
           /\ queue' = queue \o <<[setting |-> EnvValue], [marker |-> TRUE]>>
  <2> DEFINE a == [setting |-> EnvValue]
             b == [marker |-> TRUE]
  <2>1. /\ a \in Write /\ DOMAIN a = {"setting"} /\ a.setting = EnvValue
        /\ b \in Write /\ DOMAIN b = {"marker"}
    BY AccessConstants DEF Write, Settings
  <2>2. queue' = queue \o <<a, b>>
    BY <1>3
  <2>3. rows' = rows
    BY DEF ImportEnv
  <2> HIDE DEF a, b
  <2>4. Queued({a, b})
    BY <1>1, <2>1, <2>2, QueuedFew
  <2>5. \A c \in Cells : /\ Touches(a, c) <=> c[1] = "setting"
                         /\ Touches(b, c) <=> c[1] = "marker"
    BY <2>1 DEF Touches, Cells
  <2>6. \A c \in Cells : c[1] = "setting" => Leaves(a, c) = Wanted(c)'
    BY <1>3, <2>1 DEF Leaves, Wanted
  <2>7. \A c \in Cells : c[1] = "marker" => Leaves(b, c) = Wanted(c)'
    BY <1>3, <2>1 DEF Leaves, Wanted, Mark
  <2>8. \A c \in Cells : c[1] \notin {"setting", "marker"} => Wanted(c)' = Wanted(c)
    BY DEF Wanted, OptOutKept, ImportEnv, Cells
  <2> QED BY <1>1, <2>3, <2>4, <2>5, <2>6, <2>7, <2>8, EditSyncs
<1> QED BY <1>2, <1>3 DEF ImportEnv

(* A load, or a retry with nothing queued, reads what memory then holds,   *)
(* and queues the seeds it adds.                                           *)

LEMMA FreshSyncs ==
    ASSUME Typed, UNCHANGED rows,
           subs' = rows.subs, OptOutKept' = rows.optOut, setting' = rows.setting,
           imported' <=> rows.imported,
           \/ grants' = rows.grants /\ queue' = <<>>
           \/ grants' = rows.grants \union (Seeds \X {"super"}) /\ queue' = SeedWrites
    PROVE  Synced'
<1>1. ASSUME NEW c \in Cells, c[1] # "grant" PROVE Wanted(c)' = Held(c)'
  BY <1>1 DEF Wanted, Held, Mark
<1>2. ASSUME NEW c \in Cells, c[1] = "grant"
      PROVE  Wanted(c)' = grants' \intersect {c[2]} /\ Held(c)' = rows.grants \intersect {c[2]}
  BY <1>2 DEF Wanted, Held
<1>3. CASE grants' = rows.grants /\ queue' = <<>>
  <2>1. \A c \in Cells : Wanted(c)' = Held(c)'
    BY <1>1, <1>2, <1>3
  <2> QED BY <1>3, <2>1 DEF Synced, Ends
<1>4. CASE grants' = rows.grants \union (Seeds \X {"super"}) /\ queue' = SeedWrites
  <2>1. /\ DOMAIN SeedWrites = DOMAIN SeedList
        /\ \A i \in DOMAIN SeedList : SeedWrites[i] = [grant |-> <<SeedList[i], "super">>, kept |-> TRUE]
    BY DEF SeedWrites
  <2>2. ASSUME NEW c \in Cells, NEW i \in DOMAIN SeedList, Touches(SeedWrites[i], c)
        PROVE  Leaves(SeedWrites[i], c) = Wanted(c)'
    <3>1. c[1] = "grant" /\ c[2] = <<SeedList[i], "super">>
      BY <2>1, <2>2 DEF Touches, Cells
    <3>2. Leaves(SeedWrites[i], c) = {c[2]}
      BY <2>1, <3>1 DEF Leaves
    <3>3. c[2] \in grants'
      BY <1>4, <3>1 DEF Seeds
    <3> QED BY <1>2, <3>1, <3>2, <3>3
  <2>3. ASSUME NEW c \in Cells, \A i \in DOMAIN SeedList : ~Touches(SeedWrites[i], c)
        PROVE  Held(c)' = Wanted(c)'
    <3>1. CASE c[1] # "grant"
      BY <1>1, <3>1
    <3>2. CASE c[1] = "grant"
      <4>1. ASSUME NEW i \in DOMAIN SeedList PROVE c[2] # <<SeedList[i], "super">>
        <5>1. ~Touches(SeedWrites[i], c)
          BY <2>3
        <5> QED BY <2>1, <3>2, <5>1 DEF Touches
      <4>2. \A s \in Seeds : c[2] # <<s, "super">>
        BY <4>1 DEF Seeds
      <4>3. c[2] \notin Seeds \X {"super"}
        BY <4>2
      <4> DEFINE P == Seeds \X {"super"}
                 x == c[2]
      <4>4. x \notin P /\ grants' = rows.grants \union P
        BY <1>4, <4>3
      <4>5. Wanted(c)' = grants' \intersect {x} /\ Held(c)' = rows.grants \intersect {x}
        BY <1>2, <3>2
      <4> HIDE DEF P, x
      <4>6. grants' \intersect {x} = rows.grants \intersect {x}
        BY <4>4
      <4> QED BY <4>5, <4>6
    <3> QED BY <3>1, <3>2
  <2> HIDE DEF SeedWrites
  <2>4. ASSUME NEW c \in Cells PROVE Ends(SeedWrites, c, Held(c)', Wanted(c)')
    BY <2>1, <2>2, <2>3 DEF Ends
  <2> QED BY <1>4, <2>4 DEF Synced
<1> QED BY <1>3, <1>4

\* A trouble that loses something says so.
LEMMA TroubleTells ==
    ASSUME NEW harmless \in BOOLEAN, Trouble(harmless), lossless'
    PROVE  lossless /\ harmless /\ UNCHANGED history
BY DEF Trouble

LEMMA LoadSyncs ==
    ASSUME Typed, NEW ok \in SUBSET Modules, Load(ok), lossless'
    PROVE  /\ Synced' /\ lossless /\ UNCHANGED <<rows, history>>
           /\ grants' = Loaded(rows.grants) /\ subs' = rows.subs /\ OptOutKept' = rows.optOut
           /\ setting' = rows.setting /\ (imported' <=> rows.imported)
<1>1. ok = Modules
  BY TroubleTells DEF Load
<1>2. {"permissions", "notify", "platform"} \subseteq ok
  BY <1>1, AccessConstants
<1>3. /\ grants' = Loaded(rows.grants) /\ subs' = rows.subs /\ OptOutKept' = rows.optOut
      /\ setting' = rows.setting /\ (imported' <=> rows.imported)
      /\ queue' = IF SupersOf(rows.grants) = {} THEN SeedWrites ELSE <<>>
      /\ rows' = rows
  BY <1>2 DEF Load, OptOutKept
<1>4. Synced'
  BY <1>3, FreshSyncs DEF Loaded
<1>5. lossless /\ UNCHANGED history
  BY <1>1 DEF Load
<1> QED BY <1>3, <1>4, <1>5

LEMMA RetrySyncs ==
    ASSUME Typed, InStep, Retrying, lossless'
    PROVE  /\ Synced' /\ lossless /\ UNCHANGED <<rows, history, subs, setting>> /\ OptOutKept' = OptOutKept
           /\ grants' \in {grants, Loaded(grants)} /\ (imported' <=> imported)
<1>1. PICK op \in Users, ok \in BOOLEAN :
          RetryPermissions(op, ok) \/ RetryNotify(op, ok) \/ RetryPlatform(op, ok)
  BY DEF Retrying
<1>2. phase = "serving" /\ Trouble(ok /\ queue = <<>>) /\ rows' = rows
  BY <1>1 DEF RetryPermissions, RetryNotify, RetryPlatform, Retry
<1>3. lossless /\ ok /\ queue = <<>> /\ UNCHANGED history
  <2> DEFINE h == ok /\ queue = <<>>
  <2>1. h \in BOOLEAN /\ Trouble(h)
    BY <1>2
  <2>2. h => ok /\ queue = <<>>
    OBVIOUS
  <2> HIDE DEF h
  <2> QED BY <2>1, <2>2, TroubleTells
<1>4. /\ grants = rows.grants /\ subs = rows.subs /\ OptOutKept = rows.optOut
      /\ setting = rows.setting /\ (imported <=> rows.imported)
  <2>1. Synced
    BY <1>2, <1>3 DEF InStep
  <2> QED BY <1>3, <2>1, Drained
<1>5. CASE RetryPermissions(op, ok)
  <2>1. grants' = Loaded(rows.grants) /\ UNCHANGED <<subs, setting, imported>> /\ OptOutKept' = OptOutKept
    BY <1>3, <1>5 DEF RetryPermissions, OptOutKept
  <2>2. queue' = IF SupersOf(rows.grants) = {} THEN SeedWrites ELSE <<>>
    <3>1. SeedWrites \in Seq(Write)
      BY SeedsTyped
    <3>2. queue' = <<>> \o (IF SupersOf(rows.grants) = {} THEN SeedWrites ELSE <<>>)
      BY <1>3, <1>5 DEF RetryPermissions
    <3> HIDE DEF SeedWrites
    <3> QED BY <3>1, <3>2
  <2>3. Synced'
    BY <1>2, <1>4, <2>1, <2>2, FreshSyncs DEF Loaded
  <2> QED BY <1>2, <1>3, <1>4, <2>1, <2>3
<1>6. CASE RetryNotify(op, ok)
  <2>1. /\ subs' = rows.subs /\ OptOutKept' = rows.optOut
        /\ UNCHANGED <<grants, setting, imported, queue>>
    BY <1>3, <1>6 DEF RetryNotify, OptOutKept
  <2>2. Synced'
    BY <1>2, <1>3, <1>4, <2>1, FreshSyncs
  <2> QED BY <1>2, <1>3, <1>4, <2>1, <2>2
<1>7. CASE RetryPlatform(op, ok)
  <2>1. /\ setting' = rows.setting /\ (imported' <=> rows.imported)
        /\ UNCHANGED <<grants, subs, queue>> /\ OptOutKept' = OptOutKept
    BY <1>3, <1>7 DEF RetryPlatform, OptOutKept
  <2>2. Synced'
    BY <1>2, <1>3, <1>4, <2>1, FreshSyncs
  <2> QED BY <1>2, <1>3, <1>4, <2>1, <2>2
<1> QED BY <1>1, <1>5, <1>6, <1>7

LEMMA StopLoses ==
    ASSUME Stop, lossless'
    PROVE  lossless /\ queue = <<>> /\ UNCHANGED history
<1> DEFINE h == queue = <<>>
<1>1. h \in BOOLEAN /\ Trouble(h)
  BY DEF Stop
<1>2. h => queue = <<>>
  OBVIOUS
<1> HIDE DEF h
<1> QED BY <1>1, <1>2, TroubleTells

LEMMA StepInStep == Typed /\ InStep /\ [Next]_vars => InStep'
<1> SUFFICES ASSUME Typed, InStep, [Next]_vars, lossless'
             PROVE  IF phase' = "down" THEN queue' = <<>> ELSE Synced'
  BY DEF InStep
<1>1. CASE Editing
  <2>1. phase = "serving" /\ UNCHANGED <<phase, rows, lossless>>
    BY <1>1, EditIsOneOf DEF Edit
  <2>2. Synced
    BY <2>1 DEF InStep
  <2>3. CASE RoleEdit
    BY <2>1, <2>2, <2>3, RoleSyncs
  <2>4. CASE \E u \in Users : TopicOn(u) \/ TopicOff(u)
    <3>1. PICK u \in Users : TopicOn(u) \/ TopicOff(u)
      BY <2>4
    <3>2. UNCHANGED <<rows, grants, setting, imported>> /\ (Subscribe(u) \/ Unsubscribe(u))
      BY <2>1, <3>1 DEF TopicOn, TopicOff
    <3> QED BY <2>1, <2>2, <3>2, SubscribeSyncs, UnsubscribeSyncs
  <2>5. CASE \E l \in Levels : SetTopicLevel(l)
    BY <2>1, <2>2, <2>5, LevelSyncs
  <2>6. CASE Clear \/ \E v \in Values : Set(v)
    BY <2>1, <2>2, <2>6, SettingSyncs
  <2>7. CASE RemoveDefaultOverride
    BY <2>1, <2>2, <2>7, ResetSyncs
  <2> QED BY <1>1, <2>1, <2>3, <2>4, <2>5, <2>6, <2>7, EditIsOneOf
<1>2. CASE \E ok \in SUBSET Modules : Load(ok)
  <2>1. phase' = "loaded"
    BY <1>2 DEF Load
  <2> QED BY <1>2, <2>1, LoadSyncs
<1>3. CASE \E u \in Users : Plant(u)
  <2>1. PICK u \in Users : Plant(u)
    BY <1>3
  <2>2. /\ phase = "loaded" /\ phase' = phase /\ lossless
        /\ UNCHANGED <<rows, grants, setting, imported>> /\ Subscribe(u)
    BY <2>1 DEF Plant, budget
  <2> QED BY <2>2, SubscribeSyncs DEF InStep
<1>4. CASE ImportEnv
  <2>1. phase = "seeded" /\ phase' = "imported" /\ lossless
    BY <1>4 DEF ImportEnv, budget
  <2> QED BY <1>4, <2>1, ImportSyncs DEF InStep
<1>5. CASE Planted \/ Serve
  <2>1. /\ phase # "down" /\ phase' # "down" /\ lossless
        /\ UNCHANGED <<queue, rows, grants, subs, optOut, intact, setting, imported>>
    BY <1>5 DEF Planted, Serve, memory, budget
  <2>2. Synced
    BY <2>1 DEF InStep
  <2>3. Synced'
    BY <2>1, <2>2 DEF Synced, Held, Wanted, OptOutKept
  <2> QED BY <2>1, <2>3
<1>6. CASE Retrying
  <2>1. phase' = "serving"
    BY <1>6 DEF Retrying, RetryPermissions, RetryNotify, RetryPlatform, Retry
  <2> QED BY <1>6, <2>1, RetrySyncs
<1>7. CASE Land
  <2>1. phase' = phase /\ lossless /\ queue # <<>>
    BY <1>7 DEF Land, budget
  <2> QED BY <1>7, <2>1, LandSyncs DEF InStep
<1>8. CASE WriteFails
  BY <1>8, TroubleTells DEF WriteFails
<1>9. CASE Stop
  BY <1>9 DEF Stop
<1>10. CASE UNCHANGED vars
  <2>1. /\ UNCHANGED <<phase, lossless, queue, rows, grants, subs, optOut, intact, setting, imported>>
    BY <1>10 DEF vars, memory, budget
  <2>2. Synced => Synced'
    BY <2>1 DEF Synced, Held, Wanted, OptOutKept
  <2> QED BY <2>1, <2>2 DEF InStep
<1> QED
  BY <1>1, <1>2, <1>3, <1>4, <1>5, <1>6, <1>7, <1>8, <1>9, <1>10 DEF Next, Starting

(* --------------------- what was taken back stays so ---------------------- *)

\* What was promised holds of these roles, subscriptions, opt-outs, setting
\* and marker; that somebody was ousted, somebody else is super admin: that
\* keeps load() from giving the seeds their roles again.
Stands(G, s, o, v, m) ==
    /\ ousted \intersect SupersOf(G) = {}
    /\ ousted # {} => SupersOf(G) # {}
    /\ declined \subseteq o \ s
    /\ cleared => v = NoValue /\ m
MemoryStands == Stands(grants, subs, OptOutKept, setting, imported)
\* Of the memory of a program that runs, and of what the next start will read.
AllStands ==
    IF phase = "down"
    THEN Stands(rows.grants, rows.subs, rows.optOut, rows.setting, rows.imported)
    ELSE MemoryStands
\* With something lost nothing is promised.
Forgotten == ~lossless => ousted = {} /\ declined = {} /\ ~cleared

LEMMA TroubleForgets ==
    ASSUME NEW harmless \in BOOLEAN, Trouble(harmless)
    PROVE  Forgotten'
<1>1. ~lossless' => ousted' = {} /\ declined' = {} /\ cleared' = FALSE
  BY DEF Trouble
<1> QED BY <1>1 DEF Forgotten

LEMMA StepForgotten == Forgotten /\ Typed /\ [Next]_vars => Forgotten'
<1> SUFFICES ASSUME Forgotten, Typed, [Next]_vars PROVE Forgotten'
  OBVIOUS
<1>1. CASE Editing
  <2>1. lossless' = lossless
    BY <1>1, EditIsOneOf DEF Edit
  <2>2. ~lossless => ousted' = {} /\ declined' = {} /\ ~cleared'
    <3>1. SUFFICES ASSUME ~lossless PROVE ousted' = {} /\ declined' = {} /\ ~cleared'
      OBVIOUS
    <3>2. ousted = {} /\ declined = {} /\ ~cleared
      BY <3>1 DEF Forgotten
    <3>3. CASE RoleEdit
      BY <3>1, <3>2, <3>3 DEF RoleEdit, Grant, Revoke, PermKept
    <3>4. CASE \E u \in Users : TopicOn(u) \/ TopicOff(u)
      BY <3>1, <3>2, <3>4 DEF TopicOn, TopicOff
    <3>5. CASE \E l \in Levels : SetTopicLevel(l)
      BY <3>1, <3>2, <3>5 DEF SetTopicLevel, history
    <3>6. CASE Clear \/ \E v \in Values : Set(v)
      BY <3>1, <3>2, <3>6 DEF Clear, Set
    <3>7. CASE RemoveDefaultOverride
      BY <3>2, <3>7 DEF RemoveDefaultOverride
    <3> QED BY <1>1, <3>3, <3>4, <3>5, <3>6, <3>7, EditIsOneOf
  <2> QED BY <2>1, <2>2 DEF Forgotten
<1>2. CASE \E ok \in SUBSET Modules : Load(ok)
  <2>1. PICK ok \in SUBSET Modules : Load(ok)
    BY <1>2
  <2>2. UNCHANGED <<history, lossless>> \/ Trouble(FALSE)
    BY <2>1 DEF Load
  <2> QED BY <2>2, TroubleForgets DEF Forgotten, history
<1>3. CASE Retrying
  <2>1. PICK op \in Users, ok \in BOOLEAN : Trouble(ok /\ queue = <<>>)
    BY <1>3 DEF Retrying, RetryPermissions, RetryNotify, RetryPlatform, Retry
  <2> DEFINE h == ok /\ queue = <<>>
  <2>2. h \in BOOLEAN /\ Trouble(h)
    BY <2>1
  <2> HIDE DEF h
  <2> QED BY <2>2, TroubleForgets
<1>4. CASE Stop
  <2> DEFINE h == queue = <<>>
  <2>1. h \in BOOLEAN /\ Trouble(h)
    BY <1>4 DEF Stop
  <2> HIDE DEF h
  <2> QED BY <2>1, TroubleForgets
<1>5. CASE WriteFails
  BY <1>5, TroubleForgets DEF WriteFails
<1>6. CASE \/ \E u \in Users : Plant(u)
           \/ Planted \/ ImportEnv \/ Serve \/ Land \/ UNCHANGED vars
  <2>1. UNCHANGED <<history, lossless>>
    BY <1>6 DEF Plant, Planted, ImportEnv, Serve, Land, vars, budget
  <2> QED BY <2>1 DEF Forgotten, history
<1> QED BY <1>1, <1>2, <1>3, <1>4, <1>5, <1>6 DEF Next, Starting

\* Loading the roles brings nobody back.
LEMMA LoadedStands ==
    ASSUME NEW G, NEW s, NEW o, NEW v, NEW m, Stands(G, s, o, v, m)
    PROVE  Stands(Loaded(G), s, o, v, m)
<1>1. CASE SupersOf(G) # {}
  BY <1>1 DEF Loaded
<1>2. CASE SupersOf(G) = {}
  BY <1>2 DEF Stands
<1> QED BY <1>1, <1>2

LEMMA RoleStands ==
    ASSUME Typed, lossless, RoleEdit, MemoryStands
    PROVE  MemoryStands'
<1>1. PICK u \in Users, role \in GroupRoles \union {"super"} :
            (Grant(role, u) \/ Revoke(role, u)) /\ PermKept
  BY DEF RoleEdit
<1>2. UNCHANGED <<subs, setting, imported, declined, cleared>> /\ OptOutKept' = OptOutKept
  BY <1>1 DEF PermKept, OptOutKept
<1>3. ousted' \intersect SupersOf(grants') = {} /\ (ousted' # {} => SupersOf(grants') # {})
  <2>1. CASE role # "super"
    <3>1. \A x \in Users : <<x, "super">> \in grants' <=> <<x, "super">> \in grants
      BY <1>1, <2>1 DEF Grant, Revoke
    <3>2. SupersOf(grants') = SupersOf(grants) /\ ousted' = ousted
      BY <1>1, <2>1, <3>1 DEF Grant, Revoke, SupersOf
    <3> QED BY <3>2 DEF MemoryStands, Stands
  <2>2. CASE role = "super" /\ Grant(role, u)
    <3>1. grants' = grants \union {<<u, "super">>} /\ ousted' = ousted \ {u}
      BY <2>2 DEF Grant
    <3>2. SupersOf(grants') = SupersOf(grants) \union {u}
      BY <3>1 DEF SupersOf
    <3> QED BY <3>1, <3>2 DEF MemoryStands, Stands
  <2>3. CASE role = "super" /\ Revoke(role, u)
    <3>1. grants' = grants \ {<<u, "super">>} /\ ousted' = ousted \union {u} /\ <<u, "super">> \in grants
      BY <2>3 DEF Revoke
    <3>2. SupersOf(grants') = SupersOf(grants) \ {u} /\ u \in SupersOf(grants)
      BY <3>1 DEF SupersOf
    <3>3. SupersOf(grants) # {u}
      BY <2>3, <3>2 DEF Revoke, MayRevoke, Supers
    <3> QED BY <3>1, <3>2, <3>3 DEF MemoryStands, Stands
  <2> QED BY <1>1, <2>1, <2>2, <2>3
<1> QED BY <1>2, <1>3 DEF MemoryStands, Stands

LEMMA TopicStands ==
    ASSUME Typed, lossless, NEW u \in Users, TopicOn(u) \/ TopicOff(u),
           MemoryStands
    PROVE  MemoryStands'
<1>1. UNCHANGED <<grants, setting, imported, ousted, cleared>>
  BY DEF TopicOn, TopicOff
<1>2. declined \subseteq OptOutKept \ subs
  BY DEF MemoryStands, Stands
<1>3. declined' \subseteq OptOutKept' \ subs'
  <2>1. CASE TopicOn(u)
    <3>1. /\ declined' = declined \ {u} /\ subs' = subs \union {u}
          /\ OptOutKept \ {u} \subseteq OptOutKept'
      BY <2>1 DEF TopicOn, Subscribe, OptOutKept
    <3> QED BY <1>2, <3>1
  <2>2. CASE TopicOff(u) /\ level >= PLATFORM_LEVEL_MIN /\ intact'
    <3>1. declined' = declined \union {u} /\ subs' = subs \ {u}
      BY <2>2 DEF TopicOff, Unsubscribe
    <3>2. u \in OptOutKept' /\ OptOutKept \subseteq OptOutKept'
      BY <2>2 DEF TopicOff, Unsubscribe, Marked, OptOutKept
    <3> QED BY <1>2, <3>1, <3>2
  <2>3. CASE TopicOff(u) /\ ~(level >= PLATFORM_LEVEL_MIN /\ intact')
    <3>1. declined' = declined /\ subs' = subs \ {u} /\ OptOutKept' = OptOutKept
      <4>1. ~Marked(u) /\ intact' = intact
        BY <2>3 DEF TopicOff, Unsubscribe, Marked, Typed, TypeOK
      <4> QED BY <2>3, <4>1 DEF TopicOff, Unsubscribe, OptOutKept
    <3> QED BY <1>2, <3>1
  <2> QED BY <2>1, <2>2, <2>3
<1> QED BY <1>1, <1>3 DEF MemoryStands, Stands

LEMMA StepStands ==
    ASSUME Typed, InStep, Forgotten, AllStands, [Next]_vars
    PROVE  AllStands'
<1>1. Forgotten'
  BY StepForgotten
<1>2. CASE ~lossless'
  BY <1>1, <1>2 DEF Forgotten, AllStands, MemoryStands, Stands
<1>3. ASSUME lossless' PROVE AllStands'
  <2>1. CASE Editing
    <3>1. phase = "serving" /\ phase' = phase /\ lossless
      BY <1>3, <2>1, EditIsOneOf DEF Edit
    <3>2. MemoryStands
      BY <3>1 DEF AllStands
    <3>3. CASE RoleEdit
      BY <3>1, <3>2, <3>3, RoleStands DEF AllStands
    <3>4. CASE \E u \in Users : TopicOn(u) \/ TopicOff(u)
      BY <3>1, <3>2, <3>4, TopicStands DEF AllStands
    <3>5. CASE \E l \in Levels : SetTopicLevel(l)
      BY <3>1, <3>2, <3>5 DEF AllStands, MemoryStands, Stands, OptOutKept, SetTopicLevel, history
    <3>6. CASE Clear \/ \E v \in Values : Set(v)
      <4>1. UNCHANGED <<grants, subs, imported, ousted, declined>> /\ OptOutKept' = OptOutKept
        <5>1. UNCHANGED <<grants, subs, optOut, intact, imported, ousted, declined>>
          BY <3>6 DEF Clear, Set
        <5> QED BY <5>1 DEF OptOutKept
      <4>2. cleared' => setting' = NoValue /\ imported
        <5>1. CASE Clear
          BY <5>1 DEF Clear, Typed, TypeOK
        <5>2. CASE \E v \in Values : Set(v)
          BY <5>2 DEF Set
        <5> QED BY <3>6, <5>1, <5>2
      <4>3. MemoryStands'
        BY <3>2, <4>1, <4>2 DEF MemoryStands, Stands
      <4> QED BY <3>1, <4>3 DEF AllStands
    <3>7. CASE RemoveDefaultOverride
      BY <3>1, <3>2, <3>7 DEF AllStands, MemoryStands, Stands, RemoveDefaultOverride
    <3> QED BY <2>1, <3>3, <3>4, <3>5, <3>6, <3>7, EditIsOneOf
  <2>2. CASE \E ok \in SUBSET Modules : Load(ok)
    <3>1. PICK ok \in SUBSET Modules : Load(ok)
      BY <2>2
    <3>2. /\ UNCHANGED history
          /\ grants' = Loaded(rows.grants) /\ subs' = rows.subs /\ OptOutKept' = rows.optOut
          /\ setting' = rows.setting /\ (imported' <=> rows.imported)
      BY <1>3, <3>1, LoadSyncs
    <3>3. phase = "down" /\ phase' = "loaded"
      BY <3>1 DEF Load
    <3>4. Stands(Loaded(rows.grants), rows.subs, rows.optOut, rows.setting, rows.imported)
      BY <3>3, LoadedStands DEF AllStands
    <3> QED BY <3>2, <3>3, <3>4 DEF AllStands, MemoryStands, Stands, history
  <2>3. CASE \E u \in Users : Plant(u)
    <3>1. PICK u \in Users : Plant(u)
      BY <2>3
    <3>2. /\ phase = "loaded" /\ UNCHANGED <<phase, grants, setting, imported, history>>
          /\ subs' = subs \union {u} /\ u \notin OptOutKept /\ OptOutKept' = OptOutKept
      BY <3>1 DEF Plant, Unplanted, Subscribe, OptOutKept
    <3> QED BY <3>2 DEF AllStands, MemoryStands, Stands, history
  <2>4. CASE ImportEnv
    <3>1. /\ phase = "seeded" /\ phase' = "imported" /\ UNCHANGED <<grants, subs, optOut, intact, history>>
          /\ UNCHANGED <<setting, imported>> \/ ~imported
      BY <2>4 DEF ImportEnv
    <3> QED BY <3>1 DEF AllStands, MemoryStands, Stands, OptOutKept, history
  <2>5. CASE Planted \/ Serve
    BY <2>5 DEF Planted, Serve, AllStands, MemoryStands, Stands, OptOutKept, memory, history
  <2>6. CASE Retrying
    <3>1. phase = "serving" /\ phase' = "serving"
      BY <2>6 DEF Retrying, RetryPermissions, RetryNotify, RetryPlatform, Retry
    <3>2. /\ UNCHANGED <<history, subs, setting>> /\ OptOutKept' = OptOutKept
          /\ grants' \in {grants, Loaded(grants)} /\ (imported' <=> imported)
      BY <1>3, <2>6, RetrySyncs
    <3>3. MemoryStands /\ Stands(Loaded(grants), subs, OptOutKept, setting, imported)
      BY <3>1, LoadedStands DEF AllStands, MemoryStands
    <3> QED BY <3>1, <3>2, <3>3 DEF AllStands, MemoryStands, Stands, history
  <2>7. CASE Land
    <3>1. phase' = phase /\ lossless /\ queue # <<>> /\ UNCHANGED <<memory, history>>
      BY <1>3, <2>7 DEF Land, budget
    <3>2. phase # "down"
      BY <3>1 DEF InStep
    <3> QED BY <3>1, <3>2 DEF AllStands, MemoryStands, Stands, OptOutKept, memory, history
  <2>8. CASE WriteFails
    BY <1>3, <2>8, TroubleTells DEF WriteFails
  <2>9. CASE Stop
    <3>1. lossless /\ queue = <<>> /\ UNCHANGED <<history, rows>> /\ phase # "down" /\ phase' = "down"
      BY <1>3, <2>9, StopLoses DEF Stop
    <3>2. /\ grants = rows.grants /\ subs = rows.subs /\ OptOutKept = rows.optOut
          /\ setting = rows.setting /\ (imported <=> rows.imported)
      BY <3>1, Drained DEF InStep
    <3> QED BY <3>1, <3>2 DEF AllStands, MemoryStands, Stands, history
  <2>10. CASE UNCHANGED vars
    BY <2>10 DEF vars, memory, history, AllStands, MemoryStands, Stands, OptOutKept
  <2> QED
    BY <2>1, <2>2, <2>3, <2>4, <2>5, <2>6, <2>7, <2>8, <2>9, <2>10 DEF Next, Starting
<1> QED BY <1>2, <1>3

LEMMA InitStands == Init => InStep /\ Forgotten /\ AllStands
BY DEF Init, InStep, Forgotten, AllStands, MemoryStands, Stands, OptOutKept

\* What an administrator took back stays taken back: a revoked super admin
\* does not return, a declined topic sends no card and a setting that was
\* imported and cleared keeps its default, through every restart, retry, change
\* of level and planting of subscriptions in which no write is lost and no load
\* fails.  A reset of the default rules, which deletes the opt-outs of the
\* database, ends what was declined, and nothing else.
THEOREM TakenBackStays == Spec => []TakenBackStands
<1>1. InStep /\ Forgotten /\ AllStands => TakenBackStands
  BY DEF AllStands, MemoryStands, Stands, TakenBackStands, RevokedStaysOut, OptOutStands,
         ClearedStaysCleared, Supers, TopicSubscribers
<1>2. Typed /\ InStep /\ Forgotten /\ AllStands /\ [Next]_vars
          => (Typed /\ InStep /\ Forgotten /\ AllStands)'
  BY StepTyped, StepInStep, StepForgotten, StepStands
<1> QED BY <1>1, <1>2, InitTyped, InitStands, PTL DEF Spec

(* ------------------------------ the console ------------------------------ *)

\* A call the page shown is waiting for.
Here(n) == calls[n] # None /\ calls[n].here
\* The pages that keep to one write of a kind.
Single  == Pages \ {"pending", "settings", "activities"}
\* The pages that hear the answers of their writes.
Hearing == Pages \ {"audit", "reports", "deliveries", "identities"}

\* What is waited for is of a page, and what a page is busy with it will hear of.
CallsAreMade ==
    \A n \in Slots :
        Here(n) => /\ calls[n].page \in Pages
                   /\ calls[n].act # "list" /\ calls[n].flag # "none" => calls[n].page \in Hearing
DialogIsHeard == tab.dialog # None => tab.page \in Hearing
ConsoleTyped == ConsoleTypeOK /\ CallsAreMade /\ DialogIsHeard

\* One write at a time: the page shown waits only for its own calls, is busy
\* with each of them, and its dialog asks about a write.
HereIsShown == \A n \in Slots : Here(n) => calls[n].page = tab.page /\ tab.page \in Pages
BusyWithIt ==
    \A n \in Slots :
        Here(n) /\ calls[n].page \in Single
        => /\ calls[n].flag \notin Groups
           /\ calls[n].flag # "none" => calls[n].flag \in tab.busy
DialogAsks ==
    tab.dialog # None => /\ tab.dialog.how = "ask" /\ tab.dialog.flag \notin Groups
                         /\ tab.dialog.act # "list" /\ tab.page \in Pages
WritesInv == HereIsShown /\ BusyWithIt /\ DialogAsks /\ OneWriteAtATime

\* Granted offers: a tab that is current knows the account, shows a group it
\* may pick, and what it calls for or asks about in a dialog the server grants
\* (Granted).  Each call keeps that from when it was offered (FairWell).
TabKnows ==
    /\ current /\ identity # None => identity = account
    /\ tab.page \in Pages => identity # None
GroupIsChosen ==
    tab.page \in Pages /\ Linked(tab.page) => tab.group \in Begins(tab.page) \cup Choices(tab.page)
Granted(p, act, g) ==
    (g # None \/ account.super) /\ ~(p = "audit" /\ act = "export")
    => IF act = "list" THEN ListRead(p, account, g) = "ok" ELSE MayWrite(p, account, act, g)
FairWell(c) ==
    c.fair => /\ current /\ c.here /\ Linked(c.page) /\ Granted(c.page, c.act, c.group)
              /\ (c.group # None \/ account.super) /\ ~(c.page = "audit" /\ c.act = "export")
                 => c.status \notin {"forbidden", "bad"}
CallsAreFair == \A n \in Slots : calls[n] # None => FairWell(calls[n])
DialogIsGranted ==
    tab.dialog # None /\ current /\ Linked(tab.page)
    => Granted(tab.page, tab.dialog.act, tab.dialog.group)
\* The announcements page looks at no permission when it draws its rows: they
\* and its calls are of groups the account manages, by how it picks the group.
InOurs(rs) == \A r \in rs : r.group \in Manageable
OursCalled(c) == c.here => c.group \in Manageable /\ InOurs(c.rows)
OursAnnounced ==
    tab.page = "announcements" =>
        /\ tab.view => Manageable # {}
        /\ InOurs(tab.rows)
        /\ tab.dialog # None => tab.dialog.group \in Manageable
        /\ \A n \in Slots : calls[n] # None => OursCalled(calls[n])
GrantsInv == TabKnows /\ GroupIsChosen /\ CallsAreFair /\ DialogIsGranted /\ OursAnnounced

\* The store and the history agree.
SessionsAgree ==
    \A s \in Sids : /\ store[s] # None => store[s] = used[s]
                    /\ used[s] # None => used[s] <= now

-----------------------------------------------------------------------------
(* Types *)

USE DEF Slots, Sids

LEMMA CallIsTyped ==
    ASSUME ConsoleTypeOK, NEW p \in Pages, NEW act \in Acts, NEW g \in Places, NEW flag \in Flags
    PROVE  Call(p, act, g, flag) \in CallType
  <1>1. Cookie \in Sids \cup {None}
        BY DEF ConsoleTypeOK, Cookie
  <1>2. (current /\ Linked(p)) \in BOOLEAN
        OBVIOUS
  <1> QED BY <1>1, <1>2 DEF Call, CallType

LEMMA LeftIsTyped ==
    ASSUME NEW c \in CallType
    PROVE  /\ Left(c) \in CallType
           /\ ~Left(c).here /\ ~Left(c).fair /\ Left(c).flag = "none" /\ Left(c).page = "left"
           /\ Left(c).status = c.status
  <1>1. "none" \in Flags /\ None \in Places
        BY DEF Flags, FlagNames, Places
  <1>2. (IF ToTab(c) THEN "list" ELSE c.act) \in Acts
        BY DEF CallType, Acts
  <1> QED BY <1>1, <1>2 DEF Left, CallType

LEMMA OrphansAreTyped ==
    ASSUME ConsoleTypeOK
    PROVE  /\ Orphaned \in [Slots -> CallType \cup {None}]
           /\ \A n \in Slots : Orphaned[n] # None => calls[n] # None /\ Orphaned[n] = Left(calls[n])
           /\ \A n \in Slots : Orphaned[n] # None => ~Orphaned[n].here /\ ~Orphaned[n].fair
  <1>1. \A n \in Slots : calls[n] # None => Left(calls[n]) \in CallType /\ ~Left(calls[n]).here
                                            /\ ~Left(calls[n]).fair
        BY LeftIsTyped DEF ConsoleTypeOK
  <1> QED BY <1>1 DEF Orphaned, Unheard

LEMMA BlankIsTyped ==
    ASSUME NEW p \in Pages \cup {"login", "starting", "dashboard"}, NEW g \in Places
    PROVE  Blank(p, g) \in TabType
  BY DEF Blank, TabType

LEMMA ManageableIsTyped ==
    ASSUME identity \in Accounts \cup {None}
    PROVE  GroupOptions \subseteq Groups /\ Manageable \subseteq Groups /\ Reviewable \subseteq Groups
  BY DEF GroupOptions, Told, Manageable, Reviewable

LEMMA GroupsAreTyped ==
    ASSUME identity \in Accounts \cup {None}, NEW p \in Pages
    PROVE  Begins(p) \subseteq Places /\ Choices(p) \subseteq Places
  <1> USE ManageableIsTyped DEF Places
  <1>1. Begins(p) \subseteq Places
        BY DEF Begins, SuperOr, OneOf
  <1>2. Choices(p) \subseteq Places
        BY DEF Choices
  <1> QED BY <1>1, <1>2

-----------------------------------------------------------------------------
(* What can be pressed *)

\* What every offer is, whichever page makes it.
WellOffered(o, p) ==
    /\ o \in Offered /\ o.act # "list"
    /\ o.how = "direct" /\ p \in Single => o.flag \notin tab.busy
    /\ o.how = "link" => o.flag = "none"
    /\ o.flag \in Groups => p = "activities" /\ o.how = "direct"
    /\ p \in {"audit", "reports"} => o.how = "link"

LEMMA PendingOffered ==
    ASSUME NEW o \in PendingOffers
    PROVE  \/ \E g \in Shown : LevelIn(g) >= Moderator /\ Idle("syncing") /\ o = Direct("sync", g, "syncing")
           \/ \E act \in {"approve", "reject"} : \E r \in RowsAt(GroupAdmin) : o = Ask(act, r.group, "busy")
  BY DEF PendingOffers

LEMMA AppealsOffered ==
    ASSUME NEW o \in AppealsOffers
    PROVE  \E act \in {"accept", "dismiss"} : \E r \in RowsAt(Moderator) : o = Ask(act, r.group, "busy")
  BY DEF AppealsOffers, Open

LEMMA PunishmentsOffered ==
    ASSUME NEW o \in PunishmentsOffers
    PROVE  \/ \E act \in {"release", "mute", "ban"} : \E r \in RowsAt(Moderator) : o = Ask(act, r.group, "busy")
           \/ IsSuper /\ \E r \in tab.rows : o = Ask("banEverywhere", r.group, "busy")
  BY DEF PunishmentsOffers, Open

LEMMA ActivitiesOffered ==
    ASSUME NEW o \in ActivitiesOffers
    PROVE  \/ \E g \in Manageable : Idle("creating") /\ o = Direct("create", g, "creating")
           \/ \E act \in {"set", "bind", "open"} : \E r \in RowsAt(GroupAdmin) : o = Direct(act, r.group, r.group)
           \/ \E r \in RowsAt(GroupAdmin) : o = Link("export", r.group)
  BY DEF ActivitiesOffers

LEMMA AnnouncementsOffered ==
    ASSUME NEW o \in AnnouncementsOffers
    PROVE  \/ tab.view /\ Idle("busy") /\ o = Direct("create", tab.group, "busy")
           \/ Idle("busy") /\ \E r \in tab.rows : o = Direct("update", r.group, "busy")
           \/ \E act \in {"send", "remove"} : \E r \in tab.rows : o = Ask(act, r.group, "busy")
  BY DEF AnnouncementsOffers

LEMMA RulesOffered ==
    \A o \in RulesOffers :
       \/ \E act \in {"update", "batch", "reset", "resetAll"} : \E g \in Shown :
             LevelIn(g) >= GroupAdmin /\ o = Ask(act, g, act)
       \/ \E g \in Shown :
             LevelIn(g) >= GroupAdmin /\ Idle("keywords") /\ o = Direct("keywords", g, "keywords")
  BY DEF RulesOffers

LEMMA PermissionsOffered ==
    ASSUME NEW o \in PermissionsOffers
    PROVE  IsSuper /\ \E act \in {"grant", "revoke"} : o = Ask(act, Default, "saving")
  BY DEF PermissionsOffers, Platform

LEMMA WellMade ==
    ASSUME NEW p, p \notin {"audit", "reports"}
    PROVE  /\ \A act \in Acts \ {"list"}, g \in Places, flag \in FlagNames :
                 WellOffered(Ask(act, g, flag), p)
           /\ \A act \in Acts \ {"list"}, g \in Places, flag \in FlagNames :
                 Idle(flag) \/ p \notin Single => WellOffered(Direct(act, g, flag), p)
  <1>1. FlagNames \cap Groups = {} /\ FlagNames \subseteq Flags
        BY ConsoleConstants DEF Flags
  <1> QED BY <1>1 DEF WellOffered, Ask, Direct, Idle, Offered

LEMMA LinkWellMade ==
    \A p : \A act \in Acts \ {"list"}, g \in Places : WellOffered(Link(act, g), p)
  <1>1. "none" \in Flags /\ "none" \notin Groups
        BY ConsoleConstants DEF Flags, FlagNames
  <1> QED BY <1>1 DEF WellOffered, Link, Offered

LEMMA OffersAreTyped ==
    ASSUME ConsoleTypeOK, NEW o \in Offers
    PROVE  /\ WellOffered(o, tab.page) /\ tab.page \in Pages
           /\ tab.page \notin Hearing => o.how = "link"
  <1> DEFINE p == tab.page
  <1>0. /\ {"sync", "approve", "reject", "accept", "dismiss", "release", "mute", "ban",
             "banEverywhere"} \subseteq Acts \ {"list"}
        /\ {"create", "update", "set", "bind", "open", "send", "remove", "export"} \subseteq Acts \ {"list"}
        /\ {"batch", "keywords", "reset", "resetAll", "update"} \subseteq Acts \ {"list"}
        /\ {"busy", "syncing", "creating", "update", "batch", "keywords", "reset", "resetAll"}
               \subseteq FlagNames
        BY DEF Acts, FlagNames
  <1>1. /\ tab.group \in Places /\ Default \in Places /\ Groups \subseteq Places
        /\ \A r \in tab.rows : r.group \in Places
        /\ Manageable \subseteq Groups
        BY ManageableIsTyped DEF ConsoleTypeOK, TabType, Rows, Places
  <1>2. /\ Shown \subseteq Places
        /\ \A lvl : RowsAt(lvl) \subseteq tab.rows
        /\ \A lvl : Open(RowsAt(lvl)) \subseteq tab.rows
        BY <1>1 DEF Shown, RowsAt, Open
  <1>3. CASE p = "pending"
        <2>1. \/ \E g \in Shown : LevelIn(g) >= Moderator /\ Idle("syncing") /\ o = Direct("sync", g, "syncing")
              \/ \E act \in {"approve", "reject"} : \E r \in RowsAt(GroupAdmin) : o = Ask(act, r.group, "busy")
              BY <1>3, PendingOffered DEF Offers
        <2>2. p \in Pages /\ p \in Hearing /\ p \notin {"audit", "reports"}
              BY <1>3 DEF Hearing, Pages, GroupPages, PlatformPages
        <2>3. Idle("syncing") => \A g \in Shown : WellOffered(Direct("sync", g, "syncing"), p)
              BY <1>0, <1>2, <2>2, WellMade
        <2>4. \A act \in {"approve", "reject"} : \A r \in tab.rows : WellOffered(Ask(act, r.group, "busy"), p)
              BY <1>0, <1>1, <2>2, WellMade
        <2> QED BY <1>2, <2>1, <2>2, <2>3, <2>4
  <1>4. CASE p = "appeals"
        <2>1. \E act \in {"accept", "dismiss"} : \E r \in RowsAt(Moderator) : o = Ask(act, r.group, "busy")
              BY <1>4, AppealsOffered DEF Offers
        <2>2. p \in Pages /\ p \in Hearing /\ p \notin {"audit", "reports"}
              BY <1>4 DEF Hearing, Pages, GroupPages, PlatformPages
        <2>3. \A act \in {"accept", "dismiss"} : \A r \in tab.rows : WellOffered(Ask(act, r.group, "busy"), p)
              BY <1>0, <1>1, <2>2, WellMade
        <2> QED BY <1>2, <2>1, <2>2, <2>3
  <1>5. CASE p = "punishments"
        <2>1. \/ \E act \in {"release", "mute", "ban"} : \E r \in RowsAt(Moderator) : o = Ask(act, r.group, "busy")
              \/ IsSuper /\ \E r \in tab.rows : o = Ask("banEverywhere", r.group, "busy")
              BY <1>5, PunishmentsOffered DEF Offers
        <2>2. \A act \in {"release", "mute", "ban", "banEverywhere"} : \A r \in tab.rows :
                 WellOffered(Ask(act, r.group, "busy"), p)
              BY <1>0, <1>1, <1>5, WellMade
        <2> QED BY <2>1, <2>2, <1>2, <1>5 DEF Hearing, Pages, GroupPages
  <1>6. CASE p = "blacklist"
        <2>1. o \in BlacklistOffers
              BY <1>6 DEF Offers
        <2> QED BY <2>1, <1>6, <1>1, <1>2, WellMade DEF BlacklistOffers, Acts, FlagNames, Hearing, Pages, GroupPages, PlatformPages
  <1>7. CASE p = "activities"
        <2>1. \/ \E g \in Manageable : Idle("creating") /\ o = Direct("create", g, "creating")
              \/ \E act \in {"set", "bind", "open"} : \E r \in RowsAt(GroupAdmin) : o = Direct(act, r.group, r.group)
              \/ \E r \in RowsAt(GroupAdmin) : o = Link("export", r.group)
              BY <1>7, ActivitiesOffered DEF Offers
        <2>2. \A act \in {"set", "bind", "open"} : \A r \in tab.rows :
                 WellOffered(Direct(act, r.group, r.group), p)
              <3>1. \A r \in tab.rows : r.group \in Flags
                    BY DEF ConsoleTypeOK, TabType, Rows, Flags
              <3> QED BY <3>1, <1>0, <1>1, <1>7, ConsoleConstants
                      DEF WellOffered, Direct, Offered, Single, FlagNames
        <2>3. \A g \in Manageable : WellOffered(Direct("create", g, "creating"), p)
              BY <1>0, <1>1, <1>7, WellMade DEF Single
        <2>4. \A r \in tab.rows : WellOffered(Link("export", r.group), p)
              BY <1>0, <1>1, LinkWellMade
        <2> QED BY <2>1, <2>2, <2>3, <2>4, <1>2, <1>7 DEF Hearing, Pages, GroupPages
  <1>8. CASE p = "announcements"
        <2>1. \/ tab.view /\ Idle("busy") /\ o = Direct("create", tab.group, "busy")
              \/ Idle("busy") /\ \E r \in tab.rows : o = Direct("update", r.group, "busy")
              \/ \E act \in {"send", "remove"} : \E r \in tab.rows : o = Ask(act, r.group, "busy")
              BY <1>8, AnnouncementsOffered DEF Offers
        <2>2. p \in Pages /\ p \in Hearing /\ p \notin {"audit", "reports"}
              BY <1>8 DEF Hearing, Pages, GroupPages, PlatformPages
        <2>3. /\ Idle("busy") => WellOffered(Direct("create", tab.group, "busy"), p)
              /\ Idle("busy") => \A r \in tab.rows : WellOffered(Direct("update", r.group, "busy"), p)
              BY <1>0, <1>1, <2>2, WellMade
        <2>4. \A act \in {"send", "remove"} : \A r \in tab.rows : WellOffered(Ask(act, r.group, "busy"), p)
              BY <1>0, <1>1, <2>2, WellMade
        <2> QED BY <2>1, <2>2, <2>3, <2>4
  <1>9. CASE p = "rules"
        <2>0. o \in RulesOffers
              BY <1>9 DEF Offers
        <2>1. \/ \E act \in {"update", "batch", "reset", "resetAll"} : \E g \in Shown : LevelIn(g) >= GroupAdmin /\ o = Ask(act, g, act)
              \/ \E g \in Shown : LevelIn(g) >= GroupAdmin /\ Idle("keywords") /\ o = Direct("keywords", g, "keywords")
              BY <2>0, RulesOffered
        <2>2. p \in Pages /\ p \in Hearing /\ p \notin {"audit", "reports"}
              BY <1>9 DEF Hearing, Pages, GroupPages
        <2>3. \A act \in {"update", "batch", "reset", "resetAll"} : \A g \in Shown :
                 WellOffered(Ask(act, g, act), p)
              <3>1. {"update", "batch", "reset", "resetAll"} \subseteq (Acts \ {"list"}) \cap FlagNames
                    BY <1>0
              <3> QED BY <1>2, <2>2, <3>1, WellMade
        <2>4. Idle("keywords") => \A g \in Shown : WellOffered(Direct("keywords", g, "keywords"), p)
              <3>1. "keywords" \in Acts \ {"list"} /\ "keywords" \in FlagNames
                    BY <1>0
              <3> QED BY <1>2, <2>2, <3>1, WellMade
        <2> QED BY <2>1, <2>2, <2>3, <2>4
  <1>10. CASE p = "notify"
        <2>1. o \in NotifyOffers
              BY <1>10 DEF Offers
        <2> QED BY <2>1, <1>10, <1>1, <1>2, WellMade DEF NotifyOffers, Acts, FlagNames, Hearing, Pages, GroupPages, PlatformPages, Platform
  <1>11. CASE p = "status"
        <2>1. o \in StatusOffers
              BY <1>11 DEF Offers
        <2> QED BY <2>1, <1>11, <1>1, <1>2, WellMade DEF StatusOffers, Acts, FlagNames, Hearing, Pages, GroupPages, PlatformPages, Platform
  <1>12. CASE p = "settings"
        <2>1. o = Direct("set", Default, "saving") \/ o = Direct("clear", Default, "saving")
              BY <1>12 DEF Offers, SettingsOffers, Platform
        <2>2. p \in Pages /\ p \in Hearing /\ p \notin {"audit", "reports"}
              BY <1>12 DEF Hearing, Pages, GroupPages, PlatformPages
        <2>3. p \notin Single /\ {"set", "clear"} \subseteq Acts \ {"list"} /\ "saving" \in FlagNames
              BY <1>12 DEF Single, Acts, FlagNames
        <2> QED BY <1>1, <2>1, <2>2, <2>3, WellMade
  <1>13. CASE p = "permissions"
        <2>1. \E act \in {"grant", "revoke"} : o = Ask(act, Default, "saving")
              BY <1>13, PermissionsOffered DEF Offers
        <2>2. {"grant", "revoke"} \subseteq Acts \ {"list"} /\ "saving" \in FlagNames
              BY DEF Acts, FlagNames
        <2> QED BY <2>1, <2>2, <1>13, <1>1, WellMade DEF Hearing, Pages, PlatformPages
  <1>14. CASE p = "aliases"
        <2>1. o \in AliasesOffers
              BY <1>14 DEF Offers
        <2> QED BY <2>1, <1>14, <1>1, <1>2, WellMade DEF AliasesOffers, Acts, FlagNames, Hearing, Pages, GroupPages, PlatformPages, Platform
  <1>15. CASE p = "audit"
        <2>1. o = Link("export", tab.group) \/ o = Link("exportInFull", tab.group)
              BY <1>15 DEF Offers, AuditOffers
        <2>2. {"export", "exportInFull"} \subseteq Acts \ {"list"}
              BY DEF Acts
        <2>3. o.how = "link"
              BY <2>1 DEF Link
        <2> QED BY <2>1, <2>2, <2>3, <1>15, <1>1, LinkWellMade DEF Pages, GroupPages
  <1>16. CASE p = "reports"
        <2>1. o = Link("export", tab.group) \/ o = Link("exportInFull", tab.group)
              BY <1>16 DEF Offers, ReportsOffers
        <2>2. {"export", "exportInFull"} \subseteq Acts \ {"list"}
              BY DEF Acts
        <2>3. o.how = "link"
              BY <2>1 DEF Link
        <2> QED BY <2>1, <2>2, <2>3, <1>16, <1>1, LinkWellMade DEF Pages, GroupPages
  <1> QED BY <1>3, <1>4, <1>5, <1>6, <1>7, <1>8, <1>9, <1>10, <1>11, <1>12, <1>13, <1>14, <1>15, <1>16 DEF Offers

-----------------------------------------------------------------------------
(* What the server answers and the tab makes of it *)

LEMMA ListsAreTyped ==
    ASSUME NEW p \in Pages, NEW a, NEW g \in Places, NEW open \in SUBSET Groups
    PROVE  /\ ListRead(p, a, g) \in {"ok", "forbidden", "bad"}
           /\ ListRows(p, a, g, open) \subseteq Rows
  <1> DEFINE statuses == {"ok", "forbidden", "bad"}
  <1>1. \A granted : Answer(granted) \in statuses
        BY DEF Answer
  <1>2. \A lvl : GroupRead(a, g, lvl) \in statuses /\ ScopedRead(a, g, lvl) \in statuses
        BY <1>1 DEF GroupRead, ScopedRead
  <1>3. PlatformRead(a) \in statuses /\ \A answers : All(answers) \in statuses
        BY <1>1 DEF PlatformRead, All
  <1>4. ListRead(p, a, g) \in statuses
        BY <1>2, <1>3
           DEF ListRead, Pages, GroupPages, PlatformPages, PunishmentsRead, BlacklistRead, AppealsRead,
               DeliveriesRead, AnnouncementsRead, AliasesRead, AuditRead, RulesRead, ReportsRead,
               PermissionsRead, IdentitiesRead, SettingsRead
  <1>5. ASSUME NEW gs \in SUBSET Groups, NEW os
        PROVE  RowsOf(gs, os) \subseteq Rows
        <2>1. ASSUME NEW h \in gs
              PROVE  [group |-> h, open |-> h \in os] \in Rows
              <3> DEFINE b == h \in os
              <3>1. b \in BOOLEAN
                    OBVIOUS
              <3> HIDE DEF b
              <3>2. [group |-> h, open |-> b] \in Rows
                    BY <3>1 DEF Rows
              <3> QED BY <3>2 DEF b
        <2> QED BY <2>1 DEF RowsOf
  <1>6. Asked(g) \subseteq Groups /\ GlobalRow \in Rows
        BY DEF Asked, GlobalRow, Rows
  <1>7. /\ PendingRows(a, g, open) \subseteq Rows /\ ActivityRows(a, g, open) \subseteq Rows
        /\ PunishmentRows(g, open) \subseteq Rows /\ AppealRows(g, open) \subseteq Rows
        /\ BlacklistRows(a, g, open) \subseteq Rows /\ RuleRows(g, open) \subseteq Rows
        BY <1>5, <1>6
           DEF PendingRows, ActivityRows, PunishmentRows, AppealRows, BlacklistRows, RuleRows
  <1>8. AnnouncementRows(g) \subseteq Rows
        BY <1>5, <1>6 DEF AnnouncementRows
  <1> QED BY <1>4, <1>7, <1>8 DEF ListRows

\* What hearing the answer to a write does to the page, whichever page it is.
HeardWell(h, c) ==
    /\ h.tab \in TabType /\ h.again \in BOOLEAN
    /\ h.tab.page = tab.page /\ h.tab.group = tab.group
    /\ h.tab.dialog \in {None, tab.dialog}
    /\ h.again => /\ h.tab.busy = tab.busy /\ c.page # "announcements"
                  /\ Asks(c.page, tab.group) \/ c.page = "status"
    /\ c.flag \notin Groups => tab.busy \ {c.flag} \subseteq h.tab.busy
    /\ h.tab.rows \in {tab.rows, c.rows, {}}

LEMMA HearsAreTyped ==
    ASSUME ConsoleTypeOK, NEW c \in CallType, c.page \in Hearing
    PROVE  HeardWell(Hears(c), c)
  <1> DEFINE Well(t) == /\ t \in TabType /\ t.page = tab.page /\ t.group = tab.group
                        /\ t.dialog \in {None, tab.dialog} /\ t.rows \in {tab.rows, c.rows, {}}
             Kept(t) == t.busy = tab.busy
             Less(t) == c.flag \notin Groups => tab.busy \ {c.flag} \subseteq t.busy
  <1>1. /\ tab \in TabType /\ tab.rows \in SUBSET Rows /\ c.rows \in SUBSET Rows
        /\ Well(tab) /\ Kept(tab) /\ Less(tab)
        BY DEF ConsoleTypeOK, TabType, CallType
  <1>2. ASSUME NEW t, Well(t)
        PROVE  Well(Freed(t, c)) /\ Well(Shut(t, c))
        BY <1>2 DEF Freed, Shut, TabType
  <1>3. ASSUME NEW t, Well(t), Kept(t)
        PROVE  Less(Freed(t, c)) /\ Kept(Shut(t, c)) /\ Less(Shut(t, c))
        BY <1>3 DEF Freed, Shut, TabType
  <1>4. ASSUME NEW t, Well(t), Less(t)
        PROVE  Less(Shut(t, c))
        BY <1>4 DEF Shut, TabType
  <1>5. ASSUME NEW t, Well(t)
        PROVE  /\ Well([t EXCEPT !.loading = TRUE]) /\ Well([t EXCEPT !.view = FALSE, !.rows = {}])
               /\ Well([t EXCEPT !.rows = c.rows, !.view = TRUE])
               /\ Kept(t) => Kept([t EXCEPT !.loading = TRUE]) /\ Kept([t EXCEPT !.rows = c.rows, !.view = TRUE])
               /\ Less(t) => Less([t EXCEPT !.view = FALSE, !.rows = {}])
        BY <1>5, <1>1 DEF TabType
  <1> DEFINE Good(h) == /\ Well(h.tab) /\ Less(h.tab) /\ h.again \in BOOLEAN
                        /\ h.again => /\ Kept(h.tab) /\ c.page # "announcements"
                                      /\ Asks(c.page, tab.group) \/ c.page = "status"
  <1>0. Well([tab EXCEPT !.dialog = None]) /\ Kept([tab EXCEPT !.dialog = None])
        BY <1>1 DEF TabType
  <1> HIDE DEF Well, Kept, Less
  <1>6. ASSUME NEW t, Well(t), Kept(t), c.page # "announcements"
        PROVE  Good(Relisted(t, c))
        <2>1. Well(Freed(tab, c)) /\ Less(Freed(tab, c))
              BY <1>1, <1>2, <1>3
        <2>2. Well([t EXCEPT !.loading = TRUE]) /\ Kept([t EXCEPT !.loading = TRUE])
              BY <1>6, <1>5
        <2>3. Less([t EXCEPT !.loading = TRUE])
              BY <2>2 DEF Kept, Less
        <2>4. Well(Freed(t, c)) /\ Less(Freed(t, c))
              BY <1>6, <1>2, <1>3
        <2>5. /\ Well([Freed(t, c) EXCEPT !.view = FALSE, !.rows = {}])
              /\ Less([Freed(t, c) EXCEPT !.view = FALSE, !.rows = {}])
              BY <2>4, <1>5
        <2> QED BY <1>6, <2>1, <2>2, <2>3, <2>5 DEF Relisted
  <1>7. Good(Showing(c)) /\ Good([Showing(c) EXCEPT !.tab = Shut(@, c)])
        BY <1>1, <1>2, <1>3, <1>4, <1>5 DEF Showing
  <1>8. Good(AnnouncementsHears(c))
        <2> DEFINE d == IF c.act = "send" THEN [c EXCEPT !.status = "sent"] ELSE c
        <2>1. d.rows = c.rows /\ d.flag = c.flag
              BY DEF CallType
        <2>2. \A t : Freed(t, d) = Freed(t, c)
              BY <2>1 DEF Freed
        <2> HIDE DEF d
        <2>3. Good([Showing(d) EXCEPT !.tab = Shut(@, c)])
              BY <2>1, <2>2, <1>1, <1>2, <1>3, <1>4, <1>5 DEF Showing
        <2> QED BY <2>3 DEF AnnouncementsHears, d
  <1>9. c.page = "status" => Good(StatusHears(c))
        BY <1>1, <1>2, <1>3, <1>4 DEF StatusHears
  <1>10. Good(SettingsHears(c))
        BY <1>1, <1>2, <1>3 DEF SettingsHears
  <1>11. Good(NotifyHears(c)) /\ Good(AliasesHears(c))
        BY <1>7 DEF NotifyHears, AliasesHears
  <1>12. c.page # "announcements" => Good(Relisting(c)) /\ Good(PunishmentsHears(c))
        <2>1. Well(Shut(tab, c)) /\ Kept(Shut(tab, c))
              BY <1>1, <1>2, <1>3
        <2> HIDE DEF Good
        <2>2. c.page # "announcements" => Good(Relisting(c))
              BY <2>1, <1>6 DEF Relisting
        <2> QED BY <1>0, <1>6, <2>2 DEF PunishmentsHears
  <1> HIDE DEF Good
  <1>13. Good(Hears(c))
        BY <1>12, <1>8, <1>9, <1>10, <1>11
           DEF Hears, Hearing, Pages, GroupPages, PlatformPages, PendingHears, AppealsHears,
               BlacklistHears, ActivitiesHears, RulesHears, PermissionsHears
  <1> QED BY <1>13 DEF Good, Well, Kept, Less, HeardWell

-----------------------------------------------------------------------------
(* Every step keeps the types. *)

LEMMA TouchIsTyped ==
    ASSUME ConsoleTypeOK, NEW s \in Sids, Touch(s)
    PROVE  /\ store' \in [Sids -> Nat \cup {None}] /\ used' \in [Sids -> Nat \cup {None}]
           /\ closed' \subseteq Sids
  BY DEF ConsoleTypeOK, Touch, Touched

LEMMA CreateIsTyped ==
    ASSUME ConsoleTypeOK, NEW s \in Sids, Create(s)
    PROVE  /\ store' \in [Sids -> Nat \cup {None}] /\ used' \in [Sids -> Nat \cup {None}]
           /\ closed' \subseteq Sids
  <1> DEFINE st == [Pruned EXCEPT ![s] = now]
  <1>1. st \in [Sids -> Nat \cup {None}]
        BY DEF ConsoleTypeOK, Pruned
  <1>2. store' = st \/ \E v \in Sids : store' = Without(st, v)
        BY DEF Create, Evicted, Live
  <1>3. store' \in [Sids -> Nat \cup {None}]
        BY <1>1, <1>2 DEF Without
  <1> QED BY <1>3 DEF ConsoleTypeOK, Create

\* What the calls are that a tab has when it has left its page.
LEMMA OrphansAreMade ==
    ASSUME ConsoleTypeOK, calls' = Orphaned, tab'.dialog = None
    PROVE  calls' \in [Slots -> CallType \cup {None}] /\ CallsAreMade' /\ DialogIsHeard'
  BY OrphansAreTyped DEF CallsAreMade, DialogIsHeard, Here

LEMMA OpenPageTyped ==
    ASSUME ConsoleTyped, NEW p \in Pages \cup {"dashboard"}, OpenPage(p)
    PROVE  ConsoleTyped'
  <1> USE DEF ConsoleTyped
  <1>1. PICK g \in Begins(p) :
            LET asks == p \in Pages /\ Asks(p, g)
            IN  /\ tab' = [Blank(p, g) EXCEPT !.loading = asks]
                /\ calls' = IF asks THEN [Orphaned EXCEPT ![Slot] = Call(p, "list", g, "none")]
                            ELSE Orphaned
        BY DEF OpenPage
  <1>2. g \in Places
        <2>1. CASE p \in Pages
              BY <2>1, GroupsAreTyped DEF ConsoleTypeOK
        <2>2. CASE p = "dashboard"
              BY <2>2 DEF Begins, Places
        <2> QED BY <2>1, <2>2
  <1>3. tab' \in TabType /\ tab'.dialog = None
        BY <1>1, <1>2, BlankIsTyped DEF Blank, TabType
  <1>4. p \in Pages => Call(p, "list", g, "none") \in CallType
        BY <1>2, CallIsTyped DEF Acts, Flags, FlagNames
  <1>5. calls' \in [Slots -> CallType \cup {None}]
        BY <1>1, <1>4, OrphansAreTyped
  <1>6. CallsAreMade'
        BY <1>1, OrphansAreTyped DEF CallsAreMade, Here, Call
  <1>7. events' \in Nat /\ events <= events' /\ events' <= MaxEvents
        BY ConsoleConstants DEF OpenPage, Event, ConsoleTypeOK
  <1> QED BY <1>3, <1>5, <1>6, <1>7 DEF OpenPage, ConsoleTypeOK, DialogIsHeard, sessions

LEMMA ChooseTyped ==
    ASSUME ConsoleTyped, NEW g \in Groups \cup {Default, None}, Choose(g)
    PROVE  ConsoleTyped'
  <1> USE DEF ConsoleTyped
  <1>1. tab.page \in Pages /\ g \in Places
        BY DEF Choose, Places
  <1>2. tab' \in TabType /\ tab'.dialog = None
        BY <1>1 DEF Choose, ConsoleTypeOK, TabType
  <1>3. Call(tab.page, "list", g, "none") \in CallType
        BY <1>1, CallIsTyped DEF Acts, Flags, FlagNames
  <1>4. calls' \in [Slots -> CallType \cup {None}]
        BY <1>3 DEF Choose, ConsoleTypeOK
  <1>5. CallsAreMade'
        BY <1>1 DEF Choose, CallsAreMade, Here, Call, ConsoleTypeOK
  <1>6. events' \in Nat /\ events <= events' /\ events' <= MaxEvents
        BY ConsoleConstants DEF Choose, Event, ConsoleTypeOK
  <1> QED BY <1>2, <1>4, <1>5, <1>6 DEF Choose, ConsoleTypeOK, DialogIsHeard, sessions

\* A write that is sent, at once or from a dialog.
LEMMA SendTyped ==
    ASSUME ConsoleTyped, NEW o \in Offered, Send(o), tab.page \in Pages,
           o.how # "link" => tab.page \in Hearing, o.how = "link" => o.flag = "none"
    PROVE  /\ tab' \in TabType /\ calls' \in [Slots -> CallType \cup {None}]
           /\ CallsAreMade' /\ DialogIsHeard'
           /\ tab'.page = tab.page /\ tab'.dialog \in {None, tab.dialog}
  <1> USE DEF ConsoleTyped
  <1>1. o.act \in Acts /\ o.group \in Places /\ o.flag \in Flags
        BY DEF Offered
  <1>2. tab' \in TabType /\ tab'.page = tab.page /\ tab'.dialog \in {None, tab.dialog}
        BY <1>1 DEF Send, Sent, ConsoleTypeOK, TabType
  <1>3. Call(tab.page, o.act, o.group, o.flag) \in CallType
        BY <1>1, CallIsTyped
  <1>4. calls' \in [Slots -> CallType \cup {None}]
        BY <1>3 DEF Send, ConsoleTypeOK
  <1>5. CallsAreMade'
        BY DEF Send, CallsAreMade, Here, Call, ConsoleTypeOK
  <1> QED BY <1>2, <1>4, <1>5 DEF DialogIsHeard

LEMMA PressTyped ==
    ASSUME ConsoleTyped, NEW o \in Offers, Press(o)
    PROVE  ConsoleTyped'
  <1> USE DEF ConsoleTyped
  <1>1. WellOffered(o, tab.page) /\ tab.page \in Pages /\ (o.how # "link" => tab.page \in Hearing)
        BY OffersAreTyped
  <1>2. o \in Offered /\ (o.how = "link" => o.flag = "none")
        BY <1>1 DEF WellOffered
  <1>3. CASE o.how = "ask"
        <2>1. tab' = Opened(o) /\ UNCHANGED <<calls, events>>
              BY <1>3 DEF Press
        <2>2. tab' \in TabType /\ tab'.page = tab.page
              BY <1>2, <2>1 DEF Opened, ConsoleTypeOK, TabType
        <2>3. CallsAreMade' /\ DialogIsHeard'
              BY <1>1, <1>3, <2>1, <2>2 DEF CallsAreMade, DialogIsHeard, Here
        <2> QED BY <2>1, <2>2, <2>3 DEF Press, ConsoleTypeOK, sessions
  <1>4. CASE o.how # "ask"
        <2>1. Send(o) /\ Event
              BY <1>4 DEF Press
        <2>2. events' \in Nat /\ events <= events' /\ events' <= MaxEvents
              BY <2>1, ConsoleConstants DEF Event, ConsoleTypeOK
        <2> QED BY <1>1, <1>2, <2>1, <2>2, SendTyped DEF Press, ConsoleTypeOK, sessions
  <1> QED BY <1>3, <1>4

LEMMA ConfirmTyped ==
    ASSUME ConsoleTyped, DialogAsks, Confirm
    PROVE  ConsoleTyped'
  <1> USE DEF ConsoleTyped
  <1>1. tab.dialog \in Offered /\ tab.dialog.how = "ask" /\ tab.page \in Hearing
        BY DEF Confirm, DialogAsks, DialogIsHeard, ConsoleTypeOK, TabType
  <1>2. tab.page \in Pages
        BY <1>1 DEF Hearing
  <1>3. events' \in Nat /\ events <= events' /\ events' <= MaxEvents
        BY ConsoleConstants DEF Confirm, Event, ConsoleTypeOK
  <1> QED BY <1>1, <1>2, <1>3, SendTyped DEF Confirm, ConsoleTypeOK, sessions

LEMMA EscapeTyped ==
    ASSUME ConsoleTyped, Escape
    PROVE  ConsoleTyped'
  <1>1. tab' \in TabType /\ tab'.dialog = None
        BY DEF Escape, ConsoleTyped, ConsoleTypeOK, TabType
  <1> QED BY <1>1 DEF Escape, ConsoleTyped, ConsoleTypeOK, CallsAreMade, DialogIsHeard, Here, sessions

LEMMA CookieIsTyped ==
    ASSUME ConsoleTypeOK
    PROVE  Cookie \in Sids \cup {None}
  BY DEF ConsoleTypeOK, Cookie

LEMMA LoginTyped ==
    ASSUME ConsoleTyped, Login
    PROVE  ConsoleTyped'
  <1> USE DEF ConsoleTyped
  <1>1. PICK s \in Fresh(Mine) : Create(s) /\ cookie' = [sid |-> s, till |-> now + Ttl]
        BY DEF Login
  <1>2. s \in Sids
        BY DEF Fresh
  <1>3. cookie' \in [sid : Sids, till : Nat] \cup {None}
        BY <1>1, <1>2, ConsoleConstants DEF ConsoleTypeOK
  <1>4. tab' \in TabType /\ tab'.dialog = None
        BY BlankIsTyped DEF Login, Blank, Places
  <1>5. events' \in Nat /\ events <= events' /\ events' <= MaxEvents
        BY ConsoleConstants DEF Login, Event, ConsoleTypeOK
  <1>6. CallsAreMade' /\ DialogIsHeard'
        BY <1>4 DEF Login, CallsAreMade, DialogIsHeard, Here
  <1> QED BY <1>1, <1>2, <1>3, <1>4, <1>5, <1>6, CreateIsTyped DEF Login, ConsoleTypeOK

LEMMA ReloadTyped ==
    ASSUME ConsoleTyped, Reload
    PROVE  ConsoleTyped'
  <1> USE DEF ConsoleTyped
  <1>1. tab' \in TabType /\ tab'.dialog = None
        BY BlankIsTyped DEF Reload, Blank, Places
  <1>2. events' \in Nat /\ events <= events' /\ events' <= MaxEvents
        BY ConsoleConstants DEF Reload, Event, ConsoleTypeOK
  <1>3. calls' \in [Slots -> CallType \cup {None}] /\ CallsAreMade' /\ DialogIsHeard'
        BY <1>1, OrphansAreMade DEF Reload
  <1>4. /\ store' \in [Sids -> Nat \cup {None}] /\ used' \in [Sids -> Nat \cup {None}]
        /\ closed' \subseteq Sids
        <2>1. CASE Cookie = None
              BY <2>1 DEF Reload, sessions, ConsoleTypeOK
        <2>2. CASE Cookie # None
              BY <2>2, CookieIsTyped, TouchIsTyped DEF Reload
        <2> QED BY <2>1, <2>2
  <1>5. identity' \in Accounts \cup {None} /\ current' \in BOOLEAN
        BY DEF Reload, ConsoleTypeOK
  <1> QED BY <1>1, <1>2, <1>3, <1>4, <1>5 DEF Reload, ConsoleTypeOK

LEMMA SignOutTyped ==
    ASSUME ConsoleTyped, SignOut
    PROVE  ConsoleTyped'
  <1> USE DEF ConsoleTyped
  <1>1. tab' \in TabType /\ tab'.dialog = None
        BY BlankIsTyped DEF SignOut, Blank, Places
  <1>2. events' \in Nat /\ events <= events' /\ events' <= MaxEvents
        BY ConsoleConstants DEF SignOut, Event, ConsoleTypeOK
  <1>3. calls' \in [Slots -> CallType \cup {None}] /\ CallsAreMade' /\ DialogIsHeard'
        BY <1>1, OrphansAreMade DEF SignOut
  <1>4. /\ store' \in [Sids -> Nat \cup {None}] /\ used' \in [Sids -> Nat \cup {None}]
        /\ closed' \subseteq Sids /\ cookie' \in [sid : Sids, till : Nat] \cup {None}
        <2>1. CASE /\ Accepted(Cookie)
                   /\ store' = [store EXCEPT ![Cookie] = None]
                   /\ used' = [used EXCEPT ![Cookie] = now]
                   /\ closed' = closed \cup {Cookie}
                   /\ cookie' = None
              BY <2>1, CookieIsTyped DEF Accepted, ConsoleTypeOK
        <2>2. CASE Cookie # None /\ Touch(Cookie) /\ UNCHANGED cookie
              BY <2>2, CookieIsTyped, TouchIsTyped DEF ConsoleTypeOK
        <2>3. CASE UNCHANGED <<sessions, cookie>>
              BY <2>3 DEF sessions, ConsoleTypeOK
        <2> QED BY <2>1, <2>2, <2>3 DEF SignOut
  <1>5. identity' \in Accounts \cup {None} /\ current' \in BOOLEAN
        BY DEF SignOut, ConsoleTypeOK
  <1> QED BY <1>1, <1>2, <1>3, <1>4, <1>5 DEF SignOut, ConsoleTypeOK

\* An answer changes nothing else of a call.
LEMMA AnswerIsTyped ==
    ASSUME ConsoleTyped, NEW n \in Slots, calls[n] # None,
           NEW status \in {"ok", "failed", "gone", "forbidden", "bad"}, NEW rs \in SUBSET Rows,
           Answered(n, status, rs)
    PROVE  /\ calls' \in [Slots -> CallType \cup {None}] /\ CallsAreMade'
           /\ calls' = [calls EXCEPT ![n] = calls'[n]]
           /\ calls'[n] = [calls[n] EXCEPT !.back = TRUE, !.status = status, !.rows = rs]
  <1> USE DEF ConsoleTyped
  <1> DEFINE d == [calls[n] EXCEPT !.back = TRUE, !.status = status, !.rows = rs]
  <1>1. calls[n] \in CallType
        BY DEF ConsoleTypeOK
  <1>2. d \in CallType
        BY <1>1 DEF CallType
  <1>3. calls' = [calls EXCEPT ![n] = d]
        BY DEF Answered, ConsoleTypeOK
  <1>4. d.here = calls[n].here /\ d.page = calls[n].page /\ d.act = calls[n].act
        /\ d.flag = calls[n].flag
        BY <1>1 DEF CallType
  <1> HIDE DEF d
  <1>5. CallsAreMade'
        BY <1>3, <1>4 DEF CallsAreMade, Here, ConsoleTypeOK
  <1>6. calls' = [calls EXCEPT ![n] = calls'[n]]
        BY <1>3 DEF ConsoleTypeOK
  <1> QED BY <1>2, <1>3, <1>5, <1>6 DEF ConsoleTypeOK, d

\* What serving a call may do to it.
ServedAs(n) ==
    \/ calls' = [calls EXCEPT ![n] = None]
    \/ \E status \in {"ok", "failed", "gone", "forbidden", "bad"}, rs \in SUBSET Rows :
          /\ Answered(n, status, rs)
          /\ \/ status = "gone" /\ rs = {}
             \/ /\ calls[n].here /\ calls[n].page \in Pages
                /\ status \in Outcomes(calls[n]) /\ rs \in Payload(calls[n], status)

LEMMA ServeCallServes ==
    ASSUME ConsoleTyped, NEW n \in Slots, ServeCall(n)
    PROVE  ServedAs(n) /\ calls[n] # None
  <1> USE DEF ConsoleTyped
  <1> DEFINE c == calls[n]
  <1>1. c # None /\ c \in CallType
        BY DEF ServeCall, ConsoleTypeOK
  <1>2. CASE Answered(n, "gone", {})
        BY <1>1, <1>2 DEF ServedAs
  <1>3. CASE calls' = [calls EXCEPT ![n] = None]
        BY <1>1, <1>3 DEF ServedAs
  <1>4. ASSUME c.here, NEW status \in Outcomes(c), NEW rs \in Payload(c, status),
               Answered(n, status, rs)
        PROVE  ServedAs(n)
        <2>1. c.page \in Pages /\ c.group \in Places
              BY <1>1, <1>4 DEF CallsAreMade, Here, CallType
        <2>2. status \in {"ok", "failed", "gone", "forbidden", "bad"}
              BY <2>1, ListsAreTyped DEF Outcomes
        <2>3. rs \in SUBSET Rows
              <3>1. rs = {} \/ \E open \in SUBSET Groups : rs = ListRows(c.page, account, c.group, open)
                    <4>1. CASE status # "ok" \/ ~(c.act = "list" \/ c.page = "announcements")
                          BY <4>1 DEF Payload
                    <4>2. CASE ~(status # "ok" \/ ~(c.act = "list" \/ c.page = "announcements"))
                          BY <4>2 DEF Payload
                    <4> QED BY <4>1, <4>2
              <3>2. \A open \in SUBSET Groups : ListRows(c.page, account, c.group, open) \subseteq Rows
                    BY <2>1, ListsAreTyped
              <3> QED BY <3>1, <3>2
        <2> QED BY <1>4, <2>1, <2>2, <2>3 DEF ServedAs
  <1> QED BY <1>1, <1>2, <1>3, <1>4 DEF ServeCall

LEMMA ServeCallTyped ==
    ASSUME ConsoleTyped, NEW n \in Slots, ServeCall(n)
    PROVE  ConsoleTyped'
  <1> USE DEF ConsoleTyped
  <1>1. calls[n] # None /\ ServedAs(n)
        BY ServeCallServes
  <1>2. calls' \in [Slots -> CallType \cup {None}] /\ CallsAreMade'
        <2>1. CASE calls' = [calls EXCEPT ![n] = None]
              BY <2>1 DEF ConsoleTypeOK, CallsAreMade, Here
        <2> QED BY <1>1, <2>1, AnswerIsTyped DEF ServedAs
  <1>3. /\ store' \in [Sids -> Nat \cup {None}] /\ used' \in [Sids -> Nat \cup {None}]
        /\ closed' \subseteq Sids
        <2>1. CASE calls[n].sid = None
              BY <2>1 DEF ServeCall, sessions, ConsoleTypeOK
        <2>2. CASE calls[n].sid # None
              BY <1>1, <2>2, TouchIsTyped DEF ServeCall, ConsoleTypeOK, CallType
        <2> QED BY <2>1, <2>2
  <1> QED BY <1>2, <1>3 DEF ServeCall, ConsoleTypeOK, DialogIsHeard

LEMMA LoseTyped ==
    ASSUME ConsoleTyped, NEW n \in Slots, Lose(n)
    PROVE  ConsoleTyped'
  <1> USE DEF ConsoleTyped
  <1>1. calls' \in [Slots -> CallType \cup {None}] /\ CallsAreMade'
        <2>1. calls[n] # None /\ Answered(n, "failed", {}) /\ {} \in SUBSET Rows
              BY DEF Lose
        <2> QED BY <2>1, AnswerIsTyped
  <1>2. events' \in Nat /\ events <= events' /\ events' <= MaxEvents
        BY ConsoleConstants DEF Lose, Event, ConsoleTypeOK
  <1> QED BY <1>1, <1>2 DEF Lose, ConsoleTypeOK, DialogIsHeard, sessions

\* What hearing an answer may do: to be sent away, nothing, to show a list, to
\* pick the group of the permissions, to go on after a write.
HeardAs(n) ==
    LET c == calls[n]
    IN  \/ SentAway(n)
        \/ (~c.here \/ ~ToTab(c)) /\ calls' = [calls EXCEPT ![n] = None] /\ UNCHANGED tab
        \/ c.here /\ tab' = Listed(c) /\ calls' = [calls EXCEPT ![n] = None]
        \/ /\ c.here /\ c.page = "permissions"
           /\ \E g \in Groups :
                 /\ tab' = [Listed(c) EXCEPT !.group = g, !.loading = TRUE, !.busy = tab.busy]
                 /\ calls' = [calls EXCEPT ![n] = Call(c.page, "list", g, c.flag)]
        \/ /\ c.here /\ c.act # "list" /\ c.flag # "none"
           /\ tab' = Hears(c).tab
           /\ calls' = IF Hears(c).again THEN Again(n, c) ELSE [calls EXCEPT ![n] = None]

LEMMA HearHears ==
    ASSUME NEW n \in Slots, Hear(n)
    PROVE  HeardAs(n) /\ calls[n] # None
  BY DEF Hear, HeardAs, ToTab

LEMMA HearTyped ==
    ASSUME ConsoleTyped, NEW n \in Slots, Hear(n)
    PROVE  ConsoleTyped'
  <1> USE DEF ConsoleTyped
  <1> DEFINE c == calls[n]
  <1>1. c # None /\ c \in CallType /\ HeardAs(n)
        BY HearHears DEF ConsoleTypeOK
  <1>2. c.group \in Places /\ c.flag \in Flags /\ c.rows \in SUBSET Rows
        BY <1>1 DEF CallType
  <1>3. Listed(c) \in TabType /\ Listed(c).page = tab.page /\ Listed(c).dialog = tab.dialog
        BY <1>2 DEF Listed, ConsoleTypeOK, TabType
  <1> SUFFICES tab' \in TabType /\ calls' \in [Slots -> CallType \cup {None}]
               /\ CallsAreMade' /\ DialogIsHeard'
      BY DEF Hear, ConsoleTypeOK, sessions
  <1>4. CASE SentAway(n)
        <2>1. tab' \in TabType /\ (tab' = tab \/ tab'.dialog = None)
              BY <1>4, BlankIsTyped DEF SentAway, ConsoleTypeOK, Blank, Places
        <2>2. calls' \in [Slots -> CallType \cup {None}] /\ CallsAreMade'
              BY <1>4, OrphansAreTyped DEF SentAway, CallsAreMade, Here
        <2> QED BY <2>1, <2>2 DEF DialogIsHeard
  <1>5. CASE calls' = [calls EXCEPT ![n] = None] /\ UNCHANGED tab
        BY <1>5 DEF ConsoleTypeOK, CallsAreMade, DialogIsHeard, Here
  <1>6. CASE tab' = Listed(c) /\ calls' = [calls EXCEPT ![n] = None]
        BY <1>3, <1>6 DEF ConsoleTypeOK, CallsAreMade, DialogIsHeard, Here
  <1>7. ASSUME c.here, c.page = "permissions", NEW g \in Groups,
               tab' = [Listed(c) EXCEPT !.group = g, !.loading = TRUE, !.busy = tab.busy],
               calls' = [calls EXCEPT ![n] = Call(c.page, "list", g, c.flag)]
        PROVE  /\ tab' \in TabType /\ calls' \in [Slots -> CallType \cup {None}]
               /\ CallsAreMade' /\ DialogIsHeard'
        <2>1. c.page \in Pages /\ g \in Places
              BY <1>1, <1>7 DEF CallsAreMade, Here, Places
        <2>2. tab' \in TabType /\ tab'.page = tab.page /\ tab'.dialog = tab.dialog
              BY <1>3, <1>7, <2>1 DEF TabType, ConsoleTypeOK
        <2>3. Call(c.page, "list", g, c.flag) \in CallType
              BY <1>2, <2>1, CallIsTyped DEF Acts
        <2>4. calls' \in [Slots -> CallType \cup {None}]
              BY <1>7, <2>3 DEF ConsoleTypeOK
        <2>5. CallsAreMade'
              BY <1>7, <2>1 DEF CallsAreMade, Here, Call, ConsoleTypeOK
        <2> QED BY <2>2, <2>4, <2>5 DEF DialogIsHeard
  <1>8. CASE /\ c.here /\ c.act # "list" /\ c.flag # "none"
             /\ tab' = Hears(c).tab
             /\ calls' = IF Hears(c).again THEN Again(n, c) ELSE [calls EXCEPT ![n] = None]
        <2>1. c.page \in Hearing /\ c.page \in Pages
              BY <1>1, <1>8 DEF CallsAreMade, Here
        <2>2. HeardWell(Hears(c), c)
              BY <1>1, <2>1, HearsAreTyped
        <2>3. tab' \in TabType /\ tab'.page = tab.page /\ tab'.dialog \in {None, tab.dialog}
              BY <1>8, <2>2 DEF HeardWell
        <2>4. Call(c.page, "list", tab.group, c.flag) \in CallType
              BY <1>2, <2>1, CallIsTyped DEF Acts, ConsoleTypeOK, TabType
        <2>5. calls' \in [Slots -> CallType \cup {None}]
              BY <1>8, <2>4 DEF ConsoleTypeOK, Again
        <2>6. CallsAreMade'
              BY <1>8, <2>1 DEF CallsAreMade, Here, Call, ConsoleTypeOK, Again
        <2> QED BY <2>3, <2>5, <2>6 DEF DialogIsHeard
  <1> QED BY <1>1, <1>4, <1>5, <1>6, <1>7, <1>8 DEF HeardAs

LEMMA OthersTyped ==
    ASSUME ConsoleTyped,
           \/ OtherLogin \/ (\E s \in Others : OtherUses(s)) \/ Restart
           \/ (\E a \in Accounts : Regrade(a)) \/ Tick
    PROVE  ConsoleTyped'
  <1> USE DEF ConsoleTyped
  <1>1. Event => events' \in Nat /\ events <= events' /\ events' <= MaxEvents /\ events' = events + 1
        BY ConsoleConstants DEF Event, ConsoleTypeOK
  <1>2. CASE OtherLogin
        <2>1. PICK s \in Fresh(Others) : Create(s)
              BY <1>2 DEF OtherLogin
        <2>2. s \in Sids
              BY DEF Fresh
        <2> QED BY <1>1, <1>2, <2>1, <2>2, CreateIsTyped
                DEF OtherLogin, ConsoleTypeOK, CallsAreMade, DialogIsHeard, Here
  <1>3. CASE \E s \in Others : OtherUses(s)
        BY <1>1, <1>3, TouchIsTyped DEF OtherUses, ConsoleTypeOK, CallsAreMade, DialogIsHeard, Here
  <1>4. CASE Restart
        BY <1>1, <1>4 DEF Restart, Live, ConsoleTypeOK, CallsAreMade, DialogIsHeard, Here
  <1>5. CASE \E a \in Accounts : Regrade(a)
        <2>1. PICK a \in Accounts : Regrade(a)
              BY <1>5
        <2>2. \A c \in CallType : /\ [c EXCEPT !.fair = FALSE] \in CallType
                                  /\ [c EXCEPT !.fair = FALSE].here = c.here
                                  /\ [c EXCEPT !.fair = FALSE].page = c.page
                                  /\ [c EXCEPT !.fair = FALSE].act = c.act
                                  /\ [c EXCEPT !.fair = FALSE].flag = c.flag
              BY DEF CallType
        <2>3. calls' \in [Slots -> CallType \cup {None}] /\ CallsAreMade'
              <3>1. \A k \in Slots :
                       calls'[k] = IF calls[k] = None THEN None ELSE [calls[k] EXCEPT !.fair = FALSE]
                    BY <2>1 DEF Regrade
              <3>2. \A k \in Slots : calls[k] # None => calls[k] \in CallType
                    BY DEF ConsoleTypeOK
              <3>3. calls' \in [Slots -> CallType \cup {None}]
                    BY <2>1, <2>2, <3>2 DEF Regrade
              <3>4. CallsAreMade'
                    <4>1. ASSUME NEW k \in Slots, calls'[k] # None
                          PROVE  /\ calls[k] # None /\ calls'[k].here = calls[k].here
                                 /\ calls'[k].page = calls[k].page /\ calls'[k].act = calls[k].act
                                 /\ calls'[k].flag = calls[k].flag
                          BY <2>2, <3>1, <3>2, <4>1
                    <4> QED BY <4>1 DEF CallsAreMade, Here
              <3> QED BY <3>3, <3>4
        <2>4. /\ account' \in Accounts /\ current' \in BOOLEAN
              /\ UNCHANGED <<now, store, closed, used, cookie, identity, tab>> /\ Event
              BY <2>1 DEF Regrade, sessions
        <2> QED BY <1>1, <2>3, <2>4 DEF ConsoleTypeOK, DialogIsHeard
  <1>6. CASE Tick
        BY <1>1, <1>6 DEF Tick, ConsoleTypeOK, CallsAreMade, DialogIsHeard, Here, sessions
  <1> QED BY <1>2, <1>3, <1>4, <1>5, <1>6

LEMMA TypedHolds ==
    ConsoleInit => ConsoleTyped
  <1> SUFFICES ASSUME ConsoleInit PROVE ConsoleTyped
      OBVIOUS
  <1>1. tab \in TabType /\ tab.dialog = None
        BY BlankIsTyped DEF ConsoleInit, Blank, Places
  <1>2. /\ store \in [Sids -> Nat \cup {None}] /\ used \in [Sids -> Nat \cup {None}]
        /\ cookie \in [sid : Sids, till : Nat] \cup {None}
        BY ConsoleConstants DEF ConsoleInit
  <1> QED BY <1>1, <1>2, ConsoleConstants
          DEF ConsoleInit, ConsoleTyped, ConsoleTypeOK, CallsAreMade, DialogIsHeard, Here

-----------------------------------------------------------------------------
(* One write of a kind at a time *)

\* Nothing is under way for the page shown.
LEMMA NothingHere ==
    ASSUME \A n \in Slots : calls'[n] = None \/ ~calls'[n].here, tab'.dialog = None
    PROVE  WritesInv'
  BY DEF WritesInv, HereIsShown, BusyWithIt, DialogAsks, OneWriteAtATime, Here

\* The page stays, and one call changes: the page is busy with what it was busy
\* with for the others, and with that one.
LEMMA OneCallChanges ==
    ASSUME WritesInv, NEW k, tab'.page = tab.page, DialogAsks',
           \A n \in Slots \ {k} :
              calls'[n] # None /\ calls'[n].here
              => Here(n) /\ calls'[n].page = calls[n].page /\ calls'[n].flag = calls[n].flag,
           k \in Slots /\ calls'[k] # None /\ calls'[k].here
              => /\ calls'[k].page = tab.page /\ tab.page \in Pages
                 /\ tab.page \in Single =>
                       /\ calls'[k].flag \notin Groups
                       /\ calls'[k].flag # "none" =>
                             /\ calls'[k].flag \in tab'.busy
                             /\ \A n \in Slots \ {k} : Here(n) => calls[n].flag # calls'[k].flag,
           tab.page \in Single =>
              \A n \in Slots \ {k} :
                 Here(n) /\ calls[n].flag # "none" => calls[n].flag \in tab'.busy
    PROVE  WritesInv'
  <1> USE DEF WritesInv
  <1>1. ASSUME NEW n \in Slots, Here(n)'
        PROVE  calls'[n].page = tab'.page /\ tab'.page \in Pages
        <2>1. CASE n = k
              BY <1>1, <2>1 DEF Here
        <2>2. CASE n # k
              BY <1>1, <2>2 DEF Here, HereIsShown
        <2> QED BY <2>1, <2>2
  <1>2. ASSUME NEW n \in Slots, Here(n)', calls'[n].page \in Single
        PROVE  /\ calls'[n].flag \notin Groups
               /\ calls'[n].flag # "none" => calls'[n].flag \in tab'.busy
        <2>1. tab.page \in Single
              BY <1>1, <1>2
        <2>2. CASE n = k
              BY <1>2, <2>1, <2>2 DEF Here
        <2>3. CASE n # k
              BY <1>2, <2>1, <2>3 DEF Here, BusyWithIt
        <2> QED BY <2>2, <2>3
  <1>3. ASSUME NEW m \in Slots, NEW n \in Slots, m # n, Here(m)', Here(n)',
               calls'[m].flag = calls'[n].flag, calls'[m].flag # "none",
               calls'[m].page \notin {"pending", "settings", "activities"}
        PROVE  FALSE
        <2>1. tab.page \in Single
              BY <1>1, <1>3 DEF Single
        <2>2. CASE m # k /\ n # k
              BY <1>3, <2>2 DEF Here, OneWriteAtATime
        <2>3. CASE m = k
              BY <1>3, <2>1, <2>3 DEF Here
        <2>4. CASE n = k
              BY <1>3, <2>1, <2>4 DEF Here
        <2> QED BY <2>2, <2>3, <2>4
  <1>4. HereIsShown' /\ BusyWithIt'
        BY <1>1, <1>2 DEF HereIsShown, BusyWithIt
  <1>5. OneWriteAtATime'
        BY <1>3 DEF OneWriteAtATime, Here
  <1> QED BY <1>4, <1>5

LEMMA OpenPageWrites ==
    ASSUME ConsoleTyped, NEW p \in Pages \cup {"dashboard"}, OpenPage(p)
    PROVE  WritesInv'
  <1>1. PICK g \in Begins(p) :
            LET asks == p \in Pages /\ Asks(p, g)
            IN  /\ tab' = [Blank(p, g) EXCEPT !.loading = asks]
                /\ calls' = IF asks THEN [Orphaned EXCEPT ![Slot] = Call(p, "list", g, "none")]
                            ELSE Orphaned
        BY DEF OpenPage
  <1>2. tab'.page = p /\ tab'.dialog = None
        BY <1>1 DEF Blank
  <1>3. CASE calls' = Orphaned
        BY <1>2, <1>3, NothingHere, OrphansAreTyped DEF ConsoleTyped
  <1>4. CASE p \in Pages /\ calls' = [Orphaned EXCEPT ![Slot] = Call(p, "list", g, "none")]
        <2>1. \A n \in Slots : Here(n)' => n = Slot /\ calls'[n] = Call(p, "list", g, "none")
              BY <1>4, OrphansAreTyped DEF ConsoleTyped, Here
        <2>2. \A n \in Slots : Here(n)' => n = Slot /\ calls'[n].page = p /\ calls'[n].flag = "none"
              BY <2>1 DEF Call
        <2>3. "none" \notin Groups
              BY ConsoleConstants DEF FlagNames
        <2> QED BY <1>2, <1>4, <2>2, <2>3
                DEF WritesInv, HereIsShown, BusyWithIt, DialogAsks, OneWriteAtATime, Here
  <1> QED BY <1>1, <1>3, <1>4

LEMMA ChooseWrites ==
    ASSUME ConsoleTyped, WritesInv, NEW g \in Groups \cup {Default, None}, Choose(g)
    PROVE  WritesInv'
  <1>1. tab.page \in Pages /\ tab'.page = tab.page /\ tab'.dialog = None /\ tab'.busy = tab.busy
        BY DEF Choose, ConsoleTyped, ConsoleTypeOK, TabType
  <1>2. "none" \notin Groups
        BY ConsoleConstants DEF FlagNames
  <1>3. CASE calls' = calls
        BY <1>1, <1>3 DEF WritesInv, HereIsShown, BusyWithIt, DialogAsks, OneWriteAtATime, Here
  <1>4. CASE calls' = [calls EXCEPT ![Slot] = Call(tab.page, "list", g, "none")]
        <2>1. \A n \in Slots \ {Slot} : calls'[n] = calls[n]
              BY <1>4 DEF ConsoleTyped, ConsoleTypeOK
        <2>2. Slot \in Slots => calls'[Slot].page = tab.page /\ calls'[Slot].flag = "none"
              BY <1>4 DEF ConsoleTyped, ConsoleTypeOK, Call
        <2>3. tab.page \in Single => \A n \in Slots : Here(n) /\ calls[n].flag # "none" => calls[n].flag \in tab.busy
              BY DEF WritesInv, HereIsShown, BusyWithIt
        <2> QED BY <1>1, <1>2, <2>1, <2>2, <2>3, OneCallChanges DEF DialogAsks, Here
  <1> QED BY <1>3, <1>4 DEF Choose

\* A write that was not under way is sent.
LEMMA SendWrites ==
    ASSUME ConsoleTyped, WritesInv, NEW o \in Offered, Send(o), tab.page \in Pages,
           o.how = "link" => o.flag = "none",
           tab.page \in Single => o.flag \notin Groups /\ (o.flag # "none" => o.flag \notin tab.busy),
           DialogAsks'
    PROVE  WritesInv'
  <1>1. tab'.page = tab.page
        BY DEF Send, Sent, ConsoleTyped, ConsoleTypeOK, TabType
  <1>2. tab.page \in Single => tab.busy \subseteq tab'.busy /\ (o.flag # "none" => o.flag \in tab'.busy)
        BY DEF Send, Sent, ConsoleTyped, ConsoleTypeOK, TabType
  <1>3. calls' = [calls EXCEPT ![Slot] = Call(tab.page, o.act, o.group, o.flag)]
        BY DEF Send
  <1>4. \A n \in Slots \ {Slot} : calls'[n] = calls[n]
        BY <1>3 DEF ConsoleTyped, ConsoleTypeOK
  <1>5. Slot \in Slots => calls'[Slot].page = tab.page /\ calls'[Slot].flag = o.flag
        BY <1>3 DEF ConsoleTyped, ConsoleTypeOK, Call
  <1>6. tab.page \in Single => \A n \in Slots : Here(n) /\ calls[n].flag # "none" => calls[n].flag \in tab.busy
        BY DEF WritesInv, HereIsShown, BusyWithIt
  <1> QED BY <1>1, <1>2, <1>4, <1>5, <1>6, OneCallChanges DEF Here

LEMMA PressWrites ==
    ASSUME ConsoleTyped, WritesInv, NEW o \in Offers, Press(o)
    PROVE  WritesInv'
  <1>1. WellOffered(o, tab.page) /\ tab.page \in Pages
        BY OffersAreTyped DEF ConsoleTyped
  <1>2. CASE o.how = "ask"
        <2>1. tab' = Opened(o) /\ UNCHANGED calls
              BY <1>2 DEF Press
        <2>2. tab'.page = tab.page /\ tab'.dialog = o /\ (tab.page # "pending" => tab'.busy = tab.busy)
              BY <2>1 DEF Opened, ConsoleTyped, ConsoleTypeOK, TabType
        <2>3. DialogAsks'
              BY <1>1, <1>2, <2>2 DEF DialogAsks, WellOffered
        <2> QED BY <2>1, <2>2, <2>3 DEF WritesInv, HereIsShown, BusyWithIt, OneWriteAtATime, Here, Single
  <1>3. CASE o.how # "ask"
        <2>1. Send(o) /\ tab.dialog = None
              BY <1>3 DEF Press
        <2>2. DialogAsks'
              BY <2>1 DEF Send, Sent, DialogAsks, ConsoleTyped, ConsoleTypeOK, TabType
        <2>3. /\ o \in Offered /\ (o.how = "link" => o.flag = "none")
              /\ tab.page \in Single => o.flag \notin Groups /\ (o.flag # "none" => o.flag \notin tab.busy)
              BY <1>1, <1>3 DEF WellOffered, Single, Offered
        <2> QED BY <1>1, <2>1, <2>2, <2>3, SendWrites
  <1> QED BY <1>2, <1>3

LEMMA ConfirmWrites ==
    ASSUME ConsoleTyped, WritesInv, Confirm
    PROVE  WritesInv'
  <1>1. /\ tab.dialog \in Offered /\ tab.dialog # None /\ DialogAsks /\ tab.page \in Pages
        /\ Send(tab.dialog) /\ tab.dialog.flag \notin tab.busy
        BY DEF Confirm, WritesInv, DialogAsks, ConsoleTyped, ConsoleTypeOK, TabType, Idle
  <1>2. DialogAsks'
        BY <1>1 DEF Send, Sent, DialogAsks, ConsoleTyped, ConsoleTypeOK, TabType
  <1> QED BY <1>1, <1>2, SendWrites DEF DialogAsks

LEMMA ServeWrites ==
    ASSUME ConsoleTyped, WritesInv, NEW n \in Slots, ServeCall(n) \/ Lose(n)
    PROVE  WritesInv'
  <1>1. tab' = tab
        BY DEF ServeCall, Lose
  <1>2. \/ calls' = [calls EXCEPT ![n] = None]
        \/ /\ calls[n] # None
           /\ \E status \in {"ok", "failed", "gone", "forbidden", "bad"}, rs \in SUBSET Rows :
                 Answered(n, status, rs)
        BY ServeCallServes DEF ServedAs, Lose
  <1>3. \/ calls' = [calls EXCEPT ![n] = None]
        \/ /\ calls[n] # None
           /\ calls' = [calls EXCEPT ![n] = calls'[n]]
           /\ calls'[n].here = calls[n].here /\ calls'[n].page = calls[n].page
           /\ calls'[n].flag = calls[n].flag
        <2>1. ASSUME calls[n] # None, NEW status \in {"ok", "failed", "gone", "forbidden", "bad"},
                     NEW rs \in SUBSET Rows, Answered(n, status, rs)
              PROVE  /\ calls' = [calls EXCEPT ![n] = calls'[n]]
                     /\ calls'[n].here = calls[n].here /\ calls'[n].page = calls[n].page
                     /\ calls'[n].flag = calls[n].flag
              <3>1. calls[n] \in CallType
                    BY <2>1 DEF ConsoleTyped, ConsoleTypeOK
              <3>2. calls' = [calls EXCEPT ![n] = [calls[n] EXCEPT !.back = TRUE, !.status = status,
                                                                   !.rows = rs]]
                    BY <2>1, <3>1 DEF Answered, ConsoleTyped, ConsoleTypeOK
              <3> QED BY <3>1, <3>2 DEF CallType, ConsoleTyped, ConsoleTypeOK
        <2> QED BY <1>2, <2>1
  <1>4. \A k \in Slots : calls'[k] # None /\ calls'[k].here
                          => /\ Here(k) /\ calls'[k].page = calls[k].page
                             /\ calls'[k].flag = calls[k].flag
        BY <1>3 DEF Here, ConsoleTyped, ConsoleTypeOK
  <1> QED BY <1>1, <1>4
          DEF WritesInv, HereIsShown, BusyWithIt, DialogAsks, OneWriteAtATime, Here

LEMMA HearWrites ==
    ASSUME ConsoleTyped, WritesInv, NEW n \in Slots, Hear(n)
    PROVE  WritesInv'
  <1> DEFINE c == calls[n]
  <1>1. c # None /\ c \in CallType /\ HeardAs(n)
        BY HearHears DEF ConsoleTyped, ConsoleTypeOK
  <1>2. /\ tab \in TabType
        /\ \A k \in Slots \ {n} : c.here /\ Here(k) /\ tab.page \in Single /\ c.flag # "none"
                                 => calls[k].flag # c.flag
        /\ tab.page \in Single => \A k \in Slots : Here(k) /\ calls[k].flag # "none" => calls[k].flag \in tab.busy
        /\ c.here => c.page = tab.page /\ (tab.page \in Single => c.flag \notin Groups)
        BY <1>1 DEF WritesInv, OneWriteAtATime, HereIsShown, BusyWithIt, Here, Single, ConsoleTyped, ConsoleTypeOK
  <1>3. CASE SentAway(n)
        <2>1. \A k \in Slots : calls'[k] = None \/ ~calls'[k].here
              BY <1>3, OrphansAreTyped DEF SentAway, ConsoleTyped
        <2>2. CASE tab'.dialog = None
              BY <2>1, <2>2, NothingHere
        <2>3. CASE tab' = tab
              BY <2>1, <2>3 DEF WritesInv, HereIsShown, BusyWithIt, DialogAsks, OneWriteAtATime, Here
        <2> QED BY <1>3, <2>2, <2>3 DEF SentAway, Blank
  <1>4. CASE calls' = [calls EXCEPT ![n] = None] /\ UNCHANGED tab
        BY <1>4 DEF WritesInv, HereIsShown, BusyWithIt, DialogAsks, OneWriteAtATime, Here, ConsoleTyped, ConsoleTypeOK
  <1>5. ASSUME c.here, tab'.page = tab.page, tab'.dialog \in {None, tab.dialog},
               calls' = [calls EXCEPT ![n] = None],
               c.flag \notin Groups => tab.busy \ {c.flag} \subseteq tab'.busy
        PROVE  WritesInv'
        <2>1. DialogAsks'
              BY <1>5 DEF WritesInv, DialogAsks
        <2>2. calls'[n] = None /\ \A k \in Slots \ {n} : calls'[k] = calls[k]
              BY <1>5 DEF ConsoleTyped, ConsoleTypeOK
        <2>3. tab.page \in Single =>
                 \A k \in Slots \ {n} : Here(k) /\ calls[k].flag # "none" => calls[k].flag \in tab'.busy
              BY <1>2, <1>5
        <2> QED BY <1>5, <2>1, <2>2, <2>3, OneCallChanges DEF Here
  <1>6. ASSUME c.here, tab'.page = tab.page, tab'.dialog \in {None, tab.dialog},
               NEW g, calls' = [calls EXCEPT ![n] = Call(c.page, "list", g, c.flag)],
               tab'.busy = tab.busy
        PROVE  WritesInv'
        <2>1. DialogAsks'
              BY <1>6 DEF WritesInv, DialogAsks
        <2>2. /\ calls'[n].page = c.page /\ calls'[n].flag = c.flag
              /\ \A k \in Slots \ {n} : calls'[k] = calls[k]
              BY <1>6 DEF ConsoleTyped, ConsoleTypeOK, Call
        <2>3. c.page = tab.page /\ tab.page \in Pages
              BY <1>1, <1>6 DEF WritesInv, HereIsShown, Here
        <2>4. tab.page \in Single /\ c.flag # "none" => c.flag \in tab.busy
              BY <1>1, <1>2, <1>6 DEF Here
        <2> QED BY <1>2, <1>6, <2>1, <2>2, <2>3, <2>4, OneCallChanges DEF Here
  <1>7. CASE c.here /\ tab' = Listed(c) /\ calls' = [calls EXCEPT ![n] = None]
        <2>1. tab'.page = tab.page /\ tab'.dialog = tab.dialog /\ tab'.busy = tab.busy \ {c.flag}
              BY <1>2, <1>7 DEF Listed, TabType
        <2> QED BY <1>5, <1>7, <2>1
  <1>8. ASSUME c.here, NEW g \in Groups,
               tab' = [Listed(c) EXCEPT !.group = g, !.loading = TRUE, !.busy = tab.busy],
               calls' = [calls EXCEPT ![n] = Call(c.page, "list", g, c.flag)]
        PROVE  WritesInv'
        <2>1. tab'.page = tab.page /\ tab'.dialog = tab.dialog /\ tab'.busy = tab.busy
              BY <1>2, <1>8 DEF Listed, TabType
        <2> QED BY <1>6, <1>8, <2>1
  <1>9. CASE /\ c.here /\ c.act # "list" /\ c.flag # "none"
             /\ tab' = Hears(c).tab
             /\ calls' = IF Hears(c).again THEN Again(n, c) ELSE [calls EXCEPT ![n] = None]
        <2>1. HeardWell(Hears(c), c)
              BY <1>1, <1>9, HearsAreTyped DEF ConsoleTyped, CallsAreMade, Here
        <2>2. CASE Hears(c).again
              BY <1>6, <1>9, <2>1, <2>2 DEF HeardWell, Again
        <2>3. CASE ~Hears(c).again
              BY <1>5, <1>9, <2>1, <2>3 DEF HeardWell
        <2> QED BY <2>2, <2>3
  <1> QED BY <1>1, <1>3, <1>4, <1>7, <1>8, <1>9 DEF HeardAs

LEMMA OthersWrite ==
    ASSUME ConsoleTyped, WritesInv,
           \/ Escape \/ Login \/ Reload \/ SignOut
           \/ OtherLogin \/ (\E s \in Others : OtherUses(s)) \/ Restart
           \/ (\E a \in Accounts : Regrade(a)) \/ Tick
    PROVE  WritesInv'
  <1> USE DEF WritesInv
  <1>1. CASE Escape
        <2>1. tab'.page = tab.page /\ tab'.busy = tab.busy /\ tab'.dialog = None /\ calls' = calls
              BY <1>1 DEF Escape, ConsoleTyped, ConsoleTypeOK, TabType
        <2> QED BY <2>1 DEF HereIsShown, BusyWithIt, DialogAsks, OneWriteAtATime, Here
  <1>2. CASE Login
        <2>1. \A n \in Slots : calls'[n] = None \/ ~calls'[n].here
              BY <1>2 DEF Login, HereIsShown, Here, Pages, GroupPages, PlatformPages
        <2> QED BY <1>2, <2>1, NothingHere DEF Login, Blank
  <1>3. CASE Reload \/ SignOut
        <2>1. calls' = Orphaned /\ tab'.dialog = None
              BY <1>3 DEF Reload, SignOut, Blank
        <2> QED BY <2>1, NothingHere, OrphansAreTyped DEF ConsoleTyped
  <1>4. CASE UNCHANGED <<tab, calls>>
        BY <1>4 DEF HereIsShown, BusyWithIt, DialogAsks, OneWriteAtATime, Here
  <1>5. CASE \E a \in Accounts : Regrade(a)
        <2>1. tab' = tab /\ \A k \in Slots :
                 calls'[k] = IF calls[k] = None THEN None ELSE [calls[k] EXCEPT !.fair = FALSE]
              BY <1>5 DEF Regrade
        <2>2. \A k \in Slots : calls[k] # None => calls[k] \in CallType
              BY DEF ConsoleTyped, ConsoleTypeOK
        <2>3. \A c \in CallType : /\ [c EXCEPT !.fair = FALSE].here = c.here
                                  /\ [c EXCEPT !.fair = FALSE].page = c.page
                                  /\ [c EXCEPT !.fair = FALSE].flag = c.flag
              BY DEF CallType
        <2>4. ASSUME NEW k \in Slots, calls'[k] # None
              PROVE  /\ calls[k] # None /\ calls'[k].here = calls[k].here
                     /\ calls'[k].page = calls[k].page /\ calls'[k].flag = calls[k].flag
              BY <2>1, <2>2, <2>3, <2>4
        <2> QED BY <2>1, <2>4 DEF HereIsShown, BusyWithIt, DialogAsks, OneWriteAtATime, Here
  <1> QED BY <1>1, <1>2, <1>3, <1>4, <1>5 DEF OtherLogin, OtherUses, Restart, Tick

-----------------------------------------------------------------------------
(* The sessions *)

\* What an active session owes its place to.
SessionsInv == SessionsAgree /\ ActiveSessionStays
LaterSeen(s) == {o \in Sids \ {s} : used[o] # None /\ used[o] >= used[s]}

\* A session lost its place only to others seen later, and those are still so.
LEMMA SessionsStay ==
    ASSUME ConsoleTypeOK, ConsoleTypeOK', SessionsInv, SessionsAgree',
           now <= now', closed \subseteq closed',
           \A o \in Sids : used[o] # None => used'[o] # None /\ used'[o] >= used[o],
           \A t \in Sids :
              store'[t] = None /\ used'[t] # None /\ t \notin closed' /\ now' - used'[t] <= Ttl
              => \/ used'[t] = used[t] /\ store[t] = None
                 \/ Cardinality(LaterSeen(t)') >= MaxSessions
    PROVE  SessionsInv'
  <1> SUFFICES ASSUME NEW t \in Sids, used'[t] # None, now' - used'[t] <= Ttl, t \notin closed',
                      Cardinality(LaterSeen(t)') < MaxSessions, store'[t] = None
               PROVE  FALSE
      BY DEF SessionsInv, ActiveSessionStays, LaterSeen
  <1>1. /\ IsFiniteSet(LaterSeen(t)) /\ IsFiniteSet(LaterSeen(t)')
        /\ Cardinality(LaterSeen(t)) \in Nat /\ Cardinality(LaterSeen(t)') \in Nat
        BY ConsoleConstants, FS_Subset, FS_CardinalityType DEF LaterSeen
  <1>2. used'[t] = used[t] /\ store[t] = None /\ used[t] # None
        BY <1>1, ConsoleConstants
  <1>3. now - used[t] <= Ttl /\ t \notin closed
        BY <1>2, ConsoleConstants DEF ConsoleTypeOK
  <1>4. LaterSeen(t) \subseteq LaterSeen(t)'
        BY <1>2 DEF LaterSeen, ConsoleTypeOK
  <1>5. Cardinality(LaterSeen(t)) < MaxSessions
        BY <1>1, <1>4, FS_Subset, ConsoleConstants
  <1> QED BY <1>2, <1>3, <1>5 DEF SessionsInv, ActiveSessionStays, LaterSeen

LEMMA TouchStays ==
    ASSUME ConsoleTypeOK, ConsoleTypeOK', SessionsInv, NEW s \in Sids, Touch(s), now' = now
    PROVE  SessionsInv'
  <1>1. \A o \in Sids : used[o] # None => used'[o] # None /\ used'[o] >= used[o]
        BY ConsoleConstants DEF Touch, SessionsInv, SessionsAgree, ConsoleTypeOK
  <1>2. SessionsAgree'
        BY ConsoleConstants DEF Touch, Touched, Alive, SessionsInv, SessionsAgree, ConsoleTypeOK
  <1>3. \A t \in Sids :
           store'[t] = None /\ used'[t] # None /\ t \notin closed' /\ now' - used'[t] <= Ttl
           => used'[t] = used[t] /\ store[t] = None
        BY ConsoleConstants DEF Touch, Touched, Alive, SessionsInv, SessionsAgree, ConsoleTypeOK
  <1> QED BY <1>1, <1>2, <1>3, SessionsStay DEF Touch, ConsoleTypeOK

LEMMA CreateStays ==
    ASSUME ConsoleTypeOK, ConsoleTypeOK', SessionsInv, NEW s \in Sids, used[s] = None, Create(s), now' = now
    PROVE  SessionsInv'
  <1> DEFINE st == [Pruned EXCEPT ![s] = now]
  <1>1. /\ st[s] = now /\ used'[s] = now
        /\ \A t \in Sids \ {s} : /\ used'[t] = used[t]
                                 /\ st[t] = IF Alive(t) THEN store[t] ELSE None
        BY DEF Pruned, Create, ConsoleTypeOK
  <1>2. \/ store' = st
        \/ /\ Cardinality(Live(st)) > MaxSessions
           /\ \E v \in Live(st) \ {s} : /\ \A y \in Live(st) : st[v] <= st[y]
                                        /\ store' = Without(st, v)
        <2> HIDE DEF st
        <2>1. CASE Cardinality(Live(st)) <= MaxSessions
              BY <2>1 DEF Create, Evicted, st
        <2>2. CASE ~(Cardinality(Live(st)) <= MaxSessions)
              <3>1. IsFiniteSet(Live(st)) /\ Cardinality(Live(st)) \in Nat
                    BY ConsoleConstants, FS_Subset, FS_CardinalityType DEF Live
              <3>2. \E v \in Live(st) \ {s} : /\ \A y \in Live(st) : st[v] <= st[y]
                                              /\ store' = Without(st, v)
                    BY <2>2 DEF Create, Evicted, st
              <3>3. Cardinality(Live(st)) > MaxSessions
                    BY <2>2, <3>1, ConsoleConstants
              <3> QED BY <3>2, <3>3, Zenon
        <2> QED BY <2>1, <2>2
  <1> HIDE DEF st
  <1>3. \A o \in Sids : used[o] # None => used'[o] # None /\ used'[o] >= used[o]
        BY <1>1, ConsoleConstants DEF ConsoleTypeOK
  <1>4. /\ st \in [Sids -> Nat \cup {None}]
        /\ \A t \in Sids : st[t] # None => st[t] = used'[t]
        BY <1>1, ConsoleConstants DEF SessionsInv, SessionsAgree, ConsoleTypeOK, Pruned, st
  <1>5. \A t \in Sids : store'[t] = st[t] \/ store'[t] = None
        BY <1>2, <1>4 DEF Live, Without
  <1>6. SessionsAgree'
        BY <1>1, <1>4, <1>5, ConsoleConstants DEF SessionsInv, SessionsAgree, ConsoleTypeOK
  <1>7. ASSUME NEW t \in Sids, store'[t] = None, used'[t] # None, t \notin closed',
               now' - used'[t] <= Ttl, ~(used'[t] = used[t] /\ store[t] = None)
        PROVE  Cardinality(LaterSeen(t)') >= MaxSessions
        <2>1. st[t] # None
              BY <1>1, <1>7, ConsoleConstants DEF Alive, SessionsInv, SessionsAgree, ConsoleTypeOK
        <2>2. /\ Cardinality(Live(st)) > MaxSessions /\ t \in Live(st)
              /\ \A y \in Live(st) : st[t] <= st[y]
              BY <1>2, <1>4, <1>7, <2>1 DEF Live, Without
        <2>3. Live(st) \ {t} \subseteq LaterSeen(t)'
              BY <1>4, <2>2, ConsoleConstants DEF Live, LaterSeen
        <2>4. /\ IsFiniteSet(Live(st)) /\ Cardinality(Live(st)) \in Nat
              /\ IsFiniteSet(LaterSeen(t)') /\ Cardinality(LaterSeen(t)') \in Nat
              BY ConsoleConstants, FS_Subset, FS_CardinalityType DEF Live, LaterSeen
        <2>5. Cardinality(Live(st) \ {t}) = Cardinality(Live(st)) - 1
              BY <2>2, <2>4, FS_RemoveElement
        <2>6. Cardinality(Live(st) \ {t}) <= Cardinality(LaterSeen(t)')
              BY <2>3, <2>4, FS_Subset
        <2> QED BY <2>2, <2>4, <2>5, <2>6, ConsoleConstants
  <1> QED BY <1>3, <1>6, <1>7, SessionsStay DEF Create, ConsoleTypeOK

LEMMA SessionsStep ==
    ASSUME ConsoleTyped, ConsoleTyped', SessionsInv, ConsoleNext
    PROVE  SessionsInv'
  <1>0. ConsoleTypeOK /\ ConsoleTypeOK'
        BY DEF ConsoleTyped
  <1>1. CASE UNCHANGED <<now, sessions>>
        BY <1>1 DEF SessionsInv, SessionsAgree, ActiveSessionStays, sessions
  <1>2. CASE now' = now /\ \E s \in Sids : Touch(s)
        BY <1>0, <1>2, TouchStays
  <1>3. CASE now' = now /\ \E s \in Sids : used[s] = None /\ Create(s)
        BY <1>0, <1>3, CreateStays
  <1>4. CASE Tick
        <2>1. now' = now + 1 /\ store' = store /\ used' = used /\ closed' = closed
              BY <1>4 DEF Tick, sessions
        <2>2. SessionsAgree'
              BY <1>0, <2>1, ConsoleConstants DEF SessionsInv, SessionsAgree, ConsoleTypeOK
        <2> QED BY <1>0, <2>1, <2>2, SessionsStay DEF ConsoleTypeOK
  <1>5. CASE Restart
        <2>1. /\ now' = now /\ used' = used /\ store' = [s \in Sids |-> None]
              /\ closed' = closed \cup Live(store)
              BY <1>5 DEF Restart
        <2>2. SessionsAgree'
              BY <2>1 DEF SessionsInv, SessionsAgree
        <2>3. \A t \in Sids : t \notin closed' => store[t] = None
              BY <2>1 DEF Live
        <2> QED BY <1>0, <2>1, <2>2, <2>3, SessionsStay DEF ConsoleTypeOK
  <1>6. ASSUME NEW s \in Sids, now' = now, Alive(s), store' = [store EXCEPT ![s] = None],
               used' = [used EXCEPT ![s] = now], closed' = closed \cup {s}
        PROVE  SessionsInv'
        <2>1. SessionsAgree'
              BY <1>0, <1>6, ConsoleConstants DEF SessionsInv, SessionsAgree, ConsoleTypeOK
        <2>2. \A o \in Sids : used[o] # None => used'[o] # None /\ used'[o] >= used[o]
              BY <1>0, <1>6, ConsoleConstants DEF SessionsInv, SessionsAgree, ConsoleTypeOK
        <2>3. \A t \in Sids : t \notin closed' => used'[t] = used[t] /\ store'[t] = store[t]
              BY <1>0, <1>6 DEF ConsoleTypeOK
        <2> QED BY <1>0, <1>6, <2>1, <2>2, <2>3, SessionsStay DEF ConsoleTypeOK
  <1>7. Cookie \in Sids \cup {None}
        BY <1>0, CookieIsTyped
  <1>8. CASE Reload
        BY <1>1, <1>2, <1>7, <1>8 DEF Reload
  <1>9. CASE SignOut
        BY <1>1, <1>2, <1>6, <1>7, <1>9 DEF SignOut, Accepted, sessions
  <1>10. CASE Login
        BY <1>3, <1>10 DEF Login, Fresh
  <1>11. CASE OtherLogin
        BY <1>3, <1>11 DEF OtherLogin, Fresh
  <1>12. CASE \E s \in Others : OtherUses(s)
        BY <1>2, <1>12 DEF OtherUses
  <1>13. ASSUME NEW n \in Slots, ServeCall(n)
        PROVE  SessionsInv'
        <2>1. now' = now /\ calls[n] \in CallType
              BY <1>0, <1>13 DEF ServeCall, ConsoleTypeOK
        <2>2. calls[n].sid \in Sids \cup {None}
              BY <2>1 DEF CallType
        <2> QED BY <1>1, <1>2, <1>13, <2>1, <2>2 DEF ServeCall
  <1>14. \/ UNCHANGED <<now, sessions>> \/ Reload \/ SignOut \/ Login \/ OtherLogin \/ Tick \/ Restart
         \/ (\E s \in Others : OtherUses(s)) \/ (\E n \in Slots : ServeCall(n))
        BY DEF ConsoleNext, OpenPage, Choose, Press, Confirm, Escape, Lose, Hear, Regrade
  <1> QED BY <1>1, <1>4, <1>5, <1>8, <1>9, <1>10, <1>11, <1>12, <1>13, <1>14

-----------------------------------------------------------------------------
(* What is offered is granted *)

LEMMA AccountsAreTyped ==
    ASSUME NEW a \in Accounts
    PROVE  /\ a.super \in BOOLEAN
           /\ \A g \in Groups : a.level[g] \in {0, Moderator, GroupAdmin}
  <1>1. CASE a = [super |-> TRUE, level |-> [g \in Groups |-> 0]]
        BY <1>1
  <1>2. CASE \E l \in GroupLevels : a = [super |-> FALSE, level |-> l]
        BY <1>2, ConsoleConstants
  <1> QED BY <1>1, <1>2 DEF Accounts

\* The tab that knows the account's permissions knows what the server grants.
LEMMA TabKnowsLevels ==
    ASSUME ConsoleTypeOK, identity # None, identity = account
    PROVE  /\ IsSuper <=> account.super
           /\ \A g \in GroupOptions : g \in Groups /\ ReadLevel(account, g) >= Moderator
           /\ \A g \in Manageable : g \in Groups /\ ReadLevel(account, g) >= GroupAdmin
           /\ \A g : LevelIn(g) >= Moderator => AccountLevel(account, g) >= Moderator
           /\ \A g : LevelIn(g) >= GroupAdmin => AccountLevel(account, g) >= GroupAdmin
           /\ \A g \in GroupOptions : AccountLevel(account, g) >= Moderator
           /\ \A g \in Manageable : AccountLevel(account, g) >= GroupAdmin
           /\ LevelIn(Default) >= Moderator \/ LevelIn(Default) >= GroupAdmin => account.super
  <1> USE DEF Moderator, GroupAdmin, GroupSuper
  <1>1. account.super \in BOOLEAN /\ \A g \in Groups : account.level[g] \in {0, Moderator, GroupAdmin}
        BY AccountsAreTyped DEF ConsoleTypeOK
  <1>2. IsSuper <=> account.super
        BY DEF IsSuper
  <1>3. GroupOptions = Told(account)
        BY DEF GroupOptions
  <1>4. \A g \in Told(account) : g \in Groups /\ AccountLevel(account, g) >= Moderator
        BY DEF Told
  <1>5. \A g : LevelIn(g) >= Moderator => LevelIn(g) = AccountLevel(account, g)
        BY <1>2, <1>3, <1>4, <1>1 DEF LevelIn, AccountLevel
  <1>6. \A g \in GroupOptions : LevelIn(g) = AccountLevel(account, g)
        BY <1>2, <1>3, <1>4 DEF LevelIn, AccountLevel
  <1>7. \A g \in Manageable : g \in GroupOptions /\ LevelIn(g) >= GroupAdmin
        BY DEF Manageable
  <1>8. \A g \in GroupOptions : ReadLevel(account, g) = AccountLevel(account, g)
        BY <1>3 DEF ReadLevel
  <1>9. LevelIn(Default) >= Moderator \/ LevelIn(Default) >= GroupAdmin => account.super
        BY <1>2, <1>3, <1>4, ConsoleConstants DEF LevelIn
  <1>10. \A g : LevelIn(g) \in Int
        BY <1>1, <1>3, <1>4 DEF LevelIn
  <1> QED BY <1>2, <1>3, <1>4, <1>5, <1>6, <1>7, <1>8, <1>9, <1>10

LEMMA ListsAreGranted ==
    ASSUME ConsoleTypeOK, identity # None, identity = account,
           NEW p \in Pages, Linked(p), NEW g \in Begins(p) \cup Choices(p), Asks(p, g)
    PROVE  Granted(p, "list", g)
  <1>1. /\ IsSuper <=> account.super
        /\ \A x \in GroupOptions : x \in Groups /\ ReadLevel(account, x) >= Moderator
        /\ \A x \in Manageable : x \in Groups /\ ReadLevel(account, x) >= GroupAdmin
        BY TabKnowsLevels
  <1>2. Reviewable \subseteq GroupOptions /\ Manageable \subseteq GroupOptions
        BY DEF Reviewable, Manageable
  <1> SUFFICES ASSUME g # None \/ account.super
               PROVE  ListRead(p, account, g) = "ok"
      BY DEF Granted
  <1> USE DEF Answer, PlatformRead
  <1>4. CASE p \in {"pending", "activities"}
        BY <1>4 DEF ListRead
  <1>5. CASE p \in {"audit", "appeals", "punishments", "deliveries"}
        <2>1. account.super \/ g \in GroupOptions
              BY <1>1, <1>2, <1>5 DEF Begins, Choices, SuperOr, OneOf
        <2>2. ScopedRead(account, g, Moderator) = "ok"
              BY <1>1, <2>1, ConsoleConstants DEF ScopedRead, GroupRead
        <2> QED BY <1>5, <2>2 DEF ListRead, AuditRead, AppealsRead, PunishmentsRead, DeliveriesRead
  <1>6. CASE p = "reports"
        <2>1. account.super \/ g \in Manageable
              BY <1>1, <1>6 DEF Begins, Choices, SuperOr, OneOf
        <2>2. ScopedRead(account, g, GroupAdmin) = "ok"
              BY <1>1, <2>1, ConsoleConstants DEF ScopedRead, GroupRead
        <2> QED BY <1>6, <2>2 DEF ListRead, ReportsRead
  <1>7. CASE p = "blacklist"
        <2>1. g # None /\ g \in GroupOptions
              BY <1>2, <1>7 DEF Asks, BlacklistAsks, Begins, Choices, OneOf
        <2> QED BY <1>1, <1>7, <2>1 DEF ListRead, BlacklistRead, GroupRead
  <1>8. CASE p = "announcements"
        <2>1. g # None /\ g \in Manageable
              BY <1>8 DEF Asks, AnnouncementsAsks, Begins, Choices, OneOf
        <2> QED BY <1>1, <1>8, <2>1 DEF ListRead, AnnouncementsRead, GroupRead
  <1>9. CASE p = "rules"
        <2>1. g # None /\ (g = Default => account.super) /\ (g # Default => g \in GroupOptions)
              BY <1>1, <1>2, <1>9 DEF Asks, RulesAsks, Begins, Choices, OneOf
        <2> QED BY <1>1, <1>9, <2>1 DEF ListRead, RulesRead, GroupRead
  <1>10. CASE p \in PlatformPages \ {"deliveries"}
        <2>1. account.super
              BY <1>1, <1>10 DEF Linked
        <2>2. PlatformRead(account) = "ok"
              BY <2>1
        <2> HIDE DEF PlatformRead
        <2> QED BY <1>10, <2>2
                DEF PlatformPages, ListRead, All, TopicsRead, SubscriptionsRead, AliasesRead, PermissionsRead,
                    IdentitiesRead, StatusRead, TasksRead, HealthRead, TokensRead, SettingsRead
  <1> QED BY <1>4, <1>5, <1>6, <1>7, <1>8, <1>9, <1>10 DEF Pages, GroupPages

\* The announcements page offers what the group administrator may do.
LEMMA AnnouncementsAreOurs ==
    ASSUME ConsoleTyped, GroupIsChosen, OursAnnounced, tab.page = "announcements", NEW o \in Offers
    PROVE  o.group \in Manageable
  <1>1. \/ tab.view /\ o = Direct("create", tab.group, "busy")
        \/ \E r \in tab.rows : o = Direct("update", r.group, "busy")
        \/ \E act \in {"send", "remove"} : \E r \in tab.rows : o = Ask(act, r.group, "busy")
        BY AnnouncementsOffered DEF Offers
  <1>2. \A r \in tab.rows : r.group \in Manageable
        BY DEF OursAnnounced, InOurs
  <1>3. tab.view => tab.group \in Manageable
        <2>1. tab.group \in Begins("announcements") \cup Choices("announcements")
              BY DEF GroupIsChosen, Linked, Pages, GroupPages, PlatformPages
        <2> QED BY <2>1 DEF Begins, Choices, OneOf, OursAnnounced
  <1> QED BY <1>1, <1>2, <1>3 DEF Direct, Ask

LEMMA OffersAreInRange ==
    ASSUME ConsoleTyped, GroupIsChosen, OursAnnounced, identity # None, identity = account,
           Linked(tab.page), NEW o \in Offers
    PROVE  Granted(tab.page, o.act, o.group)
  <1> DEFINE p == tab.page
  <1>1. /\ IsSuper <=> account.super
        /\ \A g : LevelIn(g) >= Moderator => AccountLevel(account, g) >= Moderator
        /\ \A g : LevelIn(g) >= GroupAdmin => AccountLevel(account, g) >= GroupAdmin
        /\ \A g \in GroupOptions : AccountLevel(account, g) >= Moderator
        /\ \A g \in Manageable : AccountLevel(account, g) >= GroupAdmin
        /\ LevelIn(Default) >= Moderator \/ LevelIn(Default) >= GroupAdmin => account.super
        BY TabKnowsLevels DEF ConsoleTyped
  <1>2. WellOffered(o, tab.page) /\ tab.page \in Pages /\ o.act # "list"
        BY OffersAreTyped DEF ConsoleTyped, WellOffered
  <1>3. tab.group \in Begins(p) \cup Choices(p)
        BY <1>2 DEF GroupIsChosen
  <1>4. \A lvl : \A r \in RowsAt(lvl) : LevelIn(r.group) >= lvl
        BY DEF RowsAt
  <1> SUFFICES ASSUME o.group # None \/ account.super, ~(p = "audit" /\ o.act = "export")
               PROVE  MayWrite(p, account, o.act, o.group)
      BY <1>2 DEF Granted
  <1>5. CASE p = "pending"
        <2>1. \/ \E g \in Shown : LevelIn(g) >= Moderator /\ Idle("syncing") /\ o = Direct("sync", g, "syncing")
              \/ \E act \in {"approve", "reject"} : \E r \in RowsAt(GroupAdmin) : o = Ask(act, r.group, "busy")
              BY <1>5, PendingOffered DEF Offers
        <2>2. CASE \E g \in Shown : LevelIn(g) >= Moderator /\ o = Direct("sync", g, "syncing")
              BY <2>2, <1>1, <1>5 DEF Direct, MayWrite, JoinWrite, ModeratorWrite
        <2>3. CASE \E act \in {"approve", "reject"} : \E r \in RowsAt(GroupAdmin) : o = Ask(act, r.group, "busy")
              BY <2>3, <1>1, <1>4, <1>5 DEF Ask, MayWrite, JoinWrite, GroupAdminWrite
        <2> QED BY <2>1, <2>2, <2>3
  <1>6. CASE p = "appeals"
        <2>1. \E act \in {"accept", "dismiss"} : \E r \in RowsAt(Moderator) : o = Ask(act, r.group, "busy")
              BY <1>6, AppealsOffered DEF Offers
        <2> QED BY <2>1, <1>1, <1>4, <1>6 DEF Ask, MayWrite, AppealWrite, ModeratorWrite
  <1>7. CASE p = "punishments"
        <2>1. \/ \E act \in {"release", "mute", "ban"} : \E r \in RowsAt(Moderator) : o = Ask(act, r.group, "busy")
              \/ IsSuper /\ \E r \in tab.rows : o = Ask("banEverywhere", r.group, "busy")
              BY <1>7, PunishmentsOffered DEF Offers
        <2>2. CASE \E act \in {"release", "mute", "ban"} : \E r \in RowsAt(Moderator) : o = Ask(act, r.group, "busy")
              BY <2>2, <1>1, <1>4, <1>7 DEF Ask, MayWrite, PunishWrite, ModeratorWrite
        <2>3. CASE IsSuper /\ \E r \in tab.rows : o = Ask("banEverywhere", r.group, "busy")
              BY <2>3, <1>1, <1>7
                 DEF Ask, MayWrite, PunishWrite, ModeratorWrite, PlatformWrite, AccountLevel,
                     Moderator, GroupSuper
        <2> QED BY <2>1, <2>2, <2>3
  <1>8. CASE p = "blacklist"
        <2>1. \/ \E g \in Shown \cup {x \in {Default} : IsSuper} : o = Ask("add", g, "add")
              \/ \E r \in RowsAt(Moderator) : o = Ask("remove", r.group, "remove")
              BY <1>8 DEF Offers, BlacklistOffers
        <2>2. \A g \in Shown \cup {x \in {Default} : IsSuper} :
                 (g \in GroupOptions /\ g # Default) \/ (g = Default /\ account.super)
              BY <1>1, <1>3, <1>8, ManageableIsTyped, ConsoleConstants DEF ConsoleTyped, ConsoleTypeOK, Shown, Begins, Choices, OneOf, Reviewable
        <2>3. CASE \E g \in Shown \cup {x \in {Default} : IsSuper} : o = Ask("add", g, "add")
              BY <2>2, <2>3, <1>1, <1>8 DEF Ask, MayWrite, BlacklistWrite, ModeratorWrite, PlatformWrite
        <2>4. CASE \E r \in RowsAt(Moderator) : o = Ask("remove", r.group, "remove")
              BY <2>4, <1>1, <1>4, <1>8 DEF Ask, MayWrite, BlacklistWrite, ModeratorWrite, PlatformWrite
        <2> QED BY <2>1, <2>3, <2>4
  <1>9. CASE p = "activities"
        <2>1. \/ \E g \in Manageable : Idle("creating") /\ o = Direct("create", g, "creating")
              \/ \E act \in {"set", "bind", "open"} : \E r \in RowsAt(GroupAdmin) : o = Direct(act, r.group, r.group)
              \/ \E r \in RowsAt(GroupAdmin) : o = Link("export", r.group)
              BY <1>9, ActivitiesOffered DEF Offers
        <2>2. AccountLevel(account, o.group) >= GroupAdmin
              BY <2>1, <1>1, <1>4 DEF Direct, Link
        <2> QED BY <2>2, <1>9 DEF MayWrite, ActivityWrite, ActivityExport, GroupAdminWrite
  <1>10. CASE p = "announcements"
        <2>1. o.group \in Manageable /\ o.group # None
              BY <1>10, AnnouncementsAreOurs, ManageableIsTyped, ConsoleConstants DEF ConsoleTyped, ConsoleTypeOK
        <2> QED BY <2>1, <1>1, <1>10 DEF MayWrite, AnnouncementWrite, GroupAdminWrite
  <1>11. CASE p = "rules"
        <2>1. \/ \E act \in {"update", "batch", "reset", "resetAll"} : \E g \in Shown : LevelIn(g) >= GroupAdmin /\ o = Ask(act, g, act)
              \/ \E g \in Shown : LevelIn(g) >= GroupAdmin /\ Idle("keywords") /\ o = Direct("keywords", g, "keywords")
              BY <1>11, RulesOffered DEF Offers
        <2>2. LevelIn(o.group) >= GroupAdmin
              BY <2>1 DEF Direct, Ask
        <2>3. o.group = Default => account.super
              BY <2>2, <1>1
        <2> QED BY <2>2, <2>3, <1>1, <1>11 DEF MayWrite, RuleWrite, RuleReset, PlatformWrite, GroupAdminWrite
  <1>12. CASE p \in {"status", "settings", "permissions", "aliases"}
        <2>1. account.super
              BY <1>1, <1>12 DEF Linked, PlatformPages
        <2>2. p = "status" => o.act \in {"retry", "rollback", "revoke"}
              BY DEF Offers, StatusOffers, Platform, Direct, Ask
        <2> QED BY <2>1, <2>2, <1>12
                DEF MayWrite, StatusWrite, SettingWrite, PermissionWrite, AliasWrite, RetryModule, RollbackDeploy,
                    RevokeTokens, PlatformWrite
  <1>13. CASE p = "notify"
        <2>1. account.super
              BY <1>1, <1>13 DEF Linked, PlatformPages
        <2> QED BY <2>1, <1>13 DEF MayWrite, TopicWrite, PlatformWrite
  <1>14. CASE p \in {"audit", "reports"}
        <2>1. o = Link("export", tab.group) \/ (IsSuper /\ o = Link("exportInFull", tab.group))
              BY <1>14 DEF Offers, AuditOffers, ReportsOffers
        <2>2. CASE IsSuper /\ o = Link("exportInFull", tab.group)
              BY <2>2, <1>1, <1>14 DEF Link, MayWrite, AuditExport, ReportsExport, PlatformWrite
        <2>3. CASE o = Link("export", tab.group)
              <3>1. p = "reports" /\ o.act = "export" /\ o.group = tab.group
                    BY <2>3, <1>14 DEF Link
              <3>2. tab.group = None \/ tab.group \in Manageable
                    BY <1>3, <3>1 DEF Begins, Choices, SuperOr, OneOf
              <3> QED BY <3>1, <3>2, <1>1 DEF MayWrite, ReportsExport, PlatformWrite, GroupAdminWrite
        <2> QED BY <2>1, <2>2, <2>3
  <1> QED BY <1>5, <1>6, <1>7, <1>8, <1>9, <1>10, <1>11, <1>12, <1>13, <1>14 DEF Offers

\* What the tab was told and what was granted stay; one call changes.
LEMMA OneCallIsFair ==
    ASSUME ConsoleTyped, GrantsInv, NEW k, UNCHANGED <<account, identity, current>>,
           tab'.page = tab.page, GroupIsChosen', DialogIsGranted',
           \A n \in Slots \ {k} : calls'[n] # None => calls'[n] = calls[n],
           k \in Slots /\ calls'[k] # None => FairWell(calls'[k])
    PROVE  TabKnows' /\ CallsAreFair'
  <1>1. TabKnows'
        BY DEF GrantsInv, TabKnows
  <1>2. ASSUME NEW c
        PROVE  FairWell(c)' <=> FairWell(c)
        BY DEF FairWell, Linked, IsSuper, Granted
  <1>3. ASSUME NEW n \in Slots, calls'[n] # None
        PROVE  FairWell(calls[n])'
        <2>1. PICK c : c = calls'[n]
              OBVIOUS
        <2>2. FairWell(c)
              BY <1>3, <2>1 DEF GrantsInv, CallsAreFair
        <2>3. FairWell(c)'
              BY <2>2, <1>2
        <2> QED BY <2>1, <2>3 DEF FairWell, Linked, IsSuper, Granted
  <1> QED BY <1>1, <1>3 DEF CallsAreFair

\* Nothing is under way for the page shown.
LEMMA NothingIsUnfair ==
    ASSUME \A n \in Slots : calls'[n] # None => ~calls'[n].here /\ ~calls'[n].fair,
           tab'.page \notin Pages, tab'.dialog = None,
           current' /\ identity' # None => identity' = account'
    PROVE  GrantsInv'
  <1>1. tab'.page # "announcements"
        BY DEF Pages, GroupPages
  <1> QED BY <1>1
          DEF GrantsInv, TabKnows, GroupIsChosen, CallsAreFair, FairWell, DialogIsGranted, OursAnnounced

\* A call that was just made is granted if its page is linked to and it is.
LEMMA NewCallIsFair ==
    ASSUME NEW p, NEW act, NEW g, NEW flag, current /\ Linked(p) => Granted(p, act, g)
    PROVE  /\ FairWell(Call(p, act, g, flag))
           /\ g \in Manageable => OursCalled(Call(p, act, g, flag))
  <1> DEFINE c == Call(p, act, g, flag)
  <1>1. /\ c.page = p /\ c.act = act /\ c.group = g /\ c.here = TRUE /\ c.status = "none"
        /\ c.fair = (current /\ Linked(p)) /\ c.rows = {}
        BY DEF Call
  <1> HIDE DEF c
  <1>2. FairWell(c) /\ (g \in Manageable => OursCalled(c))
        BY <1>1 DEF FairWell, OursCalled, InOurs
  <1> QED BY <1>2 DEF c

LEMMA OpenPageGrants ==
    ASSUME ConsoleTyped, ConsoleTyped', GrantsInv, NEW p \in Pages \cup {"dashboard"}, OpenPage(p)
    PROVE  GrantsInv'
  <1>1. PICK g \in Begins(p) :
            LET asks == p \in Pages /\ Asks(p, g)
            IN  /\ tab' = [Blank(p, g) EXCEPT !.loading = asks]
                /\ calls' = IF asks THEN [Orphaned EXCEPT ![Slot] = Call(p, "list", g, "none")]
                            ELSE Orphaned
        BY DEF OpenPage
  <1>2. /\ tab'.page = p /\ tab'.dialog = None /\ tab'.group = g /\ tab'.rows = {} /\ tab'.view = FALSE
        /\ UNCHANGED <<account, identity, current>> /\ identity # None
        BY <1>1 DEF Blank, OpenPage
  <1>3. p \in Pages /\ Asks(p, g) =>
           /\ FairWell(Call(p, "list", g, "none"))
           /\ p = "announcements" => OursCalled(Call(p, "list", g, "none"))
        <2>1. SUFFICES ASSUME p \in Pages, Asks(p, g)
                       PROVE  /\ FairWell(Call(p, "list", g, "none"))
                              /\ p = "announcements" => OursCalled(Call(p, "list", g, "none"))
              OBVIOUS
        <2>2. current /\ Linked(p) => Granted(p, "list", g)
              BY <1>2, <2>1, ListsAreGranted DEF GrantsInv, TabKnows, ConsoleTyped
        <2>3. p = "announcements" => g \in Manageable
              BY <2>1 DEF Begins, OneOf, Asks, AnnouncementsAsks
        <2> QED BY <2>2, <2>3, NewCallIsFair
  <1>4. ASSUME NEW n \in Slots, calls'[n] # None, calls'[n].here \/ calls'[n].fair
        PROVE  p \in Pages /\ Asks(p, g) /\ calls'[n] = Call(p, "list", g, "none")
        BY <1>1, <1>4, OrphansAreTyped DEF ConsoleTyped
  <1>5. \A c : (FairWell(c)' <=> FairWell(c)) /\ (OursCalled(c)' <=> OursCalled(c))
        BY <1>2 DEF FairWell, Linked, IsSuper, Granted, OursCalled, InOurs, Manageable, GroupOptions, LevelIn
  <1>6. ASSUME NEW n \in Slots, calls'[n] # None
        PROVE  FairWell(calls[n])' /\ (p = "announcements" => OursCalled(calls[n])')
        <2>1. PICK c : c = calls'[n]
              OBVIOUS
        <2>2. FairWell(c) /\ (p = "announcements" => OursCalled(c))
              BY <1>3, <1>4, <1>6, <2>1 DEF FairWell, OursCalled
        <2> QED BY <2>1, <2>2, <1>5
  <1>7. TabKnows' /\ GroupIsChosen' /\ DialogIsGranted'
        BY <1>2 DEF GrantsInv, TabKnows, GroupIsChosen, DialogIsGranted, Linked, IsSuper, Begins, SuperOr,
                    Reviewable, Manageable, GroupOptions, LevelIn
  <1>8. CallsAreFair' /\ OursAnnounced'
        BY <1>2, <1>6 DEF CallsAreFair, OursAnnounced, InOurs
  <1> QED BY <1>7, <1>8 DEF GrantsInv

LEMMA OneCallGoes ==
    ASSUME ConsoleTyped, GrantsInv, NEW k, UNCHANGED <<account, identity, current>>,
           tab'.page = tab.page, GroupIsChosen', DialogIsGranted',
           \A n \in Slots \ {k} : calls'[n] # None => calls'[n] = calls[n],
           k \in Slots /\ calls'[k] # None
              => /\ FairWell(calls'[k])
                 /\ tab.page = "announcements" => OursCalled(calls'[k]),
           tab.page = "announcements" =>
              /\ tab'.view => Manageable # {}
              /\ InOurs(tab'.rows)
              /\ tab'.dialog # None => tab'.dialog.group \in Manageable
    PROVE  GrantsInv'
  <1>1. TabKnows' /\ CallsAreFair'
        BY OneCallIsFair
  <1>2. Manageable' = Manageable
        BY DEF Manageable, GroupOptions, LevelIn, IsSuper
  <1>3. ASSUME NEW n \in Slots, calls'[n] # None, tab.page = "announcements"
        PROVE  OursCalled(calls[n])'
        <2>1. PICK c : c = calls'[n]
              OBVIOUS
        <2>2. OursCalled(c)
              BY <1>3, <2>1 DEF GrantsInv, OursAnnounced
        <2> QED BY <1>2, <2>1, <2>2 DEF OursCalled, InOurs
  <1>4. OursAnnounced'
        BY <1>2, <1>3 DEF OursAnnounced, InOurs
  <1> QED BY <1>1, <1>4 DEF GrantsInv

\* The group of a page stays while the identity does.
LEMMA GroupStays ==
    ASSUME GroupIsChosen, identity' = identity, tab'.page = tab.page, tab'.group = tab.group
    PROVE  GroupIsChosen'
  BY DEF GroupIsChosen, Linked, IsSuper, Begins, Choices, SuperOr, OneOf, Reviewable, Manageable,
         GroupOptions, LevelIn

LEMMA DialogStays ==
    ASSUME DialogIsGranted, UNCHANGED <<account, identity, current>>, tab'.page = tab.page,
           tab'.dialog \in {None, tab.dialog}
    PROVE  DialogIsGranted'
  BY DEF DialogIsGranted, Linked, IsSuper, Granted

LEMMA ChooseGrants ==
    ASSUME ConsoleTyped, ConsoleTyped', GrantsInv, NEW g \in Groups \cup {Default, None}, Choose(g)
    PROVE  GrantsInv'
  <1> USE DEF GrantsInv
  <1>1. /\ tab.page \in Pages /\ tab.dialog = None /\ UNCHANGED <<account, identity, current>>
        /\ tab'.page = tab.page /\ tab'.dialog = None /\ tab'.group = g
        /\ tab'.rows = tab.rows /\ tab'.view = tab.view
        BY DEF Choose, ConsoleTyped, ConsoleTypeOK, TabType
  <1>2. Linked(tab.page) => g \in Begins(tab.page) \cup Choices(tab.page)
        BY <1>1 DEF Choose, GroupIsChosen
  <1>3. GroupIsChosen'
        BY <1>1, <1>2 DEF GroupIsChosen, Linked, IsSuper, Begins, Choices, SuperOr, OneOf, Reviewable,
                          Manageable, GroupOptions, LevelIn
  <1>4. DialogIsGranted'
        BY <1>1 DEF DialogIsGranted
  <1>5. tab.page = "announcements" => (tab'.view => Manageable # {}) /\ InOurs(tab'.rows)
        BY <1>1 DEF OursAnnounced
  <1>6. CASE calls' = calls
        BY <1>1, <1>3, <1>4, <1>5, <1>6, OneCallGoes DEF CallsAreFair, OursAnnounced
  <1>7. CASE Asks(tab.page, g) /\ calls' = [calls EXCEPT ![Slot] = Call(tab.page, "list", g, "none")]
        <2>1. current /\ Linked(tab.page) => Granted(tab.page, "list", g)
              BY <1>1, <1>2, <1>7, ListsAreGranted DEF TabKnows, ConsoleTyped
        <2>2. tab.page = "announcements" => g \in Manageable
              BY <1>2, <1>7 DEF Linked, PlatformPages, Begins, Choices, OneOf, Asks, AnnouncementsAsks
        <2>3. /\ FairWell(Call(tab.page, "list", g, "none"))
              /\ tab.page = "announcements" => OursCalled(Call(tab.page, "list", g, "none"))
              BY <2>1, <2>2, NewCallIsFair
        <2>4. /\ Slot \in Slots => calls'[Slot] = Call(tab.page, "list", g, "none")
              /\ \A n \in Slots \ {Slot} : calls'[n] = calls[n]
              BY <1>7 DEF ConsoleTyped, ConsoleTypeOK
        <2> QED BY <1>1, <1>3, <1>4, <1>5, <2>3, <2>4, OneCallGoes
  <1> QED BY <1>6, <1>7 DEF Choose

LEMMA SendGrants ==
    ASSUME ConsoleTyped, GrantsInv, NEW o \in Offered, Send(o), UNCHANGED <<account, identity, current>>,
           current /\ Linked(tab.page) => Granted(tab.page, o.act, o.group),
           tab.page = "announcements" => o.group \in Manageable
    PROVE  GrantsInv'
  <1> USE DEF GrantsInv
  <1>1. /\ tab'.page = tab.page /\ tab'.group = tab.group /\ tab'.rows = tab.rows
        /\ tab'.view = tab.view /\ tab'.dialog \in {None, tab.dialog}
        BY DEF Send, Sent, ConsoleTyped, ConsoleTypeOK, TabType
  <1>2. GroupIsChosen' /\ DialogIsGranted'
        BY <1>1, GroupStays, DialogStays
  <1>3. /\ FairWell(Call(tab.page, o.act, o.group, o.flag))
        /\ tab.page = "announcements" => OursCalled(Call(tab.page, o.act, o.group, o.flag))
        BY NewCallIsFair
  <1>4. /\ Slot \in Slots => calls'[Slot] = Call(tab.page, o.act, o.group, o.flag)
        /\ \A n \in Slots \ {Slot} : calls'[n] = calls[n]
        BY DEF Send, ConsoleTyped, ConsoleTypeOK
  <1>5. tab.page = "announcements" =>
           /\ tab'.view => Manageable # {}
           /\ InOurs(tab'.rows)
           /\ tab'.dialog # None => tab'.dialog.group \in Manageable
        BY <1>1 DEF OursAnnounced
  <1> QED BY <1>1, <1>2, <1>3, <1>4, <1>5, OneCallGoes

LEMMA PressGrants ==
    ASSUME ConsoleTyped, GrantsInv, NEW o \in Offers, Press(o)
    PROVE  GrantsInv'
  <1> USE DEF GrantsInv
  <1>1. o \in Offered /\ tab.page \in Pages /\ UNCHANGED <<account, identity, current>>
        BY OffersAreTyped DEF ConsoleTyped, WellOffered, Press
  <1>2. current /\ Linked(tab.page) => Granted(tab.page, o.act, o.group)
        BY <1>1, OffersAreInRange DEF TabKnows
  <1>3. tab.page = "announcements" => o.group \in Manageable
        BY AnnouncementsAreOurs
  <1>4. CASE o.how = "ask"
        <2>1. tab' = Opened(o) /\ UNCHANGED calls
              BY <1>4 DEF Press
        <2>2. /\ tab'.page = tab.page /\ tab'.group = tab.group /\ tab'.rows = tab.rows
              /\ tab'.view = tab.view /\ tab'.dialog = o
              BY <2>1 DEF Opened, ConsoleTyped, ConsoleTypeOK, TabType
        <2>3. GroupIsChosen'
              BY <1>1, <2>2, GroupStays
        <2>4. DialogIsGranted'
              BY <1>1, <1>2, <2>2 DEF DialogIsGranted, Linked, IsSuper, Granted
        <2> QED BY <1>1, <1>3, <2>1, <2>2, <2>3, <2>4, OneCallGoes DEF CallsAreFair, OursAnnounced
  <1>5. CASE o.how # "ask"
        BY <1>1, <1>2, <1>3, <1>5, SendGrants DEF Press
  <1> QED BY <1>4, <1>5

LEMMA ConfirmGrants ==
    ASSUME ConsoleTyped, GrantsInv, Confirm
    PROVE  GrantsInv'
  <1>1. tab.dialog # None /\ tab.dialog \in Offered /\ Send(tab.dialog)
        /\ UNCHANGED <<account, identity, current>>
        BY DEF Confirm, ConsoleTyped, ConsoleTypeOK, TabType
  <1>2. PICK o \in Offered : o = tab.dialog
        BY <1>1
  <1> QED BY <1>1, <1>2, SendGrants DEF GrantsInv, DialogIsGranted, OursAnnounced

\* The tab as it was, with one call answered or gone.
LEMMA AnswerGrants ==
    ASSUME ConsoleTyped, GrantsInv, NEW n \in Slots, tab' = tab, UNCHANGED <<account, identity, current>>,
           \/ calls' = [calls EXCEPT ![n] = None]
           \/ /\ calls' = [calls EXCEPT ![n] = calls'[n]]
              /\ FairWell(calls'[n]) /\ (tab.page = "announcements" => OursCalled(calls'[n]))
    PROVE  GrantsInv'
  <1>1. GroupIsChosen' /\ DialogIsGranted'
        BY GroupStays, DialogStays DEF GrantsInv
  <1>2. \A k \in Slots \ {n} : calls'[k] = calls[k]
        BY DEF ConsoleTyped, ConsoleTypeOK
  <1>3. calls'[n] # None => /\ FairWell(calls'[n])
                            /\ tab.page = "announcements" => OursCalled(calls'[n])
        BY DEF ConsoleTyped, ConsoleTypeOK
  <1> QED BY <1>1, <1>2, <1>3, OneCallGoes DEF GrantsInv, OursAnnounced

\* The rs of announcements are of the group they were asked for.
LEMMA AnnouncementsOf ==
    ASSUME NEW g, g # None, NEW open, NEW a
    PROVE  \A r \in ListRows("announcements", a, g, open) : r.group = g
  BY DEF ListRows, AnnouncementRows, RowsOf, Asked

LEMMA OutcomeIsFair ==
    ASSUME NEW c \in CallType, c.here, FairWell(c)
    PROVE  \A status : \A rs : \A d :
              status \in Outcomes(c) /\ rs \in Payload(c, status)
              /\ d = [c EXCEPT !.back = TRUE, !.status = status, !.rows = rs]
              => /\ FairWell(d)
                 /\ c.page = "announcements" /\ None \notin Manageable /\ OursCalled(c) => OursCalled(d)
  <1> SUFFICES ASSUME NEW status, NEW rs, NEW d, status \in Outcomes(c), rs \in Payload(c, status),
                      d = [c EXCEPT !.back = TRUE, !.status = status, !.rows = rs]
               PROVE  /\ FairWell(d)
                      /\ c.page = "announcements" /\ None \notin Manageable /\ OursCalled(c)
                         => OursCalled(d)
      OBVIOUS
  <1>1. /\ d.page = c.page /\ d.act = c.act /\ d.group = c.group /\ d.here = c.here /\ d.fair = c.fair
        /\ d.status = status /\ d.rows = rs
        BY DEF CallType
  <1>2. ASSUME c.fair, c.group # None \/ account.super, ~(c.page = "audit" /\ c.act = "export")
        PROVE  status \notin {"forbidden", "bad"}
        BY <1>2 DEF FairWell, Granted, Outcomes
  <1>3. FairWell(d)
        BY <1>1, <1>2 DEF FairWell
  <1>4. ASSUME c.page = "announcements", None \notin Manageable, OursCalled(c)
        PROVE  OursCalled(d)
        <2>1. c.group \in Manageable /\ c.group # None
              BY <1>4 DEF OursCalled
        <2>2. rs = {} \/ \E open \in SUBSET Groups : rs = ListRows("announcements", account, c.group, open)
              BY <1>4 DEF Payload
        <2>3. InOurs(rs)
              BY <2>1, <2>2, AnnouncementsOf DEF InOurs
        <2> QED BY <1>1, <2>1, <2>3 DEF OursCalled
  <1> QED BY <1>3, <1>4

LEMMA ServeGrants ==
    ASSUME ConsoleTyped, HereIsShown, GrantsInv, NEW n \in Slots, ServeCall(n) \/ Lose(n)
    PROVE  GrantsInv'
  <1> USE DEF GrantsInv
  <1> DEFINE c == calls[n]
  <1>1. tab' = tab /\ UNCHANGED <<account, identity, current>>
        BY DEF ServeCall, Lose
  <1>2. /\ c # None /\ c \in CallType /\ FairWell(c) /\ None \notin Manageable
        /\ tab.page = "announcements" => OursCalled(c)
        <2>1. c # None
              BY DEF ServeCall, Lose
        <2>2. None \notin Manageable
              BY ManageableIsTyped, ConsoleConstants DEF ConsoleTyped, ConsoleTypeOK
        <2> QED BY <2>1, <2>2 DEF ConsoleTyped, ConsoleTypeOK, CallsAreFair, OursAnnounced
  <1>3. \/ calls' = [calls EXCEPT ![n] = None]
        \/ \E status \in {"ok", "failed", "gone", "forbidden", "bad"}, rs \in SUBSET Rows :
              /\ Answered(n, status, rs)
              /\ \/ status \in {"gone", "failed"} /\ rs = {}
                 \/ c.here /\ status \in Outcomes(c) /\ rs \in Payload(c, status)
        <2>1. CASE ServeCall(n)
              BY <2>1, ServeCallServes DEF ServedAs
        <2>2. CASE Lose(n)
              BY <2>2 DEF Lose
        <2> QED BY <2>1, <2>2
  <1>4. CASE calls' = [calls EXCEPT ![n] = None]
        BY <1>1, <1>4, AnswerGrants
  <1>5. ASSUME NEW status \in {"ok", "failed", "gone", "forbidden", "bad"}, NEW rs \in SUBSET Rows,
               Answered(n, status, rs),
               \/ status \in {"gone", "failed"} /\ rs = {}
               \/ c.here /\ status \in Outcomes(c) /\ rs \in Payload(c, status)
        PROVE  GrantsInv'
        <2> DEFINE d == [c EXCEPT !.back = TRUE, !.status = status, !.rows = rs]
        <2>1. calls' = [calls EXCEPT ![n] = d]
              BY <1>2, <1>5 DEF Answered, ConsoleTyped, ConsoleTypeOK
        <2>2. /\ FairWell(d)
              /\ tab.page = "announcements" => OursCalled(d)
              <3>1. CASE status \in {"gone", "failed"} /\ rs = {}
                    <4>1. /\ d.page = c.page /\ d.act = c.act /\ d.group = c.group /\ d.here = c.here
                          /\ d.fair = c.fair /\ d.status = status /\ d.rows = {}
                          BY <1>2, <3>1 DEF CallType
                    <4> QED BY <1>2, <3>1, <4>1 DEF FairWell, OursCalled, InOurs
              <3>2. CASE c.here /\ status \in Outcomes(c) /\ rs \in Payload(c, status)
                    <4>1. c.page = tab.page
                          BY <1>2, <3>2 DEF HereIsShown, Here
                    <4>2. PICK e : e = d
                          OBVIOUS
                    <4>3. /\ FairWell(e)
                          /\ c.page = "announcements" /\ None \notin Manageable /\ OursCalled(c) => OursCalled(e)
                          BY <1>2, <3>2, <4>2, OutcomeIsFair
                    <4> QED BY <1>2, <4>1, <4>2, <4>3
              <3> QED BY <1>5, <3>1, <3>2
        <2> HIDE DEF d
        <2>3. calls'[n] = d
              BY <2>1 DEF ConsoleTyped, ConsoleTypeOK
        <2> QED BY <1>1, <2>1, <2>2, <2>3, AnswerGrants
  <1> QED BY <1>3, <1>4, <1>5

LEMMA HearGrants ==
    ASSUME ConsoleTyped, HereIsShown, GrantsInv, NEW n \in Slots, Hear(n)
    PROVE  GrantsInv'
  <1> USE DEF GrantsInv
  <1> DEFINE c == calls[n]
  <1>1. /\ c # None /\ c \in CallType /\ HeardAs(n) /\ tab \in TabType
        /\ UNCHANGED <<account, identity, current>>
        BY HearHears DEF ConsoleTyped, ConsoleTypeOK, Hear
  <1>2. c.here => /\ c.page = tab.page /\ tab.page \in Pages
                  /\ c.act # "list" /\ c.flag # "none" => c.page \in Hearing
        BY <1>1 DEF HereIsShown, Here, ConsoleTyped, CallsAreMade
  <1>3. c.here /\ tab.page = "announcements" => Manageable # {} /\ InOurs(c.rows) /\ InOurs({})
        BY <1>1 DEF OursAnnounced, OursCalled, InOurs
  <1>4. CASE SentAway(n)
        <2>1. \A k \in Slots : calls'[k] # None => ~calls'[k].here /\ ~calls'[k].fair
              BY <1>4, OrphansAreTyped DEF SentAway, ConsoleTyped
        <2>2. tab'.page = "login" /\ (tab' = tab \/ tab'.dialog = None)
              BY <1>4 DEF SentAway, Blank
        <2>3. tab.page = "login" => tab.dialog = None
              BY DEF ConsoleTyped, DialogIsHeard, Hearing, Pages, GroupPages, PlatformPages
        <2>4. tab'.dialog = None /\ tab'.page \notin Pages
              BY <2>2, <2>3 DEF Pages, GroupPages, PlatformPages
        <2> QED BY <1>1, <2>1, <2>4, NothingIsUnfair DEF TabKnows
  <1>5. CASE calls' = [calls EXCEPT ![n] = None] /\ UNCHANGED tab
        BY <1>1, <1>5, AnswerGrants
  <1>6. ASSUME c.here, tab'.page = tab.page, tab'.group = tab.group, tab'.dialog \in {None, tab.dialog},
               tab'.rows \in {tab.rows, c.rows, {}}, calls' = [calls EXCEPT ![n] = None]
        PROVE  GrantsInv'
        <2>1. GroupIsChosen' /\ DialogIsGranted'
              BY <1>1, <1>6, GroupStays, DialogStays
        <2>2. calls'[n] = None /\ \A k \in Slots \ {n} : calls'[k] = calls[k]
              BY <1>6 DEF ConsoleTyped, ConsoleTypeOK
        <2>3. tab.page = "announcements" =>
                 /\ Manageable # {} /\ InOurs(tab'.rows)
                 /\ tab'.dialog # None => tab'.dialog.group \in Manageable
              BY <1>3, <1>6 DEF OursAnnounced
        <2> QED BY <1>1, <1>6, <2>1, <2>2, <2>3, OneCallGoes
  <1>7. ASSUME c.here, tab'.page = tab.page, tab'.dialog \in {None, tab.dialog}, GroupIsChosen',
               NEW g, calls' = [calls EXCEPT ![n] = Call(c.page, "list", g, c.flag)],
               current /\ Linked(c.page) => Granted(c.page, "list", g), tab.page # "announcements"
        PROVE  GrantsInv'
        <2>1. DialogIsGranted'
              BY <1>1, <1>7, DialogStays
        <2>2. calls'[n] = Call(c.page, "list", g, c.flag) /\ \A k \in Slots \ {n} : calls'[k] = calls[k]
              BY <1>7 DEF ConsoleTyped, ConsoleTypeOK
        <2>3. FairWell(Call(c.page, "list", g, c.flag))
              BY <1>7, NewCallIsFair
        <2> QED BY <1>1, <1>7, <2>1, <2>2, <2>3, OneCallGoes
  <1>8. CASE c.here /\ tab' = Listed(c) /\ calls' = [calls EXCEPT ![n] = None]
        <2>1. /\ tab'.page = tab.page /\ tab'.group = tab.group /\ tab'.dialog = tab.dialog
              /\ tab'.rows \in {tab.rows, c.rows, {}}
              BY <1>1, <1>8 DEF Listed, TabType
        <2> QED BY <1>6, <1>8, <2>1
  <1>9. ASSUME c.here, c.page = "permissions", NEW g \in Groups,
               tab' = [Listed(c) EXCEPT !.group = g, !.loading = TRUE, !.busy = tab.busy],
               calls' = [calls EXCEPT ![n] = Call(c.page, "list", g, c.flag)]
        PROVE  GrantsInv'
        <2>1. tab'.page = tab.page /\ tab'.group = g /\ tab'.dialog = tab.dialog
              BY <1>1, <1>9 DEF Listed, TabType
        <2>2. Linked("permissions") => IsSuper
              BY DEF Linked, PlatformPages
        <2>3. Linked("permissions") => g \in Choices("permissions") /\ Asks("permissions", g)
              BY <2>2 DEF Choices, Asks, PermissionsAsks
        <2>4. GroupIsChosen'
              <3>1. IsSuper' <=> IsSuper
                    BY <1>1 DEF IsSuper
              <3>2. tab'.page = "permissions"
                    BY <1>2, <1>9, <2>1
              <3>3. Linked("permissions")' => g \in Choices("permissions")'
                    BY <2>3, <3>1 DEF Linked, Choices, PlatformPages
              <3> QED BY <2>1, <3>2, <3>3 DEF GroupIsChosen
        <2>5. current /\ Linked("permissions") => Granted("permissions", "list", g)
              <3>1. "permissions" \in Pages /\ identity # None
                    BY <1>2, <1>9 DEF TabKnows
              <3> QED BY <2>3, <3>1, ListsAreGranted DEF TabKnows, ConsoleTyped
        <2> QED BY <1>2, <1>7, <1>9, <2>1, <2>4, <2>5
  <1>10. CASE /\ c.here /\ c.act # "list" /\ c.flag # "none"
              /\ tab' = Hears(c).tab
              /\ calls' = IF Hears(c).again THEN Again(n, c) ELSE [calls EXCEPT ![n] = None]
        <2>1. HeardWell(Hears(c), c)
              BY <1>1, <1>2, <1>10, HearsAreTyped DEF ConsoleTyped
        <2>2. /\ tab'.page = tab.page /\ tab'.group = tab.group /\ tab'.dialog \in {None, tab.dialog}
              /\ tab'.rows \in {tab.rows, c.rows, {}}
              BY <1>10, <2>1 DEF HeardWell
        <2>3. CASE ~Hears(c).again
              BY <1>6, <1>10, <2>2, <2>3
        <2>4. CASE Hears(c).again
              <3>1. /\ calls' = [calls EXCEPT ![n] = Call(c.page, "list", tab.group, c.flag)]
                    /\ c.page # "announcements" /\ (Asks(c.page, tab.group) \/ c.page = "status")
                    BY <1>10, <2>1, <2>4 DEF HeardWell, Again
              <3>2. current /\ Linked(c.page) => Granted(c.page, "list", tab.group)
                    <4>1. SUFFICES ASSUME current, Linked(c.page)
                                   PROVE  Granted(c.page, "list", tab.group)
                          OBVIOUS
                    <4>2. Asks(c.page, tab.group)
                          BY <3>1, <4>1 DEF Linked, PlatformPages, Asks, StatusAsks
                    <4>3. tab.group \in Begins(c.page) \cup Choices(c.page) /\ c.page \in Pages
                          BY <1>2, <1>10, <4>1 DEF GroupIsChosen
                    <4> QED BY <1>2, <1>10, <4>1, <4>2, <4>3, ListsAreGranted DEF TabKnows, ConsoleTyped
              <3>3. GroupIsChosen'
                    BY <1>1, <2>2, GroupStays
              <3> QED BY <1>2, <1>7, <1>10, <2>2, <3>1, <3>2, <3>3
        <2> QED BY <2>3, <2>4
  <1> QED BY <1>1, <1>4, <1>5, <1>8, <1>9, <1>10 DEF HeardAs

LEMMA OthersGrant ==
    ASSUME ConsoleTyped, HereIsShown, GrantsInv,
           \/ Escape \/ Login \/ Reload \/ SignOut
           \/ OtherLogin \/ (\E s \in Others : OtherUses(s)) \/ Restart
           \/ (\E a \in Accounts : Regrade(a)) \/ Tick
    PROVE  GrantsInv'
  <1> USE DEF GrantsInv
  <1>0. "login" \notin Pages /\ "starting" \notin Pages
        BY DEF Pages, GroupPages, PlatformPages
  <1>1. CASE Escape
        <2>1. /\ tab'.page = tab.page /\ tab'.group = tab.group /\ tab'.rows = tab.rows
              /\ tab'.view = tab.view /\ tab'.dialog = None
              /\ UNCHANGED <<account, identity, current, calls>>
              BY <1>1 DEF Escape, ConsoleTyped, ConsoleTypeOK, TabType
        <2>2. GroupIsChosen' /\ DialogIsGranted'
              BY <2>1, GroupStays, DialogStays
        <2> QED BY <2>1, <2>2, OneCallGoes DEF CallsAreFair, OursAnnounced
  <1>2. CASE Login
        <2>1. \A n \in Slots : calls'[n] # None => ~calls'[n].here /\ ~calls'[n].fair
              BY <1>0, <1>2 DEF Login, HereIsShown, Here, CallsAreFair, FairWell
        <2> QED BY <1>0, <1>2, <2>1, NothingIsUnfair DEF Login, Blank
  <1>3. CASE Reload \/ SignOut
        <2>1. \A n \in Slots : calls'[n] # None => ~calls'[n].here /\ ~calls'[n].fair
              BY <1>3, OrphansAreTyped DEF Reload, SignOut, ConsoleTyped
        <2>2. /\ tab'.page \notin Pages /\ tab'.dialog = None
              /\ current' /\ identity' # None => identity' = account'
              BY <1>0, <1>3 DEF Reload, SignOut, Blank
        <2> QED BY <2>1, <2>2, NothingIsUnfair
  <1>4. CASE UNCHANGED <<tab, calls, account, identity, current>>
        <2>1. GroupIsChosen' /\ DialogIsGranted'
              BY <1>4, GroupStays, DialogStays
        <2> QED BY <1>4, <2>1, OneCallGoes DEF CallsAreFair, OursAnnounced
  <1>5. CASE \E a \in Accounts : Regrade(a)
        <2>1. /\ tab' = tab /\ identity' = identity /\ current' = FALSE
              /\ \A k \in Slots :
                   calls'[k] = IF calls[k] = None THEN None ELSE [calls[k] EXCEPT !.fair = FALSE]
              BY <1>5 DEF Regrade
        <2>2. ASSUME NEW k \in Slots, calls'[k] # None
              PROVE  /\ calls[k] # None /\ calls'[k].here = calls[k].here /\ calls'[k].fair = FALSE
                     /\ calls'[k].group = calls[k].group /\ calls'[k].rows = calls[k].rows
              <3>1. calls[k] # None /\ calls[k] \in CallType
                    BY <2>1, <2>2 DEF ConsoleTyped, ConsoleTypeOK
              <3> QED BY <2>1, <3>1 DEF CallType
        <2>3. GroupIsChosen'
              BY <2>1, GroupStays
        <2>4. Manageable' = Manageable
              BY <2>1 DEF Manageable, GroupOptions, LevelIn, IsSuper
        <2>5. OursAnnounced'
              BY <2>1, <2>2, <2>4 DEF OursAnnounced, OursCalled, InOurs
        <2>6. CallsAreFair'
              BY <2>2 DEF CallsAreFair, FairWell
        <2> QED BY <2>1, <2>3, <2>5, <2>6 DEF TabKnows, DialogIsGranted
  <1> QED BY <1>1, <1>2, <1>3, <1>4, <1>5 DEF OtherLogin, OtherUses, Restart, Tick
-----------------------------------------------------------------------------
(* The invariant, and what follows from it *)

ConsoleInv == ConsoleTyped /\ WritesInv /\ SessionsInv /\ GrantsInv

LEMMA ConsoleBegins ==
    ConsoleInit => ConsoleInv
  <1> SUFFICES ASSUME ConsoleInit PROVE ConsoleInv
      OBVIOUS
  <1>1. ConsoleTyped
        BY TypedHolds
  <1>2. /\ tab.page = "starting" /\ tab.dialog = None /\ tab.page \notin Pages
        /\ \A n \in Slots : calls[n] = None
        BY DEF ConsoleInit, Blank, Pages, GroupPages, PlatformPages
  <1>3. WritesInv
        BY <1>2 DEF WritesInv, HereIsShown, BusyWithIt, DialogAsks, OneWriteAtATime, Here
  <1>4. SessionsInv
        <2>1. now = 0 /\ store = used
              BY DEF ConsoleInit
        <2>2. \A s \in Sids : used[s] = None \/ used[s] = 0
              BY DEF ConsoleInit
        <2> QED BY <2>1, <2>2 DEF SessionsInv, SessionsAgree, ActiveSessionStays
  <1>5. GrantsInv
        BY <1>2 DEF ConsoleInit, GrantsInv, TabKnows, GroupIsChosen, CallsAreFair, DialogIsGranted,
                    OursAnnounced
  <1> QED BY <1>1, <1>3, <1>4, <1>5 DEF ConsoleInv

LEMMA ConsoleSteps ==
    ConsoleInv /\ [ConsoleNext]_consoleVars => ConsoleInv'
  <1> SUFFICES ASSUME ConsoleInv, [ConsoleNext]_consoleVars PROVE ConsoleInv'
      OBVIOUS
  <1>0. ConsoleTyped /\ WritesInv /\ SessionsInv /\ GrantsInv /\ HereIsShown /\ DialogAsks
        BY DEF ConsoleInv, WritesInv
  <1> SUFFICES ASSUME ConsoleNext PROVE ConsoleTyped' /\ WritesInv' /\ GrantsInv'
      <2>1. CASE ConsoleNext
            BY <1>0, <2>1, SessionsStep DEF ConsoleInv
      <2>2. CASE UNCHANGED consoleVars
            <3>1. /\ UNCHANGED <<now, store, closed, used, account, cookie>>
                  /\ UNCHANGED <<identity, current, tab, calls, events>>
                  BY <2>2 DEF consoleVars, sessions
            <3>2. ConsoleTyped'
                  BY <1>0, <3>1 DEF ConsoleTyped, ConsoleTypeOK, CallsAreMade, DialogIsHeard, Here
            <3>3. WritesInv'
                  BY <1>0, <3>1 DEF WritesInv, HereIsShown, BusyWithIt, DialogAsks, OneWriteAtATime, Here
            <3>4. SessionsInv'
                  BY <1>0, <3>1 DEF SessionsInv, SessionsAgree, ActiveSessionStays
            <3>5. TabKnows' /\ GroupIsChosen'
                  BY <1>0, <3>1 DEF GrantsInv, TabKnows, GroupIsChosen, Linked, IsSuper, Begins,
                         Choices, SuperOr, OneOf, Reviewable, Manageable, GroupOptions, LevelIn
            <3>6. CallsAreFair' /\ DialogIsGranted'
                  BY <1>0, <3>1 DEF GrantsInv, CallsAreFair, FairWell, DialogIsGranted, Granted,
                         Linked, IsSuper
            <3>7. OursAnnounced'
                  BY <1>0, <3>1 DEF GrantsInv, OursAnnounced, OursCalled, InOurs, Manageable,
                         GroupOptions, LevelIn, IsSuper
            <3> QED BY <3>2, <3>3, <3>4, <3>5, <3>6, <3>7 DEF ConsoleInv, GrantsInv
      <2> QED BY <2>1, <2>2
  <1>1. ASSUME NEW p \in Pages \cup {"dashboard"}, OpenPage(p) PROVE ConsoleTyped' /\ WritesInv' /\ GrantsInv'
        BY <1>0, <1>1, OpenPageTyped, OpenPageWrites, OpenPageGrants
  <1>2. ASSUME NEW g \in Groups \cup {Default, None}, Choose(g)
        PROVE  ConsoleTyped' /\ WritesInv' /\ GrantsInv'
        BY <1>0, <1>2, ChooseTyped, ChooseWrites, ChooseGrants
  <1>3. ASSUME NEW o \in Offers, Press(o) PROVE ConsoleTyped' /\ WritesInv' /\ GrantsInv'
        BY <1>0, <1>3, PressTyped, PressWrites, PressGrants
  <1>4. CASE Confirm
        BY <1>0, <1>4, ConfirmTyped, ConfirmWrites, ConfirmGrants
  <1>5. ASSUME NEW n \in Slots, ServeCall(n) \/ Lose(n) PROVE ConsoleTyped' /\ WritesInv' /\ GrantsInv'
        BY <1>0, <1>5, ServeCallTyped, LoseTyped, ServeWrites, ServeGrants
  <1>6. ASSUME NEW n \in Slots, Hear(n) PROVE ConsoleTyped' /\ WritesInv' /\ GrantsInv'
        BY <1>0, <1>6, HearTyped, HearWrites, HearGrants
  <1>7. CASE \/ Escape \/ Login \/ Reload \/ SignOut
             \/ OtherLogin \/ (\E s \in Others : OtherUses(s)) \/ Restart
             \/ (\E a \in Accounts : Regrade(a)) \/ Tick
        BY <1>0, <1>7, EscapeTyped, LoginTyped, ReloadTyped, SignOutTyped, OthersTyped, OthersWrite,
           OthersGrant
  <1> QED BY <1>1, <1>2, <1>3, <1>4, <1>5, <1>6, <1>7 DEF ConsoleNext

LEMMA ConsoleHolds ==
    ConsoleSpec => []ConsoleInv
  BY ConsoleBegins, ConsoleSteps, PTL DEF ConsoleSpec

\* An answer to what was offered fairly is the one granted.
LEMMA FairlyAnswered ==
    CallsAreFair => OffersAreGranted
  BY DEF CallsAreFair, FairWell, OffersAreGranted

\* Every variable of the console has its type, whatever is pressed, answered,
\* lost and heard: a page is only busy with what it can be busy with, and time
\* passes by events.
THEOREM ConsoleIsTyped == ConsoleSpec => []ConsoleTypeOK
  <1>1. ConsoleInv => ConsoleTypeOK
        BY DEF ConsoleInv, ConsoleTyped
  <1> QED BY <1>1, ConsoleHolds, PTL

\* What a page of web/src offers, the server of src/adminApi grants, while the
\* tab's permissions are current: for any groups, levels and number of calls.
THEOREM OffersAreKept == ConsoleSpec => []OffersAreGranted
  <1>1. ConsoleInv => OffersAreGranted
        BY FairlyAnswered DEF ConsoleInv, GrantsInv
  <1> QED BY <1>1, ConsoleHolds, PTL

\* A page has one write of a kind under way, however answers and lists come in.
THEOREM WritesAreSingle == ConsoleSpec => []OneWriteAtATime
  <1>1. ConsoleInv => OneWriteAtATime
        BY DEF ConsoleInv, WritesInv
  <1> QED BY <1>1, ConsoleHolds, PTL

\* The session store takes no session that was used within its time, but by
\* signing out, a restart, or MaxSessions others seen since.
THEOREM SessionsAreKept == ConsoleSpec => []ActiveSessionStays
  <1>1. ConsoleInv => ActiveSessionStays
        BY DEF ConsoleInv, SessionsInv
  <1> QED BY <1>1, ConsoleHolds, PTL


=============================================================================
