---------------------------- MODULE Rules_proofs ----------------------------
(***************************************************************************)
(* Proofs about the rules, for any number of groups, fields, words, edits, *)
(* failed writes, reloads and restarts: that the variables keep their      *)
(* types, that a rule that no longer counts as set is inherited, and that  *)
(* a restart changes nothing.                                              *)
(*                                                                         *)
(* Every edit is one of three operations of the store (EditIsOneOf).       *)
(* ClearedFallsBack is inductive once the domains of the three variables   *)
(* are known.  For the restart, every write of the queue is blind: it      *)
(* leaves in a cell of the database what does not depend on what was       *)
(* there.  So a cell ends as its last queued write leaves it, and the      *)
(* inductive invariant (InStep) says that this is what memory holds.       *)
(***************************************************************************)
EXTENDS Rules, SequenceTheorems, TLAPS

(* ------------------------------- the types ------------------------------- *)

\* What the queue is made of.
Write ==
    [op : {"saveRow"}, group : Scopes, patch : Patch(Columns)]
    \union [op : {"saveBase"}]
    \union [op : {"clearColumns"}, group : Scopes, fields : SUBSET Columns]
    \union [op : {"deleteRow", "removeAll"}, group : Scopes]
    \union [op : {"replaceWords"}, group : Scopes, words : SUBSET Words]
    \union [op : {"saveSettings"}, group : Scopes, patch : Patch(Lists \union {Foreign})]
    \union [op : {"removeSettings"}, group : Scopes, fields : SUBSET Lists]

Typed == TypeOK /\ queue \in Seq(Write)

\* A patch gives some of the fields a value.
LEMMA PatchIs ==
    ASSUME NEW S, NEW p
    PROVE  p \in Patch(S) <=> /\ DOMAIN p \subseteq S /\ p = [f \in DOMAIN p |-> p[f]]
                              /\ \A f \in DOMAIN p : p[f] \subseteq Words
<1>1. ASSUME p \in Patch(S)
      PROVE  /\ DOMAIN p \subseteq S /\ p = [f \in DOMAIN p |-> p[f]]
             /\ \A f \in DOMAIN p : p[f] \subseteq Words
  <2>1. PICK T \in SUBSET S : p \in [T -> SUBSET Words]
    BY <1>1 DEF Patch
  <2> QED BY <2>1
<1>2. ASSUME DOMAIN p \subseteq S, p = [f \in DOMAIN p |-> p[f]],
             \A f \in DOMAIN p : p[f] \subseteq Words
      PROVE  p \in Patch(S)
  <2>1. p \in [DOMAIN p -> SUBSET Words]
    BY <1>2
  <2> QED BY <1>2, <2>1 DEF Patch
<1> QED BY <1>1, <1>2

LEMMA MergedPatch ==
    ASSUME NEW S, NEW p \in Patch(S), NEW q \in Patch(S)
    PROVE  Merged(p, q) \in Patch(S)
<1>1. DOMAIN Merged(p, q) = (DOMAIN p) \union (DOMAIN q)
  BY DEF Merged
<1>2. \A f \in DOMAIN Merged(p, q) : Merged(p, q)[f] \subseteq Words
  BY PatchIs DEF Merged
<1>3. Merged(p, q) = [f \in DOMAIN Merged(p, q) |-> Merged(p, q)[f]]
  BY DEF Merged
<1> QED BY <1>1, <1>2, <1>3, PatchIs

LEMMA RestrictedPatch ==
    ASSUME NEW S, NEW p \in Patch(S), NEW T
    PROVE  Restricted(p, T) \in Patch(S \intersect T)
<1>1. DOMAIN Restricted(p, T) = (DOMAIN p) \intersect T
  BY DEF Restricted
<1>2. \A f \in DOMAIN Restricted(p, T) : Restricted(p, T)[f] \subseteq Words
  BY PatchIs DEF Restricted
<1>3. Restricted(p, T) = [f \in DOMAIN Restricted(p, T) |-> Restricted(p, T)[f]]
  BY DEF Restricted
<1> QED BY <1>1, <1>2, <1>3, PatchIs

LEMMA WithoutPatch ==
    ASSUME NEW S, NEW p \in Patch(S), NEW T
    PROVE  Without(p, T) \in Patch(S)
<1>1. DOMAIN Without(p, T) = (DOMAIN p) \ T
  BY DEF Without
<1>2. \A f \in DOMAIN Without(p, T) : Without(p, T)[f] \subseteq Words
  BY PatchIs DEF Without
<1>3. Without(p, T) = [f \in DOMAIN Without(p, T) |-> Without(p, T)[f]]
  BY DEF Without
<1> QED BY <1>1, <1>2, <1>3, PatchIs

LEMMA PatchGrows ==
    ASSUME NEW S, NEW T, S \subseteq T
    PROVE  Patch(S) \subseteq Patch(T)
BY DEF Patch

LEMMA NoneIsPatch ==
    ASSUME NEW S
    PROVE  None \in Patch(S)
BY PatchIs DEF None

\* A value for every field stays one when a patch is merged into it.
LEMMA MergedConfig ==
    ASSUME NEW c \in [Fields -> SUBSET Words], NEW p \in Patch(Fields)
    PROVE  Merged(c, p) \in [Fields -> SUBSET Words]
<1>1. DOMAIN p \subseteq Fields /\ \A f \in DOMAIN p : p[f] \subseteq Words
  BY PatchIs
<1>2. Merged(c, p) = [f \in Fields |-> IF f \in DOMAIN p THEN p[f] ELSE c[f]]
  BY <1>1 DEF Merged
<1> QED BY <1>1, <1>2

\* What a group goes by is a value for every field.
LEMMA EffectiveTyped ==
    ASSUME TypeOK, NEW g \in Scopes
    PROVE  Effective(g) \in [Fields -> SUBSET Words]
<1>1. g # Default => over[g] \in Patch(Fields)
  BY DEF TypeOK, Scopes
<1> QED BY <1>1, MergedConfig DEF TypeOK, Effective

\* Every command, button and request edits through one of the three
\* operations of GroupConfigStore.
LEMMA EditIsOneOf ==
    ASSUME TypeOK, NEW u \in Users, NEW g \in Scopes, Edit(u, g)
    PROVE  \/ \E p \in Patch(Fields) : SetOverride(g, p)
           \/ \E S \in SUBSET Fields : ClearFields(g, S)
           \/ RemoveOverride(g)
<1>1. \A f \in Fields, v \in SUBSET Words : ParseRuleSetting(f, v) \in Patch(Fields)
  <2> TAKE f \in Fields, v \in SUBSET Words
  <2> QED BY PatchIs DEF ParseRuleSetting
<1>2. \A f \in Fields : Effective(g)[f] \subseteq Words
  BY EffectiveTyped
<1>3. Keywords \in Fields /\ Columns \subseteq Fields /\ Lists \subseteq Fields
  BY DEF Fields, SqlFields
<1>4. CASE \E f \in Columns, v \in {{}, Words} :
              HandleRulesSet(u, g, f, v) \/ ToggleRulesCard(u, g, f, v)
  <2>1. PICK f \in Columns, v \in {{}, Words} : SetOverride(g, ParseRuleSetting(f, v))
    BY <1>4 DEF HandleRulesSet, ToggleRulesCard, HandleGlobalRulesSet
  <2>2. f \in Fields /\ v \in SUBSET Words
    BY <1>3
  <2> QED BY <1>1, <2>1, <2>2
<1>5. CASE \E f \in Fields, v \in SUBSET Words : g = Default /\ HandleGlobalRulesSet(u, f, v)
  BY <1>1, <1>5 DEF HandleGlobalRulesSet
<1>6. CASE \/ \E w \in Words : KeywordAdd(u, g, w) \/ KeywordDelete(u, g, w)
           \/ DelKeywordCard(u, g) \/ ClearKeywordsCard(u, g)
  <2>1. \A w \in Words : /\ Effective(g)[Keywords] \union {w} \in SUBSET Words
                         /\ Effective(g)[Keywords] \ {w} \in SUBSET Words
    BY <1>2, <1>3
  <2>2. \A w \in Effective(g)[Keywords] : w \in Words
    BY <1>2, <1>3
  <2>3. {} \in SUBSET Words
    OBVIOUS
  <2>4. \E v \in SUBSET Words : SetOverride(g, ParseRuleSetting(Keywords, v))
    BY <1>6, <2>1, <2>2, <2>3
    DEF KeywordAdd, KeywordDelete, DelKeywordCard, ClearKeywordsCard
  <2> QED BY <1>1, <1>3, <2>4
<1>7. CASE \/ \E f \in Lists, w \in Words : \/ ListAdd(u, g, f, w) \/ ListDelete(u, g, f, w)
                                            \/ RosterToggleCard(u, g, f, w)
                                            \/ PunishToggleCard(u, g, f, w)
           \/ \E f \in Lists : ClearRuleListCard(u, g, f)
  <2>1. \A f \in Lists, w \in Words : /\ Effective(g)[f] \union {w} \in SUBSET Words
                                      /\ Effective(g)[f] \ {w} \in SUBSET Words
                                      /\ Flip(Effective(g)[f], w) \in SUBSET Words
    BY <1>2, <1>3 DEF Flip
  <2>2. {} \in SUBSET Words
    OBVIOUS
  <2>3. \E f \in Lists, v \in SUBSET Words : SetOverride(g, ParseRuleSetting(f, v))
    BY <1>7, <2>1, <2>2
    DEF ListAdd, ListDelete, RosterToggleCard, PunishToggleCard, ClearRuleListCard
  <2> QED BY <1>1, <1>3, <2>3
<1>8. CASE \E S \in {Columns, {Keywords}, Lists} : ResetRulePageCard(u, g, Fields, S)
  <2>1. \A S : Fields \intersect S \in SUBSET Fields
    OBVIOUS
  <2> QED BY <1>8, <2>1 DEF ResetRulePageCard
<1>9. CASE ResetAllRulesCard(u, g) \/ ResetRuleGroup(u, g)
  BY <1>9 DEF ResetAllRulesCard, ResetRuleGroup
<1>10. CASE \E p \in [Columns \union Lists -> {{}, Words}] : PutRules(u, g, p)
  <2>1. PICK p \in [Columns \union Lists -> {{}, Words}] : SetOverride(g, p)
    BY <1>10 DEF PutRules, ApplyRuleUpdates
  <2>2. p \in Patch(Fields)
    BY <1>3, PatchIs
  <2> QED BY <2>1, <2>2
<1>11. CASE \E ws \in SUBSET Words : PostRuleKeywords(u, g, ws)
  <2>1. \A ws \in SUBSET Words : /\ Effective(g)[Keywords] \union ws \in SUBSET Words
                                 /\ Effective(g)[Keywords] \ ws \in SUBSET Words
    BY <1>2, <1>3
  <2>2. \E v \in SUBSET Words : SetOverride(g, ParseRuleSetting(Keywords, v))
    BY <1>11, <2>1 DEF PostRuleKeywords, AddRuleKeywords, RemoveRuleKeywords
  <2> QED BY <1>1, <1>3, <2>2
<1>12. CASE \E S \in SUBSET Fields : PostResetFields(u, g, S)
  BY <1>12 DEF PostResetFields, ResetRuleFields
<1> QED
  BY <1>4, <1>5, <1>6, <1>7, <1>8, <1>9, <1>10, <1>11, <1>12 DEF Edit

(* --------------------------- what is queued ------------------------------ *)

\* The writes of a sequence, and how an edit puts them at the end of the queue.
Among(ws, S) == ws \in Seq(Write) /\ \A w : w \in S <=> \E k \in DOMAIN ws : ws[k] = w
Only(cond, w) == IF cond THEN {w} ELSE {}
Queued(S) == \E ws : Among(ws, S) /\ queue' = queue \o ws

LEMMA AmongWhen ==
    ASSUME NEW w, NEW cond \in BOOLEAN, cond => w \in Write
    PROVE  Among(When(cond, <<w>>), Only(cond, w))
<1>1. CASE cond
  <2>1. <<w>> \in Seq(Write) /\ DOMAIN <<w>> = {1} /\ <<w>>[1] = w
    BY <1>1
  <2> QED BY <1>1, <2>1 DEF Among, When, Only
<1>2. CASE ~cond
  <2>1. <<>> \in Seq(Write) /\ DOMAIN <<>> = {}
    OBVIOUS
  <2> QED BY <1>2, <2>1 DEF Among, When, Only
<1> QED BY <1>1, <1>2

LEMMA AmongBoth ==
    ASSUME NEW a, NEW b, NEW A, NEW B, Among(a, A), Among(b, B)
    PROVE  Among(a \o b, A \union B)
<1>1. a \in Seq(Write) /\ b \in Seq(Write)
  BY DEF Among
<1>2. /\ a \o b \in Seq(Write) /\ Len(a \o b) = Len(a) + Len(b)
      /\ \A k \in 1 .. Len(a) + Len(b) :
            (a \o b)[k] = IF k <= Len(a) THEN a[k] ELSE b[k - Len(a)]
  BY <1>1, ConcatProperties
<1>3. /\ Len(a) \in Nat /\ Len(b) \in Nat
      /\ DOMAIN a = 1 .. Len(a) /\ DOMAIN b = 1 .. Len(b)
      /\ DOMAIN (a \o b) = 1 .. Len(a) + Len(b)
  BY <1>1, <1>2
<1>4. ASSUME NEW w, \E k \in DOMAIN a : a[k] = w PROVE \E k \in DOMAIN (a \o b) : (a \o b)[k] = w
  <2>1. PICK k \in 1 .. Len(a) : a[k] = w
    BY <1>3, <1>4
  <2>2. k \in 1 .. Len(a) + Len(b) /\ (a \o b)[k] = w
    BY <1>2, <1>3, <2>1
  <2> QED BY <1>3, <2>2
<1>5. ASSUME NEW w, \E k \in DOMAIN b : b[k] = w PROVE \E k \in DOMAIN (a \o b) : (a \o b)[k] = w
  <2>1. PICK k \in 1 .. Len(b) : b[k] = w
    BY <1>3, <1>5
  <2>2. k + Len(a) \in 1 .. Len(a) + Len(b) /\ (a \o b)[k + Len(a)] = w
    BY <1>2, <1>3, <2>1
  <2> QED BY <1>3, <2>2
<1>6. ASSUME NEW k \in DOMAIN (a \o b)
      PROVE  \/ \E j \in DOMAIN a : a[j] = (a \o b)[k]
             \/ \E j \in DOMAIN b : b[j] = (a \o b)[k]
  <2>1. CASE k <= Len(a)
    BY <1>2, <1>3, <1>6, <2>1
  <2>2. CASE k > Len(a)
    <3>1. k - Len(a) \in 1 .. Len(b) /\ (a \o b)[k] = b[k - Len(a)]
      BY <1>2, <1>3, <1>6, <2>2
    <3> QED BY <1>3, <3>1
  <2> QED BY <1>3, <1>6, <2>1, <2>2
<1> QED BY <1>1, <1>2, <1>4, <1>5, <1>6 DEF Among

\* Each constructor gives one write, of its type.
LEMMA WritesTyped ==
    /\ \A g \in Scopes, p \in Patch(Fields) :
          SaveRow(g, p) = <<SaveRow(g, p)[1]>> /\ SaveRow(g, p)[1] \in Write
    /\ SaveBase = <<SaveBase[1]>> /\ SaveBase[1] \in Write
    /\ \A g \in Scopes, S \in SUBSET Fields :
          /\ ClearColumns(g, S) = <<ClearColumns(g, S)[1]>> /\ ClearColumns(g, S)[1] \in Write
          /\ RemoveSettings(g, S) = <<RemoveSettings(g, S)[1]>> /\ RemoveSettings(g, S)[1] \in Write
    /\ \A g \in Scopes : /\ DeleteRow(g) = <<DeleteRow(g)[1]>> /\ DeleteRow(g)[1] \in Write
                         /\ RemoveAll(g) = <<RemoveAll(g)[1]>> /\ RemoveAll(g)[1] \in Write
    /\ \A g \in Scopes, v \in SUBSET Words :
          ReplaceWords(g, v) = <<ReplaceWords(g, v)[1]>> /\ ReplaceWords(g, v)[1] \in Write
    /\ \A g \in Scopes, p \in Patch(Lists \union {Foreign}) :
          SaveSettings(g, p) = <<SaveSettings(g, p)[1]>> /\ SaveSettings(g, p)[1] \in Write
<1>1. ASSUME NEW g \in Scopes, NEW p \in Patch(Fields)
      PROVE  SaveRow(g, p) = <<SaveRow(g, p)[1]>> /\ SaveRow(g, p)[1] \in Write
  <2>1. Restricted(p, Columns) \in Patch(Fields \intersect Columns)
    BY RestrictedPatch
  <2>2. Fields \intersect Columns = Columns
    BY DEF Fields, SqlFields
  <2> DEFINE q == Restricted(p, Columns)
  <2>4. q \in Patch(Columns) /\ SaveRow(g, p) = <<[op |-> "saveRow", group |-> g, patch |-> q]>>
    BY <2>1, <2>2 DEF SaveRow
  <2> HIDE DEF q
  <2> QED BY <2>4 DEF Write
<1>2. SaveBase = <<SaveBase[1]>> /\ SaveBase[1] \in Write
  BY DEF SaveBase, Write
<1>3. ASSUME NEW g \in Scopes, NEW S \in SUBSET Fields
      PROVE  /\ ClearColumns(g, S) = <<ClearColumns(g, S)[1]>> /\ ClearColumns(g, S)[1] \in Write
             /\ RemoveSettings(g, S) = <<RemoveSettings(g, S)[1]>> /\ RemoveSettings(g, S)[1] \in Write
  BY DEF ClearColumns, RemoveSettings, Write
<1>4. ASSUME NEW g \in Scopes
      PROVE  /\ DeleteRow(g) = <<DeleteRow(g)[1]>> /\ DeleteRow(g)[1] \in Write
             /\ RemoveAll(g) = <<RemoveAll(g)[1]>> /\ RemoveAll(g)[1] \in Write
  BY DEF DeleteRow, RemoveAll, Write
<1>5. ASSUME NEW g \in Scopes, NEW v \in SUBSET Words
      PROVE  ReplaceWords(g, v) = <<ReplaceWords(g, v)[1]>> /\ ReplaceWords(g, v)[1] \in Write
  BY DEF ReplaceWords, Write
<1>6. ASSUME NEW g \in Scopes, NEW p \in Patch(Lists \union {Foreign})
      PROVE  SaveSettings(g, p) = <<SaveSettings(g, p)[1]>> /\ SaveSettings(g, p)[1] \in Write
  BY DEF SaveSettings, Write
<1> QED BY <1>1, <1>2, <1>3, <1>4, <1>5, <1>6

\* What each operation queues, as a set.
SetWrites(row, cond, g, p) ==
    Only(cond, row[1])
    \union Only((DOMAIN p) \intersect {Keywords} # {}, ReplaceWords(g, p[Keywords])[1])
    \union Only((DOMAIN p) \intersect Lists # {}, SaveSettings(g, Restricted(p, Lists))[1])
GroupSets(g, p) ==
    SetWrites(SaveRow(g, Merged(over[g], p)), (DOMAIN p) \intersect SqlFields # {}, g, p)
DefaultSets(p) ==
    SetWrites(SaveRow(Default, Restricted(Merged(base, p), explicit[Default] \union DOMAIN p)),
              TRUE, Default, p)
ClearWrites(columns, cond, g, S) ==
    Only(cond, columns[1])
    \union Only(Keywords \in S, ReplaceWords(g, {})[1])
    \union Only(S \intersect Lists # {}, RemoveSettings(g, S)[1])
GroupClears(g, S) == ClearWrites(ClearColumns(g, S), S \intersect Columns # {}, g, S)
DefaultClears(S)  == ClearWrites(SaveBase, S \intersect SqlFields # {}, Default, S)
Removes(g) == {DeleteRow(g)[1], ReplaceWords(g, {})[1], RemoveAll(g)[1]}

\* The two writes that follow the row of a setting are of their types.
LEMMA PatchParts ==
    ASSUME NEW p \in Patch(Fields)
    PROVE  /\ Restricted(p, Lists) \in Patch(Lists \union {Foreign})
           /\ (DOMAIN p) \intersect {Keywords} # {} => p[Keywords] \in SUBSET Words
<1>1. Restricted(p, Lists) \in Patch(Fields \intersect Lists)
  BY RestrictedPatch
<1>2. Fields \intersect Lists \subseteq Lists \union {Foreign}
  OBVIOUS
<1>3. Restricted(p, Lists) \in Patch(Lists \union {Foreign})
  BY <1>1, <1>2, PatchGrows
<1> QED BY <1>3, PatchIs

LEMMA SetQueues ==
    ASSUME TypeOK, NEW g \in Scopes, NEW p \in Patch(Fields), SetOverride(g, p)
    PROVE  Queued(IF g = Default THEN DefaultSets(p) ELSE GroupSets(g, p))
<1> DEFINE kw == When((DOMAIN p) \intersect {Keywords} # {}, ReplaceWords(g, p[Keywords]))
           ls == When((DOMAIN p) \intersect Lists # {}, SaveSettings(g, Restricted(p, Lists)))
<1>1. Among(kw, Only((DOMAIN p) \intersect {Keywords} # {}, ReplaceWords(g, p[Keywords])[1]))
  <2> DEFINE w == ReplaceWords(g, p[Keywords])[1]
  <2>1. (DOMAIN p) \intersect {Keywords} # {} => w \in Write
    BY PatchParts, WritesTyped
  <2>2. ReplaceWords(g, p[Keywords]) = <<w>>
    BY DEF ReplaceWords
  <2> HIDE DEF w
  <2>3. Among(When((DOMAIN p) \intersect {Keywords} # {}, <<w>>),
              Only((DOMAIN p) \intersect {Keywords} # {}, w))
    BY <2>1, AmongWhen
  <2> QED BY <2>2, <2>3 DEF w
<1>2. Among(ls, Only((DOMAIN p) \intersect Lists # {}, SaveSettings(g, Restricted(p, Lists))[1]))
  <2> DEFINE w == SaveSettings(g, Restricted(p, Lists))[1]
  <2>1. w \in Write /\ SaveSettings(g, Restricted(p, Lists)) = <<w>>
    BY PatchParts, WritesTyped
  <2> HIDE DEF w
  <2>2. Among(When((DOMAIN p) \intersect Lists # {}, <<w>>),
              Only((DOMAIN p) \intersect Lists # {}, w))
    BY <2>1, AmongWhen
  <2> QED BY <2>1, <2>2 DEF w
<1>3. CASE g = Default
  <2> DEFINE q == Restricted(Merged(base, p), explicit[Default] \union DOMAIN p)
             w == SaveRow(Default, q)[1]
  <2>1. Merged(base, p) \in Patch(Fields)
    <3>1. Merged(base, p) \in [Fields -> SUBSET Words]
      BY MergedConfig DEF TypeOK
    <3> QED BY <3>1, PatchIs
  <2>2. q \in Patch(Fields)
    <3>1. q \in Patch(Fields \intersect (explicit[Default] \union DOMAIN p))
      BY <2>1, RestrictedPatch
    <3>2. Fields \intersect (explicit[Default] \union DOMAIN p) \subseteq Fields
      OBVIOUS
    <3> QED BY <3>1, <3>2, PatchGrows
  <2>3. w \in Write /\ SaveRow(Default, q) = <<w>>
    BY <1>3, <2>2, WritesTyped
  <2>4. queue' = queue \o (SaveRow(Default, q) \o kw \o ls)
    BY <1>3 DEF SetOverride, SetDefaultOverride, Enqueue
  <2> HIDE DEF q, w, kw, ls
  <2>5. Among(SaveRow(Default, q), Only(TRUE, w))
    <3>1. Among(When(TRUE, <<w>>), Only(TRUE, w))
      BY <2>3, AmongWhen
    <3> QED BY <2>3, <3>1 DEF When
  <2>6. Among(SaveRow(Default, q) \o kw \o ls, DefaultSets(p))
    BY <1>1, <1>2, <1>3, <2>5, AmongBoth DEF DefaultSets, SetWrites, q, w
  <2> QED BY <1>3, <2>4, <2>6 DEF Queued
<1>4. CASE g # Default
  <2> DEFINE q == Merged(over[g], p)
             w == SaveRow(g, q)[1]
             c == (DOMAIN p) \intersect SqlFields # {}
  <2>1. q \in Patch(Fields)
    <3>1. over[g] \in Patch(Fields)
      BY <1>4 DEF TypeOK, Scopes
    <3> QED BY <3>1, MergedPatch
  <2>2. w \in Write /\ SaveRow(g, q) = <<w>>
    BY <2>1, WritesTyped
  <2>3. queue' = queue \o (When(c, SaveRow(g, q)) \o kw \o ls)
    BY <1>4 DEF SetOverride, SetGroupOverride, Enqueue
  <2>4. c \in BOOLEAN
    OBVIOUS
  <2> HIDE DEF q, w, kw, ls, c
  <2>5. Among(When(c, SaveRow(g, q)), Only(c, w))
    BY <2>2, <2>4, AmongWhen
  <2>6. Among(When(c, SaveRow(g, q)) \o kw \o ls, GroupSets(g, p))
    BY <1>1, <1>2, <2>5, AmongBoth DEF GroupSets, SetWrites, q, w, c
  <2> QED BY <1>4, <2>3, <2>6 DEF Queued
<1> QED BY <1>3, <1>4

LEMMA ClearQueues ==
    ASSUME NEW g \in Scopes, NEW S \in SUBSET Fields, ClearFields(g, S)
    PROVE  Queued(IF g = Default THEN DefaultClears(S) ELSE GroupClears(g, S))
<1> DEFINE kw == When(Keywords \in S, ReplaceWords(g, {}))
           ls == When(S \intersect Lists # {}, RemoveSettings(g, S))
<1>1. Among(kw, Only(Keywords \in S, ReplaceWords(g, {})[1]))
  <2> DEFINE w == ReplaceWords(g, {})[1]
             c == Keywords \in S
  <2>1. w \in Write /\ ReplaceWords(g, {}) = <<w>> /\ c \in BOOLEAN
    BY WritesTyped
  <2> HIDE DEF w, c
  <2>2. Among(When(c, <<w>>), Only(c, w))
    BY <2>1, AmongWhen
  <2> QED BY <2>1, <2>2 DEF w, c
<1>2. Among(ls, Only(S \intersect Lists # {}, RemoveSettings(g, S)[1]))
  <2> DEFINE w == RemoveSettings(g, S)[1]
  <2>1. w \in Write /\ RemoveSettings(g, S) = <<w>>
    BY WritesTyped
  <2> HIDE DEF w
  <2>2. Among(When(S \intersect Lists # {}, <<w>>), Only(S \intersect Lists # {}, w))
    BY <2>1, AmongWhen
  <2> QED BY <2>1, <2>2 DEF w
<1>3. CASE g = Default
  <2> DEFINE w == SaveBase[1]
             c == S \intersect SqlFields # {}
  <2>1. w \in Write /\ SaveBase = <<w>>
    BY WritesTyped
  <2>2. queue' = queue \o (When(c, SaveBase) \o kw \o ls)
    BY <1>3 DEF ClearFields, ClearDefaultFields, Enqueue
  <2>3. c \in BOOLEAN
    OBVIOUS
  <2> HIDE DEF w, kw, ls, c
  <2>4. Among(When(c, SaveBase), Only(c, w))
    BY <2>1, <2>3, AmongWhen
  <2>5. Among(When(c, SaveBase) \o kw \o ls, DefaultClears(S))
    BY <1>1, <1>2, <1>3, <2>4, AmongBoth DEF DefaultClears, ClearWrites, w, c
  <2> QED BY <1>3, <2>2, <2>5 DEF Queued
<1>4. CASE g # Default
  <2> DEFINE w == ClearColumns(g, S)[1]
             c == S \intersect Columns # {}
  <2>1. w \in Write /\ ClearColumns(g, S) = <<w>>
    BY WritesTyped
  <2>2. queue' = queue \o (When(c, ClearColumns(g, S)) \o kw \o ls)
    BY <1>4 DEF ClearFields, ClearGroupFields, Enqueue
  <2>3. c \in BOOLEAN
    OBVIOUS
  <2> HIDE DEF w, kw, ls, c
  <2>4. Among(When(c, ClearColumns(g, S)), Only(c, w))
    BY <2>1, <2>3, AmongWhen
  <2>5. Among(When(c, ClearColumns(g, S)) \o kw \o ls, GroupClears(g, S))
    BY <1>1, <1>2, <2>4, AmongBoth DEF GroupClears, ClearWrites, w, c
  <2> QED BY <1>4, <2>2, <2>5 DEF Queued
<1> QED BY <1>3, <1>4

LEMMA RemoveQueues ==
    ASSUME NEW g \in Scopes, RemoveOverride(g)
    PROVE  Queued(Removes(g))
<1> DEFINE a == DeleteRow(g)[1]
           b == ReplaceWords(g, {})[1]
           c == RemoveAll(g)[1]
<1>1. a \in Write /\ b \in Write /\ c \in Write
  BY WritesTyped
<1>2. queue' = queue \o (<<a>> \o <<b>> \o <<c>>)
  <2>1. DeleteRow(g) = <<a>> /\ ReplaceWords(g, {}) = <<b>> /\ RemoveAll(g) = <<c>>
    BY WritesTyped
  <2> QED BY <2>1 DEF RemoveOverride, Enqueue
<1> HIDE DEF a, b, c
<1>3. \A w \in Write : Among(<<w>>, {w})
  <2> TAKE w \in Write
  <2>1. Among(When(TRUE, <<w>>), Only(TRUE, w))
    BY AmongWhen
  <2> QED BY <2>1 DEF When, Only
<1>4. Among(<<a>> \o <<b>> \o <<c>>, ({a} \union {b}) \union {c})
  BY <1>1, <1>3, AmongBoth
<1>5. ({a} \union {b}) \union {c} = Removes(g)
  BY DEF Removes, a, b, c
<1> QED BY <1>2, <1>4, <1>5 DEF Queued

(* ---------------------------- type correctness --------------------------- *)

LEMMA QueuedTyped ==
    ASSUME queue \in Seq(Write), NEW S, Queued(S)
    PROVE  queue' \in Seq(Write)
<1>1. PICK ws : ws \in Seq(Write) /\ queue' = queue \o ws
  BY DEF Queued, Among
<1> QED BY <1>1, ConcatProperties

\* The three operations change memory only, and the queue.
LEMMA SetTyped ==
    ASSUME Typed, NEW g \in Scopes, NEW p \in Patch(Fields), SetOverride(g, p)
    PROVE  Typed'
<1>1. queue' \in Seq(Write)
  BY SetQueues, QueuedTyped DEF Typed
<1>2. edits' \in Nat /\ lossless' \in BOOLEAN /\ UNCHANGED <<database, foreign, loading, troubles>>
  BY DEF SetOverride, Edited, Typed, TypeOK
<1>3. DOMAIN p \subseteq Fields
  BY PatchIs
<1>4. CASE g = Default
  <2>1. /\ base' = Merged(base, p) /\ over' = over
        /\ explicit' = [explicit EXCEPT ![Default] = explicit[Default] \union DOMAIN p]
    BY <1>4 DEF SetOverride, SetDefaultOverride
  <2>2. base' \in [Fields -> SUBSET Words]
    BY <2>1, MergedConfig DEF Typed, TypeOK
  <2>3. explicit' \in [Scopes -> SUBSET Fields]
    BY <1>3, <2>1 DEF Typed, TypeOK, Scopes
  <2> QED BY <1>1, <1>2, <2>1, <2>2, <2>3 DEF Typed, TypeOK, database
<1>5. CASE g # Default
  <2>1. /\ over' = [over EXCEPT ![g] = Merged(over[g], p)] /\ base' = base
        /\ explicit' = [explicit EXCEPT ![g] = explicit[g] \union DOMAIN p]
    BY <1>5 DEF SetOverride, SetGroupOverride
  <2>2. Merged(over[g], p) \in Patch(Fields)
    BY <1>5, MergedPatch DEF Typed, TypeOK, Scopes
  <2>3. over' \in [Groups -> Patch(Fields)]
    BY <2>1, <2>2 DEF Typed, TypeOK
  <2>4. explicit' \in [Scopes -> SUBSET Fields]
    BY <1>3, <2>1 DEF Typed, TypeOK
  <2> QED BY <1>1, <1>2, <2>1, <2>3, <2>4 DEF Typed, TypeOK, database
<1> QED BY <1>4, <1>5

LEMMA ClearTyped ==
    ASSUME Typed, NEW g \in Scopes, NEW S \in SUBSET Fields, ClearFields(g, S)
    PROVE  Typed'
<1>1. queue' \in Seq(Write)
  BY ClearQueues, QueuedTyped DEF Typed
<1>2. edits' \in Nat /\ lossless' \in BOOLEAN /\ UNCHANGED <<database, foreign, loading, troubles>>
  BY DEF ClearFields, Edited, Typed, TypeOK
<1>3. CASE g = Default
  <2>1. /\ base' = Merged(base, Restricted(Seed, S \intersect SqlFields)) /\ over' = over
        /\ explicit' = [explicit EXCEPT ![Default] = explicit[Default] \ S]
    BY <1>3 DEF ClearFields, ClearDefaultFields
  <2>2. Restricted(Seed, S \intersect SqlFields) \in Patch(Fields)
    BY PatchIs DEF Restricted, Seed
  <2>3. base' \in [Fields -> SUBSET Words]
    BY <2>1, <2>2, MergedConfig DEF Typed, TypeOK
  <2>4. explicit' \in [Scopes -> SUBSET Fields]
    BY <2>1 DEF Typed, TypeOK, Scopes
  <2> QED BY <1>1, <1>2, <2>1, <2>3, <2>4 DEF Typed, TypeOK, database
<1>4. CASE g # Default
  <2>1. /\ over' = [over EXCEPT ![g] = Without(over[g], S)] /\ base' = base
        /\ explicit' = [explicit EXCEPT ![g] = explicit[g] \ S]
    BY <1>4 DEF ClearFields, ClearGroupFields
  <2>2. Without(over[g], S) \in Patch(Fields)
    <3>1. over[g] \in Patch(Fields)
      BY <1>4 DEF Typed, TypeOK, Scopes
    <3> QED BY <3>1, WithoutPatch
  <2>3. over' \in [Groups -> Patch(Fields)]
    BY <2>1, <2>2 DEF Typed, TypeOK
  <2>4. explicit' \in [Scopes -> SUBSET Fields]
    BY <2>1 DEF Typed, TypeOK
  <2> QED BY <1>1, <1>2, <2>1, <2>3, <2>4 DEF Typed, TypeOK, database
<1> QED BY <1>3, <1>4

LEMMA RemoveTyped ==
    ASSUME Typed, NEW g \in Scopes, RemoveOverride(g)
    PROVE  Typed'
<1>1. queue' \in Seq(Write)
  BY RemoveQueues, QueuedTyped DEF Typed
<1>2. edits' \in Nat /\ lossless' \in BOOLEAN /\ UNCHANGED <<database, foreign, loading, troubles>>
  BY DEF RemoveOverride, Edited, Typed, TypeOK
<1>3. base' \in [Fields -> SUBSET Words]
  BY DEF RemoveOverride, Seed, Typed, TypeOK
<1>4. over' \in [Groups -> Patch(Fields)]
  BY NoneIsPatch DEF RemoveOverride, Typed, TypeOK
<1>5. explicit' \in [Scopes -> SUBSET Fields]
  BY DEF RemoveOverride, Typed, TypeOK
<1> QED BY <1>1, <1>2, <1>3, <1>4, <1>5 DEF Typed, TypeOK, database

\* The write at the head is of one of the types.
LEMMA HeadIs ==
    ASSUME queue \in Seq(Write), queue # <<>>
    PROVE  Head(queue) \in Write /\ Tail(queue) \in Seq(Write)
BY HeadTailProperties

LEMMA LandTyped ==
    ASSUME Typed, Land
    PROVE  Typed'
<1> DEFINE w == Head(queue)
<1>1. w \in Write /\ queue' \in Seq(Write)
  BY HeadIs DEF Typed, Land
<1>2. UNCHANGED <<base, over, explicit, foreign, loading, lossless, edits, troubles>>
  BY DEF Land, memory
<1>3. Landed(w)
  BY DEF Land
<1>4. CASE w.op = "saveRow"
  <2>1. w.group \in Scopes /\ w.patch \in Patch(Columns)
    BY <1>1, <1>4 DEF Write
  <2>2. LandRow(w.group, w.patch) /\ UNCHANGED <<words, settings>>
    BY <1>3, <1>4 DEF Landed
  <2> QED BY <1>1, <1>2, <2>1, <2>2 DEF LandRow, Typed, TypeOK
<1>5. CASE w.op = "saveBase"
  <2> DEFINE q == Restricted(base, explicit[Default] \intersect Columns)
  <2>1. q \in Patch(Columns)
    <3>1. base \in Patch(Fields)
      BY PatchIs DEF Typed, TypeOK
    <3>2. q \in Patch(Fields \intersect (explicit[Default] \intersect Columns))
      BY <3>1, RestrictedPatch
    <3>3. Fields \intersect (explicit[Default] \intersect Columns) \subseteq Columns
      OBVIOUS
    <3> QED BY <3>2, <3>3, PatchGrows
  <2>2. LandRow(Default, q) /\ UNCHANGED <<words, settings>>
    BY <1>3, <1>5 DEF Landed
  <2> HIDE DEF q
  <2> QED BY <1>1, <1>2, <2>1, <2>2 DEF LandRow, Typed, TypeOK
<1>6. CASE w.op = "clearColumns"
  <2>1. w.group \in Scopes
    BY <1>1, <1>6 DEF Write
  <2> DEFINE q == Without(rows[w.group].cols, w.fields)
  <2>2. q \in Patch(Columns)
    <3>1. rows[w.group].cols \in Patch(Columns)
      BY <2>1 DEF Typed, TypeOK
    <3> QED BY <3>1, WithoutPatch
  <2>3. rows' = [rows EXCEPT ![w.group].cols = q] /\ UNCHANGED <<words, settings>>
    <3> HIDE DEF w
    <3> QED BY <1>3, <1>6, <2>1 DEF Landed, Typed, TypeOK
  <2> HIDE DEF q
  <2> QED BY <1>1, <1>2, <2>1, <2>2, <2>3 DEF Typed, TypeOK
<1>7. CASE w.op = "deleteRow"
  <2>1. rows' = [rows EXCEPT ![w.group] = NoRow] /\ UNCHANGED <<words, settings>>
    BY <1>3, <1>7 DEF Landed
  <2> QED BY <1>1, <1>2, <2>1, NoneIsPatch DEF NoRow, Typed, TypeOK
<1>8. CASE w.op = "replaceWords"
  <2>1. words' = [words EXCEPT ![w.group] = w.words] /\ UNCHANGED <<rows, settings>>
    BY <1>3, <1>8 DEF Landed
  <2>2. w.words \in SUBSET Words
    BY <1>1, <1>8 DEF Write
  <2> QED BY <1>1, <1>2, <2>1, <2>2 DEF Typed, TypeOK
<1>9. CASE w.op = "saveSettings"
  <2>1. w.group \in Scopes /\ w.patch \in Patch(Lists \union {Foreign})
    BY <1>1, <1>9 DEF Write
  <2> DEFINE q == Merged(settings[w.group], w.patch)
  <2>2. q \in Patch(Lists \union {Foreign})
    BY <2>1, MergedPatch DEF Typed, TypeOK
  <2>3. settings' = [settings EXCEPT ![w.group] = q] /\ UNCHANGED <<rows, words>>
    BY <1>3, <1>9 DEF Landed
  <2> HIDE DEF q
  <2> QED BY <1>1, <1>2, <2>2, <2>3 DEF Typed, TypeOK
<1>10. CASE w.op = "removeSettings"
  <2>1. w.group \in Scopes
    BY <1>1, <1>10 DEF Write
  <2> DEFINE q == Without(settings[w.group], w.fields)
  <2>2. q \in Patch(Lists \union {Foreign})
    <3>1. settings[w.group] \in Patch(Lists \union {Foreign})
      BY <2>1 DEF Typed, TypeOK
    <3> QED BY <3>1, WithoutPatch
  <2>3. settings' = [settings EXCEPT ![w.group] = q] /\ UNCHANGED <<rows, words>>
    BY <1>3, <1>10 DEF Landed
  <2> HIDE DEF q
  <2> QED BY <1>1, <1>2, <2>2, <2>3 DEF Typed, TypeOK
<1>11. CASE w.op = "removeAll"
  <2>1. settings' = [settings EXCEPT ![w.group] = None] /\ UNCHANGED <<rows, words>>
    BY <1>3, <1>11 DEF Landed
  <2> QED BY <1>1, <1>2, <2>1, NoneIsPatch DEF Typed, TypeOK
<1> QED
  BY <1>3, <1>4, <1>5, <1>6, <1>7, <1>8, <1>9, <1>10, <1>11 DEF Landed

\* A read of the database gives a patch of the fields kept there.
LEMMA FoundTyped ==
    ASSUME TypeOK, NEW g \in Scopes
    PROVE  /\ FoundFields(g) \in Patch(SqlFields) /\ FoundSettings(g) \in Patch(Lists)
           /\ FoundFields(g) \in Patch(Fields) /\ FoundSettings(g) \in Patch(Fields)
           /\ Stored(g) \in Patch(Fields)
<1>1. FoundFields(g) \in Patch(SqlFields)
  <2>1. rows[g].cols \in Patch(SqlFields)
    BY PatchGrows DEF TypeOK, SqlFields
  <2>2. (IF words[g] = {} THEN None ELSE ParseRuleSetting(Keywords, words[g])) \in Patch(SqlFields)
    <3>1. ParseRuleSetting(Keywords, words[g]) \in Patch(SqlFields)
      BY PatchIs DEF TypeOK, SqlFields, ParseRuleSetting
    <3> QED BY <3>1, NoneIsPatch
  <2> QED BY <2>1, <2>2, MergedPatch, NoneIsPatch DEF FoundFields
<1>2. FoundSettings(g) \in Patch(Lists)
  <2>1. FoundSettings(g) \in Patch((Lists \union {Foreign}) \intersect Lists)
    BY RestrictedPatch DEF FoundSettings, TypeOK
  <2>2. (Lists \union {Foreign}) \intersect Lists = Lists
    OBVIOUS
  <2> QED BY <2>1, <2>2
<1>3. FoundFields(g) \in Patch(Fields) /\ FoundSettings(g) \in Patch(Fields)
  BY <1>1, <1>2, PatchGrows DEF Fields
<1> QED BY <1>1, <1>2, <1>3, MergedPatch DEF Stored

LEMMA AppliedTyped ==
    ASSUME TypeOK, NEW found, \A g \in Scopes : found[g] \in Patch(Fields), ApplyLoaded(found)
    PROVE  /\ base' \in [Fields -> SUBSET Words] /\ over' \in [Groups -> Patch(Fields)]
           /\ explicit' \in [Scopes -> SUBSET Fields]
<1>1. base' \in [Fields -> SUBSET Words]
  BY MergedConfig DEF ApplyLoaded, TypeOK, Scopes
<1>2. over' \in [Groups -> Patch(Fields)]
  <2>1. \A g \in Groups : Merged(over[g], found[g]) \in Patch(Fields)
    BY MergedPatch DEF TypeOK, Scopes
  <2> QED BY <2>1 DEF ApplyLoaded
<1>3. explicit' \in [Scopes -> SUBSET Fields]
  <2>1. \A g \in Scopes : explicit[g] \union DOMAIN found[g] \in SUBSET Fields
    BY PatchIs DEF TypeOK
  <2> QED BY <2>1 DEF ApplyLoaded
<1> QED BY <1>1, <1>2, <1>3

LEMMA RestartTyped ==
    ASSUME Typed, Restart
    PROVE  Typed'
<1>1. base' \in [Fields -> SUBSET Words]
  <2>1. Seed \in [Fields -> SUBSET Words] /\ Stored(Default) \in Patch(Fields)
    BY FoundTyped DEF Seed, Scopes, Typed
  <2> QED BY <2>1, MergedConfig DEF Restart
<1>2. over' \in [Groups -> Patch(Fields)]
  BY FoundTyped DEF Restart, Scopes, Typed
<1>3. explicit' \in [Scopes -> SUBSET Fields]
  <2>1. \A g \in Scopes : DOMAIN Stored(g) \in SUBSET Fields
    BY FoundTyped, PatchIs DEF Typed
  <2> QED BY <2>1 DEF Restart
<1>4. foreign' \in [Scopes -> SUBSET Words]
  <2>1. \A g \in Scopes : ForeignRow(g) \in SUBSET Words
    BY PatchIs DEF ForeignRow, Typed, TypeOK
  <2> QED BY <2>1 DEF Restart
<1>5. /\ queue' \in Seq(Write) /\ loading' = "no" /\ lossless' \in BOOLEAN /\ troubles' \in Nat
      /\ edits' = edits /\ UNCHANGED database
  BY DEF Restart, Trouble, Typed, TypeOK
<1> QED BY <1>1, <1>2, <1>3, <1>4, <1>5 DEF Typed, TypeOK, database

LEMMA StepTyped == Typed /\ [Next]_vars => Typed'
<1> SUFFICES ASSUME Typed, [Next]_vars PROVE Typed'
  OBVIOUS
<1>1. CASE \E u \in Users, g \in Scopes : Edit(u, g)
  <2>1. PICK u \in Users, g \in Scopes : Edit(u, g)
    BY <1>1
  <2> QED BY <2>1, EditIsOneOf, SetTyped, ClearTyped, RemoveTyped DEF Typed
<1>2. CASE \E g \in Groups : PutForeign(g, Words)
  <2>1. PICK g \in Groups : PutForeign(g, Words)
    BY <1>2
  <2> DEFINE p == [k \in {Foreign} |-> Words]
  <2>2. p \in Patch(Lists \union {Foreign}) /\ g \in Scopes
    BY PatchIs DEF Scopes
  <2>3. SaveSettings(g, p) \in Seq(Write)
    <3>1. SaveSettings(g, p)[1] \in Write /\ SaveSettings(g, p) = <<SaveSettings(g, p)[1]>>
      BY <2>2, WritesTyped
    <3> DEFINE w == SaveSettings(g, p)[1]
    <3> HIDE DEF w, p
    <3>2. w \in Write => <<w>> \in Seq(Write)
      OBVIOUS
    <3> QED BY <3>1, <3>2 DEF w
  <2>4. queue' = queue \o SaveSettings(g, p)
    BY <2>1 DEF PutForeign, Enqueue
  <2>5. queue' \in Seq(Write)
    <3> HIDE DEF p
    <3> QED BY <2>3, <2>4, ConcatProperties DEF Typed
  <2>6. UNCHANGED <<base, over, explicit, rows, words, settings, loading, lossless, troubles>>
    BY <2>1 DEF PutForeign, memory, database
  <2>7. edits' \in Nat
    BY <2>1 DEF PutForeign, Typed, TypeOK
  <2>8. foreign' \in [Scopes -> SUBSET Words]
    <3>1. foreign' = [foreign EXCEPT ![g] = Words]
      BY <2>1 DEF PutForeign
    <3> QED BY <3>1 DEF Typed, TypeOK
  <2> QED BY <2>5, <2>6, <2>7, <2>8 DEF Typed, TypeOK
<1>3. CASE Land
  BY <1>3, LandTyped
<1>4. CASE WriteFails
  <2>1. queue' \in Seq(Write)
    BY <1>4, HeadIs DEF WriteFails, Typed
  <2>2. troubles' \in Nat /\ lossless' \in BOOLEAN
    <3>1. troubles' \in Nat
      BY <1>4 DEF WriteFails, Trouble, Typed, TypeOK
    <3>2. lossless' = FALSE
      BY <1>4 DEF WriteFails
    <3> QED BY <3>1, <3>2
  <2>3. UNCHANGED <<base, over, explicit, rows, words, settings, foreign, loading, edits>>
    BY <1>4 DEF WriteFails, memory, database
  <2> QED BY <2>1, <2>2, <2>3 DEF Typed, TypeOK
<1>5. CASE ReplaceFails
  <2>1. Head(queue) \in Write /\ queue' \in Seq(Write)
    BY <1>5, HeadIs DEF ReplaceFails, Typed
  <2>2. PICK w \in SUBSET Head(queue).words : words' = [words EXCEPT ![Head(queue).group] = w]
    BY <1>5 DEF ReplaceFails
  <2>3. w \in SUBSET Words
    BY <1>5, <2>1, <2>2 DEF ReplaceFails, Write
  <2>4. words' \in [Scopes -> SUBSET Words]
    BY <2>2, <2>3 DEF Typed, TypeOK
  <2>5. troubles' \in Nat /\ lossless' \in BOOLEAN
    <3>1. troubles' \in Nat
      BY <1>5 DEF ReplaceFails, Trouble, Typed, TypeOK
    <3>2. lossless' = FALSE
      BY <1>5 DEF ReplaceFails
    <3> QED BY <3>1, <3>2
  <2>6. UNCHANGED <<base, over, explicit, rows, settings, foreign, loading, edits>>
    BY <1>5 DEF ReplaceFails, memory
  <2> QED BY <2>1, <2>4, <2>5, <2>6 DEF Typed, TypeOK
<1>6. CASE LoadStarts
  <2>1. over' \in [Groups -> Patch(Fields)] /\ base' \in [Fields -> SUBSET Words]
    BY <1>6, NoneIsPatch DEF LoadStarts, Seed
  <2>2. troubles' \in Nat /\ lossless' \in BOOLEAN
    BY <1>6 DEF LoadStarts, Trouble, Typed, TypeOK
  <2>3. explicit' \in [Scopes -> SUBSET Fields] /\ loading' = "overrides"
    BY <1>6 DEF LoadStarts
  <2>4. UNCHANGED <<rows, words, settings, foreign, queue, edits>>
    BY <1>6 DEF LoadStarts, database
  <2> QED BY <2>1, <2>2, <2>3, <2>4 DEF Typed, TypeOK
<1>7. CASE LoadOverrides
  <2>1. \A g \in Scopes : [h \in Scopes |-> FoundFields(h)][g] \in Patch(Fields)
    BY FoundTyped DEF Typed
  <2>2. /\ base' \in [Fields -> SUBSET Words] /\ over' \in [Groups -> Patch(Fields)]
        /\ explicit' \in [Scopes -> SUBSET Fields]
    BY <1>7, <2>1, AppliedTyped DEF LoadOverrides, Typed
  <2> QED BY <1>7, <2>2 DEF LoadOverrides, database, Typed, TypeOK
<1>8. CASE LoadSettings
  <2>1. \A g \in Scopes : [h \in Scopes |-> FoundSettings(h)][g] \in Patch(Fields)
    BY FoundTyped DEF Typed
  <2>2. /\ base' \in [Fields -> SUBSET Words] /\ over' \in [Groups -> Patch(Fields)]
        /\ explicit' \in [Scopes -> SUBSET Fields]
    BY <1>8, <2>1, AppliedTyped DEF LoadSettings, Typed
  <2> QED BY <1>8, <2>2 DEF LoadSettings, database, Typed, TypeOK
<1>9. CASE Restart
  BY <1>9, RestartTyped
<1>10. CASE UNCHANGED vars
  BY <1>10 DEF vars, Typed, TypeOK
<1> QED
  BY <1>1, <1>2, <1>3, <1>4, <1>5, <1>6, <1>7, <1>8, <1>9, <1>10 DEF Next

LEMMA InitTyped == Init => Typed
<1> SUFFICES ASSUME Init PROVE Typed
  OBVIOUS
<1>1. base \in [Fields -> SUBSET Words] /\ over \in [Groups -> Patch(Fields)]
  BY NoneIsPatch DEF Init, Seed
<1>2. rows \in [Scopes -> [has : BOOLEAN, cols : Patch(Columns)]]
  BY NoneIsPatch DEF Init, NoRow
<1>3. settings \in [Scopes -> Patch(Lists \union {Foreign})]
  BY NoneIsPatch DEF Init
<1>4. explicit \in [Scopes -> SUBSET Fields] /\ queue \in Seq(Write)
  BY DEF Init
<1>5. words \in [Scopes -> SUBSET Words] /\ foreign \in [Scopes -> SUBSET Words]
  BY DEF Init
<1>6. loading = "no" /\ lossless \in BOOLEAN /\ edits \in Nat /\ troubles \in Nat
  BY DEF Init
<1> QED BY <1>1, <1>2, <1>3, <1>4, <1>5, <1>6 DEF Typed, TypeOK

\* The store, the database and the queue keep their types: an override is
\* always a patch of rules (groupConfig.ts), whatever the database brings back.
THEOREM TypeCorrect == Spec => []TypeOK
<1>1. Typed => TypeOK
  BY DEF Typed
<1> QED BY <1>1, InitTyped, StepTyped, PTL DEF Spec

(* -------------------- what is cleared falls back ------------------------- *)

\* The domains, and the property.
Kept ==
    /\ Fields \subseteq DOMAIN base
    /\ DOMAIN over = Groups /\ DOMAIN explicit = Scopes
    /\ ClearedFallsBack

\* Setting fields marks every field it gives a value.
LEMMA SetKeeps ==
    ASSUME Kept, NEW g \in Scopes, NEW p, SetOverride(g, p)
    PROVE  Kept'
<1>1. CASE g = Default
  <2>1. /\ base' = Merged(base, p) /\ over' = over
        /\ explicit' = [explicit EXCEPT ![Default] = explicit[Default] \union DOMAIN p]
    BY <1>1 DEF SetOverride, SetDefaultOverride
  <2> QED
    BY <1>1, <2>1, RulesConstants
    DEF Kept, ClearedFallsBack, FallsBack, Merged, Scopes, SqlFields, Fields, Seed
<1>2. CASE g # Default
  <2>1. /\ over' = [over EXCEPT ![g] = Merged(over[g], p)] /\ base' = base
        /\ explicit' = [explicit EXCEPT ![g] = explicit[g] \union DOMAIN p]
    BY <1>2 DEF SetOverride, SetGroupOverride
  <2> QED
    BY <1>2, <2>1, RulesConstants
    DEF Kept, ClearedFallsBack, FallsBack, Merged, Scopes, SqlFields, Fields, Seed
<1> QED
  BY <1>1, <1>2

\* Clearing fields unmarks them: a group loses its values, the default rules
\* get back the seed of those kept in SQL.
LEMMA ClearKeeps ==
    ASSUME Kept, NEW g \in Scopes, NEW S, ClearFields(g, S)
    PROVE  Kept'
<1>1. CASE g = Default
  <2>1. /\ base' = Merged(base, Restricted(Seed, S \intersect SqlFields)) /\ over' = over
        /\ explicit' = [explicit EXCEPT ![Default] = explicit[Default] \ S]
    BY <1>1 DEF ClearFields, ClearDefaultFields
  <2> QED
    BY <1>1, <2>1, RulesConstants
    DEF Kept, ClearedFallsBack, FallsBack, Merged, Restricted, Scopes, SqlFields, Fields, Seed
<1>2. CASE g # Default
  <2>1. /\ over' = [over EXCEPT ![g] = Without(over[g], S)] /\ base' = base
        /\ explicit' = [explicit EXCEPT ![g] = explicit[g] \ S]
    BY <1>2 DEF ClearFields, ClearGroupFields
  <2> QED
    BY <1>2, <2>1, RulesConstants
    DEF Kept, ClearedFallsBack, FallsBack, Without, Scopes, SqlFields, Fields, Seed
<1> QED
  BY <1>1, <1>2

\* Removing an override leaves neither marks nor values.
LEMMA RemoveKeeps ==
    ASSUME Kept, NEW g \in Scopes, RemoveOverride(g)
    PROVE  Kept'
BY RulesConstants
DEF Kept, RemoveOverride, ClearedFallsBack, FallsBack, None, Scopes, SqlFields, Fields, Seed

\* Each of the two reads of load() marks what it brings.
LEMMA LoadedKeeps ==
    ASSUME Kept, NEW found, ApplyLoaded(found)
    PROVE  Kept'
BY RulesConstants
DEF Kept, ApplyLoaded, ClearedFallsBack, FallsBack, Merged, Scopes, SqlFields, Fields, Seed

\* A reload starts, and a restart ends, with values and marks that agree.
LEMMA AfreshKeeps ==
    ASSUME Kept, LoadStarts \/ Restart
    PROVE  Kept'
<1>1. CASE LoadStarts
  BY <1>1, RulesConstants
  DEF Kept, LoadStarts, ClearedFallsBack, FallsBack, None, Scopes, SqlFields, Fields, Seed
<1>2. CASE Restart
  <2>1. /\ base' = Merged(Seed, Stored(Default))
        /\ over' = [h \in Groups |-> Stored(h)]
        /\ explicit' = [h \in Scopes |-> DOMAIN Stored(h)]
    BY <1>2 DEF Restart
  <2> QED
    BY <2>1, RulesConstants
    DEF Kept, ClearedFallsBack, FallsBack, Merged, Scopes, SqlFields, Fields, Seed
<1> QED
  BY <1>1, <1>2

LEMMA StepKeeps == Typed /\ Kept /\ [Next]_vars => Kept'
<1> SUFFICES ASSUME Typed, Kept, [Next]_vars PROVE Kept'
  OBVIOUS
<1>1. CASE \E u \in Users, g \in Scopes : Edit(u, g)
  <2>1. PICK u \in Users, g \in Scopes : Edit(u, g)
    BY <1>1
  <2> QED BY <2>1, EditIsOneOf, SetKeeps, ClearKeeps, RemoveKeeps DEF Typed
<1>2. CASE \E g \in Groups : PutForeign(g, Words)
  BY <1>2 DEF PutForeign, Kept, ClearedFallsBack, FallsBack, memory
<1>3. CASE Land
  BY <1>3 DEF Land, Kept, ClearedFallsBack, FallsBack, memory
<1>4. CASE WriteFails
  BY <1>4 DEF WriteFails, Kept, ClearedFallsBack, FallsBack, memory
<1>5. CASE ReplaceFails
  BY <1>5 DEF ReplaceFails, Kept, ClearedFallsBack, FallsBack, memory
<1>6. CASE LoadStarts \/ Restart
  BY <1>6, AfreshKeeps
<1>7. CASE LoadOverrides
  BY <1>7, LoadedKeeps DEF LoadOverrides
<1>8. CASE LoadSettings
  BY <1>8, LoadedKeeps DEF LoadSettings
<1>9. CASE UNCHANGED vars
  BY <1>9 DEF vars, Kept, ClearedFallsBack, FallsBack
<1> QED
  BY <1>1, <1>2, <1>3, <1>4, <1>5, <1>6, <1>7, <1>8, <1>9 DEF Next

LEMMA InitKept == Init => Kept
BY RulesConstants
DEF Init, Kept, ClearedFallsBack, FallsBack, None, Scopes, SqlFields, Fields, Seed

\* What is not marked as set is inherited (the runs' ClearedFallsBack), for
\* every group and field: clearFields(), removeOverride() and load() of
\* groupConfig.ts leave no value behind in the fields kept in SQL.
THEOREM ClearedIsInherited == Spec => []ClearedFallsBack
<1>1. Kept => ClearedFallsBack
  BY DEF Kept
<1> QED
  BY <1>1, InitTyped, InitKept, StepTyped, StepKeeps, PTL DEF Spec

(* ----------------------- a restart changes nothing ----------------------- *)

\* The cells of the database, a field of a scope each, and what is in them:
\* nothing or one value.  An empty keyword list is nothing.
Cell(p, f) == IF f \in DOMAIN p THEN {p[f]} ELSE {}
Marked(v, f) == IF f = Keywords /\ v = {} THEN {} ELSE {v}
Held(g, f) == IF f \in Columns THEN Cell(rows[g].cols, f)
              ELSE IF f = Keywords THEN Marked(words[g], Keywords) ELSE Cell(settings[g], f)

\* What memory has for the cell, when the field is marked as set.
Own(g) == IF g = Default THEN base ELSE over[g]
Wanted(g, f) == IF f \in explicit[g] THEN Marked(Own(g)[f], f) ELSE {}
\* Columns and keywords are found only in a row.
Needs(g) == \E f \in SqlFields : Wanted(g, f) # {}

\* The cells a write sets, and what it leaves there (saveBase: what memory has).
Target(w) == IF w.op = "saveBase" THEN Default ELSE w.group
Touches(w, g, f) ==
    /\ Target(w) = g
    /\ \/ w.op \in {"saveRow", "saveBase", "deleteRow"} /\ f \in Columns
       \/ w.op \in {"clearColumns", "removeSettings"} /\ f \in w.fields
       \/ w.op = "replaceWords" /\ f = Keywords
       \/ w.op = "saveSettings" /\ f \in DOMAIN w.patch
       \/ w.op = "removeAll" /\ f \in Lists
Leaves(w, f) ==
    IF w.op \in {"saveRow", "saveSettings"} THEN Cell(w.patch, f)
    ELSE IF w.op = "replaceWords" THEN Marked(w.words, Keywords) ELSE {}
MovesRow(w, g) == Target(w) = g /\ w.op \in {"saveRow", "saveBase", "deleteRow"}
Agrees(w, f, want) == w.op = "saveBase" \/ Leaves(w, f) = want

\* A cell ends as its last queued write leaves it.
FieldEnds(q, g, f, held, want) ==
    /\ (\A i \in DOMAIN q : ~Touches(q[i], g, f)) => held = want
    /\ \A i \in DOMAIN q :
         (Touches(q[i], g, f) /\ \A j \in DOMAIN q : j > i => ~Touches(q[j], g, f))
            => Agrees(q[i], f, want)
RowEnds(q, g, has) ==
    /\ (\A i \in DOMAIN q : ~MovesRow(q[i], g)) => has
    /\ \A i \in DOMAIN q :
         (MovesRow(q[i], g) /\ \A j \in DOMAIN q : j > i => ~MovesRow(q[j], g))
            => q[i].op # "deleteRow"
Settled(g) ==
    /\ \A f \in Fields : FieldEnds(queue, g, f, Held(g, f), Wanted(g, f))
    /\ Needs(g) => RowEnds(queue, g, rows[g].has)

\* While load() runs: nothing of the rules is queued, no group without a row
\* has anything else, and memory is what has been read so far.
Calm == \A i \in DOMAIN queue :
            queue[i].op = "saveSettings" /\ DOMAIN queue[i].patch \subseteq {Foreign}
Rooted == \A g \in Scopes : ~rows[g].has => rows[g].cols = None /\ words[g] = {}
SoFar(g) == IF loading = "overrides" THEN None ELSE FoundFields(g)
Reread ==
    /\ Calm /\ Rooted
    /\ base = Merged(Seed, SoFar(Default))
    /\ over = [g \in Groups |-> SoFar(g)]
    /\ explicit = [g \in Scopes |-> DOMAIN SoFar(g)]

InStep == lossless => IF loading = "no" THEN \A g \in Scopes : Settled(g) ELSE Reread

\* Writes at the end of the queue.
LEMMA Joined ==
    ASSUME NEW q \in Seq(Write), NEW ws, NEW S, Among(ws, S)
    PROVE  /\ \A i \in DOMAIN q : i \in DOMAIN (q \o ws) /\ (q \o ws)[i] = q[i]
           /\ \A i \in DOMAIN (q \o ws) : i \notin DOMAIN q => (q \o ws)[i] \in S
           /\ \A w \in S : \E i \in DOMAIN (q \o ws) : (q \o ws)[i] = w
           /\ \A w \in S : \E j \in DOMAIN (q \o ws) :
                 (q \o ws)[j] = w /\ \A i \in DOMAIN q : j > i
<1>1. ws \in Seq(Write) /\ \A w : w \in S <=> \E k \in DOMAIN ws : ws[k] = w
  BY DEF Among
<1>2. /\ q \o ws \in Seq(Write) /\ Len(q \o ws) = Len(q) + Len(ws)
      /\ \A k \in 1 .. Len(q) + Len(ws) :
            (q \o ws)[k] = IF k <= Len(q) THEN q[k] ELSE ws[k - Len(q)]
  BY <1>1, ConcatProperties
<1>3. /\ Len(q) \in Nat /\ Len(ws) \in Nat
      /\ DOMAIN q = 1 .. Len(q) /\ DOMAIN ws = 1 .. Len(ws)
      /\ DOMAIN (q \o ws) = 1 .. Len(q) + Len(ws)
  BY <1>1, <1>2
<1>4. ASSUME NEW i \in DOMAIN q PROVE i \in DOMAIN (q \o ws) /\ (q \o ws)[i] = q[i]
  BY <1>2, <1>3
<1>5. ASSUME NEW i \in DOMAIN (q \o ws), i \notin DOMAIN q PROVE (q \o ws)[i] \in S
  <2>1. i - Len(q) \in 1 .. Len(ws) /\ (q \o ws)[i] = ws[i - Len(q)]
    BY <1>2, <1>3, <1>5
  <2> QED BY <1>1, <1>3, <2>1
<1>6. ASSUME NEW w \in S
      PROVE  \E j \in DOMAIN (q \o ws) : (q \o ws)[j] = w /\ \A i \in DOMAIN q : j > i
  <2>1. PICK k \in 1 .. Len(ws) : ws[k] = w
    BY <1>1, <1>3
  <2>2. k + Len(q) \in 1 .. Len(q) + Len(ws) /\ (q \o ws)[k + Len(q)] = w
    BY <1>2, <1>3, <2>1
  <2>3. \A i \in DOMAIN q : k + Len(q) > i
    BY <1>3, <2>1
  <2> QED BY <1>3, <2>2, <2>3
<1> QED BY <1>4, <1>5, <1>6

LEMMA FieldJoins ==
    ASSUME NEW q \in Seq(Write), NEW ws, NEW S, Among(ws, S),
           NEW g, NEW f, NEW held, NEW want, NEW wanted,
           FieldEnds(q, g, f, held, want),
           \A w \in S : Touches(w, g, f) => Agrees(w, f, wanted),
           wanted = want \/ \E w \in S : Touches(w, g, f)
    PROVE  FieldEnds(q \o ws, g, f, held, wanted)
<1> DEFINE r == q \o ws
<1>1. /\ \A i \in DOMAIN q : i \in DOMAIN r /\ r[i] = q[i]
      /\ \A i \in DOMAIN r : i \notin DOMAIN q => r[i] \in S
      /\ \A w \in S : \E j \in DOMAIN r : r[j] = w /\ \A i \in DOMAIN q : j > i
  BY Joined
<1> HIDE DEF r
<1>2. ASSUME \A i \in DOMAIN r : ~Touches(r[i], g, f) PROVE held = wanted
  <2>1. wanted = want /\ \A i \in DOMAIN q : ~Touches(q[i], g, f)
    BY <1>1, <1>2
  <2> QED BY <2>1 DEF FieldEnds
<1>3. ASSUME NEW i \in DOMAIN r, Touches(r[i], g, f),
             \A j \in DOMAIN r : j > i => ~Touches(r[j], g, f)
      PROVE  Agrees(r[i], f, wanted)
  <2>1. CASE i \in DOMAIN q
    <3>1. wanted = want
      BY <1>1, <1>3, <2>1
    <3>2. Touches(q[i], g, f) /\ \A j \in DOMAIN q : j > i => ~Touches(q[j], g, f)
      BY <1>1, <1>3, <2>1
    <3> QED BY <1>1, <2>1, <3>1, <3>2 DEF FieldEnds
  <2>2. CASE i \notin DOMAIN q
    BY <1>1, <1>3, <2>2
  <2> QED BY <2>1, <2>2
<1>4. FieldEnds(r, g, f, held, wanted)
  BY <1>2, <1>3 DEF FieldEnds
<1> QED BY <1>4 DEF r

LEMMA RowJoins ==
    ASSUME NEW q \in Seq(Write), NEW ws, NEW S, Among(ws, S), NEW g, NEW has,
           \A w \in S : w.op # "deleteRow",
           RowEnds(q, g, has) \/ \E w \in S : MovesRow(w, g)
    PROVE  RowEnds(q \o ws, g, has)
<1> DEFINE r == q \o ws
<1>1. /\ \A i \in DOMAIN q : i \in DOMAIN r /\ r[i] = q[i]
      /\ \A i \in DOMAIN r : i \notin DOMAIN q => r[i] \in S
      /\ \A w \in S : \E j \in DOMAIN r : r[j] = w /\ \A i \in DOMAIN q : j > i
  BY Joined
<1> HIDE DEF r
<1>2. ASSUME \A i \in DOMAIN r : ~MovesRow(r[i], g) PROVE has
  <2>1. RowEnds(q, g, has) /\ \A i \in DOMAIN q : ~MovesRow(q[i], g)
    BY <1>1, <1>2
  <2> QED BY <2>1 DEF RowEnds
<1>3. ASSUME NEW i \in DOMAIN r, MovesRow(r[i], g),
             \A j \in DOMAIN r : j > i => ~MovesRow(r[j], g)
      PROVE  r[i].op # "deleteRow"
  <2>1. CASE i \in DOMAIN q
    <3>1. RowEnds(q, g, has)
      BY <1>1, <1>3, <2>1
    <3>2. MovesRow(q[i], g) /\ \A j \in DOMAIN q : j > i => ~MovesRow(q[j], g)
      BY <1>1, <1>3, <2>1
    <3> QED BY <1>1, <2>1, <3>1, <3>2 DEF RowEnds
  <2>2. CASE i \notin DOMAIN q
    BY <1>1, <2>2
  <2> QED BY <2>1, <2>2
<1>4. RowEnds(r, g, has)
  BY <1>2, <1>3 DEF RowEnds
<1> QED BY <1>4 DEF r

\* The head of the queue lands.
LEMMA Shorter ==
    ASSUME NEW q \in Seq(Write), q # <<>>
    PROVE  /\ 1 \in DOMAIN q /\ q[1] = Head(q)
           /\ \A i \in DOMAIN Tail(q) : i + 1 \in DOMAIN q /\ Tail(q)[i] = q[i + 1] /\ i + 1 > 1
           /\ \A i \in DOMAIN q : i # 1 => i - 1 \in DOMAIN Tail(q) /\ Tail(q)[i - 1] = q[i]
           /\ \A i \in DOMAIN q : i \in Nat
           /\ \A i \in DOMAIN Tail(q) : i \in Nat
<1>1. /\ Len(q) \in Nat /\ Len(q) >= 1 /\ DOMAIN q = 1 .. Len(q)
      /\ Tail(q) \in Seq(Write) /\ Len(Tail(q)) = Len(q) - 1
      /\ DOMAIN Tail(q) = 1 .. Len(q) - 1
      /\ \A i \in 1 .. Len(q) - 1 : Tail(q)[i] = q[i + 1]
      /\ Head(q) = q[1]
  OBVIOUS
<1> QED BY <1>1

LEMMA FieldLands ==
    ASSUME NEW q \in Seq(Write), q # <<>>, NEW g, NEW f, NEW held, NEW want,
           FieldEnds(q, g, f, held, want), NEW left,
           left = IF Touches(Head(q), g, f)
                  THEN IF Head(q).op = "saveBase" THEN want ELSE Leaves(Head(q), f)
                  ELSE held
    PROVE  FieldEnds(Tail(q), g, f, left, want)
<1> DEFINE t == Tail(q)
<1>1. /\ 1 \in DOMAIN q /\ q[1] = Head(q)
      /\ \A i \in DOMAIN t : i + 1 \in DOMAIN q /\ t[i] = q[i + 1] /\ i + 1 > 1
      /\ \A i \in DOMAIN q : i # 1 => i - 1 \in DOMAIN t /\ t[i - 1] = q[i]
      /\ \A i \in DOMAIN q : i \in Nat
      /\ \A i \in DOMAIN t : i \in Nat
  BY Shorter
<1> HIDE DEF t
<1>2. ASSUME \A i \in DOMAIN t : ~Touches(t[i], g, f) PROVE left = want
  <2>1. \A i \in DOMAIN q : i # 1 => ~Touches(q[i], g, f)
    BY <1>1, <1>2
  <2>2. CASE Touches(Head(q), g, f)
    <3>1. Agrees(Head(q), f, want)
      BY <1>1, <2>1, <2>2 DEF FieldEnds
    <3> QED BY <2>2, <3>1 DEF Agrees
  <2>3. CASE ~Touches(Head(q), g, f)
    BY <1>1, <2>1, <2>3 DEF FieldEnds
  <2> QED BY <2>2, <2>3
<1>3. ASSUME NEW i \in DOMAIN t, Touches(t[i], g, f),
             \A j \in DOMAIN t : j > i => ~Touches(t[j], g, f)
      PROVE  Agrees(t[i], f, want)
  <2>1. i + 1 \in DOMAIN q /\ t[i] = q[i + 1]
    BY <1>1
  <2>2. ASSUME NEW j \in DOMAIN q, j > i + 1 PROVE ~Touches(q[j], g, f)
    <3>1. j \in Nat /\ i \in Nat
      BY <1>1
    <3>2. j # 1 /\ j - 1 > i
      BY <2>2, <3>1
    <3> QED BY <1>1, <1>3, <3>2
  <2> QED BY <1>3, <2>1, <2>2 DEF FieldEnds
<1>4. FieldEnds(t, g, f, left, want)
  BY <1>2, <1>3 DEF FieldEnds
<1> QED BY <1>4 DEF t

LEMMA RowLands ==
    ASSUME NEW q \in Seq(Write), q # <<>>, NEW g, NEW has, RowEnds(q, g, has), NEW left,
           MovesRow(Head(q), g) => (left <=> Head(q).op # "deleteRow"),
           ~MovesRow(Head(q), g) => (left <=> has)
    PROVE  RowEnds(Tail(q), g, left)
<1> DEFINE t == Tail(q)
<1>1. /\ 1 \in DOMAIN q /\ q[1] = Head(q)
      /\ \A i \in DOMAIN t : i + 1 \in DOMAIN q /\ t[i] = q[i + 1] /\ i + 1 > 1
      /\ \A i \in DOMAIN q : i # 1 => i - 1 \in DOMAIN t /\ t[i - 1] = q[i]
      /\ \A i \in DOMAIN q : i \in Nat
      /\ \A i \in DOMAIN t : i \in Nat
  BY Shorter
<1> HIDE DEF t
<1>2. ASSUME \A i \in DOMAIN t : ~MovesRow(t[i], g) PROVE left
  <2>1. \A i \in DOMAIN q : i # 1 => ~MovesRow(q[i], g)
    BY <1>1, <1>2
  <2>2. CASE MovesRow(Head(q), g)
    BY <1>1, <2>1, <2>2 DEF RowEnds
  <2>3. CASE ~MovesRow(Head(q), g)
    BY <1>1, <2>1, <2>3 DEF RowEnds
  <2> QED BY <2>2, <2>3
<1>3. ASSUME NEW i \in DOMAIN t, MovesRow(t[i], g),
             \A j \in DOMAIN t : j > i => ~MovesRow(t[j], g)
      PROVE  t[i].op # "deleteRow"
  <2>1. i + 1 \in DOMAIN q /\ t[i] = q[i + 1]
    BY <1>1
  <2>2. ASSUME NEW j \in DOMAIN q, j > i + 1 PROVE ~MovesRow(q[j], g)
    <3>1. j \in Nat /\ i \in Nat
      BY <1>1
    <3>2. j # 1 /\ j - 1 > i
      BY <2>2, <3>1
    <3> QED BY <1>1, <1>3, <3>2
  <2> QED BY <1>3, <2>1, <2>2 DEF RowEnds
<1>4. RowEnds(t, g, left)
  BY <1>2, <1>3 DEF RowEnds
<1> QED BY <1>4 DEF t

(* An edit: what memory wants afterwards, and that its writes leave that.  *)

LEMMA SetWants ==
    ASSUME TypeOK, Kept, NEW g \in Scopes, NEW p \in Patch(Fields), SetOverride(g, p),
           NEW h \in Scopes, NEW f \in Fields
    PROVE  Wanted(h, f)' = IF h = g /\ f \in DOMAIN p THEN Marked(p[f], f) ELSE Wanted(h, f)
<1>1. CASE g = Default
  <2>1. /\ base' = Merged(base, p) /\ over' = over
        /\ explicit' = [explicit EXCEPT ![Default] = explicit[Default] \union DOMAIN p]
    BY <1>1 DEF SetOverride, SetDefaultOverride
  <2>2. CASE h = Default
    <3>1. explicit'[h] = explicit[h] \union DOMAIN p
      BY <2>1, <2>2 DEF TypeOK
    <3>2. base'[f] = IF f \in DOMAIN p THEN p[f] ELSE base[f]
      BY <2>1 DEF Merged, TypeOK
    <3> QED BY <1>1, <2>2, <3>1, <3>2 DEF Wanted, Own
  <2>3. CASE h # Default
    <3>1. explicit'[h] = explicit[h] /\ over'[h] = over[h]
      BY <2>1, <2>3 DEF TypeOK
    <3> QED BY <1>1, <2>3, <3>1 DEF Wanted, Own
  <2> QED BY <2>2, <2>3
<1>2. CASE g # Default
  <2>1. /\ over' = [over EXCEPT ![g] = Merged(over[g], p)] /\ base' = base
        /\ explicit' = [explicit EXCEPT ![g] = explicit[g] \union DOMAIN p]
    BY <1>2 DEF SetOverride, SetGroupOverride
  <2>2. CASE h = g
    <3>1. explicit'[h] = explicit[h] \union DOMAIN p
      BY <2>1, <2>2 DEF TypeOK
    <3>2. over'[h] = Merged(over[h], p)
      BY <1>2, <2>1, <2>2 DEF TypeOK, Scopes
    <3>3. f \in DOMAIN p => over'[h][f] = p[f]
      BY <3>2 DEF Merged
    <3>4. f \in explicit[h] /\ f \notin DOMAIN p => over'[h][f] = over[h][f]
      <4>1. h \in Groups /\ DOMAIN over[h] = explicit[h]
        BY <1>2, <2>2 DEF Kept, ClearedFallsBack, FallsBack, Scopes
      <4> QED BY <3>2, <4>1 DEF Merged
    <3> QED BY <1>2, <2>2, <3>1, <3>3, <3>4 DEF Wanted, Own
  <2>3. CASE h # g
    <3>1. explicit'[h] = explicit[h] /\ (h # Default => over'[h] = over[h])
      BY <2>1, <2>3 DEF TypeOK, Scopes
    <3> QED BY <2>1, <2>3, <3>1 DEF Wanted, Own
  <2> QED BY <2>2, <2>3
<1> QED BY <1>1, <1>2

LEMMA ClearWants ==
    ASSUME TypeOK, Kept, NEW g \in Scopes, NEW S \in SUBSET Fields, ClearFields(g, S),
           NEW h \in Scopes, NEW f \in Fields
    PROVE  Wanted(h, f)' = IF h = g /\ f \in S THEN {} ELSE Wanted(h, f)
<1>1. CASE g = Default
  <2>1. /\ base' = Merged(base, Restricted(Seed, S \intersect SqlFields)) /\ over' = over
        /\ explicit' = [explicit EXCEPT ![Default] = explicit[Default] \ S]
    BY <1>1 DEF ClearFields, ClearDefaultFields
  <2>2. CASE h = Default
    <3>1. explicit'[h] = explicit[h] \ S
      BY <2>1, <2>2 DEF TypeOK
    <3>2. f \notin S => base'[f] = base[f]
      BY <2>1 DEF Merged, Restricted, TypeOK
    <3> QED BY <1>1, <2>2, <3>1, <3>2 DEF Wanted, Own
  <2>3. CASE h # Default
    <3>1. explicit'[h] = explicit[h] /\ over'[h] = over[h]
      BY <2>1, <2>3 DEF TypeOK
    <3> QED BY <1>1, <2>3, <3>1 DEF Wanted, Own
  <2> QED BY <2>2, <2>3
<1>2. CASE g # Default
  <2>1. /\ over' = [over EXCEPT ![g] = Without(over[g], S)] /\ base' = base
        /\ explicit' = [explicit EXCEPT ![g] = explicit[g] \ S]
    BY <1>2 DEF ClearFields, ClearGroupFields
  <2>2. CASE h = g
    <3>1. explicit'[h] = explicit[h] \ S /\ over'[h] = Without(over[h], S)
      BY <1>2, <2>1, <2>2 DEF TypeOK, Scopes
    <3>2. DOMAIN over[h] = explicit[h]
      BY <1>2, <2>2 DEF Kept, ClearedFallsBack, FallsBack, Scopes
    <3>3. f \in explicit[h] \ S => over'[h][f] = over[h][f]
      BY <3>1, <3>2 DEF Without
    <3> QED BY <1>2, <2>2, <3>1, <3>3 DEF Wanted, Own
  <2>3. CASE h # g
    <3>1. explicit'[h] = explicit[h] /\ (h # Default => over'[h] = over[h])
      BY <2>1, <2>3 DEF TypeOK, Scopes
    <3> QED BY <2>1, <2>3, <3>1 DEF Wanted, Own
  <2> QED BY <2>2, <2>3
<1> QED BY <1>1, <1>2

LEMMA RemoveWants ==
    ASSUME TypeOK, NEW g \in Scopes, RemoveOverride(g), NEW h \in Scopes, NEW f \in Fields
    PROVE  Wanted(h, f)' = IF h = g THEN {} ELSE Wanted(h, f)
<1>1. explicit'[h] = IF h = g THEN {} ELSE explicit[h]
  BY DEF RemoveOverride, TypeOK
<1>2. h # g => (Own(h)' = Own(h))
  BY DEF RemoveOverride, TypeOK, Own, Scopes
<1> QED BY <1>1, <1>2 DEF Wanted

\* An edit of one scope whose writes leave what memory then wants.
LEMMA EditSettles ==
    ASSUME queue \in Seq(Write), \A h \in Scopes : Settled(h),
           NEW g \in Scopes, NEW S, Queued(S), UNCHANGED database,
           \A w \in S : Target(w) = g,
           \A h \in Scopes, f \in Fields : h # g => Wanted(h, f)' = Wanted(h, f),
           \A f \in Fields, w \in S : Touches(w, g, f) => Agrees(w, f, Wanted(g, f)'),
           \A f \in Fields : \/ Wanted(g, f)' = Wanted(g, f)
                              \/ \E w \in S : Touches(w, g, f),
           Needs(g)' => /\ \A w \in S : w.op # "deleteRow"
                        /\ Needs(g) \/ \E w \in S : MovesRow(w, g)
    PROVE  \A h \in Scopes : Settled(h)'
<1>1. PICK ws : Among(ws, S) /\ queue' = queue \o ws
  BY DEF Queued
<1>2. \A h, f : Held(h, f)' = Held(h, f)
  BY DEF Held, database
<1>3. rows' = rows
  BY DEF database
<1> SUFFICES ASSUME NEW h \in Scopes PROVE Settled(h)'
  OBVIOUS
<1>4. ASSUME NEW f \in Fields PROVE FieldEnds(queue', h, f, Held(h, f), Wanted(h, f)')
  <2>1. FieldEnds(queue, h, f, Held(h, f), Wanted(h, f))
    BY DEF Settled
  <2>2. \A w \in S : Touches(w, h, f) => Agrees(w, f, Wanted(h, f)')
    BY DEF Touches
  <2>3. Wanted(h, f)' = Wanted(h, f) \/ \E w \in S : Touches(w, h, f)
    OBVIOUS
  <2> DEFINE v == Wanted(h, f)'
             u == Wanted(h, f)
             k == Held(h, f)
  <2> HIDE DEF u, v, k
  <2>4. FieldEnds(queue \o ws, h, f, k, v)
    <3>1. FieldEnds(queue, h, f, k, u)
      BY <2>1 DEF u, k
    <3>2. \A w \in S : Touches(w, h, f) => Agrees(w, f, v)
      BY <2>2 DEF v
    <3>3. v = u \/ \E w \in S : Touches(w, h, f)
      BY <2>3 DEF u, v
    <3> QED BY <1>1, <3>1, <3>2, <3>3, FieldJoins
  <2> QED BY <1>1, <2>4 DEF v, k
<1>5. ASSUME Needs(h)' PROVE RowEnds(queue', h, rows[h].has)
  <2>1. CASE h = g
    <3>1. \A w \in S : w.op # "deleteRow"
      BY <1>5, <2>1
    <3>2. RowEnds(queue, h, rows[h].has) \/ \E w \in S : MovesRow(w, h)
      BY <1>5, <2>1 DEF Settled
    <3> QED BY <1>1, <3>1, <3>2, RowJoins
  <2>2. CASE h # g
    <3>1. RowEnds(queue, h, rows[h].has)
      BY <1>5, <2>2 DEF Needs, Settled, SqlFields, Fields
    <3>2. \A w \in S : ~MovesRow(w, h)
      BY <2>2 DEF MovesRow
    <3> DEFINE r == queue \o ws
    <3>3. /\ \A i \in DOMAIN queue : i \in DOMAIN r /\ r[i] = queue[i]
          /\ \A i \in DOMAIN r : i \notin DOMAIN queue => r[i] \in S
      BY <1>1, Joined
    <3> HIDE DEF r
    <3>4. \A i \in DOMAIN r : MovesRow(r[i], h) => i \in DOMAIN queue
      BY <3>2, <3>3
    <3>5. RowEnds(r, h, rows[h].has)
      BY <3>1, <3>3, <3>4 DEF RowEnds
    <3> QED BY <1>1, <3>5 DEF r
  <2> QED BY <2>1, <2>2
<1> QED BY <1>2, <1>3, <1>4, <1>5 DEF Settled

LEMMA SetSettles ==
    ASSUME Typed, Kept, \A h \in Scopes : Settled(h),
           NEW g \in Scopes, NEW p \in Patch(Fields), SetOverride(g, p)
    PROVE  \A h \in Scopes : Settled(h)'
<1> DEFINE S == IF g = Default THEN DefaultSets(p) ELSE GroupSets(g, p)
           q == IF g = Default THEN Restricted(Merged(base, p), explicit[Default] \union DOMAIN p)
                ELSE Merged(over[g], p)
           c == g = Default \/ (DOMAIN p) \intersect SqlFields # {}
<1>1. Queued(S)
  BY SetQueues DEF Typed
<1>2. S = SetWrites(SaveRow(g, q), c, g, p)
  BY DEF DefaultSets, GroupSets, SetWrites, Only
<1>3. DOMAIN p \subseteq Fields
  BY PatchIs
<1>4. \A h \in Scopes, f \in Fields :
         Wanted(h, f)' = IF h = g /\ f \in DOMAIN p THEN Marked(p[f], f) ELSE Wanted(h, f)
  BY SetWants DEF Typed
<1>5. \A w \in S : \/ c /\ w = [op |-> "saveRow", group |-> g, patch |-> Restricted(q, Columns)]
                   \/ Keywords \in DOMAIN p /\ w = [op |-> "replaceWords", group |-> g, words |-> p[Keywords]]
                   \/ w = [op |-> "saveSettings", group |-> g, patch |-> Restricted(p, Lists)]
  BY <1>2 DEF SetWrites, Only, SaveRow, ReplaceWords, SaveSettings
<1>6. /\ c => \E w \in S : w = [op |-> "saveRow", group |-> g, patch |-> Restricted(q, Columns)]
      /\ Keywords \in DOMAIN p =>
            \E w \in S : w = [op |-> "replaceWords", group |-> g, words |-> p[Keywords]]
      /\ (DOMAIN p) \intersect Lists # {} =>
            \E w \in S : w = [op |-> "saveSettings", group |-> g, patch |-> Restricted(p, Lists)]
  BY <1>2 DEF SetWrites, Only, SaveRow, ReplaceWords, SaveSettings
<1>7. \A f \in Columns : Cell(Restricted(q, Columns), f) = Wanted(g, f)'
  <2> SUFFICES ASSUME NEW f \in Columns PROVE Cell(Restricted(q, Columns), f) = Wanted(g, f)'
    OBVIOUS
  <2>1. f \in Fields /\ f # Keywords
    BY RulesConstants DEF Fields, SqlFields
  <2>2. Wanted(g, f)' = IF f \in DOMAIN p THEN {p[f]}
                        ELSE IF f \in explicit[g] THEN {Own(g)[f]} ELSE {}
    BY <1>4, <2>1 DEF Wanted, Marked
  <2>3. CASE g = Default
    BY <2>1, <2>2, <2>3 DEF Cell, Restricted, Merged, Own, Typed, TypeOK
  <2>4. CASE g # Default
    <3>1. DOMAIN over[g] = explicit[g]
      BY <2>4 DEF Kept, ClearedFallsBack, FallsBack, Scopes
    <3> QED BY <2>1, <2>2, <2>4, <3>1 DEF Cell, Restricted, Merged, Own
  <2> QED BY <2>3, <2>4
<1>8. \A f \in Lists : f \in DOMAIN p => Cell(Restricted(p, Lists), f) = Wanted(g, f)'
  BY <1>4, RulesConstants DEF Cell, Restricted, Marked, Fields, SqlFields
<1>9. Keywords \in DOMAIN p => Marked(p[Keywords], Keywords) = Wanted(g, Keywords)'
  BY <1>4 DEF Fields, SqlFields
<1> HIDE DEF S, q, c
<1>10. \A w \in S : Target(w) = g /\ w.op # "deleteRow"
  BY <1>5 DEF Target
<1>11. ASSUME NEW f \in Fields, NEW w \in S, Touches(w, g, f)
       PROVE  Agrees(w, f, Wanted(g, f)')
  <2>1. CASE w = [op |-> "saveRow", group |-> g, patch |-> Restricted(q, Columns)]
    BY <1>7, <1>11, <2>1 DEF Touches, Agrees, Leaves
  <2>2. CASE Keywords \in DOMAIN p /\ w = [op |-> "replaceWords", group |-> g, words |-> p[Keywords]]
    BY <1>9, <1>11, <2>2 DEF Touches, Agrees, Leaves
  <2>3. CASE w = [op |-> "saveSettings", group |-> g, patch |-> Restricted(p, Lists)]
    <3>1. f \in Lists /\ f \in DOMAIN p
      BY <1>11, <2>3 DEF Touches, Restricted
    <3> QED BY <1>8, <2>3, <3>1 DEF Agrees, Leaves
  <2> QED BY <1>5, <2>1, <2>2, <2>3
<1>12. ASSUME NEW f \in Fields, f \in DOMAIN p PROVE \E w \in S : Touches(w, g, f)
  <2>1. CASE f \in Columns
    <3>1. c
      BY <1>12, <2>1 DEF c, SqlFields
    <3> QED BY <1>6, <2>1, <3>1 DEF Touches, Target
  <2>2. CASE f = Keywords
    BY <1>6, <1>12, <2>2 DEF Touches, Target
  <2>3. CASE f \in Lists
    <3>1. PICK w \in S : w = [op |-> "saveSettings", group |-> g, patch |-> Restricted(p, Lists)]
      BY <1>6, <1>12, <2>3
    <3>2. f \in DOMAIN Restricted(p, Lists)
      BY <1>12, <2>3 DEF Restricted
    <3> QED BY <3>1, <3>2 DEF Touches, Target
  <2> QED BY <2>1, <2>2, <2>3 DEF Fields, SqlFields
<1>13. ASSUME Needs(g)' PROVE Needs(g) \/ \E w \in S : MovesRow(w, g)
  <2>1. PICK f \in SqlFields : Wanted(g, f)' # {}
    BY <1>13 DEF Needs
  <2>2. CASE f \in DOMAIN p
    <3>1. c
      BY <2>2 DEF c
    <3> QED BY <1>6, <3>1 DEF MovesRow, Target
  <2>3. CASE f \notin DOMAIN p
    BY <1>4, <2>1, <2>3 DEF Needs, Fields
  <2> QED BY <2>2, <2>3
<1>14. UNCHANGED database /\ queue \in Seq(Write)
  BY DEF SetOverride, Edited, Typed
<1>15. \A f \in Fields : Wanted(g, f)' = Wanted(g, f) \/ \E w \in S : Touches(w, g, f)
  BY <1>4, <1>12
<1>16. \A h \in Scopes, f \in Fields : h # g => Wanted(h, f)' = Wanted(h, f)
  BY <1>4
<1> QED BY <1>1, <1>10, <1>11, <1>13, <1>14, <1>15, <1>16, EditSettles

LEMMA ClearSettles ==
    ASSUME Typed, Kept, \A h \in Scopes : Settled(h),
           NEW g \in Scopes, NEW X \in SUBSET Fields, ClearFields(g, X)
    PROVE  \A h \in Scopes : Settled(h)'
<1> DEFINE S == IF g = Default THEN DefaultClears(X) ELSE GroupClears(g, X)
<1>1. Queued(S)
  BY ClearQueues
<1>2. \A h \in Scopes, f \in Fields :
         Wanted(h, f)' = IF h = g /\ f \in X THEN {} ELSE Wanted(h, f)
  BY ClearWants DEF Typed
<1>3. \A w \in S : \/ g = Default /\ w = [op |-> "saveBase"]
                   \/ w = [op |-> "clearColumns", group |-> g, fields |-> X \intersect Columns]
                   \/ Keywords \in X /\ w = [op |-> "replaceWords", group |-> g, words |-> {}]
                   \/ w = [op |-> "removeSettings", group |-> g, fields |-> X \intersect Lists]
  BY DEF DefaultClears, GroupClears, ClearWrites, Only, SaveBase, ClearColumns, ReplaceWords,
         RemoveSettings
<1>4. /\ X \intersect Columns # {} =>
            \E w \in S : \/ g = Default /\ w = [op |-> "saveBase"]
                         \/ w = [op |-> "clearColumns", group |-> g, fields |-> X \intersect Columns]
      /\ Keywords \in X =>
            \E w \in S : w = [op |-> "replaceWords", group |-> g, words |-> {}]
      /\ X \intersect Lists # {} =>
            \E w \in S : w = [op |-> "removeSettings", group |-> g, fields |-> X \intersect Lists]
  BY DEF DefaultClears, GroupClears, ClearWrites, Only, SaveBase, ClearColumns, ReplaceWords,
         RemoveSettings, SqlFields
<1> HIDE DEF S
<1>5. \A w \in S : Target(w) = g /\ w.op # "deleteRow"
  BY <1>3 DEF Target
<1>6. ASSUME NEW f \in Fields, NEW w \in S, Touches(w, g, f)
      PROVE  Agrees(w, f, Wanted(g, f)')
  <2>1. CASE w = [op |-> "saveBase"]
    BY <2>1 DEF Agrees
  <2>2. CASE \/ w = [op |-> "clearColumns", group |-> g, fields |-> X \intersect Columns]
             \/ w = [op |-> "removeSettings", group |-> g, fields |-> X \intersect Lists]
    <3>1. f \in X /\ Leaves(w, f) = {}
      BY <1>6, <2>2 DEF Touches, Leaves
    <3> QED BY <1>2, <3>1 DEF Agrees
  <2>3. CASE Keywords \in X /\ w = [op |-> "replaceWords", group |-> g, words |-> {}]
    <3>1. f \in X /\ Leaves(w, f) = {}
      BY <1>6, <2>3 DEF Touches, Leaves, Marked
    <3> QED BY <1>2, <3>1 DEF Agrees
  <2> QED BY <1>3, <2>1, <2>2, <2>3
<1>7. ASSUME NEW f \in Fields, f \in X PROVE \E w \in S : Touches(w, g, f)
  <2>1. CASE f \in Columns
    BY <1>4, <1>7, <2>1 DEF Touches, Target
  <2>2. CASE f = Keywords
    BY <1>4, <1>7, <2>2 DEF Touches, Target
  <2>3. CASE f \in Lists
    BY <1>4, <1>7, <2>3 DEF Touches, Target
  <2> QED BY <2>1, <2>2, <2>3 DEF Fields, SqlFields
<1>8. Needs(g)' => Needs(g)
  BY <1>2 DEF Needs, Fields
<1>9. UNCHANGED database /\ queue \in Seq(Write)
  BY DEF ClearFields, Edited, Typed
<1>10. \A f \in Fields : Wanted(g, f)' = Wanted(g, f) \/ \E w \in S : Touches(w, g, f)
  BY <1>2, <1>7
<1>11. \A h \in Scopes, f \in Fields : h # g => Wanted(h, f)' = Wanted(h, f)
  BY <1>2
<1> QED BY <1>1, <1>5, <1>6, <1>8, <1>9, <1>10, <1>11, EditSettles

LEMMA RemoveSettles ==
    ASSUME Typed, \A h \in Scopes : Settled(h), NEW g \in Scopes, RemoveOverride(g)
    PROVE  \A h \in Scopes : Settled(h)'
<1> DEFINE S == Removes(g)
<1>1. Queued(S)
  BY RemoveQueues
<1>2. \A h \in Scopes, f \in Fields : Wanted(h, f)' = IF h = g THEN {} ELSE Wanted(h, f)
  BY RemoveWants DEF Typed
<1>3. S = {[op |-> "deleteRow", group |-> g], [op |-> "replaceWords", group |-> g, words |-> {}],
           [op |-> "removeAll", group |-> g]}
  BY DEF Removes, DeleteRow, ReplaceWords, RemoveAll
<1> HIDE DEF S
<1>4. \A w \in S : Target(w) = g
  BY <1>3 DEF Target
<1>5. \A f \in Fields, w \in S : Leaves(w, f) = {}
  BY <1>3 DEF Leaves, Marked
<1>6. \A f \in Fields, w \in S : Touches(w, g, f) => Agrees(w, f, Wanted(g, f)')
  BY <1>2, <1>5 DEF Agrees
<1>7. ASSUME NEW f \in Fields PROVE \E w \in S : Touches(w, g, f)
  <2>1. CASE f \in Columns
    BY <1>3, <2>1 DEF Touches, Target
  <2>2. CASE f = Keywords
    BY <1>3, <2>2 DEF Touches, Target
  <2>3. CASE f \in Lists
    BY <1>3, <2>3 DEF Touches, Target
  <2> QED BY <2>1, <2>2, <2>3 DEF Fields, SqlFields
<1>8. ~Needs(g)'
  BY <1>2 DEF Needs, Fields
<1>9. UNCHANGED database /\ queue \in Seq(Write)
  BY DEF RemoveOverride, Edited, Typed
<1>10. \A h \in Scopes, f \in Fields : h # g => Wanted(h, f)' = Wanted(h, f)
  BY <1>2
<1> QED BY <1>1, <1>4, <1>6, <1>7, <1>8, <1>9, <1>10, EditSettles

\* A write that lands leaves its cells as it should, and no other.
LEMMA LandHolds ==
    ASSUME Typed, Land, NEW h \in Scopes
    PROVE  /\ \A f \in Fields :
                 Held(h, f)' = IF Touches(Head(queue), h, f)
                               THEN IF Head(queue).op = "saveBase" THEN Wanted(h, f)
                                    ELSE Leaves(Head(queue), f)
                               ELSE Held(h, f)
           /\ MovesRow(Head(queue), h) => (rows'[h].has <=> Head(queue).op # "deleteRow")
           /\ ~MovesRow(Head(queue), h) => (rows'[h].has <=> rows[h].has)
<1> DEFINE w == Head(queue)
<1>1. w \in Write
  BY HeadIs DEF Typed, Land
<1>2. Landed(w)
  BY DEF Land
<1>3. Keywords \notin Columns /\ Keywords \notin Lists /\ Columns \intersect Lists = {}
  BY RulesConstants DEF SqlFields
<1>4. h \in DOMAIN rows /\ h \in DOMAIN words /\ h \in DOMAIN settings
  BY DEF Typed, TypeOK
<1> HIDE DEF w
<1>5. \A f : Held(h, f) = IF f \in Columns THEN Cell(rows[h].cols, f)
                        ELSE IF f = Keywords THEN Marked(words[h], Keywords)
                        ELSE Cell(settings[h], f)
  BY DEF Held
<1>6. \A f : Held(h, f)' = IF f \in Columns THEN Cell(rows'[h].cols, f)
                         ELSE IF f = Keywords THEN Marked(words'[h], Keywords)
                         ELSE Cell(settings'[h], f)
  BY DEF Held
<1>7. \A f \in Fields : f \in Columns \/ f = Keywords \/ f \in Lists
  BY DEF Fields, SqlFields
<1> DEFINE Left(f) == IF w.op = "saveBase" THEN Wanted(h, f) ELSE Leaves(w, f)
           Goal ==
              /\ \A f \in Fields : Held(h, f)' = IF Touches(w, h, f) THEN Left(f) ELSE Held(h, f)
              /\ MovesRow(w, h) => (rows'[h].has <=> w.op # "deleteRow")
              /\ ~MovesRow(w, h) => (rows'[h].has <=> rows[h].has)
<1> SUFFICES Goal
  BY DEF w
<1>8. CASE w.op = "saveRow"
  <2>1. rows' = [rows EXCEPT ![w.group] = [has |-> TRUE, cols |-> w.patch]]
        /\ UNCHANGED <<words, settings>>
    BY <1>2, <1>8 DEF Landed, LandRow
  <2>2. rows'[h] = IF h = w.group THEN [has |-> TRUE, cols |-> w.patch] ELSE rows[h]
    BY <1>4, <2>1
  <2>6. \A f : Touches(w, h, f) <=> h = w.group /\ f \in Columns
    BY <1>8 DEF Touches, Target
  <2>7. \A f : Left(f) = Cell(w.patch, f)
    BY <1>8 DEF Leaves
  <2>8. MovesRow(w, h) <=> h = w.group
    BY <1>8 DEF MovesRow, Target
  <2> HIDE DEF Left
  <2>9. \A f \in Fields : Held(h, f)' = IF Touches(w, h, f) THEN Left(f) ELSE Held(h, f)
    BY <1>3, <1>5, <1>6, <1>7, <2>1, <2>2, <2>6, <2>7
  <2>10. /\ MovesRow(w, h) => (rows'[h].has <=> w.op # "deleteRow")
         /\ ~MovesRow(w, h) => (rows'[h].has <=> rows[h].has)
    BY <1>8, <2>1, <2>2, <2>8
  <2> QED BY <2>9, <2>10
<1>9. CASE w.op = "saveBase"
  <2> DEFINE q == Restricted(base, explicit[Default] \intersect Columns)
  <2>1. rows' = [rows EXCEPT ![Default] = [has |-> TRUE, cols |-> q]]
        /\ UNCHANGED <<words, settings>>
    BY <1>2, <1>9 DEF Landed, LandRow
  <2>2. rows'[h] = IF h = Default THEN [has |-> TRUE, cols |-> q] ELSE rows[h]
    BY <1>4, <2>1
  <2>3. \A f \in Columns : Cell(q, f) = Wanted(Default, f)
    <3>1. Columns \subseteq DOMAIN base
      BY DEF Typed, TypeOK, Fields, SqlFields
    <3> QED BY <1>3, <3>1 DEF Cell, Restricted, Wanted, Own, Marked
  <2> HIDE DEF q
  <2>6. \A f : Touches(w, h, f) <=> h = Default /\ f \in Columns
    BY <1>9 DEF Touches, Target
  <2>7. \A f : Left(f) = Wanted(h, f)
    BY <1>9
  <2>8. MovesRow(w, h) <=> h = Default
    BY <1>9 DEF MovesRow, Target
  <2> HIDE DEF Left
  <2>9. \A f \in Fields : Held(h, f)' = IF Touches(w, h, f) THEN Left(f) ELSE Held(h, f)
    BY <1>3, <1>5, <1>6, <1>7, <2>1, <2>2, <2>3, <2>6, <2>7
  <2>10. /\ MovesRow(w, h) => (rows'[h].has <=> w.op # "deleteRow")
         /\ ~MovesRow(w, h) => (rows'[h].has <=> rows[h].has)
    BY <1>9, <2>1, <2>2, <2>8
  <2> QED BY <2>9, <2>10
<1>10. CASE w.op = "clearColumns"
  <2>1. rows' = [rows EXCEPT ![w.group].cols = Without(@, w.fields)] /\ UNCHANGED <<words, settings>>
    BY <1>2, <1>10 DEF Landed
  <2>2. /\ rows'[h].has = rows[h].has
        /\ rows'[h].cols = IF h = w.group THEN Without(rows[h].cols, w.fields) ELSE rows[h].cols
    BY <1>4, <2>1 DEF Typed, TypeOK
  <2>3. w.fields \subseteq Columns
    BY <1>1, <1>10 DEF Write
  <2>4. \A f : Cell(Without(rows[h].cols, w.fields), f)
                  = IF f \in w.fields THEN {} ELSE Cell(rows[h].cols, f)
    BY DEF Cell, Without
  <2>6. \A f : Touches(w, h, f) <=> h = w.group /\ f \in w.fields
    BY <1>10 DEF Touches, Target
  <2>7. \A f : Left(f) = {}
    BY <1>10 DEF Leaves
  <2>8. MovesRow(w, h) <=> FALSE
    BY <1>10 DEF MovesRow, Target
  <2> HIDE DEF Left
  <2>9. \A f \in Fields : Held(h, f)' = IF Touches(w, h, f) THEN Left(f) ELSE Held(h, f)
    BY <1>3, <1>5, <1>6, <1>7, <2>1, <2>2, <2>3, <2>4, <2>6, <2>7
  <2>10. /\ MovesRow(w, h) => (rows'[h].has <=> w.op # "deleteRow")
         /\ ~MovesRow(w, h) => (rows'[h].has <=> rows[h].has)
    BY <1>10, <2>1, <2>2, <2>8
  <2> QED BY <2>9, <2>10
<1>11. CASE w.op = "deleteRow"
  <2>1. rows' = [rows EXCEPT ![w.group] = NoRow] /\ UNCHANGED <<words, settings>>
    BY <1>2, <1>11 DEF Landed
  <2>2. rows'[h] = IF h = w.group THEN NoRow ELSE rows[h]
    BY <1>4, <2>1
  <2>3. \A f : Cell(None, f) = {}
    BY DEF Cell, None
  <2>4. \A f : Cell(rows'[h].cols, f) = IF h = w.group THEN {} ELSE Cell(rows[h].cols, f)
    BY <2>2, <2>3 DEF NoRow
  <2>6. \A f : Touches(w, h, f) <=> h = w.group /\ f \in Columns
    BY <1>11 DEF Touches, Target
  <2>7. \A f : Left(f) = {}
    BY <1>11 DEF Leaves
  <2>8. MovesRow(w, h) <=> h = w.group
    BY <1>11 DEF MovesRow, Target
  <2> HIDE DEF Left
  <2>9. \A f \in Fields : Held(h, f)' = IF Touches(w, h, f) THEN Left(f) ELSE Held(h, f)
    BY <1>3, <1>5, <1>6, <1>7, <2>1, <2>4, <2>6, <2>7
  <2>10. /\ MovesRow(w, h) => (rows'[h].has <=> w.op # "deleteRow")
         /\ ~MovesRow(w, h) => (rows'[h].has <=> rows[h].has)
    BY <1>11, <2>1, <2>2, <2>8 DEF NoRow
  <2> QED BY <2>9, <2>10
<1>12. CASE w.op = "replaceWords"
  <2>1. words' = [words EXCEPT ![w.group] = w.words] /\ UNCHANGED <<rows, settings>>
    BY <1>2, <1>12 DEF Landed
  <2>2. words'[h] = IF h = w.group THEN w.words ELSE words[h]
    BY <1>4, <2>1
  <2>6. \A f : Touches(w, h, f) <=> h = w.group /\ f = Keywords
    BY <1>12 DEF Touches, Target
  <2>7. \A f : Left(f) = Marked(w.words, Keywords)
    BY <1>12 DEF Leaves
  <2>8. MovesRow(w, h) <=> FALSE
    BY <1>12 DEF MovesRow, Target
  <2> HIDE DEF Left
  <2>9. \A f \in Fields : Held(h, f)' = IF Touches(w, h, f) THEN Left(f) ELSE Held(h, f)
    BY <1>3, <1>5, <1>6, <1>7, <2>1, <2>2, <2>6, <2>7
  <2>10. /\ MovesRow(w, h) => (rows'[h].has <=> w.op # "deleteRow")
         /\ ~MovesRow(w, h) => (rows'[h].has <=> rows[h].has)
    BY <1>12, <2>1, <2>2, <2>8
  <2> QED BY <2>9, <2>10
<1>13. CASE w.op = "saveSettings"
  <2>1. settings' = [settings EXCEPT ![w.group] = Merged(@, w.patch)] /\ UNCHANGED <<rows, words>>
    BY <1>2, <1>13 DEF Landed
  <2>2. settings'[h] = IF h = w.group THEN Merged(settings[h], w.patch) ELSE settings[h]
    BY <1>4, <2>1
  <2>3. DOMAIN w.patch \subseteq Lists \union {Foreign}
    <3>1. w.patch \in Patch(Lists \union {Foreign})
      BY <1>1, <1>13 DEF Write
    <3> QED BY <3>1, PatchIs
  <2>4. \A f : Cell(Merged(settings[h], w.patch), f)
                  = IF f \in DOMAIN w.patch THEN Cell(w.patch, f) ELSE Cell(settings[h], f)
    BY DEF Cell, Merged
  <2>5. \A f \in Fields : f \in DOMAIN w.patch => f \in Lists
    BY <2>3, RulesConstants
  <2>6. \A f : Touches(w, h, f) <=> h = w.group /\ f \in DOMAIN w.patch
    BY <1>13 DEF Touches, Target
  <2>7. \A f : Left(f) = Cell(w.patch, f)
    BY <1>13 DEF Leaves
  <2>8. MovesRow(w, h) <=> FALSE
    BY <1>13 DEF MovesRow, Target
  <2> HIDE DEF Left
  <2>9. \A f \in Fields : Held(h, f)' = IF Touches(w, h, f) THEN Left(f) ELSE Held(h, f)
    BY <1>3, <1>5, <1>6, <1>7, <2>1, <2>2, <2>4, <2>5, <2>6, <2>7
  <2>10. /\ MovesRow(w, h) => (rows'[h].has <=> w.op # "deleteRow")
         /\ ~MovesRow(w, h) => (rows'[h].has <=> rows[h].has)
    BY <1>13, <2>1, <2>2, <2>8
  <2> QED BY <2>9, <2>10
<1>14. CASE w.op = "removeSettings"
  <2>1. settings' = [settings EXCEPT ![w.group] = Without(@, w.fields)] /\ UNCHANGED <<rows, words>>
    BY <1>2, <1>14 DEF Landed
  <2>2. settings'[h] = IF h = w.group THEN Without(settings[h], w.fields) ELSE settings[h]
    BY <1>4, <2>1
  <2>3. w.fields \subseteq Lists
    BY <1>1, <1>14 DEF Write
  <2>4. \A f : Cell(Without(settings[h], w.fields), f)
                  = IF f \in w.fields THEN {} ELSE Cell(settings[h], f)
    BY DEF Cell, Without
  <2>6. \A f : Touches(w, h, f) <=> h = w.group /\ f \in w.fields
    BY <1>14 DEF Touches, Target
  <2>7. \A f : Left(f) = {}
    BY <1>14 DEF Leaves
  <2>8. MovesRow(w, h) <=> FALSE
    BY <1>14 DEF MovesRow, Target
  <2> HIDE DEF Left
  <2>9. \A f \in Fields : Held(h, f)' = IF Touches(w, h, f) THEN Left(f) ELSE Held(h, f)
    BY <1>3, <1>5, <1>6, <1>7, <2>1, <2>2, <2>3, <2>4, <2>6, <2>7
  <2>10. /\ MovesRow(w, h) => (rows'[h].has <=> w.op # "deleteRow")
         /\ ~MovesRow(w, h) => (rows'[h].has <=> rows[h].has)
    BY <1>14, <2>1, <2>2, <2>8
  <2> QED BY <2>9, <2>10
<1>15. CASE w.op = "removeAll"
  <2>1. settings' = [settings EXCEPT ![w.group] = None] /\ UNCHANGED <<rows, words>>
    BY <1>2, <1>15 DEF Landed
  <2>2. settings'[h] = IF h = w.group THEN None ELSE settings[h]
    BY <1>4, <2>1
  <2>3. \A f : Cell(None, f) = {}
    BY DEF Cell, None
  <2>6. \A f : Touches(w, h, f) <=> h = w.group /\ f \in Lists
    BY <1>15 DEF Touches, Target
  <2>7. \A f : Left(f) = {}
    BY <1>15 DEF Leaves
  <2>8. MovesRow(w, h) <=> FALSE
    BY <1>15 DEF MovesRow, Target
  <2> HIDE DEF Left
  <2>9. \A f \in Fields : Held(h, f)' = IF Touches(w, h, f) THEN Left(f) ELSE Held(h, f)
    BY <1>3, <1>5, <1>6, <1>7, <2>1, <2>2, <2>3, <2>6, <2>7
  <2>10. /\ MovesRow(w, h) => (rows'[h].has <=> w.op # "deleteRow")
         /\ ~MovesRow(w, h) => (rows'[h].has <=> rows[h].has)
    BY <1>15, <2>1, <2>2, <2>8
  <2> QED BY <2>9, <2>10
<1> QED
  BY <1>2, <1>8, <1>9, <1>10, <1>11, <1>12, <1>13, <1>14, <1>15 DEF Landed

LEMMA LandSettles ==
    ASSUME Typed, \A h \in Scopes : Settled(h), Land
    PROVE  \A h \in Scopes : Settled(h)'
<1> SUFFICES ASSUME NEW h \in Scopes PROVE Settled(h)'
  OBVIOUS
<1>1. queue \in Seq(Write) /\ queue # <<>> /\ queue' = Tail(queue)
  BY DEF Typed, Land
<1>2. \A f : Wanted(h, f)' = Wanted(h, f)
  BY DEF Land, memory, Wanted, Own
<1>3. ASSUME NEW f \in Fields PROVE FieldEnds(queue', h, f, Held(h, f)', Wanted(h, f)')
  <2> DEFINE u == Held(h, f)
             v == Held(h, f)'
             k == Wanted(h, f)
  <2>1. FieldEnds(queue, h, f, u, k)
    BY DEF Settled
  <2>2. v = IF Touches(Head(queue), h, f)
            THEN IF Head(queue).op = "saveBase" THEN k ELSE Leaves(Head(queue), f) ELSE u
    BY LandHolds
  <2> HIDE DEF u, v, k
  <2>3. FieldEnds(Tail(queue), h, f, v, k)
    BY <1>1, <2>1, <2>2, FieldLands
  <2> QED BY <1>1, <1>2, <2>3 DEF v, k
<1>4. ASSUME Needs(h)' PROVE RowEnds(queue', h, rows'[h].has)
  <2>1. RowEnds(queue, h, rows[h].has)
    BY <1>2, <1>4 DEF Needs, Settled
  <2> DEFINE u == rows[h].has
             v == rows'[h].has
  <2>2. /\ MovesRow(Head(queue), h) => (v <=> Head(queue).op # "deleteRow")
        /\ ~MovesRow(Head(queue), h) => (v <=> u)
    BY LandHolds
  <2> HIDE DEF u, v
  <2>3. RowEnds(Tail(queue), h, v)
    <3>1. RowEnds(queue, h, u)
      BY <2>1 DEF u
    <3> QED BY <1>1, <2>2, <3>1, RowLands
  <2> QED BY <1>1, <2>3 DEF v
<1> QED BY <1>3, <1>4 DEF Settled

\* What another service writes is in no cell of the rules.
LEMMA ForeignSettles ==
    ASSUME Typed, \A h \in Scopes : Settled(h), NEW g \in Groups, PutForeign(g, Words)
    PROVE  \A h \in Scopes : Settled(h)'
<1> DEFINE S == {SaveSettings(g, [k \in {Foreign} |-> Words])[1]}
<1>1. g \in Scopes /\ g # Default
  BY RulesConstants DEF Scopes
<1>2. Queued(S)
  <2> DEFINE p == [k \in {Foreign} |-> Words]
             w == SaveSettings(g, p)[1]
  <2>1. p \in Patch(Lists \union {Foreign})
    BY PatchIs
  <2>2. w \in Write /\ SaveSettings(g, p) = <<w>>
    <3> HIDE DEF p
    <3> QED BY <1>1, <2>1, WritesTyped
  <2>3. queue' = queue \o <<w>>
    BY <2>2 DEF PutForeign, Enqueue
  <2> HIDE DEF w
  <2>4. Among(When(TRUE, <<w>>), Only(TRUE, w))
    BY <2>2, AmongWhen
  <2> QED BY <2>3, <2>4 DEF Queued, When, Only, w
<1>3. \A h, f : Wanted(h, f)' = Wanted(h, f)
  BY DEF PutForeign, memory, Wanted, Own
<1>4. ASSUME NEW w \in S
      PROVE  Target(w) = g /\ w.op # "deleteRow" /\ \A f \in Fields : ~Touches(w, g, f)
  <2>1. w = [op |-> "saveSettings", group |-> g, patch |-> [k \in {Foreign} |-> Words]]
    BY DEF SaveSettings
  <2> QED BY <2>1, RulesConstants DEF Target, Touches
<1>5. UNCHANGED database /\ queue \in Seq(Write)
  BY DEF PutForeign, Typed
<1> HIDE DEF S
<1>6. Needs(g)' => Needs(g)
  BY <1>3 DEF Needs
<1> QED BY <1>1, <1>2, <1>3, <1>4, <1>5, <1>6, EditSettles

(* The reads of load() and of a start.                                     *)

LEMMA StoredIs ==
    ASSUME TypeOK, NEW g \in Scopes, NEW f \in Fields
    PROVE  /\ f \in DOMAIN FoundFields(g) => f \notin Lists
           /\ f \in DOMAIN FoundSettings(g) => f \in Lists
           /\ f = Keywords /\ f \in DOMAIN Stored(g) => Stored(g)[f] # {}
<1>1. DOMAIN FoundFields(g) \subseteq SqlFields /\ DOMAIN FoundSettings(g) \subseteq Lists
  BY FoundTyped, PatchIs
<1>2. ASSUME f = Keywords, f \in DOMAIN Stored(g) PROVE Stored(g)[f] # {}
  <2>1. f \notin DOMAIN FoundSettings(g) /\ f \in DOMAIN FoundFields(g)
    BY <1>1, <1>2, RulesConstants DEF Stored, Merged, SqlFields
  <2>2. Stored(g)[f] = FoundFields(g)[f]
    BY <2>1 DEF Stored, Merged
  <2>3. f \notin DOMAIN rows[g].cols
    <3>1. rows[g].cols \in Patch(Columns)
      BY DEF TypeOK
    <3> QED BY <1>2, <3>1, PatchIs, RulesConstants
  <2>4. rows[g].has /\ words[g] # {} /\ FoundFields(g)[f] = words[g]
    BY <1>2, <2>1, <2>3 DEF FoundFields, Merged, None, ParseRuleSetting
  <2> QED BY <2>2, <2>4
<1> QED BY <1>1, <1>2, RulesConstants

LEMMA HeldIsStored ==
    ASSUME TypeOK, NEW g \in Scopes, ~rows[g].has => rows[g].cols = None /\ words[g] = {},
           NEW f \in Fields
    PROVE  Held(g, f) = Cell(Stored(g), f)
<1>1. /\ DOMAIN FoundFields(g) \subseteq SqlFields /\ DOMAIN FoundSettings(g) \subseteq Lists
      /\ DOMAIN rows[g].cols \subseteq Columns
  <2>1. rows[g].cols \in Patch(Columns)
    BY DEF TypeOK
  <2> QED BY <2>1, FoundTyped, PatchIs
<1>2. Keywords \notin Columns /\ SqlFields \intersect Lists = {}
  BY RulesConstants
<1>3. CASE f \in Lists
  <2>1. f \notin DOMAIN FoundFields(g) /\ f \notin Columns /\ f # Keywords
    BY <1>1, <1>2, <1>3 DEF SqlFields
  <2> QED BY <1>3, <2>1 DEF Held, Cell, Stored, Merged, FoundSettings, Restricted
<1>4. CASE f \in SqlFields
  <2>1. f \notin DOMAIN FoundSettings(g)
    BY <1>1, <1>2, <1>4
  <2>2. Cell(Stored(g), f) = Cell(FoundFields(g), f)
    BY <2>1 DEF Cell, Stored, Merged
  <2>3. CASE ~rows[g].has
    <3>1. FoundFields(g) = None
      BY <2>3 DEF FoundFields
    <3> QED BY <1>2, <1>4, <2>2, <2>3, <3>1 DEF Held, Cell, None, Marked, SqlFields
  <2>4. CASE rows[g].has
    <3> DEFINE k == IF words[g] = {} THEN None ELSE ParseRuleSetting(Keywords, words[g])
    <3>1. FoundFields(g) = Merged(rows[g].cols, k)
      BY <2>4 DEF FoundFields
    <3>2. CASE f \in Columns
      <4>1. f \notin DOMAIN k
        BY <1>2, <3>2 DEF None, ParseRuleSetting
      <4> HIDE DEF k
      <4> QED BY <2>2, <3>1, <3>2, <4>1 DEF Held, Cell, Merged
    <3>3. CASE f = Keywords
      <4>1. f \notin DOMAIN rows[g].cols
        BY <1>1, <1>2, <3>3
      <4>2. Cell(FoundFields(g), f) = Cell(k, f)
        <5> HIDE DEF k
        <5> QED BY <3>1, <4>1 DEF Cell, Merged
      <4>3. Cell(k, f) = Marked(words[g], Keywords)
        BY <3>3 DEF Cell, None, ParseRuleSetting, Marked
      <4> QED BY <1>2, <2>2, <3>3, <4>2, <4>3 DEF Held
    <3> QED BY <1>4, <3>2, <3>3 DEF SqlFields
  <2> QED BY <2>3, <2>4
<1> QED BY <1>3, <1>4 DEF Fields

\* Memory as read, from a database that is as it should be and no write of
\* the rules queued.
LEMMA ReadSettles ==
    ASSUME TypeOK, Rooted, UNCHANGED database,
           \A i \in DOMAIN queue' : /\ queue'[i].op = "saveSettings"
                                    /\ DOMAIN queue'[i].patch \subseteq {Foreign},
           \A g \in Scopes : explicit'[g] = DOMAIN Stored(g),
           \A g \in Groups : over'[g] = Stored(g),
           \A f \in DOMAIN Stored(Default) : base'[f] = Stored(Default)[f]
    PROVE  \A g \in Scopes : Settled(g)'
<1> SUFFICES ASSUME NEW g \in Scopes PROVE Settled(g)'
  OBVIOUS
<1>1. ASSUME NEW f \in Fields PROVE Wanted(g, f)' = Held(g, f)
  <2>1. Held(g, f) = Cell(Stored(g), f)
    BY HeldIsStored DEF Rooted
  <2>2. f \in DOMAIN Stored(g) => (Own(g)'[f] = Stored(g)[f])
    BY DEF Own, Scopes
  <2>3. f \in DOMAIN Stored(g) /\ f = Keywords => Stored(g)[f] # {}
    BY StoredIs
  <2> QED BY <2>1, <2>2, <2>3 DEF Wanted, Marked, Cell
<1>2. \A f : Held(g, f)' = Held(g, f)
  BY DEF Held, database
<1>3. \A i \in DOMAIN queue', f \in Fields : ~Touches(queue'[i], g, f) /\ ~MovesRow(queue'[i], g)
  BY RulesConstants DEF Touches, MovesRow
<1>4. Needs(g)' => rows[g].has
  <2>1. ASSUME ~rows[g].has, NEW f \in SqlFields PROVE Held(g, f) = {}
    BY <2>1 DEF Rooted, Held, SqlFields, Cell, None, Marked
  <2> QED BY <1>1, <2>1 DEF Needs, Fields
<1>5. rows' = rows
  BY DEF database
<1>6. \A f \in Fields : FieldEnds(queue', g, f, Held(g, f)', Wanted(g, f)')
  BY <1>1, <1>2, <1>3 DEF FieldEnds
<1>7. Needs(g)' => RowEnds(queue', g, rows'[g].has)
  <2>1. ASSUME Needs(g)' PROVE RowEnds(queue', g, rows'[g].has)
    <3>1. rows'[g].has
      BY <1>4, <1>5, <2>1
    <3>2. \A i \in DOMAIN queue' : ~MovesRow(queue'[i], g)
      BY <1>3 DEF MovesRow
    <3> QED BY <3>1, <3>2 DEF RowEnds
  <2> QED BY <2>1
<1> QED BY <1>6, <1>7 DEF Settled

\* Once everything has landed, the database has what memory wants.
LEMMA DrainedIs ==
    ASSUME queue = <<>>, NEW g \in Scopes, Settled(g)
    PROVE  /\ \A f \in Fields : Held(g, f) = Wanted(g, f)
           /\ Needs(g) => rows[g].has
BY DEF Settled, FieldEnds, RowEnds

LEMMA DrainedIsRooted ==
    ASSUME TypeOK, queue = <<>>, \A g \in Scopes : Settled(g)
    PROVE  Rooted
<1> SUFFICES ASSUME NEW g \in Scopes, ~rows[g].has PROVE rows[g].cols = None /\ words[g] = {}
  BY DEF Rooted
<1>1. \A f \in SqlFields : Held(g, f) = {}
  BY DrainedIs DEF Needs, Fields
<1>2. words[g] = {}
  BY <1>1, RulesConstants DEF Held, SqlFields, Marked
<1>3. rows[g].cols \in Patch(Columns)
  BY DEF TypeOK
<1>4. DOMAIN rows[g].cols = {}
  <2>1. DOMAIN rows[g].cols \subseteq Columns
    BY <1>3, PatchIs
  <2>2. \A f \in Columns : f \notin DOMAIN rows[g].cols
    BY <1>1 DEF Held, SqlFields, Cell
  <2> QED BY <2>1, <2>2
<1>5. rows[g].cols = None
  <2>1. rows[g].cols = [f \in DOMAIN rows[g].cols |-> rows[g].cols[f]]
    BY <1>3, PatchIs
  <2> QED BY <1>4, <2>1 DEF None
<1> QED BY <1>2, <1>5

LEMMA NoneIs ==
    ASSUME NEW S, NEW p \in Patch(S)
    PROVE  Merged(None, p) = p /\ Merged(p, None) = p
<1>1. p = [f \in DOMAIN p |-> p[f]]
  BY PatchIs
<1>2. DOMAIN None = {}
  BY DEF None
<1>3. Merged(None, p) = [f \in DOMAIN p |-> p[f]]
  BY <1>2 DEF Merged
<1>4. Merged(p, None) = [f \in DOMAIN p |-> p[f]]
  BY <1>2 DEF Merged
<1> QED BY <1>1, <1>3, <1>4

LEMMA LoadStartsInStep ==
    ASSUME Typed, InStep, LoadStarts
    PROVE  InStep'
<1> SUFFICES ASSUME lossless' PROVE Reread'
  BY DEF InStep, LoadStarts
<1>1. lossless /\ queue = <<>> /\ loading = "no"
  BY DEF LoadStarts
<1>2. Rooted
  BY <1>1, DrainedIsRooted DEF InStep, Typed
<1>3. Rooted'
  BY <1>2 DEF LoadStarts, database, Rooted
<1>4. Calm'
  BY <1>1 DEF LoadStarts, Calm
<1>5. \A g : SoFar(g)' = None
  BY DEF LoadStarts, SoFar
<1>6. base' = Merged(Seed, None)
  <2>1. Seed \in Patch(Fields)
    BY PatchIs DEF Seed
  <2> QED BY <2>1, NoneIs DEF LoadStarts
<1>7. over' = [g \in Groups |-> None] /\ explicit' = [g \in Scopes |-> DOMAIN None]
  BY DEF LoadStarts, None
<1> QED BY <1>3, <1>4, <1>5, <1>6, <1>7 DEF Reread

LEMMA LoadOverridesInStep ==
    ASSUME Typed, InStep, LoadOverrides
    PROVE  InStep'
<1> SUFFICES ASSUME lossless' PROVE Reread'
  BY DEF InStep, LoadOverrides
<1>1. lossless /\ loading = "overrides" /\ UNCHANGED <<rows, words, settings, queue>>
  BY DEF LoadOverrides, database
<1>2. Reread /\ \A g : SoFar(g) = None
  BY <1>1 DEF InStep, SoFar
<1>3. Calm' /\ Rooted'
  BY <1>1, <1>2 DEF Reread, Calm, Rooted
<1>4. \A g : SoFar(g)' = FoundFields(g)
  BY <1>1 DEF LoadOverrides, SoFar, FoundFields
<1>5. base = Seed
  <2>1. Seed \in Patch(Fields)
    BY PatchIs DEF Seed
  <2> QED BY <1>2, <2>1, NoneIs DEF Reread
<1>6. base' = Merged(Seed, FoundFields(Default))
  BY <1>5 DEF LoadOverrides, ApplyLoaded, Scopes
<1>7. over' = [g \in Groups |-> FoundFields(g)]
  <2>1. \A g \in Groups : Merged(over[g], FoundFields(g)) = FoundFields(g)
    <3> SUFFICES ASSUME NEW g \in Groups PROVE Merged(None, FoundFields(g)) = FoundFields(g)
      BY <1>2 DEF Reread
    <3> QED BY FoundTyped, NoneIs DEF Typed, Scopes
  <2>2. over' = [g \in Groups |-> Merged(over[g], FoundFields(g))]
    BY DEF LoadOverrides, ApplyLoaded, Scopes
  <2> QED BY <2>1, <2>2
<1>8. explicit' = [g \in Scopes |-> DOMAIN FoundFields(g)]
  <2>1. \A g \in Scopes : explicit[g] = {}
    BY <1>2 DEF Reread, None
  <2> QED BY <2>1 DEF LoadOverrides, ApplyLoaded
<1> QED BY <1>3, <1>4, <1>6, <1>7, <1>8 DEF Reread

LEMMA LoadSettingsInStep ==
    ASSUME Typed, InStep, LoadSettings
    PROVE  InStep'
<1> SUFFICES ASSUME lossless' PROVE \A g \in Scopes : Settled(g)'
  BY DEF InStep, LoadSettings
<1>1. lossless /\ loading = "settings" /\ UNCHANGED database /\ queue' = queue
  BY DEF LoadSettings
<1>2. Reread /\ \A g : SoFar(g) = FoundFields(g)
  BY <1>1 DEF InStep, SoFar
<1>3. \A i \in DOMAIN queue' : /\ queue'[i].op = "saveSettings"
                               /\ DOMAIN queue'[i].patch \subseteq {Foreign}
  BY <1>1, <1>2 DEF Reread, Calm
<1>4. \A g \in Scopes : explicit'[g] = DOMAIN Stored(g)
  BY <1>2 DEF LoadSettings, ApplyLoaded, Reread, Stored, Merged
<1>5. \A g \in Groups : over'[g] = Stored(g)
  BY <1>2 DEF LoadSettings, ApplyLoaded, Reread, Stored, Scopes
<1>6. \A f \in DOMAIN Stored(Default) : base'[f] = Stored(Default)[f]
  <2> DEFINE a == FoundFields(Default)
             b == FoundSettings(Default)
  <2>1. base' = Merged(Merged(Seed, a), b) /\ Stored(Default) = Merged(a, b)
    BY <1>2 DEF LoadSettings, ApplyLoaded, Reread, Stored, Scopes
  <2> HIDE DEF a, b
  <2> QED BY <2>1 DEF Merged
<1> QED BY <1>1, <1>2, <1>3, <1>4, <1>5, <1>6, ReadSettles DEF Reread, Typed

LEMMA RestartInStep ==
    ASSUME Typed, InStep, Restart
    PROVE  InStep'
<1> SUFFICES ASSUME lossless' PROVE \A g \in Scopes : Settled(g)'
  BY DEF InStep, Restart
<1>1. lossless /\ queue = <<>> /\ queue' = <<>> /\ UNCHANGED database
  BY DEF Restart
<1>2. Rooted
  <2>1. CASE loading = "no"
    BY <1>1, <2>1, DrainedIsRooted DEF InStep, Typed
  <2>2. CASE loading # "no"
    BY <1>1, <2>2 DEF InStep, Reread
  <2> QED BY <2>1, <2>2
<1>3. \A g \in Scopes : explicit'[g] = DOMAIN Stored(g)
  BY DEF Restart
<1>4. \A g \in Groups : over'[g] = Stored(g)
  BY DEF Restart
<1>5. \A f \in DOMAIN Stored(Default) : base'[f] = Stored(Default)[f]
  BY DEF Restart, Merged
<1> QED BY <1>1, <1>2, <1>3, <1>4, <1>5, ReadSettles DEF Typed

\* While load() reads, only the rows of other services change.
LEMMA ReadingInStep ==
    ASSUME Typed, Reread, Land \/ \E g \in Groups : PutForeign(g, Words)
    PROVE  Reread'
<1>1. CASE Land
  <2> DEFINE w == Head(queue)
  <2>1. queue \in Seq(Write) /\ queue # <<>> /\ queue' = Tail(queue) /\ Landed(w)
    BY <1>1 DEF Typed, Land
  <2>2. w = queue[1] /\ 1 \in DOMAIN queue
    BY <2>1, Shorter
  <2>3. w.op = "saveSettings"
    BY <2>2 DEF Reread, Calm
  <2> HIDE DEF w
  <2>4. UNCHANGED <<rows, words>>
    BY <2>1, <2>3 DEF Landed
  <2>5. Calm'
    BY <2>1, Shorter DEF Reread, Calm
  <2>6. UNCHANGED <<base, over, explicit, loading>>
    BY <1>1 DEF Land, memory
  <2>7. \A g : SoFar(g)' = SoFar(g)
    BY <2>4, <2>6 DEF SoFar, FoundFields
  <2> QED BY <2>4, <2>5, <2>6, <2>7 DEF Reread, Rooted
<1>2. CASE \E g \in Groups : PutForeign(g, Words)
  <2>1. PICK g \in Groups : PutForeign(g, Words)
    BY <1>2
  <2> DEFINE w == SaveSettings(g, [k \in {Foreign} |-> Words])[1]
  <2>2. UNCHANGED <<base, over, explicit, rows, words, loading>>
    BY <2>1 DEF PutForeign, memory, database
  <2>3. queue' = queue \o <<w>> /\ w.op = "saveSettings" /\ DOMAIN w.patch \subseteq {Foreign}
    BY <2>1 DEF PutForeign, Enqueue, SaveSettings
  <2>4. w \in Write
    <3>1. [k \in {Foreign} |-> Words] \in Patch(Lists \union {Foreign})
      BY PatchIs
    <3>2. g \in Scopes
      BY DEF Scopes
    <3> QED BY <3>1, <3>2, WritesTyped
  <2> HIDE DEF w
  <2>5. Among(<<w>>, {w})
    <3>1. Among(When(TRUE, <<w>>), Only(TRUE, w))
      BY <2>4, AmongWhen
    <3> QED BY <3>1 DEF When, Only
  <2>6. Calm'
    BY <2>3, <2>5, Joined DEF Typed, Reread, Calm
  <2>7. \A h : SoFar(h)' = SoFar(h)
    BY <2>2 DEF SoFar, FoundFields
  <2> QED BY <2>2, <2>6, <2>7 DEF Reread, Rooted
<1> QED BY <1>1, <1>2

LEMMA StepInStep == Typed /\ Kept /\ InStep /\ [Next]_vars => InStep'
<1> SUFFICES ASSUME Typed, Kept, InStep, [Next]_vars PROVE InStep'
  OBVIOUS
<1>1. CASE \E u \in Users, g \in Scopes : Edit(u, g)
  <2>1. PICK u \in Users, g \in Scopes : Edit(u, g)
    BY <1>1
  <2>2. \/ \E p \in Patch(Fields) : SetOverride(g, p)
        \/ \E S \in SUBSET Fields : ClearFields(g, S)
        \/ RemoveOverride(g)
    BY <2>1, EditIsOneOf DEF Typed
  <2>3. Edited
    BY <2>2 DEF SetOverride, ClearFields, RemoveOverride
  <2> SUFFICES ASSUME lossless' PROVE \A h \in Scopes : Settled(h)'
    BY <2>3 DEF InStep, Edited
  <2>4. \A h \in Scopes : Settled(h)
    BY <2>3 DEF InStep, Edited
  <2> QED BY <2>2, <2>4, SetSettles, ClearSettles, RemoveSettles
<1>2. CASE Land \/ \E g \in Groups : PutForeign(g, Words)
  <2>1. lossless' = lossless /\ loading' = loading
    BY <1>2 DEF Land, PutForeign
  <2>2. CASE loading = "no"
    BY <1>2, <2>1, <2>2, LandSettles, ForeignSettles DEF InStep
  <2>3. CASE loading # "no"
    BY <1>2, <2>1, <2>3, ReadingInStep DEF InStep
  <2> QED BY <2>2, <2>3
<1>3. CASE WriteFails \/ ReplaceFails
  BY <1>3 DEF WriteFails, ReplaceFails, InStep
<1>4. CASE LoadStarts
  BY <1>4, LoadStartsInStep
<1>5. CASE LoadOverrides
  BY <1>5, LoadOverridesInStep
<1>6. CASE LoadSettings
  BY <1>6, LoadSettingsInStep
<1>7. CASE Restart
  BY <1>7, RestartInStep
<1>8. CASE UNCHANGED vars
  <2>1. UNCHANGED <<base, over, explicit, rows, words, settings, queue, loading, lossless>>
    BY <1>8 DEF vars
  <2>2. (\A g, f : Wanted(g, f)' = Wanted(g, f)) /\ \A g, f : Held(g, f)' = Held(g, f)
    BY <2>1 DEF Wanted, Own, Held
  <2>3. \A g : SoFar(g)' = SoFar(g)
    BY <2>1 DEF SoFar, FoundFields
  <2>4. \A g : Needs(g)' <=> Needs(g)
    BY <2>2 DEF Needs
  <2>5. \A g \in Scopes : Settled(g) => Settled(g)'
    BY <2>1, <2>2, <2>4 DEF Settled
  <2>6. Reread => Reread'
    BY <2>1, <2>3 DEF Reread, Calm, Rooted
  <2> QED BY <2>1, <2>5, <2>6 DEF InStep
<1> QED BY <1>1, <1>2, <1>3, <1>4, <1>5, <1>6, <1>7, <1>8 DEF Next

LEMMA InitInStep == Init => InStep
<1> SUFFICES ASSUME Init, NEW g \in Scopes PROVE Settled(g)
  BY DEF Init, InStep
<1>1. queue = <<>> /\ explicit[g] = {} /\ rows[g].cols = None /\ words[g] = {} /\ settings[g] = None
  BY DEF Init, NoRow
<1>2. \A f \in Fields : Held(g, f) = {} /\ Wanted(g, f) = {}
  BY <1>1 DEF Held, Wanted, Cell, None, Marked
<1>3. ~Needs(g)
  BY <1>2 DEF Needs, Fields
<1>4. DOMAIN queue = {}
  BY <1>1
<1>5. \A f \in Fields : FieldEnds(queue, g, f, Held(g, f), Wanted(g, f))
  BY <1>2, <1>4 DEF FieldEnds
<1> QED BY <1>3, <1>5 DEF Settled

\* What a start would read is what memory shows as set.
LEMMA SettledIsStored ==
    ASSUME Typed, Kept, queue = <<>>, \A g \in Scopes : Settled(g), NEW g \in Scopes
    PROVE  Durable(Shown(g)) = Stored(g)
<1> DEFINE d == Durable(Shown(g))
<1>1. /\ DOMAIN d \subseteq Fields /\ d = [f \in DOMAIN d |-> d[f]]
      /\ \A f \in Fields : Cell(d, f) = Wanted(g, f)
  <2>1. DOMAIN Shown(g) = explicit[g] /\ \A f \in explicit[g] : Shown(g)[f] = Own(g)[f]
    <3>1. explicit[g] \subseteq Fields
      BY DEF Typed, TypeOK
    <3>2. CASE g = Default
      BY <3>1, <3>2 DEF Shown, Effective, Restricted, Own, Typed, TypeOK
    <3>3. CASE g # Default
      <4>1. DOMAIN over[g] = explicit[g]
        BY <3>3 DEF Kept, ClearedFallsBack, FallsBack, Scopes
      <4> QED BY <3>3, <4>1 DEF Shown, Effective, Restricted, Own, Merged
    <3> QED BY <3>2, <3>3
  <2>2. explicit[g] \subseteq Fields
    BY DEF Typed, TypeOK
  <2> DEFINE s == Shown(g)
  <2> HIDE DEF s
  <2>3. /\ DOMAIN Durable(s) = {f \in DOMAIN s : ~(f = Keywords /\ s[f] = {})}
        /\ \A f \in DOMAIN Durable(s) : Durable(s)[f] = s[f]
        /\ Durable(s) = [f \in DOMAIN Durable(s) |-> Durable(s)[f]]
    BY DEF Durable, Without
  <2>4. \A f \in Fields : Cell(Durable(s), f) = Wanted(g, f)
    BY <2>1, <2>3 DEF Cell, Wanted, Marked, s
  <2> QED BY <2>1, <2>2, <2>3, <2>4 DEF s
<1>2. \A f \in Fields : Cell(Stored(g), f) = Wanted(g, f)
  <2>1. Rooted
    BY DrainedIsRooted DEF Typed
  <2> QED BY <2>1, HeldIsStored, DrainedIs DEF Rooted, Typed
<1>3. DOMAIN Stored(g) \subseteq Fields /\ Stored(g) = [f \in DOMAIN Stored(g) |-> Stored(g)[f]]
  BY FoundTyped, PatchIs DEF Typed
<1> DEFINE p == Stored(g)
<1> HIDE DEF d, p
<1>4. \A f \in Fields : Cell(d, f) = Cell(p, f)
  BY <1>1, <1>2 DEF p
<1>5. DOMAIN d = DOMAIN p
  <2>1. \A f \in Fields : f \in DOMAIN d <=> f \in DOMAIN p
    BY <1>4 DEF Cell
  <2> QED BY <1>1, <1>3, <2>1 DEF p
<1>6. \A f \in DOMAIN d : d[f] = p[f]
  BY <1>1, <1>4, <1>5 DEF Cell
<1>7. d = p
  BY <1>1, <1>3, <1>5, <1>6 DEF p
<1> QED BY <1>7 DEF d, p

\* Once the queue has landed, a start reads back exactly the fields that are
\* marked as set, with their values (the runs' RestartChangesNothing): whatever
\* edits, reloads and restarts came before, unless a write of
\* groupConfigRepository.ts or groupSettingsRepository.ts was lost or an edit
\* crossed a load() of groupConfig.ts.
THEOREM RestartKeepsTheRules == Spec => []RestartChangesNothing
<1>1. Typed /\ Kept /\ InStep => RestartChangesNothing
  BY SettledIsStored DEF InStep, RestartChangesNothing
<1> QED
  BY <1>1, InitTyped, InitKept, InitInStep, StepTyped, StepKeeps, StepInStep, PTL DEF Spec
=============================================================================
