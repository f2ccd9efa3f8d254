------------------------------ MODULE JoinRules -----------------------------
(***************************************************************************)
(* What the bot does by itself with a join request: the blacklist first,   *)
(* then the group's switches and mode, then the rules about the applicant's *)
(* answer.  Pure operators over                                            *)
(*   a configuration c: what the group's rules, the blacklist and the      *)
(*     class roster are at the moment of the evaluation, and               *)
(*   an answer a: what the roster and the pattern recognise in it.         *)
(*                                                                         *)
(* Sources: services/joinRules.ts, services/joinApproval.ts                *)
(* (applyJoinRules).                                                       *)
(***************************************************************************)
EXTENDS Naturals

Modes    == {"manual", "auto_approve", "approve_on_match", "reject_on_match",
             "reject_on_mismatch"}
Patterns == {"none", "valid", "broken"}      \* answerPattern: broken does not compile
Verdicts == {"approved", "rejected", "manual"}
NoYear == 0                                \* no year recognised

\* The roster stores four digits of a year, the rules panel two.
SameYear(x, y) == IF x > 9 /\ y > 9 THEN x % 100 = y % 100 ELSE x = y
HitYear(list, y)    == y # NoYear /\ \E x \in list : SameYear(x, y)
HitCollege(list, k) == k # "" /\ k \in list

\* Without a roster nothing is recognised but the pattern.
Recognised(c, a) ==
    IF c.roster THEN a
    ELSE [a EXCEPT !.class = FALSE, !.name = FALSE, !.college = "", !.year = NoYear]

RosterRules(c) == c.allowColleges # {} \/ c.denyColleges # {}
                  \/ c.allowYears # {} \/ c.denyYears # {}

HasRequirements(c) ==
    c.requireClass \/ c.requireName \/ c.pattern # "none" \/ RosterRules(c)

\* The lists are hard: a hit in a deny list or a miss in an allow list.
HardBlocked(c, a) ==
    /\ c.roster
    /\ \/ HitCollege(c.denyColleges, a.college)
       \/ c.allowColleges # {} /\ ~HitCollege(c.allowColleges, a.college)
       \/ HitYear(c.denyYears, a.year)
       \/ c.allowYears # {} /\ ~HitYear(c.allowYears, a.year)

Missing(c, a) ==
    \/ c.requireClass /\ ~a.class
    \/ c.requireName /\ ~a.name
    \/ c.pattern = "valid" /\ ~a.pattern
    \/ HardBlocked(c, a)

\* Rules that cannot be applied are never guessed at.
ConfigIssue(c, mode) ==
    \/ c.pattern = "broken"
    \/ (c.requireClass \/ RosterRules(c)) /\ ~c.roster
    \/ ~HasRequirements(c) /\ mode \notin {"manual", "auto_approve"}

Decide(c, mode, matched) ==
    IF mode = "auto_approve" THEN "approved"
    ELSE IF mode = "manual" \/ ConfigIssue(c, mode) \/ ~HasRequirements(c) THEN "manual"
    ELSE CASE mode = "approve_on_match"   -> IF matched THEN "approved" ELSE "manual"
           [] mode = "reject_on_match"    -> IF matched THEN "rejected" ELSE "manual"
           [] mode = "reject_on_mismatch" -> IF matched THEN "manual" ELSE "rejected"

Evaluate(c, mode, answer) ==
    LET a == Recognised(c, answer) IN
    IF HardBlocked(c, a) /\ mode # "manual" THEN "rejected"
    ELSE Decide(c, mode, ~ConfigIssue(c, mode) /\ ~Missing(c, a))

\* The older switch autoApproveJoin counts while the mode is manual.
EffectiveMode(c) ==
    IF c.mode # "manual" THEN c.mode ELSE IF c.autoApprove THEN "auto_approve" ELSE "manual"

AutoVerdict(c, answer) ==
    IF c.listed THEN "rejected"
    ELSE IF ~c.enabled \/ ~c.joinAudit \/ EffectiveMode(c) = "manual" THEN "manual"
    ELSE Evaluate(c, EffectiveMode(c), answer)
=============================================================================
