---------------------------- MODULE MCJoinAudit -----------------------------
(* Constants for model-checking JoinAudit.tla.                             *)
EXTENDS JoinAudit, TLC

CONSTANTS r1, r2, g1, g2, d1, d2, s1

OneGroup == [r \in Requests |-> g1]

Open == [listed |-> FALSE, enabled |-> TRUE, joinAudit |-> TRUE, mode |-> "manual",
         autoApprove |-> FALSE, roster |-> TRUE, requireClass |-> FALSE, requireName |-> FALSE,
         pattern |-> "none", allowColleges |-> {}, denyColleges |-> {}, allowYears |-> {},
         denyYears |-> {}]
MCConfigs == {Open, [Open EXCEPT !.mode = "approve_on_match", !.allowYears = {22}],
              [Open EXCEPT !.autoApprove = TRUE, !.denyYears = {2022}],
              [Open EXCEPT !.mode = "reject_on_mismatch", !.requireName = TRUE, !.roster = FALSE]}
MCAnswerOf == [r \in Requests |-> [class |-> TRUE, name |-> FALSE, pattern |-> FALSE,
                                   college |-> "c", year |-> 2022]]
=============================================================================
