------------------------------ MODULE MCConsole ------------------------------
(* Instances of Console for TLC. *)
EXTENDS Console, TLC

CONSTANTS g1, g2

\* An administrator of one group who moderates the other; one who is nothing
\* in the other.
AFewLevels == {[g \in Groups |-> IF g = g1 THEN GroupAdmin ELSE Moderator],
               [g \in Groups |-> IF g = g1 THEN Moderator ELSE 0]}

AlikeSessions == Permutations(Mine) \cup Permutations(Others)
=============================================================================
