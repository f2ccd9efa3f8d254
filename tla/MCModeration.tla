--------------------------- MODULE MCModeration -----------------------------
(* Constants for model-checking Moderation.tla.                            *)
EXTENDS Moderation

MCMods == <<"m1", "m2">>
MCLevel == [x \in Actors |-> 120]
MCMatches == {{"warn", "mute"}}
MCConfigs == {{"blacklist"}}
=============================================================================
