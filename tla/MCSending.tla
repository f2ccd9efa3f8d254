----------------------------- MODULE MCSending ------------------------------
(* Constants for model-checking Sending.tla.                               *)
EXTENDS Sending, TLC

CONSTANTS m1, m2, m3, e1

(* Two replies to one event, and an active message.                        *)
OneEvent == m1 :> e1 @@ m2 :> e1 @@ m3 :> NoEvent
ToGroups == [m \in Messages |-> "group"]
=============================================================================
