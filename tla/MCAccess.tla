------------------------------ MODULE MCAccess ------------------------------
(* A small instance of Access: two users, one of them named by             *)
(* ADMIN_USER_IDS, one group role, and thresholds on both sides of the     *)
(* platform's 200.                                                         *)
EXTENDS Access, TLC

CONSTANTS ann, bob, env, other, none

MCUsers == {ann, bob}
MCSeedList == <<ann>>
MCGroupRoles == {"group_admin"}
MCLevels == {130, 240}
MCValues == {env, other}
MCModules == {"platform", "notify", "permissions"}
=============================================================================
