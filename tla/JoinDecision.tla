---------------------------- MODULE JoinDecision ----------------------------
(***************************************************************************)
(* What join approval promises, without saying how.                       *)
(*                                                                         *)
(* The platform decides every join request at most once.  The bot keeps a  *)
(* view of each request.  While the bot runs, its view of a request only   *)
(* moves forward: unknown, pending, then one terminal status, and it may   *)
(* forget a request it has a terminal status for.  A view that says        *)
(* "approved" or "rejected" is never a guess: the platform has decided     *)
(* exactly that.  A crash loses the view and a restart may fall back to an *)
(* older one, which is still truthful.                                     *)
(*                                                                         *)
(* JoinAudit.tla implements this module.                                   *)
(***************************************************************************)
CONSTANT Requests

VARIABLES platform,   \* what QQ holds for each request
          view,       \* the status the running bot shows for it
          running

vars == <<platform, view, running>>

Decisions == {"approved", "rejected"}
Truths    == {"none", "open"} \union Decisions
Views     == {"absent", "pending", "expired"} \union Decisions

(* A view is truthful when a decision in it is the platform's decision.    *)
Truthful(r, v, p) == v \in Decisions => p[r] = v

Init == /\ platform = [r \in Requests |-> "none"]
        /\ view = [r \in Requests |-> "absent"]
        /\ running = TRUE

Open(r) == /\ platform[r] = "none"
           /\ platform' = [platform EXCEPT ![r] = "open"]
           /\ UNCHANGED <<view, running>>

Decide(r) == /\ platform[r] = "open"
             /\ \E v \in Decisions : platform' = [platform EXCEPT ![r] = v]
             /\ UNCHANGED <<view, running>>

(* The moves one view may make in a step of the running bot.               *)
Moves == {<<"absent", "pending">>, <<"pending", "expired">>}
           \union {<<"pending", d>> : d \in Decisions}
           \union {<<v, "absent">> : v \in Decisions \union {"expired"}}

Work == /\ running
        /\ view' \in [Requests -> Views]
        /\ \A r \in Requests : \/ view'[r] = view[r]
                               \/ /\ <<view[r], view'[r]>> \in Moves
                                  /\ Truthful(r, view'[r], platform)
        /\ UNCHANGED <<platform, running>>

Crash == /\ running
         /\ running' = FALSE
         /\ view' = [r \in Requests |-> "absent"]
         /\ UNCHANGED platform

Restart == /\ ~running
           /\ running' = TRUE
           /\ view' \in [Requests -> Views]
           /\ \A r \in Requests : Truthful(r, view'[r], platform)
           /\ UNCHANGED platform

Next == \/ \E r \in Requests : Open(r) \/ Decide(r)
        \/ Work
        \/ Crash
        \/ Restart

Spec == Init /\ [][Next]_vars
=============================================================================
