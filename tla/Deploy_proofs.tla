--------------------------- MODULE Deploy_proofs ---------------------------
(***************************************************************************)
(* Proofs about Deploy.tla, for any versions, broken builds, targets and   *)
(* failing steps: a restart leaves no process running only when dist is    *)
(* missing, a delivery that was given up is not installed, no failing step *)
(* mixes two builds, and the packages a rollback needs are kept.           *)
(***************************************************************************)
EXTENDS Deploy, SequenceTheorems, TLAPS

(* The snapshot is of a build that came up, and the helper works only      *)
(* while no process runs.                                                  *)
RestartInv ==
    /\ snapshot \in Versions \ Broken
    /\ running = None <=> flow = "down"
    /\ helper # "none" => running = None
    /\ StaysUp

-----------------------------------------------------------------------------
LEMMA RestartInit == Init => RestartInv
  BY DeployConstants DEF Init, RestartInv, StaysUp

(* While the process runs, nothing but the process itself goes on.         *)
LEMMA Running ==
    ASSUME RestartInv, running # None, running' = running, helper' = helper,
           snapshot' = snapshot, flow' # "down"
    PROVE  RestartInv'
  BY DEF RestartInv, StaysUp

(* A step of somebody else.                                                *)
LEMMA Elsewhere ==
    ASSUME RestartInv,
           running' = running, helper' = helper, snapshot' = snapshot,
           flow' = flow, live' = live
    PROVE  RestartInv'
  BY DEF RestartInv, StaysUp

(* An installation asks for a restart at most.                             *)
LEMMA CommitKeeps ==
    ASSUME RestartInv, running # None,
           NEW v, NEW by, NEW st, NEW b, NEW o, Commit(v, by, st, b, o)
    PROVE  RestartInv'
<1>1. running' = running /\ helper' = helper /\ snapshot' = snapshot
  BY DEF Commit, SwapRefused, SwapFails, CheckFails, Installs, NotInstalled
<1>2. flow # "down"
  BY DEF RestartInv
<1>3. flow' \in {flow, "flush"}
  BY DEF Commit, SwapRefused, SwapFails, CheckFails, Installs, NotInstalled, RequestRestart
<1> QED BY <1>1, <1>2, <1>3, Running

(* A process comes up with a build that starts.                            *)
LEMMA ComesUp ==
    ASSUME NEW d, Starts(d), StartsAs(d)
    PROVE  RestartInv'
  BY DeployConstants DEF Starts, StartsAs, RestartInv, StaysUp

LEMMA RestartStep == RestartInv /\ [Next]_vars => RestartInv'
<1> SUFFICES ASSUME RestartInv, [Next]_vars PROVE RestartInv'
  OBVIOUS
<1>1. ASSUME NEW v \in Versions, UploadStart(v) \/ UploadEnd(v) \/ Arm(v) \/ Reject(v)
      PROVE  RestartInv'
  BY <1>1, Elsewhere DEF UploadStart, UploadEnd, Arm, Reject, tree, process
<1>2. CASE Noticed
  <2>1. CASE Commit(noticing, "scan", staged, box, outcome)
    BY <1>2, <2>1, CommitKeeps DEF Noticed, Up
  <2>2. CASE UNCHANGED <<tree, process>>
    BY <2>2, Elsewhere DEF tree, process
  <2> QED BY <1>2, <2>1, <2>2 DEF Noticed
<1>3. CASE CommitDue \/ CommitNow
  BY <1>3, CommitKeeps DEF CommitDue, CommitNow, Up
<1>4. CASE Cancel
  BY <1>4, Elsewhere DEF Cancel, tree, process
<1>5. CASE Rollback
  <2>1. CASE UNCHANGED <<tree, process>>
    BY <2>1, Elsewhere DEF tree, process
  <2> QED BY <1>5, <2>1, CommitKeeps DEF Rollback, Up
<1>6. ASSUME NEW f \in fails, Report(f) PROVE RestartInv'
  BY <1>6, Elsewhere DEF Report, tree, process
<1>7. CASE HandlerSet
  BY <1>7 DEF HandlerSet, RestartInv, StaysUp, tree
<1>8. ASSUME NEW kind \in {"flush", "forced"}, AskRestart(kind) PROVE RestartInv'
  BY <1>8, Running DEF AskRestart, RequestRestart, Up, tree
<1>9. CASE Preflight
  <2>1. running # None
    BY <1>9 DEF Preflight, RestartInv
  <2>2. flow' \in {"armed", "abort"}
    BY <1>9 DEF Preflight, Spawn
  <2> QED BY <1>9, <2>1, <2>2, Running DEF Preflight
<1>10. CASE Aborted
  BY <1>10 DEF Aborted, RestartInv, StaysUp, tree
<1>11. CASE Exit
  BY <1>11 DEF Exit, Gone, RestartInv, StaysUp, tree
<1>12. CASE Crash
  BY <1>12 DEF Crash, Gone, RestartInv, StaysUp, tree
<1>13. CASE HelperStarts \/ HelperRestores \/ OperatorStarts
  BY <1>13, ComesUp DEF HelperStarts, HelperRestores, OperatorStarts
<1>14. CASE HelperGivesUp
  <2>1. ~CanRestore
    BY <1>14 DEF HelperGivesUp, RestartInv, Starts
  <2>2. live' = live /\ live["dist"] = None /\ running = None
    BY <1>14, <2>1 DEF HelperGivesUp, CanRestore, RestartInv
  <2> QED BY <1>14, <2>2 DEF HelperGivesUp, RestartInv, StaysUp
<1>15. CASE UNCHANGED vars
  BY <1>15, Elsewhere DEF vars
<1> QED BY <1>1, <1>2, <1>3, <1>4, <1>5, <1>6, <1>7, <1>8, <1>9, <1>10, <1>11,
           <1>12, <1>13, <1>14, <1>15 DEF Next, DeployRestartNowCard, DeployCancelCard, DeployRollbackCard,
          RollbackDeploy, RestartNowCard

(* A restart leaves no process running only when dist is missing: the old  *)
(* process never goes for a build that does not start and cannot be        *)
(* replaced by the one that did (main.ts:821, respawn.mjs).                *)
THEOREM RestartComesBack == Spec => []StaysUp
<1>1. RestartInv => StaysUp
  BY DEF RestartInv
<1> QED BY <1>1, RestartInit, RestartStep, PTL DEF Spec

-----------------------------------------------------------------------------
(***************************************************************************)
(* What was given up stays out.                                            *)
(***************************************************************************)

(* The part of the types the proofs need.                                  *)
Shape ==
    /\ live \in [Places -> Versions \union {None}]
    /\ snapshot \in Versions
    /\ box \in [Versions -> {"none", "archive", "half", "ready", "marker"}]
    /\ outcome \in [Versions -> {"none", "cancelled", "installed"}]
    /\ {waiting, noticing, applied, previous} \subseteq Versions \union {None}
    /\ \A f \in fails : f.v \in Versions

(* What was given up has no marker in the box, so that no scan finds it,   *)
(* and is not the package that waits for its grace period to end.          *)
OutOfReach(o, b, w) ==
    \A v \in Versions : o[v] = "cancelled" => b[v] \in {"none", "archive"} /\ w # v

DeliveryInv == Shape /\ OutOfReach(outcome, box, waiting)

(* What a step may do to the deliveries.                                   *)
NothingComesBack ==
    \A v \in Versions :
        outcome[v] = "cancelled" /\ outcome'[v] = "installed" => noticing = v /\ immediate

LEMMA DeliveryInit == Init => DeliveryInv
  BY DeployConstants DEF Init, DeliveryInv, Shape, OutOfReach, Whole

(* A step that leaves the tree, the records and the failures alone.        *)
LEMMA BoxSteps ==
    ASSUME DeliveryInv,
           live' = live, snapshot' = snapshot, applied' = applied, previous' = previous,
           box' \in [Versions -> {"none", "archive", "half", "ready", "marker"}],
           outcome' \in [Versions -> {"none", "cancelled", "installed"}],
           {waiting', noticing'} \subseteq Versions \union {None},
           \A f \in fails' : f.v \in Versions,
           OutOfReach(outcome', box', waiting')
    PROVE  DeliveryInv'
  BY DEF DeliveryInv, Shape, OutOfReach

(* The commit of v, with what its caller has made of box and outcome: v    *)
(* itself may be installed, nothing else.                                  *)
LEMMA CommitDelivers ==
    ASSUME DeliveryInv, NEW v \in Versions, NEW by, NEW st, NEW b, NEW o,
           Commit(v, by, st, b, o), waiting' = None,
           noticing' \in Versions \union {None},
           b \in [Versions -> {"none", "archive", "half", "ready", "marker"}],
           o \in [Versions -> {"none", "cancelled", "installed"}],
           OutOfReach(o, b, None)
    PROVE  /\ DeliveryInv'
           /\ outcome' \in {o, [o EXCEPT ![v] = "installed"]}
           /\ by = "rollback" => outcome' = o
<1>1. snapshot' = snapshot /\ {applied', previous'} \subseteq Versions \union {None}
  BY DEF Commit, SwapRefused, SwapFails, CheckFails, Installs, NotInstalled, shelf,
         DeliveryInv, Shape
<1>2. live' \in [Places -> Versions \union {None}]
  <2>1. \A w \in Versions \union {None} : Whole(w) \in [Places -> Versions \union {None}]
    BY DEF Whole
  <2>2. ASSUME NEW from \in [Places -> Versions \union {None}], NEW i, NEW step
        PROVE  AfterFailure(from, i, step) \in [Places -> Versions \union {None}]
    BY DEF AfterFailure
  <2>3. CASE SwapRefused(v, by, st, b, o)
    BY <2>3 DEF SwapRefused, DeliveryInv, Shape
  <2>4. CASE SwapFails(v, by, st, b, o)
    BY <2>2, <2>4 DEF SwapFails, DeliveryInv, Shape
  <2>5. CASE CheckFails(v, by, st, b, o)
    BY <2>1, <2>2, <2>5 DEF CheckFails, RestorePrevious, DeliveryInv, Shape
  <2>6. CASE Installs(v, by, st, b, o)
    BY <2>1, <2>6 DEF Installs
  <2> QED BY <2>3, <2>4, <2>5, <2>6 DEF Commit
<1>3. \A f \in fails' : f.v \in Versions
  <2>1. CASE Installs(v, by, st, b, o)
    BY <2>1 DEF Installs, DeliveryInv, Shape
  <2>2. CASE NotInstalled(v, by, b, o)
    BY <2>2 DEF NotInstalled, Fail, Failure, DeliveryInv, Shape
  <2> QED BY <2>1, <2>2 DEF Commit, SwapRefused, SwapFails, CheckFails
<1>4. CASE NotInstalled(v, by, b, o)
  <2>1. box' = b /\ outcome' = o
    BY <1>4 DEF NotInstalled
  <2>2. OutOfReach(outcome', box', waiting')
    BY <2>1 DEF OutOfReach
  <2> QED BY <1>1, <1>2, <1>3, <2>1, <2>2 DEF DeliveryInv, Shape, OutOfReach
<1>5. CASE Installs(v, by, st, b, o)
  <2>1. box' = Cleared(v, by, b)
        /\ outcome' = (IF by = "rollback" THEN o ELSE [o EXCEPT ![v] = "installed"])
    BY <1>5 DEF Installs
  <2>2. /\ outcome' \in [Versions -> {"none", "cancelled", "installed"}]
        /\ box' \in [Versions -> {"none", "archive", "half", "ready", "marker"}]
    BY <2>1 DEF Cleared
  <2>3. OutOfReach(outcome', box', waiting')
    BY <2>1, DeployConstants DEF Cleared, OutOfReach
  <2> QED BY <1>1, <1>2, <1>3, <2>1, <2>2, <2>3 DEF DeliveryInv, Shape, OutOfReach
<1> QED BY <1>4, <1>5 DEF Commit, SwapRefused, SwapFails, CheckFails

(* Giving up what waits takes it out of reach.                             *)
LEMMA GivingUp ==
    ASSUME DeliveryInv
    PROVE  /\ BoxWithoutWaiting \in [Versions -> {"none", "archive", "half", "ready", "marker"}]
           /\ WaitingGivenUp \in [Versions -> {"none", "cancelled", "installed"}]
           /\ OutOfReach(WaitingGivenUp, BoxWithoutWaiting, None)
           /\ \A v \in Versions : outcome[v] = "cancelled" => WaitingGivenUp[v] = "cancelled"
  BY DeployConstants
  DEF DeliveryInv, Shape, OutOfReach, BoxWithoutWaiting, WaitingGivenUp

LEMMA DeliveryStep == DeliveryInv /\ [Next]_vars => DeliveryInv' /\ NothingComesBack
<1> SUFFICES ASSUME DeliveryInv, [Next]_vars PROVE DeliveryInv' /\ NothingComesBack
  OBVIOUS
<1> USE DEF NothingComesBack
<1>1. ASSUME NEW v \in Versions, UploadStart(v) PROVE DeliveryInv' /\ NothingComesBack
  <2>1. OutOfReach(outcome', box', waiting')
    BY <1>1 DEF UploadStart, HasMarker, memory, DeliveryInv, Shape, OutOfReach
  <2> QED BY <1>1, <2>1, BoxSteps DEF UploadStart, HasMarker, tree, shelf, memory, DeliveryInv, Shape
<1>2. ASSUME NEW v \in Versions, UploadEnd(v) PROVE DeliveryInv' /\ NothingComesBack
  <2>1. OutOfReach(outcome', box', waiting')
    BY <1>2 DEF UploadEnd, memory, DeliveryInv, Shape, OutOfReach
  <2> QED BY <1>2, <2>1, BoxSteps DEF UploadEnd, tree, shelf, memory, DeliveryInv, Shape
<1>3. ASSUME NEW v \in Versions, Arm(v) PROVE DeliveryInv' /\ NothingComesBack
  <2>1. OutOfReach(outcome', box', waiting')
    BY <1>3 DEF Arm, incoming, DeliveryInv, Shape, OutOfReach
  <2> QED BY <1>3, <2>1, BoxSteps DEF Arm, incoming, shelf, DeliveryInv, Shape
<1>4. ASSUME NEW v \in Versions, Reject(v) PROVE DeliveryInv' /\ NothingComesBack
  <2>1. OutOfReach(outcome', box', waiting')
    BY <1>4 DEF Reject, incoming, DeliveryInv
  <2>2. \A f \in fails' : f.v \in Versions
    BY <1>4 DEF Reject, Fail, Failure, DeliveryInv, Shape
  <2> QED BY <1>4, <2>1, <2>2, BoxSteps DEF Reject, incoming, tree, shelf, DeliveryInv, Shape
<1>5. CASE Noticed
  <2>1. CASE immediate /\ waiting' = None /\ Commit(noticing, "scan", staged, box, outcome)
    <3>1. noticing \in Versions /\ noticing' = None
      BY <1>5 DEF Noticed, DeliveryInv, Shape
    <3>2. OutOfReach(outcome, box, None)
      BY DeployConstants DEF DeliveryInv, OutOfReach
    <3>3. DeliveryInv' /\ outcome' \in {outcome, [outcome EXCEPT ![noticing] = "installed"]}
      BY <2>1, <3>1, <3>2, CommitDelivers DEF DeliveryInv, Shape
    <3>4. NothingComesBack
      BY <2>1, <3>1, <3>3 DEF DeliveryInv, Shape
    <3> QED BY <3>3, <3>4
  <2>2. CASE UNCHANGED <<tree, shelf, incoming, waiting, fails>>
    BY <1>5, <2>2, BoxSteps DEF Noticed, tree, shelf, incoming, DeliveryInv, Shape
  <2> QED BY <1>5, <2>1, <2>2 DEF Noticed
<1>6. CASE CommitDue \/ CommitNow
  <2>1. PICK by \in {"scan", "user"} : Commit(waiting, by, staged, box, outcome)
    BY <1>6 DEF CommitDue, CommitNow
  <2>2. waiting \in Versions /\ waiting' = None /\ noticing' = noticing
    BY <1>6 DEF CommitDue, CommitNow, DeliveryInv, Shape
  <2>3. OutOfReach(outcome, box, None)
    BY DeployConstants DEF DeliveryInv, OutOfReach
  <2>4. DeliveryInv' /\ outcome' \in {outcome, [outcome EXCEPT ![waiting] = "installed"]}
    BY <2>1, <2>2, <2>3, CommitDelivers DEF DeliveryInv, Shape
  <2>5. NothingComesBack
    BY <2>2, <2>4 DEF DeliveryInv, Shape, OutOfReach
  <2> QED BY <2>4, <2>5
<1>7. CASE Cancel
  <2>1. OutOfReach(outcome', box', waiting')
    BY <1>7, GivingUp DEF Cancel
  <2>2. DeliveryInv'
    BY <1>7, <2>1, GivingUp, BoxSteps DEF Cancel, tree, shelf, DeliveryInv, Shape
  <2> QED BY <1>7, <2>2, GivingUp DEF Cancel
<1>8. CASE Rollback
  <2>1. CASE /\ Usable(previous)
             /\ Commit(previous, "rollback", [staged EXCEPT ![previous] = Places],
                       BoxWithoutWaiting, WaitingGivenUp)
    <3>1. previous \in Versions /\ waiting' = None /\ noticing' \in Versions \union {None}
      BY <1>8, <2>1 DEF Rollback, Usable, DeliveryInv, Shape
    <3>2. DeliveryInv' /\ outcome' = WaitingGivenUp
      BY <2>1, <3>1, GivingUp, CommitDelivers
    <3> QED BY <3>2, GivingUp
  <2>2. CASE /\ box' = BoxWithoutWaiting /\ outcome' = WaitingGivenUp
             /\ UNCHANGED <<tree, shelf, fails>>
    <3>1. waiting' = None /\ noticing' = noticing
      BY <1>8 DEF Rollback
    <3>2. OutOfReach(outcome', box', waiting')
      BY <2>2, <3>1, GivingUp
    <3>3. DeliveryInv'
      BY <2>2, <3>1, <3>2, GivingUp, BoxSteps DEF tree, shelf, DeliveryInv, Shape
    <3> QED BY <2>2, <3>3, GivingUp
  <2> QED BY <1>8, <2>1, <2>2 DEF Rollback
<1>9. ASSUME NEW f \in fails, Report(f) PROVE DeliveryInv' /\ NothingComesBack
  <2>1. f.v \in Versions
    BY DEF DeliveryInv, Shape
  <2>2. OutOfReach(outcome', box', waiting')
    BY <1>9, <2>1 DEF Report, HasMarker, DeliveryInv, Shape, OutOfReach
  <2> QED BY <1>9, <2>1, <2>2, BoxSteps DEF Report, HasMarker, tree, shelf, DeliveryInv, Shape
<1>10. ASSUME live' \in [Places -> Versions \union {None}], snapshot' \in Versions,
              UNCHANGED <<shelf, incoming>>,
              UNCHANGED memory \/ Gone
       PROVE  DeliveryInv' /\ NothingComesBack
  <2>1. waiting' \in {waiting, None} /\ noticing' \in {noticing, None}
    BY <1>10 DEF memory, Gone
  <2>2. \A f \in fails' : f.v \in Versions
    BY <1>10 DEF memory, Gone, DeliveryInv, Shape
  <2> QED BY <1>10, <2>1, <2>2, DeployConstants
          DEF shelf, incoming, DeliveryInv, Shape, OutOfReach
<1>11. CASE HandlerSet \/ AskRestart("flush") \/ AskRestart("forced") \/ Aborted
  BY <1>10, <1>11 DEF HandlerSet, AskRestart, Aborted, tree, DeliveryInv, Shape
<1>12. CASE Preflight
  BY <1>10, <1>12 DEF Preflight, DeliveryInv, Shape
<1>13. CASE Exit \/ Crash
  BY <1>10, <1>13 DEF Exit, Crash, tree, DeliveryInv, Shape
<1>14. CASE HelperStarts \/ HelperRestores \/ OperatorStarts
  BY <1>10, <1>14 DEF HelperStarts, HelperRestores, OperatorStarts, StartsAs, Starts,
                      DeliveryInv, Shape
<1>15. CASE HelperGivesUp
  BY <1>10, <1>15 DEF HelperGivesUp, DeliveryInv, Shape
<1>16. CASE UNCHANGED vars
  BY <1>10, <1>16 DEF vars, shelf, incoming, memory, DeliveryInv, Shape
<1> QED BY <1>1, <1>2, <1>3, <1>4, <1>5, <1>6, <1>7, <1>8, <1>9, <1>11, <1>12,
           <1>13, <1>14, <1>15, <1>16 DEF Next, DeployRestartNowCard, DeployCancelCard, DeployRollbackCard,
          RollbackDeploy, RestartNowCard

(* A delivery given up by cancelling it or by a rollback is not installed  *)
(* before it is uploaded again, except by the scan that is announcing it   *)
(* without a grace period (deployInstaller.ts:433, 407).                   *)
THEOREM GivenUpStaysOut == Spec => CancelledStaysOut
<1>1. DeliveryInv /\ [Next]_vars =>
        [\A v \in Versions :
            outcome[v] = "cancelled" /\ outcome'[v] = "installed"
                => noticing = v /\ immediate]_vars
  BY DeliveryStep DEF NothingComesBack
<1> QED BY <1>1, DeliveryInit, DeliveryStep, PTL DEF Spec, CancelledStaysOut

-----------------------------------------------------------------------------
(***************************************************************************)
(* No failing step mixes two builds.                                       *)
(***************************************************************************)
OneBuild ==
    \/ live' = live
    \/ \E v \in Versions : live' = Whole(v)
    \/ live' = WithDist(snapshot)
    \/ \E t \in Places : live' = [live EXCEPT ![t] = None]
    \/ \E v \in Versions, t \in Places : live' = [Whole(v) EXCEPT ![t] = None]

LEMMA CommitInOne ==
    ASSUME Shape, NEW v \in Versions, NEW by, NEW st, NEW b, NEW o, Commit(v, by, st, b, o)
    PROVE  OneBuild
<1>1. \A i \in DOMAIN Targets : Targets[i] \in Places
  BY DEF Places, Range
<1>2. CASE SwapRefused(v, by, st, b, o)
  BY <1>2 DEF SwapRefused, OneBuild
<1>3. CASE SwapFails(v, by, st, b, o)
  <2>1. PICK step \in {"aside", "place"}, i \in 1 .. Len(Targets) + 1 :
            /\ step = "place" => i <= Len(Targets)
            /\ live' = AfterFailure(live, i, step)
    BY <1>3 DEF SwapFails
  <2>2. step = "place" => i \in DOMAIN Targets
    BY <2>1, DeployConstants
  <2> QED BY <1>1, <2>1, <2>2 DEF AfterFailure, OneBuild
<1>4. CASE CheckFails(v, by, st, b, o)
  <2>1. CASE live' = IF Usable(applied) THEN Whole(applied) ELSE Whole(v)
    <3>1. Usable(applied) => applied \in Versions
      BY DEF Usable, Shape
    <3> QED BY <2>1, <3>1 DEF OneBuild
  <2>2. CASE \E i \in DOMAIN Targets : live' = AfterFailure(Whole(v), i, "place")
    BY <1>1, <2>2 DEF AfterFailure, OneBuild
  <2> QED BY <1>4, <2>1, <2>2 DEF CheckFails, RestorePrevious
<1>5. CASE Installs(v, by, st, b, o)
  BY <1>5 DEF Installs, OneBuild
<1> QED BY <1>2, <1>3, <1>4, <1>5 DEF Commit

LEMMA StepInOne == DeliveryInv /\ [Next]_vars => OneBuild
<1> SUFFICES ASSUME DeliveryInv, [Next]_vars PROVE OneBuild
  OBVIOUS
<1>0. Shape
  BY DEF DeliveryInv
<1>1. CASE Noticed \/ CommitDue \/ CommitNow \/ Rollback
  <2>1. ASSUME NEW v, v # None, v \in {noticing, waiting, previous},
               NEW by, NEW st, NEW b, NEW o, Commit(v, by, st, b, o)
        PROVE  OneBuild
    <3>1. v \in Versions
      BY <1>0, <2>1 DEF Shape
    <3> QED BY <1>0, <2>1, <3>1, CommitInOne
  <2>2. CASE UNCHANGED tree
    BY <2>2 DEF tree, OneBuild
  <2>3. CASE Noticed
    BY <2>1, <2>2, <2>3 DEF Noticed, tree, OneBuild
  <2>4. CASE CommitDue \/ CommitNow
    BY <2>1, <2>4 DEF CommitDue, CommitNow
  <2>5. CASE Rollback
    BY <2>1, <2>2, <2>5 DEF Rollback, Usable, tree, OneBuild
  <2> QED BY <1>1, <2>3, <2>4, <2>5
<1>2. CASE Preflight \/ HelperRestores \/ HelperGivesUp
  BY <1>2 DEF Preflight, HelperRestores, HelperGivesUp, OneBuild, WithDist
<1>3. CASE live' = live
  BY <1>3 DEF OneBuild
<1>4. ASSUME NEW v \in Versions, UploadStart(v) \/ UploadEnd(v) \/ Arm(v) \/ Reject(v)
      PROVE  live' = live
  BY <1>4 DEF UploadStart, UploadEnd, Arm, Reject, tree
<1>5. ASSUME Cancel \/ \E f \in fails : Report(f) PROVE live' = live
  BY <1>5 DEF Cancel, Report, tree
<1>6. ASSUME HandlerSet \/ AskRestart("flush") \/ AskRestart("forced") \/ Aborted \/ Exit \/ Crash
      PROVE  live' = live
  BY <1>6 DEF HandlerSet, AskRestart, Aborted, Exit, Crash, tree
<1>7. ASSUME HelperStarts \/ OperatorStarts PROVE live' = live
  BY <1>7 DEF HelperStarts, OperatorStarts
<1>8. ASSUME UNCHANGED vars PROVE live' = live
  BY <1>8 DEF vars
<1> QED BY <1>1, <1>2, <1>3, <1>4, <1>5, <1>6, <1>7, <1>8 DEF Next, DeployRestartNowCard, DeployCancelCard, DeployRollbackCard,
          RollbackDeploy, RestartNowCard

(* Whatever step of a replacement fails, and of the replacement meant to   *)
(* repair it, no two builds stand side by side that did not before, except *)
(* for dist restored from the snapshot (swapTargets, restorePrevious).     *)
THEOREM BuildsDoNotMix == Spec => NoMixture
<1>1. DeliveryInv /\ [Next]_vars =>
        [\/ live' = live
         \/ \E v \in Versions : live' = Whole(v)
         \/ live' = WithDist(snapshot)
         \/ \E t \in Places : live' = [live EXCEPT ![t] = None]
         \/ \E v \in Versions, t \in Places : live' = [Whole(v) EXCEPT ![t] = None]]_vars
  BY StepInOne DEF OneBuild
<1> QED BY <1>1, DeliveryInit, DeliveryStep, PTL DEF Spec, NoMixture

-----------------------------------------------------------------------------
(***************************************************************************)
(* The archive: the packages that a rollback needs are kept.               *)
(***************************************************************************)
LEMMA Removed ==
    ASSUME NEW s \in Seq(Versions), NEW i \in 1 .. Len(s)
    PROVE  /\ RemoveAt(s, i) \in Seq(Versions) /\ Len(RemoveAt(s, i)) = Len(s) - 1
           /\ \A j \in 1 .. Len(s) - 1 :
                 RemoveAt(s, i)[j] = IF j < i THEN s[j] ELSE s[j + 1]
<1> DEFINE a == SubSeq(s, 1, i - 1)
           b == SubSeq(s, i + 1, Len(s))
<1>1. /\ a \in Seq(Versions) /\ Len(a) = i - 1
      /\ \A j \in 1 .. i - 1 : a[j] = s[j]
  OBVIOUS
<1>2. /\ b \in Seq(Versions) /\ Len(b) = Len(s) - i
      /\ \A j \in 1 .. Len(s) - i : b[j] = s[i + j]
  OBVIOUS
<1>3. Len(s) \in Nat
  OBVIOUS
<1> HIDE DEF a, b
<1>4. /\ a \o b \in Seq(Versions) /\ Len(a \o b) = Len(a) + Len(b)
      /\ \A j \in 1 .. Len(a) + Len(b) : (a \o b)[j] = IF j <= Len(a) THEN a[j] ELSE b[j - Len(a)]
  BY <1>1, <1>2, ConcatProperties
<1>5. ASSUME NEW j \in 1 .. Len(s) - 1
      PROVE  (a \o b)[j] = IF j < i THEN s[j] ELSE s[j + 1]
  <2>1. (a \o b)[j] = IF j <= i - 1 THEN a[j] ELSE b[j - (i - 1)]
    BY <1>1, <1>2, <1>3, <1>4
  <2>2. CASE j < i
    BY <1>1, <2>1, <2>2
  <2>3. CASE ~(j < i)
    <3>1. j - (i - 1) \in 1 .. Len(s) - i /\ i + (j - (i - 1)) = j + 1
      BY <1>3, <2>3
    <3>2. b[j - (i - 1)] = s[j + 1]
      BY <1>2, <3>1
    <3> QED BY <2>1, <2>3, <3>2
  <2> QED BY <2>2, <2>3
<1>6. RemoveAt(s, i) = a \o b
  BY DEF RemoveAt, a, b
<1> QED BY <1>1, <1>2, <1>3, <1>4, <1>5, <1>6

LEMMA OthersAre ==
    ASSUME packages \in Seq(Versions), IsInjective(packages), NEW v
    PROVE  /\ Others(v) \in Seq(Versions) /\ Len(Others(v)) <= Len(packages)
           /\ Range(Others(v)) = Range(packages) \ {v} /\ IsInjective(Others(v))
           /\ packages # <<>> /\ packages[Len(packages)] # v
                 => Others(v) # <<>> /\ Others(v)[Len(Others(v))] = packages[Len(packages)]
<1> DEFINE n == Len(packages)
<1>1. n \in Nat /\ DOMAIN packages = 1 .. n
  OBVIOUS
<1>2. CASE v \notin Range(packages)
  <2>1. Others(v) = packages
    BY <1>2 DEF Others
  <2> QED BY <1>1, <1>2, <2>1
<1>3. CASE v \in Range(packages)
  <2> DEFINE i == CHOOSE k \in DOMAIN packages : packages[k] = v
             r == RemoveAt(packages, i)
  <2>1. i \in 1 .. n /\ packages[i] = v
    BY <1>1, <1>3 DEF Range
  <2>2. Others(v) = r
    BY <1>3 DEF Others
  <2> HIDE DEF i
  <2>3. /\ r \in Seq(Versions) /\ Len(r) = n - 1
        /\ \A j \in 1 .. n - 1 : r[j] = IF j < i THEN packages[j] ELSE packages[j + 1]
    BY <2>1, Removed
  <2> HIDE DEF r
  <2>4. DOMAIN r = 1 .. n - 1
    BY <1>1, <2>1, <2>3
  <2>5. \A j, k \in 1 .. n : packages[j] = packages[k] => j = k
    BY <1>1 DEF IsInjective
  <2> HIDE DEF n
  <2>6. IsInjective(r)
    <3>1. ASSUME NEW j \in 1 .. n - 1, NEW k \in 1 .. n - 1, r[j] = r[k] PROVE j = k
      BY <1>1, <2>1, <2>3, <2>5, <3>1
    <3> QED BY <2>4, <3>1 DEF IsInjective
  <2>7. \A j \in 1 .. n - 1 : r[j] \in Range(packages) \ {v}
    <3>1. TAKE j \in 1 .. n - 1
    <3>2. PICK k \in 1 .. n : r[j] = packages[k] /\ k # i
      <4>1. CASE j < i
        BY <1>1, <2>1, <2>3, <4>1
      <4>2. CASE ~(j < i)
        BY <1>1, <2>1, <2>3, <4>2
      <4> QED BY <4>1, <4>2
    <3>3. packages[k] # v /\ packages[k] \in Range(packages)
      BY <1>1, <2>1, <2>5, <3>2 DEF Range
    <3> QED BY <3>2, <3>3
  <2>8. ASSUME NEW x \in Range(packages), x # v PROVE x \in Range(r)
    <3>1. PICK k \in 1 .. n : packages[k] = x
      BY <1>1 DEF Range
    <3>2. CASE k < i
      <4>1. k \in 1 .. n - 1 /\ r[k] = x
        BY <1>1, <2>1, <2>3, <3>1, <3>2
      <4> QED BY <2>4, <4>1 DEF Range
    <3>3. CASE k > i
      <4>1. k - 1 \in 1 .. n - 1 /\ r[k - 1] = x
        BY <1>1, <2>1, <2>3, <3>1, <3>3
      <4> QED BY <2>4, <4>1 DEF Range
    <3> QED BY <1>1, <2>1, <2>8, <3>1, <3>2, <3>3
  <2>9. Range(r) = Range(packages) \ {v}
    BY <2>4, <2>7, <2>8 DEF Range
  <2>10. ASSUME packages[n] # v PROVE r # <<>> /\ r[n - 1] = packages[n]
    <3>1. i < n /\ n - 1 \in 1 .. n - 1
      BY <1>1, <2>1, <2>10
    <3> QED BY <1>1, <2>1, <2>3, <3>1
  <2>11. Len(r) <= n
    BY <1>1, <2>3
  <2> QED BY <2>2, <2>3, <2>6, <2>9, <2>10, <2>11 DEF n
<1> QED BY <1>2, <1>3

LEMMA ArchivedIs ==
    ASSUME packages \in Seq(Versions), Len(packages) <= Keep, IsInjective(packages),
           NEW v \in Versions
    PROVE  /\ Archived(v) \in Seq(Versions) /\ Len(Archived(v)) <= Keep /\ IsInjective(Archived(v))
           /\ Archived(v) # <<>> /\ Archived(v)[Len(Archived(v))] = v
           /\ packages # <<>> => packages[Len(packages)] \in Range(Archived(v))
<1> DEFINE o == Others(v)
           m == Len(o)
           all == Append(o, v)
<1>1. /\ o \in Seq(Versions) /\ m <= Keep /\ v \notin Range(o) /\ IsInjective(o)
      /\ packages # <<>> /\ packages[Len(packages)] # v
            => o # <<>> /\ o[m] = packages[Len(packages)]
  <2>1. Len(o) \in Nat /\ Len(packages) \in Nat
    BY OthersAre
  <2> QED BY <2>1, OthersAre, DeployConstants
<1>2. Archived(v) = IF Len(all) > Keep THEN Tail(all) ELSE all
  BY DEF Archived
<1>3. Keep \in Nat /\ Keep >= 2
  BY DeployConstants
<1> HIDE DEF o
<1>4. /\ m \in Nat /\ DOMAIN o = 1 .. m
      /\ all \in Seq(Versions) /\ Len(all) = m + 1 /\ DOMAIN all = 1 .. m + 1
      /\ \A j \in 1 .. m : all[j] = o[j]
      /\ all[m + 1] = v
  BY <1>1
<1>5. \A j \in 1 .. m : o[j] # v
  BY <1>1, <1>4 DEF Range
<1>6. \A j, k \in 1 .. m : o[j] = o[k] => j = k
  BY <1>1, <1>4 DEF IsInjective
<1>7. \A j, k \in 1 .. m + 1 : all[j] = all[k] => j = k
  <2>1. TAKE j, k \in 1 .. m + 1
  <2>2. CASE j \in 1 .. m /\ k \in 1 .. m
    BY <1>4, <1>6, <2>2
  <2>3. CASE ~(j \in 1 .. m /\ k \in 1 .. m)
    BY <1>4, <1>5, <2>3
  <2> QED BY <2>2, <2>3
<1>8. packages # <<>> /\ packages[Len(packages)] # v => m >= 1 /\ all[m] = packages[Len(packages)]
  <2>1. o # <<>> => m \in 1 .. m
    BY <1>1, <1>4
  <2>2. m \in 1 .. m => m >= 1 /\ all[m] = o[m]
    BY <1>4
  <2> QED BY <1>1, <2>1, <2>2
<1> HIDE DEF all, m
<1>9. CASE m + 1 <= Keep
  <2>1. Archived(v) = all
    BY <1>2, <1>3, <1>4, <1>9
  <2>2. IsInjective(all)
    BY <1>4, <1>7 DEF IsInjective
  <2>3. v \in Range(all) /\ \A j \in 1 .. m + 1 : all[j] \in Range(all)
    BY <1>4 DEF Range
  <2>4. all # <<>> /\ all[Len(all)] = v
    BY <1>4
  <2>5. packages # <<>> => packages[Len(packages)] \in Range(all)
    BY <1>4, <1>8, <2>3
  <2> QED BY <1>4, <1>9, <2>1, <2>2, <2>4, <2>5
<1>10. CASE m + 1 > Keep
  <2> DEFINE t == Tail(all)
  <2>1. Archived(v) = t /\ m >= 2 /\ m <= Keep
    BY <1>1, <1>2, <1>3, <1>4, <1>10
  <2>2. /\ t \in Seq(Versions) /\ Len(t) = m /\ DOMAIN t = 1 .. m
        /\ \A j \in 1 .. m : t[j] = all[j + 1]
    BY <1>4
  <2> HIDE DEF t
  <2>3. IsInjective(t)
    <3>1. ASSUME NEW j \in 1 .. m, NEW k \in 1 .. m, t[j] = t[k] PROVE j = k
      <4>1. j + 1 \in 1 .. m + 1 /\ k + 1 \in 1 .. m + 1 /\ all[j + 1] = all[k + 1]
        BY <1>4, <2>2, <3>1
      <4> QED BY <1>4, <1>7, <4>1
    <3> QED BY <2>2, <3>1 DEF IsInjective
  <2>4. t # <<>> /\ t[m] = v /\ m - 1 \in 1 .. m /\ t[m - 1] = all[m]
    BY <1>4, <2>1, <2>2
  <2>5. t[m] \in Range(t) /\ t[m - 1] \in Range(t)
    <3>1. m \in DOMAIN t /\ m - 1 \in DOMAIN t
      BY <1>4, <2>1, <2>2
    <3> QED BY <3>1 DEF Range
  <2>6. packages # <<>> => packages[Len(packages)] \in Range(t)
    BY <1>8, <2>4, <2>5
  <2> QED BY <2>1, <2>2, <2>3, <2>4, <2>6
<1> QED BY <1>3, <1>4, <1>9, <1>10

(* The version applied last is the newest of the archive, unless its copy  *)
(* failed: so it survives the trimming when the next one pushes it into    *)
(* second place, Keep being at least 2.                                    *)
ArchiveInv ==
    /\ packages \in Seq(Versions) /\ Len(packages) <= Keep /\ IsInjective(packages)
    /\ applied \in Versions \ lost
          => packages # <<>> /\ packages[Len(packages)] = applied
    /\ RollbackReady

LEMMA ArchiveInit == Init => ArchiveInv
<1> SUFFICES ASSUME Init PROVE ArchiveInv
  OBVIOUS
<1>1. First \in Versions /\ None \notin Versions /\ Keep \in Nat /\ Keep >= 2
  BY DeployConstants
<1>2. previous = None /\ lost = {}
  BY DEF Init
<1>3. CASE applied = First /\ packages = <<First>>
  <2>1. /\ <<First>> \in Seq(Versions) /\ Len(<<First>>) = 1 /\ DOMAIN <<First>> = {1}
        /\ <<First>>[1] = First
    BY <1>1
  <2>2. IsInjective(<<First>>) /\ Range(<<First>>) = {First}
    BY <2>1 DEF IsInjective, Range
  <2> QED BY <1>1, <1>2, <1>3, <2>1, <2>2 DEF ArchiveInv, RollbackReady
<1>4. CASE applied = None /\ packages = <<>>
  <2>1. <<>> \in Seq(Versions) /\ Len(<<>>) = 0 /\ IsInjective(<<>>)
    BY DEF IsInjective
  <2> QED BY <1>1, <1>2, <1>4, <2>1 DEF ArchiveInv, RollbackReady
<1> QED BY <1>3, <1>4 DEF Init

LEMMA ShelfKept == ArchiveInv /\ UNCHANGED shelf => ArchiveInv'
  BY DEF ArchiveInv, RollbackReady, shelf

LEMMA CommitArchives ==
    ASSUME ArchiveInv, {applied, previous} \subseteq Versions \union {None}, NEW v \in Versions, NEW by, NEW st, NEW b, NEW o, Commit(v, by, st, b, o)
    PROVE  ArchiveInv'
<1>1. CASE NotInstalled(v, by, b, o)
  BY <1>1, ShelfKept DEF NotInstalled
<1>2. CASE Installs(v, by, st, b, o) /\ CanCopy(v, by, b)
  <2>1. /\ packages' = Archived(v) /\ lost' = lost \ {v}
        /\ applied' = v /\ previous' = applied
    BY <1>2 DEF Installs
  <2>2. packages \in Seq(Versions) /\ Len(packages) <= Keep /\ IsInjective(packages)
    BY DEF ArchiveInv
  <2>3. /\ Archived(v) \in Seq(Versions) /\ Len(Archived(v)) <= Keep /\ IsInjective(Archived(v))
        /\ Archived(v) # <<>> /\ Archived(v)[Len(Archived(v))] = v
        /\ packages # <<>> => packages[Len(packages)] \in Range(Archived(v))
    BY <2>2, ArchivedIs
  <2>4. v \in Range(Archived(v))
    <3> DEFINE a == Archived(v)
    <3> HIDE DEF a
    <3>1. a \in Seq(Versions) /\ a # <<>> /\ a[Len(a)] = v
      BY <2>3 DEF a
    <3>2. Len(a) \in DOMAIN a
      BY <3>1
    <3>3. v \in Range(a)
      BY <3>1, <3>2 DEF Range
    <3> QED BY <3>3 DEF a
  <2>5. applied \in Versions \ lost => applied \in Range(Archived(v))
    BY <2>3 DEF ArchiveInv
  <2>6. RollbackReady'
    BY <2>1, <2>4, <2>5 DEF RollbackReady
  <2> QED BY <2>1, <2>3, <2>6 DEF ArchiveInv
<1>3. CASE Installs(v, by, st, b, o) /\ ~CanCopy(v, by, b)
  <2>1. /\ packages' = packages /\ lost' = lost \union {v}
        /\ applied' = v /\ previous' = applied
    BY <1>3 DEF Installs
  <2> QED BY <2>1 DEF ArchiveInv, RollbackReady
<1> QED BY <1>1, <1>2, <1>3 DEF Commit, SwapRefused, SwapFails, CheckFails

LEMMA ArchiveStep == ArchiveInv /\ Shape /\ [Next]_vars => ArchiveInv'
<1> SUFFICES ASSUME ArchiveInv, Shape, [Next]_vars PROVE ArchiveInv'
  OBVIOUS
<1>0. {waiting, noticing, applied, previous} \subseteq Versions \union {None}
  BY DEF Shape
<1>1. ASSUME NEW v \in Versions, UploadStart(v) \/ UploadEnd(v) \/ Arm(v) \/ Reject(v)
      PROVE  UNCHANGED shelf
  BY <1>1 DEF UploadStart, UploadEnd, Arm, Reject
<1>2. CASE Noticed
  <2>1. CASE Commit(noticing, "scan", staged, box, outcome)
    BY <1>0, <1>2, <2>1, CommitArchives DEF Noticed
  <2> QED BY <1>2, <2>1, ShelfKept DEF Noticed
<1>3. CASE CommitDue \/ CommitNow
  BY <1>0, <1>3, CommitArchives DEF CommitDue, CommitNow
<1>4. CASE Rollback
  <2>1. CASE /\ Usable(previous)
             /\ Commit(previous, "rollback", [staged EXCEPT ![previous] = Places],
                       BoxWithoutWaiting, WaitingGivenUp)
    BY <1>0, <2>1, CommitArchives DEF Usable
  <2> QED BY <1>4, <2>1, ShelfKept DEF Rollback
<1>5. ASSUME Cancel \/ \E f \in fails : Report(f) PROVE UNCHANGED shelf
  BY <1>5 DEF Cancel, Report
<1>6. ASSUME \/ HandlerSet \/ AskRestart("flush") \/ AskRestart("forced") \/ Aborted
             \/ Preflight \/ Exit \/ Crash
             \/ HelperStarts \/ HelperRestores \/ HelperGivesUp \/ OperatorStarts
      PROVE  UNCHANGED shelf
  BY <1>6 DEF HandlerSet, AskRestart, Aborted, Preflight, Exit, Crash,
              HelperStarts, HelperRestores, HelperGivesUp, OperatorStarts
<1>7. ASSUME UNCHANGED vars PROVE UNCHANGED shelf
  BY <1>7 DEF vars, shelf
<1> QED BY <1>1, <1>2, <1>3, <1>4, <1>5, <1>6, <1>7, ShelfKept
        DEF Next, DeployRestartNowCard, DeployCancelCard, DeployRollbackCard,
            RollbackDeploy, RestartNowCard

(* Rolling back finds the package of the version before the one applied,   *)
(* and a failed replacement that of the version applied, for any number of *)
(* versions and packages kept, whatever was installed and rolled back in   *)
(* between, as far as the copies themselves succeeded (archiveBundle,      *)
(* trimArchive, rollback, restorePrevious).                                *)
THEOREM RollbackFindsIt == Spec => []RollbackReady
<1>1. ArchiveInv => RollbackReady
  BY DEF ArchiveInv
<1>2. DeliveryInv => Shape
  BY DEF DeliveryInv
<1> QED BY <1>1, <1>2, ArchiveInit, ArchiveStep, DeliveryInit, DeliveryStep, PTL DEF Spec

-----------------------------------------------------------------------------
(***************************************************************************)
(* Type correctness.  What Shape, RestartInv and ArchiveInv do not say:    *)
(***************************************************************************)
Rest ==
    /\ staged \in [Versions -> SUBSET Places]
    /\ spoiled \subseteq Versions /\ lost \subseteq Versions
    /\ uploading \subseteq Versions
    /\ running \in Versions \union {None}
    /\ immediate \in BOOLEAN /\ (noticing = None => ~immediate)
    /\ fails \subseteq [v : Versions, code : {"check", "replace"}, by : {"scan", "user"}]
    /\ reported \subseteq Versions \X {"check", "replace"}
    /\ flow \in {"starting", "idle", "flush", "forced", "armed", "abort", "down"}
    /\ helper \in {"none", "waiting", "gaveup"}
Counted ==
    /\ faults \in 0 .. MaxFaults /\ uploads \in 0 .. MaxUploads
    /\ crashes \in 0 .. MaxCrashes

LEMMA RestInit == Init => Rest /\ Counted
<1> SUFFICES ASSUME Init PROVE Rest /\ Counted
  OBVIOUS
<1>1. First \in Versions /\ {MaxFaults, MaxUploads, MaxCrashes} \subseteq Nat
  BY DeployConstants
<1>2. Rest
  BY <1>1 DEF Init, Rest
<1>3. Counted
  BY <1>1 DEF Init, Counted
<1> QED BY <1>2, <1>3

LEMMA CommitRest ==
    ASSUME Rest, NEW v \in Versions, NEW by \in {"scan", "user", "rollback"},
           NEW st \in [Versions -> SUBSET Places], NEW b, NEW o, Commit(v, by, st, b, o)
    PROVE  /\ staged' \in [Versions -> SUBSET Places]
           /\ spoiled' \subseteq Versions /\ lost' \subseteq Versions
           /\ fails' \subseteq [v : Versions, code : {"check", "replace"}, by : {"scan", "user"}]
           /\ flow' \in {flow, "flush"}
           /\ UNCHANGED <<uploading, reported, running, helper>>
<1>1. UNCHANGED <<uploading, reported, running, helper>>
  BY DEF Commit
<1>2. CASE Installs(v, by, st, b, o)
  <2>1. staged' \in [Versions -> SUBSET Places]
    BY <1>2 DEF Installs
  <2>2. spoiled' \subseteq Versions /\ lost' \subseteq Versions
    BY <1>2 DEF Installs, CopiedOver, Rest
  <2>3. fails' = fails /\ flow' \in {flow, "flush"}
    BY <1>2 DEF Installs, RequestRestart
  <2> QED BY <1>1, <2>1, <2>2, <2>3 DEF Rest
<1>3. CASE NotInstalled(v, by, b, o)
  <2>1. spoiled' \subseteq Versions /\ lost' \subseteq Versions /\ flow' = flow
    BY <1>3 DEF NotInstalled, shelf, Rest
  <2>2. fails' \subseteq [v : Versions, code : {"check", "replace"}, by : {"scan", "user"}]
    BY <1>3 DEF NotInstalled, Fail, Failure, Rest
  <2>3. staged' \in [Versions -> SUBSET Places]
    <3>1. \A i \in 1 .. Len(Targets) + 1 : LeftOver(i) \subseteq Places
      <4>1. \A j \in 1 .. Len(Targets) : Targets[j] \in Places
        BY DeployConstants DEF Places, Range
      <4>2. \A i \in 1 .. Len(Targets) + 1 : \A j \in i .. Len(Targets) : j \in 1 .. Len(Targets)
        BY DeployConstants
      <4> QED BY <4>1, <4>2 DEF LeftOver
    <3> QED BY <3>1 DEF Commit, SwapRefused, SwapFails, CheckFails, Installs
  <2> QED BY <1>1, <2>1, <2>2, <2>3
<1> QED BY <1>2, <1>3 DEF Commit, SwapRefused, SwapFails, CheckFails

LEMMA RestStep == Rest /\ RestartInv /\ Shape /\ [Next]_vars => Rest'
<1> SUFFICES ASSUME Rest, RestartInv, Shape, [Next]_vars PROVE Rest'
  OBVIOUS
<1>0. {waiting, noticing, previous} \subseteq Versions \union {None}
  BY DEF Shape
<1>1. ASSUME NEW v \in Versions, UploadStart(v) \/ UploadEnd(v) PROVE Rest'
  BY <1>1 DEF UploadStart, UploadEnd, tree, shelf, memory, process, Rest
<1>2. ASSUME NEW v \in Versions, Arm(v) PROVE Rest'
  <2>1. staged' \in [Versions -> SUBSET Places]
    BY <1>2 DEF Arm, Rest
  <2>2. noticing' # None /\ immediate' \in BOOLEAN
    BY <1>2, DeployConstants DEF Arm
  <2> QED BY <1>2, <2>1, <2>2 DEF Arm, shelf, incoming, process, Rest
<1>3. ASSUME NEW v \in Versions, Reject(v) PROVE Rest'
  BY <1>3 DEF Reject, Fail, Failure, tree, shelf, incoming, process, Rest
<1>4. ASSUME NEW v \in Versions, NEW by \in {"scan", "user", "rollback"},
             NEW st \in [Versions -> SUBSET Places], NEW b, NEW o, Commit(v, by, st, b, o),
             \/ noticing' = noticing /\ immediate' = immediate
             \/ noticing' = None /\ immediate' = FALSE
      PROVE  Rest'
  <2>1. /\ staged' \in [Versions -> SUBSET Places]
        /\ spoiled' \subseteq Versions /\ lost' \subseteq Versions
        /\ fails' \subseteq [v : Versions, code : {"check", "replace"}, by : {"scan", "user"}]
        /\ flow' \in {flow, "flush"}
        /\ UNCHANGED <<uploading, reported, running, helper>>
    BY <1>4, CommitRest
  <2>2. immediate' \in BOOLEAN /\ (noticing' = None => ~immediate')
    <3>1. CASE noticing' = noticing /\ immediate' = immediate
      BY <3>1 DEF Rest
    <3>2. CASE noticing' = None /\ immediate' = FALSE
      BY <3>2
    <3> QED BY <1>4, <3>1, <3>2
  <2> QED BY <2>1, <2>2 DEF Rest
<1>5. CASE Noticed
  <2>1. noticing \in Versions
    BY <1>0, <1>5 DEF Noticed
  <2>2. CASE Commit(noticing, "scan", staged, box, outcome)
    BY <1>4, <1>5, <2>1, <2>2 DEF Noticed, Rest
  <2>3. CASE UNCHANGED <<tree, shelf, incoming, waiting, fails, reported, process, faults>>
    BY <1>5, <2>3 DEF Noticed, tree, shelf, incoming, process, Rest
  <2> QED BY <1>5, <2>2, <2>3 DEF Noticed
<1>6. CASE CommitDue \/ CommitNow
  <2>1. PICK by \in {"scan", "user"} : Commit(waiting, by, staged, box, outcome)
    BY <1>6 DEF CommitDue, CommitNow
  <2>2. waiting \in Versions /\ noticing' = noticing /\ immediate' = immediate
    BY <1>0, <1>6 DEF CommitDue, CommitNow
  <2>3. by \in {"scan", "user", "rollback"} /\ staged \in [Versions -> SUBSET Places]
    BY DEF Rest
  <2> QED BY <1>4, <2>1, <2>2, <2>3
<1>7. CASE Cancel
  BY <1>7 DEF Cancel, tree, shelf, process, Rest
<1>8. CASE Rollback
  <2>1. CASE /\ Usable(previous)
             /\ Commit(previous, "rollback", [staged EXCEPT ![previous] = Places],
                       BoxWithoutWaiting, WaitingGivenUp)
    <3>1. previous \in Versions
      BY <1>0, <2>1 DEF Usable
    <3>2. [staged EXCEPT ![previous] = Places] \in [Versions -> SUBSET Places]
      BY DEF Rest
    <3> QED BY <1>4, <1>8, <2>1, <3>1, <3>2 DEF Rollback
  <2>2. CASE UNCHANGED <<tree, shelf, uploading, fails, reported, process>>
    BY <1>8, <2>2 DEF Rollback, tree, shelf, process, Rest
  <2> QED BY <1>8, <2>1, <2>2 DEF Rollback
<1>9. ASSUME NEW f \in fails, Report(f) PROVE Rest'
  BY <1>9 DEF Report, tree, shelf, process, Rest
<1>10. CASE HandlerSet \/ AskRestart("flush") \/ AskRestart("forced") \/ Aborted
  BY <1>10 DEF HandlerSet, AskRestart, RequestRestart, Aborted, tree, shelf, incoming, memory, Rest
<1>11. CASE Preflight
  BY <1>11 DEF Preflight, Spawn, shelf, incoming, memory, Rest
<1>12. CASE Exit \/ Crash
  <2>1. UNCHANGED <<tree, shelf, incoming>> /\ (Gone \/ UNCHANGED <<memory, running>>)
    BY <1>12 DEF Exit, Crash
  <2>2. flow' \in {"idle", "down"} /\ helper' \in {helper, "waiting", "none"}
    BY <1>12 DEF Exit, Crash, Gone
  <2>3. CASE Gone
    BY <2>1, <2>2, <2>3 DEF Gone, tree, shelf, incoming, Rest
  <2>4. CASE UNCHANGED <<memory, running>>
    BY <2>1, <2>2, <2>4 DEF tree, shelf, incoming, memory, Rest
  <2> QED BY <2>1, <2>3, <2>4
<1>13. CASE HelperStarts \/ HelperRestores \/ OperatorStarts
  BY <1>13 DEF HelperStarts, HelperRestores, OperatorStarts, StartsAs, Starts,
               shelf, incoming, memory, Rest
<1>14. CASE HelperGivesUp
  BY <1>14 DEF HelperGivesUp, shelf, incoming, memory, Rest
<1>15. CASE UNCHANGED vars
  BY <1>15 DEF vars, Rest
<1> QED BY <1>1, <1>2, <1>3, <1>5, <1>6, <1>7, <1>8, <1>9, <1>10, <1>11, <1>12,
           <1>13, <1>14, <1>15
        DEF Next, DeployRestartNowCard, DeployCancelCard, DeployRollbackCard,
            RollbackDeploy, RestartNowCard

(* Each bound holds where it is counted.                                   *)
LEMMA CommitCounts ==
    ASSUME Counted, NEW v, NEW by, NEW st, NEW b, NEW o, Commit(v, by, st, b, o)
    PROVE  faults' \in 0 .. MaxFaults /\ UNCHANGED <<uploads, crashes>>
<1>1. UNCHANGED <<uploads, crashes>>
  BY DEF Commit
<1>2. CASE SwapRefused(v, by, st, b, o) \/ Installs(v, by, st, b, o)
  BY <1>1, <1>2 DEF SwapRefused, Installs, Counted
<1>3. CASE SwapFails(v, by, st, b, o)
  <2>1. faults < MaxFaults /\ faults' = faults + 1
    BY <1>3 DEF SwapFails, MayFail
  <2> QED BY <1>1, <2>1, DeployConstants DEF Counted
<1>4. CASE CheckFails(v, by, st, b, o)
  <2>1. \/ faults < MaxFaults /\ faults' = faults + 1
        \/ faults + 1 < MaxFaults /\ faults' = faults + 2
    BY <1>4 DEF CheckFails, RestorePrevious, MayFail
  <2> QED BY <1>1, <2>1, DeployConstants DEF Counted
<1> QED BY <1>2, <1>3, <1>4 DEF Commit

LEMMA CountedStep == Counted /\ [Next]_vars => Counted'
<1> SUFFICES ASSUME Counted, [Next]_vars PROVE Counted'
  OBVIOUS
<1>1. ASSUME NEW v, NEW by, NEW st, NEW b, NEW o, Commit(v, by, st, b, o) PROVE Counted'
  BY <1>1, CommitCounts DEF Counted
<1>2. ASSUME NEW v \in Versions, UploadStart(v) \/ UploadEnd(v) \/ Arm(v) \/ Reject(v)
      PROVE  Counted'
  <2>1. /\ faults' = faults /\ crashes' = crashes
        /\ uploads' = uploads \/ (uploads < MaxUploads /\ uploads' = uploads + 1)
    BY <1>2 DEF UploadStart, UploadEnd, Arm, Reject, incoming, process
  <2> QED BY <2>1, DeployConstants DEF Counted
<1>3. CASE Noticed \/ CommitDue \/ CommitNow \/ Rollback
  <2>1. CASE UNCHANGED <<uploads, crashes, faults>>
    BY <2>1 DEF Counted
  <2>2. CASE Noticed
    BY <1>1, <2>1, <2>2 DEF Noticed, incoming, process
  <2>3. CASE CommitDue \/ CommitNow
    BY <1>1, <2>3 DEF CommitDue, CommitNow
  <2>4. CASE Rollback
    <3>1. CASE Usable(previous) /\ \E st, b, o : Commit(previous, "rollback", st, b, o)
      BY <1>1, <3>1
    <3>2. CASE UNCHANGED <<uploads, process, faults>>
      BY <2>1, <3>2 DEF process
    <3> QED BY <2>4, <3>1, <3>2 DEF Rollback
  <2> QED BY <1>3, <2>2, <2>3, <2>4
<1>4. CASE Cancel \/ \E f \in fails : Report(f)
  BY <1>4 DEF Cancel, Report, process, Counted
<1>5. ASSUME \/ HandlerSet \/ AskRestart("flush") \/ AskRestart("forced") \/ Aborted
             \/ HelperStarts \/ HelperRestores \/ HelperGivesUp \/ OperatorStarts
             \/ UNCHANGED vars
      PROVE  UNCHANGED <<uploads, crashes, faults>>
  BY <1>5 DEF HandlerSet, AskRestart, Aborted, HelperStarts, HelperRestores, HelperGivesUp,
              OperatorStarts, incoming, vars
<1>6. CASE Preflight \/ Exit \/ Crash
  <2>1. /\ uploads' = uploads
        /\ faults' = faults \/ (faults < MaxFaults /\ faults' = faults + 1)
        /\ crashes' = crashes \/ (crashes < MaxCrashes /\ crashes' = crashes + 1)
    BY <1>6 DEF Preflight, Spawn, Exit, Crash, MayFail, incoming
  <2> QED BY <2>1, DeployConstants DEF Counted
<1>7. CASE UNCHANGED <<uploads, crashes, faults>>
  BY <1>7 DEF Counted
<1> QED BY <1>2, <1>3, <1>4, <1>5, <1>6, <1>7
        DEF Next, DeployRestartNowCard, DeployCancelCard, DeployRollbackCard,
            RollbackDeploy, RestartNowCard

(* What lies in the tree, the archive, the box and the state file, and     *)
(* what the installer, the restart flow and the helper remember, keeps its *)
(* type.                                                                   *)
THEOREM TypeCorrect == Spec => []TypeOK
<1>1. DeliveryInv /\ RestartInv /\ ArchiveInv /\ Rest /\ Counted => TypeOK
  BY DEF DeliveryInv, Shape, RestartInv, ArchiveInv, Rest, Counted, TypeOK
<1>2. DeliveryInv => Shape
  BY DEF DeliveryInv
<1> QED BY <1>1, <1>2, DeliveryInit, DeliveryStep, RestartInit, RestartStep, ArchiveInit,
           ArchiveStep, RestInit, RestStep, CountedStep, PTL DEF Spec
=============================================================================
