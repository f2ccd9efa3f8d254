------------------------------- MODULE Deploy -------------------------------
(***************************************************************************)
(* Installing a package and restarting into it: the upload, the installer, *)
(* the restart flow of the old process, the respawn helper, the new start. *)
(*                                                                         *)
(* Sources: services/deployInstaller.ts, services/distSnapshot.ts,         *)
(* services/restart.ts, main.ts (the restart flow) and scripts/respawn.mjs.*)
(*                                                                         *)
(* What runs between two awaits is one action; the installer awaits only   *)
(* its private messages.  A directory tree is the version it came from.    *)
(* The clock and the switch AUTO_RESTART_ON_DEPLOY decide only when a      *)
(* waiting package is taken, so CommitDue may happen at any time.  A scan  *)
(* takes the oldest marker, whose time the upload sets: here any.  Keep    *)
(* limits the box too, which holds fewer packages here.  The build's       *)
(* package.json, .env.example and lock file play no part.                  *)
(***************************************************************************)
EXTENDS Naturals, Sequences, FiniteSets, SequencesExt

CONSTANTS
    Versions,
    First,           \* the version that runs at the start
    Broken,          \* builds that do not pass `--check`
    None,
    Targets,         \* DEPLOY_TARGETS in the order they are replaced
    Keep,            \* PACKAGE_KEEP
    Faults,          \* steps of the replacement that may fail
    MaxFaults,       \* bound: failing steps
    MaxUploads,      \* bound: uploads
    MaxCrashes       \* bound: crashes

ASSUME DeployConstants ==
    /\ IsFiniteSet(Versions) /\ First \in Versions \ Broken /\ None \notin Versions
    /\ Targets \in Seq(STRING)
    /\ Targets[1] = "dist" /\ "scripts" \in Range(Targets) /\ IsInjective(Targets)
    /\ Keep \in Nat /\ Keep >= 2
    /\ Faults \subseteq {"aside", "place", "check", "spawn"}
    /\ {MaxFaults, MaxUploads, MaxCrashes} \subseteq Nat

VARIABLES
    live,            \* what stands at each target
    staged,          \* data/incoming/<v>: the targets unpacked there
    snapshot,        \* data/dist-backup
    packages,        \* data/packages, oldest first
    spoiled,         \* archived packages that cannot be unpacked
    applied, previous,   \* data/deploy-state.json
    box,             \* incoming/: what lies there of each version
    uploading,       \* versions CD is uploading
    running,         \* the version the process loaded
    waiting,         \* the package in its grace period
    noticing,        \* the package runOnce is announcing (awaits the messages)
    immediate,       \* ... and its grace period is 0
    fails,           \* failures being reported (awaits the messages)
    reported,        \* the installer's `reported`, keys of renamed packages
    flow,            \* the restart flow
    helper,          \* scripts/respawn.mjs
    outcome,         \* history: what became of the last delivery of a version
    lost,            \* history: versions whose archive copy failed
    faults, uploads, crashes

tree     == <<live, staged, snapshot>>
shelf    == <<packages, spoiled, applied, previous, lost>>
incoming == <<box, uploading, uploads, outcome>>
memory   == <<waiting, noticing, immediate, fails, reported>>
process  == <<running, flow, helper, crashes>>
vars == <<live, staged, snapshot, packages, spoiled, applied, previous, box,
          uploading, running, waiting, noticing, immediate, fails, reported,
          flow, helper, outcome, lost, faults, uploads, crashes>>

Places     == Range(Targets)
Whole(v)   == [t \in Places |-> v]
WithDist(v) == [live EXCEPT !["dist"] = v]

(* `--check` passes: the build is there and it starts.                     *)
Starts(v)  == v \in Versions \ Broken

Init ==
    /\ live = Whole(First) /\ snapshot = First /\ running = First
    /\ staged = [v \in Versions |-> {}]
    /\ \/ applied = First /\ packages = <<First>>   \* installed as a package
       \/ applied = None /\ packages = <<>>         \* copied file by file
    /\ spoiled = {} /\ previous = None /\ lost = {}
    /\ box = [v \in Versions |-> "none"] /\ uploading = {}
    /\ waiting = None /\ noticing = None /\ immediate = FALSE
    /\ fails = {} /\ reported = {}
    /\ flow = "starting" /\ helper = "none"
    /\ outcome = [v \in Versions |-> "none"]
    /\ faults = 0 /\ uploads = 0 /\ crashes = 0

(***************************************************************************)
(* The box.  "archive": only the .tgz; "half": a marker beside bytes that  *)
(* do not match it; "ready": both; "marker": only the marker.              *)
(***************************************************************************)
HasMarker(v)  == box[v] \in {"half", "ready", "marker"}
HasArchive(v) == box[v] \in {"archive", "half", "ready"}

(* CD writes the archive first, beside what an earlier upload left ...     *)
UploadStart(v) ==
    /\ v \notin uploading /\ uploads < MaxUploads
    /\ uploading' = uploading \union {v} /\ uploads' = uploads + 1
    /\ box' = [box EXCEPT ![v] = IF HasMarker(v) THEN "half" ELSE "archive"]
    /\ UNCHANGED <<tree, shelf, memory, process, outcome, faults>>

(* ... and the marker last; the bytes may still be damaged.  An archive    *)
(* removed or renamed meanwhile is gone from the box, its bytes with it.   *)
UploadEnd(v) ==
    /\ v \in uploading
    /\ uploading' = uploading \ {v}
    /\ \E bytes \in {"ready", "half"} :
          box' = [box EXCEPT ![v] = IF HasArchive(v) THEN bytes ELSE "marker"]
    /\ outcome' = [outcome EXCEPT ![v] = "none"]
    /\ UNCHANGED <<tree, shelf, memory, process, uploads, faults>>

(***************************************************************************)
(* swapTargets                                                             *)
(***************************************************************************)

(* Replacing fails at target i.  The targets before it are put back.  The  *)
(* failing one is not among them: if its old tree was already moved aside  *)
(* ("place"), nothing stands there any more.  Behind the last target is    *)
(* the copying of the reference files.                                     *)
AfterFailure(from, i, step) ==
    IF step = "place" THEN [from EXCEPT ![Targets[i]] = None] ELSE from

(* What is left of the unpacked tree then: what had been moved is deleted. *)
LeftOver(i) == {Targets[j] : j \in i .. Len(Targets)}

(* A step of kind k may still fail.                                        *)
MayFail(k) == k \in Faults /\ faults < MaxFaults

(***************************************************************************)
(* commitPrepared(v), reached by a scan, the user or a rollback.  st, b, o *)
(* are what the caller made of `staged`, `box` and `outcome` before it.    *)
(***************************************************************************)
Failure(v, code, by) == [v |-> v, code |-> code, by |-> by]

(* failFactory, up to the private messages; a rollback only reports.       *)
Fail(v, code, by) ==
    fails' = IF by = "rollback" THEN fails ELSE fails \union {Failure(v, code, by)}

(* RestartHook.request: true whatever becomes of it.  One flow at a time,  *)
(* and none before main.ts has set the handler.                            *)
RequestRestart(kind) == flow' = IF flow = "idle" THEN kind ELSE flow

NotInstalled(v, by, b, o) ==
    /\ Fail(v, "replace", by)
    /\ box' = b /\ outcome' = o
    /\ UNCHANGED <<snapshot, shelf, flow>>

(* The unpacked tree lacks a target: swapTargets throws, nothing moves.    *)
SwapRefused(v, by, st, b, o) ==
    /\ st[v] # Places
    /\ staged' = st
    /\ NotInstalled(v, by, b, o)
    /\ UNCHANGED <<live, faults>>

(* Mutant of SwapFails: what was replaced before is not put back.          *)
SwapUndoForgotten(v, by, st, b, o) ==
    /\ st[v] = Places /\ MayFail("aside")
    /\ live' = WithDist(v)
    /\ staged' = [st EXCEPT ![v] = LeftOver(2)]
    /\ faults' = faults + 1
    /\ NotInstalled(v, by, b, o)

SwapFails(v, by, st, b, o) ==
    /\ st[v] = Places
    /\ \E step \in {"aside", "place"}, i \in 1 .. Len(Targets) + 1 :
        /\ MayFail(step)
        /\ step = "place" => i <= Len(Targets)
        /\ step = "aside" /\ i <= Len(Targets) => live[Targets[i]] # None
        /\ live' = AfterFailure(live, i, step)
        /\ staged' = [st EXCEPT ![v] = LeftOver(i)]
    /\ faults' = faults + 1
    /\ NotInstalled(v, by, b, o)

(* An archived package that can be found and unpacked.                     *)
Usable(v) == v # None /\ v \in Range(packages) \ spoiled

(* restorePrevious: the archived package of the version last applied       *)
(* replaces the tree, or that replacement fails as well.                   *)
RestorePrevious(v) ==
    \/ live' = (IF Usable(applied) THEN Whole(applied) ELSE Whole(v))
       /\ faults' = faults + 1
    \/ /\ Usable(applied) /\ "place" \in Faults /\ faults + 1 < MaxFaults
       /\ \E i \in DOMAIN Targets : live' = AfterFailure(Whole(v), i, "place")
       /\ faults' = faults + 2

(* The live dist does not match its build-info after the replacement.      *)
CheckFails(v, by, st, b, o) ==
    /\ st[v] = Places /\ MayFail("check")
    /\ RestorePrevious(v)
    /\ staged' = [st EXCEPT ![v] = {}]
    /\ NotInstalled(v, by, b, o)

(* archiveBundle copies what lies in the box now, or, rolling back, the    *)
(* archived file onto itself; either refreshes its time.                   *)
CanCopy(v, by, b) == by = "rollback" \/ b[v] \notin {"none", "marker"}

(* Mutant of Archived: the time of an archived file is not refreshed.      *)
ArchivedStale(v) ==
    IF v \in Range(packages) THEN packages
    ELSE IF Len(packages) < Keep THEN Append(packages, v) ELSE Append(Tail(packages), v)

(* The other packages of the archive; none lies there twice.               *)
Others(v) ==
    IF v \notin Range(packages) THEN packages
    ELSE RemoveAt(packages, CHOOSE i \in DOMAIN packages : packages[i] = v)

(* The archive after copying v: the newest Keep packages (trimArchive).    *)
Archived(v) == LET all == Append(Others(v), v)
               IN  IF Len(all) > Keep THEN Tail(all) ELSE all

CopiedOver(v, by, b) ==
    IF by = "rollback" \/ ~CanCopy(v, by, b) THEN spoiled
    ELSE IF b[v] = "half" THEN spoiled \union {v} ELSE spoiled \ {v}

(* The delivered files are removed; trimIncoming also deletes every        *)
(* archive without a marker.                                               *)
Cleared(v, by, b) ==
    [w \in Versions |->
        IF b[w] = "archive" \/ (w = v /\ by # "rollback") THEN "none" ELSE b[w]]

Installs(v, by, st, b, o) ==
    /\ st[v] = Places
    /\ live' = Whole(v)
    /\ staged' = [st EXCEPT ![v] = {}]
    /\ RequestRestart("flush")
    /\ packages' = IF CanCopy(v, by, b) THEN Archived(v) ELSE packages
    /\ spoiled' = CopiedOver(v, by, b)
    /\ lost' = IF CanCopy(v, by, b) THEN lost \ {v} ELSE lost \union {v}
    /\ applied' = v /\ previous' = applied
    /\ box' = Cleared(v, by, b)
    /\ outcome' = IF by = "rollback" THEN o ELSE [o EXCEPT ![v] = "installed"]
    /\ UNCHANGED <<snapshot, fails, faults>>

Commit(v, by, st, b, o) ==
    /\ \/ SwapRefused(v, by, st, b, o)
       \/ SwapFails(v, by, st, b, o)
       \/ CheckFails(v, by, st, b, o)
       \/ Installs(v, by, st, b, o)
    /\ UNCHANGED <<uploading, uploads, reported, running, helper, crashes>>

(***************************************************************************)
(* The installer                                                           *)
(***************************************************************************)
Up       == running # None
ScanIdle == noticing = None /\ \A f \in fails : f.by # "scan"

(* runOnce finds a package in the box: it is checked and unpacked and its  *)
(* grace period begins, then the administrators are told.                  *)
Arm(v) ==
    /\ Up /\ ScanIdle /\ waiting = None
    /\ box[v] = "ready"
    /\ staged' = [staged EXCEPT ![v] = Places]
    /\ waiting' = v /\ noticing' = v /\ immediate' \in BOOLEAN
    /\ UNCHANGED <<live, snapshot, shelf, incoming, fails, reported, process, faults>>

(* Its bytes do not match the marker, or fail another check.               *)
Reject(v) ==
    /\ Up /\ ScanIdle /\ waiting = None
    /\ box[v] = "half"
    /\ Fail(v, "check", "scan")
    /\ UNCHANGED <<tree, shelf, incoming, waiting, noticing, immediate, reported, process, faults>>

(* The messages are out.  Without a grace period runOnce goes on and       *)
(* commits the package it announced.                                       *)
Noticed ==
    /\ Up /\ noticing # None
    /\ noticing' = None /\ immediate' = FALSE
    /\ \/ /\ immediate
          /\ waiting' = None
          /\ Commit(noticing, "scan", staged, box, outcome)
       \/ /\ ~immediate
          /\ UNCHANGED <<tree, shelf, incoming, waiting, fails, reported, process, faults>>

(* runOnce after the grace period.                                         *)
CommitDue ==
    /\ Up /\ ScanIdle /\ waiting # None
    /\ waiting' = None
    /\ Commit(waiting, "scan", staged, box, outcome)
    /\ UNCHANGED <<noticing, immediate>>

(* restartNow                                                              *)
CommitNow ==
    /\ Up /\ waiting # None
    /\ waiting' = None
    /\ Commit(waiting, "user", staged, box, outcome)
    /\ UNCHANGED <<noticing, immediate>>

(* The messages about a failure are out: the archive is renamed, once per  *)
(* package and reason; its marker stays.                                   *)
Report(f) ==
    /\ Up /\ f \in fails
    /\ fails' = fails \ {f}
    /\ reported' = reported \union {<<f.v, f.code>>}
    /\ box' = IF <<f.v, f.code>> \in reported THEN box
              ELSE [box EXCEPT ![f.v] = IF HasMarker(f.v) THEN "marker" ELSE "none"]
    /\ UNCHANGED <<tree, shelf, uploading, uploads, outcome, waiting, noticing,
                   immediate, process, faults>>

(* Mutant of BoxWithoutWaiting: the cancellation is only remembered.       *)
BoxAsIs == box

(* renameCancelledPair: both files of the waiting package leave the box.   *)
BoxWithoutWaiting == IF waiting = None THEN box ELSE [box EXCEPT ![waiting] = "none"]
WaitingGivenUp    == IF waiting = None THEN outcome
                     ELSE [outcome EXCEPT ![waiting] = "cancelled"]

Cancel ==
    /\ Up /\ waiting # None
    /\ waiting' = None
    /\ box' = BoxWithoutWaiting /\ outcome' = WaitingGivenUp
    /\ UNCHANGED <<tree, shelf, uploading, uploads, noticing, immediate, fails,
                   reported, process, faults>>

(* rollback drops what waits and installs the previous package, if it is   *)
(* there and can be unpacked.                                              *)
Rollback ==
    /\ Up
    /\ waiting' = None
    /\ \/ /\ Usable(previous)
          /\ Commit(previous, "rollback", [staged EXCEPT ![previous] = Places],
                    BoxWithoutWaiting, WaitingGivenUp)
       \/ /\ ~Usable(previous)
          /\ box' = BoxWithoutWaiting /\ outcome' = WaitingGivenUp
          /\ UNCHANGED <<tree, shelf, uploading, uploads, fails, reported, process, faults>>
    /\ UNCHANGED <<noticing, immediate>>

(***************************************************************************)
(* The restart flow of the old process                                     *)
(***************************************************************************)
HandlerSet ==
    /\ flow = "starting" /\ flow' = "idle"
    /\ UNCHANGED <<tree, shelf, incoming, memory, running, helper, crashes, faults>>

(* /restart, the deploy watcher, or the button that skips the preflight.   *)
AskRestart(kind) ==
    /\ Up /\ flow = "idle"
    /\ RequestRestart(kind)
    /\ UNCHANGED <<tree, shelf, incoming, memory, running, helper, crashes, faults>>

(* spawnRespawnHelper, from the live scripts directory.                    *)
Spawn ==
    \/ /\ live["scripts"] # None /\ flow' = "armed" /\ faults' = faults
    \/ /\ live["scripts"] = None /\ flow' = "abort" /\ faults' = faults
    \/ /\ MayFail("spawn") /\ flow' = "abort" /\ faults' = faults + 1

(* The preflight runs the build on disk; if it fails the snapshot of dist  *)
(* comes back and the process stays.                                       *)
Preflight ==
    /\ flow \in {"flush", "forced"}
    /\ \/ /\ flow = "forced" \/ Starts(live["dist"])
          /\ Spawn
          /\ UNCHANGED live
       \/ /\ flow = "flush" /\ ~Starts(live["dist"])
          /\ live' = [live EXCEPT !["dist"] = snapshot]
          /\ flow' = "abort" /\ faults' = faults
    /\ UNCHANGED <<staged, snapshot, shelf, incoming, memory, running, helper, crashes>>

(* The messages about the failure are out: the gate opens again.           *)
Aborted ==
    /\ flow = "abort" /\ flow' = "idle"
    /\ UNCHANGED <<tree, shelf, incoming, memory, running, helper, crashes, faults>>

Gone ==
    /\ running' = None /\ flow' = "down"
    /\ waiting' = None /\ noticing' = None /\ immediate' = FALSE
    /\ fails' = {} /\ reported' = {}

(* After the exit delay: the helper errored meanwhile, or the process      *)
(* leaves and the helper takes over.                                       *)
Exit ==
    /\ flow = "armed"
    /\ \/ /\ MayFail("spawn") /\ flow' = "idle" /\ faults' = faults + 1
          /\ UNCHANGED <<memory, running, helper>>
       \/ /\ Gone /\ helper' = "waiting" /\ faults' = faults
    /\ UNCHANGED <<tree, shelf, incoming, crashes>>

Crash ==
    /\ Up /\ crashes < MaxCrashes
    /\ crashes' = crashes + 1
    /\ Gone
    /\ helper' = IF flow = "armed" THEN "waiting" ELSE "none"
    /\ UNCHANGED <<tree, shelf, incoming, faults>>

(***************************************************************************)
(* scripts/respawn.mjs and the new process                                 *)
(***************************************************************************)

(* The process comes up and snapshots its dist.                            *)
StartsAs(d) == running' = d /\ snapshot' = d /\ flow' = "starting" /\ helper' = "none"

(* The helper's own check passes.                                          *)
HelperStarts ==
    /\ helper = "waiting" /\ Starts(live["dist"])
    /\ StartsAs(live["dist"])
    /\ UNCHANGED <<live, staged, shelf, incoming, memory, crashes, faults>>

(* Mutant of CanRestore: the helper does not roll back.                    *)
NoRestore == FALSE

(* It fails.  rollbackDist first copies the failing dist away, which there *)
(* must be, then puts the snapshot in its place.                           *)
CanRestore == live["dist"] # None

HelperRestores ==
    /\ helper = "waiting" /\ ~Starts(live["dist"])
    /\ CanRestore /\ Starts(snapshot)
    /\ live' = [live EXCEPT !["dist"] = snapshot]
    /\ StartsAs(snapshot)
    /\ UNCHANGED <<staged, shelf, incoming, memory, crashes, faults>>

HelperGivesUp ==
    /\ helper = "waiting" /\ ~Starts(live["dist"])
    /\ ~CanRestore \/ ~Starts(snapshot)
    /\ live' = IF CanRestore THEN [live EXCEPT !["dist"] = snapshot] ELSE live
    /\ helper' = "gaveup"
    /\ UNCHANGED <<staged, snapshot, shelf, incoming, memory, running, flow, crashes, faults>>

(* Somebody starts the process by hand.                                    *)
OperatorStarts ==
    /\ ~Up /\ helper # "waiting" /\ Starts(live["dist"])
    /\ StartsAs(live["dist"])
    /\ UNCHANGED <<live, staged, shelf, incoming, memory, crashes, faults>>

(***************************************************************************)
(* The entrances: the cards of a super administrator and the admin API.    *)
(***************************************************************************)

(* rollbackTarget: a previous version is recorded and its package is kept; *)
(* whether the package can be unpacked shows only later.                   *)
HasRollbackTarget == previous # None /\ previous \in Range(packages)

DeployCancelCard     == Cancel
DeployRestartNowCard == CommitNow
DeployRollbackCard   == HasRollbackTarget /\ Rollback
RollbackDeploy       == HasRollbackTarget /\ Rollback   \* POST /api/deploy/rollback

(* restartNowCard: "go" and "retry" run the preflight, "force" skips it.   *)
RestartNowCard == AskRestart("flush") \/ AskRestart("forced")

Next ==
    \/ \E v \in Versions : UploadStart(v) \/ UploadEnd(v) \/ Arm(v) \/ Reject(v)
    \/ Noticed \/ CommitDue \/ DeployRestartNowCard \/ DeployCancelCard
    \/ DeployRollbackCard \/ RollbackDeploy
    \/ \E f \in fails : Report(f)
    \/ HandlerSet \/ RestartNowCard
    \/ Preflight \/ Aborted \/ Exit \/ Crash
    \/ HelperStarts \/ HelperRestores \/ HelperGivesUp \/ OperatorStarts

Spec == Init /\ [][Next]_vars

(***************************************************************************)
(* Properties                                                              *)
(***************************************************************************)
TypeOK ==
    /\ live \in [Places -> Versions \union {None}]
    /\ staged \in [Versions -> SUBSET Places]
    /\ snapshot \in Versions
    /\ packages \in Seq(Versions) /\ Len(packages) <= Keep
    /\ spoiled \subseteq Versions /\ lost \subseteq Versions
    /\ {applied, previous} \subseteq Versions \union {None}
    /\ box \in [Versions -> {"none", "archive", "half", "ready", "marker"}]
    /\ uploading \subseteq Versions
    /\ {running, waiting, noticing} \subseteq Versions \union {None}
    /\ immediate \in BOOLEAN /\ (noticing = None => ~immediate)
    /\ fails \subseteq [v : Versions, code : {"check", "replace"}, by : {"scan", "user"}]
    /\ reported \subseteq Versions \X {"check", "replace"}
    /\ flow \in {"starting", "idle", "flush", "forced", "armed", "abort", "down"}
    /\ flow = "down" <=> running = None
    /\ helper \in {"none", "waiting", "gaveup"}
    /\ outcome \in [Versions -> {"none", "cancelled", "installed"}]
    /\ faults \in 0 .. MaxFaults /\ uploads \in 0 .. MaxUploads
    /\ crashes \in 0 .. MaxCrashes

(* The targets replaced before a failing one are always put back, so that  *)
(* no failure mixes two builds; the failing target itself may be missing   *)
(* afterwards.  Only the restart flow and the helper replace dist alone,   *)
(* with the build that last came up.                                       *)
NoMixture ==
    [][\/ live' = live
       \/ \E v \in Versions : live' = Whole(v)
       \/ live' = WithDist(snapshot)
       \/ \E t \in Places : live' = [live EXCEPT ![t] = None]
       \/ \E v \in Versions, t \in Places : live' = [Whole(v) EXCEPT ![t] = None]]_vars

(* The helper leaves no process running only if dist is missing: otherwise *)
(* the worst case of a restart is that it does not take effect ("never     *)
(* that the old process is gone and the new one does not start",           *)
(* main.ts:821), forced restarts and changes to the tree between the       *)
(* preflight and the exit included.                                        *)
StaysUp == helper = "gaveup" => live["dist"] = None

(* The packages of the version applied and of the one before it are kept,  *)
(* whatever sequence of installs and rollbacks led there, unless their     *)
(* copy itself failed: rollback and restorePrevious need them.             *)
RollbackReady ==
    \A v \in {applied, previous} \ (lost \union {None}) : v \in Range(packages)

(* A delivery that was cancelled, or dropped by a rollback, is not         *)
(* installed before it is uploaded again ("the delivery is given up",      *)
(* deployInstaller.ts:433), with one exception: runOnce, announcing it     *)
(* without a grace period, goes on to commit what it announced.            *)
CancelledStaysOut ==
    [][\A v \in Versions :
          outcome[v] = "cancelled" /\ outcome'[v] = "installed"
              => noticing = v /\ immediate]_vars
=============================================================================
