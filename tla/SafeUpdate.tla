---------------------------- MODULE SafeUpdate ----------------------------
(* The monthly update of an installation: npmplus-safe-update takes a         *)
(* snapshot, lets the setup script deploy the new release under a deadline,   *)
(* checks the result and otherwise puts the snapshot back                     *)
(* (setup-npmplus.sh, the wrapper it writes and its --update branch).  The    *)
(* container of Startup goes on while this happens, and both write the        *)
(* database and the generated files.                                          *)
(*                                                                            *)
(* The script is a bash program: a failing command and a signal both end in   *)
(* the exit handler, from the command they meet it at.  Interrupted is either *)
(* of them, RevertFails a failing command of the handler, Killed the end of   *)
(* the script without its handler.                                            *)
EXTENDS Startup

CONSTANTS
    Installed,  \* release that is running, and of the setup script
    Newest,     \* release of the update channel
    Scenes      \* bound: the update asked for, the deployment's options and mishaps

ASSUME ReleaseAssumption == Installed \in Nat \ {0} /\ Newest \in Nat \ {0}

\* An update finds an installation that runs; a start may find no fingerprint.
ASSUME SceneAssumption ==
    \A s \in Scenes :
        /\ s.start \in {"begin", "serving"} /\ s.hash \in {0, Installed} /\ s.admins \in {0, 1}
        /\ s.start = "serving" => s.hash = Installed
        /\ {s.managed, s.admin, s.update, s.older, s.force, s.kill} \subseteq BOOLEAN
        /\ s.candidate \in Nat /\ s.requests \in Nat
        /\ s.budget \in [faults : Nat, crashes : Nat, saves : Nat]

VARIABLES
    host,   \* image of compose.yaml, setup script, CrowdSec runs, public ports open
    dirs,   \* the snapshot that is built, the last good one, the one before
    up,     \* variables of the script, and the command it is at
    child,  \* the deployment: what it does next
    order,  \* what was asked for: candidate script (0: none), force; may be
            \* killed; there is an older snapshot
    torn    \* history: the snapshot put back had files that did not fit its database

vars == <<startVars, host, dirs, up, child, order, torn>>

\* Files, fingerprint and database are those of /data; the image is also that of
\* override.yaml.
Snapshot(exists, complete, image, script) ==
    [exists |-> exists, complete |-> complete, image |-> image, script |-> script, files |-> NoFiles,
     hash |-> 0, db |-> [schema |-> 0, content |-> [h \in Hosts |-> 0], admins |-> 0]]
NoSnapshot == Snapshot(FALSE, FALSE, 0, 0)

Deployed == IF order.candidate = 0 THEN Newest ELSE order.candidate

InitScene(s) ==
    /\ box = [Off(Installed) EXCEPT !.pc = s.start]
    /\ db = [schema |-> Installed, content |-> [h \in Hosts |-> 1], admins |-> s.admins]
    /\ disk = [hash |-> s.hash,
               token |-> IF s.start = "serving" /\ s.admins = 0 /\ s.managed THEN "whole" ELSE "none",
               files |-> Rendered(db, Installed)]
    /\ loaded = disk.files
    /\ claimed = FALSE
    /\ req = [r \in Requests |-> IF r <= s.requests THEN "todo" ELSE "done"]
    /\ options = [managed |-> s.managed, admin |-> s.admin]
    /\ budget = s.budget
    /\ host = [image |-> Installed, script |-> Installed, crowdsec |-> TRUE, open |-> TRUE]
    /\ dirs = [stage |-> NoSnapshot, previous |-> NoSnapshot,
               lastGood |-> Snapshot(s.older, s.older, 0, 0)]
    /\ up = [pc |-> IF s.update THEN "idle" ELSE "none", ready |-> FALSE, started |-> FALSE,
             complete |-> FALSE, stopped |-> FALSE, recovered |-> FALSE]
    /\ child = "none"
    /\ order = [candidate |-> s.candidate, force |-> s.force, kill |-> s.kill, older |-> s.older]
    /\ torn = FALSE

Init == \E s \in Scenes : InitScene(s)

\* The container is created anew with the image of compose.yaml.
Recreate(image) == box' = Started(image) /\ Forget
StopContainer == box' = Off(box.release) /\ Forget
KeepContainer == UNCHANGED <<box, req, claimed>>
Stored == <<db, disk>>
Rest == <<loaded, options, budget, order>>

At(pc) == up.pc = pc
To(pc) == up' = [up EXCEPT !.pc = pc]

\* check: every service healthy, the API answers, CrowdSec accepts its keys.
Healthy == Serving /\ host.crowdsec

-----------------------------------------------------------------------------
(* The snapshot.                                                            *)

\* The lock is taken, and an installation that is not whole is left alone.
Preflight ==
    /\ At("idle") /\ Healthy
    /\ To("stage")
    /\ KeepContainer
    /\ UNCHANGED <<Stored, Rest, host, dirs, child, torn>>

Stage ==
    /\ At("stage")
    /\ dirs' = [dirs EXCEPT !.stage = Snapshot(TRUE, FALSE, host.image, host.script)]
    /\ To("runtime")
    /\ KeepContainer
    /\ UNCHANGED <<Stored, Rest, host, child, torn>>

\* The generated files, and the fingerprint they were generated for.
CopyRuntime ==
    /\ At("runtime")
    /\ dirs' = [dirs EXCEPT !.stage.files = disk.files, !.stage.hash = disk.hash]
    /\ To("database")
    /\ KeepContainer
    /\ UNCHANGED <<Stored, Rest, host, child, torn>>

CopyDatabase ==
    /\ At("database")
    /\ dirs' = [dirs EXCEPT !.stage.db = db]
    /\ To("stop")
    /\ KeepContainer
    /\ UNCHANGED <<Stored, Rest, host, child, torn>>

StopWriter ==
    /\ At("stop")
    /\ host' = [host EXCEPT !.crowdsec = FALSE]
    /\ up' = [up EXCEPT !.pc = "start", !.stopped = TRUE]
    /\ KeepContainer
    /\ UNCHANGED <<Stored, Rest, dirs, child, torn>>

StartWriter ==
    /\ At("start")
    /\ host' = [host EXCEPT !.crowdsec = TRUE]
    /\ up' = [up EXCEPT !.pc = "seal", !.stopped = FALSE]
    /\ KeepContainer
    /\ UNCHANGED <<Stored, Rest, dirs, child, torn>>

Seal ==
    /\ At("seal")
    /\ dirs' = [dirs EXCEPT !.stage.complete = TRUE]
    /\ To("keep")
    /\ KeepContainer
    /\ UNCHANGED <<Stored, Rest, host, child, torn>>

Keep ==
    /\ At("keep")
    /\ dirs' = [dirs EXCEPT !.previous = dirs.lastGood, !.lastGood = NoSnapshot]
    /\ To("place")
    /\ KeepContainer
    /\ UNCHANGED <<Stored, Rest, host, child, torn>>

Place ==
    /\ At("place")
    /\ dirs' = [dirs EXCEPT !.lastGood = dirs.stage, !.stage = NoSnapshot]
    /\ To("ready")
    /\ KeepContainer
    /\ UNCHANGED <<Stored, Rest, host, child, torn>>

Ready ==
    /\ At("ready")
    /\ up' = [up EXCEPT !.pc = "candidate", !.ready = TRUE]
    /\ KeepContainer
    /\ UNCHANGED <<Stored, Rest, host, dirs, child, torn>>

-----------------------------------------------------------------------------
(* The deployment.                                                          *)
Downgrade == order.candidate # 0 /\ order.candidate < host.script

\* A candidate older than the installed script is refused.
Candidate ==
    /\ At("candidate")
    /\ To(CASE Downgrade /\ ~order.force -> "stopChild"
            [] order.candidate # 0 /\ (Downgrade => order.force) -> "install"
            [] order.candidate = 0 -> "launch")
    /\ KeepContainer
    /\ UNCHANGED <<Stored, Rest, host, dirs, child, torn>>

\* Mutant: a deployment is marked only when it is launched.
InstallUnmarked ==
    /\ At("install")
    /\ host' = [host EXCEPT !.script = order.candidate]
    /\ To("launch")
    /\ KeepContainer
    /\ UNCHANGED <<Stored, Rest, dirs, child, torn>>

InstallScript ==
    /\ At("install")
    /\ host' = [host EXCEPT !.script = order.candidate]
    /\ up' = [up EXCEPT !.pc = "launch", !.started = TRUE]
    /\ KeepContainer
    /\ UNCHANGED <<Stored, Rest, dirs, child, torn>>

Launch ==
    /\ At("launch")
    /\ up' = [up EXCEPT !.pc = "wait", !.started = TRUE]
    /\ child' = "pin"
    /\ KeepContainer
    /\ UNCHANGED <<Stored, Rest, host, dirs, torn>>

Wait ==
    /\ At("wait") /\ child \in {"done", "failed"}
    /\ To(IF child = "done" THEN "check" ELSE "stopChild")
    /\ KeepContainer
    /\ UNCHANGED <<Stored, Rest, host, dirs, child, torn>>

\* Checked a second time a minute later.
Check ==
    /\ At("check")
    /\ To(IF Healthy THEN "complete" ELSE "stopChild")
    /\ KeepContainer
    /\ UNCHANGED <<Stored, Rest, host, dirs, child, torn>>

Complete ==
    /\ At("complete")
    /\ up' = [up EXCEPT !.pc = "stopChild", !.complete = TRUE]
    /\ KeepContainer
    /\ UNCHANGED <<Stored, Rest, host, dirs, child, torn>>

Working == up.pc \in {"stage", "runtime", "database", "stop", "start", "seal", "keep", "place",
                      "ready", "candidate", "install", "launch", "wait", "check", "complete"}

\* A command fails or a signal arrives.  The mark of a deployment is set before the
\* script is replaced.
Interrupted ==
    /\ Working
    /\ \E started \in {up.started, up.started \/ At("install")} :
          up' = [up EXCEPT !.pc = "stopChild", !.started = started]
    /\ KeepContainer
    /\ UNCHANGED <<Stored, Rest, host, dirs, child, torn>>

-----------------------------------------------------------------------------
(* The setup script with --update, in a session of its own.                 *)
ChildRuns == child \in {"pin", "pull", "deploy"}

Pin ==
    /\ child = "pin"
    /\ host' = [host EXCEPT !.image = Deployed]
    /\ child' = "pull"
    /\ KeepContainer
    /\ UNCHANGED <<Stored, Rest, dirs, up, torn>>

Pull ==
    /\ child = "pull"
    /\ child' = "deploy"
    /\ KeepContainer
    /\ UNCHANGED <<Stored, Rest, host, dirs, up, torn>>

\* `docker compose up -d`, tried a second time; both may leave the container as it
\* was, gone or started.
Deploy ==
    /\ child = "deploy"
    /\ host' = [host EXCEPT !.crowdsec = TRUE]
    /\ \/ Recreate(host.image) /\ child' \in {"done", "failed"}
       \/ StopContainer /\ child' = "failed"
    /\ UNCHANGED <<Stored, Rest, dirs, up, torn>>

\* Mutant: the deadline ends a deployment that has ended.
DeadlineLate ==
    /\ child = "done"
    /\ child' = "failed"
    /\ KeepContainer
    /\ UNCHANGED <<Stored, Rest, host, dirs, up, torn>>

\* A step fails or `timeout` ends it.
Deadline ==
    /\ ChildRuns
    /\ child' = "failed"
    /\ KeepContainer
    /\ UNCHANGED <<Stored, Rest, host, dirs, up, torn>>

-----------------------------------------------------------------------------
(* The exit handler.                                                        *)

StopChild ==
    /\ At("stopChild")
    /\ child' = "none"
    /\ To("service")
    /\ KeepContainer
    /\ UNCHANGED <<Stored, Rest, host, dirs, torn>>

\* The writer a snapshot had stopped is started, or the public ports are closed.
RestartService ==
    /\ At("service")
    /\ host' \in IF up.stopped
                THEN {[host EXCEPT !.crowdsec = TRUE], [host EXCEPT !.open = FALSE]}
                ELSE {host}
    /\ up' = [up EXCEPT !.pc = "decide", !.stopped = FALSE]
    /\ KeepContainer
    /\ UNCHANGED <<Stored, Rest, dirs, child, torn>>

ToRevert ==
    /\ At("decide") /\ up.started /\ ~up.complete
    /\ To("close")
    /\ KeepContainer
    /\ UNCHANGED <<Stored, Rest, host, dirs, child, torn>>

\* The last good snapshot is the one in its place, or the one that was there.
PutBack(d) ==
    LET back == IF ~d.stage.exists THEN [d EXCEPT !.stage = d.lastGood, !.lastGood = NoSnapshot] ELSE d IN
    IF back.lastGood.exists THEN back
                            ELSE [back EXCEPT !.lastGood = d.previous, !.previous = NoSnapshot]

\* Mutant: only a signal between the two renames is thought of, not one after them.
NoRename ==
    /\ At("decide") /\ (up.started => up.complete)
    /\ To("cleanup")
    /\ KeepContainer
    /\ UNCHANGED <<Stored, Rest, host, dirs, child, torn>>

ToCleanup ==
    /\ At("decide") /\ (up.started => up.complete)
    /\ dirs' = IF ~up.ready /\ dirs.previous.exists THEN PutBack(dirs) ELSE dirs
    /\ To("cleanup")
    /\ KeepContainer
    /\ UNCHANGED <<Stored, Rest, host, child, torn>>

Close ==
    /\ At("close")
    /\ host' = [host EXCEPT !.open = FALSE]
    /\ To("down")
    /\ KeepContainer
    /\ UNCHANGED <<Stored, Rest, dirs, child, torn>>

Down ==
    /\ At("down")
    /\ host' = [host EXCEPT !.crowdsec = FALSE]
    /\ StopContainer
    /\ To("restore")
    /\ UNCHANGED <<Stored, Rest, dirs, child, torn>>

RestoreRuntime ==
    /\ At("restore")
    /\ host' = [host EXCEPT !.image = dirs.lastGood.image]
    /\ disk' = [disk EXCEPT !.files = dirs.lastGood.files, !.hash = dirs.lastGood.hash]
    /\ To("restoreDatabase")
    /\ KeepContainer
    /\ UNCHANGED <<db, Rest, dirs, child, torn>>

RestoreDatabase ==
    /\ At("restoreDatabase")
    /\ db' = dirs.lastGood.db
    /\ torn' = (disk.files # Rendered(db', disk.hash))
    /\ To("restoreScript")
    /\ KeepContainer
    /\ UNCHANGED <<disk, Rest, host, dirs, child>>

RestoreScript ==
    /\ At("restoreScript")
    /\ host' = [host EXCEPT !.script = dirs.lastGood.script]
    /\ To("restart")
    /\ KeepContainer
    /\ UNCHANGED <<Stored, Rest, dirs, child, torn>>

RestartAll ==
    /\ At("restart")
    /\ host' = [host EXCEPT !.crowdsec = TRUE]
    /\ Recreate(host.image)
    /\ To("recheck")
    /\ UNCHANGED <<Stored, Rest, dirs, child, torn>>

\* The public ports are opened when the restored services answer in time.
CheckRestored ==
    /\ At("recheck")
    /\ \E answers \in {FALSE, Healthy} :
          /\ host' = [host EXCEPT !.open = answers]
          /\ up' = [up EXCEPT !.pc = "cleanup", !.recovered = answers]
    /\ KeepContainer
    /\ UNCHANGED <<Stored, Rest, dirs, child, torn>>

\* A command of the rollback fails; `up -d` may have started the container then.
RevertFails ==
    /\ up.pc \in {"close", "down", "restore", "restoreDatabase", "restoreScript", "restart"}
    /\ host' = [host EXCEPT !.open = FALSE]
    /\ To("cleanup")
    /\ IF At("restart") THEN Recreate(host.image) ELSE KeepContainer
    /\ UNCHANGED <<Stored, Rest, dirs, child, torn>>

Cleanup ==
    /\ At("cleanup")
    /\ dirs' = [dirs EXCEPT !.stage = NoSnapshot,
                            !.previous = IF up.complete \/ up.recovered THEN NoSnapshot ELSE @]
    /\ To("ended")
    /\ KeepContainer
    /\ UNCHANGED <<Stored, Rest, host, child, torn>>

\* SIGKILL, or the host loses power: no handler runs.
Killed ==
    /\ order.kill /\ up.pc \notin {"none", "idle", "ended", "killed"}
    /\ To("killed")
    /\ KeepContainer
    /\ UNCHANGED <<Stored, Rest, host, dirs, child, torn>>

-----------------------------------------------------------------------------
UpdaterStep ==
    \/ Preflight \/ Stage \/ CopyRuntime \/ CopyDatabase \/ StopWriter \/ StartWriter \/ Seal
    \/ Keep \/ Place \/ Ready \/ Candidate \/ InstallScript \/ Launch \/ Wait \/ Check \/ Complete
    \/ StopChild \/ RestartService \/ ToRevert \/ ToCleanup \/ Close \/ Down \/ RestoreRuntime
    \/ RestoreDatabase \/ RestoreScript \/ RestartAll \/ CheckRestored \/ Cleanup

HostStep ==
    \/ UpdaterStep \/ Interrupted \/ RevertFails \/ Killed
    \/ Pin \/ Pull \/ Deploy \/ Deadline

Next ==
    \/ ContainerNext /\ UNCHANGED <<host, dirs, up, child, order, torn>>
    \/ HostStep

Spec == Init /\ [][Next]_vars

\* The script and `timeout` run; nothing is assumed of the deployment, and of the
\* container only that its start goes on.
FairSpec ==
    /\ Spec
    /\ WF_vars(UpdaterStep) /\ WF_vars(Deadline)
    /\ WF_vars(BootStep /\ UNCHANGED <<host, dirs, up, child, order, torn>>)

-----------------------------------------------------------------------------
Containers ==
    [pc : {"off", "begin", "migrate", "user", "drop", "token", "fill", "regenerate", "reload",
           "final", "serving"},
     release : Nat, regenerate : BOOLEAN, todo : SUBSET Hosts]
Files == [Hosts -> [content : Nat, release : Nat]]
Databases == [schema : Nat, content : [Hosts -> Nat], admins : Nat]
Tokens == {"none", "empty", "whole"}
Disks == [hash : Nat, token : Tokens, files : Files]
RequestPcs ==
    {"todo", "claim", "recheck", "verify", "create", "unlink", "done", "refused", "failed", "lost"}
Environments == [managed : BOOLEAN, admin : BOOLEAN]
Budgets == [faults : Nat, crashes : Nat, saves : Nat]
HostStates == [image : Nat, script : Nat, crowdsec : BOOLEAN, open : BOOLEAN]
Snapshots ==
    [exists : BOOLEAN, complete : BOOLEAN, image : Nat, script : Nat, files : Files, hash : Nat,
     db : Databases]
Directories == [stage : Snapshots, previous : Snapshots, lastGood : Snapshots]
ScriptPcs ==
    {"none", "idle", "stage", "runtime", "database", "stop", "start", "seal", "keep", "place",
     "ready", "candidate", "install", "launch", "wait", "check", "complete", "stopChild", "service",
     "decide", "close", "down", "restore", "restoreDatabase", "restoreScript", "restart", "recheck",
     "cleanup", "ended", "killed"}
Scripts ==
    [pc : ScriptPcs, ready : BOOLEAN, started : BOOLEAN, complete : BOOLEAN, stopped : BOOLEAN,
     recovered : BOOLEAN]
Children == {"none", "pin", "pull", "deploy", "done", "failed"}
Orders == [candidate : Nat, force : BOOLEAN, kill : BOOLEAN, older : BOOLEAN]

\* What the container, its volumes, the snapshots and the script's variables can be.
TypeOK ==
    /\ box \in Containers /\ db \in Databases /\ disk \in Disks /\ loaded \in Files
    /\ claimed \in BOOLEAN /\ req \in [Requests -> RequestPcs]
    /\ options \in Environments /\ budget \in Budgets
    /\ host \in HostStates /\ dirs \in Directories /\ up \in Scripts /\ child \in Children
    /\ order \in Orders /\ torn \in BOOLEAN

\* While the API listens nginx serves the stored hosts, as the running release
\* renders them: after an interrupted regeneration, an update and a rollback.  A
\* snapshot whose files are older than its database (a host saved while it was
\* taken) is the exception: its fingerprint says that nothing needs regenerating.
FilesCurrent == Serving => torn \/ loaded = Rendered(db, box.release)

\* A snapshot is complete when it becomes the last good one, the one before is not
\* lost until the new one is in place, and the script ends with one in its place
\* ("A signal between the two directory renames must also leave the old snapshot at
\* its documented path").
SnapshotKept ==
    /\ dirs.lastGood.exists => dirs.lastGood.complete
    /\ order.older => dirs.lastGood.exists \/ dirs.previous.exists
    /\ order.older /\ At("ended") => dirs.lastGood.exists

\* When the script ends the new release is in place, or the installation is what it
\* was, or its public ports are closed: nothing of a deployment goes on, and CrowdSec
\* is never left stopped behind open ports.
UpdateSettles ==
    At("ended") /\ host.open =>
        /\ host.crowdsec /\ box.release = host.image
        /\ \/ up.complete /\ host.image = Deployed
           \/ host.image = Installed /\ host.script = Installed /\ db.schema <= Installed

\* The script ends however the deployment hangs.
UpdateEnds == At("stage") ~> up.pc \in {"ended", "killed"}
=============================================================================
