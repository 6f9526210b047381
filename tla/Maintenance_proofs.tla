------------------------ MODULE Maintenance_proofs ------------------------
(* Proofs about an installation: the start of the container and its safe   *)
(* update by themselves, for SafeUpdate; then the backup, the restore and  *)
(* the check of the keys, for Maintenance, and that the promises of the    *)
(* start and of the update are kept beside them.                           *)
EXTENDS Maintenance, TLAPS

-----------------------------------------------------------------------------
(* The invariants.                                                          *)

\* Where the script is: before its deployment, in its rollback, between the end of the
\* container and its start.  One that was not asked for, or has been killed, is none of
\* it: others may then change the installation.
Before == {"idle", "stage", "runtime", "database", "stop", "start", "seal", "keep", "place",
           "ready", "candidate", "install", "launch"}
Rollback == {"close", "down", "restore", "restoreDatabase", "restoreScript", "restart", "recheck"}
Emptied == {"restore", "restoreDatabase", "restoreScript", "restart"}

\* The update has been asked for, and not killed.
Live == up.pc \notin {"none", "killed"}

\* The deployment has not touched the container.
Undeployed == up.pc \in Before \/ ChildRuns

\* Whom the script has stopped: its deployment, and then the container.
ControlInv ==
    /\ up.pc \notin {"wait", "check", "complete", "stopChild", "killed"} => child = "none"
    /\ up.pc \in {"check", "complete"} => child = "done"
    /\ up.pc \in Emptied => box.pc = "off"
    /\ Undeployed => box.release = Installed /\ box.pc # "off"
    /\ child \in {"pull", "deploy"} => host.image = Deployed

\* The request has claimed the setup.
Holds(r) == req[r] \in {"recheck", "verify", "create", "unlink"}

\* One request at most is past its claim, and it knows that there is no user.
SetupInv ==
    /\ \A r \in Requests : Asking(r) => Serving
    /\ \A r \in Requests : Holds(r) => claimed
    /\ \A r, s \in Requests : Holds(r) /\ Holds(s) => r = s
    /\ \A r \in Requests : req[r] \in {"verify", "create"} => db.admins = 0
    /\ \A r \in Requests : req[r] = "unlink" => db.admins > 0
    /\ db.admins <= 1 /\ dirs.stage.db.admins <= 1
    /\ dirs.previous.db.admins <= 1 /\ dirs.lastGood.db.admins <= 1
    /\ box.pc \in {"regenerate", "reload", "final", "serving"} /\ db.admins = 0 =>
           disk.token # "none" \/ ~options.managed

\* The files are what the stored fingerprint says.
Matches == torn \/ disk.files = Rendered(db, disk.hash)

\* The stored fingerprint says what the files were rendered for.
FilesInv ==
    /\ box.pc # "off" /\ disk.hash = box.release => Matches
    /\ box.pc \in {"migrate", "user", "drop", "token", "fill"} =>
           box.regenerate \/ disk.hash = box.release
    /\ box.pc = "regenerate" =>
           /\ box.regenerate
           /\ \A h \in Hosts \ box.todo : disk.files[h] = Rendered(db, box.release)[h]
    /\ box.pc \in {"reload", "final", "serving"} => disk.hash = box.release
    /\ Serving => loaded = disk.files
    /\ up.pc \in {"restoreScript", "restart"} => Matches
    /\ Undeployed => disk.hash \in {0, Installed}

\* Where the snapshots are at each command.
SnapshotInv ==
    /\ dirs.lastGood.exists => dirs.lastGood.complete
    /\ dirs.previous.exists => dirs.previous.complete
    /\ order.older => dirs.lastGood.exists \/ dirs.previous.exists
    /\ up.pc \in {"none", "idle", "stage", "runtime", "database", "stop", "start", "seal", "keep"}
           /\ order.older => dirs.lastGood.exists
    /\ up.pc \in {"runtime", "database", "stop", "start", "seal", "keep", "place"} => dirs.stage.exists
    /\ up.pc \in {"keep", "place"} => dirs.stage.complete
    /\ up.pc \in {"none", "idle", "stage", "runtime", "database", "stop", "start", "seal", "keep",
                  "place", "ready"} => ~up.ready
    /\ up.pc = "ready" \/ up.ready => dirs.lastGood.exists
    /\ up.pc \in {"candidate", "install", "launch", "wait", "check", "complete"} \cup Rollback => up.ready
    /\ up.started \/ up.complete => up.ready
    /\ up.pc \in {"cleanup", "ended"} /\ order.older => dirs.lastGood.exists
    /\ up.recovered => up.ready

\* What the update began with.
Undone(image, script, schema) == image = Installed /\ script = Installed /\ schema <= Installed

\* What has been deployed.
StartedInv ==
    /\ ~up.started => child = "none"
    /\ Live /\ ~up.started => box.release = Installed /\ Undone(host.image, host.script, db.schema)
    /\ up.pc \in Before \ {"launch"} => ~up.started
    /\ up.pc \in Before \cup {"wait", "check"} \cup Rollback => ~up.complete
    /\ up.pc \in Rollback => up.started
    /\ child = "done" \/ up.complete => host.image = Deployed /\ box.release = Deployed
    /\ up.complete => child \in {"none", "done"}
    /\ Undeployed => db.schema <= Installed

\* The snapshot is one of what was there before.
KeptInv ==
    /\ up.pc \in {"runtime", "database", "stop", "start", "seal", "keep", "place"} =>
           dirs.stage.image = Installed /\ dirs.stage.script = Installed
    /\ up.pc \in {"stop", "start", "seal", "keep", "place"} => dirs.stage.db.schema <= Installed
    /\ up.pc = "ready" \/ up.ready =>
           Undone(dirs.lastGood.image, dirs.lastGood.script, dirs.lastGood.db.schema)

\* How much the rollback has undone.
UndoneInv ==
    /\ up.pc \in {"restoreDatabase", "restoreScript", "restart", "recheck"} => host.image = Installed
    /\ up.pc \in {"restoreScript", "restart", "recheck"} => db.schema <= Installed
    /\ up.pc \in {"restart", "recheck"} => host.script = Installed
    /\ up.pc = "recheck" => box.release = Installed

\* Whether the ports are open.
PortsInv ==
    /\ Live /\ host.open => host.crowdsec \/ up.stopped
    /\ up.pc \in Rollback \ {"close"} => ~host.open
    /\ up.pc \in Rollback \cup {"decide", "cleanup", "ended"} => ~up.stopped

\* The script ends with the old release if it has not completed the new one.
EndedInv ==
    up.pc \in {"cleanup", "ended"} /\ host.open /\ ~up.complete =>
        box.release = Installed /\ Undone(host.image, host.script, db.schema)

SettleInv == StartedInv /\ KeptInv /\ UndoneInv /\ PortsInv /\ EndedInv

\* What holds of an installation at every step of the update.
UpdateInv == ControlInv /\ SnapshotInv /\ SetupInv /\ FilesInv /\ SettleInv

-----------------------------------------------------------------------------
(* Types.                                                                   *)

\* The files rendered for a database, at a release.
LEMMA RenderedType ==
    ASSUME NEW d \in Databases, NEW release \in Nat
    PROVE  Rendered(d, release) \in Files
  BY DEF Rendered, Databases, Files

\* A host that has no file.
LEMMA NoFilesType == NoFiles \in Files
  BY DEF NoFiles, NoFile, Files

\* A container that is off, or started anew.
LEMMA ContainerType ==
    ASSUME NEW release \in Nat
    PROVE  Off(release) \in Containers /\ Started(release) \in Containers
  BY DEF Off, Started, Containers

\* A snapshot that nothing has been copied to.
LEMMA SnapshotType ==
    ASSUME NEW exists \in BOOLEAN, NEW complete \in BOOLEAN, NEW image \in Nat, NEW script \in Nat
    PROVE  Snapshot(exists, complete, image, script) \in Snapshots
  <1>1. [schema |-> 0, content |-> [h \in Hosts |-> 0], admins |-> 0] \in Databases
    BY DEF Databases
  <1> QED
    BY <1>1, NoFilesType DEF Snapshot, Snapshots

\* No snapshot.
LEMMA NoSnapshotType == NoSnapshot \in Snapshots
  BY SnapshotType DEF NoSnapshot

\* The requests of a process that has ended.
LEMMA ForgetType ==
    ASSUME TypeOK, Forget
    PROVE  req' \in [Requests -> RequestPcs] /\ claimed' \in BOOLEAN
  BY DEF TypeOK, Forget, RequestPcs

\* A mishap that is spent leaves a budget.
LEMMA SpendType ==
    ASSUME TypeOK, NEW kind \in {"faults", "crashes", "saves"}, Spend(kind)
    PROVE  budget' \in Budgets
  <1>1. CASE kind = "faults"
    BY <1>1 DEF TypeOK, Spend, Budgets
  <1>2. CASE kind = "crashes"
    BY <1>2 DEF TypeOK, Spend, Budgets
  <1>3. CASE kind = "saves"
    BY <1>3 DEF TypeOK, Spend, Budgets
  <1> QED
    BY <1>1, <1>2, <1>3

\* The release that is deployed is one.
LEMMA DeployedType ==
    ASSUME TypeOK
    PROVE  Deployed \in Nat \ {0}
  BY ReleaseAssumption DEF TypeOK, Orders, Deployed

\* The scenes an update begins in.
LEMMA TypeInit == Init => TypeOK
  <1> SUFFICES ASSUME Init
               PROVE  TypeOK
    OBVIOUS
  <1>1. PICK s \in Scenes :
            /\ box = [Off(Installed) EXCEPT !.pc = s.start]
            /\ db = [schema |-> Installed, content |-> [h \in Hosts |-> 1], admins |-> s.admins]
            /\ disk = [hash |-> s.hash,
                       token |-> IF s.start = "serving" /\ s.admins = 0 /\ s.managed
                                 THEN "whole" ELSE "none",
                       files |-> Rendered(db, Installed)]
            /\ loaded = disk.files
            /\ claimed = FALSE
            /\ req = [r \in Requests |-> IF r <= s.requests THEN "todo" ELSE "done"]
            /\ options = [managed |-> s.managed, admin |-> s.admin]
            /\ budget = s.budget
            /\ host = [image |-> Installed, script |-> Installed, crowdsec |-> TRUE, open |-> TRUE]
            /\ dirs = [stage |-> NoSnapshot, previous |-> NoSnapshot,
                       lastGood |-> Snapshot(s.older, s.older, 0, 0)]
            /\ up = [pc |-> IF s.update THEN "idle" ELSE "none", ready |-> FALSE, started |-> FALSE,
                     complete |-> FALSE, stopped |-> FALSE, recovered |-> FALSE]
            /\ child = "none"
            /\ order = [candidate |-> s.candidate, force |-> s.force, kill |-> s.kill,
                        older |-> s.older]
            /\ torn = FALSE
    BY DEF Init, InitScene
  <1>2. /\ s.start \in {"begin", "serving"} /\ s.hash \in {0, Installed} /\ s.admins \in {0, 1}
        /\ s.managed \in BOOLEAN /\ s.admin \in BOOLEAN /\ s.older \in BOOLEAN
        /\ s.force \in BOOLEAN /\ s.kill \in BOOLEAN /\ s.candidate \in Nat
        /\ s.budget \in Budgets
    BY SceneAssumption DEF Budgets
  <1>3. Installed \in Nat
    BY ReleaseAssumption
  <1>4. box \in Containers
    BY <1>1, <1>2, <1>3 DEF Off, Containers
  <1>5. db \in Databases
    BY <1>1, <1>2, <1>3 DEF Databases
  <1>6. Rendered(db, Installed) \in Files
    BY <1>3, <1>5, RenderedType
  <1>7. disk \in Disks /\ loaded \in Files
    BY <1>1, <1>2, <1>3, <1>6 DEF Disks, Tokens
  <1>8. req \in [Requests -> RequestPcs] /\ claimed \in BOOLEAN
    BY <1>1 DEF RequestPcs
  <1>9. options \in Environments /\ budget \in Budgets
    BY <1>1, <1>2 DEF Environments
  <1>10. host \in HostStates /\ up \in Scripts /\ child \in Children
    BY <1>1, <1>3 DEF HostStates, Scripts, ScriptPcs, Children
  <1>11. dirs \in Directories
    BY <1>1, <1>2, NoSnapshotType, SnapshotType DEF Directories
  <1>12. order \in Orders /\ torn \in BOOLEAN
    BY <1>1, <1>2 DEF Orders
  <1> QED
    BY <1>4, <1>5, <1>7, <1>8, <1>9, <1>10, <1>11, <1>12 DEF TypeOK

\* Each step keeps the types.
LEMMA TypeNext ==
    ASSUME TypeOK, [Next]_vars
    PROVE  TypeOK'
  <1>1. CASE ContainerNext /\ UNCHANGED <<host, dirs, up, child, order, torn>>
    <2>1. CASE Begin
      BY <2>1, <1>1 DEF Begin, Changed, NoFiles, NoFile, TypeOK, Containers, Disks, Files
    <2>2. CASE Migrate
      BY <2>2, <1>1 DEF Migrate, TypeOK, Containers, Databases
    <2>3. CASE DefaultUser
      BY <2>3, <1>1 DEF DefaultUser, IsSetup, TypeOK, Containers, Databases
    <2>4. CASE DropToken
      BY <2>4, <1>1 DEF DropToken, TokenDropped, TypeOK, Containers, Disks, Tokens, Files
    <2>5. CASE EnsureSetupToken \/ CreateToken \/ WriteToken
      <3>1. disk' \in Disks
        BY <2>5 DEF EnsureSetupToken, CreateToken, WriteToken, TokenDropped, TypeOK, Disks, Tokens
      <3>2. box' \in Containers
        BY <2>5 DEF EnsureSetupToken, CreateToken, WriteToken, ToHosts, TypeOK, Containers
      <3> QED
        BY <2>5, <1>1, <3>1, <3>2 DEF EnsureSetupToken, CreateToken, WriteToken, TypeOK
    <2>6. ASSUME NEW h \in Hosts, Regenerate(h) PROVE TypeOK'
      <3>1. Rendered(db, box.release) \in Files
        BY RenderedType DEF TypeOK, Containers
      <3>2. disk' \in Disks
        BY <2>6, <3>1 DEF Regenerate, TypeOK, Disks, Files
      <3>3. box' \in Containers
        BY <2>6 DEF Regenerate, TypeOK, Containers
      <3> QED
        BY <2>6, <1>1, <3>2, <3>3 DEF Regenerate, TypeOK
    <2>7. CASE WriteHash
      BY <2>7, <1>1 DEF WriteHash, TypeOK, Containers, Disks, Files
    <2>8. CASE Load
      <3>1. box' \in Containers
        BY <2>8 DEF Load, TypeOK, Containers
      <3>2. loaded' \in Files
        BY <2>8 DEF Load, TypeOK, Disks
      <3> QED
        BY <2>8, <1>1, <3>1, <3>2 DEF Load, TypeOK
    <2>9. ASSUME NEW r \in Requests, Ask(r) PROVE TypeOK'
      BY <2>9, <1>1 DEF Ask, Goto, IsSetup, Serving, TypeOK, RequestPcs
    <2>10. ASSUME NEW r \in Requests, Claim(r) PROVE TypeOK'
      BY <2>10, <1>1 DEF Claim, Goto, TypeOK, RequestPcs
    <2>11. ASSUME NEW r \in Requests, Recheck(r) PROVE TypeOK'
      BY <2>11, <1>1 DEF Recheck, Answer, Goto, IsSetup, TypeOK, RequestPcs
    <2>12. ASSUME NEW r \in Requests, Verify(r) PROVE TypeOK'
      BY <2>12, <1>1 DEF Verify, Answer, Goto, TokenExpected, TypeOK, RequestPcs
    <2>13. ASSUME NEW r \in Requests, CreateUser(r) PROVE TypeOK'
      BY <2>13, <1>1 DEF CreateUser, Goto, TypeOK, Databases, RequestPcs
    <2>14. ASSUME NEW r \in Requests, Unlink(r) PROVE TypeOK'
      BY <2>14, <1>1 DEF Unlink, Answer, Goto, TokenDropped, TypeOK, Disks, Tokens, Files, RequestPcs
    <2>15. ASSUME NEW h \in Hosts, SaveHost(h) PROVE TypeOK'
      <3>1. db' \in Databases
        BY <2>15 DEF SaveHost, TypeOK, Databases
      <3>2. Rendered(db', box.release) \in Files
        BY <3>1, RenderedType DEF TypeOK, Containers
      <3>3. disk' \in Disks
        BY <2>15, <3>2 DEF SaveHost, TypeOK, Disks, Files
      <3>4. loaded' \in Files
        BY <2>15, <3>3 DEF SaveHost, Disks
      <3>5. budget' \in Budgets
        BY <2>15, SpendType DEF SaveHost
      <3> QED
        BY <2>15, <1>1, <3>1, <3>3, <3>4, <3>5 DEF SaveHost, TypeOK
    <2>16. CASE BootFault
      <3>1. budget' \in Budgets
        BY <2>16, SpendType DEF BootFault
      <3>2. box' \in Containers
        BY <2>16 DEF BootFault, TypeOK, Containers
      <3> QED
        BY <2>16, <1>1, <3>1, <3>2 DEF BootFault, TypeOK
    <2>17. CASE BackendCrash
      <3>1. budget' \in Budgets
        BY <2>17, SpendType DEF BackendCrash
      <3>2. box' \in Containers
        BY <2>17 DEF BackendCrash, TypeOK, Containers
      <3>3. req' \in [Requests -> RequestPcs] /\ claimed' \in BOOLEAN
        BY <2>17, ForgetType DEF BackendCrash
      <3> QED
        BY <2>17, <1>1, <3>1, <3>2, <3>3 DEF BackendCrash, TypeOK
    <2>18. CASE ContainerRestart
      <3>1. budget' \in Budgets
        BY <2>18, SpendType DEF ContainerRestart
      <3>2. box' \in Containers
        BY <2>18, ContainerType DEF ContainerRestart, TypeOK, Containers
      <3>3. req' \in [Requests -> RequestPcs] /\ claimed' \in BOOLEAN
        BY <2>18, ForgetType DEF ContainerRestart
      <3> QED
        BY <2>18, <1>1, <3>1, <3>2, <3>3 DEF ContainerRestart, TypeOK
    <2>19. ASSUME NEW r \in Requests, SetupFault(r) PROVE TypeOK'
      BY <2>19, <1>1 DEF SetupFault, Goto, Spend, TypeOK, Budgets, RequestPcs
    <2>20. QED
      BY <1>1, <2>1, <2>2, <2>3, <2>4, <2>5, <2>6, <2>7, <2>8, <2>9, <2>10, <2>11, <2>12, <2>13, <2>14,
        <2>15, <2>16, <2>17, <2>18, <2>19 DEF ContainerNext, BootStep, SetupStep, Mishap
  <1>2. CASE HostStep
    <2>1. CASE Preflight
      BY <2>1 DEF Preflight, At, Healthy, Serving, KeepContainer, Rest, Stored, To, TypeOK, Scripts,
        ScriptPcs
    <2>2. CASE Stage
      <3>1. dirs' \in Directories
        <4>1. Snapshot(TRUE, FALSE, host.image, host.script) \in Snapshots
          BY SnapshotType DEF TypeOK, HostStates
        <4> QED
          BY <2>2, <4>1 DEF Stage, TypeOK, Directories
      <3>2. up' \in Scripts
        BY <2>2 DEF Stage, To, TypeOK, Scripts, ScriptPcs
      <3> QED
        BY <2>2, <3>1, <3>2 DEF Stage, KeepContainer, Rest, Stored, TypeOK
    <2>3. CASE CopyRuntime
      <3>1. dirs' \in Directories
        <4>1. [dirs.stage EXCEPT !.files = disk.files, !.hash = disk.hash] \in Snapshots
          BY DEF TypeOK, Directories, Snapshots, Disks
        <4>2. dirs' = [dirs EXCEPT !.stage = [dirs.stage EXCEPT !.files = disk.files, !.hash = disk.hash]]
          BY <2>3 DEF CopyRuntime, TypeOK, Directories, Snapshots
        <4> QED
          BY <4>1, <4>2 DEF TypeOK, Directories
      <3>2. up' \in Scripts
        BY <2>3 DEF CopyRuntime, To, TypeOK, Scripts, ScriptPcs
      <3> QED
        BY <2>3, <3>1, <3>2 DEF CopyRuntime, KeepContainer, Rest, Stored, TypeOK
    <2>4. CASE CopyDatabase
      BY <2>4 DEF CopyDatabase, At, KeepContainer, Rest, Stored, To, TypeOK, Directories, Snapshots,
        Scripts, ScriptPcs
    <2>5. CASE StopWriter
      BY <2>5 DEF StopWriter, At, KeepContainer, Rest, Stored, TypeOK, HostStates, Scripts, ScriptPcs
    <2>6. CASE StartWriter
      BY <2>6 DEF StartWriter, At, KeepContainer, Rest, Stored, TypeOK, HostStates, Scripts, ScriptPcs
    <2>7. CASE Seal
      BY <2>7 DEF Seal, At, KeepContainer, Rest, Stored, To, TypeOK, Directories, Snapshots, Scripts,
        ScriptPcs
    <2>8. CASE Keep
      <3>1. dirs' \in Directories
        BY <2>8, NoSnapshotType DEF Keep, TypeOK, Directories
      <3>2. up' \in Scripts
        BY <2>8 DEF Keep, To, TypeOK, Scripts, ScriptPcs
      <3> QED
        BY <2>8, <3>1, <3>2 DEF Keep, KeepContainer, Rest, Stored, TypeOK
    <2>9. CASE Place
      <3>1. dirs' \in Directories
        BY <2>9, NoSnapshotType DEF Place, TypeOK, Directories
      <3>2. up' \in Scripts
        BY <2>9 DEF Place, To, TypeOK, Scripts, ScriptPcs
      <3> QED
        BY <2>9, <3>1, <3>2 DEF Place, KeepContainer, Rest, Stored, TypeOK
    <2>10. CASE Ready
      BY <2>10 DEF Ready, At, KeepContainer, Rest, Stored, TypeOK, Scripts, ScriptPcs
    <2>11. CASE Candidate
      BY <2>11 DEF Candidate, At, Downgrade, KeepContainer, Rest, Stored, To, TypeOK, Scripts, ScriptPcs
    <2>12. CASE InstallScript
      <3>1. host' \in HostStates
        BY <2>12 DEF InstallScript, TypeOK, HostStates, Orders
      <3>2. up' \in Scripts
        BY <2>12 DEF InstallScript, TypeOK, Scripts, ScriptPcs
      <3> QED
        BY <2>12, <3>1, <3>2 DEF InstallScript, KeepContainer, Rest, Stored, TypeOK
    <2>13. CASE Launch
      BY <2>13 DEF Launch, At, KeepContainer, Rest, Stored, TypeOK, Children, Scripts, ScriptPcs
    <2>14. CASE Wait
      BY <2>14 DEF Wait, At, KeepContainer, Rest, Stored, To, TypeOK, Scripts, ScriptPcs
    <2>15. CASE Check
      BY <2>15 DEF Check, At, Healthy, Serving, KeepContainer, Rest, Stored, To, TypeOK, Scripts,
        ScriptPcs
    <2>16. CASE Complete
      <3>1. up' \in Scripts
        BY <2>16 DEF Complete, TypeOK, Scripts, ScriptPcs
      <3>2. /\ UNCHANGED <<db, disk, box, loaded, req, claimed, options, budget>>
            /\ UNCHANGED <<order, host, dirs, child, torn>>
        BY <2>16 DEF Complete, KeepContainer, Rest, Stored
      <3>3. claimed' \in BOOLEAN /\ torn' \in BOOLEAN /\ req' \in [Requests -> RequestPcs]
        BY <3>2 DEF TypeOK
      <3> QED
        BY <3>1, <3>2, <3>3 DEF TypeOK
    <2>17. CASE StopChild
      BY <2>17 DEF StopChild, At, KeepContainer, Rest, Stored, To, TypeOK, Children, Scripts, ScriptPcs
    <2>18. CASE RestartService
      <3>1. host' \in HostStates
        BY <2>18 DEF RestartService, TypeOK, HostStates
      <3>2. up' \in Scripts
        BY <2>18 DEF RestartService, TypeOK, Scripts, ScriptPcs
      <3> QED
        BY <2>18, <3>1, <3>2 DEF RestartService, KeepContainer, Rest, Stored, TypeOK
    <2>19. CASE ToRevert
      BY <2>19 DEF ToRevert, At, KeepContainer, Rest, Stored, To, TypeOK, Scripts, ScriptPcs
    <2>20. CASE ToCleanup
      <3>1. dirs' \in Directories
        BY <2>20, NoSnapshotType DEF ToCleanup, PutBack, TypeOK, Directories
      <3>2. up' \in Scripts
        BY <2>20 DEF ToCleanup, To, TypeOK, Scripts, ScriptPcs
      <3> QED
        BY <2>20, <3>1, <3>2 DEF ToCleanup, KeepContainer, Rest, Stored, TypeOK
    <2>21. CASE Close
      BY <2>21 DEF Close, At, KeepContainer, Rest, Stored, To, TypeOK, HostStates, Scripts, ScriptPcs
    <2>22. CASE Down
      BY <2>22 DEF Down, At, Rest, StopContainer, Forget, Asking, Off, Stored, To, TypeOK, Containers,
        HostStates, RequestPcs, Scripts, ScriptPcs
    <2>23. CASE RestoreRuntime
      <3>1. /\ dirs.lastGood.image \in Nat /\ dirs.lastGood.files \in Files
            /\ dirs.lastGood.hash \in Nat
        BY DEF TypeOK, Directories, Snapshots
      <3>2. disk' \in Disks
        BY <2>23, <3>1 DEF RestoreRuntime, TypeOK, Disks
      <3>3. host' \in HostStates
        BY <2>23, <3>1 DEF RestoreRuntime, TypeOK, HostStates
      <3>4. up' \in Scripts
        BY <2>23 DEF RestoreRuntime, To, TypeOK, Scripts, ScriptPcs
      <3> QED
        BY <2>23, <3>2, <3>3, <3>4 DEF RestoreRuntime, KeepContainer, Rest, TypeOK
    <2>24. CASE RestoreDatabase
      <3>1. db' \in Databases
        BY <2>24 DEF RestoreDatabase, TypeOK, Directories, Snapshots
      <3>2. up' \in Scripts
        BY <2>24 DEF RestoreDatabase, To, TypeOK, Scripts, ScriptPcs
      <3>3. torn' \in BOOLEAN
        BY <2>24 DEF RestoreDatabase
      <3> QED
        BY <2>24, <3>1, <3>2, <3>3 DEF RestoreDatabase, KeepContainer, Rest, TypeOK
    <2>25. CASE RestoreScript
      <3>1. host' \in HostStates
        BY <2>25 DEF RestoreScript, TypeOK, HostStates, Directories, Snapshots
      <3>2. up' \in Scripts
        BY <2>25 DEF RestoreScript, To, TypeOK, Scripts, ScriptPcs
      <3> QED
        BY <2>25, <3>1, <3>2 DEF RestoreScript, KeepContainer, Rest, Stored, TypeOK
    <2>26. CASE RestartAll
      BY <2>26 DEF RestartAll, At, Recreate, Forget, Asking, Started, Off, Rest, Stored, To, TypeOK,
        Containers, HostStates, RequestPcs, Scripts, ScriptPcs
    <2>27. CASE CheckRestored
      <3>1. PICK answers \in {FALSE, Healthy} :
                /\ host' = [host EXCEPT !.open = answers]
                /\ up' = [up EXCEPT !.pc = "cleanup", !.recovered = answers]
        BY <2>27 DEF CheckRestored
      <3>2. answers \in BOOLEAN
        BY <3>1 DEF Healthy, Serving, TypeOK, HostStates
      <3>3. host' \in HostStates
        BY <3>1, <3>2 DEF TypeOK, HostStates
      <3>4. up' \in Scripts
        BY <3>1, <3>2 DEF TypeOK, Scripts, ScriptPcs
      <3> QED
        BY <2>27, <3>3, <3>4 DEF CheckRestored, KeepContainer, Rest, Stored, TypeOK
    <2>28. CASE Cleanup
      <3>1. dirs' \in Directories
        BY <2>28, NoSnapshotType DEF Cleanup, TypeOK, Directories
      <3>2. up' \in Scripts
        BY <2>28 DEF Cleanup, To, TypeOK, Scripts, ScriptPcs
      <3> QED
        BY <2>28, <3>1, <3>2 DEF Cleanup, KeepContainer, Rest, Stored, TypeOK
    <2>29. CASE Interrupted
      BY <2>29 DEF Interrupted, At, KeepContainer, Rest, Stored, Working, TypeOK, Scripts, ScriptPcs
    <2>30. CASE RevertFails
      <3>1. host' \in HostStates /\ host.image \in Nat
        BY <2>30 DEF RevertFails, TypeOK, HostStates
      <3>2. up' \in Scripts
        BY <2>30 DEF RevertFails, To, TypeOK, Scripts, ScriptPcs
      <3>3. box' \in Containers /\ req' \in [Requests -> RequestPcs] /\ claimed' \in BOOLEAN
        <4>1. CASE At("restart")
          BY <2>30, <4>1, <3>1, ContainerType, ForgetType DEF RevertFails, Recreate
        <4>2. CASE ~At("restart")
          BY <2>30, <4>2 DEF RevertFails, KeepContainer, TypeOK
        <4> QED
          BY <4>1, <4>2
      <3> QED
        BY <2>30, <3>1, <3>2, <3>3 DEF RevertFails, Rest, Stored, TypeOK
    <2>31. CASE Killed
      BY <2>31 DEF Killed, KeepContainer, Rest, Stored, To, TypeOK, Scripts, ScriptPcs
    <2>32. CASE Pin
      <3>1. host' \in HostStates
        BY <2>32, DeployedType DEF Pin, TypeOK, HostStates
      <3> QED
        BY <2>32, <3>1 DEF Pin, KeepContainer, Rest, Stored, TypeOK, Children
    <2>33. CASE Pull
      BY <2>33 DEF Pull, KeepContainer, Rest, Stored, TypeOK, Children
    <2>34. CASE Deploy
      <3>1. host' \in HostStates /\ host.image \in Nat
        BY <2>34 DEF Deploy, TypeOK, HostStates
      <3>2. box' \in Containers /\ req' \in [Requests -> RequestPcs] /\ claimed' \in BOOLEAN
        <4>1. box.release \in Nat
          BY DEF TypeOK, Containers
        <4> QED
          BY <2>34, <3>1, <4>1, ContainerType, ForgetType DEF Deploy, Recreate, StopContainer
      <3>3. child' \in Children
        BY <2>34 DEF Deploy, Children
      <3> QED
        BY <2>34, <3>1, <3>2, <3>3 DEF Deploy, Rest, Stored, TypeOK
    <2>35. CASE Deadline
      BY <2>35 DEF Deadline, ChildRuns, KeepContainer, Rest, Stored, TypeOK, Children
    <2>36. QED
      BY <1>2, <2>1, <2>2, <2>3, <2>4, <2>5, <2>6, <2>7, <2>8, <2>9, <2>10, <2>11, <2>12, <2>13, <2>14,
        <2>15, <2>16, <2>17, <2>18, <2>19, <2>20, <2>21, <2>22, <2>23, <2>24, <2>25, <2>26, <2>27,
        <2>28, <2>29, <2>30, <2>31, <2>32, <2>33, <2>34, <2>35 DEF HostStep, UpdaterStep
  <1>3. CASE UNCHANGED vars
    BY <1>3 DEF vars, startVars, TypeOK
  <1>4. QED
    BY <1>1, <1>2, <1>3 DEF Next

\* The types hold in every state.
THEOREM UpdateTypeCorrect == Spec => []TypeOK
  <1>1. TypeOK /\ [Next]_vars => TypeOK'
    BY TypeNext
  <1> QED
    BY TypeInit, <1>1, PTL DEF Spec

-----------------------------------------------------------------------------
(* Who runs.                                                                *)

\* The container itself keeps its release, and is neither made nor taken down.
LEMMA BoxStep ==
    ASSUME TypeOK, ContainerNext
    PROVE  box'.release = box.release /\ (box'.pc = "off" <=> box.pc = "off")
  <1>1. CASE Begin
    BY <1>1 DEF Begin, Changed, NoFiles, NoFile, TypeOK, Containers
  <1>2. CASE Migrate
    BY <1>2 DEF Migrate, TypeOK, Containers
  <1>3. CASE DefaultUser
    BY <1>3 DEF DefaultUser, IsSetup, TypeOK, Containers
  <1>4. CASE DropToken
    BY <1>4 DEF DropToken, TokenDropped, TypeOK, Containers
  <1>5. CASE EnsureSetupToken \/ CreateToken \/ WriteToken
    BY <1>5 DEF EnsureSetupToken, CreateToken, WriteToken, ToHosts, TypeOK, Containers
  <1>6. ASSUME NEW h \in Hosts, Regenerate(h)
       PROVE  box'.release = box.release /\ (box'.pc = "off" <=> box.pc = "off")
    BY <1>6 DEF Regenerate, Rendered, TypeOK, Containers
  <1>7. CASE WriteHash
    BY <1>7 DEF WriteHash, TypeOK, Containers
  <1>8. CASE Load
    BY <1>8 DEF Load, TypeOK, Containers
  <1>9. ASSUME NEW r \in Requests, Ask(r)
       PROVE  box'.release = box.release /\ (box'.pc = "off" <=> box.pc = "off")
    BY <1>9 DEF Ask, Goto, IsSetup, Serving, TypeOK, Containers
  <1>10. ASSUME NEW r \in Requests, Claim(r)
        PROVE  box'.release = box.release /\ (box'.pc = "off" <=> box.pc = "off")
    BY <1>10 DEF Claim, Goto, TypeOK, Containers
  <1>11. ASSUME NEW r \in Requests, Recheck(r)
        PROVE  box'.release = box.release /\ (box'.pc = "off" <=> box.pc = "off")
    BY <1>11 DEF Recheck, Answer, Goto, IsSetup, TypeOK, Containers
  <1>12. ASSUME NEW r \in Requests, Verify(r)
        PROVE  box'.release = box.release /\ (box'.pc = "off" <=> box.pc = "off")
    BY <1>12 DEF Verify, Answer, Goto, TokenExpected, TypeOK, Containers
  <1>13. ASSUME NEW r \in Requests, CreateUser(r)
        PROVE  box'.release = box.release /\ (box'.pc = "off" <=> box.pc = "off")
    BY <1>13 DEF CreateUser, Goto, TypeOK, Containers
  <1>14. ASSUME NEW r \in Requests, Unlink(r)
        PROVE  box'.release = box.release /\ (box'.pc = "off" <=> box.pc = "off")
    BY <1>14 DEF Unlink, Answer, Goto, TokenDropped, TypeOK, Containers
  <1>15. ASSUME NEW h \in Hosts, SaveHost(h)
        PROVE  box'.release = box.release /\ (box'.pc = "off" <=> box.pc = "off")
    BY <1>15 DEF SaveHost, Rendered, Serving, Spend, TypeOK, Containers
  <1>16. CASE BootFault
    BY <1>16 DEF BootFault, Booting, Spend, TypeOK, Containers
  <1>17. CASE BackendCrash
    BY <1>17 DEF BackendCrash, Booting, Forget, Asking, Serving, Spend, TypeOK, Containers
  <1>18. CASE ContainerRestart
    BY <1>18 DEF ContainerRestart, Forget, Asking, Spend, Started, Off, TypeOK, Containers
  <1>19. ASSUME NEW r \in Requests, SetupFault(r)
        PROVE  box'.release = box.release /\ (box'.pc = "off" <=> box.pc = "off")
    BY <1>19 DEF SetupFault, Goto, Spend, TypeOK, Containers
  <1>20. QED
    BY <1>1, <1>2, <1>3, <1>4, <1>5, <1>6, <1>7, <1>8, <1>9, <1>10, <1>11, <1>12, <1>13, <1>14, <1>15,
      <1>16, <1>17, <1>18, <1>19 DEF ContainerNext, BootStep, SetupStep, Mishap

\* Each step keeps the control invariant.
LEMMA ControlNext ==
    ASSUME TypeOK, ControlInv, [Next]_vars
    PROVE  ControlInv'
  <1> USE DEF ControlInv, Undeployed, Before, Emptied, ChildRuns, Deployed
  <1>1. CASE ContainerNext /\ UNCHANGED <<host, dirs, up, child, order, torn>>
    BY <1>1, BoxStep
  <1>2. CASE HostStep
    <2>1. CASE Preflight
      BY <2>1 DEF Preflight, At, Healthy, Serving, KeepContainer, Rest, Stored, To, TypeOK, Scripts
    <2>2. CASE Stage
      BY <2>2 DEF Stage, At, KeepContainer, Rest, Snapshot, NoFiles, NoFile, Stored, To, TypeOK, Scripts
    <2>3. CASE CopyRuntime
      BY <2>3 DEF CopyRuntime, At, KeepContainer, Rest, Stored, To, TypeOK, Scripts
    <2>4. CASE CopyDatabase
      BY <2>4 DEF CopyDatabase, At, KeepContainer, Rest, Stored, To, TypeOK, Scripts
    <2>5. CASE StopWriter
      BY <2>5 DEF StopWriter, At, KeepContainer, Rest, Stored, TypeOK, Scripts
    <2>6. CASE StartWriter
      BY <2>6 DEF StartWriter, At, KeepContainer, Rest, Stored, TypeOK, Scripts
    <2>7. CASE Seal
      BY <2>7 DEF Seal, At, KeepContainer, Rest, Stored, To, TypeOK, Scripts
    <2>8. CASE Keep
      BY <2>8 DEF Keep, At, KeepContainer, NoSnapshot, Snapshot, NoFiles, NoFile, Rest, Stored, To,
        TypeOK, Scripts
    <2>9. CASE Place
      BY <2>9 DEF Place, At, KeepContainer, NoSnapshot, Snapshot, NoFiles, NoFile, Rest, Stored, To,
        TypeOK, Scripts
    <2>10. CASE Ready
      BY <2>10 DEF Ready, At, KeepContainer, Rest, Stored, TypeOK, Scripts
    <2>11. CASE Candidate
      BY <2>11 DEF Candidate, At, Downgrade, KeepContainer, Rest, Stored, To, TypeOK, Scripts
    <2>12. CASE InstallScript
      BY <2>12 DEF InstallScript, At, KeepContainer, Rest, Stored, TypeOK, Scripts
    <2>13. CASE Launch
      BY <2>13 DEF Launch, At, KeepContainer, Rest, Stored, TypeOK, Scripts
    <2>14. CASE Wait
      BY <2>14 DEF Wait, At, KeepContainer, Rest, Stored, To, TypeOK, Scripts
    <2>15. CASE Check
      BY <2>15 DEF Check, At, Healthy, Serving, KeepContainer, Rest, Stored, To, TypeOK, Scripts
    <2>16. CASE Complete
      BY <2>16 DEF Complete, At, KeepContainer, Rest, Stored, TypeOK, Scripts
    <2>17. CASE StopChild
      BY <2>17 DEF StopChild, At, KeepContainer, Rest, Stored, To, TypeOK, Scripts
    <2>18. CASE RestartService
      BY <2>18 DEF RestartService, At, KeepContainer, Rest, Stored, TypeOK, Scripts
    <2>19. CASE ToRevert
      BY <2>19 DEF ToRevert, At, KeepContainer, Rest, Stored, To, TypeOK, Scripts
    <2>20. CASE ToCleanup
      BY <2>20 DEF ToCleanup, At, KeepContainer, PutBack, NoSnapshot, Snapshot, NoFiles, NoFile, Rest,
        Stored, To, TypeOK, Scripts
    <2>21. CASE Close
      BY <2>21 DEF Close, At, KeepContainer, Rest, Stored, To, TypeOK, Scripts
    <2>22. CASE Down
      BY <2>22 DEF Down, At, Rest, StopContainer, Forget, Asking, Off, Stored, To, TypeOK, Scripts
    <2>23. CASE RestoreRuntime
      BY <2>23 DEF RestoreRuntime, At, KeepContainer, Rest, To, TypeOK, Scripts
    <2>24. CASE RestoreDatabase
      BY <2>24 DEF RestoreDatabase, At, KeepContainer, Rendered, Rest, To, TypeOK, Scripts
    <2>25. CASE RestoreScript
      BY <2>25 DEF RestoreScript, At, KeepContainer, Rest, Stored, To, TypeOK, Scripts
    <2>26. CASE RestartAll
      BY <2>26 DEF RestartAll, At, Recreate, Forget, Asking, Started, Off, Rest, Stored, To, TypeOK,
        Scripts
    <2>27. CASE CheckRestored
      BY <2>27 DEF CheckRestored, At, Healthy, Serving, KeepContainer, Rest, Stored, TypeOK, Scripts
    <2>28. CASE Cleanup
      BY <2>28 DEF Cleanup, At, KeepContainer, NoSnapshot, Snapshot, NoFiles, NoFile, Rest, Stored, To,
        TypeOK, Scripts
    <2>29. CASE Interrupted
      BY <2>29 DEF Interrupted, At, KeepContainer, Rest, Stored, Working, TypeOK, Scripts
    <2>30. CASE RevertFails
      BY <2>30 DEF RevertFails, At, KeepContainer, Recreate, Forget, Asking, Started, Off, Rest, Stored,
        To, TypeOK, Scripts
    <2>31. CASE Killed
      BY <2>31 DEF Killed, KeepContainer, Rest, Stored, To, TypeOK, Scripts
    <2>32. CASE Pin
      BY <2>32 DEF Pin, Deployed, KeepContainer, Rest, Stored, TypeOK, Scripts, HostStates, Deployed
    <2>33. CASE Pull
      BY <2>33 DEF Pull, KeepContainer, Rest, Stored, TypeOK, Scripts
    <2>34. CASE Deploy
      BY <2>34 DEF Deploy, Recreate, Forget, Asking, Started, Off, Rest, StopContainer, Stored, TypeOK,
        Scripts
    <2>35. CASE Deadline
      BY <2>35 DEF Deadline, ChildRuns, KeepContainer, Rest, Stored, TypeOK, Scripts
    <2>36. QED
      BY <1>2, <2>1, <2>2, <2>3, <2>4, <2>5, <2>6, <2>7, <2>8, <2>9, <2>10, <2>11, <2>12, <2>13, <2>14,
        <2>15, <2>16, <2>17, <2>18, <2>19, <2>20, <2>21, <2>22, <2>23, <2>24, <2>25, <2>26, <2>27,
        <2>28, <2>29, <2>30, <2>31, <2>32, <2>33, <2>34, <2>35 DEF HostStep, UpdaterStep
  <1>3. CASE UNCHANGED vars
    BY <1>3 DEF vars, startVars
  <1>4. QED
    BY <1>1, <1>2, <1>3 DEF Next

\* Before the update no deployment runs.
LEMMA ControlInit == Init => ControlInv
  <1> SUFFICES ASSUME Init
               PROVE  ControlInv
    OBVIOUS
  <1>1. PICK s \in Scenes :
            /\ box = [Off(Installed) EXCEPT !.pc = s.start]
            /\ up = [pc |-> IF s.update THEN "idle" ELSE "none", ready |-> FALSE, started |-> FALSE,
                     complete |-> FALSE, stopped |-> FALSE, recovered |-> FALSE]
            /\ child = "none"
    BY DEF Init, InitScene
  <1>2. /\ up.pc \in {"idle", "none"} /\ child = "none"
        /\ box.release = Installed /\ box.pc \in {"begin", "serving"}
    BY <1>1, SceneAssumption DEF Off
  <1> QED
    BY <1>2 DEF ControlInv, Undeployed, Before, Emptied, ChildRuns

-----------------------------------------------------------------------------
(* The snapshots.                                                           *)

\* Before the update there is at most the older snapshot.
LEMMA SnapshotInit == Init => SnapshotInv
  <1> SUFFICES ASSUME Init
               PROVE  SnapshotInv
    OBVIOUS
  <1>1. PICK s \in Scenes :
            /\ dirs = [stage |-> NoSnapshot, previous |-> NoSnapshot,
                       lastGood |-> Snapshot(s.older, s.older, 0, 0)]
            /\ up = [pc |-> IF s.update THEN "idle" ELSE "none", ready |-> FALSE, started |-> FALSE,
                     complete |-> FALSE, stopped |-> FALSE, recovered |-> FALSE]
            /\ order = [candidate |-> s.candidate, force |-> s.force, kill |-> s.kill,
                        older |-> s.older]
    BY DEF Init, InitScene
  <1>2. /\ ~dirs.previous.exists /\ dirs.lastGood.exists = s.older /\ dirs.lastGood.complete = s.older
        /\ order.older = s.older
    BY <1>1 DEF NoSnapshot, Snapshot
  <1>3. up.pc \in {"idle", "none"} /\ ~up.ready /\ ~up.started /\ ~up.complete /\ ~up.recovered
    BY <1>1
  <1> QED
    BY <1>2, <1>3 DEF SnapshotInv, Rollback

\* Each step keeps the snapshots where the script looks for them.
LEMMA SnapshotNext ==
    ASSUME TypeOK, SnapshotInv, [Next]_vars
    PROVE  SnapshotInv'
  <1> USE DEF SnapshotInv, Rollback
  <1>1. CASE ContainerNext /\ UNCHANGED <<host, dirs, up, child, order, torn>>
    <2>1. dirs' = dirs /\ up' = up /\ order' = order
      BY <1>1
    <2> QED
      BY <2>1, ZenonT(30)
  <1>2. CASE HostStep
    <2>1. CASE Preflight
      BY <2>1 DEF Preflight, At, Healthy, Serving, KeepContainer, Rest, Stored, To, TypeOK, Scripts
    <2>2. CASE Stage
      BY <2>2 DEF Stage, At, KeepContainer, Rest, Snapshot, NoFiles, NoFile, Stored, To, TypeOK,
        Scripts, Directories, Snapshots, NoSnapshot, Snapshot
    <2>3. CASE CopyRuntime
      BY <2>3 DEF CopyRuntime, At, KeepContainer, Rest, Stored, To, TypeOK, Scripts, Directories,
        Snapshots, NoSnapshot, Snapshot
    <2>4. CASE CopyDatabase
      BY <2>4 DEF CopyDatabase, At, KeepContainer, Rest, Stored, To, TypeOK, Scripts, Directories,
        Snapshots, NoSnapshot, Snapshot
    <2>5. CASE StopWriter
      BY <2>5 DEF StopWriter, At, KeepContainer, Rest, Stored, TypeOK, Scripts
    <2>6. CASE StartWriter
      BY <2>6 DEF StartWriter, At, KeepContainer, Rest, Stored, TypeOK, Scripts
    <2>7. CASE Seal
      BY <2>7 DEF Seal, At, KeepContainer, Rest, Stored, To, TypeOK, Scripts, Directories, Snapshots,
        NoSnapshot, Snapshot
    <2>8. CASE Keep
      <3>1. /\ dirs'.previous = dirs.lastGood /\ dirs'.lastGood = NoSnapshot
            /\ dirs'.stage = dirs.stage
        BY <2>8 DEF Keep, TypeOK, Directories
      <3>2. ~NoSnapshot.exists
        BY DEF NoSnapshot, Snapshot
      <3>3. up'.pc = "place" /\ up' = [up EXCEPT !.pc = "place"] /\ up.pc = "keep" /\ order' = order
        BY <2>8 DEF Keep, At, To, Rest, TypeOK, Scripts
      <3>4. up'.ready = up.ready /\ up'.started = up.started /\ up'.complete = up.complete
            /\ up'.recovered = up.recovered
        BY <3>3 DEF TypeOK, Scripts
      <3>5. ~up.ready /\ ~up.started /\ ~up.complete /\ ~up.recovered
        BY <3>3
      <3> QED
        BY <3>1, <3>2, <3>3, <3>4, <3>5
    <2>9. CASE Place
      BY <2>9 DEF Place, At, KeepContainer, NoSnapshot, Snapshot, NoFiles, NoFile, Rest, Stored, To,
        TypeOK, Scripts, Directories, Snapshots, NoSnapshot, Snapshot
    <2>10. CASE Ready
      BY <2>10 DEF Ready, At, KeepContainer, Rest, Stored, TypeOK, Scripts
    <2>11. CASE Candidate
      BY <2>11 DEF Candidate, At, Downgrade, KeepContainer, Rest, Stored, To, TypeOK, Scripts
    <2>12. CASE InstallScript
      BY <2>12 DEF InstallScript, At, KeepContainer, Rest, Stored, TypeOK, Scripts
    <2>13. CASE Launch
      BY <2>13 DEF Launch, At, KeepContainer, Rest, Stored, TypeOK, Scripts
    <2>14. CASE Wait
      BY <2>14 DEF Wait, At, KeepContainer, Rest, Stored, To, TypeOK, Scripts
    <2>15. CASE Check
      BY <2>15 DEF Check, At, Healthy, Serving, KeepContainer, Rest, Stored, To, TypeOK, Scripts
    <2>16. CASE Complete
      BY <2>16 DEF Complete, At, KeepContainer, Rest, Stored, TypeOK, Scripts
    <2>17. CASE StopChild
      BY <2>17 DEF StopChild, At, KeepContainer, Rest, Stored, To, TypeOK, Scripts
    <2>18. CASE RestartService
      BY <2>18 DEF RestartService, At, KeepContainer, Rest, Stored, TypeOK, Scripts
    <2>19. CASE ToRevert
      BY <2>19 DEF ToRevert, At, KeepContainer, Rest, Stored, To, TypeOK, Scripts
    <2>20. CASE ToCleanup
      BY <2>20 DEF ToCleanup, At, KeepContainer, PutBack, NoSnapshot, Snapshot, NoFiles, NoFile, Rest,
        Stored, To, TypeOK, Scripts, Directories, Snapshots, NoSnapshot, Snapshot
    <2>21. CASE Close
      BY <2>21 DEF Close, At, KeepContainer, Rest, Stored, To, TypeOK, Scripts
    <2>22. CASE Down
      BY <2>22 DEF Down, At, Rest, StopContainer, Forget, Asking, Off, Stored, To, TypeOK, Scripts
    <2>23. CASE RestoreRuntime
      BY <2>23 DEF RestoreRuntime, At, KeepContainer, Rest, To, TypeOK, Scripts
    <2>24. CASE RestoreDatabase
      BY <2>24 DEF RestoreDatabase, At, KeepContainer, Rendered, Rest, To, TypeOK, Scripts
    <2>25. CASE RestoreScript
      BY <2>25 DEF RestoreScript, At, KeepContainer, Rest, Stored, To, TypeOK, Scripts
    <2>26. CASE RestartAll
      BY <2>26 DEF RestartAll, At, Recreate, Forget, Asking, Started, Off, Rest, Stored, To, TypeOK,
        Scripts
    <2>27. CASE CheckRestored
      BY <2>27 DEF CheckRestored, At, Healthy, Serving, KeepContainer, Rest, Stored, TypeOK, Scripts
    <2>28. CASE Cleanup
      BY <2>28 DEF Cleanup, At, KeepContainer, NoSnapshot, Snapshot, NoFiles, NoFile, Rest, Stored, To,
        TypeOK, Scripts, Directories, Snapshots, NoSnapshot, Snapshot
    <2>29. CASE Interrupted
      BY <2>29 DEF Interrupted, At, KeepContainer, Rest, Stored, Working, TypeOK, Scripts
    <2>30. CASE RevertFails
      BY <2>30 DEF RevertFails, At, KeepContainer, Recreate, Forget, Asking, Started, Off, Rest, Stored,
        To, TypeOK, Scripts
    <2>31. CASE Killed
      BY <2>31 DEF Killed, KeepContainer, Rest, Stored, To, TypeOK, Scripts
    <2>32. CASE Pin
      BY <2>32 DEF Pin, Deployed, KeepContainer, Rest, Stored, TypeOK, Scripts
    <2>33. CASE Pull
      BY <2>33 DEF Pull, KeepContainer, Rest, Stored, TypeOK, Scripts
    <2>34. CASE Deploy
      BY <2>34 DEF Deploy, Recreate, Forget, Asking, Started, Off, Rest, StopContainer, Stored, TypeOK,
        Scripts
    <2>35. CASE Deadline
      BY <2>35 DEF Deadline, ChildRuns, KeepContainer, Rest, Stored, TypeOK, Scripts
    <2>36. QED
      BY <1>2, <2>1, <2>2, <2>3, <2>4, <2>5, <2>6, <2>7, <2>8, <2>9, <2>10, <2>11, <2>12, <2>13, <2>14,
        <2>15, <2>16, <2>17, <2>18, <2>19, <2>20, <2>21, <2>22, <2>23, <2>24, <2>25, <2>26, <2>27,
        <2>28, <2>29, <2>30, <2>31, <2>32, <2>33, <2>34, <2>35 DEF HostStep, UpdaterStep
  <1>3. CASE UNCHANGED vars
    BY <1>3 DEF vars, startVars
  <1>4. QED
    BY <1>1, <1>2, <1>3 DEF Next

-----------------------------------------------------------------------------
(* The first administrator.                                                 *)

\* No request is asking once its process is gone.
LEMMA Forgotten ==
    ASSUME TypeOK, Forget
    PROVE  ~claimed' /\ \A r \in Requests : ~Asking(r)' /\ ~Holds(r)'
  BY DEF TypeOK, RequestPcs, Forget, Asking, Holds

\* No request has claimed the setup yet.
LEMMA SetupInit == Init => SetupInv
  <1> SUFFICES ASSUME Init
               PROVE  SetupInv
    OBVIOUS
  <1>1. PICK s \in Scenes :
            /\ box = [Off(Installed) EXCEPT !.pc = s.start]
            /\ db = [schema |-> Installed, content |-> [h \in Hosts |-> 1], admins |-> s.admins]
            /\ disk = [hash |-> s.hash,
                       token |-> IF s.start = "serving" /\ s.admins = 0 /\ s.managed
                                 THEN "whole" ELSE "none",
                       files |-> Rendered(db, Installed)]
            /\ claimed = FALSE
            /\ req = [r \in Requests |-> IF r <= s.requests THEN "todo" ELSE "done"]
            /\ options = [managed |-> s.managed, admin |-> s.admin]
            /\ dirs = [stage |-> NoSnapshot, previous |-> NoSnapshot,
                       lastGood |-> Snapshot(s.older, s.older, 0, 0)]
    BY DEF Init, InitScene
  <1>2. s.start \in {"begin", "serving"} /\ s.admins \in {0, 1}
    BY SceneAssumption
  <1>3. box.pc = s.start /\ db.admins = s.admins /\ options.managed = s.managed
    BY <1>1 DEF Off
  <1>4. \A r \in Requests : ~Asking(r) /\ ~Holds(r)
    BY <1>1 DEF Asking, Holds
  <1>5. \A r \in Requests : req[r] \notin {"verify", "create", "unlink"}
    BY <1>4 DEF Asking
  <1>6. dirs.stage.db.admins = 0 /\ dirs.previous.db.admins = 0 /\ dirs.lastGood.db.admins = 0
    BY <1>1 DEF NoSnapshot, Snapshot
  <1>7. box.pc = "serving" /\ db.admins = 0 => disk.token # "none" \/ ~options.managed
    BY <1>1, <1>3
  <1> QED
    BY <1>2, <1>3, <1>4, <1>5, <1>6, <1>7 DEF SetupInv

\* Each step keeps the claim with one request.
LEMMA SetupNext ==
    ASSUME TypeOK, ControlInv, SetupInv, [Next]_vars
    PROVE  SetupInv'
  <1> USE DEF SetupInv, Asking, Holds, Serving
  <1>1. CASE ContainerNext /\ UNCHANGED <<host, dirs, up, child, order, torn>>
    <2>1. CASE Begin
      BY <2>1, <1>1 DEF Begin, Changed, NoFiles, NoFile, TypeOK, Containers, Disks
    <2>2. CASE Migrate
      BY <2>2, <1>1 DEF Migrate, TypeOK, Containers, Databases
    <2>3. CASE DefaultUser
      BY <2>3, <1>1 DEF DefaultUser, IsSetup, TypeOK, Containers, Databases
    <2>4. CASE DropToken
      BY <2>4, <1>1 DEF DropToken, TokenDropped, TypeOK, Containers, Disks
    <2>5. CASE EnsureSetupToken \/ CreateToken \/ WriteToken
      BY <2>5, <1>1 DEF EnsureSetupToken, CreateToken, WriteToken, ToHosts, TokenMissing, IsSetup,
        TokenDropped, TypeOK, Containers, Disks
    <2>6. ASSUME NEW h \in Hosts, Regenerate(h) PROVE SetupInv'
      BY <2>6, <1>1 DEF Regenerate, Rendered, TypeOK, Containers, Disks
    <2>7. CASE WriteHash
      BY <2>7, <1>1 DEF WriteHash, TypeOK, Containers, Disks
    <2>8. CASE Load
      BY <2>8, <1>1 DEF Load, TypeOK, Containers
    <2>9. ASSUME NEW r \in Requests, Ask(r) PROVE SetupInv'
      BY <2>9, <1>1 DEF Ask, Goto, IsSetup, Serving, TypeOK, RequestPcs
    <2>10. ASSUME NEW r \in Requests, Claim(r) PROVE SetupInv'
      BY <2>10, <1>1 DEF Claim, Goto, TypeOK, RequestPcs
    <2>11. ASSUME NEW r \in Requests, Recheck(r) PROVE SetupInv'
      BY <2>11, <1>1 DEF Recheck, Answer, Goto, IsSetup, TypeOK, RequestPcs, Databases
    <2>12. ASSUME NEW r \in Requests, Verify(r) PROVE SetupInv'
      BY <2>12, <1>1 DEF Verify, Answer, Goto, TokenExpected, TypeOK, RequestPcs
    <2>13. ASSUME NEW r \in Requests, CreateUser(r) PROVE SetupInv'
      BY <2>13, <1>1 DEF CreateUser, Goto, TypeOK, RequestPcs, Databases
    <2>14. ASSUME NEW r \in Requests, Unlink(r) PROVE SetupInv'
      BY <2>14, <1>1 DEF Unlink, Answer, Goto, TokenDropped, TypeOK, RequestPcs, Disks
    <2>15. ASSUME NEW h \in Hosts, SaveHost(h) PROVE SetupInv'
      BY <2>15, <1>1 DEF SaveHost, Rendered, Serving, Spend, TypeOK, Databases, Disks
    <2>16. CASE BootFault
      BY <2>16, <1>1 DEF BootFault, Booting, Spend, TypeOK, Containers
    <2>17. CASE BackendCrash
      BY <2>17, <1>1 DEF BackendCrash, Booting, Forget, Asking, Serving, Spend, TypeOK, Containers,
        RequestPcs
    <2>18. CASE ContainerRestart
      BY <2>18, <1>1 DEF ContainerRestart, Forget, Asking, Spend, Started, Off, TypeOK, Containers,
        RequestPcs
    <2>19. ASSUME NEW r \in Requests, SetupFault(r) PROVE SetupInv'
      BY <2>19, <1>1 DEF SetupFault, Goto, Spend, TypeOK, RequestPcs
    <2>20. QED
      BY <1>1, <2>1, <2>2, <2>3, <2>4, <2>5, <2>6, <2>7, <2>8, <2>9, <2>10, <2>11, <2>12, <2>13, <2>14,
        <2>15, <2>16, <2>17, <2>18, <2>19 DEF ContainerNext, BootStep, SetupStep, Mishap
  <1>2. CASE HostStep
    <2>1. CASE Preflight \/ StopWriter \/ StartWriter \/ Ready \/ Candidate \/ InstallScript \/ Launch
      \/ Wait \/ Check \/ Complete \/ StopChild \/ RestartService \/ ToRevert \/ Close \/ RestoreScript
      \/ CheckRestored \/ Interrupted \/ Killed \/ Pin \/ Pull \/ Deadline
      BY <2>1 DEF Preflight, StopWriter, StartWriter, Ready, Candidate, InstallScript, Launch, Wait,
        Check, Complete, StopChild, RestartService, ToRevert, Close, RestoreScript, CheckRestored,
        Interrupted, Killed, Pin, Pull, Deadline, KeepContainer, Stored, Rest
    <2>2. CASE Stage
      BY <2>2 DEF Stage, At, KeepContainer, Rest, Snapshot, NoFiles, NoFile, Stored, To, TypeOK,
        Directories, Snapshots
    <2>3. CASE CopyRuntime
      BY <2>3 DEF CopyRuntime, At, KeepContainer, Rest, Stored, To, TypeOK, Directories, Snapshots
    <2>4. CASE CopyDatabase
      BY <2>4 DEF CopyDatabase, At, KeepContainer, Rest, Stored, To, TypeOK, Directories, Snapshots
    <2>5. CASE Seal
      BY <2>5 DEF Seal, At, KeepContainer, Rest, Stored, To, TypeOK, Directories, Snapshots
    <2>6. CASE Keep
      BY <2>6 DEF Keep, At, KeepContainer, NoSnapshot, Snapshot, NoFiles, NoFile, Rest, Stored, To,
        TypeOK, Directories, Snapshots
    <2>7. CASE Place
      BY <2>7 DEF Place, At, KeepContainer, NoSnapshot, Snapshot, NoFiles, NoFile, Rest, Stored, To,
        TypeOK, Directories, Snapshots
    <2>8. CASE ToCleanup
      BY <2>8 DEF ToCleanup, At, KeepContainer, PutBack, NoSnapshot, Snapshot, NoFiles, NoFile, Rest,
        Stored, To, TypeOK, Directories, Snapshots
    <2>9. CASE Down
      BY <2>9 DEF Down, At, Rest, StopContainer, Forget, Asking, Off, Stored, To, TypeOK, Containers,
        RequestPcs
    <2>10. CASE RestoreRuntime
      BY <2>10 DEF RestoreRuntime, At, KeepContainer, Rest, To, TypeOK, Disks
    <2>11. CASE RestoreDatabase
      <3>1. /\ box' = box /\ req' = req /\ disk' = disk /\ dirs' = dirs /\ options' = options
            /\ db' = dirs.lastGood.db /\ claimed' = claimed
        BY <2>11 DEF RestoreDatabase, KeepContainer, Rest
      <3>2. box.pc = "off"
        BY <2>11 DEF RestoreDatabase, At, ControlInv, Emptied
      <3>3. \A r \in Requests : ~Asking(r) /\ ~Holds(r)
        BY <3>2
      <3>4. \A r \in Requests : req[r] \notin {"verify", "create", "unlink"}
        BY <3>3
      <3> QED
        BY <3>1, <3>2, <3>3, <3>4
    <2>12. CASE RestartAll
      BY <2>12 DEF RestartAll, At, Recreate, Forget, Asking, Started, Off, Rest, Stored, To, TypeOK,
        Containers, RequestPcs
    <2>13. CASE Cleanup
      BY <2>13 DEF Cleanup, At, KeepContainer, NoSnapshot, Snapshot, NoFiles, NoFile, Rest, Stored, To,
        TypeOK, Directories, Snapshots
    <2>14. CASE RevertFails
      BY <2>14 DEF RevertFails, At, KeepContainer, Recreate, Forget, Asking, Started, Off, Rest, Stored,
        To, TypeOK, Containers, RequestPcs
    <2>15. CASE Deploy
      BY <2>15 DEF Deploy, Recreate, Forget, Asking, Started, Off, Rest, StopContainer, Stored, TypeOK,
        Containers, RequestPcs
    <2>16. QED
      BY <1>2, <2>1, <2>2, <2>3, <2>4, <2>5, <2>6, <2>7, <2>8, <2>9, <2>10, <2>11, <2>12, <2>13, <2>14,
        <2>15 DEF HostStep, UpdaterStep
  <1>3. CASE UNCHANGED vars
    BY <1>3 DEF vars, startVars
  <1>4. QED
    BY <1>1, <1>2, <1>3 DEF Next

-----------------------------------------------------------------------------
(* The generated files.                                                     *)

\* What is rendered depends on the content of the hosts only.
LEMMA Alike ==
    ASSUME NEW c, NEW d, c.content = d.content
    PROVE  \A release : Rendered(c, release) = Rendered(d, release)
  BY DEF Rendered

\* The installation that is updated has the files of its release.
LEMMA FilesInit == Init => FilesInv
  <1> SUFFICES ASSUME Init
               PROVE  FilesInv
    OBVIOUS
  <1>1. PICK s \in Scenes :
            /\ box = [Off(Installed) EXCEPT !.pc = s.start]
            /\ disk = [hash |-> s.hash,
                       token |-> IF s.start = "serving" /\ s.admins = 0 /\ s.managed
                                 THEN "whole" ELSE "none",
                       files |-> Rendered(db, Installed)]
            /\ loaded = disk.files
            /\ up = [pc |-> IF s.update THEN "idle" ELSE "none", ready |-> FALSE, started |-> FALSE,
                     complete |-> FALSE, stopped |-> FALSE, recovered |-> FALSE]
    BY DEF Init, InitScene
  <1>2. s.start \in {"begin", "serving"} /\ s.hash \in {0, Installed}
        /\ (s.start = "serving" => s.hash = Installed)
    BY SceneAssumption
  <1>3. box.pc = s.start /\ box.release = Installed /\ disk.hash = s.hash
    BY <1>1 DEF Off
  <1>4. disk.files = Rendered(db, Installed) /\ up.pc \in {"idle", "none"}
    BY <1>1
  <1> QED
    BY <1>1, <1>2, <1>3, <1>4 DEF FilesInv, Matches, Serving

\* Each step keeps the fingerprint and the files together.
LEMMA FilesNext ==
    ASSUME TypeOK, ControlInv, FilesInv, [Next]_vars
    PROVE  FilesInv'
  <1> USE DEF FilesInv, Matches, Serving, Undeployed, Before, ChildRuns
  <1>1. CASE ContainerNext /\ UNCHANGED <<host, dirs, up, child, order, torn>>
    <2>1. CASE Begin
      <3>1. /\ box.pc = "begin" /\ box'.pc = "migrate" /\ box'.release = box.release
            /\ (box'.regenerate <=> disk.hash # box.release)
            /\ disk'.hash = disk.hash /\ (disk.hash = box.release => disk' = disk) /\ db' = db
        BY <2>1 DEF Begin, Changed, TypeOK, Containers, Disks
      <3>2. up' = up /\ child' = child /\ torn' = torn
        BY <1>1
      <3>3. up.pc \notin {"restoreScript", "restart"}
        BY <3>1 DEF ControlInv, Emptied
      <3> QED
        BY <3>1, <3>2, <3>3
    <2>2. CASE Migrate
      <3>1. /\ box.pc = "migrate" /\ box'.pc = "user" /\ box'.release = box.release
            /\ (box'.regenerate <=> box.regenerate)
            /\ disk' = disk /\ db'.content = db.content
        BY <2>2 DEF Migrate, TypeOK, Containers, Databases
      <3>2. up' = up /\ child' = child /\ torn' = torn
        BY <1>1
      <3>3. up.pc \notin {"restoreScript", "restart"}
        BY <3>1 DEF ControlInv, Emptied
      <3>4. Rendered(db', disk.hash) = Rendered(db, disk.hash)
        BY <3>1, Alike
      <3> QED
        BY <3>1, <3>2, <3>3, <3>4
    <2>3. CASE DefaultUser
      <3>1. /\ box.pc = "user" /\ box'.pc \in {"drop", "token"} /\ box'.release = box.release
            /\ (box'.regenerate <=> box.regenerate)
            /\ disk' = disk /\ db'.content = db.content
        BY <2>3 DEF DefaultUser, TypeOK, Containers, Databases
      <3>2. up' = up /\ child' = child /\ torn' = torn
        BY <1>1
      <3>3. up.pc \notin {"restoreScript", "restart"}
        BY <3>1 DEF ControlInv, Emptied
      <3>4. Rendered(db', disk.hash) = Rendered(db, disk.hash)
        BY <3>1, Alike
      <3> QED
        BY <3>1, <3>2, <3>3, <3>4
    <2>4. CASE DropToken
      BY <2>4, <1>1 DEF DropToken, TokenDropped, TypeOK, Containers, Disks
    <2>5. CASE EnsureSetupToken \/ CreateToken \/ WriteToken
      BY <2>5, <1>1 DEF EnsureSetupToken, CreateToken, WriteToken, ToHosts, TokenMissing, IsSetup,
        TokenDropped, TypeOK, Containers, Disks
    <2>6. ASSUME NEW h \in Hosts, Regenerate(h) PROVE FilesInv'
      <3>1. /\ box.pc = "regenerate" /\ box'.pc = "regenerate" /\ box'.release = box.release
            /\ (box'.regenerate <=> box.regenerate) /\ box'.todo = box.todo \ {h}
        BY <2>6 DEF Regenerate, TypeOK, Containers
      <3>2. /\ disk'.hash = disk.hash /\ db' = db
            /\ disk'.files = [disk.files EXCEPT ![h] = Rendered(db, box.release)[h]]
        BY <2>6 DEF Regenerate, TypeOK, Disks
      <3>3. up' = up /\ child' = child /\ torn' = torn
        BY <1>1
      <3>4. disk.files \in [Hosts -> [content : Nat, release : Nat]]
        BY DEF TypeOK, Disks, Files
      <3>5. \A g \in Hosts \ box'.todo : disk'.files[g] = Rendered(db, box.release)[g]
        BY <3>1, <3>2, <3>4
      <3>6. disk.hash = box.release => Matches'
        <4> SUFFICES ASSUME disk.hash = box.release
                     PROVE  Matches'
          OBVIOUS
        <4>1. CASE torn
          BY <4>1, <3>3
        <4>2. CASE ~torn
          <5>1. disk.files = Rendered(db, box.release)
            BY <4>2, <3>1
          <5>2. disk'.files = disk.files
            BY <5>1, <3>2, <3>4
          <5> QED
            BY <5>1, <5>2, <3>2
        <4> QED
          BY <4>1, <4>2
      <3>7. up.pc \notin {"restoreScript", "restart"}
        BY <3>1 DEF ControlInv, Emptied
      <3> QED
        BY <3>1, <3>2, <3>3, <3>5, <3>6, <3>7
    <2>7. CASE WriteHash
      <3>1. /\ box.pc = "regenerate" /\ box.todo = {} /\ box'.pc = "reload"
            /\ box'.release = box.release
        BY <2>7 DEF WriteHash, TypeOK, Containers
      <3>2. disk'.hash = box.release /\ disk'.files = disk.files /\ db' = db
        BY <2>7 DEF WriteHash, TypeOK, Disks
      <3>3. up' = up /\ child' = child /\ torn' = torn
        BY <1>1
      <3>4. disk.files \in [Hosts -> [content : Nat, release : Nat]]
        BY DEF TypeOK, Disks, Files
      <3>5. \A h \in Hosts : disk.files[h] = Rendered(db, box.release)[h]
        BY <3>1
      <3>6. disk.files = Rendered(db, box.release)
        BY <3>4, <3>5 DEF Rendered
      <3>7. up.pc \notin {"restoreScript", "restart"} /\ (Undeployed => box.release = Installed)
        BY <3>1 DEF ControlInv, Emptied
      <3> QED
        BY <3>1, <3>2, <3>3, <3>6, <3>7
    <2>8. CASE Load
      BY <2>8, <1>1 DEF Load, TypeOK, Containers
    <2>9. ASSUME NEW r \in Requests, Ask(r) PROVE FilesInv'
      BY <2>9, <1>1 DEF Ask, Goto, IsSetup, Serving, TypeOK
    <2>10. ASSUME NEW r \in Requests, Claim(r) PROVE FilesInv'
      BY <2>10, <1>1 DEF Claim, Goto, TypeOK
    <2>11. ASSUME NEW r \in Requests, Recheck(r) PROVE FilesInv'
      BY <2>11, <1>1 DEF Recheck, Answer, Goto, IsSetup, TypeOK
    <2>12. ASSUME NEW r \in Requests, Verify(r) PROVE FilesInv'
      BY <2>12, <1>1 DEF Verify, Answer, Goto, TokenExpected, TypeOK
    <2>13. ASSUME NEW r \in Requests, CreateUser(r) PROVE FilesInv'
      <3>1. box' = box /\ disk' = disk /\ loaded' = loaded /\ db'.content = db.content
        BY <2>13 DEF CreateUser, TypeOK, Databases
      <3>2. up' = up /\ child' = child /\ torn' = torn
        BY <1>1
      <3>3. \A x : Rendered(db', x) = Rendered(db, x)
        BY <3>1, Alike
      <3> QED
        BY <3>1, <3>2, <3>3
    <2>14. ASSUME NEW r \in Requests, Unlink(r) PROVE FilesInv'
      BY <2>14, <1>1 DEF Unlink, Answer, Goto, TokenDropped, TypeOK, Disks
    <2>15. ASSUME NEW h \in Hosts, SaveHost(h) PROVE FilesInv'
      BY <2>15, <1>1 DEF SaveHost, Rendered, Serving, Spend, TypeOK, Databases, Disks
    <2>16. CASE BootFault
      BY <2>16, <1>1 DEF BootFault, Booting, Spend, TypeOK, Containers
    <2>17. CASE BackendCrash
      BY <2>17, <1>1 DEF BackendCrash, Booting, Forget, Asking, Serving, Spend, TypeOK, Containers
    <2>18. CASE ContainerRestart
      BY <2>18, <1>1 DEF ContainerRestart, Forget, Asking, Spend, Started, Off, TypeOK, Containers
    <2>19. ASSUME NEW r \in Requests, SetupFault(r) PROVE FilesInv'
      BY <2>19, <1>1 DEF SetupFault, Goto, Spend, TypeOK
    <2>20. QED
      BY <1>1, <2>1, <2>2, <2>3, <2>4, <2>5, <2>6, <2>7, <2>8, <2>9, <2>10, <2>11, <2>12, <2>13, <2>14,
        <2>15, <2>16, <2>17, <2>18, <2>19 DEF ContainerNext, BootStep, SetupStep, Mishap
  <1>2. CASE HostStep
    <2>1. CASE Preflight \/ Stage \/ CopyRuntime \/ CopyDatabase \/ StopWriter \/ StartWriter \/ Seal \/
      Keep \/ Place \/ Ready \/ Candidate \/ InstallScript \/ Wait \/ Check \/ Complete \/
      RestartService \/ ToRevert \/ ToCleanup \/ Close \/ CheckRestored \/ Cleanup \/ Interrupted \/
      Killed
      <3>1. box' = box /\ db' = db /\ disk' = disk /\ loaded' = loaded /\ torn' = torn
        BY <2>1 DEF Preflight, Stage, CopyRuntime, CopyDatabase, StopWriter, StartWriter, Seal, Keep, Place,
            Ready, Candidate, InstallScript, Wait, Check, Complete, RestartService, ToRevert, ToCleanup,
            Close, CheckRestored, Cleanup, Interrupted, Killed, KeepContainer, Stored, Rest
      <3>2. up'.pc \in Before => up.pc \in Before
        <4>1. CASE up.pc \in Before
          BY <4>1
        <4>2. CASE ~(up.pc \in Before)
          <5>1. CASE Wait \/ Check \/ ToRevert \/ ToCleanup \/ Close \/ Cleanup \/ Killed
            BY <4>2, <5>1 DEF Wait, Check, ToRevert, ToCleanup, Close, Cleanup, Killed, To, TypeOK, Scripts
          <5>2. CASE Complete \/ RestartService
            BY <4>2, <5>2 DEF Complete, RestartService, TypeOK, Scripts
          <5>3. CASE CheckRestored
            <6>1. PICK answers : up' = [up EXCEPT !.pc = "cleanup", !.recovered = answers]
              BY <5>3 DEF CheckRestored
            <6> QED
              BY <6>1 DEF TypeOK, Scripts
          <5>4. CASE Interrupted
            <6>1. PICK started : up' = [up EXCEPT !.pc = "stopChild", !.started = started]
              BY <5>4 DEF Interrupted
            <6> QED
              BY <6>1 DEF TypeOK, Scripts
          <5> QED
            BY <2>1, <4>2, <5>1, <5>2, <5>3, <5>4 DEF Preflight, Stage, CopyRuntime, CopyDatabase, StopWriter,
                StartWriter, Seal, Keep, Place, Ready, Candidate, InstallScript, At
        <4> QED
          BY <4>1, <4>2
      <3>3. ChildRuns' => Undeployed
        BY <2>1 DEF Preflight, Stage, CopyRuntime, CopyDatabase, StopWriter, StartWriter, Seal, Keep, Place,
            Ready, Candidate, InstallScript, Wait, Check, Complete, RestartService, ToRevert, ToCleanup,
            Close, CheckRestored, Cleanup, Interrupted, Killed, At
      <3>4. up'.pc \notin {"restoreScript", "restart"} \/ up' = up
        <4>1. CASE Preflight \/ Stage \/ CopyRuntime \/ CopyDatabase \/ Seal \/ Keep \/ Place
          BY <4>1 DEF Preflight, Stage, CopyRuntime, CopyDatabase, Seal, Keep, Place, To, TypeOK, Scripts
        <4>2. CASE StopWriter \/ StartWriter \/ Ready \/ InstallScript \/ Complete \/ RestartService
          <5>1. up \in Scripts
            BY DEF TypeOK
          <5>2. CASE StopWriter \/ StartWriter \/ RestartService
            BY <5>1, <5>2 DEF StopWriter, StartWriter, RestartService, Scripts
          <5>3. CASE Ready
            BY <5>1, <5>3 DEF Ready, Scripts
          <5>4. CASE InstallScript
            BY <5>1, <5>4 DEF InstallScript, Scripts
          <5>5. CASE Complete
            BY <5>1, <5>5 DEF Complete, Scripts
          <5> QED
            BY <4>2, <5>2, <5>3, <5>4, <5>5
        <4>3. CASE Candidate
          BY <4>3 DEF Candidate, Downgrade, To, TypeOK, Scripts
        <4>4. CASE Wait \/ Check \/ ToRevert \/ ToCleanup \/ Close \/ Cleanup \/ Killed
          BY <4>4 DEF Wait, Check, ToRevert, ToCleanup, Close, Cleanup, Killed, To, TypeOK, Scripts
        <4>5. CASE CheckRestored
          <5>1. PICK answers : up' = [up EXCEPT !.pc = "cleanup", !.recovered = answers]
            BY <4>5 DEF CheckRestored
          <5> QED
            BY <5>1 DEF TypeOK, Scripts
        <4>6. CASE Interrupted
          <5>1. PICK started : up' = [up EXCEPT !.pc = "stopChild", !.started = started]
            BY <4>6 DEF Interrupted
          <5> QED
            BY <5>1 DEF TypeOK, Scripts
        <4> QED
          BY <2>1, <4>1, <4>2, <4>3, <4>4, <4>5, <4>6
      <3> QED
        BY <3>1, <3>2, <3>3, <3>4
    <2>2. CASE Launch
      BY <2>2 DEF Launch, At, KeepContainer, Rest, Stored, TypeOK, Scripts
    <2>3. CASE StopChild
      BY <2>3 DEF StopChild, At, KeepContainer, Rest, Stored, To, TypeOK, Scripts
    <2>4. CASE Down
      BY <2>4 DEF Down, At, Rest, StopContainer, Forget, Asking, Off, Stored, To, TypeOK, Containers,
        Scripts
    <2>5. CASE RestoreRuntime
      <3>1. /\ box' = box /\ up.pc = "restore" /\ up'.pc = "restoreDatabase" /\ child' = child
        BY <2>5 DEF RestoreRuntime, At, To, KeepContainer, TypeOK, Scripts
      <3>2. box.pc = "off" /\ ~Undeployed
        BY <3>1 DEF ControlInv, Emptied
      <3> QED
        BY <3>1, <3>2
    <2>6. CASE RestoreDatabase
      <3>1. /\ box' = box /\ up.pc = "restoreDatabase" /\ up'.pc = "restoreScript"
            /\ child' = child /\ disk' = disk
            /\ (torn' <=> disk.files # Rendered(db', disk.hash))
        BY <2>6 DEF RestoreDatabase, At, To, KeepContainer, TypeOK, Scripts
      <3>2. box.pc = "off" /\ ~Undeployed
        BY <3>1 DEF ControlInv, Emptied
      <3> QED
        BY <3>1, <3>2
    <2>7. CASE RestoreScript
      BY <2>7 DEF RestoreScript, At, KeepContainer, Rest, Stored, To, TypeOK, Scripts
    <2>8. CASE RestartAll
      BY <2>8 DEF RestartAll, At, Recreate, Forget, Asking, Started, Off, Rest, Stored, To, TypeOK,
        Containers, Scripts
    <2>9. CASE RevertFails
      BY <2>9 DEF RevertFails, At, KeepContainer, Recreate, Forget, Asking, Started, Off, Rest, Stored,
        To, TypeOK, Containers, Scripts
    <2>10. CASE Pin
      BY <2>10 DEF Pin, Deployed, KeepContainer, Rest, Stored, TypeOK, Scripts
    <2>11. CASE Pull
      BY <2>11 DEF Pull, KeepContainer, Rest, Stored, TypeOK, Scripts
    <2>12. CASE Deploy
      <3>1. /\ child = "deploy" /\ child' \in {"done", "failed"} /\ up' = up
            /\ db' = db /\ disk' = disk /\ torn' = torn
        BY <2>12 DEF Deploy, Stored
      <3>2. box.release = Installed /\ host.image = Deployed /\ disk.hash \in {0, Installed}
            /\ box.pc # "off"
        BY <3>1 DEF ControlInv
      <3>3. up.pc \in {"wait", "check", "complete", "stopChild", "killed"}
        BY <3>1 DEF ControlInv
      <3>4. disk.hash = Installed => Matches
        BY <3>2
      <3>5. \/ box' = Started(Deployed)
            \/ box' = Off(box.release)
        BY <3>2, <2>12 DEF Deploy, Recreate, StopContainer
      <3>6. Deployed # 0
        BY DeployedType
      <3>7. /\ box'.pc \in {"off", "begin"}
            /\ (box'.pc # "off" /\ disk.hash = box'.release => disk.hash = Installed)
        BY <3>2, <3>5, <3>6 DEF Started, Off
      <3> QED
        BY <3>1, <3>3, <3>4, <3>7
    <2>13. CASE Deadline
      BY <2>13 DEF Deadline, ChildRuns, KeepContainer, Rest, Stored, TypeOK, Scripts
    <2>14. QED
      BY <1>2, <2>1, <2>2, <2>3, <2>4, <2>5, <2>6, <2>7, <2>8, <2>9, <2>10, <2>11, <2>12, <2>13 DEF
        HostStep, UpdaterStep
  <1>3. CASE UNCHANGED vars
    BY <1>3 DEF vars, startVars
  <1>4. QED
    BY <1>1, <1>2, <1>3 DEF Next

-----------------------------------------------------------------------------
(* The settlement.                                                          *)

\* The container migrates the database to its own release.
LEMMA SchemaStep ==
    ASSUME TypeOK, ContainerNext
    PROVE  db'.schema = db.schema \/ (db'.schema = box.release /\ box.pc # "off")
  <1>1. CASE Begin
    BY <1>1 DEF Begin, Changed, NoFiles, NoFile, TypeOK, Databases
  <1>2. CASE Migrate
    BY <1>2 DEF Migrate, TypeOK, Databases
  <1>3. CASE DefaultUser
    BY <1>3 DEF DefaultUser, IsSetup, TypeOK, Databases
  <1>4. CASE DropToken
    BY <1>4 DEF DropToken, TokenDropped, TypeOK, Databases
  <1>5. CASE EnsureSetupToken \/ CreateToken \/ WriteToken
    BY <1>5 DEF EnsureSetupToken, CreateToken, WriteToken, ToHosts, TypeOK, Databases
  <1>6. ASSUME NEW h \in Hosts, Regenerate(h)
       PROVE  db'.schema = db.schema \/ (db'.schema = box.release /\ box.pc # "off")
    BY <1>6 DEF Regenerate, Rendered, TypeOK, Databases
  <1>7. CASE WriteHash
    BY <1>7 DEF WriteHash, TypeOK, Databases
  <1>8. CASE Load
    BY <1>8 DEF Load, TypeOK, Databases
  <1>9. ASSUME NEW r \in Requests, Ask(r)
       PROVE  db'.schema = db.schema \/ (db'.schema = box.release /\ box.pc # "off")
    BY <1>9 DEF Ask, Goto, IsSetup, Serving, TypeOK, Databases
  <1>10. ASSUME NEW r \in Requests, Claim(r)
        PROVE  db'.schema = db.schema \/ (db'.schema = box.release /\ box.pc # "off")
    BY <1>10 DEF Claim
  <1>11. ASSUME NEW r \in Requests, Recheck(r)
        PROVE  db'.schema = db.schema \/ (db'.schema = box.release /\ box.pc # "off")
    BY <1>11 DEF Recheck
  <1>12. ASSUME NEW r \in Requests, Verify(r)
        PROVE  db'.schema = db.schema \/ (db'.schema = box.release /\ box.pc # "off")
    BY <1>12 DEF Verify
  <1>13. ASSUME NEW r \in Requests, CreateUser(r)
        PROVE  db'.schema = db.schema \/ (db'.schema = box.release /\ box.pc # "off")
    BY <1>13 DEF CreateUser, TypeOK, Databases
  <1>14. ASSUME NEW r \in Requests, Unlink(r)
        PROVE  db'.schema = db.schema \/ (db'.schema = box.release /\ box.pc # "off")
    BY <1>14 DEF Unlink
  <1>15. ASSUME NEW h \in Hosts, SaveHost(h)
        PROVE  db'.schema = db.schema \/ (db'.schema = box.release /\ box.pc # "off")
    BY <1>15 DEF SaveHost, Rendered, Serving, Spend, TypeOK, Databases
  <1>16. CASE BootFault
    BY <1>16 DEF BootFault, Booting, Spend, TypeOK, Databases
  <1>17. CASE BackendCrash
    BY <1>17 DEF BackendCrash, Booting, Forget, Asking, Serving, Spend, TypeOK, Databases
  <1>18. CASE ContainerRestart
    BY <1>18 DEF ContainerRestart, Forget, Asking, Spend, Started, Off, TypeOK, Databases
  <1>19. ASSUME NEW r \in Requests, SetupFault(r)
        PROVE  db'.schema = db.schema \/ (db'.schema = box.release /\ box.pc # "off")
    BY <1>19 DEF SetupFault
  <1>20. QED
    BY <1>1, <1>2, <1>3, <1>4, <1>5, <1>6, <1>7, <1>8, <1>9, <1>10, <1>11, <1>12, <1>13, <1>14, <1>15,
      <1>16, <1>17, <1>18, <1>19 DEF ContainerNext, BootStep, SetupStep, Mishap

\* Nothing is deployed yet.
LEMMA SettleInit == Init => SettleInv
  <1> SUFFICES ASSUME Init
               PROVE  SettleInv
    OBVIOUS
  <1>1. PICK s \in Scenes :
            /\ box = [Off(Installed) EXCEPT !.pc = s.start]
            /\ db = [schema |-> Installed, content |-> [h \in Hosts |-> 1], admins |-> s.admins]
            /\ host = [image |-> Installed, script |-> Installed, crowdsec |-> TRUE, open |-> TRUE]
            /\ up = [pc |-> IF s.update THEN "idle" ELSE "none", ready |-> FALSE, started |-> FALSE,
                     complete |-> FALSE, stopped |-> FALSE, recovered |-> FALSE]
            /\ child = "none"
    BY DEF Init, InitScene
  <1>2. box.release = Installed /\ Undone(host.image, host.script, db.schema)
    BY <1>1, ReleaseAssumption DEF Off, Undone
  <1>3. /\ up.pc \in {"idle", "none"} /\ ~up.ready /\ ~up.started /\ ~up.complete
        /\ host.crowdsec /\ db.schema <= Installed
    BY <1>1, ReleaseAssumption
  <1> QED
    BY <1>1, <1>2, <1>3 DEF SettleInv, StartedInv, KeptInv, UndoneInv, PortsInv, EndedInv, Before,
      Rollback, Undeployed, ChildRuns

\* Each step keeps the deployment marked until it is undone.
LEMMA SettleNext ==
    ASSUME TypeOK, ControlInv, SnapshotInv, SettleInv, [Next]_vars
    PROVE  SettleInv'
  <1> USE DEF SettleInv, StartedInv, KeptInv, UndoneInv, PortsInv, EndedInv, Undone, Rollback, Before,
      Live, Undeployed, ChildRuns, Deployed
  <1>1. CASE ContainerNext /\ UNCHANGED <<host, dirs, up, child, order, torn>>
    <2>1. host' = host /\ dirs' = dirs /\ up' = up /\ child' = child /\ order' = order
      BY <1>1
    <2>2. box'.release = box.release /\ (box'.pc = "off" <=> box.pc = "off")
      BY <1>1, BoxStep
    <2>3. db'.schema = db.schema \/ (db'.schema = box.release /\ box.pc # "off")
      BY <1>1, SchemaStep
    <2>4. Undeployed => box.release = Installed
      BY DEF ControlInv
    <2>5. up.pc \in {"restoreScript", "restart"} => box.pc = "off"
      BY DEF ControlInv, Emptied
    <2>6. Installed <= Installed
      BY ReleaseAssumption
    <2>7. StartedInv'
      BY <2>1, <2>2, <2>3, <2>4, <2>6
    <2>8. KeptInv'
      BY <2>1
    <2>9. UndoneInv'
      BY <2>1, <2>2, <2>3, <2>5, <2>6
    <2>10. PortsInv'
      BY <2>1
    <2>11. EndedInv'
      <3> HIDE DEF StartedInv, KeptInv, UndoneInv, PortsInv
      <3> SUFFICES ASSUME up.pc \in {"cleanup", "ended"}, host.open, ~up.complete
                   PROVE  box'.release = Installed /\ Undone(host.image, host.script, db'.schema)
        BY <2>1
      <3>1. box.release = Installed /\ Undone(host.image, host.script, db.schema)
        OBVIOUS
      <3>2. db'.schema <= Installed
        BY <2>3, <2>6, <3>1
      <3> QED
        BY <2>2, <3>1, <3>2
    <2> QED
      BY <2>7, <2>8, <2>9, <2>10, <2>11
  <1>2. CASE HostStep
    <2>1. CASE Preflight
      BY <2>1 DEF Preflight, At, Healthy, Serving, KeepContainer, Rest, Stored, To, TypeOK, Scripts
    <2>2. CASE Stage
      BY <2>2 DEF Stage, At, KeepContainer, Rest, Snapshot, NoFiles, NoFile, Stored, To, TypeOK,
        Scripts, Directories, Snapshots
    <2>3. CASE CopyRuntime
      BY <2>3 DEF CopyRuntime, At, KeepContainer, Rest, Stored, To, TypeOK, Scripts, Directories,
        Snapshots
    <2>4. CASE CopyDatabase
      BY <2>4 DEF CopyDatabase, At, KeepContainer, Rest, Stored, To, TypeOK, Scripts, Directories,
        Snapshots
    <2>5. CASE StopWriter
      BY <2>5 DEF StopWriter, At, KeepContainer, Rest, Stored, TypeOK, Scripts, HostStates
    <2>6. CASE StartWriter
      BY <2>6 DEF StartWriter, At, KeepContainer, Rest, Stored, TypeOK, Scripts, HostStates
    <2>7. CASE Seal
      BY <2>7 DEF Seal, At, KeepContainer, Rest, Stored, To, TypeOK, Scripts, Directories, Snapshots
    <2>8. CASE Keep
      <3>1. up.pc = "keep" /\ up'.pc = "place" /\ dirs'.stage = dirs.stage
        BY <2>8 DEF Keep, At, To, TypeOK, Scripts, Directories
      <3>2. up'.ready = up.ready /\ up'.started = up.started /\ up'.complete = up.complete
               /\ up'.stopped = up.stopped
        BY <2>8 DEF Keep, To, TypeOK, Scripts
      <3>3. UNCHANGED <<box, db, host, child, order>>
        BY <2>8 DEF Keep, KeepContainer, Stored, Rest
      <3>4. ~up.ready
        BY <3>1 DEF SnapshotInv
      <3> QED
        BY <3>1, <3>2, <3>3, <3>4
    <2>9. CASE Place
      BY <2>9 DEF Place, At, KeepContainer, NoSnapshot, Snapshot, NoFiles, NoFile, Rest, Stored, To,
        TypeOK, Scripts, Directories, Snapshots
    <2>10. CASE Ready
      BY <2>10 DEF Ready, At, KeepContainer, Rest, Stored, TypeOK, Scripts
    <2>11. CASE Candidate
      BY <2>11 DEF Candidate, At, Downgrade, KeepContainer, Rest, Stored, To, TypeOK, Scripts
    <2>12. CASE InstallScript
      BY <2>12 DEF InstallScript, At, KeepContainer, Rest, Stored, TypeOK, Scripts, HostStates
    <2>13. CASE Launch
      BY <2>13 DEF Launch, At, KeepContainer, Rest, Stored, TypeOK, Scripts
    <2>14. CASE Wait
      BY <2>14 DEF Wait, At, KeepContainer, Rest, Stored, To, TypeOK, Scripts
    <2>15. CASE Check
      BY <2>15 DEF Check, At, Healthy, Serving, KeepContainer, Rest, Stored, To, TypeOK, Scripts
    <2>16. CASE Complete
      <3>1. /\ up.pc = "complete" /\ up'.pc = "stopChild" /\ up'.ready = up.ready
            /\ up'.started = up.started /\ up'.stopped = up.stopped
        BY <2>16 DEF Complete, At, TypeOK, Scripts
      <3>2. UNCHANGED <<box, db, host, dirs, child, order>>
        BY <2>16 DEF Complete, KeepContainer, Stored, Rest
      <3>3. child = "done"
        BY <3>1 DEF ControlInv
      <3> QED
        BY <3>1, <3>2, <3>3
    <2>17. CASE StopChild
      BY <2>17 DEF StopChild, At, KeepContainer, Rest, Stored, To, TypeOK, Scripts
    <2>18. CASE RestartService
      BY <2>18 DEF RestartService, At, KeepContainer, Rest, Stored, TypeOK, Scripts, HostStates
    <2>19. CASE ToRevert
      BY <2>19 DEF ToRevert, At, KeepContainer, Rest, Stored, To, TypeOK, Scripts
    <2>20. CASE ToCleanup
      BY <2>20 DEF ToCleanup, At, KeepContainer, PutBack, NoSnapshot, Snapshot, NoFiles, NoFile, Rest,
        Stored, To, TypeOK, Scripts, Directories, Snapshots
    <2>21. CASE Close
      BY <2>21 DEF Close, At, KeepContainer, Rest, Stored, To, TypeOK, Scripts, HostStates
    <2>22. CASE Down
      BY <2>22 DEF Down, At, Rest, StopContainer, Forget, Asking, Off, Stored, To, TypeOK, Scripts,
        HostStates, Containers
    <2>23. CASE RestoreRuntime
      <3>1. up.pc = "restore" /\ up'.pc = "restoreDatabase"
        BY <2>23 DEF RestoreRuntime, At, To, TypeOK, Scripts
      <3>2. up'.ready = up.ready /\ up'.started = up.started /\ up'.complete = up.complete
               /\ up'.stopped = up.stopped
        BY <2>23 DEF RestoreRuntime, To, TypeOK, Scripts
      <3>3. /\ host'.image = dirs.lastGood.image /\ host'.script = host.script /\ db' = db
            /\ host'.crowdsec = host.crowdsec /\ host'.open = host.open
        BY <2>23 DEF RestoreRuntime, Stored, TypeOK, HostStates
      <3>4. UNCHANGED <<box, dirs, child, order>>
        BY <2>23 DEF RestoreRuntime, KeepContainer, Rest
      <3>5. up.ready /\ child = "none" /\ box.pc = "off"
        BY <3>1 DEF SnapshotInv, ControlInv, Emptied
      <3>6. Undone(dirs.lastGood.image, dirs.lastGood.script, dirs.lastGood.db.schema)
        BY <3>5
      <3> QED
        BY <3>1, <3>2, <3>3, <3>4, <3>5, <3>6
    <2>24. CASE RestoreDatabase
      <3>1. up.pc = "restoreDatabase" /\ up'.pc = "restoreScript"
        BY <2>24 DEF RestoreDatabase, At, To, TypeOK, Scripts
      <3>2. up'.ready = up.ready /\ up'.started = up.started /\ up'.complete = up.complete
               /\ up'.stopped = up.stopped
        BY <2>24 DEF RestoreDatabase, To, TypeOK, Scripts
      <3>3. /\ host' = host /\ db' = dirs.lastGood.db
        BY <2>24 DEF RestoreDatabase, Stored, TypeOK, HostStates
      <3>4. UNCHANGED <<box, dirs, child, order>>
        BY <2>24 DEF RestoreDatabase, KeepContainer, Rest
      <3>5. up.ready /\ child = "none" /\ box.pc = "off"
        BY <3>1 DEF SnapshotInv, ControlInv, Emptied
      <3>6. Undone(dirs.lastGood.image, dirs.lastGood.script, dirs.lastGood.db.schema)
        BY <3>5
      <3> QED
        BY <3>1, <3>2, <3>3, <3>4, <3>5, <3>6
    <2>25. CASE RestoreScript
      <3>1. up.pc = "restoreScript" /\ up'.pc = "restart"
        BY <2>25 DEF RestoreScript, At, To, TypeOK, Scripts
      <3>2. up'.ready = up.ready /\ up'.started = up.started /\ up'.complete = up.complete
               /\ up'.stopped = up.stopped
        BY <2>25 DEF RestoreScript, To, TypeOK, Scripts
      <3>3. /\ host'.script = dirs.lastGood.script /\ host'.image = host.image /\ db' = db
            /\ host'.crowdsec = host.crowdsec /\ host'.open = host.open
        BY <2>25 DEF RestoreScript, Stored, TypeOK, HostStates
      <3>4. UNCHANGED <<box, dirs, child, order>>
        BY <2>25 DEF RestoreScript, KeepContainer, Rest
      <3>5. up.ready /\ child = "none" /\ box.pc = "off"
        BY <3>1 DEF SnapshotInv, ControlInv, Emptied
      <3>6. Undone(dirs.lastGood.image, dirs.lastGood.script, dirs.lastGood.db.schema)
        BY <3>5
      <3> QED
        BY <3>1, <3>2, <3>3, <3>4, <3>5, <3>6
    <2>26. CASE RestartAll
      BY <2>26 DEF RestartAll, At, Recreate, Forget, Asking, Started, Off, Rest, Stored, To, TypeOK,
        Scripts, HostStates, Containers
    <2>27. CASE CheckRestored
      <3>1. PICK answers \in {FALSE, Healthy} :
                /\ host' = [host EXCEPT !.open = answers]
                /\ up' = [up EXCEPT !.pc = "cleanup", !.recovered = answers]
        BY <2>27 DEF CheckRestored
      <3>2. up.pc = "recheck" /\ UNCHANGED <<box, db, dirs, child, order>>
        BY <2>27 DEF CheckRestored, At, KeepContainer, Rest, Stored
      <3>3. /\ host'.image = host.image /\ host'.script = host.script
            /\ host'.crowdsec = host.crowdsec /\ (host'.open => host.crowdsec)
        <4>1. answers = FALSE \/ answers = Healthy
          BY <3>1
        <4>2. /\ host'.image = host.image /\ host'.script = host.script
              /\ host'.crowdsec = host.crowdsec /\ host'.open = answers
          BY <3>1 DEF TypeOK, HostStates
        <4> QED
          BY <4>1, <4>2 DEF Healthy
      <3>4. /\ up'.pc = "cleanup" /\ up'.started = up.started /\ up'.complete = up.complete
            /\ up'.ready = up.ready /\ up'.stopped = up.stopped
        BY <3>1 DEF TypeOK, Scripts
      <3>5. /\ up.started /\ ~up.complete /\ ~up.stopped /\ ~host.open /\ box.release = Installed
            /\ Undone(host.image, host.script, db.schema)
        BY <3>2
      <3>6. box' = box /\ db' = db /\ dirs' = dirs /\ child' = child /\ order' = order
        BY <3>2
      <3>7. StartedInv' /\ KeptInv'
        BY <3>2, <3>3, <3>4, <3>5, <3>6
      <3>8. UndoneInv' /\ PortsInv' /\ EndedInv'
        BY <3>3, <3>4, <3>5, <3>6
      <3> QED
        BY <3>7, <3>8
    <2>28. CASE Cleanup
      BY <2>28 DEF Cleanup, At, KeepContainer, NoSnapshot, Snapshot, NoFiles, NoFile, Rest, Stored, To,
        TypeOK, Scripts, Directories, Snapshots
    <2>29. CASE Interrupted
      BY <2>29 DEF Interrupted, At, KeepContainer, Rest, Stored, Working, TypeOK, Scripts
    <2>30. CASE RevertFails
      BY <2>30 DEF RevertFails, At, KeepContainer, Recreate, Forget, Asking, Started, Off, Rest, Stored,
        To, TypeOK, Scripts, HostStates, Containers
    <2>31. CASE Killed
      BY <2>31 DEF Killed, KeepContainer, Rest, Stored, To, TypeOK, Scripts
    <2>32. CASE Pin
      <3>1. child = "pin" /\ UNCHANGED <<db, dirs, up, order>>
        BY <2>32 DEF Pin, Stored, Rest
      <3>2. up.pc \in {"wait", "stopChild", "killed"} /\ up.started
        BY <3>1 DEF ControlInv
      <3>3. /\ host'.image = Deployed /\ host'.script = host.script
            /\ host'.crowdsec = host.crowdsec /\ host'.open = host.open
        BY <2>32 DEF Pin, TypeOK, HostStates
      <3>4. child' = "pull" /\ box' = box
        BY <2>32 DEF Pin, KeepContainer
      <3>5. ~up.complete
        BY <3>1
      <3> QED
        BY <3>1, <3>2, <3>3, <3>4, <3>5
    <2>33. CASE Pull
      BY <2>33 DEF Pull, KeepContainer, Rest, Stored, TypeOK, Scripts
    <2>34. CASE Deploy
      <3>1. child = "deploy" /\ UNCHANGED <<db, dirs, up, order>>
        BY <2>34 DEF Deploy, Stored, Rest
      <3>2. up.pc \in {"wait", "stopChild", "killed"} /\ up.started
        BY <3>1 DEF ControlInv
      <3>3. /\ host'.image = Deployed /\ host'.script = host.script
            /\ host'.crowdsec /\ host'.open = host.open
        BY <2>34 DEF Deploy, ControlInv, TypeOK, HostStates
      <3>4. \/ child' = "failed"
            \/ child' = "done" /\ box'.release = Deployed
        BY <2>34, <3>1 DEF Deploy, Recreate, StopContainer, Started, Off, ControlInv
      <3>5. ~up.complete
        BY <3>1
      <3> QED
        BY <3>1, <3>2, <3>3, <3>4, <3>5
    <2>35. CASE Deadline
      <3>1. child' = "failed" /\ box' = box /\ db' = db /\ host' = host /\ dirs' = dirs /\ up' = up
        BY <2>35 DEF Deadline, KeepContainer, Rest, Stored
      <3>2. up.started /\ ~up.complete
        BY <2>35 DEF Deadline
      <3> QED
        BY <3>1, <3>2
    <2>36. QED
      BY <1>2, <2>1, <2>2, <2>3, <2>4, <2>5, <2>6, <2>7, <2>8, <2>9, <2>10, <2>11, <2>12, <2>13, <2>14,
        <2>15, <2>16, <2>17, <2>18, <2>19, <2>20, <2>21, <2>22, <2>23, <2>24, <2>25, <2>26, <2>27,
        <2>28, <2>29, <2>30, <2>31, <2>32, <2>33, <2>34, <2>35 DEF HostStep, UpdaterStep
  <1>3. CASE UNCHANGED vars
    BY <1>3 DEF vars, startVars
  <1>4. QED
    BY <1>1, <1>2, <1>3 DEF Next

-----------------------------------------------------------------------------
(* The update and the start, by themselves.                                 *)

\* The update begins in the invariant.
LEMMA UpdateInit == Init => UpdateInv
  BY ControlInit, SnapshotInit, SetupInit, FilesInit, SettleInit DEF UpdateInv

\* Each step keeps the invariant.
LEMMA UpdateNext ==
    ASSUME TypeOK, UpdateInv, [Next]_vars
    PROVE  UpdateInv'
  BY ControlNext, SnapshotNext, SetupNext, FilesNext, SettleNext DEF UpdateInv

\* What the invariant gives.
LEMMA UpdateGives ==
    ASSUME TypeOK, UpdateInv
    PROVE  OneInitialAdmin /\ TokenStays /\ FilesCurrent /\ SnapshotKept /\ UpdateSettles
  <1>1. OneInitialAdmin
    BY DEF UpdateInv, SetupInv, OneInitialAdmin
  <1>2. TokenStays
    BY DEF TypeOK, Databases, UpdateInv, SetupInv, TokenStays, Serving, IsSetup
  <1>3. FilesCurrent
    BY DEF UpdateInv, FilesInv, Matches, FilesCurrent, Serving
  <1>4. SnapshotKept
    BY DEF UpdateInv, SnapshotInv, SnapshotKept, At
  <1>5. UpdateSettles
    BY DEF UpdateInv, ControlInv, SettleInv, StartedInv, UndoneInv, PortsInv, EndedInv, UpdateSettles,
      Undone, Live, At, Rollback
  <1> QED
    BY <1>1, <1>2, <1>3, <1>4, <1>5

\* The start and the safe update keep what they promise where nothing else is done to the
\* installation: for every release, and for every sequence of failures, signals and starts.
THEOREM UpdateTheorem ==
    Spec => [](OneInitialAdmin /\ TokenStays /\ FilesCurrent /\ SnapshotKept /\ UpdateSettles)
  <1>1. TypeOK /\ UpdateInv /\ [Next]_vars => UpdateInv'
    BY UpdateNext
  <1>2. TypeOK /\ UpdateInv =>
            OneInitialAdmin /\ TokenStays /\ FilesCurrent /\ SnapshotKept /\ UpdateSettles
    BY UpdateGives
  <1> QED
    BY UpdateInit, UpdateTypeCorrect, <1>1, <1>2, PTL DEF Spec

-----------------------------------------------------------------------------
(* The invariant of the tools.                                              *)
Here == [p \in Parts |-> "here"]

\* Where the restore has stopped the container and not started it again.
Stopped ==
    {"saveDatabase", "saveFiles", "saveCrowdsec", "replaceDatabase", "replaceFiles",
     "replaceCrowdsec", "start", "putDatabase", "putFiles", "putCrowdsec"}
\* Where its copy is complete, and marked so.
Replacing ==
    {"replaceDatabase", "replaceFiles", "replaceCrowdsec", "start", "keys", "probe", "recoverStop",
     "putDatabase", "putFiles", "putCrowdsec"}

\* What the lock gives: no update goes on beside a restore, then or later.
AloneInv == job.pc \notin {"none", "asked"} => up.pc \in {"none", "killed"} /\ ~ChildRuns

\* The copy that a restore makes before it replaces anything.
CopyInv ==
    /\ job.pc \in {"none", "asked", "stop", "saveDatabase", "saveFiles", "saveCrowdsec"} => ~job.started
    /\ job.pc = "saveFiles" => "database" \in copy.done
    /\ job.pc = "saveCrowdsec" => {"database", "files"} \subseteq copy.done
    /\ job.pc \in Replacing => job.started
    /\ job.started => Parts \subseteq copy.done

\* Where each part comes from at each command.
OriginInv ==
    /\ ~job.started => origin = Here
    /\ job.pc = "replaceDatabase" => origin = Here
    /\ job.pc = "replaceFiles" => origin = [Here EXCEPT !["database"] = "archive"]
    /\ job.pc = "replaceCrowdsec" =>
           origin = [Here EXCEPT !["database"] = "archive", !["files"] = "archive"]
    /\ job.pc \in {"start", "keys", "probe"} => origin = Restored
    /\ job.pc = "putFiles" => origin["database"] = "here"
    /\ job.pc = "putCrowdsec" => origin["database"] = "here" /\ origin["files"] = "here"
    /\ job.pc = "recoverStart" => origin = Here
    /\ box.pc # "off" => origin \in {Here, Restored}

OffInv == job.pc \in Stopped => box.pc = "off"

RestoreInv == AloneInv /\ CopyInv /\ OriginInv /\ OffInv

\* The keys are checked where nothing updates.
DailyInv ==
    /\ daily => up.pc = "none"
    /\ mend["cron"].todo # <<>> => daily

\* No copy of the database has two initial administrators.
CopiesInv == archive.db.admins <= 1 /\ copy.db.admins <= 1 /\ backup.db.admins <= 1

\* The release to be started takes the files for its own only if they are.
FitsImage == disk.hash = host.image => Matches

\* The image is that of the container, unless it was pinned for a deployment that has
\* not come to it.
ImageInv ==
    /\ host.image # 0
    /\ box.pc # "off" => \/ host.image = box.release
                         \/ box.release = Installed /\ disk.hash \in {0, Installed}

\* What a restore, or its recovery, starts the container on.
FitInv ==
    /\ job.pc \in {"replaceFiles", "replaceCrowdsec", "start", "putFiles", "putCrowdsec"} => Matches
    /\ job.pc \notin {"none", "asked"} /\ ~job.started => FitsImage
    /\ job.pc = "recoverStart" => FitsImage

\* What holds at every step of the tools.
ToolsInv == RestoreInv /\ DailyInv /\ CopiesInv /\ ImageInv /\ FitInv

-----------------------------------------------------------------------------
(* Types of the tools.                                                      *)

\* Tables of keys: one with no key, and one with those of the files replaced.
LEMMA KeysType ==
    /\ NoKeys \in KeyTables
    /\ \A k \in [held : KeyTables, known : KeyTables], held \in KeyTables :
           WithHeld(k, held) \in [held : KeyTables, known : KeyTables]
  BY DEF NoKeys, KeyTables, WithHeld

\* A database that has been removed, a copy not made yet, a check not under way.
LEMMA EmptyType ==
    NoDatabase \in Databases /\ NoCopy \in Copies /\ NotMending \in Checks
  <1>1. NoDatabase \in Databases
    BY DEF NoDatabase, Databases
  <1>2. NoCopy \in Copies
    BY <1>1, KeysType, NoFilesType DEF NoCopy, Copies, Tokens
  <1>3. NotMending \in Checks
    BY DEF NotMending, Checks
  <1> QED
    BY <1>1, <1>2, <1>3

\* A command of the restore leaves its variables well-typed.
LEMMA JobType ==
    ASSUME job \in Jobs, NEW pc \in JobPcs, JobTo(pc)
    PROVE  job' \in Jobs
  BY DEF JobTo, Jobs

\* The container is stopped, started or left alone.
LEMMA BoxType ==
    ASSUME TypeOK, StopContainer \/ KeepContainer \/ (\E release \in Nat : Recreate(release))
    PROVE  box' \in Containers /\ req' \in [Requests -> RequestPcs] /\ claimed' \in BOOLEAN
  <1>1. CASE KeepContainer
    BY <1>1 DEF KeepContainer, TypeOK
  <1>2. CASE StopContainer
    <2>1. box.release \in Nat
      BY DEF TypeOK, Containers
    <2> QED
      BY <1>2, <2>1, ContainerType, ForgetType DEF StopContainer
  <1>3. ASSUME NEW release \in Nat, Recreate(release)
        PROVE  box' \in Containers /\ req' \in [Requests -> RequestPcs] /\ claimed' \in BOOLEAN
    BY <1>3, ContainerType, ForgetType DEF Recreate
  <1> QED
    BY <1>1, <1>2, <1>3

\* The scenes the tools begin in.
LEMMA ToolsTypeInit == AllInit => TypeOK /\ ToolsTypeOK
  <1> SUFFICES ASSUME AllInit
               PROVE  TypeOK /\ ToolsTypeOK
    OBVIOUS
  <1>1. PICK s \in Scenes : InitScene(s) /\ ToolsInit(s)
    BY DEF AllInit
  <1>2. TypeOK
    BY <1>1, TypeInit DEF Init
  <1>3. s.heal \in BOOLEAN /\ s.archive \in Archives
    BY PlanAssumption
  <1>4. keys \in [held : KeyTables, known : KeyTables]
    BY <1>1 DEF ToolsInit, KeyTables
  <1>5. backup \in Backups /\ job \in Jobs
    BY <1>1, EmptyType, KeysType DEF ToolsInit, Backups, BackupPcs, Jobs, JobPcs
  <1>6. origin \in [Parts -> {"here", "archive", "lost"}]
    BY <1>1 DEF ToolsInit
  <1> QED
    BY <1>1, <1>2, <1>3, <1>4, <1>5, <1>6, EmptyType DEF ToolsInit, ToolsTypeOK

\* A backup writes its own variables and the archive.
LEMMA BackupType ==
    ASSUME TypeOK, ToolsTypeOK, BackupStep \/ BackupFails
    PROVE  TypeOK' /\ ToolsTypeOK'
  <1>1. TypeOK'
    BY DEF BackupStep, BackupFails, StartBackup, BackupDatabase, BackupCrowdsec, Pack, BackupOnly,
      KeepContainer, Untouched, Stored, TypeOK
  <1>2. backup' \in Backups /\ archive' \in Archives
    <2>1. /\ backup \in Backups /\ archive \in Archives /\ keys \in [held : KeyTables, known : KeyTables]
          /\ db \in Databases /\ disk.files \in Files
      BY DEF TypeOK, ToolsTypeOK, Disks
    <2>2. CASE StartBackup
      BY <2>1, <2>2 DEF StartBackup, Backups, BackupPcs
    <2>3. CASE BackupDatabase
      BY <2>1, <2>3 DEF BackupDatabase, Backups, BackupPcs
    <2>4. CASE BackupCrowdsec
      BY <2>1, <2>4 DEF BackupCrowdsec, Backups, BackupPcs
    <2>5. CASE Pack
      BY <2>1, <2>5 DEF Pack, Backups, BackupPcs, Archives
    <2>6. CASE BackupFails
      BY <2>1, <2>6 DEF BackupFails, Backups, BackupPcs
    <2> QED
      BY <2>2, <2>3, <2>4, <2>5, <2>6 DEF BackupStep
  <1>3. UNCHANGED <<keys, job, copy, mend, daily, origin, cut>>
    BY DEF BackupStep, BackupFails, StartBackup, BackupDatabase, BackupCrowdsec, Pack, BackupOnly
  <1> QED
    BY <1>1, <1>2, <1>3 DEF ToolsTypeOK

\* What a check of the keys writes: a key, its own progress, and the container it restarts.
LEMMA MendType ==
    ASSUME TypeOK, ToolsTypeOK, NEW m \in Menders, MendStep(m) \/ RegisterFails(m)
    PROVE  TypeOK' /\ ToolsTypeOK'
  <1>1. /\ keys \in [held : KeyTables, known : KeyTables] /\ mend \in [Menders -> Checks]
        /\ cut \in BOOLEAN
    BY DEF ToolsTypeOK
  <1>2. Mends(m) /\ mend[m].todo \in Seq(Names) /\ mend[m].key \in Nat
    BY <1>1 DEF Checks, MendStep, CheckKey, RegisterKey, WriteKey, RegisterFails
  <1>3. Name(m) \in Names /\ NextName(m) \in Checks
    BY <1>2 DEF Mends, Name, NextName, Checks
  <1>4. CASE CheckKey(m)
    <2>1. mend' \in [Menders -> Checks]
      BY <1>1, <1>3, <1>4 DEF CheckKey, Checks
    <2> QED
      BY <2>1, <1>4 DEF CheckKey, MendOnly, KeepContainer, Untouched, Stored, TypeOK, ToolsTypeOK
  <1>5. CASE RegisterKey(m)
    <2>1. Fresh(Name(m)) \in Nat
      BY <1>5, KeyAssumption DEF RegisterKey, Fresh
    <2>2. keys' \in [held : KeyTables, known : KeyTables]
      BY <1>1, <1>3, <1>5, <2>1 DEF RegisterKey, KeyTables
    <2>3. mend' \in [Menders -> Checks]
      BY <1>1, <1>5, <2>1 DEF RegisterKey, Checks
    <2> QED
      BY <2>2, <2>3, <1>5 DEF RegisterKey, MendOnly, KeepContainer, Untouched, Stored, TypeOK, ToolsTypeOK
  <1>6. CASE WriteKey(m)
    <2>1. keys' \in [held : KeyTables, known : KeyTables]
      BY <1>1, <1>2, <1>3, <1>6 DEF WriteKey, KeyTables
    <2>2. mend' \in [Menders -> Checks]
      BY <1>1, <1>3, <1>6 DEF WriteKey
    <2>3. box.release \in Nat
      BY DEF TypeOK, Containers
    <2>4. box' \in Containers /\ req' \in [Requests -> RequestPcs] /\ claimed' \in BOOLEAN
      BY <1>6, <2>3, BoxType DEF WriteKey
    <2>5. cut' \in BOOLEAN
      BY <1>6 DEF WriteKey
    <2> QED
      BY <2>1, <2>2, <2>4, <2>5, <1>6 DEF WriteKey, MendOnly, Untouched, Stored, TypeOK, ToolsTypeOK
  <1>7. CASE RegisterFails(m)
    <2>1. keys' \in [held : KeyTables, known : KeyTables]
      BY <1>1, <1>3, <1>7 DEF RegisterFails, KeyTables
    <2>2. mend' \in [Menders -> Checks]
      BY <1>1, <1>3, <1>7 DEF RegisterFails
    <2>3. budget' \in Budgets
      BY <1>7, SpendType DEF RegisterFails, TypeOK
    <2> QED
      BY <2>1, <2>2, <2>3, <1>7 DEF RegisterFails, KeepContainer, Stored, TypeOK, ToolsTypeOK
  <1> QED
    BY <1>4, <1>5, <1>6, <1>7 DEF MendStep

LEMMA CronType ==
    ASSUME TypeOK, ToolsTypeOK, StartCron
    PROVE  TypeOK' /\ ToolsTypeOK'
  <1>1. <<"ui", "machine", "nginx", "firewall">> \in Seq(Names)
    BY DEF Names
  <1>2. mend' \in [Menders -> Checks]
    BY <1>1 DEF StartCron, ToolsTypeOK, Checks, Menders
  <1> QED
    BY <1>2 DEF StartCron, MendOnly, KeepContainer, Untouched, Stored, TypeOK, ToolsTypeOK

\* The steps of a restore before it replaces anything.
LEMMA SaveType ==
    ASSUME TypeOK, ToolsTypeOK,
           Confirm \/ StopStack \/ SaveDatabase \/ SaveFiles \/ SaveCrowdsec
    PROVE  TypeOK' /\ ToolsTypeOK'
  <1>1. /\ job \in Jobs /\ copy \in Copies /\ archive.crowdsec \in BOOLEAN /\ host \in HostStates
        /\ keys \in [held : KeyTables, known : KeyTables] /\ db \in Databases /\ disk \in Disks
    BY DEF TypeOK, ToolsTypeOK, Archives
  <1>2. CASE Confirm
    <2>1. job' \in Jobs
      BY <1>1, <1>2 DEF Confirm, Jobs, JobPcs
    <2> QED
      BY <2>1, <1>2 DEF Confirm, RestoreOnly, KeepContainer, Untouched, Stored, TypeOK, ToolsTypeOK
  <1>3. CASE StopStack
    <2>1. job' \in Jobs
      BY <1>1, <1>3 DEF StopStack, JobTo, Jobs, JobPcs
    <2>2. host' \in HostStates
      BY <1>1, <1>3 DEF StopStack, HostStates
    <2>3. box' \in Containers /\ req' \in [Requests -> RequestPcs] /\ claimed' \in BOOLEAN
      BY <1>3, BoxType DEF StopStack
    <2> QED
      BY <2>1, <2>2, <2>3, <1>3 DEF StopStack, RestoreOnly, Untouched, Stored, TypeOK, ToolsTypeOK
  <1>4. CASE SaveDatabase
    <2>1. job' \in Jobs
      BY <1>1, <1>4 DEF SaveDatabase, JobTo, Jobs, JobPcs
    <2>2. copy' \in Copies
      BY <1>1, <1>4 DEF SaveDatabase, Copies, Disks, Parts
    <2> QED
      BY <2>1, <2>2, <1>4 DEF SaveDatabase, SaveOnly, RestoreOnly, KeepContainer, Untouched, Stored,
        TypeOK, ToolsTypeOK
  <1>5. CASE SaveFiles
    <2>1. job' \in Jobs
      BY <1>1, <1>5 DEF SaveFiles, JobTo, Jobs, JobPcs
    <2>2. copy' \in Copies
      BY <1>1, <1>5 DEF SaveFiles, Copies, Disks, Parts
    <2> QED
      BY <2>1, <2>2, <1>5 DEF SaveFiles, SaveOnly, RestoreOnly, KeepContainer, Untouched, Stored,
        TypeOK, ToolsTypeOK
  <1>6. CASE SaveCrowdsec
    <2>1. job' \in Jobs
      BY <1>1, <1>6 DEF SaveCrowdsec, Jobs, JobPcs
    <2>2. copy' \in Copies
      BY <1>1, <1>6 DEF SaveCrowdsec, SavedCrowdsec, Copies, KeyTables, Names, Parts
    <2> QED
      BY <2>1, <2>2, <1>6 DEF SaveCrowdsec, SaveOnly, RestoreOnly, KeepContainer, Untouched, Stored,
        TypeOK, ToolsTypeOK
  <1> QED
    BY <1>2, <1>3, <1>4, <1>5, <1>6

\* A part that is replaced, by the archive or by the copy, or is lost.
LEMMA ReplaceType ==
    ASSUME TypeOK, ToolsTypeOK, ReplaceOnly,
           job' \in Jobs, db' \in Databases, disk' \in Disks, torn' \in BOOLEAN,
           keys' \in [held : KeyTables, known : KeyTables],
           origin' \in [Parts -> {"here", "archive", "lost"}]
    PROVE  TypeOK' /\ ToolsTypeOK'
  BY DEF ReplaceOnly, RestoreOnly, KeepContainer, Untouched, TypeOK, ToolsTypeOK

LEMMA LostType ==
    ASSUME TypeOK, ToolsTypeOK, NEW p \in Parts, Lost(p)
    PROVE  /\ db' \in Databases /\ disk' \in Disks /\ torn' \in BOOLEAN
           /\ keys' \in [held : KeyTables, known : KeyTables]
           /\ origin' \in [Parts -> {"here", "archive", "lost"}]
  <1>1. /\ keys \in [held : KeyTables, known : KeyTables] /\ db \in Databases /\ disk \in Disks
        /\ origin \in [Parts -> {"here", "archive", "lost"}]
    BY DEF TypeOK, ToolsTypeOK
  <1>2. WithHeld(keys, NoKeys) \in [held : KeyTables, known : KeyTables]
    BY <1>1, KeysType
  <1>3. [keys EXCEPT !.known = NoKeys] \in [held : KeyTables, known : KeyTables]
    BY <1>1, KeysType
  <1>4. [disk EXCEPT !.files = NoFiles] \in Disks
    BY <1>1, NoFilesType DEF Disks
  <1>5. keys' \in [held : KeyTables, known : KeyTables]
    BY <1>1, <1>2, <1>3 DEF Lost, Parts
  <1>6. db' \in Databases /\ disk' \in Disks
    BY <1>1, <1>4, EmptyType DEF Lost
  <1>7. origin' \in [Parts -> {"here", "archive", "lost"}]
    BY <1>1 DEF Lost
  <1> QED
    BY <1>5, <1>6, <1>7 DEF Lost, TypeOK

\* The steps that replace a part by that of the archive, or put it back.
LEMMA PartType ==
    ASSUME TypeOK, ToolsTypeOK,
           \/ ReplaceDatabase \/ ReplaceFiles \/ ReplaceCrowdsec
           \/ PutDatabase \/ PutFiles \/ PutCrowdsec
    PROVE  TypeOK' /\ ToolsTypeOK'
  <1>1. /\ job \in Jobs /\ copy \in Copies /\ archive \in Archives
        /\ keys \in [held : KeyTables, known : KeyTables] /\ db \in Databases /\ disk \in Disks
        /\ torn \in BOOLEAN /\ origin \in [Parts -> {"here", "archive", "lost"}]
    BY DEF TypeOK, ToolsTypeOK
  <1>2. CASE ReplaceDatabase
    <2>1. job' \in Jobs
      BY <1>1, <1>2 DEF ReplaceDatabase, JobTo, Jobs, JobPcs
    <2>2. db' \in Databases /\ torn' \in BOOLEAN
      BY <1>1, <1>2 DEF ReplaceDatabase, Fits, Archives
    <2>3. origin' \in [Parts -> {"here", "archive", "lost"}]
      BY <1>1, <1>2 DEF ReplaceDatabase
    <2> QED
      BY <1>1, <1>2, <2>1, <2>2, <2>3, ReplaceType DEF ReplaceDatabase
  <1>3. CASE ReplaceFiles
    <2>1. job' \in Jobs
      BY <1>1, <1>3 DEF ReplaceFiles, JobTo, Jobs, JobPcs
    <2>2. disk' \in Disks /\ torn' \in BOOLEAN
      BY <1>1, <1>3 DEF ReplaceFiles, Fits, Archives, Disks
    <2>3. keys' \in [held : KeyTables, known : KeyTables]
      BY <1>1, <1>3, KeysType DEF ReplaceFiles, Archives
    <2>4. origin' \in [Parts -> {"here", "archive", "lost"}]
      BY <1>1, <1>3 DEF ReplaceFiles
    <2> QED
      BY <1>1, <1>3, <2>1, <2>2, <2>3, <2>4, ReplaceType DEF ReplaceFiles
  <1>4. CASE ReplaceCrowdsec
    <2>1. job' \in Jobs
      BY <1>1, <1>4 DEF ReplaceCrowdsec, JobTo, Jobs, JobPcs
    <2>2. keys' \in [held : KeyTables, known : KeyTables]
      BY <1>1, <1>4 DEF ReplaceCrowdsec, Archives
    <2>3. origin' \in [Parts -> {"here", "archive", "lost"}]
      BY <1>1, <1>4 DEF ReplaceCrowdsec
    <2> QED
      BY <1>1, <1>4, <2>1, <2>2, <2>3, ReplaceType DEF ReplaceCrowdsec, Stored
  <1>5. CASE PutDatabase
    <2>1. job' \in Jobs
      BY <1>1, <1>5 DEF PutDatabase, JobTo, Jobs, JobPcs
    <2>2. db' \in Databases /\ disk' \in Disks
      BY <1>1, <1>5 DEF PutDatabase, Copies, Disks
    <2>3. torn' \in BOOLEAN /\ keys' = keys
      BY <1>5 DEF PutDatabase, Fits
    <2>4. origin' \in [Parts -> {"here", "archive", "lost"}]
      BY <1>1, <1>5 DEF PutDatabase
    <2> QED
      BY <1>1, <1>5, <2>1, <2>2, <2>3, <2>4, ReplaceType DEF PutDatabase
  <1>6. CASE PutFiles
    <2>1. job' \in Jobs
      BY <1>1, <1>6 DEF PutFiles, JobTo, Jobs, JobPcs
    <2>2. disk' \in Disks /\ torn' \in BOOLEAN
      BY <1>1, <1>6 DEF PutFiles, Fits, Copies, Disks
    <2>3. keys' \in [held : KeyTables, known : KeyTables]
      BY <1>1, <1>6, KeysType DEF PutFiles, Copies
    <2>4. origin' \in [Parts -> {"here", "archive", "lost"}]
      BY <1>1, <1>6 DEF PutFiles
    <2> QED
      BY <1>1, <1>6, <2>1, <2>2, <2>3, <2>4, ReplaceType DEF PutFiles
  <1>7. CASE PutCrowdsec
    <2>1. job' \in Jobs
      BY <1>1, <1>7 DEF PutCrowdsec, JobTo, Jobs, JobPcs
    <2>2. keys' \in [held : KeyTables, known : KeyTables]
      BY <1>1, <1>7 DEF PutCrowdsec, Copies, KeyTables
    <2>3. origin' \in [Parts -> {"here", "archive", "lost"}]
      BY <1>1, <1>7 DEF PutCrowdsec
    <2> QED
      BY <1>1, <1>7, <2>1, <2>2, <2>3, ReplaceType DEF PutCrowdsec, Stored
  <1> QED
    BY <1>2, <1>3, <1>4, <1>5, <1>6, <1>7

\* The steps that start the stack, probe it, and end the restore or its recovery.
LEMMA StartType ==
    ASSUME TypeOK, ToolsTypeOK,
           StartStack \/ KeysDone \/ ProbeRestored \/ Recover \/ RecoverStop \/ RecoverStart
    PROVE  TypeOK' /\ ToolsTypeOK'
  <1>1. job \in Jobs /\ host \in HostStates /\ mend \in [Menders -> Checks]
    BY DEF TypeOK, ToolsTypeOK
  <1>2. host.image \in Nat
    BY <1>1 DEF HostStates
  <1>3. CASE StartStack
    <2>1. job' \in Jobs
      BY <1>1, <1>3 DEF StartStack, JobTo, Jobs, JobPcs
    <2>2. host' \in HostStates
      BY <1>1, <1>3 DEF StartStack, HostStates
    <2>3. <<"ui", "machine", "firewall">> \in Seq(Names)
      BY DEF Names
    <2>4. mend' \in [Menders -> Checks]
      BY <1>1, <1>3, <2>3 DEF StartStack, Checks, Menders
    <2>5. box' \in Containers /\ req' \in [Requests -> RequestPcs] /\ claimed' \in BOOLEAN
      BY <1>2, <1>3, BoxType DEF StartStack
    <2> QED
      BY <2>1, <2>2, <2>4, <2>5, <1>3 DEF StartStack, RestoreOnly, Untouched, Stored, TypeOK, ToolsTypeOK
  <1>4. CASE KeysDone \/ ProbeRestored \/ Recover
    <2>1. job' \in Jobs
      <3>1. CASE KeysDone
        BY <1>1, <3>1 DEF KeysDone, JobTo, Jobs, JobPcs
      <3>2. CASE ProbeRestored
        BY <1>1, <3>2 DEF ProbeRestored, Serving, Jobs, JobPcs
      <3>3. CASE Recover
        BY <1>1, <3>3 DEF Recover, JobTo, Jobs, JobPcs
      <3> QED
        BY <1>4, <3>1, <3>2, <3>3
    <2>2. SaveOnly /\ UNCHANGED copy
      BY <1>4 DEF KeysDone, ProbeRestored, Recover
    <2> QED
      BY <2>1, <2>2 DEF SaveOnly, RestoreOnly, KeepContainer, Untouched, Stored, TypeOK, ToolsTypeOK
  <1>5. CASE RecoverStop
    <2>1. job' \in Jobs
      BY <1>1, <1>5 DEF RecoverStop, JobTo, Jobs, JobPcs
    <2>2. host' \in HostStates
      BY <1>1, <1>5 DEF RecoverStop, HostStates
    <2>3. box' \in Containers /\ req' \in [Requests -> RequestPcs] /\ claimed' \in BOOLEAN
      BY <1>5, BoxType DEF RecoverStop
    <2> QED
      BY <2>1, <2>2, <2>3, <1>5 DEF RecoverStop, RestoreOnly, Untouched, Stored, TypeOK, ToolsTypeOK
  <1>6. CASE RecoverStart
    <2>1. job' \in Jobs
      BY <1>1, <1>6 DEF RecoverStart, JobTo, Jobs, JobPcs
    <2>2. host' \in HostStates
      BY <1>1, <1>6 DEF RecoverStart, HostStates
    <2>3. box' \in Containers /\ req' \in [Requests -> RequestPcs] /\ claimed' \in BOOLEAN
      BY <1>2, <1>6, BoxType DEF RecoverStart
    <2> QED
      BY <2>1, <2>2, <2>3, <1>6 DEF RecoverStart, RestoreOnly, Untouched, Stored, TypeOK, ToolsTypeOK
  <1> QED
    BY <1>3, <1>4, <1>5, <1>6

\* The part a command of the restore is working on.
LEMMA PartAtType ==
    job.pc \in DOMAIN PartAt =>
        /\ job.pc \in {"replaceDatabase", "replaceFiles", "replaceCrowdsec", "putDatabase",
                       "putFiles", "putCrowdsec"}
        /\ PartAt[job.pc] \in Parts
  BY DEF PartAt, Parts

\* Commands that fail, and the end of the restore without its handler.
LEMMA FailType ==
    ASSUME TypeOK, ToolsTypeOK,
           ComposeFails \/ CommandFails \/ ReplaceFails \/ RecoverFails \/ RestoreKilled
    PROVE  TypeOK' /\ ToolsTypeOK'
  <1>1. /\ job \in Jobs /\ host \in HostStates /\ mend \in [Menders -> Checks]
        /\ keys \in [held : KeyTables, known : KeyTables] /\ db \in Databases /\ disk \in Disks
        /\ torn \in BOOLEAN /\ origin \in [Parts -> {"here", "archive", "lost"}]
    BY DEF TypeOK, ToolsTypeOK
  <1>2. CASE ComposeFails
    <2>1. job' \in Jobs
      BY <1>1, <1>2 DEF ComposeFails, JobTo, Jobs, JobPcs
    <2>2. host' \in HostStates
      BY <1>1, <1>2 DEF ComposeFails, JobAt, HostStates
    <2>3. host.image \in Nat
      BY <1>1 DEF HostStates
    <2>4. box' \in Containers /\ req' \in [Requests -> RequestPcs] /\ claimed' \in BOOLEAN
      BY <1>2, <2>3, BoxType DEF ComposeFails
    <2> QED
      BY <2>1, <2>2, <2>4, <1>2 DEF ComposeFails, RestoreOnly, Untouched, Stored, TypeOK, ToolsTypeOK
  <1>3. CASE CommandFails
    <2>1. job' \in Jobs
      BY <1>1, <1>3 DEF CommandFails, JobTo, Jobs, JobPcs
    <2>2. mend' \in [Menders -> Checks]
      BY <1>1, <1>3, EmptyType DEF CommandFails
    <2> QED
      BY <2>1, <2>2, <1>3 DEF CommandFails, RestoreOnly, KeepContainer, Untouched, Stored, TypeOK,
        ToolsTypeOK
  <1>4. CASE ReplaceFails \/ RecoverFails \/ RestoreKilled
    <2>1. ReplaceOnly
      BY <1>4 DEF ReplaceFails, RecoverFails, RestoreKilled
    <2>2. job' \in Jobs
      BY <1>1, <1>4 DEF ReplaceFails, RecoverFails, RestoreKilled, JobTo, Jobs, JobPcs
    <2>3. UNCHANGED <<Stored, torn, keys, origin>> \/ \E p \in Parts : Lost(p)
      BY <1>4, PartAtType DEF ReplaceFails, RecoverFails, RestoreKilled, JobAt, PartAt
    <2>4. CASE UNCHANGED <<Stored, torn, keys, origin>>
      BY <1>1, <2>1, <2>2, <2>4, ReplaceType DEF Stored
    <2>5. CASE \E p \in Parts : Lost(p)
      BY <2>1, <2>2, <2>5, LostType, ReplaceType
    <2> QED
      BY <2>3, <2>4, <2>5
  <1> QED
    BY <1>2, <1>3, <1>4

\* Each step keeps the types of the tools and of what they work on.
LEMMA ToolsTypeNext ==
    ASSUME TypeOK, ToolsTypeOK, [AllNext]_allVars
    PROVE  TypeOK' /\ ToolsTypeOK'
  <1>1. CASE Next /\ UNCHANGED toolVars
    BY <1>1, TypeNext DEF toolVars, ToolsTypeOK
  <1>2. CASE ToolStep
    BY <1>2, BackupType, CronType, MendType, SaveType, PartType, StartType, FailType
      DEF ToolStep, CronStep, RestoreStep, Menders
  <1>3. CASE UNCHANGED allVars
    BY <1>3 DEF allVars, vars, startVars, toolVars, TypeOK, ToolsTypeOK
  <1> QED
    BY <1>1, <1>2, <1>3 DEF AllNext

\* Every reachable state of the installation and of the tools is well-typed.
THEOREM MaintenanceTypeCorrect == AllSpec => [](TypeOK /\ ToolsTypeOK)
  <1>1. TypeOK /\ ToolsTypeOK /\ [AllNext]_allVars => (TypeOK /\ ToolsTypeOK)'
    BY ToolsTypeNext
  <1> QED
    BY ToolsTypeInit, <1>1, PTL DEF AllSpec

-----------------------------------------------------------------------------
(* The restore.                                                             *)

\* A script that is not under way, or was killed, takes no step.
LEMMA ScriptAlone ==
    ASSUME up.pc \in {"none", "killed"}, ~ChildRuns
    PROVE  ~HostStep
  <1>1. ~(Preflight \/ Stage \/ CopyRuntime \/ CopyDatabase \/ StopWriter \/ StartWriter \/ Seal)
    BY DEF Preflight, Stage, CopyRuntime, CopyDatabase, StopWriter, StartWriter, Seal, At
  <1>2. ~(Keep \/ Place \/ Ready \/ Candidate \/ InstallScript \/ Launch \/ Wait \/ Check \/ Complete)
    BY DEF Keep, Place, Ready, Candidate, InstallScript, Launch, Wait, Check, Complete, At
  <1>3. ~(StopChild \/ RestartService \/ ToRevert \/ ToCleanup \/ Close \/ Down \/ RestoreRuntime)
    BY DEF StopChild, RestartService, ToRevert, ToCleanup, Close, Down, RestoreRuntime, At
  <1>4. ~(RestoreDatabase \/ RestoreScript \/ RestartAll \/ CheckRestored \/ Cleanup)
    BY DEF RestoreDatabase, RestoreScript, RestartAll, CheckRestored, Cleanup, At
  <1>5. ~(Interrupted \/ RevertFails \/ Killed \/ Pin \/ Pull \/ Deploy \/ Deadline)
    BY DEF Interrupted, Working, RevertFails, Killed, Pin, Pull, Deploy, Deadline, ChildRuns
  <1> QED
    BY <1>1, <1>2, <1>3, <1>4, <1>5 DEF HostStep, UpdaterStep

\* A container that is stopped does not start by itself.
LEMMA OffStays ==
    ASSUME box.pc = "off", ContainerNext
    PROVE  box' = box
  <1>1. ~BootStep
    BY DEF BootStep, Begin, Migrate, DefaultUser, DropToken, EnsureSetupToken, CreateToken,
      WriteToken, Regenerate, WriteHash, Load
  <1>2. ASSUME NEW r \in Requests, SetupStep(r) \/ SetupFault(r) PROVE box' = box
    BY <1>2 DEF SetupStep, Ask, Claim, Recheck, Verify, CreateUser, Unlink, SetupFault
  <1>3. ASSUME NEW h \in Hosts, SaveHost(h) PROVE box' = box
    BY <1>3 DEF SaveHost
  <1>4. ~(BootFault \/ BackendCrash \/ ContainerRestart)
    BY DEF BootFault, BackendCrash, ContainerRestart, Booting, Serving
  <1> QED
    BY <1>1, <1>2, <1>3, <1>4 DEF ContainerNext, Mishap

\* Nothing is being restored, and nothing is replaced, when the tools begin.
LEMMA RestoreInit == AllInit => RestoreInv
  <1> SUFFICES ASSUME AllInit
               PROVE  RestoreInv
    OBVIOUS
  <1>1. /\ job.pc \in {"none", "asked"} /\ ~job.started
        /\ origin = Here
    BY DEF AllInit, ToolsInit, Here
  <1> QED
    BY <1>1 DEF RestoreInv, AloneInv, CopyInv, OriginInv, OffInv, Replacing, Stopped

\* The steps of the container and of the update: beside a restore there are only those
\* of a container, and they do not start one that is stopped.
LEMMA RestoreContainer ==
    ASSUME RestoreInv, Next, UNCHANGED toolVars
    PROVE  RestoreInv'
  <1>1. UNCHANGED <<job, copy, origin>>
    BY DEF toolVars
  <1>2. CopyInv'
    BY <1>1 DEF RestoreInv, CopyInv
  <1>3. CASE ContainerNext /\ UNCHANGED <<host, dirs, up, child, order, torn>>
    <2>1. box'.pc # "off" => box.pc # "off"
      BY <1>3, OffStays
    <2>2. box.pc = "off" => box'.pc = "off"
      BY <1>3, OffStays
    <2>3. AloneInv' /\ OffInv'
      BY <1>1, <1>3, <2>2 DEF RestoreInv, AloneInv, OffInv, ChildRuns
    <2>4. OriginInv'
      BY <1>1, <2>1 DEF RestoreInv, OriginInv, Restored
    <2> QED
      BY <1>2, <2>3, <2>4 DEF RestoreInv
  <1>4. CASE HostStep
    <2>1. job.pc \in {"none", "asked"}
      BY <1>4, ScriptAlone DEF RestoreInv, AloneInv
    <2>2. ~job.started /\ origin = Here
      BY <2>1 DEF RestoreInv, CopyInv, OriginInv
    <2> QED
      BY <1>1, <1>2, <2>1, <2>2 DEF RestoreInv, AloneInv, OriginInv, OffInv, Stopped
  <1> QED
    BY <1>3, <1>4 DEF Next

\* The backup and the check of the keys.  The check restarts only what runs.
LEMMA RestoreBeside ==
    ASSUME RestoreInv,
           \/ BackupStep \/ BackupFails \/ StartCron
           \/ \E m \in Menders : MendStep(m) \/ RegisterFails(m)
    PROVE  RestoreInv'
  <1>1. UNCHANGED <<job, copy, origin, up, child>>
    BY DEF BackupStep, BackupFails, StartBackup, BackupDatabase, BackupCrowdsec, Pack, BackupOnly,
      StartCron, MendStep, CheckKey, RegisterKey, WriteKey, RegisterFails, MendOnly, Untouched
  <1>2. box' = box \/ (box.pc # "off" /\ box'.pc # "off")
    <2>1. ASSUME NEW m \in Menders, WriteKey(m)
          PROVE  box' = box \/ (box.pc # "off" /\ box'.pc # "off")
      <3>1. box' = box \/ (box.pc # "off" /\ Recreate(box.release))
        BY <2>1 DEF WriteKey, KeepContainer
      <3> QED
        BY <3>1 DEF Recreate, Started, Off
    <2>2. ASSUME NEW m \in Menders, CheckKey(m) \/ RegisterKey(m) \/ RegisterFails(m)
          PROVE  box' = box
      BY <2>2 DEF CheckKey, RegisterKey, RegisterFails, KeepContainer
    <2>3. BackupStep \/ BackupFails \/ StartCron => box' = box
      BY DEF BackupStep, BackupFails, StartBackup, BackupDatabase, BackupCrowdsec, Pack, BackupOnly,
        StartCron, KeepContainer
    <2>4. CASE \E m \in Menders : MendStep(m) \/ RegisterFails(m)
      BY <2>1, <2>2, <2>4 DEF MendStep
    <2> QED
      BY <2>3, <2>4
  <1>3. OffInv' /\ AloneInv' /\ CopyInv'
    BY <1>1, <1>2 DEF RestoreInv, OffInv, AloneInv, CopyInv, ChildRuns
  <1>4. OriginInv'
    BY <1>1, <1>2 DEF RestoreInv, OriginInv, Restored
  <1> QED
    BY <1>3, <1>4 DEF RestoreInv

\* What a command of the restore changes of the variables of the script.
LEMMA JobStep ==
    ASSUME job \in Jobs, NEW pc \in JobPcs, JobTo(pc)
    PROVE  job'.pc = pc /\ job'.crowdsec = job.crowdsec /\ job'.started = job.started
  BY DEF JobTo, Jobs

\* The lock keeps the update away until the restore has ended, and after that.
LEMMA AloneStep ==
    ASSUME AloneInv, RestoreStep \/ ComposeFails \/ CommandFails \/ ReplaceFails \/ RecoverFails
                       \/ RestoreKilled
    PROVE  AloneInv'
  <1>1. UNCHANGED <<up, child>>
    BY DEF RestoreStep, Confirm, StopStack, SaveDatabase, SaveFiles, SaveCrowdsec, SaveOnly,
      ReplaceDatabase, ReplaceFiles, ReplaceCrowdsec, ReplaceOnly, StartStack, MendStep, CheckKey,
      RegisterKey, WriteKey, MendOnly, RegisterFails, KeysDone, ProbeRestored, Recover, RecoverStop,
      PutDatabase, PutFiles, PutCrowdsec, RecoverStart, ComposeFails, CommandFails, ReplaceFails,
      RecoverFails, RestoreKilled, Untouched
  <1>2. CASE Confirm
    BY <1>1, <1>2 DEF Confirm, LockFree, AloneInv, ChildRuns
  <1>3. CASE MendStep("restore") \/ RegisterFails("restore")
    <2>1. job' = job
      BY <1>3 DEF MendStep, CheckKey, RegisterKey, WriteKey, MendOnly, RegisterFails
    <2> QED
      BY <1>1, <2>1 DEF AloneInv, ChildRuns
  <1>4. CASE ~Confirm /\ ~(MendStep("restore") \/ RegisterFails("restore"))
    <2>1. job.pc \notin {"none", "asked"}
      BY <1>4 DEF RestoreStep, StopStack, SaveDatabase, SaveFiles, SaveCrowdsec, ReplaceDatabase,
        ReplaceFiles, ReplaceCrowdsec, StartStack, KeysDone, ProbeRestored, Recover, RecoverStop,
        PutDatabase, PutFiles, PutCrowdsec, RecoverStart, ComposeFails, CommandFails, ReplaceFails,
        RecoverFails, RestoreKilled, JobAt, Restoring
    <2> QED
      BY <1>1, <2>1 DEF AloneInv, ChildRuns
  <1> QED
    BY <1>2, <1>3, <1>4

\* From the confirmation to the copy that is marked complete.
LEMMA RestoreSaves ==
    ASSUME ToolsTypeOK, RestoreInv,
           Confirm \/ StopStack \/ SaveDatabase \/ SaveFiles \/ SaveCrowdsec
    PROVE  CopyInv' /\ OriginInv' /\ OffInv'
  <1>1. job \in Jobs /\ copy \in Copies
    BY DEF ToolsTypeOK
  <1>2. CopyInv /\ OriginInv /\ OffInv
    BY DEF RestoreInv
  <1>3. CASE Confirm
    <2>1. job'.pc = "stop" /\ job'.started = job.started /\ UNCHANGED <<copy, origin, box>>
      BY <1>1, <1>3 DEF Confirm, Jobs, KeepContainer
    <2>2. ~job.started /\ origin = Here
      BY <1>2, <1>3 DEF Confirm, JobAt, CopyInv, OriginInv
    <2> QED
      BY <1>2, <2>1, <2>2 DEF CopyInv, OriginInv, OffInv, Replacing, Stopped
  <1>4. CASE StopStack
    <2>1. job'.pc = "saveDatabase" /\ job'.started = job.started /\ UNCHANGED <<copy, origin>>
      BY <1>1, <1>4, JobStep DEF StopStack, JobPcs
    <2>2. box'.pc = "off"
      BY <1>4 DEF StopStack, StopContainer, Off
    <2>3. ~job.started
      BY <1>2, <1>4 DEF StopStack, JobAt, CopyInv
    <2> QED
      BY <1>2, <2>1, <2>2, <2>3 DEF CopyInv, OriginInv, OffInv, Replacing, Stopped
  <1>5. CASE SaveDatabase
    <2>1. job'.pc = "saveFiles" /\ job'.started = job.started /\ UNCHANGED <<box, origin>>
      BY <1>1, <1>5, JobStep DEF SaveDatabase, SaveOnly, KeepContainer, JobPcs
    <2>2. copy'.done = copy.done \cup {"database"}
      BY <1>1, <1>5 DEF SaveDatabase, Copies
    <2>3. box.pc = "off"
      BY <1>2, <1>5 DEF SaveDatabase, JobAt, OffInv, Stopped
    <2>4. ~job.started
      BY <1>2, <1>5 DEF SaveDatabase, JobAt, CopyInv
    <2> QED
      BY <1>2, <2>1, <2>2, <2>3, <2>4 DEF CopyInv, OriginInv, OffInv, Replacing
  <1>6. CASE SaveFiles
    <2>1. job'.pc = "saveCrowdsec" /\ job'.started = job.started /\ UNCHANGED <<box, origin>>
      BY <1>1, <1>6, JobStep DEF SaveFiles, SaveOnly, KeepContainer, JobPcs
    <2>2. copy'.done = copy.done \cup {"files"} /\ "database" \in copy.done
      BY <1>1, <1>2, <1>6 DEF SaveFiles, JobAt, CopyInv, Copies
    <2>3. box.pc = "off"
      BY <1>2, <1>6 DEF SaveFiles, JobAt, OffInv, Stopped
    <2>4. ~job.started
      BY <1>2, <1>6 DEF SaveFiles, JobAt, CopyInv
    <2> QED
      BY <1>2, <2>1, <2>2, <2>3, <2>4 DEF CopyInv, OriginInv, OffInv, Replacing
  <1>7. CASE SaveCrowdsec
    <2>1. job'.pc = "replaceDatabase" /\ job'.started /\ UNCHANGED <<box, origin>>
      BY <1>1, <1>7 DEF SaveCrowdsec, SaveOnly, KeepContainer, Jobs
    <2>2. copy'.done = copy.done \cup {"crowdsec"} /\ {"database", "files"} \subseteq copy.done
      BY <1>1, <1>2, <1>7 DEF SaveCrowdsec, SavedCrowdsec, JobAt, CopyInv, Copies
    <2>4. origin = Here
      BY <1>2, <1>7 DEF SaveCrowdsec, JobAt, CopyInv, OriginInv
    <2>3. box.pc = "off"
      BY <1>2, <1>7 DEF SaveCrowdsec, JobAt, OffInv, Stopped
    <2> QED
      BY <1>2, <2>1, <2>2, <2>3, <2>4 DEF CopyInv, OriginInv, OffInv, Parts
  <1> QED
    BY <1>3, <1>4, <1>5, <1>6, <1>7

\* The three replacements, and the start on what they have put in place.
LEMMA RestoreReplaces ==
    ASSUME ToolsTypeOK, RestoreInv,
           \/ ReplaceDatabase \/ ReplaceFiles \/ ReplaceCrowdsec \/ StartStack \/ KeysDone
           \/ ProbeRestored
    PROVE  CopyInv' /\ OriginInv' /\ OffInv'
  <1>1. job \in Jobs /\ origin \in [Parts -> {"here", "archive", "lost"}]
    BY DEF ToolsTypeOK
  <1>2. CopyInv /\ OriginInv /\ OffInv
    BY DEF RestoreInv
  <1>3. UNCHANGED copy
    BY DEF ReplaceDatabase, ReplaceFiles, ReplaceCrowdsec, ReplaceOnly, StartStack, KeysDone,
      ProbeRestored
  <1>4. CASE ReplaceDatabase
    <2>1. job'.pc = "replaceFiles" /\ job'.started = job.started /\ UNCHANGED box
      BY <1>1, <1>4, JobStep DEF ReplaceDatabase, ReplaceOnly, KeepContainer, JobPcs
    <2>2. job.started /\ box.pc = "off" /\ origin = Here
      BY <1>2, <1>4 DEF ReplaceDatabase, JobAt, CopyInv, OriginInv, OffInv, Replacing, Stopped
    <2>3. origin' = [Here EXCEPT !["database"] = "archive"]
      BY <1>4, <2>2 DEF ReplaceDatabase
    <2> QED
      BY <1>2, <1>3, <2>1, <2>2, <2>3 DEF CopyInv, OriginInv, OffInv
  <1>5. CASE ReplaceFiles
    <2>1. job'.pc = "replaceCrowdsec" /\ job'.started = job.started /\ UNCHANGED box
      BY <1>1, <1>5, JobStep DEF ReplaceFiles, ReplaceOnly, KeepContainer, JobPcs
    <2>2. job.started /\ box.pc = "off" /\ origin = [Here EXCEPT !["database"] = "archive"]
      BY <1>2, <1>5 DEF ReplaceFiles, JobAt, CopyInv, OriginInv, OffInv, Replacing, Stopped
    <2>3. origin' = [Here EXCEPT !["database"] = "archive", !["files"] = "archive"]
      BY <1>5, <2>2 DEF ReplaceFiles
    <2> QED
      BY <1>2, <1>3, <2>1, <2>2, <2>3 DEF CopyInv, OriginInv, OffInv
  <1>6. CASE ReplaceCrowdsec
    <2>1. /\ job'.pc = "start" /\ job'.started = job.started /\ job'.crowdsec = job.crowdsec
          /\ UNCHANGED box
      BY <1>1, <1>6, JobStep DEF ReplaceCrowdsec, ReplaceOnly, KeepContainer, JobPcs
    <2>2. /\ job.started /\ box.pc = "off"
          /\ origin = [Here EXCEPT !["database"] = "archive", !["files"] = "archive"]
      BY <1>2, <1>6 DEF ReplaceCrowdsec, JobAt, CopyInv, OriginInv, OffInv, Replacing, Stopped
    <2>3. origin' = Restored'
      <3>1. origin' = IF job.crowdsec THEN [origin EXCEPT !["crowdsec"] = "archive"] ELSE origin
        BY <1>6 DEF ReplaceCrowdsec
      <3> QED
        BY <2>1, <2>2, <3>1 DEF Here, Restored, Parts
    <2> QED
      BY <1>2, <1>3, <2>1, <2>2, <2>3 DEF CopyInv, OriginInv, OffInv
  <1>7. CASE StartStack \/ KeysDone \/ ProbeRestored
    <2>1. /\ job'.pc \in {"keys", "probe", "recover", "ended"} /\ job'.started = job.started
          /\ job'.crowdsec = job.crowdsec
      BY <1>1, <1>7, JobStep DEF StartStack, KeysDone, ProbeRestored, Serving, JobPcs, Jobs
    <2>2. UNCHANGED origin
      BY <1>7 DEF StartStack, KeysDone, ProbeRestored, SaveOnly
    <2>3. job.started /\ origin = Restored
      BY <1>2, <1>7 DEF StartStack, KeysDone, ProbeRestored, JobAt, CopyInv, OriginInv, Replacing
    <2>4. origin' = Restored'
      BY <2>1, <2>2, <2>3 DEF Restored
    <2> QED
      BY <1>2, <1>3, <2>1, <2>3, <2>4 DEF CopyInv, OriginInv, OffInv, Stopped
  <1> QED
    BY <1>4, <1>5, <1>6, <1>7

\* The exit handler: what was replaced is put back before the container starts.
LEMMA RestoreRecovers ==
    ASSUME ToolsTypeOK, RestoreInv,
           Recover \/ RecoverStop \/ PutDatabase \/ PutFiles \/ PutCrowdsec \/ RecoverStart
    PROVE  CopyInv' /\ OriginInv' /\ OffInv'
  <1>1. job \in Jobs /\ origin \in [Parts -> {"here", "archive", "lost"}]
    BY DEF ToolsTypeOK
  <1>2. CopyInv /\ OriginInv /\ OffInv
    BY DEF RestoreInv
  <1>3. UNCHANGED copy
    BY DEF Recover, RecoverStop, PutDatabase, PutFiles, PutCrowdsec, RecoverStart, ReplaceOnly
  <1>4. CASE Recover
    <2>1. /\ job'.pc = IF job.started THEN "recoverStop" ELSE "recoverStart"
          /\ job'.started = job.started /\ job'.crowdsec = job.crowdsec
      BY <1>1, <1>4, JobStep DEF Recover, JobPcs
    <2>2. UNCHANGED <<box, origin>>
      BY <1>4 DEF Recover, SaveOnly, KeepContainer
    <2> QED
      BY <1>1, <1>2, <1>3, <2>1, <2>2 DEF CopyInv, OriginInv, OffInv, Restored, Replacing, Stopped, Jobs
  <1>5. CASE RecoverStop
    <2>1. job'.pc = "putDatabase" /\ job'.started = job.started
      BY <1>1, <1>5, JobStep DEF RecoverStop, JobPcs
    <2>2. box'.pc = "off" /\ UNCHANGED origin
      BY <1>5 DEF RecoverStop, StopContainer, Off
    <2>3. job.started
      BY <1>2, <1>5 DEF RecoverStop, JobAt, CopyInv, Replacing
    <2> QED
      BY <1>2, <1>3, <2>1, <2>2, <2>3 DEF CopyInv, OriginInv, OffInv
  <1>6. CASE PutDatabase
    <2>1. job'.pc = "putFiles" /\ job'.started = job.started /\ UNCHANGED box
      BY <1>1, <1>6, JobStep DEF PutDatabase, ReplaceOnly, KeepContainer, JobPcs
    <2>2. job.started /\ box.pc = "off"
      BY <1>2, <1>6 DEF PutDatabase, JobAt, CopyInv, OffInv, Replacing, Stopped
    <2>3. origin'["database"] = "here"
      BY <1>1, <1>6 DEF PutDatabase, Parts
    <2> QED
      BY <1>2, <1>3, <2>1, <2>2, <2>3 DEF CopyInv, OriginInv, OffInv
  <1>7. CASE PutFiles
    <2>1. job'.pc = "putCrowdsec" /\ job'.started = job.started /\ UNCHANGED box
      BY <1>1, <1>7, JobStep DEF PutFiles, ReplaceOnly, KeepContainer, JobPcs
    <2>2. job.started /\ box.pc = "off" /\ origin["database"] = "here"
      BY <1>2, <1>7 DEF PutFiles, JobAt, CopyInv, OriginInv, OffInv, Replacing, Stopped
    <2>3. origin'["database"] = "here" /\ origin'["files"] = "here"
      BY <1>1, <1>7, <2>2 DEF PutFiles, Parts
    <2> QED
      BY <1>2, <1>3, <2>1, <2>2, <2>3 DEF CopyInv, OriginInv, OffInv
  <1>8. CASE PutCrowdsec
    <2>1. job'.pc = "recoverStart" /\ job'.started = job.started /\ UNCHANGED box
      BY <1>1, <1>8, JobStep DEF PutCrowdsec, ReplaceOnly, KeepContainer, JobPcs
    <2>2. /\ job.started /\ box.pc = "off"
          /\ origin["database"] = "here" /\ origin["files"] = "here"
      BY <1>2, <1>8 DEF PutCrowdsec, JobAt, CopyInv, OriginInv, OffInv, Replacing, Stopped
    <2>3. origin' = Here
      BY <1>1, <1>8, <2>2 DEF PutCrowdsec, Here, Parts
    <2> QED
      BY <1>2, <1>3, <2>1, <2>2, <2>3 DEF CopyInv, OriginInv, OffInv, Stopped
  <1>9. CASE RecoverStart
    <2>1. job'.pc = "ended" /\ job'.started = job.started
      BY <1>1, <1>9, JobStep DEF RecoverStart, JobPcs
    <2>2. origin = Here /\ UNCHANGED origin
      BY <1>2, <1>9 DEF RecoverStart, JobAt, OriginInv
    <2> QED
      BY <1>2, <1>3, <2>1, <2>2 DEF CopyInv, OriginInv, OffInv, Replacing, Stopped
  <1> QED
    BY <1>4, <1>5, <1>6, <1>7, <1>8, <1>9

\* A part can be lost only while its copy exists and nothing runs on it.
LEMMA LostKeeps ==
    ASSUME job.pc \in DOMAIN PartAt, RestoreInv
    PROVE  job.started /\ box.pc = "off"
  BY PartAtType DEF RestoreInv, CopyInv, OffInv, Replacing, Stopped

\* Whatever fails, and whenever the script is killed.
LEMMA RestoreFailing ==
    ASSUME ToolsTypeOK, RestoreInv,
           ComposeFails \/ CommandFails \/ ReplaceFails \/ RecoverFails \/ RestoreKilled
    PROVE  CopyInv' /\ OriginInv' /\ OffInv'
  <1>1. job \in Jobs /\ origin \in [Parts -> {"here", "archive", "lost"}]
    BY DEF ToolsTypeOK
  <1>2. CopyInv /\ OriginInv /\ OffInv
    BY DEF RestoreInv
  <1>3. UNCHANGED copy
    BY DEF ComposeFails, CommandFails, ReplaceFails, RecoverFails, RestoreKilled, ReplaceOnly
  <1>4. /\ job'.pc \in {"recover", "ended", "killed"} /\ job'.started = job.started
        /\ job'.crowdsec = job.crowdsec
    BY <1>1, JobStep DEF ComposeFails, CommandFails, ReplaceFails, RecoverFails, RestoreKilled, JobPcs
  <1>5. CopyInv' /\ OffInv'
    BY <1>2, <1>3, <1>4 DEF CopyInv, OffInv, Replacing, Stopped
  <1>6. (~job.started => origin' = Here) /\ (box'.pc # "off" => origin' \in {Here, Restored})
    <2>1. CASE ComposeFails
      <3>1. UNCHANGED origin
        BY <2>1 DEF ComposeFails
      <3>2. job.pc = "stop" \/ job.pc = "start"
        BY <2>1 DEF ComposeFails
      <3>3. job.pc = "stop" => origin = Here
        BY <1>2 DEF CopyInv, OriginInv
      <3>4. job.pc = "start" => origin = Restored /\ job.started
        BY <1>2 DEF CopyInv, OriginInv, Replacing
      <3> QED
        BY <3>1, <3>2, <3>3, <3>4
    <2>2. CASE CommandFails
      BY <1>2, <2>2 DEF CommandFails, KeepContainer, OriginInv
    <2>3. CASE ReplaceFails \/ RecoverFails \/ RestoreKilled
      <3>1. UNCHANGED box
        BY <2>3 DEF ReplaceFails, RecoverFails, RestoreKilled, ReplaceOnly, KeepContainer
      <3>2. UNCHANGED origin \/ job.pc \in DOMAIN PartAt
        BY <2>3 DEF ReplaceFails, RecoverFails, RestoreKilled, JobAt, PartAt
      <3>3. CASE UNCHANGED origin
        BY <1>2, <3>1, <3>3 DEF OriginInv
      <3>4. CASE job.pc \in DOMAIN PartAt
        BY <3>1, <3>4, LostKeeps
      <3> QED
        BY <3>2, <3>3, <3>4
    <2> QED
      BY <2>1, <2>2, <2>3
  <1>7. OriginInv'
    BY <1>4, <1>6 DEF OriginInv, Restored
  <1> QED
    BY <1>5, <1>7

\* Each step keeps account of where the data comes from.
LEMMA RestoreNext ==
    ASSUME ToolsTypeOK, RestoreInv, [AllNext]_allVars
    PROVE  RestoreInv'
  <1>1. CASE Next /\ UNCHANGED toolVars
    BY <1>1, RestoreContainer
  <1>2. CASE BackupStep \/ BackupFails \/ CronStep \/ MendStep("restore") \/ RegisterFails("restore")
    BY <1>2, RestoreBeside DEF CronStep, Menders
  <1>3. CASE \/ Confirm \/ StopStack \/ SaveDatabase \/ SaveFiles \/ SaveCrowdsec
             \/ ReplaceDatabase \/ ReplaceFiles \/ ReplaceCrowdsec \/ StartStack \/ KeysDone
             \/ ProbeRestored \/ Recover \/ RecoverStop \/ PutDatabase \/ PutFiles \/ PutCrowdsec
             \/ RecoverStart
             \/ ComposeFails \/ CommandFails \/ ReplaceFails \/ RecoverFails \/ RestoreKilled
    <2>1. AloneInv'
      BY <1>3, AloneStep DEF RestoreInv, RestoreStep
    <2>2. CopyInv' /\ OriginInv' /\ OffInv'
      BY <1>3, RestoreSaves, RestoreReplaces, RestoreRecovers, RestoreFailing
    <2> QED
      BY <2>1, <2>2 DEF RestoreInv
  <1>4. CASE UNCHANGED allVars
    BY <1>4 DEF allVars, vars, startVars, toolVars, RestoreInv, AloneInv, CopyInv, OriginInv, OffInv,
      ChildRuns, Restored
  <1> QED
    BY <1>1, <1>2, <1>3, <1>4 DEF AllNext, ToolStep, RestoreStep

\* The container never runs on a mixture of two installations, and whatever is replaced
\* can be put back: whichever commands fail, of the restore and of its recovery, whenever
\* it is killed, and whatever the backup and the daily check of the keys do beside it.
THEOREM RestoreTheorem == AllSpec => []RestoreWhole
  <1>1. ToolsTypeOK /\ RestoreInv /\ [AllNext]_allVars => RestoreInv'
    BY RestoreNext
  <1>2. ToolsTypeOK /\ RestoreInv => RestoreWhole
    <2> SUFFICES ASSUME ToolsTypeOK, RestoreInv
                 PROVE  RestoreWhole
      OBVIOUS
    <2>1. \A p \in Parts : origin[p] # "here" => p \in copy.done
      BY DEF RestoreInv, CopyInv, OriginInv, Here
    <2>2. box.pc # "off" => origin \in {[p \in Parts |-> "here"], Restored}
      BY DEF RestoreInv, OriginInv, Here
    <2> QED
      BY <2>1, <2>2 DEF RestoreWhole
  <1> QED
    BY RestoreInit, MaintenanceTypeCorrect, <1>1, <1>2, PTL DEF AllSpec
-----------------------------------------------------------------------------
(* The update and the start, beside the tools.                              *)

\* A container that is stopped takes no step: nobody asks it.
LEMMA OffStill ==
    ASSUME box.pc = "off", SetupInv
    PROVE  ~ContainerNext
  <1>1. ~BootStep
    BY DEF BootStep, Begin, Migrate, DefaultUser, DropToken, EnsureSetupToken, CreateToken,
      WriteToken, Regenerate, WriteHash, Load
  <1>2. ~Serving /\ ~Booting
    BY DEF Serving, Booting
  <1>3. \A r \in Requests : ~Asking(r)
    BY <1>2 DEF SetupInv
  <1>4. ASSUME NEW r \in Requests PROVE ~SetupStep(r) /\ ~SetupFault(r)
    BY <1>2, <1>3 DEF SetupStep, Ask, Claim, Recheck, Verify, CreateUser, Unlink, SetupFault, Asking
  <1>5. ~(\E h \in Hosts : SaveHost(h)) /\ ~BootFault /\ ~BackendCrash /\ ~ContainerRestart
    BY <1>2 DEF SaveHost, BootFault, BackendCrash, ContainerRestart
  <1> QED
    BY <1>1, <1>4, <1>5 DEF ContainerNext, Mishap

\* The container stores no other fingerprint than its own.
LEMMA HashStep ==
    ASSUME TypeOK, ContainerNext
    PROVE  disk'.hash = disk.hash \/ disk'.hash = box.release
  <1>1. disk \in Disks
    BY DEF TypeOK
  <1>2. CASE Begin \/ DropToken \/ EnsureSetupToken \/ CreateToken \/ WriteToken
    BY <1>1, <1>2 DEF Begin, DropToken, EnsureSetupToken, CreateToken, WriteToken, TokenDropped, Disks
  <1>3. CASE \E h \in Hosts : Regenerate(h) \/ SaveHost(h)
    BY <1>1, <1>3 DEF Regenerate, SaveHost, Disks
  <1>4. CASE WriteHash
    BY <1>1, <1>4 DEF WriteHash, Disks
  <1>5. CASE \E r \in Requests : SetupStep(r) \/ SetupFault(r)
    BY <1>1, <1>5 DEF SetupStep, Ask, Claim, Recheck, Verify, CreateUser, Unlink, SetupFault,
      TokenDropped, Disks
  <1>6. CASE Migrate \/ DefaultUser \/ Load \/ BootFault \/ BackendCrash \/ ContainerRestart
    BY <1>6 DEF Migrate, DefaultUser, Load, BootFault, BackendCrash, ContainerRestart
  <1> QED
    BY <1>2, <1>3, <1>4, <1>5, <1>6 DEF ContainerNext, BootStep, Mishap

\* A new container is of the release it is made with, and runs.
LEMMA Made ==
    ASSUME NEW release, Recreate(release)
    PROVE  box'.release = release /\ box'.pc = "begin"
  BY DEF Recreate, Started, Off

\* A container that is stopped keeps its release.
LEMMA StoppedBox ==
    ASSUME StopContainer
    PROVE  box'.release = box.release /\ box'.pc = "off"
  BY DEF StopContainer, Off

\* Each step keeps the image that of the container, but for a pinned one.
LEMMA ImageNext ==
    ASSUME TypeOK, ControlInv, SnapshotInv, FilesInv, SettleInv, ImageInv, [Next]_vars
    PROVE  ImageInv'
  <1> USE DEF ImageInv
  <1>1. CASE ContainerNext /\ UNCHANGED <<host, dirs, up, child, order, torn>>
    BY <1>1, BoxStep, HashStep
  <1>2. CASE HostStep
    <2>1. CASE Preflight \/ Stage \/ CopyRuntime \/ CopyDatabase \/ StopWriter \/ StartWriter \/ Seal \/
      Keep \/ Place \/ Ready \/ Candidate \/ InstallScript \/ Launch \/ Wait \/ Check \/ Complete \/
      StopChild \/ RestartService \/ ToRevert \/ ToCleanup \/ Close \/ RestoreScript \/ CheckRestored \/
      Cleanup \/ Interrupted \/ Killed \/ Pull \/ Deadline
      <3>1. box' = box /\ disk' = disk
        BY <2>1 DEF Preflight, Stage, CopyRuntime, CopyDatabase, StopWriter, StartWriter, Seal, Keep, Place,
          Ready, Candidate, InstallScript, Launch, Wait, Check, Complete, StopChild, RestartService,
          ToRevert, ToCleanup, Close, RestoreScript, CheckRestored, Cleanup, Interrupted, Killed, Pull,
          Deadline, KeepContainer, Stored
      <3>2. host'.image = host.image
        <4>1. CASE StopWriter \/ StartWriter \/ InstallScript \/ RestartService \/ Close \/ RestoreScript
                   \/ CheckRestored
          BY <4>1 DEF StopWriter, StartWriter, InstallScript, RestartService, Close, RestoreScript,
            CheckRestored, TypeOK, HostStates
        <4>2. CASE UNCHANGED host
          BY <4>2
        <4> QED
          BY <2>1, <4>1, <4>2 DEF Preflight, Stage, CopyRuntime, CopyDatabase, Seal, Keep, Place, Ready,
            Candidate, Launch, Wait, Check, Complete, StopChild, ToRevert, ToCleanup, Cleanup,
            Interrupted, Killed, Pull, Deadline
      <3> QED
        BY <3>1, <3>2
    <2>2. CASE Down
      BY <2>2, StoppedBox DEF Down, TypeOK, HostStates
    <2>3. CASE RestoreRuntime
      <3>1. up.pc = "restore" /\ box' = box /\ host'.image = dirs.lastGood.image
        BY <2>3 DEF RestoreRuntime, At, KeepContainer, TypeOK, HostStates
      <3>2. box.pc = "off" /\ up.ready
        BY <3>1 DEF ControlInv, SnapshotInv, Emptied, Rollback
      <3>3. dirs.lastGood.image = Installed
        BY <3>2 DEF SettleInv, KeptInv, Undone
      <3> QED
        BY <3>1, <3>2, <3>3, ReleaseAssumption
    <2>4. CASE RestoreDatabase
      BY <2>4 DEF RestoreDatabase, KeepContainer
    <2>5. CASE RestartAll
      BY <2>5, Made DEF RestartAll, TypeOK, HostStates
    <2>6. CASE RevertFails
      <3>1. host'.image = host.image /\ disk' = disk
        BY <2>6 DEF RevertFails, Stored, TypeOK, HostStates
      <3>2. box' = box \/ box'.release = host.image
        BY <2>6, Made DEF RevertFails, KeepContainer
      <3> QED
        BY <2>6, <3>1, <3>2, Made DEF RevertFails, KeepContainer
    <2>7. CASE Pin
      <3>1. ChildRuns /\ host'.image = Deployed /\ UNCHANGED <<box, disk>>
        BY <2>7 DEF Pin, ChildRuns, KeepContainer, Stored, TypeOK, HostStates
      <3>2. box.release = Installed /\ disk.hash \in {0, Installed}
        BY <3>1 DEF ControlInv, FilesInv, Undeployed
      <3> QED
        BY <3>1, <3>2, DeployedType
    <2>8. CASE Deploy
      <3>1. host'.image = host.image
        BY <2>8 DEF Deploy, TypeOK, HostStates
      <3>2. CASE Recreate(host.image)
        BY <3>1, <3>2, Made
      <3>3. CASE StopContainer
        BY <3>1, <3>3, StoppedBox
      <3> QED
        BY <2>8, <3>2, <3>3 DEF Deploy
    <2> QED
      BY <1>2, <2>1, <2>2, <2>3, <2>4, <2>5, <2>6, <2>7, <2>8 DEF HostStep, UpdaterStep
  <1>3. CASE UNCHANGED vars
    BY <1>3 DEF vars, startVars
  <1> QED
    BY <1>1, <1>2, <1>3 DEF Next

-----------------------------------------------------------------------------
(* What the tools do to the rest of the installation.                       *)

\* The update is not under way, and its deployment neither.
Aside == up.pc \in {"none", "killed"} /\ ~ChildRuns

\* The container is stopped, started on files that fit it, or left alone.
StackStep ==
    /\ \/ StopContainer \/ KeepContainer
       \/ box.pc # "off" /\ Recreate(box.release)
       \/ FitsImage /\ Recreate(host.image)
    /\ UNCHANGED <<db, disk, torn>>

\* The data of a container that is stopped is replaced.
DataStep ==
    /\ box.pc = "off" /\ KeepContainer
    /\ db' \in {db, archive.db, copy.db, NoDatabase}

\* What a step of the tools can change of the state of SafeUpdate.
Effect ==
    /\ UNCHANGED <<loaded, options, dirs, up, child, order>>
    /\ host'.image = host.image /\ host'.script = host.script /\ host'.open = host.open
    /\ \/ UNCHANGED <<box, req, claimed, db, disk, torn, host>>
       \/ Aside /\ (StackStep \/ DataStep)

\* A restore that has begun is alone.
LEMMA RestoreAside ==
    ASSUME AloneInv, job.pc \notin {"none", "asked"}
    PROVE  Aside
  BY DEF AloneInv, Aside

\* The backup, the check of the keys, and what a restore does before it changes anything.
LEMMA EffectBeside ==
    ASSUME \/ BackupStep \/ BackupFails \/ StartCron \/ Confirm \/ SaveDatabase \/ SaveFiles
           \/ SaveCrowdsec \/ KeysDone \/ ProbeRestored \/ CommandFails \/ Recover
           \/ \E m \in Menders : CheckKey(m) \/ RegisterKey(m) \/ RegisterFails(m)
    PROVE  Effect
  <1>1. CASE BackupStep \/ BackupFails
    BY <1>1 DEF BackupStep, BackupFails, StartBackup, BackupDatabase, BackupCrowdsec, Pack, BackupOnly,
      KeepContainer, Untouched, Stored, Effect
  <1>2. CASE StartCron \/ \E m \in Menders : CheckKey(m) \/ RegisterKey(m) \/ RegisterFails(m)
    BY <1>2 DEF StartCron, CheckKey, RegisterKey, RegisterFails, MendOnly, KeepContainer, Untouched,
      Stored, Effect
  <1>3. CASE \/ Confirm \/ SaveDatabase \/ SaveFiles \/ SaveCrowdsec \/ KeysDone \/ ProbeRestored
             \/ CommandFails \/ Recover
    BY <1>3 DEF Confirm, SaveDatabase, SaveFiles, SaveCrowdsec, KeysDone, ProbeRestored, CommandFails,
      Recover, SaveOnly, KeepContainer, Untouched, Stored, Effect
  <1> QED
    BY <1>1, <1>2, <1>3

\* A new key of nginx restarts the container, where nothing updates.
LEMMA EffectWrite ==
    ASSUME ControlInv, AloneInv, DailyInv, NEW m \in Menders, WriteKey(m)
    PROVE  Effect
  <1>1. /\ UNCHANGED <<loaded, options, dirs, up, child, order, db, disk, torn, host>>
        /\ KeepContainer \/ (box.pc # "off" /\ Recreate(box.release))
    BY DEF WriteKey, MendOnly, Untouched, Stored
  <1>2. Aside
    <2>1. CASE m = "restore"
      BY <2>1, RestoreAside DEF WriteKey, Mends
    <2>2. CASE m = "cron"
      <3>1. up.pc = "none"
        BY <2>2 DEF WriteKey, Mends, DailyInv
      <3>2. ~ChildRuns
        BY <3>1 DEF ControlInv, ChildRuns
      <3> QED
        BY <3>1, <3>2 DEF Aside
    <2> QED
      BY <2>1, <2>2 DEF Menders
  <1> QED
    BY <1>1, <1>2 DEF Effect, StackStep

\* The restore stops the stack, and starts it on files that fit its image.
LEMMA EffectStack ==
    ASSUME TypeOK, AloneInv, FitInv,
           StopStack \/ StartStack \/ ComposeFails \/ RecoverStop \/ RecoverStart
    PROVE  Effect
  <1>1. Aside
    BY RestoreAside DEF StopStack, StartStack, ComposeFails, RecoverStop, RecoverStart, JobAt
  <1>2. UNCHANGED <<loaded, options, dirs, up, child, order, db, disk, torn>>
    BY DEF StopStack, StartStack, ComposeFails, RecoverStop, RecoverStart, Untouched, ReplaceOnly, Stored
  <1>3. host'.image = host.image /\ host'.script = host.script /\ host'.open = host.open
    BY DEF StopStack, StartStack, ComposeFails, RecoverStop, RecoverStart, TypeOK, HostStates
  <1>4. job.pc = "start" \/ job.pc = "recoverStart" => FitsImage
    BY DEF FitInv, FitsImage
  <1>5. StopContainer \/ KeepContainer \/ (FitsImage /\ Recreate(host.image))
    BY <1>4 DEF StopStack, StartStack, ComposeFails, RecoverStop, RecoverStart, JobAt
  <1> QED
    BY <1>1, <1>2, <1>3, <1>5 DEF Effect, StackStep

\* The restore replaces the data of a container that it has stopped.
LEMMA EffectData ==
    ASSUME RestoreInv,
           \/ ReplaceDatabase \/ ReplaceFiles \/ ReplaceCrowdsec
           \/ PutDatabase \/ PutFiles \/ PutCrowdsec
           \/ ReplaceFails \/ RecoverFails \/ RestoreKilled
    PROVE  Effect
  <1>1. Aside
    BY RestoreAside DEF ReplaceDatabase, ReplaceFiles, ReplaceCrowdsec, PutDatabase, PutFiles,
      PutCrowdsec, ReplaceFails, RecoverFails, RestoreKilled, Restoring, JobAt, RestoreInv
  <1>2. UNCHANGED <<loaded, options, dirs, up, child, order, host>> /\ KeepContainer
    BY DEF ReplaceDatabase, ReplaceFiles, ReplaceCrowdsec, PutDatabase, PutFiles, PutCrowdsec,
      ReplaceFails, RecoverFails, RestoreKilled, ReplaceOnly, Untouched
  <1>3. UNCHANGED <<db, disk, torn>> \/ job.pc \in DOMAIN PartAt
    BY DEF ReplaceDatabase, ReplaceFiles, ReplaceCrowdsec, PutDatabase, PutFiles, PutCrowdsec,
      ReplaceFails, RecoverFails, RestoreKilled, JobAt, PartAt, Stored
  <1>4. job.pc \in DOMAIN PartAt => box.pc = "off"
    BY LostKeeps
  <1>5. db' \in {db, archive.db, copy.db, NoDatabase}
    BY DEF ReplaceDatabase, ReplaceFiles, ReplaceCrowdsec, PutDatabase, PutFiles, PutCrowdsec,
      ReplaceFails, RecoverFails, RestoreKilled, Lost, Stored
  <1> QED
    BY <1>1, <1>2, <1>3, <1>4, <1>5 DEF Effect, StackStep, DataStep

\* Whatever the tools do.
LEMMA ToolEffect ==
    ASSUME TypeOK, ControlInv, RestoreInv, DailyInv, FitInv, ToolStep
    PROVE  Effect
  BY EffectBeside, EffectWrite, EffectStack, EffectData
    DEF RestoreInv, ToolStep, CronStep, RestoreStep, MendStep, Menders

\* The tools leave the deployment alone.
LEMMA ControlTool ==
    ASSUME ControlInv, Effect
    PROVE  ControlInv'
  <1>1. UNCHANGED <<up, child, order>> /\ host'.image = host.image
    BY DEF Effect
  <1>2. box' = box \/ Aside
    BY DEF Effect
  <1>3. Aside => up.pc \notin Emptied /\ ~Undeployed
    BY DEF Aside, Emptied, Undeployed, Before
  <1> QED
    BY <1>1, <1>2, <1>3 DEF ControlInv, Undeployed, ChildRuns, Deployed

\* The tools leave the snapshots alone.
LEMMA SnapshotTool ==
    ASSUME SnapshotInv, Effect
    PROVE  SnapshotInv'
  <1>1. dirs' = dirs /\ up' = up /\ order' = order
    BY DEF Effect
  <1> QED
    BY <1>1, ZenonT(30) DEF SnapshotInv

\* The release of the container after a step of the tools.
LEMMA ReleaseKept ==
    ASSUME Effect
    PROVE  box'.release \in {box.release, host.image}
  <1>1. CASE StackStep
    BY <1>1, Made, StoppedBox DEF StackStep, KeepContainer
  <1>2. CASE DataStep
    BY <1>2 DEF DataStep, KeepContainer
  <1> QED
    BY <1>1, <1>2 DEF Effect

\* Who restores has no update that could settle.
LEMMA SettleTool ==
    ASSUME SettleInv, Effect
    PROVE  SettleInv'
  <1>1. UNCHANGED <<dirs, up, child, order>>
    BY DEF Effect
  <1>2. host'.image = host.image /\ host'.script = host.script /\ host'.open = host.open
    BY DEF Effect
  <1>3. CASE UNCHANGED <<box, db, host>>
    BY <1>1, <1>3 DEF SettleInv, StartedInv, KeptInv, UndoneInv, PortsInv, EndedInv, Live, Undone,
      Undeployed, ChildRuns, Deployed
  <1>4. CASE Aside
    <2>1. /\ ~Live /\ ~Undeployed /\ up.pc \notin Before \cup Rollback \cup {"cleanup", "ended"}
          /\ up.pc \notin {"restoreDatabase", "restoreScript", "restart", "recheck"}
      BY <1>4 DEF Aside, Live, Undeployed, Before, Rollback
    <2>2. KeptInv'
      BY <1>1 DEF SettleInv, KeptInv, Undone
    <2>3. StartedInv'
      BY <1>1, <1>2, <2>1, ReleaseKept DEF SettleInv, StartedInv, Live, Undeployed, ChildRuns, Deployed
    <2>4. UndoneInv' /\ PortsInv' /\ EndedInv'
      BY <1>1, <1>2, <2>1 DEF SettleInv, UndoneInv, PortsInv, EndedInv, Live
    <2> QED
      BY <2>2, <2>3, <2>4 DEF SettleInv
  <1> QED
    BY <1>3, <1>4 DEF Effect

\* Who asks for the setup is forgotten with the container, and nobody asks while the
\* database is replaced.
LEMMA SetupTool ==
    ASSUME TypeOK, SetupInv, CopiesInv, Effect
    PROVE  SetupInv'
  <1>1. UNCHANGED <<dirs, options>>
    BY DEF Effect
  <1>2. CASE UNCHANGED <<box, req, claimed, db, disk>>
    BY <1>1, <1>2 DEF SetupInv, Asking, Holds, Serving
  <1>3. CASE Forget /\ box'.pc \in {"off", "begin"} /\ UNCHANGED db
    <2>1. ~claimed' /\ \A r \in Requests : ~Asking(r)' /\ ~Holds(r)'
      BY <1>3, Forgotten
    <2>2. \A r \in Requests : req'[r] \notin {"verify", "create", "unlink"}
      BY <2>1 DEF Holds
    <2> QED
      BY <1>1, <1>3, <2>1, <2>2 DEF SetupInv
  <1>4. CASE DataStep
    <2>1. box' = box /\ box.pc = "off" /\ req' = req /\ claimed' = claimed
      BY <1>4 DEF DataStep, KeepContainer
    <2>2. \A r \in Requests : ~Asking(r)
      BY <2>1 DEF SetupInv, Serving
    <2>3. \A r \in Requests : ~Asking(r)' /\ ~Holds(r)' /\ req'[r] \notin {"verify", "create", "unlink"}
      BY <2>1, <2>2 DEF Asking, Holds
    <2>4. db'.admins <= 1
      BY <1>4 DEF DataStep, CopiesInv, SetupInv, NoDatabase
    <2> QED
      BY <1>1, <2>1, <2>3, <2>4 DEF SetupInv
  <1>5. CASE StackStep
    BY <1>2, <1>3, <1>5, Made, StoppedBox DEF StackStep, KeepContainer, StopContainer, Recreate
  <1> QED
    BY <1>2, <1>4, <1>5 DEF Effect

\* The container is started on files that fit its release.
LEMMA FilesTool ==
    ASSUME FilesInv, Effect
    PROVE  FilesInv'
  <1>1. UNCHANGED <<loaded, up, child>> /\ host'.image = host.image
    BY DEF Effect
  <1>2. CASE UNCHANGED <<box, db, disk, torn>>
    BY <1>1, <1>2 DEF FilesInv, Matches, Serving, Undeployed, ChildRuns
  <1>3. CASE Aside /\ box'.pc = "off"
    BY <1>1, <1>3 DEF Aside, FilesInv, Serving, Undeployed, Before, ChildRuns
  <1>4. CASE /\ Aside /\ UNCHANGED <<db, disk, torn>> /\ box'.pc = "begin"
             /\ disk.hash = box'.release => Matches
    BY <1>1, <1>4 DEF Aside, FilesInv, Matches, Serving, Undeployed, Before, ChildRuns
  <1>5. CASE Aside /\ StackStep
    <2>1. CASE box.pc # "off" /\ Recreate(box.release)
      BY <1>4, <1>5, <2>1, Made DEF StackStep, FilesInv
    <2>2. CASE FitsImage /\ Recreate(host.image)
      BY <1>4, <1>5, <2>2, Made DEF StackStep, FitsImage
    <2>3. CASE StopContainer
      BY <1>3, <1>5, <2>3, StoppedBox
    <2>4. CASE KeepContainer
      BY <1>2, <1>5, <2>4 DEF StackStep, KeepContainer
    <2> QED
      BY <1>5, <2>1, <2>2, <2>3, <2>4 DEF StackStep
  <1>6. CASE Aside /\ DataStep
    BY <1>3, <1>6 DEF DataStep, KeepContainer
  <1> QED
    BY <1>2, <1>5, <1>6 DEF Effect

\* The tools leave the image alone, and make the container of it.
LEMMA ImageTool ==
    ASSUME ImageInv, Effect
    PROVE  ImageInv'
  <1>1. host'.image = host.image
    BY DEF Effect
  <1>2. CASE UNCHANGED <<box, disk>>
    BY <1>1, <1>2 DEF ImageInv
  <1>3. CASE StackStep
    <2>1. UNCHANGED disk
      BY <1>3 DEF StackStep
    <2> QED
      BY <1>1, <1>3, <2>1, Made, StoppedBox DEF StackStep, KeepContainer, ImageInv
  <1>4. CASE DataStep
    BY <1>1, <1>4 DEF DataStep, KeepContainer, ImageInv
  <1> QED
    BY <1>2, <1>3, <1>4 DEF Effect

-----------------------------------------------------------------------------
(* What the tools keep.                                                     *)

\* Nothing is being restored, backed up or checked yet.
LEMMA ToolsInvInit == AllInit => ToolsInv
  <1> SUFFICES ASSUME AllInit
               PROVE  ToolsInv
    OBVIOUS
  <1>1. PICK s \in Scenes : InitScene(s) /\ ToolsInit(s)
    BY DEF AllInit
  <1>2. s.archive.db.admins <= 1 /\ (s.heal => ~s.update)
    BY PlanAssumption
  <1>3. /\ archive = s.archive /\ copy.db.admins = 0 /\ backup.db.admins = 0 /\ daily = s.heal
        /\ mend["cron"].todo = <<>> /\ job.pc \in {"none", "asked"}
    BY <1>1 DEF ToolsInit, NoCopy, NoDatabase, NotMending, Menders
  <1>4. /\ host.image = Installed /\ box.release = Installed
        /\ up.pc = IF s.update THEN "idle" ELSE "none"
    BY <1>1 DEF InitScene, Off
  <1>5. DailyInv /\ CopiesInv
    BY <1>2, <1>3, <1>4 DEF DailyInv, CopiesInv
  <1>6. ImageInv /\ (job.pc \in {"none", "asked"} => FitInv)
    BY <1>4, ReleaseAssumption DEF ImageInv, FitInv
  <1> QED
    BY <1>3, <1>5, <1>6, RestoreInit DEF ToolsInv

\* The keys are checked where nothing updates.
LEMMA DailyNext ==
    ASSUME ToolsTypeOK, ControlInv, DailyInv, [AllNext]_allVars
    PROVE  DailyInv'
  <1>1. CASE Next /\ UNCHANGED toolVars
    <2>1. daily' = daily /\ mend' = mend
      BY <1>1 DEF toolVars
    <2>2. daily => up' = up
      <3> SUFFICES ASSUME daily
                   PROVE  up' = up
        OBVIOUS
      <3>1. up.pc = "none" /\ ~ChildRuns
        BY DEF DailyInv, ControlInv, ChildRuns
      <3> QED
        BY <1>1, <3>1, ScriptAlone DEF Next
    <2> QED
      BY <2>1, <2>2 DEF DailyInv
  <1>2. CASE UNCHANGED <<up, daily, mend>>
    BY <1>2 DEF DailyInv
  <1>3. CASE StartCron
    BY <1>3 DEF StartCron, MendOnly, Untouched, DailyInv
  <1>4. ASSUME NEW m \in Menders, CheckKey(m) \/ RegisterKey(m) \/ RegisterFails(m) \/ WriteKey(m)
        PROVE  DailyInv'
    <2>1. up' = up /\ daily' = daily
      BY <1>4 DEF CheckKey, RegisterKey, RegisterFails, WriteKey, MendOnly, Untouched
    <2>2. mend[m].todo # <<>>
      BY <1>4 DEF CheckKey, RegisterKey, RegisterFails, WriteKey, Mends
    <2>3. PICK x : mend' = [mend EXCEPT ![m] = x]
      BY <1>4 DEF CheckKey, RegisterKey, RegisterFails, WriteKey
    <2>4. m # "cron" => mend'["cron"] = mend["cron"]
      BY <2>3 DEF ToolsTypeOK, Menders
    <2> QED
      BY <2>1, <2>2, <2>4 DEF DailyInv
  <1>5. CASE StartStack \/ CommandFails
    <2>1. up' = up /\ daily' = daily
      BY <1>5 DEF StartStack, CommandFails, Untouched, RestoreOnly
    <2>2. mend'["cron"] = mend["cron"]
      BY <1>5 DEF StartStack, CommandFails, ToolsTypeOK, Menders
    <2> QED
      BY <2>1, <2>2 DEF DailyInv
  <1>6. CASE BackupStep \/ BackupFails
    BY <1>2, <1>6 DEF BackupStep, BackupFails, StartBackup, BackupDatabase, BackupCrowdsec, Pack,
      BackupOnly, Untouched
  <1>7. CASE \/ Confirm \/ StopStack \/ SaveDatabase \/ SaveFiles \/ SaveCrowdsec
             \/ ReplaceDatabase \/ ReplaceFiles \/ ReplaceCrowdsec \/ KeysDone \/ ProbeRestored
             \/ Recover \/ RecoverStop \/ PutDatabase \/ PutFiles \/ PutCrowdsec \/ RecoverStart
             \/ ComposeFails \/ ReplaceFails \/ RecoverFails \/ RestoreKilled
    BY <1>2, <1>7 DEF Confirm, StopStack, SaveDatabase, SaveFiles, SaveCrowdsec, ReplaceDatabase,
      ReplaceFiles, ReplaceCrowdsec, KeysDone, ProbeRestored, Recover, RecoverStop, PutDatabase,
      PutFiles, PutCrowdsec, RecoverStart, ComposeFails, ReplaceFails, RecoverFails, RestoreKilled,
      SaveOnly, ReplaceOnly, Untouched, RestoreOnly
  <1>8. CASE UNCHANGED allVars
    BY <1>2, <1>8 DEF allVars, vars, toolVars
  <1> QED
    BY <1>1, <1>3, <1>4, <1>5, <1>6, <1>7, <1>8 DEF AllNext, ToolStep, CronStep, RestoreStep, MendStep,
      Menders

\* What is copied of the database has one initial administrator at most, as it has.
LEMMA CopiesNext ==
    ASSUME ToolsTypeOK, SetupInv, CopiesInv, [AllNext]_allVars
    PROVE  CopiesInv'
  <1>1. CASE UNCHANGED <<archive, copy, backup>>
    BY <1>1 DEF CopiesInv
  <1>2. CASE BackupStep \/ BackupFails
    <2>1. copy' = copy
      BY <1>2 DEF BackupStep, BackupFails, StartBackup, BackupDatabase, BackupCrowdsec, Pack, BackupOnly
    <2>2. archive'.db \in {archive.db, backup.db}
      BY <1>2 DEF BackupStep, BackupFails, StartBackup, BackupDatabase, BackupCrowdsec, Pack
    <2>3. backup'.db \in {backup.db, db}
      BY <1>2 DEF BackupStep, BackupFails, StartBackup, BackupDatabase, BackupCrowdsec, Pack,
        ToolsTypeOK, Backups
    <2> QED
      BY <2>1, <2>2, <2>3 DEF CopiesInv, SetupInv
  <1>3. CASE SaveDatabase \/ SaveFiles \/ SaveCrowdsec
    <2>1. UNCHANGED <<archive, backup>>
      BY <1>3 DEF SaveDatabase, SaveFiles, SaveCrowdsec, SaveOnly, RestoreOnly
    <2>2. copy'.db \in {db, copy.db}
      BY <1>3 DEF SaveDatabase, SaveFiles, SaveCrowdsec, SavedCrowdsec, ToolsTypeOK, Copies
    <2> QED
      BY <2>1, <2>2 DEF CopiesInv, SetupInv
  <1>4. CASE StartCron \/ \E m \in Menders : CheckKey(m) \/ RegisterKey(m) \/ RegisterFails(m) \/ WriteKey(m)
    BY <1>1, <1>4 DEF StartCron, CheckKey, RegisterKey, RegisterFails, WriteKey, MendOnly
  <1>5. CASE \/ Confirm \/ StopStack \/ ReplaceDatabase \/ ReplaceFiles \/ ReplaceCrowdsec \/ StartStack
             \/ KeysDone \/ ProbeRestored \/ Recover \/ RecoverStop \/ PutDatabase \/ PutFiles
             \/ PutCrowdsec \/ RecoverStart
             \/ ComposeFails \/ CommandFails \/ ReplaceFails \/ RecoverFails \/ RestoreKilled
    BY <1>1, <1>5 DEF Confirm, StopStack, ReplaceDatabase, ReplaceFiles, ReplaceCrowdsec, StartStack,
      KeysDone, ProbeRestored, Recover, RecoverStop, PutDatabase, PutFiles, PutCrowdsec, RecoverStart,
      ComposeFails, CommandFails, ReplaceFails, RecoverFails, RestoreKilled, SaveOnly, ReplaceOnly,
      RestoreOnly
  <1>6. CASE UNCHANGED toolVars
    BY <1>1, <1>6 DEF toolVars
  <1> QED
    BY <1>2, <1>3, <1>4, <1>5, <1>6 DEF AllNext, allVars, ToolStep, CronStep, RestoreStep, MendStep,
      Menders

\* A container that runs has files that fit the image.
LEMMA RunningFits ==
    ASSUME FilesInv, ImageInv, box.pc # "off"
    PROVE  FitsImage
  BY DEF FilesInv, ImageInv, FitsImage

\* Beside a restore there are only the steps of a container that runs.
LEMMA FitContainer ==
    ASSUME TypeOK, SetupInv, RestoreInv, FitInv, FilesInv', ImageInv', Next, UNCHANGED toolVars
    PROVE  FitInv'
  <1>1. job' = job
    BY DEF toolVars
  <1>2. CASE job.pc \in {"none", "asked"}
    BY <1>1, <1>2 DEF FitInv
  <1>3. CASE job.pc \notin {"none", "asked"}
    <2>1. ContainerNext
      BY <1>3, ScriptAlone DEF RestoreInv, AloneInv, Next
    <2>2. box.pc # "off"
      BY <2>1, OffStill
    <2>3. box'.pc # "off"
      BY <2>1, <2>2, BoxStep
    <2>4. FitsImage'
      BY <2>3 DEF FilesInv, ImageInv, FitsImage
    <2>5. job.pc \notin Stopped
      BY <2>2 DEF RestoreInv, OffInv
    <2> QED
      BY <1>1, <2>4, <2>5 DEF FitInv, Stopped
  <1> QED
    BY <1>2, <1>3

\* The steps of a tool that leave the data alone.
LEMMA FitKeeps ==
    ASSUME FilesInv, ImageInv, RestoreInv, FitInv, UNCHANGED <<db, disk, torn>>,
           host'.image = host.image,
           \/ job' = job
           \/ job.pc = "asked" /\ box.pc # "off" /\ job'.pc = "stop"
           \/ /\ job.pc \notin {"none", "asked"} /\ (~job'.started => ~job.started)
              /\ job'.pc \notin {"replaceFiles", "putFiles"}
              /\ job'.pc \in {"replaceCrowdsec", "start", "putCrowdsec"} => Matches
              /\ job'.pc = "recoverStart" => Matches \/ ~job.started
    PROVE  FitInv'
  <1>1. (Matches' <=> Matches) /\ (FitsImage' <=> FitsImage)
    BY DEF Matches, FitsImage
  <1>2. CASE job' = job
    BY <1>1, <1>2 DEF FitInv
  <1>3. CASE job.pc = "asked" /\ box.pc # "off" /\ job'.pc = "stop"
    BY <1>1, <1>3, RunningFits DEF FitInv
  <1>4. CASE /\ job.pc \notin {"none", "asked"} /\ (~job'.started => ~job.started)
             /\ job'.pc \notin {"replaceFiles", "putFiles"}
             /\ job'.pc \in {"replaceCrowdsec", "start", "putCrowdsec"} => Matches
             /\ job'.pc = "recoverStart" => Matches \/ ~job.started
    <2>1. Matches => FitsImage
      BY DEF FitsImage
    <2>2. ~job.started => FitsImage
      BY <1>4 DEF FitInv
    <2> QED
      BY <1>1, <1>4, <2>1, <2>2 DEF FitInv
  <1> QED
    BY <1>2, <1>3, <1>4

\* The backup, the check of the keys, and the restore until it replaces anything.
LEMMA FitBeside ==
    ASSUME ToolsTypeOK, FilesInv, ImageInv, RestoreInv, FitInv, Effect,
           \/ BackupStep \/ BackupFails \/ StartCron \/ Confirm \/ StopStack \/ SaveDatabase
           \/ SaveFiles \/ SaveCrowdsec
           \/ \E m \in Menders : MendStep(m) \/ RegisterFails(m)
    PROVE  FitInv'
  <1>1. job \in Jobs /\ host'.image = host.image
    BY DEF ToolsTypeOK, Effect
  <1>2. CASE BackupStep \/ BackupFails
    <2>1. UNCHANGED <<db, disk, torn, job>>
      BY <1>2 DEF BackupStep, BackupFails, StartBackup, BackupDatabase, BackupCrowdsec, Pack, BackupOnly,
        Stored
    <2> QED
      BY <1>1, <2>1, FitKeeps
  <1>3. CASE StartCron \/ \E m \in Menders : MendStep(m) \/ RegisterFails(m)
    <2>1. UNCHANGED <<db, disk, torn, job>>
      BY <1>3 DEF StartCron, MendStep, CheckKey, RegisterKey, RegisterFails, WriteKey, MendOnly, Stored
    <2> QED
      BY <1>1, <2>1, FitKeeps
  <1>4. CASE Confirm
    <2>1. UNCHANGED <<db, disk, torn>> /\ job.pc = "asked" /\ box.pc # "off"
      BY <1>4 DEF Confirm, JobAt, Stored
    <2>2. job'.pc = "stop"
      BY <1>1, <1>4 DEF Confirm, Jobs
    <2> QED
      BY <1>1, <2>1, <2>2, FitKeeps
  <1>5. CASE StopStack \/ SaveDatabase \/ SaveFiles \/ SaveCrowdsec
    <2>1. UNCHANGED <<db, disk, torn>>
      BY <1>5 DEF StopStack, SaveDatabase, SaveFiles, SaveCrowdsec, SaveOnly, Stored
    <2>2. job.pc \in {"stop", "saveDatabase", "saveFiles", "saveCrowdsec"} /\ ~job.started
      BY <1>5 DEF StopStack, SaveDatabase, SaveFiles, SaveCrowdsec, JobAt, RestoreInv, CopyInv
    <2>3. job'.pc \in {"saveDatabase", "saveFiles", "saveCrowdsec", "replaceDatabase"}
      BY <1>1, <1>5 DEF StopStack, SaveDatabase, SaveFiles, SaveCrowdsec, JobTo, Jobs
    <2> QED
      BY <1>1, <2>1, <2>2, <2>3, FitKeeps
  <1> QED
    BY <1>2, <1>3, <1>4, <1>5

\* The restore on its way to the start, and its recovery.
LEMMA FitRestore ==
    ASSUME ToolsTypeOK, FilesInv, ImageInv, RestoreInv, FitInv, Effect,
           \/ ReplaceDatabase \/ ReplaceFiles \/ ReplaceCrowdsec \/ StartStack \/ KeysDone
           \/ ProbeRestored \/ Recover \/ RecoverStop \/ PutDatabase \/ PutFiles \/ PutCrowdsec
           \/ RecoverStart
    PROVE  FitInv'
  <1>1. job \in Jobs /\ host'.image = host.image
    BY DEF ToolsTypeOK, Effect
  <1>2. CASE ReplaceDatabase \/ ReplaceFiles \/ PutDatabase \/ PutFiles
    <2>1. Matches'
      BY <1>2 DEF ReplaceDatabase, ReplaceFiles, PutDatabase, PutFiles, Fits, Matches
    <2>2. job'.pc \in {"replaceFiles", "replaceCrowdsec", "putFiles", "putCrowdsec"}
      BY <1>1, <1>2 DEF ReplaceDatabase, ReplaceFiles, PutDatabase, PutFiles, JobTo, Jobs
    <2> QED
      BY <2>1, <2>2 DEF FitInv, FitsImage
  <1>3. CASE ReplaceCrowdsec \/ PutCrowdsec
    <2>1. UNCHANGED <<db, disk, torn>> /\ Matches
      BY <1>3 DEF ReplaceCrowdsec, PutCrowdsec, Stored, JobAt, FitInv
    <2>2. job.pc \notin {"none", "asked"} /\ job'.pc \in {"start", "recoverStart"}
          /\ job'.started = job.started
      BY <1>1, <1>3 DEF ReplaceCrowdsec, PutCrowdsec, JobAt, JobTo, Jobs
    <2> QED
      BY <1>1, <2>1, <2>2, FitKeeps
  <1>4. CASE StartStack \/ KeysDone \/ ProbeRestored \/ RecoverStop \/ RecoverStart \/ Recover
    <2>1. UNCHANGED <<db, disk, torn>>
      BY <1>4 DEF StartStack, KeysDone, ProbeRestored, RecoverStop, RecoverStart, Recover, SaveOnly,
        Stored
    <2>2. job.pc \notin {"none", "asked"}
      BY <1>4 DEF StartStack, KeysDone, ProbeRestored, RecoverStop, RecoverStart, Recover, JobAt
    <2>3. CASE ProbeRestored
      <3>1. PICK answers \in {FALSE, Serving} :
                job' = [job EXCEPT !.pc = IF answers THEN "ended" ELSE "recover", !.complete = answers]
        BY <2>3 DEF ProbeRestored
      <3>2. job'.pc \in {"ended", "recover"} /\ job'.started = job.started
        BY <1>1, <3>1 DEF Jobs
      <3> QED
        BY <1>1, <2>1, <2>2, <3>2, FitKeeps
    <2>4. CASE Recover
      <3>1. /\ job'.pc = IF job.started THEN "recoverStop" ELSE "recoverStart"
            /\ job'.started = job.started
        BY <1>1, <2>4, JobStep DEF Recover, JobPcs
      <3> QED
        BY <1>1, <2>1, <2>2, <3>1, FitKeeps
    <2>5. CASE StartStack \/ KeysDone \/ RecoverStop \/ RecoverStart
      <3>1. job'.pc \in {"keys", "probe", "putDatabase", "ended"} /\ job'.started = job.started
        BY <1>1, <2>5 DEF StartStack, KeysDone, RecoverStop, RecoverStart, JobTo, Jobs
      <3> QED
        BY <1>1, <2>1, <2>2, <3>1, FitKeeps
    <2> QED
      BY <1>4, <2>3, <2>4, <2>5
  <1> QED
    BY <1>2, <1>3, <1>4

\* What fails, and what ends the restore.
LEMMA FitFailing ==
    ASSUME ToolsTypeOK, FilesInv, ImageInv, RestoreInv, FitInv, Effect,
           ComposeFails \/ CommandFails \/ ReplaceFails \/ RecoverFails \/ RestoreKilled
    PROVE  FitInv'
  <1>1. job \in Jobs /\ host'.image = host.image
    BY DEF ToolsTypeOK, Effect
  <1>2. job'.pc \in {"recover", "ended", "killed"} /\ job'.started = job.started
    BY <1>1, JobStep DEF ComposeFails, CommandFails, ReplaceFails, RecoverFails, RestoreKilled, JobPcs
  <1>3. job.pc \notin {"none", "asked"}
    BY DEF ComposeFails, CommandFails, ReplaceFails, RecoverFails, RestoreKilled, Restoring
  <1>4. CASE UNCHANGED <<db, disk, torn>>
    BY <1>1, <1>2, <1>3, <1>4, FitKeeps
  <1>5. CASE job.pc \in DOMAIN PartAt
    BY <1>2, <1>5, LostKeeps DEF FitInv
  <1> QED
    BY <1>4, <1>5 DEF ComposeFails, CommandFails, ReplaceFails, RecoverFails, RestoreKilled, PartAt, JobAt,
      Stored

\* Each step keeps the invariant of the tools.
LEMMA FitNext ==
    ASSUME TypeOK, ToolsTypeOK, UpdateInv, UpdateInv', ToolsInv, ImageInv', [AllNext]_allVars
    PROVE  FitInv'
  <1>1. /\ SetupInv /\ FilesInv /\ FilesInv' /\ ControlInv
        /\ RestoreInv /\ DailyInv /\ ImageInv /\ FitInv
    BY DEF UpdateInv, ToolsInv
  <1>2. CASE Next /\ UNCHANGED toolVars
    BY <1>1, <1>2, FitContainer
  <1>3. CASE ToolStep
    <2>1. Effect
      BY <1>1, <1>3, ToolEffect
    <2> QED
      BY <1>1, <1>3, <2>1, FitBeside, FitRestore, FitFailing DEF ToolStep, CronStep, RestoreStep, Menders
  <1>4. CASE UNCHANGED allVars
    BY <1>1, <1>4 DEF allVars, vars, startVars, toolVars, FitInv, FitsImage, Matches
  <1> QED
    BY <1>2, <1>3, <1>4 DEF AllNext

\* Each step of the update, the start and the tools keeps both invariants.
LEMMA AllInvNext ==
    ASSUME TypeOK, ToolsTypeOK, UpdateInv, ToolsInv, [AllNext]_allVars
    PROVE  UpdateInv' /\ ToolsInv'
  <1>1. /\ ControlInv /\ SnapshotInv /\ SetupInv /\ FilesInv /\ SettleInv
        /\ RestoreInv /\ DailyInv /\ CopiesInv /\ ImageInv /\ FitInv
    BY DEF UpdateInv, ToolsInv
  <1>2. UpdateInv' /\ ImageInv'
    <2>1. CASE ToolStep
      <3>1. Effect
        BY <1>1, <2>1, ToolEffect
      <3> QED
        BY <1>1, <3>1, ControlTool, SnapshotTool, SetupTool, FilesTool, SettleTool, ImageTool DEF UpdateInv
    <2>2. CASE [Next]_vars
      BY <1>1, <2>2, UpdateNext, ImageNext
    <2> QED
      BY <2>1, <2>2 DEF AllNext, allVars
  <1>3. RestoreInv' /\ DailyInv' /\ CopiesInv'
    BY <1>1, RestoreNext, DailyNext, CopiesNext
  <1> QED
    BY <1>2, <1>3, FitNext DEF ToolsInv

\* The invariant of an installation, whatever is done to it.
LEMMA AllInv == AllSpec => [](TypeOK /\ UpdateInv /\ ToolsInv)
  <1>1. AllInit => UpdateInv /\ ToolsInv
    BY UpdateInit, ToolsInvInit DEF AllInit, Init
  <1>2. TypeOK /\ ToolsTypeOK /\ UpdateInv /\ ToolsInv /\ [AllNext]_allVars => (UpdateInv /\ ToolsInv)'
    BY AllInvNext
  <1> QED
    BY MaintenanceTypeCorrect, <1>1, <1>2, PTL DEF AllSpec

\* There is always a complete snapshot, once there has been one, and it is in its place
\* when the script has ended: for every sequence of failures and signals.
THEOREM SnapshotTheorem == AllSpec => []SnapshotKept
  BY AllInv, UpdateGives, PTL

\* Never two first administrators, however requests, crashes, starts, rollbacks and
\* restores of archives meet.
THEOREM OneAdminTheorem == AllSpec => []OneInitialAdmin
  BY AllInv, UpdateGives, PTL

\* Where nobody has set the installation up, the file of its token is there once the API
\* listens, or the token is the administrator's own; also after the restore of an archive
\* that nobody had set up.  The file may be empty (SetupPossible).
THEOREM TokenStaysTheorem == AllSpec => []TokenStays
  BY AllInv, UpdateGives, PTL

\* nginx serves the stored hosts as this release renders them, whatever was interrupted,
\* updated, rolled back or restored.
THEOREM FilesTheorem == AllSpec => []FilesCurrent
  BY AllInv, UpdateGives, PTL

\* The script ends with the new release, with the old one, or with closed ports: for every
\* release, and for every sequence of failures, signals and starts.
THEOREM SettleTheorem == AllSpec => []UpdateSettles
  BY AllInv, UpdateGives, PTL
=============================================================================
