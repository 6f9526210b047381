---------------------------- MODULE Maintenance ----------------------------
(* What else is done to an installation while its container of Startup goes   *)
(* on: the daily backup, the restore of an archive and the daily check of the *)
(* keys CrowdSec has registered (setup-npmplus.sh, run_restore and the        *)
(* helpers npmplus-backup and npmplus-crowdsec-heal it writes).  Backup and   *)
(* restore share the lock of the update; the check of the keys takes none.    *)
(*                                                                            *)
(* A key is a number: the one in the file of its name, and the one CrowdSec   *)
(* accepts for that name.  Whoever finds the two different registers a new    *)
(* one and writes it down.                                                    *)
EXTENDS SafeUpdate, Sequences

CONSTANT Keys  \* bound: keys that can be told apart, a set of naturals

ASSUME KeyAssumption == Keys \subseteq Nat \ {0}

\* ui, machine: of the admin UI; nginx: the bouncer in nginx; firewall: that of the
\* host, whose file is not under /data.
Names == {"ui", "machine", "nginx", "firewall"}
InData == Names \ {"firewall"}
Parts == {"database", "files", "crowdsec"}
Menders == {"restore", "cron"}

KeyTables == [Names -> Nat]
Archives ==
    [exists : BOOLEAN, crowdsec : BOOLEAN, db : Databases, files : Files, held : KeyTables,
     known : KeyTables]

\* The keys are checked where nothing updates.  An archive is one of this program: there
\* is one initial administrator at most.
ASSUME PlanAssumption ==
    \A s \in Scenes :
        /\ {s.restore, s.backup, s.heal} \subseteq BOOLEAN
        /\ s.heal => ~s.update
        /\ s.archive \in Archives /\ s.archive.db.admins <= 1

VARIABLES
    keys,     \* held: the key in each file; known: the key CrowdSec accepts
    archive,  \* the newest archive
    backup,   \* the backup: what it does next, its copies of the databases
    job,      \* the restore: what it does next, has_crowdsec, restore_started and
              \* restore_complete
    copy,     \* its pre-restore snapshot, and the parts of it that are made
    mend,     \* a check of keys under way: names to do, stage, the new key
    daily,    \* the check of the keys is scheduled
    origin,   \* history: where each part of the data comes from
    cut       \* history: the container was started while its data is replaced

toolVars == <<keys, archive, backup, job, copy, mend, daily, origin, cut>>
allVars == <<vars, toolVars>>

NoKeys == [n \in Names |-> 0]
NoDatabase == [schema |-> 0, content |-> [h \in Hosts |-> 0], admins |-> 0]
NoArchive ==
    [exists |-> FALSE, crowdsec |-> FALSE, db |-> NoDatabase, files |-> NoFiles, held |-> NoKeys,
     known |-> NoKeys]
NoCopy ==
    [done |-> {}, db |-> NoDatabase, files |-> NoFiles, hash |-> 0, token |-> "none", held |-> NoKeys,
     known |-> NoKeys]
NotMending == [todo |-> <<>>, stage |-> "check", key |-> 0]

ToolsInit(s) ==
    /\ keys = [held |-> [n \in Names |-> 1], known |-> [n \in Names |-> 1]]
    /\ archive = s.archive
    /\ backup = [pc |-> IF s.backup THEN "asked" ELSE "none", db |-> NoDatabase, known |-> NoKeys]
    /\ job = [pc |-> IF s.restore THEN "asked" ELSE "none", crowdsec |-> FALSE,
              started |-> FALSE, complete |-> FALSE]
    /\ copy = NoCopy
    /\ mend = [m \in Menders |-> NotMending]
    /\ daily = s.heal
    /\ origin = [p \in Parts |-> "here"]
    /\ cut = FALSE

AllInit == \E s \in Scenes : InitScene(s) /\ ToolsInit(s)

\* Nothing here touches what the update, the start and its requests keep.
Untouched == UNCHANGED <<loaded, options, budget, dirs, up, child, order>>
\* What a step of one tool leaves alone of the others.
RestoreOnly == UNCHANGED <<archive, backup, daily, cut>>
BackupOnly ==
    /\ KeepContainer /\ Untouched
    /\ UNCHANGED <<Stored, host, torn, keys, job, copy, mend, daily, origin, cut>>

\* The lock is one of the open files of the script, which a deployment that outlives
\* it has inherited.  An update that is asked for, or has ended, is left to
\* SafeUpdate: only one that was killed leaves a state of its own.
Restoring == job.pc \notin {"none", "asked", "ended", "killed"}
BackingUp == backup.pc \notin {"none", "asked", "done"}
LockFree == up.pc \in {"none", "killed"} /\ ~ChildRuns /\ ~Restoring /\ ~BackingUp

-----------------------------------------------------------------------------
(* The backup.                                                              *)
BackupAt(pc) == backup.pc = pc

StartBackup ==
    /\ BackupAt("asked") /\ LockFree
    /\ backup' = [backup EXCEPT !.pc = "database"]
    /\ UNCHANGED archive /\ BackupOnly

\* A process in the container makes the copy.
BackupDatabase ==
    /\ BackupAt("database") /\ box.pc # "off"
    /\ backup' = [backup EXCEPT !.pc = "crowdsec", !.db = db]
    /\ UNCHANGED archive /\ BackupOnly

BackupCrowdsec ==
    /\ BackupAt("crowdsec")
    /\ backup' = [backup EXCEPT !.pc = "pack", !.known = keys.known]
    /\ UNCHANGED archive /\ BackupOnly

\* The files are those of the moment; the archive is renamed into its place.
Pack ==
    /\ BackupAt("pack")
    /\ archive' = [exists |-> TRUE, crowdsec |-> TRUE, db |-> backup.db, files |-> disk.files,
                   held |-> keys.held, known |-> backup.known]
    /\ backup' = [backup EXCEPT !.pc = "done"]
    /\ BackupOnly

BackupFails ==
    /\ BackingUp
    /\ backup' = [backup EXCEPT !.pc = "done"]
    /\ UNCHANGED archive /\ BackupOnly

-----------------------------------------------------------------------------
(* A check of the keys: by the restore, and once a day.                     *)
Accepted(n) == keys.held[n] # 0 /\ keys.held[n] = keys.known[n]

Used(n) ==
    {keys.held[n], keys.known[n], copy.held[n], copy.known[n], archive.held[n], archive.known[n],
     backup.known[n]} \cup {mend[m].key : m \in Menders}
Fresh(n) == CHOOSE k \in Keys \ Used(n) : TRUE

Mends(m) == mend[m].todo # <<>> /\ (m = "restore" => job.pc = "keys")
Name(m) == Head(mend[m].todo)
NextName(m) == [todo |-> Tail(mend[m].todo), stage |-> "check", key |-> 0]

MendOnly ==
    /\ Untouched
    /\ UNCHANGED <<Stored, host, torn, archive, backup, job, copy, daily, origin>>

\* Mutant: a key there is a file of is a key that works.
CheckPresent(m) ==
    /\ Mends(m) /\ mend[m].stage = "check"
    /\ mend' = [mend EXCEPT ![m] = IF keys.held[Name(m)] # 0
                                      THEN NextName(m) ELSE [@ EXCEPT !.stage = "register"]]
    /\ KeepContainer /\ UNCHANGED <<keys, cut>> /\ MendOnly

\* CrowdSec that does not answer is a key it rejects.
CheckKey(m) ==
    /\ Mends(m) /\ mend[m].stage = "check"
    /\ mend' = [mend EXCEPT ![m] = IF host.crowdsec /\ Accepted(Name(m))
                                      THEN NextName(m) ELSE [@ EXCEPT !.stage = "register"]]
    /\ KeepContainer /\ UNCHANGED <<keys, cut>> /\ MendOnly

\* The old registration is deleted, or replaced.
RegisterKey(m) ==
    /\ Mends(m) /\ mend[m].stage = "register" /\ host.crowdsec
    /\ Keys \ Used(Name(m)) # {}
    /\ keys' = [keys EXCEPT !.known[Name(m)] = Fresh(Name(m))]
    /\ mend' = [mend EXCEPT ![m].stage = "write", ![m].key = Fresh(Name(m))]
    /\ KeepContainer /\ UNCHANGED cut /\ MendOnly

\* Of a bouncer the old registration may be gone by then; a machine keeps its own.
RegisterFails(m) ==
    /\ Mends(m) /\ mend[m].stage = "register"
    /\ IF host.crowdsec THEN Spend("faults") ELSE UNCHANGED budget
    /\ keys' \in IF host.crowdsec /\ Name(m) # "machine"
                   THEN {keys, [keys EXCEPT !.known[Name(m)] = 0]} ELSE {keys}
    /\ mend' = [mend EXCEPT ![m] = NextName(m)]
    /\ KeepContainer
    /\ UNCHANGED <<Stored, host, torn, archive, backup, job, copy, daily, origin, cut,
                   loaded, options, dirs, up, child, order>>

\* A new key of nginx restarts its container.  One that a restore has stopped is
\* started by that as well: what it does to data being replaced is not followed.
WriteKey(m) ==
    /\ Mends(m) /\ mend[m].stage = "write"
    /\ keys' = [keys EXCEPT !.held[Name(m)] = mend[m].key]
    /\ mend' = [mend EXCEPT ![m] = NextName(m)]
    /\ cut' = (Name(m) = "nginx" /\ box.pc = "off")
    /\ IF Name(m) = "nginx" /\ ~cut' THEN Recreate(box.release) ELSE KeepContainer
    /\ MendOnly

\* Without CrowdSec running there is nothing to check.
StartCron ==
    /\ daily /\ mend["cron"].todo = <<>> /\ host.crowdsec
    /\ mend' = [mend EXCEPT !["cron"].todo = <<"ui", "machine", "nginx", "firewall">>]
    /\ KeepContainer /\ UNCHANGED <<keys, cut>> /\ MendOnly

-----------------------------------------------------------------------------
(* The restore of an archive.                                               *)
JobAt(pc) == job.pc = pc
JobTo(pc) == job' = [job EXCEPT !.pc = pc]

\* Confirmed, validated and unpacked; the container is inspected for its image.  One
\* that is off has been removed (by an update that ended while the stack was down), so
\* that this fails.
Confirm ==
    /\ JobAt("asked") /\ LockFree /\ archive.exists /\ box.pc # "off"
    /\ job' = [job EXCEPT !.pc = "stop", !.crowdsec = archive.crowdsec]
    /\ KeepContainer /\ Untouched /\ RestoreOnly
    /\ UNCHANGED <<Stored, host, torn, keys, copy, mend, origin>>

StopStack ==
    /\ JobAt("stop")
    /\ StopContainer
    /\ host' = [host EXCEPT !.crowdsec = FALSE]
    /\ JobTo("saveDatabase")
    /\ Untouched /\ RestoreOnly
    /\ UNCHANGED <<Stored, torn, keys, copy, mend, origin>>

SaveOnly ==
    /\ KeepContainer /\ Untouched /\ RestoreOnly
    /\ UNCHANGED <<Stored, host, torn, keys, mend, origin>>

\* The directory of the database holds the fingerprint and the setup token as well.
SaveDatabase ==
    /\ JobAt("saveDatabase")
    /\ copy' = [copy EXCEPT !.done = @ \cup {"database"}, !.db = db, !.hash = disk.hash,
                            !.token = disk.token]
    /\ JobTo("saveFiles")
    /\ SaveOnly

SaveFiles ==
    /\ JobAt("saveFiles")
    /\ copy' = [copy EXCEPT !.done = @ \cup {"files"}, !.files = disk.files, !.held = keys.held]
    /\ JobTo("saveCrowdsec")
    /\ SaveOnly

SavedCrowdsec ==
    [copy EXCEPT !.done = @ \cup {"crowdsec"}, !.known = keys.known,
                 !.held["firewall"] = keys.held["firewall"]]

\* Mutant: a restore counts as started when its last part is replaced.
SaveUnmarked ==
    /\ JobAt("saveCrowdsec")
    /\ copy' = SavedCrowdsec
    /\ JobTo("replaceDatabase")
    /\ SaveOnly

SaveCrowdsec ==
    /\ JobAt("saveCrowdsec")
    /\ copy' = SavedCrowdsec
    /\ job' = [job EXCEPT !.pc = "replaceDatabase", !.started = TRUE]
    /\ SaveOnly

ReplaceOnly == KeepContainer /\ Untouched /\ RestoreOnly /\ UNCHANGED <<host, copy, mend>>

\* Files that do not fit the database, of an archive of another release or of a host
\* saved while the archive was made, are used as they are: the fingerprint stays.
Fits == torn' = (disk'.files # Rendered(db', disk'.hash))

ReplaceDatabase ==
    /\ JobAt("replaceDatabase")
    /\ db' = archive.db
    /\ origin' = [origin EXCEPT !["database"] = "archive"]
    /\ JobTo("replaceFiles")
    /\ UNCHANGED <<disk, keys>> /\ Fits
    /\ ReplaceOnly

WithHeld(k, held) == [k EXCEPT !.held = [n \in Names |-> IF n \in InData THEN held[n] ELSE @[n]]]

ReplaceFiles ==
    /\ JobAt("replaceFiles")
    /\ disk' = [disk EXCEPT !.files = archive.files]
    /\ keys' = WithHeld(keys, archive.held)
    /\ origin' = [origin EXCEPT !["files"] = "archive"]
    /\ JobTo("replaceCrowdsec")
    /\ UNCHANGED db /\ Fits
    /\ ReplaceOnly

ReplaceCrowdsec ==
    /\ JobAt("replaceCrowdsec")
    /\ keys' = IF job.crowdsec THEN [keys EXCEPT !.known = archive.known] ELSE keys
    /\ origin' = IF job.crowdsec THEN [origin EXCEPT !["crowdsec"] = "archive"] ELSE origin
    /\ JobTo("start")
    /\ UNCHANGED <<Stored, torn>>
    /\ ReplaceOnly

StartStack ==
    /\ JobAt("start")
    /\ Recreate(host.image)
    /\ host' = [host EXCEPT !.crowdsec = TRUE]
    /\ mend' = [mend EXCEPT !["restore"].todo = <<"ui", "machine", "firewall">>]
    /\ JobTo("keys")
    /\ Untouched /\ RestoreOnly
    /\ UNCHANGED <<Stored, torn, keys, copy, origin>>

KeysDone ==
    /\ JobAt("keys") /\ mend["restore"].todo = <<>>
    /\ JobTo("probe")
    /\ SaveOnly /\ UNCHANGED copy

\* For two minutes; the attempt may be given up before the start has ended.
ProbeRestored ==
    /\ JobAt("probe")
    /\ \E answers \in {FALSE, Serving} :
          job' = [job EXCEPT !.pc = IF answers THEN "ended" ELSE "recover", !.complete = answers]
    /\ SaveOnly /\ UNCHANGED copy

\* `docker compose stop` or `up -d` fails with some of the containers changed.
ComposeFails ==
    /\ job.pc \in {"stop", "start"}
    /\ IF JobAt("stop") THEN StopContainer \/ KeepContainer
                        ELSE Recreate(host.image) \/ KeepContainer
    /\ host' \in {host, [host EXCEPT !.crowdsec = JobAt("start")]}
    /\ JobTo("recover")
    /\ Untouched /\ RestoreOnly
    /\ UNCHANGED <<Stored, torn, keys, copy, mend, origin>>

\* Any other command fails, or a signal ends the script.
CommandFails ==
    /\ job.pc \in {"saveDatabase", "saveFiles", "saveCrowdsec", "keys", "probe"}
    /\ JobTo("recover")
    /\ mend' = [mend EXCEPT !["restore"] = NotMending]
    /\ KeepContainer /\ Untouched /\ RestoreOnly
    /\ UNCHANGED <<Stored, host, torn, keys, copy, origin>>

-----------------------------------------------------------------------------
(* The exit handler of the restore, and what can end it.                    *)
Recover ==
    /\ JobAt("recover")
    /\ JobTo(IF job.started THEN "recoverStop" ELSE "recoverStart")
    /\ SaveOnly /\ UNCHANGED copy

RecoverStop ==
    /\ JobAt("recoverStop")
    /\ StopContainer
    /\ host' = [host EXCEPT !.crowdsec = FALSE]
    /\ JobTo("putDatabase")
    /\ Untouched /\ RestoreOnly
    /\ UNCHANGED <<Stored, torn, keys, copy, mend, origin>>

PutDatabase ==
    /\ JobAt("putDatabase")
    /\ db' = copy.db
    /\ disk' = [disk EXCEPT !.hash = copy.hash, !.token = copy.token]
    /\ origin' = [origin EXCEPT !["database"] = "here"]
    /\ JobTo("putFiles")
    /\ UNCHANGED keys /\ Fits
    /\ ReplaceOnly

PutFiles ==
    /\ JobAt("putFiles")
    /\ disk' = [disk EXCEPT !.files = copy.files]
    /\ keys' = WithHeld(keys, copy.held)
    /\ origin' = [origin EXCEPT !["files"] = "here"]
    /\ JobTo("putCrowdsec")
    /\ UNCHANGED db /\ Fits
    /\ ReplaceOnly

PutCrowdsec ==
    /\ JobAt("putCrowdsec")
    /\ keys' = [keys EXCEPT !.known = copy.known, !.held["firewall"] = copy.held["firewall"]]
    /\ origin' = [origin EXCEPT !["crowdsec"] = "here"]
    /\ JobTo("recoverStart")
    /\ UNCHANGED <<Stored, torn>>
    /\ ReplaceOnly

\* Whether it works or not, that is the end.
RecoverStart ==
    /\ JobAt("recoverStart")
    /\ \/ Recreate(host.image) /\ host' = [host EXCEPT !.crowdsec = TRUE]
       \/ KeepContainer /\ UNCHANGED host
    /\ JobTo("ended")
    /\ Untouched /\ RestoreOnly
    /\ UNCHANGED <<Stored, torn, keys, copy, mend, origin>>

\* A part is removed before it is copied: what fails there leaves none, or a piece.
Lost(p) ==
    /\ origin' = [origin EXCEPT ![p] = "lost"]
    /\ db' = IF p = "database" THEN NoDatabase ELSE db
    /\ disk' = IF p = "files" THEN [disk EXCEPT !.files = NoFiles] ELSE disk
    /\ keys' = CASE p = "database" -> keys
                 [] p = "files"    -> WithHeld(keys, NoKeys)
                 [] p = "crowdsec" -> [keys EXCEPT !.known = NoKeys]
    /\ UNCHANGED torn

PartAt ==
    [replaceDatabase |-> "database", replaceFiles |-> "files", replaceCrowdsec |-> "crowdsec",
     putDatabase |-> "database", putFiles |-> "files", putCrowdsec |-> "crowdsec"]

ReplaceFails ==
    /\ job.pc \in {"replaceDatabase", "replaceFiles", "replaceCrowdsec"}
    /\ Lost(PartAt[job.pc])
    /\ JobTo("recover")
    /\ ReplaceOnly

\* A recovery that fails leaves the stack stopped.
RecoverFails ==
    /\ job.pc \in {"recoverStop", "putDatabase", "putFiles", "putCrowdsec"}
    /\ IF JobAt("recoverStop") THEN UNCHANGED <<Stored, torn, keys, origin>>
                               ELSE Lost(PartAt[job.pc])
    /\ JobTo("ended")
    /\ ReplaceOnly

\* SIGKILL, or the host loses power.
RestoreKilled ==
    /\ order.kill /\ Restoring
    /\ \/ UNCHANGED <<Stored, torn, keys, origin>>
       \/ job.pc \in DOMAIN PartAt /\ Lost(PartAt[job.pc])
    /\ JobTo("killed")
    /\ ReplaceOnly

-----------------------------------------------------------------------------
BackupStep == StartBackup \/ BackupDatabase \/ BackupCrowdsec \/ Pack

MendStep(m) == CheckKey(m) \/ RegisterKey(m) \/ WriteKey(m)
CronStep == StartCron \/ MendStep("cron") \/ RegisterFails("cron")

RestoreStep ==
    \/ Confirm \/ StopStack \/ SaveDatabase \/ SaveFiles \/ SaveCrowdsec
    \/ ReplaceDatabase \/ ReplaceFiles \/ ReplaceCrowdsec \/ StartStack
    \/ MendStep("restore") \/ RegisterFails("restore") \/ KeysDone \/ ProbeRestored
    \/ Recover \/ RecoverStop \/ PutDatabase \/ PutFiles \/ PutCrowdsec \/ RecoverStart

ToolStep ==
    \/ BackupStep \/ BackupFails
    \/ CronStep
    \/ RestoreStep \/ ComposeFails \/ CommandFails \/ ReplaceFails \/ RecoverFails \/ RestoreKilled

AllNext ==
    /\ ~cut
    /\ \/ Next /\ UNCHANGED toolVars
       \/ ToolStep

AllSpec == AllInit /\ [][AllNext]_allVars

\* As in SafeUpdate, and the daily check is run each day.
AllFairSpec ==
    /\ AllSpec
    /\ WF_allVars(UpdaterStep /\ UNCHANGED toolVars)
    /\ WF_allVars(Deadline /\ UNCHANGED toolVars)
    /\ WF_allVars(~cut /\ BootStep /\ UNCHANGED <<host, dirs, up, child, order, torn, toolVars>>)
    /\ WF_allVars(~cut /\ CronStep)

-----------------------------------------------------------------------------
BackupPcs == {"none", "asked", "database", "crowdsec", "pack", "done"}
Backups == [pc : BackupPcs, db : Databases, known : KeyTables]
JobPcs ==
    {"none", "asked", "stop", "saveDatabase", "saveFiles", "saveCrowdsec", "replaceDatabase",
     "replaceFiles", "replaceCrowdsec", "start", "keys", "probe", "recover", "recoverStop",
     "putDatabase", "putFiles", "putCrowdsec", "recoverStart", "ended", "killed"}
Jobs == [pc : JobPcs, crowdsec : BOOLEAN, started : BOOLEAN, complete : BOOLEAN]
Copies ==
    [done : SUBSET Parts, db : Databases, files : Files, hash : Nat, token : Tokens,
     held : KeyTables, known : KeyTables]
Checks == [todo : Seq(Names), stage : {"check", "register", "write"}, key : Nat]

\* What the tools keep can be.
ToolsTypeOK ==
    /\ keys \in [held : KeyTables, known : KeyTables]
    /\ archive \in Archives /\ backup \in Backups
    /\ job \in Jobs /\ copy \in Copies /\ mend \in [Menders -> Checks] /\ daily \in BOOLEAN
    /\ origin \in [Parts -> {"here", "archive", "lost"}] /\ cut \in BOOLEAN

\* The container never runs on a mixture of the archive and the data it replaces,
\* whichever command of the restore or of its recovery fails; and what is replaced
\* can be put back, from a copy made when nothing wrote it, even when the recovery
\* fails as well ("Refuse to replace anything if a snapshot copy fails",
\* setup-npmplus.sh:1524).
Restored ==
    [p \in Parts |-> IF p = "crowdsec" /\ ~job.crowdsec THEN "here" ELSE "archive"]
RestoreWhole ==
    /\ box.pc # "off" => origin \in {[p \in Parts |-> "here"], Restored}
    /\ \A p \in Parts : origin[p] # "here" => p \in copy.done

\* A key that CrowdSec rejects is replaced by one it accepts, also after a restore
\* that brought the registrations of another machine, one that failed half way, and a
\* check that raced with a restore.
Quiet == host.crowdsec /\ ~Restoring /\ ~cut
KeysHeal == daily /\ Quiet ~> ~Quiet \/ \A n \in Names : Accepted(n)
=============================================================================
