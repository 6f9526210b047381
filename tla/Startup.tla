------------------------------ MODULE Startup ------------------------------
(* The container npmplus from its start to the API that listens, and the      *)
(* requests that make the first administrator (rootfs/usr/local/bin/envs.sh   *)
(* and start.sh, backend/index.js, backend/setup.js, routes/users.js).        *)
(*                                                                            *)
(* A release is a number: it stands for the image, for the fingerprint of the *)
(* template environment it computes, and for the newest migration it has.     *)
(* What a host is made of is a number as well, one more with each save.       *)
EXTENDS Naturals

CONSTANTS
    Hosts,    \* enabled hosts, of any of the four tables
    Requests  \* requests that try to make the first administrator

VARIABLES
    box,      \* the container: its release, how far its start is, REGENERATE_ALL
              \* and the hosts still to regenerate
    db,       \* the database: schema, content of each host, administrators
    disk,     \* /data: env.sha512sum (0: none), setup-token ("none", "empty", "whole"),
              \* file of each host
    loaded,   \* the files nginx runs with
    claimed,  \* setupCreationInProgress
    req,      \* where each request is
    options,  \* managed: the token is a file of the backend's own;
              \* admin: INITIAL_ADMIN_EMAIL and its password are set
    budget    \* bounds: awaits that fail, crashes, saves of hosts

startVars == <<box, db, disk, loaded, claimed, req, options, budget>>

NoFile == [content |-> 0, release |-> 0]
NoFiles == [h \in Hosts |-> NoFile]
Rendered(d, release) == [h \in Hosts |-> [content |-> d.content[h], release |-> release]]

Off(release) == [pc |-> "off", release |-> release, regenerate |-> FALSE, todo |-> {}]
Started(release) == [Off(release) EXCEPT !.pc = "begin"]

IsSetup == db.admins > 0
Serving == box.pc = "serving"
Booting == box.pc \in {"migrate", "user", "drop", "token", "fill", "regenerate", "reload", "final"}
Asking(r) == req[r] \notin {"todo", "done", "refused", "failed", "lost"}

\* What a process holds in memory is gone with it.
Forget ==
    /\ req' = [r \in Requests |-> IF Asking(r) THEN "lost" ELSE req[r]]
    /\ claimed' = FALSE

Spend(kind) ==
    /\ budget[kind] > 0
    /\ budget' = [budget EXCEPT ![kind] = @ - 1]

-----------------------------------------------------------------------------
(* The start.                                                               *)

\* The fingerprint of the template environment is not the stored one.
Changed == disk.hash # box.release

\* Mutant: the fingerprint is stored when it is found to differ.
BeginStored ==
    /\ box.pc = "begin"
    /\ disk' = IF Changed THEN [disk EXCEPT !.files = NoFiles, !.hash = box.release] ELSE disk
    /\ loaded' = disk'.files
    /\ box' = [box EXCEPT !.pc = "migrate", !.regenerate = Changed]
    /\ UNCHANGED <<db, claimed, req, options, budget>>

\* Every generated file is taken away then; nginx starts with those that are left.
Begin ==
    /\ box.pc = "begin"
    /\ disk' = IF Changed THEN [disk EXCEPT !.files = NoFiles] ELSE disk
    /\ loaded' = disk'.files
    /\ box' = [box EXCEPT !.pc = "migrate", !.regenerate = Changed]
    /\ UNCHANGED <<db, claimed, req, options, budget>>

\* A database with migrations this release does not have is refused, each second
\* again.
Migrate ==
    /\ box.pc = "migrate" /\ db.schema <= box.release
    /\ db' = [db EXCEPT !.schema = box.release]
    /\ box' = [box EXCEPT !.pc = "user"]
    /\ UNCHANGED <<disk, loaded, claimed, req, options, budget>>

DefaultUser ==
    /\ box.pc = "user"
    /\ IF options.admin /\ ~IsSetup
       THEN /\ db' = [db EXCEPT !.admins = @ + 1]
            /\ box' = [box EXCEPT !.pc = "drop"]
       ELSE /\ box' = [box EXCEPT !.pc = "token"]
            /\ UNCHANGED db
    /\ UNCHANGED <<disk, loaded, claimed, req, options, budget>>

TokenDropped == IF options.managed THEN [disk EXCEPT !.token = "none"] ELSE disk

DropToken ==
    /\ box.pc = "drop"
    /\ disk' = TokenDropped
    /\ box' = [box EXCEPT !.pc = "token"]
    /\ UNCHANGED <<db, loaded, claimed, req, options, budget>>

ToHosts ==
    box' = IF box.regenerate THEN [box EXCEPT !.pc = "regenerate", !.todo = Hosts]
                             ELSE [box EXCEPT !.pc = "final"]

TokenMissing == ~IsSetup /\ options.managed /\ disk.token = "none"

\* A token that is set, and a file that cannot be created because it is there, are
\* left as they are: an empty file as well.
EnsureSetupToken ==
    /\ box.pc = "token" /\ ~TokenMissing
    /\ disk' = IF IsSetup THEN TokenDropped ELSE disk
    /\ ToHosts
    /\ UNCHANGED <<db, loaded, claimed, req, options, budget>>

\* The file is created, and then written.
CreateToken ==
    /\ box.pc = "token" /\ TokenMissing
    /\ disk' = [disk EXCEPT !.token = "empty"]
    /\ box' = [box EXCEPT !.pc = "fill"]
    /\ UNCHANGED <<db, loaded, claimed, req, options, budget>>

WriteToken ==
    /\ box.pc = "fill"
    /\ disk' = [disk EXCEPT !.token = "whole"]
    /\ ToHosts
    /\ UNCHANGED <<db, loaded, claimed, req, options, budget>>

\* configure without a reload; the settings and the plugins come before it and
\* leave the hosts alone.
Regenerate(h) ==
    /\ box.pc = "regenerate" /\ h \in box.todo
    /\ disk' = [disk EXCEPT !.files[h] = Rendered(db, box.release)[h]]
    /\ box' = [box EXCEPT !.todo = @ \ {h}]
    /\ UNCHANGED <<db, loaded, claimed, req, options, budget>>

WriteHash ==
    /\ box.pc = "regenerate" /\ box.todo = {}
    /\ disk' = [disk EXCEPT !.hash = box.release]
    /\ box' = [box EXCEPT !.pc = "reload"]
    /\ UNCHANGED <<db, loaded, claimed, req, options, budget>>

\* The reload after a regeneration, and the one before the API listens.
Load ==
    /\ box.pc \in {"reload", "final"}
    /\ loaded' = disk.files
    /\ box' = [box EXCEPT !.pc = IF box.pc = "reload" THEN "final" ELSE "serving"]
    /\ UNCHANGED <<db, disk, claimed, req, options, budget>>

\* Mutant: the error of a start is logged and that is all.
BootFaultStays ==
    /\ Booting /\ Spend("faults")
    /\ box' = [box EXCEPT !.pc = "idle", !.todo = {}]
    /\ UNCHANGED <<db, disk, loaded, claimed, req, options>>

\* Any await of the start may fail; the start is tried again after a second.
BootFault ==
    /\ Booting /\ Spend("faults")
    /\ box' = [box EXCEPT !.pc = "migrate", !.todo = {}]
    /\ UNCHANGED <<db, disk, loaded, claimed, req, options>>

\* The backend dies and dinit starts it again, with the container's environment.
BackendCrash ==
    /\ Booting \/ Serving
    /\ Spend("crashes")
    /\ box' = [box EXCEPT !.pc = "migrate", !.todo = {}]
    /\ Forget
    /\ UNCHANGED <<db, disk, loaded, options>>

\* The container is started again, by hand or by Docker after a reboot.
ContainerRestart ==
    /\ box.pc # "off" /\ Spend("crashes")
    /\ box' = Started(box.release)
    /\ Forget
    /\ UNCHANGED <<db, disk, loaded, options>>

-----------------------------------------------------------------------------
(* The host that is saved while the API listens: row, file and nginx in one  *)
(* step (NginxHosts has the steps).                                          *)
SaveHost(h) ==
    /\ Serving /\ Spend("saves")
    /\ db' = [db EXCEPT !.content[h] = @ + 1]
    /\ disk' = [disk EXCEPT !.files[h] = Rendered(db', box.release)[h]]
    /\ loaded' = disk'.files
    /\ UNCHANGED <<box, claimed, req, options>>

-----------------------------------------------------------------------------
(* The first administrator: POST /api/users without a session, by somebody   *)
(* who has read the token.                                                   *)
Goto(r, pc) == req' = [req EXCEPT ![r] = pc]

Ask(r) ==
    /\ Serving /\ req[r] = "todo"
    /\ Goto(r, IF IsSetup THEN "refused" ELSE "claim")
    /\ UNCHANGED <<box, db, disk, loaded, claimed, options, budget>>

Claim(r) ==
    /\ req[r] = "claim"
    /\ Goto(r, IF claimed THEN "refused" ELSE "recheck")
    /\ claimed' = TRUE
    /\ UNCHANGED <<box, db, disk, loaded, options, budget>>

\* The request that has claimed the setup gives it back, whatever becomes of it.
Answer(r, pc) == Goto(r, pc) /\ claimed' = FALSE

\* Mutant: that nobody has set it up is known from before the claim.
RecheckNothing(r) ==
    /\ req[r] = "recheck"
    /\ Goto(r, "verify")
    /\ UNCHANGED <<box, db, disk, loaded, claimed, options, budget>>

Recheck(r) ==
    /\ req[r] = "recheck"
    /\ IF IsSetup THEN Answer(r, "refused") ELSE Goto(r, "verify") /\ UNCHANGED claimed
    /\ UNCHANGED <<box, db, disk, loaded, options, budget>>

TokenExpected == disk.token = "whole" \/ ~options.managed

\* Mutant: a token that was accepted is used up.
VerifyConsumes(r) ==
    /\ req[r] = "verify"
    /\ IF TokenExpected THEN Goto(r, "create") /\ UNCHANGED claimed ELSE Answer(r, "refused")
    /\ disk' = TokenDropped
    /\ UNCHANGED <<box, db, loaded, options, budget>>

Verify(r) ==
    /\ req[r] = "verify"
    /\ IF TokenExpected THEN Goto(r, "create") /\ UNCHANGED claimed ELSE Answer(r, "refused")
    /\ UNCHANGED <<box, db, disk, loaded, options, budget>>

\* The user, its password, permissions and audit entry are one transaction.
CreateUser(r) ==
    /\ req[r] = "create"
    /\ db' = [db EXCEPT !.admins = @ + 1]
    /\ Goto(r, "unlink")
    /\ UNCHANGED <<box, disk, loaded, claimed, options, budget>>

Unlink(r) ==
    /\ req[r] = "unlink"
    /\ disk' = TokenDropped
    /\ Answer(r, "done")
    /\ UNCHANGED <<box, db, loaded, options, budget>>

SetupFault(r) ==
    /\ req[r] \in {"claim", "recheck", "verify", "create", "unlink"} /\ Spend("faults")
    /\ Goto(r, "failed")
    /\ claimed' = (claimed /\ req[r] = "claim")
    /\ UNCHANGED <<box, db, disk, loaded, options>>

-----------------------------------------------------------------------------
BootStep ==
    \/ Begin \/ Migrate \/ DefaultUser \/ DropToken \/ EnsureSetupToken \/ CreateToken \/ WriteToken
    \/ \E h \in Hosts : Regenerate(h)
    \/ WriteHash \/ Load

SetupStep(r) == Ask(r) \/ Claim(r) \/ Recheck(r) \/ Verify(r) \/ CreateUser(r) \/ Unlink(r)

Mishap == BootFault \/ BackendCrash \/ ContainerRestart \/ \E r \in Requests : SetupFault(r)

ContainerNext ==
    \/ BootStep
    \/ \E r \in Requests : SetupStep(r)
    \/ \E h \in Hosts : SaveHost(h)
    \/ Mishap

-----------------------------------------------------------------------------
\* Two setups that overlap, one interrupted by a crash, and the administrator of
\* the environment never make two first administrators (routes/users.js: "Initial
\* setup has already been completed", setup.js: "This will only create a new user
\* when there are no active users in the database").
OneInitialAdmin == db.admins <= 1

\* While nobody has set it up there is a token to set it up with (setup.js: "Initial
\* setup is locked. Read the one-time token with").  The code does not keep this: a
\* start that fails or ends between the creation of the file and its writing leaves
\* an empty one, with which no later start and no request can do anything.
SetupPossible == Serving /\ ~IsSetup => TokenExpected

\* What it keeps: while nobody has set it up the file is there, whatever setups and
\* starts were interrupted, rolled back or restored between its creation, the
\* requests that read it and its removal after the first administrator.
TokenStays == Serving /\ ~IsSetup /\ options.managed => disk.token # "none"

\* A start ends with an API that listens, whatever failed on the way; only a
\* database of a later release keeps it from it (index.js tries again each second).
StartsUp ==
    box.pc = "begin" ~> Serving \/ box.pc = "off" \/ db.schema > box.release
=============================================================================
