--------------------------- MODULE MCMaintenance ---------------------------
(* Small instances of Maintenance: release 2 is installed, 3 the newest.  Two *)
(* hosts, so that a regeneration can be interrupted between them.            *)
EXTENDS Maintenance

Budget(faults, crashes, saves) == [faults |-> faults, crashes |-> crashes, saves |-> saves]

\* A container that is started, not updated: installed anew (no fingerprint), or
\* with the administrator of its environment.
Start(requests, managed, admin, faults, crashes) ==
    [start |-> "begin", hash |-> 0, admins |-> 0, managed |-> managed, admin |-> admin,
     requests |-> requests, update |-> FALSE, older |-> FALSE, candidate |-> 0, force |-> FALSE,
     kill |-> FALSE, budget |-> Budget(faults, crashes, 0),
     restore |-> FALSE, backup |-> FALSE, heal |-> FALSE, archive |-> NoArchive]

Update(candidate, force, older, kill, crashes, saves) ==
    [Start(0, TRUE, FALSE, 0, 0) EXCEPT
        !.start = "serving", !.hash = Installed, !.admins = 1, !.update = TRUE,
        !.older = older, !.candidate = candidate, !.force = force, !.kill = kill,
        !.budget = Budget(0, crashes, saves)]

\* An archive of another machine.
Archive(release, admins, crowdsec) ==
    [exists |-> TRUE, crowdsec |-> crowdsec,
     db |-> [schema |-> release, content |-> [h \in Hosts |-> 2], admins |-> admins],
     files |-> [h \in Hosts |-> [content |-> 2, release |-> release]],
     held |-> [n \in Names |-> 2], known |-> [n \in Names |-> 2]]

Run(restores, backs, heals, from, kill, bound) ==
    [Start(0, TRUE, FALSE, 0, 0) EXCEPT
        !.start = "serving", !.hash = Installed, !.admins = 1,
        !.restore = restores, !.backup = backs, !.heal = heals, !.archive = from,
        !.kill = kill, !.budget = bound]

MCScenes ==
    {Start(2, TRUE, FALSE, 2, 2), Start(2, FALSE, FALSE, 2, 2), Start(1, TRUE, TRUE, 2, 2),
     Update(0, FALSE, TRUE, FALSE, 1, 2), Update(0, FALSE, FALSE, TRUE, 1, 1),
     Update(3, FALSE, TRUE, TRUE, 2, 0), Update(1, FALSE, TRUE, FALSE, 1, 0),
     Update(1, TRUE, TRUE, FALSE, 1, 1),
     [Update(3, FALSE, TRUE, FALSE, 1, 0) EXCEPT !.admins = 0, !.requests = 1],
     \* a restore: of a release before, the same and a later one
     Run(TRUE, FALSE, FALSE, Archive(1, 1, TRUE), TRUE, Budget(1, 1, 1)),
     [Run(TRUE, FALSE, FALSE, Archive(2, 0, FALSE), FALSE, Budget(1, 1, 0)) EXCEPT !.requests = 1],
     Run(TRUE, FALSE, FALSE, Archive(3, 1, TRUE), FALSE, Budget(1, 1, 0)),
     \* with the daily check, and after a backup of the same machine
     Run(TRUE, FALSE, TRUE, Archive(2, 1, TRUE), FALSE, Budget(1, 0, 0)),
     Run(TRUE, TRUE, FALSE, Archive(2, 1, FALSE), TRUE, Budget(0, 0, 1)),
     Run(FALSE, TRUE, TRUE, NoArchive, FALSE, Budget(1, 1, 1)),
     \* after an update that was killed
     [Update(0, FALSE, FALSE, TRUE, 0, 0) EXCEPT !.restore = TRUE, !.archive = Archive(2, 1, TRUE)]}

\* An installation that is started anew, with one await that fails.
MCFirstStart == {Start(1, TRUE, FALSE, 1, 0)}

MCKeys == 1 .. 10
=============================================================================
