----------------------------- MODULE CrsControl -----------------------------
(***************************************************************************)
(* The service of the host that switches CrowdSec's rule set on and off    *)
(* for the dashboard.  It answers one connection at a time; a change is    *)
(* made by a worker thread, under the lock of all maintenance, from a      *)
(* snapshot it goes back to when anything fails.  Beside it the daily      *)
(* check of the keys replaces a file, commands fail, and the service is    *)
(* killed at any point.                                                    *)
(*                                                                         *)
(* Source: the helper npmplus-crs-control.py and the function              *)
(* enable_crowdsec_crs_observation, both in setup-npmplus.sh.              *)
(*                                                                         *)
(* Abstraction: CrowdSec's directory is what the change is about (the list *)
(* of configurations, the policy file) and whether the rest is there.  A   *)
(* layout of the operator's own, which the service refuses, is left out.   *)
(***************************************************************************)
EXTENDS Naturals

CONSTANTS
    Caller,  \* who may connect
    Nobody

ASSUME CallerAssumption == Nobody \notin Caller

VARIABLES
    conf,     \* /opt/crowdsec/conf
    crowd,    \* CrowdSec: the configuration it has started with, and whether it is healthy
    bouncer,  \* /opt/npmplus/crowdsec/crowdsec.conf: the file at that name and its text
    snap,     \* the snapshot of both
    ctl,      \* the service: its state and its worker
    disk,     \* state.json
    peer,     \* the connection being served and the status it was judged by
    healer,   \* the daily check of the keys: the text it will put in place
    luck,     \* bounds: what may still go wrong
    hist      \* history

crsVars == <<conf, crowd, bouncer, snap, ctl, disk, peer, healer, luck, hist>>

Conf == [list : {"plain", "observe", "missing"}, policy : BOOLEAN, rest : BOOLEAN]
NoConf == [list |-> "missing", policy |-> FALSE, rest |-> FALSE]
Mode(on) == [list |-> IF on THEN "observe" ELSE "plain", policy |-> on, rest |-> TRUE]

\* What may be left of a directory that was being removed or copied.
Pieces(c) == {p \in Conf : ~p.rest /\ p.list \in {c.list, "missing"} /\ (p.policy => c.policy)}

Text == [key : Nat, marked : BOOLEAN]
NoText == [key |-> 0]
Image == [conf : Conf, text : Text]

Verbs == {"enable", "disable"}
States == {"idle", "running", "enabled", "failed", "rollback-failed"}
NoPeer == [from |-> Nobody, verb |-> "enable", eligible |-> FALSE, enabled |-> FALSE]

Snapshotting == {"drop", "copy", "store"}
Switching == {"policy", "list", "test", "restart", "same", "write", "verify"}
Recovering == {"clear", "putBack", "unmark", "revive"}
Pcs == {"none", "take"} \cup Snapshotting \cup Switching \cup Recovering

Control == [state : States, hot : BOOLEAN, pc : Pcs, verb : Verbs, ino : Nat, text : Text, written : BOOLEAN]
Fresh0 == [key |-> 1, marked |-> FALSE]
Stopped0 == [state |-> "idle", hot |-> FALSE, pc |-> "none", verb |-> "enable", ino |-> 0,
             text |-> Fresh0, written |-> FALSE]

\* good: both parts before the first change; damaged: a rollback has failed, or a worker was
\* killed; again: a change was begun after that; raced: the check of the keys has replaced the
\* file by an older text, or after the worker had marked it.
Histories == [good : Image, damaged : BOOLEAN, again : BOOLEAN, raced : BOOLEAN]

CrsInit(on, chance) ==
    /\ conf = Mode(on) /\ crowd = [up |-> TRUE, conf |-> Mode(on)]
    /\ bouncer = [ino |-> 1, text |-> [key |-> 1, marked |-> on]]
    /\ snap = [conf |-> NoConf, text |-> Fresh0]
    /\ ctl = Stopped0 /\ disk = [state |-> "idle", hot |-> FALSE]
    /\ peer = NoPeer /\ healer = NoText /\ luck = chance
    /\ hist = [good |-> [conf |-> Mode(on), text |-> [key |-> 1, marked |-> on]],
               damaged |-> FALSE, again |-> FALSE, raced |-> FALSE]

-----------------------------------------------------------------------------
(* The connections.                                                        *)

Managed(c) == c.list # "missing"
Configured(c, text) == text.marked /\ c.list = "observe" /\ c.policy

\* status, under the guard, as the first thing enable and disable do ...
Look(r, verb) ==
    /\ peer.from = Nobody
    /\ peer' = [from |-> r, verb |-> verb, eligible |-> Managed(conf),
                enabled |-> Managed(conf) /\ Configured(conf, bouncer.text)]
    /\ UNCHANGED <<conf, crowd, bouncer, snap, ctl, disk, healer, luck, hist>>

\* ... and what they decide on it, under the guard again.
Verdict ==
    CASE ctl.state = "running" -> "busy"
      [] ctl.state # "running" /\ peer.verb = "enable" /\ peer.enabled -> "enabled"
      [] ctl.state # "running" /\ ~peer.eligible -> "unsupported"
      [] ctl.state # "running" /\ peer.verb = "disable" /\ peer.eligible /\ ~peer.enabled -> "idle"
      [] OTHER -> IF ctl.hot THEN "cooldown" ELSE "start"

Accepted == Verdict \in {"enabled", "idle", "start"}

Decide ==
    /\ peer.from # Nobody
    /\ peer' = NoPeer
    /\ IF Verdict = "start"
       THEN /\ ctl' = [ctl EXCEPT !.state = "running", !.hot = TRUE, !.pc = "take", !.verb = peer.verb]
            /\ disk' = [state |-> "running", hot |-> TRUE]
       ELSE UNCHANGED <<ctl, disk>>
    /\ UNCHANGED <<conf, crowd, bouncer, snap, healer, luck, hist>>

Fault == luck.faults > 0 /\ luck' = [luck EXCEPT !.faults = @ - 1]

\* state.json cannot be written: the state has changed, no worker is started, nobody is answered.
Unsaved ==
    /\ peer.from # Nobody /\ Verdict = "start" /\ Fault
    /\ peer' = NoPeer
    /\ ctl' = [ctl EXCEPT !.state = "running", !.hot = TRUE]
    /\ UNCHANGED <<conf, crowd, bouncer, snap, disk, healer, hist>>

-----------------------------------------------------------------------------
(* The worker: lock, checks and snapshot.                                  *)

GoOn(pc) == ctl' = [ctl EXCEPT !.pc = pc]

\* The state is written to state.json, or that fails and only the service knows it.
Ended(state) ==
    /\ ctl' = [ctl EXCEPT !.pc = "none", !.state = state, !.written = FALSE]
    /\ disk' \in {disk, [state |-> state, hot |-> ctl.hot]}

MayChange ==
    /\ crowd.up /\ Managed(conf)
    /\ ctl.verb = "disable" => Configured(conf, bouncer.text)

\* Another tool holds the lock, CrowdSec is not healthy, or the configuration has changed.
TakeRefused ==
    /\ ctl.pc = "take" /\ Ended("failed")
    /\ UNCHANGED <<conf, crowd, bouncer, snap, peer, healer, luck, hist>>

Take ==
    /\ ctl.pc = "take" /\ MayChange
    /\ ctl' = [ctl EXCEPT !.pc = "drop", !.ino = bouncer.ino, !.text = bouncer.text]
    /\ hist' = IF hist.damaged THEN [hist EXCEPT !.again = TRUE]
               ELSE [hist EXCEPT !.good = [conf |-> conf, text |-> bouncer.text]]
    /\ UNCHANGED <<conf, crowd, bouncer, snap, disk, peer, healer, luck>>

DropSnapshot ==
    /\ ctl.pc = "drop" /\ GoOn("copy")
    /\ snap' = [snap EXCEPT !.conf = NoConf]
    /\ UNCHANGED <<conf, crowd, bouncer, disk, peer, healer, luck, hist>>

CopySnapshot ==
    /\ ctl.pc = "copy" /\ GoOn("store")
    /\ snap' = [snap EXCEPT !.conf = conf]
    /\ UNCHANGED <<conf, crowd, bouncer, disk, peer, healer, luck, hist>>

StoreText ==
    /\ ctl.pc = "store" /\ GoOn("policy")
    /\ snap' = [snap EXCEPT !.text = ctl.text]
    /\ UNCHANGED <<conf, crowd, bouncer, disk, peer, healer, luck, hist>>

\* Nothing has been changed yet but the snapshot.
SnapshotFails ==
    /\ ctl.pc \in Snapshotting /\ Fault /\ Ended("failed")
    /\ snap' \in {snap} \cup {[snap EXCEPT !.conf = p] :
           p \in CASE ctl.pc = "drop" -> Pieces(snap.conf)
                   [] ctl.pc = "copy" -> Pieces(conf)
                   [] OTHER -> {}}
    /\ UNCHANGED <<conf, crowd, bouncer, peer, healer, hist>>

-----------------------------------------------------------------------------
(* The change.  Switching on restarts CrowdSec before the file is marked,  *)
(* switching off after it.                                                 *)

Enabling == ctl.verb = "enable"

ChangePolicy ==
    /\ ctl.pc = "policy" /\ GoOn("list")
    /\ conf' = [conf EXCEPT !.policy = Enabling]
    /\ UNCHANGED <<crowd, bouncer, snap, disk, peer, healer, luck, hist>>

ChangeList ==
    /\ ctl.pc = "list" /\ GoOn("test")
    /\ conf' = [conf EXCEPT !.list = IF Enabling THEN "observe" ELSE "plain"]
    /\ UNCHANGED <<crowd, bouncer, snap, disk, peer, healer, luck, hist>>

\* CrowdSec reads the configuration without starting with it.
TestConf ==
    /\ ctl.pc = "test"
    /\ GoOn(IF ~conf.rest THEN "clear" ELSE IF Enabling THEN "restart" ELSE "same")
    /\ UNCHANGED <<conf, crowd, bouncer, snap, disk, peer, healer, luck, hist>>

Started == crowd' = [up |-> conf.rest, conf |-> conf]
Down == crowd' = [up |-> FALSE, conf |-> conf]

RestartCrowd ==
    /\ ctl.pc = "restart" /\ Started
    /\ IF Enabling THEN GoOn("same") /\ UNCHANGED disk ELSE Ended("idle")
    /\ UNCHANGED <<conf, bouncer, snap, peer, healer, luck, hist>>

Changed == [ctl.text EXCEPT !.marked = Enabling]
IsStill(text) == bouncer = [ino |-> ctl.ino, text |-> text]

CheckSame ==
    /\ ctl.pc = "same" /\ GoOn(IF IsStill(ctl.text) THEN "write" ELSE "clear")
    /\ UNCHANGED <<conf, crowd, bouncer, snap, disk, peer, healer, luck, hist>>

\* The write goes to the file that was opened, which may have lost its name by now.
Written == IF bouncer.ino = ctl.ino THEN [bouncer EXCEPT !.text = Changed] ELSE bouncer

WriteMark ==
    /\ ctl.pc = "write"
    /\ ctl' = [ctl EXCEPT !.pc = "verify", !.written = TRUE]
    /\ bouncer' = Written
    /\ UNCHANGED <<conf, crowd, snap, disk, peer, healer, luck, hist>>

VerifyMark ==
    /\ ctl.pc = "verify"
    /\ IF ~IsStill(Changed) THEN GoOn("clear") /\ UNCHANGED disk
       ELSE IF Enabling THEN Ended("enabled")
       ELSE GoOn("restart") /\ UNCHANGED disk
    /\ UNCHANGED <<conf, crowd, bouncer, snap, peer, healer, luck, hist>>

\* Any command fails, or takes too long, with or without its effect.
SwitchFails ==
    /\ ctl.pc \in Switching /\ Fault
    /\ ctl' = [ctl EXCEPT !.pc = "clear", !.written = @ \/ ctl.pc = "write"]
    /\ UNCHANGED crowd \/ (ctl.pc = "restart" /\ Down)
    /\ UNCHANGED bouncer \/ (ctl.pc = "write" /\ bouncer' = Written)
    /\ UNCHANGED <<conf, snap, disk, peer, healer, hist>>

-----------------------------------------------------------------------------
(* recover: everything is put back, and CrowdSec has to be healthy again.  *)

ClearConf ==
    /\ ctl.pc = "clear" /\ GoOn("putBack")
    /\ conf' = NoConf
    /\ UNCHANGED <<crowd, bouncer, snap, disk, peer, healer, luck, hist>>

\* Mutant: the snapshot is moved into place.
MoveBack ==
    /\ ctl.pc = "putBack" /\ GoOn("unmark")
    /\ conf' = snap.conf /\ snap' = [snap EXCEPT !.conf = NoConf]
    /\ UNCHANGED <<crowd, bouncer, disk, peer, healer, luck, hist>>

PutBack ==
    /\ ctl.pc = "putBack" /\ GoOn("unmark")
    /\ conf' = snap.conf
    /\ UNCHANGED <<crowd, bouncer, snap, disk, peer, healer, luck, hist>>

\* Mutant: the mark is forgotten.
UnmarkNothing ==
    /\ ctl.pc = "unmark" /\ GoOn("revive")
    /\ UNCHANGED <<conf, crowd, bouncer, snap, disk, peer, healer, luck, hist>>

\* Only while the file is still the worker's own edit.
Unmark ==
    /\ ctl.pc = "unmark" /\ GoOn("revive")
    /\ bouncer' = IF ctl.written /\ IsStill(Changed) THEN [bouncer EXCEPT !.text = ctl.text] ELSE bouncer
    /\ UNCHANGED <<conf, crowd, snap, disk, peer, healer, luck, hist>>

Revive ==
    /\ ctl.pc = "revive" /\ Started
    /\ Ended(IF conf.rest THEN "failed" ELSE "rollback-failed")
    /\ hist' = [hist EXCEPT !.damaged = @ \/ ~conf.rest]
    /\ UNCHANGED <<conf, bouncer, snap, peer, healer, luck>>

RecoverFails ==
    /\ ctl.pc \in Recovering /\ Fault /\ Ended("rollback-failed")
    /\ conf' \in {conf} \cup CASE ctl.pc = "clear" -> Pieces(conf)
                               [] ctl.pc = "putBack" -> Pieces(snap.conf)
                               [] OTHER -> {}
    /\ UNCHANGED crowd \/ (ctl.pc = "revive" /\ Down)
    /\ hist' = [hist EXCEPT !.damaged = TRUE]
    /\ UNCHANGED <<bouncer, snap, peer, healer>>

-----------------------------------------------------------------------------
(* Around it: time, the check of the keys, the end of the service.         *)

\* Five minutes after the last attempt.
Elapse ==
    /\ ctl.hot \/ disk.hot
    /\ ctl' = [ctl EXCEPT !.hot = FALSE] /\ disk' = [disk EXCEPT !.hot = FALSE]
    /\ UNCHANGED <<conf, crowd, bouncer, snap, peer, healer, luck, hist>>

\* Each of its two sed -i: a new file, made of the text there was, takes the name of the old one.
\* The second has a new key.
HealRead ==
    /\ luck.heals > 0 /\ healer = NoText
    /\ healer' \in {bouncer.text, [bouncer.text EXCEPT !.key = @ + 1]}
    /\ luck' = [luck EXCEPT !.heals = @ - 1]
    /\ UNCHANGED <<conf, crowd, bouncer, snap, ctl, disk, peer, hist>>

HealReplace ==
    /\ healer # NoText
    /\ bouncer' = [ino |-> bouncer.ino + 1, text |-> healer]
    /\ healer' = NoText
    /\ hist' = [hist EXCEPT !.raced = @ \/ ctl.written \/ healer.marked # bouncer.text.marked]
    /\ UNCHANGED <<conf, crowd, snap, ctl, disk, peer, luck>>

\* The service is killed, or the power fails and CrowdSec starts with what it finds.
KillService ==
    /\ luck.kills > 0 /\ luck' = [luck EXCEPT !.kills = @ - 1]
    /\ peer' = NoPeer
    /\ ctl' = [Stopped0 EXCEPT !.hot = disk.hot,
                   !.state = IF disk.state = "running" THEN "failed" ELSE disk.state]
    /\ crowd' \in {crowd, [up |-> conf.rest, conf |-> conf]}
    /\ hist' = [hist EXCEPT !.damaged = @ \/ ctl.pc # "none"]
    /\ UNCHANGED <<conf, bouncer, snap, disk, healer>>

WorkerStep ==
    \/ TakeRefused \/ Take \/ DropSnapshot \/ CopySnapshot \/ StoreText \/ SnapshotFails
    \/ ChangePolicy \/ ChangeList \/ TestConf \/ RestartCrowd \/ CheckSame \/ WriteMark \/ VerifyMark
    \/ SwitchFails
    \/ ClearConf \/ PutBack \/ Unmark \/ Revive \/ RecoverFails

CrsStep == WorkerStep \/ Elapse \/ HealRead \/ HealReplace

CrsNext ==
    \/ \E r \in Caller, verb \in Verbs : Look(r, verb)
    \/ Decide \/ Unsaved \/ CrsStep \/ KillService

CrsSpec == (\E on \in BOOLEAN, chance \in [faults : Nat, kills : Nat, heals : Nat] : CrsInit(on, chance))
           /\ [][CrsNext]_crsVars

-----------------------------------------------------------------------------
\* The files, the service and its worker are well-typed.
CrsTypeOK ==
    /\ conf \in Conf /\ crowd \in [up : BOOLEAN, conf : Conf]
    /\ bouncer \in [ino : Nat, text : Text] /\ snap \in Image
    /\ ctl \in Control /\ disk \in [state : States, hot : BOOLEAN]
    /\ peer \in [from : Caller \cup {Nobody}, verb : Verbs, eligible : BOOLEAN, enabled : BOOLEAN]
    /\ healer \in Text \cup {NoText}
    /\ luck \in [faults : Nat, kills : Nat, heals : Nat] /\ hist \in Histories

\* A change is made as a whole or not at all, whichever of its commands fails and in whichever
\* order the two verbs take them: when it has ended, CrowdSec is healthy and runs what is in its
\* directory, the directory is the one of the old or the new mode, and the file the dashboard reads
\* names that mode.  Except after a rollback that failed, a kill in the middle, and a check of
\* the keys that replaced the file by an older text or under the worker's mark.
RolledBack ==
    ctl.pc = "none" /\ ~hist.damaged /\ ~hist.raced =>
        /\ conf = Mode(bouncer.text.marked) /\ crowd = [up |-> TRUE, conf |-> conf]
        /\ ctl.state = "enabled" => bouncer.text.marked

\* When even the rollback has failed, the snapshot is complete and holds both parts as they were
\* before the change ("the known-good instance an operator restores from"); the next change
\* replaces it.
KnownGoodKept == ctl.state = "rollback-failed" /\ ~hist.again => snap = hist.good
=============================================================================
