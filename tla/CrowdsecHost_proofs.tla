------------------------ MODULE CrowdsecHost_proofs ------------------------
(***************************************************************************)
(* Proofs about CrowdSec and its users.  First the switch of the rule set, *)
(* by itself and as a part of Crowdsec; then the rest of Crowdsec: the     *)
(* machine token, the catalogue of attackers and the changes; then, for    *)
(* CrowdsecHost, the addresses Anubis has caught: no ban is lost and no    *)
(* line observed twice, whatever CrowdSec and the others do.               *)
(***************************************************************************)
EXTENDS CrowdsecHost, FiniteSetTheorems, TLAPS

-----------------------------------------------------------------------------
(* The invariant.                                                           *)
Taken == Snapshotting \cup Switching \cup Recovering

\* A worker runs only in the state it was started with, which has been saved.
RunInv == ctl.pc # "none" => ctl.state = "running" /\ disk.state = "running"

\* What the history says of a rollback that has failed, in the service or in state.json.
DamageInv ==
    /\ "rollback-failed" \in {ctl.state, disk.state} => hist.damaged
    /\ hist.again => hist.damaged
    /\ hist.damaged /\ ~hist.again => ctl.pc \notin Taken

\* The snapshot and what it is taken of.
SnapInv ==
    /\ ~hist.damaged /\ ctl.pc \in Taken => ctl.text = hist.good.text
    /\ ~hist.damaged /\ ctl.pc \in Snapshotting => conf = hist.good.conf
    /\ ~hist.damaged /\ ctl.pc = "store" => snap.conf = hist.good.conf
    /\ ~hist.damaged /\ ctl.pc \in Switching \cup Recovering => snap = hist.good
    /\ "rollback-failed" \in {ctl.state, disk.state} /\ ~hist.again => snap = hist.good

Clean == ~hist.damaged /\ ~hist.raced
Same == conf = Mode(bouncer.text.marked) /\ crowd = [up |-> TRUE, conf |-> conf]

\* Between two changes the mark, the directory and CrowdSec agree, up to the first change of
\* the directory.
RestInv ==
    Clean /\ ctl.pc \notin Switching \cup Recovering =>
        /\ Same
        /\ "enabled" \in {ctl.state, disk.state} => bouncer.text.marked

\* What the change has made of the directory and of CrowdSec so far.
ChangeInv ==
    Clean /\ ctl.pc \in Taken =>
        /\ hist.good.conf = Mode(ctl.text.marked)
        /\ ctl.pc = "policy" => conf = hist.good.conf
        /\ ctl.pc = "list" => conf = [hist.good.conf EXCEPT !.policy = Enabling]
        /\ ctl.pc \in {"test", "restart", "same", "write", "verify"} => conf = Mode(Enabling)
        /\ ctl.pc \in {"same", "write", "verify"} /\ Enabling => crowd = [up |-> TRUE, conf |-> conf]
        /\ ctl.pc \in {"unmark", "revive"} => conf = hist.good.conf

\* The mark is the old one until the worker has written, and then its own or the old one.
MarkInv ==
    /\ ctl.pc \notin Recovering \cup {"verify", "restart"} => ~ctl.written
    /\ ctl.pc = "verify" => ctl.written
    /\ ctl.pc = "restart" => (ctl.written <=> ~Enabling)
    /\ Clean /\ ctl.pc \in Taken =>
        /\ ~ctl.written \/ ctl.pc = "revive" => bouncer.text.marked = ctl.text.marked
        /\ ctl.written => IsStill(Changed) \/ bouncer.text.marked = ctl.text.marked
        /\ ctl.pc = "restart" /\ ~Enabling => ~bouncer.text.marked

CrsInv == RunInv /\ DamageInv /\ SnapInv /\ RestInv /\ ChangeInv /\ MarkInv

-----------------------------------------------------------------------------
(* Types.                                                                   *)
LEMMA ConfTypes ==
    /\ NoConf \in Conf
    /\ \A on \in BOOLEAN : Mode(on) \in Conf
    /\ \A c \in Conf : Pieces(c) \subseteq Conf
BY DEF NoConf, Mode, Conf, Pieces

LEMMA ModeIsWhole == \A on \in BOOLEAN : Mode(on).rest = TRUE
BY DEF Mode

LEMMA StartTypes == Fresh0 \in Text /\ Stopped0 \in Control
BY DEF Fresh0, Text, Stopped0, Control, States, Pcs, Verbs

LEMMA StatesType == [state |-> "running", hot |-> TRUE] \in [state : States, hot : BOOLEAN]
BY DEF States

LEMMA GoOnType ==
    ASSUME ctl \in Control, NEW pc \in Pcs, GoOn(pc)
    PROVE  ctl' \in Control
BY DEF GoOn, Control

LEMMA EndedType ==
    ASSUME ctl \in Control, disk \in [state : States, hot : BOOLEAN], NEW state \in States, Ended(state)
    PROVE  ctl' \in Control /\ disk' \in [state : States, hot : BOOLEAN]
<1>1. ctl' \in Control
  BY DEF Ended, Control, Pcs
<1>2. disk' \in [state : States, hot : BOOLEAN]
  <2>1. ctl.hot \in BOOLEAN
    BY DEF Control
  <2> QED
    BY <2>1 DEF Ended
<1> QED
  BY <1>1, <1>2

LEMMA PcTypes == Snapshotting \cup Switching \cup Recovering \cup {"none", "take"} = Pcs
BY DEF Pcs

LEMMA TextTypes ==
    ASSUME CrsTypeOK
    PROVE  Changed \in Text /\ Written \in [ino : Nat, text : Text]
BY DEF CrsTypeOK, Control, Text, Changed, Written, Enabling

LEMMA StartedType == ASSUME CrsTypeOK, Started PROVE crowd' \in [up : BOOLEAN, conf : Conf]
BY DEF CrsTypeOK, Started, Conf

LEMMA DownType ==
    ASSUME CrsTypeOK, UNCHANGED crowd \/ Down
    PROVE  crowd' \in [up : BOOLEAN, conf : Conf]
<1>1. CASE UNCHANGED crowd
  BY <1>1 DEF CrsTypeOK
<1>2. CASE Down
  BY <1>2 DEF CrsTypeOK, Down
<1> QED
  BY <1>1, <1>2

LEMMA FaultType == ASSUME CrsTypeOK, Fault PROVE luck' \in [faults : Nat, kills : Nat, heals : Nat]
BY DEF CrsTypeOK, Fault

\* A change is begun only when none is under way.
LEMMA StartVerdict == Verdict = "start" => ctl.state # "running"
BY DEF Verdict

\* What the beginning and the end of a change make of the service.
LEMMA BeginEffect ==
    ASSUME CrsTypeOK, Decide, Verdict = "start"
    PROVE  /\ ctl.state # "running"
           /\ ctl'.pc = "take" /\ ctl'.state = "running" /\ ctl'.written = ctl.written
           /\ disk'.state = "running"
           /\ UNCHANGED <<conf, crowd, bouncer, snap, hist>>
<1>1. ctl' = [ctl EXCEPT !.state = "running", !.hot = TRUE, !.pc = "take", !.verb = peer.verb]
  BY DEF Decide
<1>2. disk' = [state |-> "running", hot |-> TRUE]
  BY DEF Decide
<1>3. UNCHANGED <<conf, crowd, bouncer, snap, hist>>
  BY DEF Decide
<1> QED
  BY <1>1, <1>2, <1>3, StartVerdict DEF CrsTypeOK, Control

LEMMA EndedEffect ==
    ASSUME CrsTypeOK, NEW state \in States, Ended(state)
    PROVE  /\ ctl'.pc = "none" /\ ctl'.state = state /\ ~ctl'.written
           /\ disk'.state \in {disk.state, state}
BY DEF CrsTypeOK, Ended, Control

LEMMA CrsTypeInit ==
    ASSUME NEW on \in BOOLEAN, NEW chance \in [faults : Nat, kills : Nat, heals : Nat], CrsInit(on, chance)
    PROVE  CrsTypeOK
<1>1. bouncer \in [ino : Nat, text : Text] /\ hist \in Histories /\ crowd \in [up : BOOLEAN, conf : Conf]
  BY ConfTypes DEF CrsInit, Text, Histories, Image
<1>2. snap \in Image /\ disk \in [state : States, hot : BOOLEAN]
  BY ConfTypes, StartTypes DEF CrsInit, Image, States
<1>3. peer \in [from : Caller \cup {Nobody}, verb : Verbs, eligible : BOOLEAN, enabled : BOOLEAN]
  BY DEF CrsInit, NoPeer, Verbs
<1> QED
  BY <1>1, <1>2, <1>3, ConfTypes, StartTypes DEF CrsInit, CrsTypeOK

\* Every step keeps the types; an action is looked at only where it changes something.
LEMMA CrsTypeStep == ASSUME CrsTypeOK, CrsNext PROVE CrsTypeOK'
<1>1. ASSUME NEW r \in Caller, NEW verb \in Verbs, Look(r, verb) PROVE CrsTypeOK'
  <2>1. peer' \in [from : Caller \cup {Nobody}, verb : Verbs, eligible : BOOLEAN, enabled : BOOLEAN]
    BY <1>1 DEF Look, CrsTypeOK, Verbs, Managed, Configured
  <2> QED
    BY <1>1, <2>1 DEF Look, CrsTypeOK
<1>2. CASE Decide
  <2>1. peer' \in [from : Caller \cup {Nobody}, verb : Verbs, eligible : BOOLEAN, enabled : BOOLEAN]
    BY <1>2 DEF Decide, CrsTypeOK, NoPeer, Verbs
  <2>2. ctl' \in Control
    <3>1. "running" \in States /\ "take" \in Pcs /\ peer.verb \in Verbs /\ ctl \in Control
      BY DEF CrsTypeOK, States, Pcs
    <3>2. ctl' = ctl \/ ctl' = [ctl EXCEPT !.state = "running", !.hot = TRUE, !.pc = "take", !.verb = peer.verb]
      BY <1>2 DEF Decide
    <3> QED
      BY <3>1, <3>2 DEF Control
  <2>3. disk' \in [state : States, hot : BOOLEAN]
    BY <1>2, StatesType DEF Decide, CrsTypeOK
  <2> QED
    BY <1>2, <2>1, <2>2, <2>3 DEF Decide, CrsTypeOK
<1>3. CASE Unsaved
  <2>1. peer' \in [from : Caller \cup {Nobody}, verb : Verbs, eligible : BOOLEAN, enabled : BOOLEAN]
    BY <1>3 DEF Unsaved, CrsTypeOK, NoPeer, Verbs
  <2>2. ctl' \in Control
    BY <1>3 DEF Unsaved, CrsTypeOK, Control, States
  <2>3. luck' \in [faults : Nat, kills : Nat, heals : Nat]
    BY <1>3, FaultType DEF Unsaved, CrsTypeOK
  <2> QED
    BY <1>3, <2>1, <2>2, <2>3 DEF Unsaved, CrsTypeOK
<1>4. CASE TakeRefused
  <2>1. ctl' \in Control /\ disk' \in [state : States, hot : BOOLEAN]
    BY <1>4, EndedType DEF TakeRefused, CrsTypeOK, States
  <2> QED
    BY <1>4, <2>1 DEF TakeRefused, CrsTypeOK
<1>5. CASE Take
  <2>1. ctl' \in Control
    BY <1>5 DEF Take, CrsTypeOK, Control, Pcs, Snapshotting
  <2>2. hist' \in Histories
    BY <1>5 DEF Take, CrsTypeOK, Histories, Image
  <2> QED
    BY <1>5, <2>1, <2>2 DEF Take, CrsTypeOK
<1>6. CASE DropSnapshot
  <2>1. ctl' \in Control
    BY <1>6, GoOnType DEF DropSnapshot, CrsTypeOK, Pcs, Snapshotting
  <2>2. snap' \in Image
    BY <1>6, ConfTypes DEF DropSnapshot, CrsTypeOK, Image
  <2> QED
    BY <1>6, <2>1, <2>2 DEF DropSnapshot, CrsTypeOK
<1>7. CASE CopySnapshot
  <2>1. ctl' \in Control
    BY <1>7, GoOnType DEF CopySnapshot, CrsTypeOK, Pcs, Snapshotting
  <2>2. snap' \in Image
    BY <1>7 DEF CopySnapshot, CrsTypeOK, Image
  <2> QED
    BY <1>7, <2>1, <2>2 DEF CopySnapshot, CrsTypeOK
<1>8. CASE StoreText
  <2>1. ctl' \in Control
    BY <1>8, GoOnType DEF StoreText, CrsTypeOK, Pcs, Switching
  <2>2. snap' \in Image
    BY <1>8 DEF StoreText, CrsTypeOK, Image, Control
  <2> QED
    BY <1>8, <2>1, <2>2 DEF StoreText, CrsTypeOK
<1>9. CASE SnapshotFails
  <2>1. ctl' \in Control /\ disk' \in [state : States, hot : BOOLEAN]
    BY <1>9, EndedType DEF SnapshotFails, CrsTypeOK, States
  <2>2. snap' \in Image
    BY <1>9, ConfTypes DEF SnapshotFails, CrsTypeOK, Image, Snapshotting
  <2>3. luck' \in [faults : Nat, kills : Nat, heals : Nat]
    BY <1>9, FaultType DEF SnapshotFails, CrsTypeOK
  <2> QED
    BY <1>9, <2>1, <2>2, <2>3 DEF SnapshotFails, CrsTypeOK
<1>10. CASE ChangePolicy
  <2>1. conf' \in Conf
    BY <1>10 DEF ChangePolicy, CrsTypeOK, Conf, Enabling
  <2>2. ctl' \in Control
    BY <1>10, GoOnType DEF ChangePolicy, CrsTypeOK, Pcs, Switching
  <2> QED
    BY <1>10, <2>1, <2>2 DEF ChangePolicy, CrsTypeOK
<1>11. CASE ChangeList
  <2>1. conf' \in Conf
    BY <1>11 DEF ChangeList, CrsTypeOK, Conf
  <2>2. ctl' \in Control
    BY <1>11, GoOnType DEF ChangeList, CrsTypeOK, Pcs, Switching
  <2> QED
    BY <1>11, <2>1, <2>2 DEF ChangeList, CrsTypeOK
<1>12. CASE TestConf
  <2>1. ctl' \in Control
    BY <1>12, GoOnType DEF TestConf, CrsTypeOK, Pcs, Switching, Recovering
  <2> QED
    BY <1>12, <2>1 DEF TestConf, CrsTypeOK
<1>13. CASE RestartCrowd
  <2>1. crowd' \in [up : BOOLEAN, conf : Conf]
    BY <1>13, StartedType DEF RestartCrowd, CrsTypeOK
  <2>2. ctl' \in Control /\ disk' \in [state : States, hot : BOOLEAN]
    BY <1>13, EndedType, GoOnType DEF RestartCrowd, CrsTypeOK, Pcs, Switching, States
  <2> QED
    BY <1>13, <2>1, <2>2 DEF RestartCrowd, CrsTypeOK
<1>14. CASE CheckSame
  <2>1. ctl' \in Control
    BY <1>14, GoOnType DEF CheckSame, CrsTypeOK, Pcs, Switching, Recovering
  <2> QED
    BY <1>14, <2>1 DEF CheckSame, CrsTypeOK
<1>15. CASE WriteMark
  <2>1. bouncer' \in [ino : Nat, text : Text]
    BY <1>15, TextTypes DEF WriteMark, CrsTypeOK
  <2>2. ctl' \in Control
    BY <1>15 DEF WriteMark, CrsTypeOK, Control, Pcs, Switching
  <2> QED
    BY <1>15, <2>1, <2>2 DEF WriteMark, CrsTypeOK
<1>16. CASE VerifyMark
  <2>1. ctl' \in Control /\ disk' \in [state : States, hot : BOOLEAN]
    BY <1>16, EndedType, GoOnType DEF VerifyMark, CrsTypeOK, Pcs, Switching, Recovering, States
  <2> QED
    BY <1>16, <2>1 DEF VerifyMark, CrsTypeOK
<1>17. CASE SwitchFails
  <2>1. ctl' \in Control
    BY <1>17 DEF SwitchFails, CrsTypeOK, Control, Pcs, Recovering
  <2>2. crowd' \in [up : BOOLEAN, conf : Conf]
    BY <1>17, DownType DEF SwitchFails, CrsTypeOK
  <2>3. bouncer' \in [ino : Nat, text : Text]
    BY <1>17, TextTypes DEF SwitchFails, CrsTypeOK
  <2>4. luck' \in [faults : Nat, kills : Nat, heals : Nat]
    BY <1>17, FaultType DEF SwitchFails, CrsTypeOK
  <2> QED
    BY <1>17, <2>1, <2>2, <2>3, <2>4 DEF SwitchFails, CrsTypeOK
<1>18. CASE ClearConf
  <2>1. conf' \in Conf
    BY <1>18, ConfTypes DEF ClearConf, CrsTypeOK
  <2>2. ctl' \in Control
    BY <1>18, GoOnType DEF ClearConf, CrsTypeOK, Pcs, Recovering
  <2> QED
    BY <1>18, <2>1, <2>2 DEF ClearConf, CrsTypeOK
<1>19. CASE PutBack
  <2>1. conf' \in Conf
    BY <1>19 DEF PutBack, CrsTypeOK, Image
  <2>2. ctl' \in Control
    BY <1>19, GoOnType DEF PutBack, CrsTypeOK, Pcs, Recovering
  <2> QED
    BY <1>19, <2>1, <2>2 DEF PutBack, CrsTypeOK
<1>20. CASE Unmark
  <2>1. bouncer' \in [ino : Nat, text : Text]
    BY <1>20 DEF Unmark, CrsTypeOK, Control
  <2>2. ctl' \in Control
    BY <1>20, GoOnType DEF Unmark, CrsTypeOK, Pcs, Recovering
  <2> QED
    BY <1>20, <2>1, <2>2 DEF Unmark, CrsTypeOK
<1>21. CASE Revive
  <2>1. crowd' \in [up : BOOLEAN, conf : Conf]
    BY <1>21, StartedType DEF Revive, CrsTypeOK
  <2>2. ctl' \in Control /\ disk' \in [state : States, hot : BOOLEAN]
    BY <1>21, EndedType DEF Revive, CrsTypeOK, States
  <2>3. hist' \in Histories
    BY <1>21 DEF Revive, CrsTypeOK, Histories, Conf
  <2> QED
    BY <1>21, <2>1, <2>2, <2>3 DEF Revive, CrsTypeOK
<1>22. CASE RecoverFails
  <2>1. conf' \in Conf
    BY <1>22, ConfTypes DEF RecoverFails, CrsTypeOK, Image
  <2>2. crowd' \in [up : BOOLEAN, conf : Conf]
    BY <1>22, DownType DEF RecoverFails, CrsTypeOK
  <2>3. ctl' \in Control /\ disk' \in [state : States, hot : BOOLEAN]
    BY <1>22, EndedType DEF RecoverFails, CrsTypeOK, States
  <2>4. hist' \in Histories
    BY <1>22 DEF RecoverFails, CrsTypeOK, Histories
  <2>5. luck' \in [faults : Nat, kills : Nat, heals : Nat]
    BY <1>22, FaultType DEF RecoverFails, CrsTypeOK
  <2> QED
    BY <1>22, <2>1, <2>2, <2>3, <2>4, <2>5 DEF RecoverFails, CrsTypeOK
<1>23. CASE Elapse
  <2>1. ctl' \in Control
    BY <1>23 DEF Elapse, CrsTypeOK, Control
  <2>2. disk' \in [state : States, hot : BOOLEAN]
    BY <1>23 DEF Elapse, CrsTypeOK
  <2> QED
    BY <1>23, <2>1, <2>2 DEF Elapse, CrsTypeOK
<1>24. CASE HealRead
  <2>1. healer' \in Text \cup {NoText}
    BY <1>24 DEF HealRead, CrsTypeOK, Text
  <2>2. luck' \in [faults : Nat, kills : Nat, heals : Nat]
    BY <1>24 DEF HealRead, CrsTypeOK
  <2> QED
    BY <1>24, <2>1, <2>2 DEF HealRead, CrsTypeOK
<1>25. CASE HealReplace
  <2>1. bouncer' \in [ino : Nat, text : Text]
    BY <1>25 DEF HealReplace, CrsTypeOK
  <2>2. healer' \in Text \cup {NoText}
    BY <1>25 DEF HealReplace, CrsTypeOK
  <2>3. hist' \in Histories
    BY <1>25 DEF HealReplace, CrsTypeOK, Histories, Control, Text
  <2> QED
    BY <1>25, <2>1, <2>2, <2>3 DEF HealReplace, CrsTypeOK
<1>26. CASE KillService
  <2>1. peer' \in [from : Caller \cup {Nobody}, verb : Verbs, eligible : BOOLEAN, enabled : BOOLEAN]
    BY <1>26 DEF KillService, CrsTypeOK, NoPeer, Verbs
  <2>2. crowd' \in [up : BOOLEAN, conf : Conf]
    BY <1>26 DEF KillService, CrsTypeOK, Conf
  <2>3. ctl' \in Control
    BY <1>26, StartTypes DEF KillService, CrsTypeOK, Control, States
  <2>4. luck' \in [faults : Nat, kills : Nat, heals : Nat]
    BY <1>26 DEF KillService, CrsTypeOK
  <2>5. hist' \in Histories
    BY <1>26 DEF KillService, CrsTypeOK, Histories
  <2> QED
    BY <1>26, <2>1, <2>2, <2>3, <2>4, <2>5 DEF KillService, CrsTypeOK
<1> QED
  BY <1>1, <1>2, <1>3, <1>4, <1>5, <1>6, <1>7, <1>8, <1>9, <1>10, <1>11, <1>12, <1>13, <1>14,
     <1>15, <1>16, <1>17, <1>18, <1>19, <1>20, <1>21, <1>22, <1>23, <1>24, <1>25, <1>26, CrsNext
     DEF CrsNext, CrsStep, WorkerStep

-----------------------------------------------------------------------------
(* The steps.                                                              *)
LEMMA RunStep == ASSUME CrsTypeOK, RunInv, CrsNext PROVE RunInv'
<1>1. ASSUME NEW r \in Caller, NEW verb \in Verbs, Look(r, verb) PROVE RunInv'
  BY <1>1 DEF Look, CrsTypeOK, Control, Pcs, RunInv, Stopped0
<1>2. CASE Decide
  <2>1. CASE Verdict = "start"
    BY <1>2, <2>1, BeginEffect DEF CrsTypeOK, Control, Pcs, RunInv, Stopped0
  <2>2. CASE Verdict # "start"
    BY <1>2, <2>2 DEF Decide, CrsTypeOK, Control, Pcs, RunInv, Stopped0
  <2> QED
    BY <2>1, <2>2
<1>3. CASE Unsaved
  BY <1>3, StartVerdict DEF Unsaved, Fault, CrsTypeOK, Control, Pcs, RunInv, Stopped0
<1>4. CASE TakeRefused
  BY <1>4, EndedEffect DEF TakeRefused, States, CrsTypeOK, Control, Pcs, RunInv, Stopped0
<1>5. CASE Take
  BY <1>5 DEF Take, MayChange, CrsTypeOK, Control, Pcs, RunInv, Stopped0
<1>6. CASE DropSnapshot
  BY <1>6 DEF DropSnapshot, GoOn, CrsTypeOK, Control, Pcs, RunInv, Stopped0
<1>7. CASE CopySnapshot
  BY <1>7 DEF CopySnapshot, GoOn, CrsTypeOK, Control, Pcs, RunInv, Stopped0
<1>8. CASE StoreText
  BY <1>8 DEF StoreText, GoOn, CrsTypeOK, Control, Pcs, RunInv, Stopped0
<1>9. CASE SnapshotFails
  BY <1>9, EndedEffect DEF SnapshotFails, Fault, Snapshotting, States, CrsTypeOK, Control, Pcs,
     RunInv, Stopped0
<1>10. CASE ChangePolicy
  BY <1>10 DEF ChangePolicy, GoOn, Enabling, CrsTypeOK, Control, Pcs, RunInv, Stopped0
<1>11. CASE ChangeList
  BY <1>11 DEF ChangeList, GoOn, Enabling, CrsTypeOK, Control, Pcs, RunInv, Stopped0
<1>12. CASE TestConf
  BY <1>12 DEF TestConf, GoOn, Enabling, CrsTypeOK, Control, Pcs, RunInv, Stopped0
<1>13. CASE RestartCrowd
  <2>1. CASE Enabling
    <3>1. GoOn("same") /\ Started /\ UNCHANGED <<conf, bouncer, snap, disk, hist>> /\ ctl.pc =
       "restart"
      BY <1>13, <2>1 DEF RestartCrowd
    <3> QED
      BY <3>1, <2>1 DEF GoOn, Started, Enabling, CrsTypeOK, Control, Pcs, RunInv, Stopped0
  <2>2. CASE ~Enabling
    <3>1. Ended("idle") /\ Started /\ UNCHANGED <<conf, bouncer, snap, hist>> /\ ctl.pc =
       "restart"
      BY <1>13, <2>2 DEF RestartCrowd
    <3> QED
      BY <3>1, <2>2, EndedEffect DEF Started, Enabling, States, CrsTypeOK, Control, Pcs, RunInv,
         Stopped0
  <2> QED
    BY <2>1, <2>2
<1>14. CASE CheckSame
  BY <1>14 DEF CheckSame, GoOn, CrsTypeOK, Control, Pcs, RunInv, Stopped0
<1>15. CASE WriteMark
  BY <1>15 DEF WriteMark, Written, CrsTypeOK, Control, Pcs, RunInv, Stopped0
<1>16. CASE VerifyMark
  <2>1. CASE ~IsStill(Changed)
    <3>1. GoOn("clear") /\ UNCHANGED <<conf, crowd, bouncer, snap, disk, hist>> /\ ctl.pc =
       "verify"
      BY <1>16, <2>1 DEF VerifyMark
    <3> QED
      BY <3>1, <2>1 DEF GoOn, Enabling, CrsTypeOK, Control, Pcs, RunInv, Stopped0
  <2>2. CASE IsStill(Changed) /\ Enabling
    <3>1. Ended("enabled") /\ UNCHANGED <<conf, crowd, bouncer, snap, hist>> /\ ctl.pc =
       "verify"
      BY <1>16, <2>2 DEF VerifyMark
    <3> QED
      BY <3>1, <2>2, EndedEffect DEF Enabling, States, CrsTypeOK, Control, Pcs, RunInv, Stopped0
  <2>3. CASE IsStill(Changed) /\ ~Enabling
    <3>1. GoOn("restart") /\ UNCHANGED <<conf, crowd, bouncer, snap, disk, hist>> /\ ctl.pc =
       "verify"
      BY <1>16, <2>3 DEF VerifyMark
    <3> QED
      BY <3>1, <2>3 DEF GoOn, Enabling, CrsTypeOK, Control, Pcs, RunInv, Stopped0
  <2> QED
    BY <2>1, <2>2, <2>3
<1>17. CASE SwitchFails
  BY <1>17 DEF SwitchFails, Fault, Written, Switching, Down, CrsTypeOK, Control, Pcs, RunInv,
     Stopped0
<1>18. CASE ClearConf
  BY <1>18 DEF ClearConf, GoOn, CrsTypeOK, Control, Pcs, RunInv, Stopped0
<1>19. CASE PutBack
  BY <1>19 DEF PutBack, GoOn, CrsTypeOK, Control, Pcs, RunInv, Stopped0
<1>20. CASE Unmark
  BY <1>20 DEF Unmark, GoOn, CrsTypeOK, Control, Pcs, RunInv, Stopped0
<1>21. CASE Revive
  <2>1. CASE conf.rest
    <3>1. Ended("failed") /\ Started /\ UNCHANGED <<conf, bouncer, snap>> /\ ctl.pc = "revive"
       /\ hist' = [hist EXCEPT !.damaged = @ \/ ~conf.rest]
      BY <1>21, <2>1 DEF Revive
    <3> QED
      BY <3>1, <2>1, EndedEffect DEF Started, States, CrsTypeOK, Control, Pcs, RunInv, Stopped0
  <2>2. CASE ~conf.rest
    <3>1. Ended("rollback-failed") /\ Started /\ UNCHANGED <<conf, bouncer, snap>> /\ ctl.pc =
       "revive" /\ hist' = [hist EXCEPT !.damaged = @ \/ ~conf.rest]
      BY <1>21, <2>2 DEF Revive
    <3> QED
      BY <3>1, <2>2, EndedEffect DEF Started, States, CrsTypeOK, Control, Pcs, RunInv, Stopped0
  <2> QED
    BY <2>1, <2>2
<1>22. CASE RecoverFails
  BY <1>22, EndedEffect DEF RecoverFails, Fault, Recovering, Down, States, CrsTypeOK, Control,
     Pcs, RunInv, Stopped0
<1>23. CASE Elapse
  BY <1>23 DEF Elapse, CrsTypeOK, Control, Pcs, RunInv, Stopped0
<1>24. CASE HealRead
  BY <1>24 DEF HealRead, CrsTypeOK, Control, Pcs, RunInv, Stopped0
<1>25. CASE HealReplace
  BY <1>25 DEF HealReplace, CrsTypeOK, Control, Pcs, RunInv, Stopped0
<1>26. CASE KillService
  BY <1>26 DEF KillService, Stopped0, CrsTypeOK, Control, Pcs, RunInv
<1> QED
  BY <1>1, <1>2, <1>3, <1>4, <1>5, <1>6, <1>7, <1>8, <1>9, <1>10, <1>11, <1>12, <1>13, <1>14,
     <1>15, <1>16, <1>17, <1>18, <1>19, <1>20, <1>21, <1>22, <1>23, <1>24, <1>25, <1>26, CrsNext
     DEF CrsNext, CrsStep, WorkerStep

LEMMA DamageStep == ASSUME CrsTypeOK, RunInv, DamageInv, CrsNext PROVE DamageInv'
<1>1. ASSUME NEW r \in Caller, NEW verb \in Verbs, Look(r, verb) PROVE DamageInv'
  BY <1>1 DEF Look, CrsTypeOK, Control, Histories, RunInv, DamageInv, Stopped0, Taken,
     Snapshotting, Switching, Recovering
<1>2. CASE Decide
  <2>1. CASE Verdict = "start"
    BY <1>2, <2>1, BeginEffect DEF CrsTypeOK, Control, Histories, RunInv, DamageInv, Stopped0,
       Taken, Snapshotting, Switching, Recovering
  <2>2. CASE Verdict # "start"
    BY <1>2, <2>2 DEF Decide, CrsTypeOK, Control, Histories, RunInv, DamageInv, Stopped0, Taken,
       Snapshotting, Switching, Recovering
  <2> QED
    BY <2>1, <2>2
<1>3. CASE Unsaved
  BY <1>3, StartVerdict DEF Unsaved, Fault, CrsTypeOK, Control, Histories, RunInv, DamageInv,
     Stopped0, Taken, Snapshotting, Switching, Recovering
<1>4. CASE TakeRefused
  BY <1>4, EndedEffect DEF TakeRefused, States, CrsTypeOK, Control, Histories, RunInv,
     DamageInv, Stopped0, Taken, Snapshotting, Switching, Recovering
<1>5. CASE Take
  BY <1>5 DEF Take, MayChange, CrsTypeOK, Control, Histories, RunInv, DamageInv, Stopped0,
     Taken, Snapshotting, Switching, Recovering
<1>6. CASE DropSnapshot
  BY <1>6 DEF DropSnapshot, GoOn, CrsTypeOK, Control, Histories, RunInv, DamageInv, Stopped0,
     Taken, Snapshotting, Switching, Recovering
<1>7. CASE CopySnapshot
  BY <1>7 DEF CopySnapshot, GoOn, CrsTypeOK, Control, Histories, RunInv, DamageInv, Stopped0,
     Taken, Snapshotting, Switching, Recovering
<1>8. CASE StoreText
  BY <1>8 DEF StoreText, GoOn, CrsTypeOK, Control, Histories, RunInv, DamageInv, Stopped0,
     Taken, Snapshotting, Switching, Recovering
<1>9. CASE SnapshotFails
  BY <1>9, EndedEffect DEF SnapshotFails, Fault, Snapshotting, States, CrsTypeOK, Control,
     Histories, RunInv, DamageInv, Stopped0, Taken, Switching, Recovering
<1>10. CASE ChangePolicy
  BY <1>10 DEF ChangePolicy, GoOn, Enabling, CrsTypeOK, Control, Histories, RunInv, DamageInv,
     Stopped0, Taken, Snapshotting, Switching, Recovering
<1>11. CASE ChangeList
  BY <1>11 DEF ChangeList, GoOn, Enabling, CrsTypeOK, Control, Histories, RunInv, DamageInv,
     Stopped0, Taken, Snapshotting, Switching, Recovering
<1>12. CASE TestConf
  BY <1>12 DEF TestConf, GoOn, Enabling, CrsTypeOK, Control, Histories, RunInv, DamageInv,
     Stopped0, Taken, Snapshotting, Switching, Recovering
<1>13. CASE RestartCrowd
  <2>1. CASE Enabling
    <3>1. GoOn("same") /\ Started /\ UNCHANGED <<conf, bouncer, snap, disk, hist>> /\ ctl.pc =
       "restart"
      BY <1>13, <2>1 DEF RestartCrowd
    <3> QED
      BY <3>1, <2>1 DEF GoOn, Started, Enabling, CrsTypeOK, Control, Histories, RunInv,
         DamageInv, Stopped0, Taken, Snapshotting, Switching, Recovering
  <2>2. CASE ~Enabling
    <3>1. Ended("idle") /\ Started /\ UNCHANGED <<conf, bouncer, snap, hist>> /\ ctl.pc =
       "restart"
      BY <1>13, <2>2 DEF RestartCrowd
    <3> QED
      BY <3>1, <2>2, EndedEffect DEF Started, Enabling, States, CrsTypeOK, Control, Histories,
         RunInv, DamageInv, Stopped0, Taken, Snapshotting, Switching, Recovering
  <2> QED
    BY <2>1, <2>2
<1>14. CASE CheckSame
  BY <1>14 DEF CheckSame, GoOn, CrsTypeOK, Control, Histories, RunInv, DamageInv, Stopped0,
     Taken, Snapshotting, Switching, Recovering
<1>15. CASE WriteMark
  BY <1>15 DEF WriteMark, Written, CrsTypeOK, Control, Histories, RunInv, DamageInv, Stopped0,
     Taken, Snapshotting, Switching, Recovering
<1>16. CASE VerifyMark
  <2>1. CASE ~IsStill(Changed)
    <3>1. GoOn("clear") /\ UNCHANGED <<conf, crowd, bouncer, snap, disk, hist>> /\ ctl.pc =
       "verify"
      BY <1>16, <2>1 DEF VerifyMark
    <3> QED
      BY <3>1, <2>1 DEF GoOn, Enabling, CrsTypeOK, Control, Histories, RunInv, DamageInv,
         Stopped0, Taken, Snapshotting, Switching, Recovering
  <2>2. CASE IsStill(Changed) /\ Enabling
    <3>1. Ended("enabled") /\ UNCHANGED <<conf, crowd, bouncer, snap, hist>> /\ ctl.pc =
       "verify"
      BY <1>16, <2>2 DEF VerifyMark
    <3> QED
      BY <3>1, <2>2, EndedEffect DEF Enabling, States, CrsTypeOK, Control, Histories, RunInv,
         DamageInv, Stopped0, Taken, Snapshotting, Switching, Recovering
  <2>3. CASE IsStill(Changed) /\ ~Enabling
    <3>1. GoOn("restart") /\ UNCHANGED <<conf, crowd, bouncer, snap, disk, hist>> /\ ctl.pc =
       "verify"
      BY <1>16, <2>3 DEF VerifyMark
    <3> QED
      BY <3>1, <2>3 DEF GoOn, Enabling, CrsTypeOK, Control, Histories, RunInv, DamageInv,
         Stopped0, Taken, Snapshotting, Switching, Recovering
  <2> QED
    BY <2>1, <2>2, <2>3
<1>17. CASE SwitchFails
  BY <1>17 DEF SwitchFails, Fault, Written, Switching, Down, CrsTypeOK, Control, Histories,
     RunInv, DamageInv, Stopped0, Taken, Snapshotting, Recovering
<1>18. CASE ClearConf
  BY <1>18 DEF ClearConf, GoOn, CrsTypeOK, Control, Histories, RunInv, DamageInv, Stopped0,
     Taken, Snapshotting, Switching, Recovering
<1>19. CASE PutBack
  BY <1>19 DEF PutBack, GoOn, CrsTypeOK, Control, Histories, RunInv, DamageInv, Stopped0, Taken,
     Snapshotting, Switching, Recovering
<1>20. CASE Unmark
  BY <1>20 DEF Unmark, GoOn, CrsTypeOK, Control, Histories, RunInv, DamageInv, Stopped0, Taken,
     Snapshotting, Switching, Recovering
<1>21. CASE Revive
  <2>1. CASE conf.rest
    <3>1. Ended("failed") /\ Started /\ UNCHANGED <<conf, bouncer, snap>> /\ ctl.pc = "revive"
       /\ hist' = [hist EXCEPT !.damaged = @ \/ ~conf.rest]
      BY <1>21, <2>1 DEF Revive
    <3> QED
      BY <3>1, <2>1, EndedEffect DEF Started, States, CrsTypeOK, Control, Histories, RunInv,
         DamageInv, Stopped0, Taken, Snapshotting, Switching, Recovering
  <2>2. CASE ~conf.rest
    <3>1. Ended("rollback-failed") /\ Started /\ UNCHANGED <<conf, bouncer, snap>> /\ ctl.pc =
       "revive" /\ hist' = [hist EXCEPT !.damaged = @ \/ ~conf.rest]
      BY <1>21, <2>2 DEF Revive
    <3> QED
      BY <3>1, <2>2, EndedEffect DEF Started, States, CrsTypeOK, Control, Histories, RunInv,
         DamageInv, Stopped0, Taken, Snapshotting, Switching, Recovering
  <2> QED
    BY <2>1, <2>2
<1>22. CASE RecoverFails
  BY <1>22, EndedEffect DEF RecoverFails, Fault, Recovering, Down, States, CrsTypeOK, Control,
     Histories, RunInv, DamageInv, Stopped0, Taken, Snapshotting, Switching
<1>23. CASE Elapse
  BY <1>23 DEF Elapse, CrsTypeOK, Control, Histories, RunInv, DamageInv, Stopped0, Taken,
     Snapshotting, Switching, Recovering
<1>24. CASE HealRead
  BY <1>24 DEF HealRead, CrsTypeOK, Control, Histories, RunInv, DamageInv, Stopped0, Taken,
     Snapshotting, Switching, Recovering
<1>25. CASE HealReplace
  BY <1>25 DEF HealReplace, CrsTypeOK, Control, Histories, RunInv, DamageInv, Stopped0, Taken,
     Snapshotting, Switching, Recovering
<1>26. CASE KillService
  BY <1>26 DEF KillService, Stopped0, CrsTypeOK, Control, Histories, RunInv, DamageInv, Taken,
     Snapshotting, Switching, Recovering
<1> QED
  BY <1>1, <1>2, <1>3, <1>4, <1>5, <1>6, <1>7, <1>8, <1>9, <1>10, <1>11, <1>12, <1>13, <1>14,
     <1>15, <1>16, <1>17, <1>18, <1>19, <1>20, <1>21, <1>22, <1>23, <1>24, <1>25, <1>26, CrsNext
     DEF CrsNext, CrsStep, WorkerStep

LEMMA SnapStep == ASSUME CrsTypeOK, RunInv, DamageInv, SnapInv, CrsNext PROVE SnapInv'
<1>1. ASSUME NEW r \in Caller, NEW verb \in Verbs, Look(r, verb) PROVE SnapInv'
  BY <1>1 DEF Look, CrsTypeOK, Control, Histories, Image, RunInv, DamageInv, SnapInv, Stopped0,
     Taken, Snapshotting, Switching, Recovering
<1>2. CASE Decide
  <2>1. CASE Verdict = "start"
    BY <1>2, <2>1, BeginEffect DEF CrsTypeOK, Control, Histories, Image, RunInv, DamageInv,
       SnapInv, Stopped0, Taken, Snapshotting, Switching, Recovering
  <2>2. CASE Verdict # "start"
    BY <1>2, <2>2 DEF Decide, CrsTypeOK, Control, Histories, Image, RunInv, DamageInv, SnapInv,
       Stopped0, Taken, Snapshotting, Switching, Recovering
  <2> QED
    BY <2>1, <2>2
<1>3. CASE Unsaved
  BY <1>3, StartVerdict DEF Unsaved, Fault, CrsTypeOK, Control, Histories, Image, RunInv,
     DamageInv, SnapInv, Stopped0, Taken, Snapshotting, Switching, Recovering
<1>4. CASE TakeRefused
  BY <1>4, EndedEffect DEF TakeRefused, States, CrsTypeOK, Control, Histories, Image, RunInv,
     DamageInv, SnapInv, Stopped0, Taken, Snapshotting, Switching, Recovering
<1>5. CASE Take
  BY <1>5 DEF Take, MayChange, CrsTypeOK, Control, Histories, Image, RunInv, DamageInv, SnapInv,
     Stopped0, Taken, Snapshotting, Switching, Recovering
<1>6. CASE DropSnapshot
  BY <1>6 DEF DropSnapshot, GoOn, CrsTypeOK, Control, Histories, Image, RunInv, DamageInv,
     SnapInv, Stopped0, Taken, Snapshotting, Switching, Recovering
<1>7. CASE CopySnapshot
  BY <1>7 DEF CopySnapshot, GoOn, CrsTypeOK, Control, Histories, Image, RunInv, DamageInv,
     SnapInv, Stopped0, Taken, Snapshotting, Switching, Recovering
<1>8. CASE StoreText
  BY <1>8 DEF StoreText, GoOn, CrsTypeOK, Control, Histories, Image, RunInv, DamageInv, SnapInv,
     Stopped0, Taken, Snapshotting, Switching, Recovering
<1>9. CASE SnapshotFails
  BY <1>9, EndedEffect DEF SnapshotFails, Fault, Snapshotting, States, CrsTypeOK, Control,
     Histories, Image, RunInv, DamageInv, SnapInv, Stopped0, Taken, Switching, Recovering
<1>10. CASE ChangePolicy
  BY <1>10 DEF ChangePolicy, GoOn, Enabling, CrsTypeOK, Control, Histories, Image, RunInv,
     DamageInv, SnapInv, Stopped0, Taken, Snapshotting, Switching, Recovering
<1>11. CASE ChangeList
  BY <1>11 DEF ChangeList, GoOn, Enabling, CrsTypeOK, Control, Histories, Image, RunInv,
     DamageInv, SnapInv, Stopped0, Taken, Snapshotting, Switching, Recovering
<1>12. CASE TestConf
  BY <1>12 DEF TestConf, GoOn, Enabling, CrsTypeOK, Control, Histories, Image, RunInv,
     DamageInv, SnapInv, Stopped0, Taken, Snapshotting, Switching, Recovering
<1>13. CASE RestartCrowd
  <2>1. CASE Enabling
    <3>1. GoOn("same") /\ Started /\ UNCHANGED <<conf, bouncer, snap, disk, hist>> /\ ctl.pc =
       "restart"
      BY <1>13, <2>1 DEF RestartCrowd
    <3> QED
      BY <3>1, <2>1 DEF GoOn, Started, Enabling, CrsTypeOK, Control, Histories, Image, RunInv,
         DamageInv, SnapInv, Stopped0, Taken, Snapshotting, Switching, Recovering
  <2>2. CASE ~Enabling
    <3>1. Ended("idle") /\ Started /\ UNCHANGED <<conf, bouncer, snap, hist>> /\ ctl.pc =
       "restart"
      BY <1>13, <2>2 DEF RestartCrowd
    <3> QED
      BY <3>1, <2>2, EndedEffect DEF Started, Enabling, States, CrsTypeOK, Control, Histories,
         Image, RunInv, DamageInv, SnapInv, Stopped0, Taken, Snapshotting, Switching, Recovering
  <2> QED
    BY <2>1, <2>2
<1>14. CASE CheckSame
  BY <1>14 DEF CheckSame, GoOn, CrsTypeOK, Control, Histories, Image, RunInv, DamageInv,
     SnapInv, Stopped0, Taken, Snapshotting, Switching, Recovering
<1>15. CASE WriteMark
  BY <1>15 DEF WriteMark, Written, CrsTypeOK, Control, Histories, Image, RunInv, DamageInv,
     SnapInv, Stopped0, Taken, Snapshotting, Switching, Recovering
<1>16. CASE VerifyMark
  <2>1. CASE ~IsStill(Changed)
    <3>1. GoOn("clear") /\ UNCHANGED <<conf, crowd, bouncer, snap, disk, hist>> /\ ctl.pc =
       "verify"
      BY <1>16, <2>1 DEF VerifyMark
    <3> QED
      BY <3>1, <2>1 DEF GoOn, Enabling, CrsTypeOK, Control, Histories, Image, RunInv, DamageInv,
         SnapInv, Stopped0, Taken, Snapshotting, Switching, Recovering
  <2>2. CASE IsStill(Changed) /\ Enabling
    <3>1. Ended("enabled") /\ UNCHANGED <<conf, crowd, bouncer, snap, hist>> /\ ctl.pc =
       "verify"
      BY <1>16, <2>2 DEF VerifyMark
    <3> QED
      BY <3>1, <2>2, EndedEffect DEF Enabling, States, CrsTypeOK, Control, Histories, Image,
         RunInv, DamageInv, SnapInv, Stopped0, Taken, Snapshotting, Switching, Recovering
  <2>3. CASE IsStill(Changed) /\ ~Enabling
    <3>1. GoOn("restart") /\ UNCHANGED <<conf, crowd, bouncer, snap, disk, hist>> /\ ctl.pc =
       "verify"
      BY <1>16, <2>3 DEF VerifyMark
    <3> QED
      BY <3>1, <2>3 DEF GoOn, Enabling, CrsTypeOK, Control, Histories, Image, RunInv, DamageInv,
         SnapInv, Stopped0, Taken, Snapshotting, Switching, Recovering
  <2> QED
    BY <2>1, <2>2, <2>3
<1>17. CASE SwitchFails
  BY <1>17 DEF SwitchFails, Fault, Written, Switching, Down, CrsTypeOK, Control, Histories,
     Image, RunInv, DamageInv, SnapInv, Stopped0, Taken, Snapshotting, Recovering
<1>18. CASE ClearConf
  BY <1>18 DEF ClearConf, GoOn, CrsTypeOK, Control, Histories, Image, RunInv, DamageInv,
     SnapInv, Stopped0, Taken, Snapshotting, Switching, Recovering
<1>19. CASE PutBack
  BY <1>19 DEF PutBack, GoOn, CrsTypeOK, Control, Histories, Image, RunInv, DamageInv, SnapInv,
     Stopped0, Taken, Snapshotting, Switching, Recovering
<1>20. CASE Unmark
  BY <1>20 DEF Unmark, GoOn, CrsTypeOK, Control, Histories, Image, RunInv, DamageInv, SnapInv,
     Stopped0, Taken, Snapshotting, Switching, Recovering
<1>21. CASE Revive
  <2>1. CASE conf.rest
    <3>1. Ended("failed") /\ Started /\ UNCHANGED <<conf, bouncer, snap>> /\ ctl.pc = "revive"
       /\ hist' = [hist EXCEPT !.damaged = @ \/ ~conf.rest]
      BY <1>21, <2>1 DEF Revive
    <3> QED
      BY <3>1, <2>1, EndedEffect DEF Started, States, CrsTypeOK, Control, Histories, Image,
         RunInv, DamageInv, SnapInv, Stopped0, Taken, Snapshotting, Switching, Recovering
  <2>2. CASE ~conf.rest
    <3>1. Ended("rollback-failed") /\ Started /\ UNCHANGED <<conf, bouncer, snap>> /\ ctl.pc =
       "revive" /\ hist' = [hist EXCEPT !.damaged = @ \/ ~conf.rest]
      BY <1>21, <2>2 DEF Revive
    <3> QED
      BY <3>1, <2>2, EndedEffect DEF Started, States, CrsTypeOK, Control, Histories, Image,
         RunInv, DamageInv, SnapInv, Stopped0, Taken, Snapshotting, Switching, Recovering
  <2> QED
    BY <2>1, <2>2
<1>22. CASE RecoverFails
  BY <1>22, EndedEffect DEF RecoverFails, Fault, Recovering, Down, States, CrsTypeOK, Control,
     Histories, Image, RunInv, DamageInv, SnapInv, Stopped0, Taken, Snapshotting, Switching
<1>23. CASE Elapse
  BY <1>23 DEF Elapse, CrsTypeOK, Control, Histories, Image, RunInv, DamageInv, SnapInv,
     Stopped0, Taken, Snapshotting, Switching, Recovering
<1>24. CASE HealRead
  BY <1>24 DEF HealRead, CrsTypeOK, Control, Histories, Image, RunInv, DamageInv, SnapInv,
     Stopped0, Taken, Snapshotting, Switching, Recovering
<1>25. CASE HealReplace
  BY <1>25 DEF HealReplace, CrsTypeOK, Control, Histories, Image, RunInv, DamageInv, SnapInv,
     Stopped0, Taken, Snapshotting, Switching, Recovering
<1>26. CASE KillService
  BY <1>26 DEF KillService, Stopped0, CrsTypeOK, Control, Histories, Image, RunInv, DamageInv,
     SnapInv, Taken, Snapshotting, Switching, Recovering
<1> QED
  BY <1>1, <1>2, <1>3, <1>4, <1>5, <1>6, <1>7, <1>8, <1>9, <1>10, <1>11, <1>12, <1>13, <1>14,
     <1>15, <1>16, <1>17, <1>18, <1>19, <1>20, <1>21, <1>22, <1>23, <1>24, <1>25, <1>26, CrsNext
     DEF CrsNext, CrsStep, WorkerStep

LEMMA RestStep == ASSUME CrsTypeOK, CrsInv, CrsNext PROVE RestInv'
<1>1. ASSUME NEW r \in Caller, NEW verb \in Verbs, Look(r, verb) PROVE RestInv'
  BY <1>1 DEF Look, CrsTypeOK, Control, Histories, Image, Text, Conf, CrsInv, RunInv, RestInv,
     Clean, Same, Mode, Stopped0, Taken, Snapshotting, Switching, Recovering
<1>2. CASE Decide
  <2>1. CASE Verdict = "start"
    BY <1>2, <2>1, BeginEffect DEF CrsTypeOK, Control, Histories, Image, Text, Conf, CrsInv,
       RunInv, RestInv, Clean, Same, Mode, Stopped0, Taken, Snapshotting, Switching, Recovering
  <2>2. CASE Verdict # "start"
    BY <1>2, <2>2 DEF Decide, CrsTypeOK, Control, Histories, Image, Text, Conf, CrsInv, RunInv,
       RestInv, Clean, Same, Mode, Stopped0, Taken, Snapshotting, Switching, Recovering
  <2> QED
    BY <2>1, <2>2
<1>3. CASE Unsaved
  BY <1>3, StartVerdict DEF Unsaved, Fault, CrsTypeOK, Control, Histories, Image, Text, Conf,
     CrsInv, RunInv, RestInv, Clean, Same, Mode, Stopped0, Taken, Snapshotting, Switching,
     Recovering
<1>4. CASE TakeRefused
  BY <1>4, EndedEffect DEF TakeRefused, States, CrsTypeOK, Control, Histories, Image, Text,
     Conf, CrsInv, RunInv, RestInv, Clean, Same, Mode, Stopped0, Taken, Snapshotting, Switching,
     Recovering
<1>5. CASE Take
  BY <1>5 DEF Take, MayChange, CrsTypeOK, Control, Histories, Image, Text, Conf, CrsInv, RunInv,
     RestInv, Clean, Same, Mode, Stopped0, Taken, Snapshotting, Switching, Recovering
<1>6. CASE DropSnapshot
  BY <1>6 DEF DropSnapshot, GoOn, CrsTypeOK, Control, Histories, Image, Text, Conf, CrsInv,
     RunInv, RestInv, Clean, Same, Mode, Stopped0, Taken, Snapshotting, Switching, Recovering
<1>7. CASE CopySnapshot
  BY <1>7 DEF CopySnapshot, GoOn, CrsTypeOK, Control, Histories, Image, Text, Conf, CrsInv,
     RunInv, RestInv, Clean, Same, Mode, Stopped0, Taken, Snapshotting, Switching, Recovering
<1>8. CASE StoreText
  BY <1>8 DEF StoreText, GoOn, CrsTypeOK, Control, Histories, Image, Text, Conf, CrsInv, RunInv,
     RestInv, Clean, Same, Mode, Stopped0, Taken, Snapshotting, Switching, Recovering
<1>9. CASE SnapshotFails
  BY <1>9, EndedEffect DEF SnapshotFails, Fault, Snapshotting, States, CrsTypeOK, Control,
     Histories, Image, Text, Conf, CrsInv, RunInv, RestInv, Clean, Same, Mode, Stopped0, Taken,
     Switching, Recovering
<1>10. CASE ChangePolicy
  BY <1>10 DEF ChangePolicy, GoOn, Enabling, CrsTypeOK, Control, Histories, Image, Text, Conf,
     CrsInv, RunInv, RestInv, Clean, Same, Mode, Stopped0, Taken, Snapshotting, Switching,
     Recovering
<1>11. CASE ChangeList
  BY <1>11 DEF ChangeList, GoOn, Enabling, CrsTypeOK, Control, Histories, Image, Text, Conf,
     CrsInv, RunInv, RestInv, Clean, Same, Mode, Stopped0, Taken, Snapshotting, Switching,
     Recovering
<1>12. CASE TestConf
  BY <1>12 DEF TestConf, GoOn, Enabling, CrsTypeOK, Control, Histories, Image, Text, Conf,
     CrsInv, RunInv, RestInv, Clean, Same, Mode, Stopped0, Taken, Snapshotting, Switching,
     Recovering
<1>13. CASE RestartCrowd
  <2>1. CASE Enabling
    BY <1>13, <2>1 DEF RestartCrowd, GoOn, RestInv, Switching, CrsTypeOK, Control
  <2>2. CASE ~Enabling
    <3>1. Ended("idle") /\ Started /\ UNCHANGED <<conf, bouncer, snap, hist>> /\ ctl.pc = "restart"
      BY <1>13, <2>2 DEF RestartCrowd
    <3>2. ctl'.state = "idle" /\ disk'.state \in {"running", "idle"}
      BY <3>1, EndedEffect DEF CrsInv, RunInv, States
    <3>3. ASSUME Clean PROVE conf = Mode(FALSE) /\ bouncer.text.marked = FALSE
      <4>1. Enabling = FALSE
        BY <2>2 DEF Enabling
      <4>2. conf = Mode(Enabling)
        BY <3>1, <3>3 DEF CrsInv, ChangeInv, Taken, Switching
      <4>3. ~bouncer.text.marked
        BY <2>2, <3>1, <3>3 DEF CrsInv, MarkInv, Taken, Switching
      <4>4. bouncer.text.marked \in BOOLEAN
        BY DEF CrsTypeOK, Text
      <4> QED
        BY <4>1, <4>2, <4>3, <4>4
    <3>4. Clean' => Same'
      BY <3>1, <3>3, ModeIsWhole DEF Clean, Same, Started
    <3> QED
      BY <3>2, <3>4 DEF RestInv
  <2> QED
    BY <2>1, <2>2
<1>14. CASE CheckSame
  BY <1>14 DEF CheckSame, GoOn, CrsTypeOK, Control, Histories, Image, Text, Conf, CrsInv,
     RunInv, RestInv, Clean, Same, Mode, Stopped0, Taken, Snapshotting, Switching, Recovering
<1>15. CASE WriteMark
  BY <1>15 DEF WriteMark, Written, CrsTypeOK, Control, Histories, Image, Text, Conf, CrsInv,
     RunInv, RestInv, Clean, Same, Mode, Stopped0, Taken, Snapshotting, Switching, Recovering
<1>16. CASE VerifyMark
  <2>1. CASE ~IsStill(Changed)
    <3>1. GoOn("clear") /\ UNCHANGED <<conf, crowd, bouncer, snap, disk, hist>> /\ ctl.pc =
       "verify"
      BY <1>16, <2>1 DEF VerifyMark
    <3> QED
      BY <3>1, <2>1 DEF GoOn, Enabling, CrsTypeOK, Control, Histories, Image, Text, Conf,
         CrsInv, RunInv, RestInv, Clean, Same, Mode, Stopped0, Taken, Snapshotting, Switching,
         Recovering, ChangeInv, MarkInv, IsStill, Changed
  <2>2. CASE IsStill(Changed) /\ Enabling
    <3>1. Ended("enabled") /\ UNCHANGED <<conf, crowd, bouncer, snap, hist>> /\ ctl.pc =
       "verify"
      BY <1>16, <2>2 DEF VerifyMark
    <3> QED
      BY <3>1, <2>2, EndedEffect DEF Enabling, States, CrsTypeOK, Control, Histories, Image,
         Text, Conf, CrsInv, RunInv, RestInv, Clean, Same, Mode, Stopped0, Taken, Snapshotting,
         Switching, Recovering, ChangeInv, MarkInv, IsStill, Changed
  <2>3. CASE IsStill(Changed) /\ ~Enabling
    <3>1. GoOn("restart") /\ UNCHANGED <<conf, crowd, bouncer, snap, disk, hist>> /\ ctl.pc =
       "verify"
      BY <1>16, <2>3 DEF VerifyMark
    <3> QED
      BY <3>1, <2>3 DEF GoOn, Enabling, CrsTypeOK, Control, Histories, Image, Text, Conf,
         CrsInv, RunInv, RestInv, Clean, Same, Mode, Stopped0, Taken, Snapshotting, Switching,
         Recovering, ChangeInv, MarkInv, IsStill, Changed
  <2> QED
    BY <2>1, <2>2, <2>3
<1>17. CASE SwitchFails
  BY <1>17 DEF SwitchFails, Fault, Written, Switching, Down, CrsTypeOK, Control, Histories,
     Image, Text, Conf, CrsInv, RunInv, RestInv, Clean, Same, Mode, Stopped0, Taken,
     Snapshotting, Recovering
<1>18. CASE ClearConf
  BY <1>18 DEF ClearConf, GoOn, CrsTypeOK, Control, Histories, Image, Text, Conf, CrsInv,
     RunInv, RestInv, Clean, Same, Mode, Stopped0, Taken, Snapshotting, Switching, Recovering
<1>19. CASE PutBack
  BY <1>19 DEF PutBack, GoOn, CrsTypeOK, Control, Histories, Image, Text, Conf, CrsInv, RunInv,
     RestInv, Clean, Same, Mode, Stopped0, Taken, Snapshotting, Switching, Recovering
<1>20. CASE Unmark
  BY <1>20 DEF Unmark, GoOn, CrsTypeOK, Control, Histories, Image, Text, Conf, CrsInv, RunInv,
     RestInv, Clean, Same, Mode, Stopped0, Taken, Snapshotting, Switching, Recovering
<1>21. CASE Revive
  <2>1. CASE conf.rest
    <3>1. Ended("failed") /\ Started /\ UNCHANGED <<conf, bouncer, snap>> /\ ctl.pc = "revive"
       /\ hist' = [hist EXCEPT !.damaged = @ \/ ~conf.rest]
      BY <1>21, <2>1 DEF Revive
    <3> QED
      BY <3>1, <2>1, EndedEffect DEF Started, States, CrsTypeOK, Control, Histories, Image,
         Text, Conf, CrsInv, RunInv, RestInv, Clean, Same, Mode, Stopped0, Taken, Snapshotting,
         Switching, Recovering, SnapInv, ChangeInv, MarkInv
  <2>2. CASE ~conf.rest
    <3>1. Ended("rollback-failed") /\ Started /\ UNCHANGED <<conf, bouncer, snap>> /\ ctl.pc =
       "revive" /\ hist' = [hist EXCEPT !.damaged = @ \/ ~conf.rest]
      BY <1>21, <2>2 DEF Revive
    <3> QED
      BY <3>1, <2>2, EndedEffect DEF Started, States, CrsTypeOK, Control, Histories, Image,
         Text, Conf, CrsInv, RunInv, RestInv, Clean, Same, Mode, Stopped0, Taken, Snapshotting,
         Switching, Recovering, SnapInv, ChangeInv, MarkInv
  <2> QED
    BY <2>1, <2>2
<1>22. CASE RecoverFails
  BY <1>22, EndedEffect DEF RecoverFails, Fault, Recovering, Down, States, CrsTypeOK, Control,
     Histories, Image, Text, Conf, CrsInv, RunInv, RestInv, Clean, Same, Mode, Stopped0, Taken,
     Snapshotting, Switching
<1>23. CASE Elapse
  BY <1>23 DEF Elapse, CrsTypeOK, Control, Histories, Image, Text, Conf, CrsInv, RunInv,
     RestInv, Clean, Same, Mode, Stopped0, Taken, Snapshotting, Switching, Recovering
<1>24. CASE HealRead
  BY <1>24 DEF HealRead, CrsTypeOK, Control, Histories, Image, Text, Conf, CrsInv, RunInv,
     RestInv, Clean, Same, Mode, Stopped0, Taken, Snapshotting, Switching, Recovering
<1>25. CASE HealReplace
  BY <1>25 DEF HealReplace, CrsTypeOK, Control, Histories, Image, Text, Conf, CrsInv, RunInv,
     RestInv, Clean, Same, Mode, Stopped0, Taken, Snapshotting, Switching, Recovering, MarkInv
<1>26. CASE KillService
  <2>1. CASE ctl.pc # "none"
    BY <1>26, <2>1 DEF KillService, RestInv, Clean, CrsTypeOK, Histories
  <2>2. CASE ctl.pc = "none"
    <3>1. ctl'.state \in {disk.state, "failed"} /\ disk' = disk
      BY <1>26 DEF KillService, Stopped0
    <3>2. ASSUME Same PROVE Same'
      BY <1>26, <3>2, ModeIsWhole DEF KillService, Same, CrsTypeOK, Text
    <3>3. Clean' => Clean
      BY <1>26, <2>2 DEF KillService, Clean, CrsTypeOK, Histories
    <3> QED
      BY <1>26, <2>2, <3>1, <3>2, <3>3 DEF KillService, CrsInv, RestInv, Snapshotting, Switching, Recovering
  <2> QED
    BY <2>1, <2>2
<1> QED
  BY <1>1, <1>2, <1>3, <1>4, <1>5, <1>6, <1>7, <1>8, <1>9, <1>10, <1>11, <1>12, <1>13, <1>14,
     <1>15, <1>16, <1>17, <1>18, <1>19, <1>20, <1>21, <1>22, <1>23, <1>24, <1>25, <1>26, CrsNext
     DEF CrsNext, CrsStep, WorkerStep

LEMMA ChangeStep == ASSUME CrsTypeOK, CrsInv, CrsNext PROVE ChangeInv'
<1>1. ASSUME NEW r \in Caller, NEW verb \in Verbs, Look(r, verb) PROVE ChangeInv'
  BY <1>1 DEF Look, CrsTypeOK, Control, Histories, Image, Text, Conf, CrsInv, ChangeInv, Clean,
     Mode, Enabling, Stopped0, Taken, Snapshotting, Switching, Recovering
<1>2. CASE Decide
  <2>1. CASE Verdict = "start"
    BY <1>2, <2>1, BeginEffect DEF CrsTypeOK, Control, Histories, Image, Text, Conf, CrsInv,
       ChangeInv, Clean, Mode, Enabling, Stopped0, Taken, Snapshotting, Switching, Recovering
  <2>2. CASE Verdict # "start"
    BY <1>2, <2>2 DEF Decide, CrsTypeOK, Control, Histories, Image, Text, Conf, CrsInv,
       ChangeInv, Clean, Mode, Enabling, Stopped0, Taken, Snapshotting, Switching, Recovering
  <2> QED
    BY <2>1, <2>2
<1>3. CASE Unsaved
  BY <1>3, StartVerdict DEF Unsaved, Fault, CrsTypeOK, Control, Histories, Image, Text, Conf,
     CrsInv, ChangeInv, Clean, Mode, Enabling, Stopped0, Taken, Snapshotting, Switching,
     Recovering
<1>4. CASE TakeRefused
  BY <1>4, EndedEffect DEF TakeRefused, States, CrsTypeOK, Control, Histories, Image, Text,
     Conf, CrsInv, ChangeInv, Clean, Mode, Enabling, Stopped0, Taken, Snapshotting, Switching,
     Recovering
<1>5. CASE Take
  BY <1>5 DEF Take, MayChange, CrsTypeOK, Control, Histories, Image, Text, Conf, CrsInv,
     ChangeInv, Clean, Mode, Enabling, Stopped0, Taken, Snapshotting, Switching, Recovering,
     RestInv, Same
<1>6. CASE DropSnapshot
  BY <1>6 DEF DropSnapshot, GoOn, CrsTypeOK, Control, Histories, Image, Text, Conf, CrsInv,
     ChangeInv, Clean, Mode, Enabling, Stopped0, Taken, Snapshotting, Switching, Recovering
<1>7. CASE CopySnapshot
  BY <1>7 DEF CopySnapshot, GoOn, CrsTypeOK, Control, Histories, Image, Text, Conf, CrsInv,
     ChangeInv, Clean, Mode, Enabling, Stopped0, Taken, Snapshotting, Switching, Recovering
<1>8. CASE StoreText
  BY <1>8 DEF StoreText, GoOn, CrsTypeOK, Control, Histories, Image, Text, Conf, CrsInv,
     ChangeInv, Clean, Mode, Enabling, Stopped0, Taken, Snapshotting, Switching, Recovering,
     SnapInv
<1>9. CASE SnapshotFails
  BY <1>9, EndedEffect DEF SnapshotFails, Fault, Snapshotting, States, CrsTypeOK, Control,
     Histories, Image, Text, Conf, CrsInv, ChangeInv, Clean, Mode, Enabling, Stopped0, Taken,
     Switching, Recovering
<1>10. CASE ChangePolicy
  BY <1>10 DEF ChangePolicy, GoOn, Enabling, CrsTypeOK, Control, Histories, Image, Text, Conf,
     CrsInv, ChangeInv, Clean, Mode, Stopped0, Taken, Snapshotting, Switching, Recovering
<1>11. CASE ChangeList
  <2>1. ASSUME Clean
        PROVE  hist.good.conf = Mode(ctl.text.marked)
               /\ conf = [hist.good.conf EXCEPT !.policy = Enabling]
    BY <1>11, <2>1 DEF ChangeList, CrsInv, ChangeInv, Taken, Switching
  <2>2. ASSUME Clean PROVE conf' = Mode(Enabling)
    <3>1. conf = [Mode(ctl.text.marked) EXCEPT !.policy = Enabling]
      BY <2>1, <2>2
    <3>2. conf' = [conf EXCEPT !.list = IF Enabling THEN "observe" ELSE "plain"]
      BY <1>11 DEF ChangeList
    <3> QED
      BY <3>1, <3>2 DEF Mode
  <2>3. ctl'.pc = "test" /\ ctl'.verb = ctl.verb /\ ctl'.text = ctl.text /\ UNCHANGED hist
    BY <1>11 DEF ChangeList, GoOn, CrsTypeOK, Control
  <2> QED
    BY <2>1, <2>2, <2>3 DEF ChangeInv, Clean, Enabling
<1>12. CASE TestConf
  BY <1>12 DEF TestConf, GoOn, Enabling, CrsTypeOK, Control, Histories, Image, Text, Conf,
     CrsInv, ChangeInv, Clean, Mode, Stopped0, Taken, Snapshotting, Switching, Recovering
<1>13. CASE RestartCrowd
  <2>1. CASE Enabling
    <3>1. GoOn("same") /\ Started /\ UNCHANGED <<conf, hist>> /\ ctl.pc = "restart"
      BY <1>13, <2>1 DEF RestartCrowd
    <3>2. ctl'.pc = "same" /\ ctl'.verb = ctl.verb /\ ctl'.text = ctl.text
      BY <3>1 DEF GoOn, CrsTypeOK, Control
    <3>3. ASSUME Clean PROVE conf = Mode(TRUE) /\ hist.good.conf = Mode(ctl.text.marked)
      BY <2>1, <3>1, <3>3 DEF CrsInv, ChangeInv, Taken, Switching
    <3>4. Clean' => crowd' = [up |-> TRUE, conf |-> conf']
      BY <3>1, <3>3, ModeIsWhole DEF Started, Clean
    <3> QED
      BY <2>1, <3>1, <3>2, <3>3, <3>4 DEF ChangeInv, Clean, Enabling
  <2>2. CASE ~Enabling
    <3>1. Ended("idle")
      BY <1>13, <2>2 DEF RestartCrowd
    <3> QED
      BY <3>1, EndedEffect DEF ChangeInv, Taken, Snapshotting, Switching, Recovering, States
  <2> QED
    BY <2>1, <2>2
<1>14. CASE CheckSame
  BY <1>14 DEF CheckSame, GoOn, CrsTypeOK, Control, Histories, Image, Text, Conf, CrsInv,
     ChangeInv, Clean, Mode, Enabling, Stopped0, Taken, Snapshotting, Switching, Recovering
<1>15. CASE WriteMark
  BY <1>15 DEF WriteMark, Written, CrsTypeOK, Control, Histories, Image, Text, Conf, CrsInv,
     ChangeInv, Clean, Mode, Enabling, Stopped0, Taken, Snapshotting, Switching, Recovering
<1>16. CASE VerifyMark
  <2>1. CASE ~IsStill(Changed)
    <3>1. GoOn("clear") /\ UNCHANGED <<conf, crowd, bouncer, snap, disk, hist>> /\ ctl.pc =
       "verify"
      BY <1>16, <2>1 DEF VerifyMark
    <3> QED
      BY <3>1, <2>1 DEF GoOn, Enabling, CrsTypeOK, Control, Histories, Image, Text, Conf,
         CrsInv, ChangeInv, Clean, Mode, Stopped0, Taken, Snapshotting, Switching, Recovering
  <2>2. CASE IsStill(Changed) /\ Enabling
    <3>1. Ended("enabled") /\ UNCHANGED <<conf, crowd, bouncer, snap, hist>> /\ ctl.pc =
       "verify"
      BY <1>16, <2>2 DEF VerifyMark
    <3> QED
      BY <3>1, <2>2, EndedEffect DEF Enabling, States, CrsTypeOK, Control, Histories, Image,
         Text, Conf, CrsInv, ChangeInv, Clean, Mode, Stopped0, Taken, Snapshotting, Switching,
         Recovering
  <2>3. CASE IsStill(Changed) /\ ~Enabling
    <3>1. GoOn("restart") /\ UNCHANGED <<conf, crowd, bouncer, snap, disk, hist>> /\ ctl.pc =
       "verify"
      BY <1>16, <2>3 DEF VerifyMark
    <3> QED
      BY <3>1, <2>3 DEF GoOn, Enabling, CrsTypeOK, Control, Histories, Image, Text, Conf,
         CrsInv, ChangeInv, Clean, Mode, Stopped0, Taken, Snapshotting, Switching, Recovering
  <2> QED
    BY <2>1, <2>2, <2>3
<1>17. CASE SwitchFails
  BY <1>17 DEF SwitchFails, Fault, Written, Switching, Down, CrsTypeOK, Control, Histories,
     Image, Text, Conf, CrsInv, ChangeInv, Clean, Mode, Enabling, Stopped0, Taken, Snapshotting,
     Recovering
<1>18. CASE ClearConf
  BY <1>18 DEF ClearConf, GoOn, CrsTypeOK, Control, Histories, Image, Text, Conf, CrsInv,
     ChangeInv, Clean, Mode, Enabling, Stopped0, Taken, Snapshotting, Switching, Recovering
<1>19. CASE PutBack
  BY <1>19 DEF PutBack, GoOn, CrsTypeOK, Control, Histories, Image, Text, Conf, CrsInv,
     ChangeInv, Clean, Mode, Enabling, Stopped0, Taken, Snapshotting, Switching, Recovering,
     SnapInv
<1>20. CASE Unmark
  BY <1>20 DEF Unmark, GoOn, CrsTypeOK, Control, Histories, Image, Text, Conf, CrsInv,
     ChangeInv, Clean, Mode, Enabling, Stopped0, Taken, Snapshotting, Switching, Recovering
<1>21. CASE Revive
  <2>1. CASE conf.rest
    <3>1. Ended("failed") /\ Started /\ UNCHANGED <<conf, bouncer, snap>> /\ ctl.pc = "revive"
       /\ hist' = [hist EXCEPT !.damaged = @ \/ ~conf.rest]
      BY <1>21, <2>1 DEF Revive
    <3> QED
      BY <3>1, <2>1, EndedEffect DEF Started, States, CrsTypeOK, Control, Histories, Image,
         Text, Conf, CrsInv, ChangeInv, Clean, Mode, Enabling, Stopped0, Taken, Snapshotting,
         Switching, Recovering
  <2>2. CASE ~conf.rest
    <3>1. Ended("rollback-failed") /\ Started /\ UNCHANGED <<conf, bouncer, snap>> /\ ctl.pc =
       "revive" /\ hist' = [hist EXCEPT !.damaged = @ \/ ~conf.rest]
      BY <1>21, <2>2 DEF Revive
    <3> QED
      BY <3>1, <2>2, EndedEffect DEF Started, States, CrsTypeOK, Control, Histories, Image,
         Text, Conf, CrsInv, ChangeInv, Clean, Mode, Enabling, Stopped0, Taken, Snapshotting,
         Switching, Recovering
  <2> QED
    BY <2>1, <2>2
<1>22. CASE RecoverFails
  BY <1>22, EndedEffect DEF RecoverFails, Fault, Recovering, Down, States, CrsTypeOK, Control,
     Histories, Image, Text, Conf, CrsInv, ChangeInv, Clean, Mode, Enabling, Stopped0, Taken,
     Snapshotting, Switching
<1>23. CASE Elapse
  BY <1>23 DEF Elapse, CrsTypeOK, Control, Histories, Image, Text, Conf, CrsInv, ChangeInv,
     Clean, Mode, Enabling, Stopped0, Taken, Snapshotting, Switching, Recovering
<1>24. CASE HealRead
  BY <1>24 DEF HealRead, CrsTypeOK, Control, Histories, Image, Text, Conf, CrsInv, ChangeInv,
     Clean, Mode, Enabling, Stopped0, Taken, Snapshotting, Switching, Recovering
<1>25. CASE HealReplace
  BY <1>25 DEF HealReplace, CrsTypeOK, Control, Histories, Image, Text, Conf, CrsInv, ChangeInv,
     Clean, Mode, Enabling, Stopped0, Taken, Snapshotting, Switching, Recovering
<1>26. CASE KillService
  BY <1>26 DEF KillService, Stopped0, CrsTypeOK, Control, Histories, Image, Text, Conf, CrsInv,
     ChangeInv, Clean, Mode, Enabling, Taken, Snapshotting, Switching, Recovering
<1> QED
  BY <1>1, <1>2, <1>3, <1>4, <1>5, <1>6, <1>7, <1>8, <1>9, <1>10, <1>11, <1>12, <1>13, <1>14,
     <1>15, <1>16, <1>17, <1>18, <1>19, <1>20, <1>21, <1>22, <1>23, <1>24, <1>25, <1>26, CrsNext
     DEF CrsNext, CrsStep, WorkerStep

LEMMA MarkStep == ASSUME CrsTypeOK, CrsInv, CrsNext PROVE MarkInv'
<1>1. ASSUME NEW r \in Caller, NEW verb \in Verbs, Look(r, verb) PROVE MarkInv'
  BY <1>1 DEF Look, CrsTypeOK, Control, Histories, Image, Text, Conf, CrsInv, MarkInv, Clean,
     IsStill, Changed, Enabling, Stopped0, Taken, Snapshotting, Switching, Recovering
<1>2. CASE Decide
  <2>1. CASE Verdict = "start"
    BY <1>2, <2>1, BeginEffect DEF CrsTypeOK, Control, Histories, Image, Text, Conf, CrsInv,
       MarkInv, Clean, IsStill, Changed, Enabling, Stopped0, Taken, Snapshotting, Switching,
       Recovering, RunInv
  <2>2. CASE Verdict # "start"
    BY <1>2, <2>2 DEF Decide, CrsTypeOK, Control, Histories, Image, Text, Conf, CrsInv, MarkInv,
       Clean, IsStill, Changed, Enabling, Stopped0, Taken, Snapshotting, Switching, Recovering,
       RunInv
  <2> QED
    BY <2>1, <2>2
<1>3. CASE Unsaved
  BY <1>3, StartVerdict DEF Unsaved, Fault, CrsTypeOK, Control, Histories, Image, Text, Conf,
     CrsInv, MarkInv, Clean, IsStill, Changed, Enabling, Stopped0, Taken, Snapshotting,
     Switching, Recovering
<1>4. CASE TakeRefused
  BY <1>4, EndedEffect DEF TakeRefused, States, CrsTypeOK, Control, Histories, Image, Text,
     Conf, CrsInv, MarkInv, Clean, IsStill, Changed, Enabling, Stopped0, Taken, Snapshotting,
     Switching, Recovering
<1>5. CASE Take
  BY <1>5 DEF Take, MayChange, CrsTypeOK, Control, Histories, Image, Text, Conf, CrsInv,
     MarkInv, Clean, IsStill, Changed, Enabling, Stopped0, Taken, Snapshotting, Switching,
     Recovering
<1>6. CASE DropSnapshot
  BY <1>6 DEF DropSnapshot, GoOn, CrsTypeOK, Control, Histories, Image, Text, Conf, CrsInv,
     MarkInv, Clean, IsStill, Changed, Enabling, Stopped0, Taken, Snapshotting, Switching,
     Recovering
<1>7. CASE CopySnapshot
  BY <1>7 DEF CopySnapshot, GoOn, CrsTypeOK, Control, Histories, Image, Text, Conf, CrsInv,
     MarkInv, Clean, IsStill, Changed, Enabling, Stopped0, Taken, Snapshotting, Switching,
     Recovering
<1>8. CASE StoreText
  BY <1>8 DEF StoreText, GoOn, CrsTypeOK, Control, Histories, Image, Text, Conf, CrsInv,
     MarkInv, Clean, IsStill, Changed, Enabling, Stopped0, Taken, Snapshotting, Switching,
     Recovering
<1>9. CASE SnapshotFails
  BY <1>9, EndedEffect DEF SnapshotFails, Fault, Snapshotting, States, CrsTypeOK, Control,
     Histories, Image, Text, Conf, CrsInv, MarkInv, Clean, IsStill, Changed, Enabling, Stopped0,
     Taken, Switching, Recovering
<1>10. CASE ChangePolicy
  BY <1>10 DEF ChangePolicy, GoOn, Enabling, CrsTypeOK, Control, Histories, Image, Text, Conf,
     CrsInv, MarkInv, Clean, IsStill, Changed, Stopped0, Taken, Snapshotting, Switching,
     Recovering
<1>11. CASE ChangeList
  BY <1>11 DEF ChangeList, GoOn, Enabling, CrsTypeOK, Control, Histories, Image, Text, Conf,
     CrsInv, MarkInv, Clean, IsStill, Changed, Stopped0, Taken, Snapshotting, Switching,
     Recovering
<1>12. CASE TestConf
  BY <1>12 DEF TestConf, GoOn, Enabling, CrsTypeOK, Control, Histories, Image, Text, Conf,
     CrsInv, MarkInv, Clean, IsStill, Changed, Stopped0, Taken, Snapshotting, Switching,
     Recovering
<1>13. CASE RestartCrowd
  <2>1. CASE Enabling
    <3>1. GoOn("same") /\ Started /\ UNCHANGED <<conf, bouncer, snap, disk, hist>> /\ ctl.pc =
       "restart"
      BY <1>13, <2>1 DEF RestartCrowd
    <3> QED
      BY <3>1, <2>1 DEF GoOn, Started, Enabling, CrsTypeOK, Control, Histories, Image, Text,
         Conf, CrsInv, MarkInv, Clean, IsStill, Changed, Stopped0, Taken, Snapshotting,
         Switching, Recovering
  <2>2. CASE ~Enabling
    <3>1. Ended("idle") /\ Started /\ UNCHANGED <<conf, bouncer, snap, hist>> /\ ctl.pc =
       "restart"
      BY <1>13, <2>2 DEF RestartCrowd
    <3> QED
      BY <3>1, <2>2, EndedEffect DEF Started, Enabling, States, CrsTypeOK, Control, Histories,
         Image, Text, Conf, CrsInv, MarkInv, Clean, IsStill, Changed, Stopped0, Taken,
         Snapshotting, Switching, Recovering
  <2> QED
    BY <2>1, <2>2
<1>14. CASE CheckSame
  BY <1>14 DEF CheckSame, GoOn, CrsTypeOK, Control, Histories, Image, Text, Conf, CrsInv,
     MarkInv, Clean, IsStill, Changed, Enabling, Stopped0, Taken, Snapshotting, Switching,
     Recovering
<1>15. CASE WriteMark
  BY <1>15 DEF WriteMark, Written, CrsTypeOK, Control, Histories, Image, Text, Conf, CrsInv,
     MarkInv, Clean, IsStill, Changed, Enabling, Stopped0, Taken, Snapshotting, Switching,
     Recovering
<1>16. CASE VerifyMark
  <2>1. CASE ~IsStill(Changed)
    <3>1. GoOn("clear") /\ UNCHANGED <<conf, crowd, bouncer, snap, disk, hist>> /\ ctl.pc =
       "verify"
      BY <1>16, <2>1 DEF VerifyMark
    <3> QED
      BY <3>1, <2>1 DEF GoOn, Enabling, CrsTypeOK, Control, Histories, Image, Text, Conf,
         CrsInv, MarkInv, Clean, IsStill, Changed, Stopped0, Taken, Snapshotting, Switching,
         Recovering
  <2>2. CASE IsStill(Changed) /\ Enabling
    <3>1. Ended("enabled") /\ UNCHANGED <<conf, crowd, bouncer, snap, hist>> /\ ctl.pc =
       "verify"
      BY <1>16, <2>2 DEF VerifyMark
    <3> QED
      BY <3>1, <2>2, EndedEffect DEF Enabling, States, CrsTypeOK, Control, Histories, Image,
         Text, Conf, CrsInv, MarkInv, Clean, IsStill, Changed, Stopped0, Taken, Snapshotting,
         Switching, Recovering
  <2>3. CASE IsStill(Changed) /\ ~Enabling
    <3>1. GoOn("restart") /\ UNCHANGED <<conf, crowd, bouncer, snap, disk, hist>> /\ ctl.pc =
       "verify"
      BY <1>16, <2>3 DEF VerifyMark
    <3> QED
      BY <3>1, <2>3 DEF GoOn, Enabling, CrsTypeOK, Control, Histories, Image, Text, Conf,
         CrsInv, MarkInv, Clean, IsStill, Changed, Stopped0, Taken, Snapshotting, Switching,
         Recovering
  <2> QED
    BY <2>1, <2>2, <2>3
<1>17. CASE SwitchFails
  <2>1. ctl'.pc = "clear" /\ ctl'.written = (ctl.written \/ ctl.pc = "write")
        /\ ctl'.text = ctl.text /\ ctl'.verb = ctl.verb /\ ctl'.ino = ctl.ino /\ UNCHANGED hist
    BY <1>17 DEF SwitchFails, CrsTypeOK, Control
  <2>2. ASSUME Clean, ~ctl'.written PROVE bouncer'.text.marked = ctl'.text.marked
    BY <1>17, <2>1, <2>2 DEF SwitchFails, CrsInv, MarkInv, Taken
  <2>3. ASSUME Clean, ctl'.written
        PROVE  (IsStill(Changed))' \/ bouncer'.text.marked = ctl'.text.marked
    <3>1. CASE UNCHANGED bouncer
      BY <1>17, <2>1, <2>3, <3>1 DEF SwitchFails, CrsInv, MarkInv, Taken, IsStill, Changed, Enabling, Switching, Recovering
    <3>2. CASE ctl.pc = "write" /\ bouncer' = Written
      BY <2>1, <2>3, <3>2 DEF CrsInv, MarkInv, Taken, Switching, Recovering, Written, IsStill, Changed, Enabling, CrsTypeOK
    <3> QED
      BY <1>17, <3>1, <3>2 DEF SwitchFails
  <2> QED
    BY <2>1, <2>2, <2>3 DEF MarkInv, Clean, Recovering
<1>18. CASE ClearConf
  BY <1>18 DEF ClearConf, GoOn, CrsTypeOK, Control, Histories, Image, Text, Conf, CrsInv,
     MarkInv, Clean, IsStill, Changed, Enabling, Stopped0, Taken, Snapshotting, Switching,
     Recovering
<1>19. CASE PutBack
  BY <1>19 DEF PutBack, GoOn, CrsTypeOK, Control, Histories, Image, Text, Conf, CrsInv, MarkInv,
     Clean, IsStill, Changed, Enabling, Stopped0, Taken, Snapshotting, Switching, Recovering
<1>20. CASE Unmark
  BY <1>20 DEF Unmark, GoOn, CrsTypeOK, Control, Histories, Image, Text, Conf, CrsInv, MarkInv,
     Clean, IsStill, Changed, Enabling, Stopped0, Taken, Snapshotting, Switching, Recovering
<1>21. CASE Revive
  <2>1. CASE conf.rest
    <3>1. Ended("failed") /\ Started /\ UNCHANGED <<conf, bouncer, snap>> /\ ctl.pc = "revive"
       /\ hist' = [hist EXCEPT !.damaged = @ \/ ~conf.rest]
      BY <1>21, <2>1 DEF Revive
    <3> QED
      BY <3>1, <2>1, EndedEffect DEF Started, States, CrsTypeOK, Control, Histories, Image,
         Text, Conf, CrsInv, MarkInv, Clean, IsStill, Changed, Enabling, Stopped0, Taken,
         Snapshotting, Switching, Recovering
  <2>2. CASE ~conf.rest
    <3>1. Ended("rollback-failed") /\ Started /\ UNCHANGED <<conf, bouncer, snap>> /\ ctl.pc =
       "revive" /\ hist' = [hist EXCEPT !.damaged = @ \/ ~conf.rest]
      BY <1>21, <2>2 DEF Revive
    <3> QED
      BY <3>1, <2>2, EndedEffect DEF Started, States, CrsTypeOK, Control, Histories, Image,
         Text, Conf, CrsInv, MarkInv, Clean, IsStill, Changed, Enabling, Stopped0, Taken,
         Snapshotting, Switching, Recovering
  <2> QED
    BY <2>1, <2>2
<1>22. CASE RecoverFails
  BY <1>22, EndedEffect DEF RecoverFails, Fault, Recovering, Down, States, CrsTypeOK, Control,
     Histories, Image, Text, Conf, CrsInv, MarkInv, Clean, IsStill, Changed, Enabling, Stopped0,
     Taken, Snapshotting, Switching
<1>23. CASE Elapse
  BY <1>23 DEF Elapse, CrsTypeOK, Control, Histories, Image, Text, Conf, CrsInv, MarkInv, Clean,
     IsStill, Changed, Enabling, Stopped0, Taken, Snapshotting, Switching, Recovering
<1>24. CASE HealRead
  BY <1>24 DEF HealRead, CrsTypeOK, Control, Histories, Image, Text, Conf, CrsInv, MarkInv,
     Clean, IsStill, Changed, Enabling, Stopped0, Taken, Snapshotting, Switching, Recovering
<1>25. CASE HealReplace
  BY <1>25 DEF HealReplace, CrsTypeOK, Control, Histories, Image, Text, Conf, CrsInv, MarkInv,
     Clean, IsStill, Changed, Enabling, Stopped0, Taken, Snapshotting, Switching, Recovering
<1>26. CASE KillService
  BY <1>26 DEF KillService, Stopped0, CrsTypeOK, Control, Histories, Image, Text, Conf, CrsInv,
     MarkInv, Clean, IsStill, Changed, Enabling, Taken, Snapshotting, Switching, Recovering
<1> QED
  BY <1>1, <1>2, <1>3, <1>4, <1>5, <1>6, <1>7, <1>8, <1>9, <1>10, <1>11, <1>12, <1>13, <1>14,
     <1>15, <1>16, <1>17, <1>18, <1>19, <1>20, <1>21, <1>22, <1>23, <1>24, <1>25, <1>26, CrsNext
     DEF CrsNext, CrsStep, WorkerStep

-----------------------------------------------------------------------------
(* The invariant holds of the service by itself.                           *)
LEMMA CrsInvInit ==
    ASSUME NEW on \in BOOLEAN, NEW chance \in [faults : Nat, kills : Nat, heals : Nat], CrsInit(on, chance)
    PROVE  CrsInv
<1>1. RunInv /\ DamageInv /\ SnapInv /\ ChangeInv /\ MarkInv
  BY DEF CrsInit, Stopped0, RunInv, DamageInv, SnapInv, ChangeInv, MarkInv, Taken, Snapshotting, Switching,
     Recovering
<1>2. RestInv
  BY DEF CrsInit, Stopped0, RestInv, Same
<1> QED
  BY <1>1, <1>2 DEF CrsInv

LEMMA CrsInvStep ==
    ASSUME CrsTypeOK, CrsInv, [CrsNext]_crsVars
    PROVE  CrsTypeOK' /\ CrsInv'
<1>1. CASE CrsNext
  BY <1>1, CrsTypeStep, RunStep, DamageStep, SnapStep, RestStep, ChangeStep, MarkStep DEF CrsInv
<1>2. CASE UNCHANGED crsVars
  <2>1. CrsTypeOK'
    BY <1>2 DEF crsVars, CrsTypeOK
  <2>2. RunInv' /\ DamageInv' /\ SnapInv'
    BY <1>2 DEF crsVars, CrsInv, RunInv, DamageInv, SnapInv
  <2>3. RestInv' /\ ChangeInv'
    BY <1>2 DEF crsVars, CrsInv, RestInv, ChangeInv, Clean, Same, Enabling
  <2>4. MarkInv'
    BY <1>2 DEF crsVars, CrsInv, MarkInv, Clean, Enabling, IsStill, Changed
  <2> QED
    BY <2>1, <2>2, <2>3, <2>4 DEF CrsInv
<1> QED
  BY <1>1, <1>2

LEMMA CrsInvImplies == CrsInv => RolledBack /\ KnownGoodKept
<1>1. CrsInv => KnownGoodKept
  BY DEF CrsInv, SnapInv, KnownGoodKept
<1>2. CrsInv => RolledBack
  BY DEF CrsInv, RestInv, RolledBack, Clean, Same, Switching, Recovering
<1> QED
  BY <1>1, <1>2

-----------------------------------------------------------------------------
(* And as a part of Crowdsec, whose steps are steps of the service or leave it alone. *)
LEMMA CrowdsecStep == ASSUME [Next]_vars PROVE [CrsNext]_crsVars
<1>1. ASSUME NEW r \in Req, SwitchStep(r) PROVE [CrsNext]_crsVars
  <2>1. CASE Switch(r) \/ GiveUpVerb(r)
    BY <2>1 DEF Switch, GiveUpVerb
  <2>2. CASE Connect(r)
    BY <2>2, ReqAssumption DEF Connect, CrsNext
  <2>3. CASE Verb(r) \/ VerbLost(r)
    BY <2>3 DEF Verb, VerbLost, CrsNext
  <2> QED
    BY <1>1, <2>1, <2>2, <2>3 DEF SwitchStep
<1>2. CASE Host /\ UNCHANGED <<lapiVars, Rest>>
  BY <1>2 DEF Host, CrsNext
<1>3. CASE UNCHANGED vars
  BY <1>3 DEF vars, crsVars
<1> QED
  BY <1>1, <1>2, <1>3 DEF Next

LEMMA SwitchInvariant == Spec => [](CrsTypeOK /\ CrsInv)
<1>1. Init => CrsTypeOK /\ CrsInv
  BY CrsTypeInit, CrsInvInit, SceneAssumption DEF Init
<1>2. CrsTypeOK /\ CrsInv /\ [Next]_vars => (CrsTypeOK /\ CrsInv)'
  BY CrowdsecStep, CrsInvStep
<1> QED
  BY <1>1, <1>2, PTL DEF Spec

\* The files of CrowdSec, the service and its worker stay well-typed, whatever requests, faults
\* and checks of the keys there are.
THEOREM SwitchTypeCorrect == Spec => []CrsTypeOK
<1> QED
  BY SwitchInvariant, PTL

\* A switch of the rule set is made as a whole or not at all, for any number of requests, failing
\* commands, kills and checks of the keys.
THEOREM RolledBackTheorem == Spec => []RolledBack
<1>1. CrsTypeOK /\ CrsInv => RolledBack
  BY CrsInvImplies
<1> QED
  BY <1>1, SwitchInvariant, PTL

\* The snapshot outlives the rollback that fails.
THEOREM KnownGoodTheorem == Spec => []KnownGoodKept
<1>1. CrsTypeOK /\ CrsInv => KnownGoodKept
  BY CrsInvImplies
<1> QED
  BY <1>1, SwitchInvariant, PTL

-----------------------------------------------------------------------------
(* The newest elements of a set of alerts.                                 *)

\* A finite set has an element that no other one precedes in a strict order R.
LEMMA MinimalElement ==
    ASSUME NEW T, IsFiniteSet(T), T # {}, NEW R,
           \A x \in T : <<x, x>> \notin R,
           \A x, y, z \in T : <<x, y>> \in R /\ <<y, z>> \in R => <<x, z>> \in R
    PROVE  \E x \in T : \A y \in T : <<y, x>> \notin R
<1> DEFINE Preds(x) == {y \in T : <<y, x>> \in R}
           All == {Preds(x) : x \in T}
<1>1. IsWellFoundedOn(StrictSubsetOrdering(T), SUBSET T)
  BY FS_StrictSubsetOrderingWellFounded, FS_FiniteSubsetsOfFinite
<1>2. All \subseteq SUBSET T /\ All # {}
  <2>1. \A x \in T : Preds(x) \in SUBSET T /\ Preds(x) \in All
    OBVIOUS
  <2>2. \A P \in All : \E x \in T : P = Preds(x)
    OBVIOUS
  <2> HIDE DEF Preds, All
  <2>3. All \subseteq SUBSET T
    BY <2>1, <2>2
  <2> QED
    BY <2>1, <2>3
<1>3. PICK P \in All : \A Q \in All : <<Q, P>> \notin StrictSubsetOrdering(T)
  <2> HIDE DEF All
  <2> QED
    BY <1>1, <1>2, WFMin
<1>4. PICK x \in T : P = Preds(x)
  OBVIOUS
<1>5. ASSUME NEW y \in T, <<y, x>> \in R PROVE FALSE
  <2>1. Preds(y) \subseteq Preds(x)
    BY <1>5
  <2>2. y \in Preds(x) /\ y \notin Preds(y)
    BY <1>5
  <2>3. Preds(y) \in All
    OBVIOUS
  <2>4. Preds(y) \in SUBSET T /\ P \in SUBSET T
    BY <1>2, <2>3
  <2>5. Preds(y) # P
    BY <1>4, <2>2
  <2>6. <<Preds(y), P>> \in StrictSubsetOrdering(T)
    <3>1. Preds(y) \subseteq P
      BY <1>4, <2>1
    <3> HIDE DEF Preds
    <3> QED
      BY <2>4, <2>5, <3>1 DEF StrictSubsetOrdering
  <2> QED
    BY <1>3, <2>3, <2>6
<1> QED
  BY <1>5

LEMMA AlertTypes ==
    ASSUME NEW h \in Seq(Nat)
    PROVE  Len(h) \in Nat /\ DOMAIN h = 1..Len(h) /\ DOMAIN h \subseteq Nat /\ \A a \in DOMAIN h : h[a] \in Nat
OBVIOUS

\* Alerts are ordered, by time and then by number.
LEMMA NewerOrder ==
    ASSUME NEW h \in Seq(Nat)
    PROVE  /\ \A a \in DOMAIN h : ~Newer(h, a, a)
           /\ \A a, b \in DOMAIN h : a = b \/ Newer(h, a, b) \/ Newer(h, b, a)
           /\ \A a, b, c \in DOMAIN h : Newer(h, a, b) /\ Newer(h, b, c) => Newer(h, a, c)
           /\ \A a, b \in DOMAIN h : Newer(h, a, b) => ~Newer(h, b, a)
BY AlertTypes DEF Newer

LEMMA OldestExists ==
    ASSUME NEW h \in Seq(Nat), NEW T \in SUBSET DOMAIN h, T # {}
    PROVE  /\ \E x \in T : \A y \in T : y = x \/ Newer(h, y, x)
           /\ \E x \in T : \A y \in T : y = x \/ Newer(h, x, y)
<1>1. IsFiniteSet(T)
  BY AlertTypes, FS_Interval, FS_Subset
<1>2. \E x \in T : \A y \in T : y = x \/ Newer(h, y, x)
  <2> DEFINE R == {p \in T \X T : Newer(h, p[2], p[1])}
  <2>1. \A x, y \in T : <<x, y>> \in R <=> Newer(h, y, x)
    OBVIOUS
  <2> HIDE DEF R
  <2>2. \A x \in T : <<x, x>> \notin R
    BY <2>1, NewerOrder
  <2>3. \A x, y, z \in T : <<x, y>> \in R /\ <<y, z>> \in R => <<x, z>> \in R
    BY <2>1, NewerOrder
  <2>4. PICK x \in T : \A y \in T : <<y, x>> \notin R
    BY <1>1, <2>2, <2>3, MinimalElement
  <2>5. \A y \in T : ~Newer(h, x, y)
    BY <2>1, <2>4
  <2> QED
    BY <2>5, NewerOrder
<1>3. \E x \in T : \A y \in T : y = x \/ Newer(h, x, y)
  <2> DEFINE R == {p \in T \X T : Newer(h, p[1], p[2])}
  <2>1. \A x, y \in T : <<x, y>> \in R <=> Newer(h, x, y)
    OBVIOUS
  <2> HIDE DEF R
  <2>2. \A x \in T : <<x, x>> \notin R
    BY <2>1, NewerOrder
  <2>3. \A x, y, z \in T : <<x, y>> \in R /\ <<y, z>> \in R => <<x, z>> \in R
    BY <2>1, NewerOrder
  <2>4. PICK x \in T : \A y \in T : <<y, x>> \notin R
    BY <1>1, <2>2, <2>3, MinimalElement
  <2>5. \A y \in T : ~Newer(h, y, x)
    BY <2>1, <2>4
  <2> QED
    BY <2>5, NewerOrder
<1> QED
  BY <1>2, <1>3

\* The newest n of a set: with an alert of it they hold all newer ones; there are no more than n;
\* and they are the whole set when it has no more, or when they are fewer than n.
LEMMA NewestFacts ==
    ASSUME NEW h \in Seq(Nat), NEW S \in SUBSET DOMAIN h, NEW n \in Nat \ {0}
    PROVE  /\ Newest(h, S, n) \subseteq S
           /\ IsFiniteSet(S) /\ Cardinality(Newest(h, S, n)) \in Nat
           /\ \A a \in S, b \in Newest(h, S, n) : Newer(h, a, b) => a \in Newest(h, S, n)
           /\ Cardinality(Newest(h, S, n)) <= n
           /\ Cardinality(S) <= n => Newest(h, S, n) = S
           /\ Cardinality(Newest(h, S, n)) # n => Newest(h, S, n) = S
<1> DEFINE Above(a) == {b \in S : Newer(h, b, a)}
           N == Newest(h, S, n)
<1>1. IsFiniteSet(S) /\ Cardinality(S) \in Nat
  <2>1. IsFiniteSet(DOMAIN h)
    BY AlertTypes, FS_Interval
  <2> QED
    BY <2>1, FS_Subset, FS_CardinalityType
<1>2. N = {a \in S : Cardinality(Above(a)) < n}
  BY DEF Newest
<1>3. \A a \in S : /\ IsFiniteSet(Above(a)) /\ Cardinality(Above(a)) \in Nat
                   /\ Cardinality(Above(a)) < Cardinality(S)
  <2> SUFFICES ASSUME NEW a \in S
               PROVE  /\ IsFiniteSet(Above(a)) /\ Cardinality(Above(a)) \in Nat
                      /\ Cardinality(Above(a)) < Cardinality(S)
    OBVIOUS
  <2>1. Above(a) \in SUBSET S /\ a \in S \ Above(a)
    BY NewerOrder
  <2> HIDE DEF Above
  <2>2. IsFiniteSet(Above(a)) /\ Cardinality(Above(a)) <= Cardinality(S) /\ Cardinality(Above(a)) # Cardinality(S)
    BY <1>1, <2>1, FS_Subset
  <2>3. Cardinality(Above(a)) \in Nat
    BY <2>2, FS_CardinalityType
  <2> QED
    BY <1>1, <2>2, <2>3
<1>4. \A a, b \in S : Newer(h, a, b) => /\ Above(a) \subseteq Above(b)
                                        /\ Cardinality(Above(a)) <= Cardinality(Above(b))
  <2> SUFFICES ASSUME NEW a \in S, NEW b \in S, Newer(h, a, b)
               PROVE  Above(a) \subseteq Above(b) /\ Cardinality(Above(a)) <= Cardinality(Above(b))
    OBVIOUS
  <2>1. Above(a) \in SUBSET Above(b)
    BY NewerOrder
  <2>2. IsFiniteSet(Above(b))
    BY <1>3
  <2> HIDE DEF Above
  <2> QED
    BY <2>1, <2>2, FS_Subset
<1> HIDE DEF Above, N
<1>5. N \in SUBSET S /\ IsFiniteSet(N) /\ Cardinality(N) \in Nat
  <2>1. N \in SUBSET S
    BY <1>2
  <2> QED
    BY <1>1, <2>1, FS_Subset, FS_CardinalityType
<1>6. \A a \in S, b \in N : Newer(h, a, b) => a \in N
  BY <1>2, <1>3, <1>4
<1>7. Cardinality(N) <= n
  <2>1. CASE N = {}
    BY <2>1, FS_EmptySet
  <2>2. CASE N # {}
    <3>1. PICK x \in N : \A y \in N : y = x \/ Newer(h, y, x)
      BY <1>5, <2>2, OldestExists
    <3>2. N \in SUBSET (Above(x) \cup {x})
      BY <1>5, <3>1 DEF Above
    <3>3. IsFiniteSet(Above(x)) /\ Cardinality(Above(x)) \in Nat /\ Cardinality(Above(x)) < n
      BY <1>2, <1>3
    <3>4. IsFiniteSet(Above(x) \cup {x}) /\ Cardinality(Above(x) \cup {x}) <= Cardinality(Above(x)) + 1
      <4>1. Cardinality(Above(x) \cup {x}) =
            IF x \in Above(x) THEN Cardinality(Above(x)) ELSE Cardinality(Above(x)) + 1
        BY <3>3, FS_AddElement
      <4>2. IsFiniteSet(Above(x) \cup {x})
        BY <3>3, FS_AddElement
      <4> QED
        BY <3>3, <4>1, <4>2
    <3>5. Cardinality(Above(x) \cup {x}) \in Nat /\ Cardinality(N) <= Cardinality(Above(x) \cup {x})
      BY <3>2, <3>4, FS_Subset, FS_CardinalityType
    <3> QED
      BY <1>5, <3>3, <3>4, <3>5
  <2> QED
    BY <2>1, <2>2
<1>8. Cardinality(S) <= n => N = S
  BY <1>1, <1>2, <1>3
<1>9. Cardinality(N) # n => N = S
  <2> SUFFICES ASSUME Cardinality(N) # n, N # S PROVE FALSE
    OBVIOUS
  <2>1. S \ N \in SUBSET DOMAIN h /\ S \ N # {}
    BY <1>5
  <2>2. PICK x \in S \ N : \A y \in S \ N : y = x \/ Newer(h, x, y)
    BY <2>1, OldestExists
  <2>3. Above(x) \in SUBSET N
    BY <2>2, NewerOrder DEF Above
  <2>4. Cardinality(Above(x)) <= Cardinality(N)
    BY <1>5, <2>3, FS_Subset
  <2> QED
    BY <1>2, <1>3, <1>5, <1>7, <2>2, <2>4
<1> QED
  BY <1>1, <1>5, <1>6, <1>7, <1>8, <1>9 DEF N

-----------------------------------------------------------------------------
(* One batch.                                                              *)

\* What CrowdSec answers for the first n alerts.
AnswerTo(h, n, c, limit) == Newest(h, {a \in 1..n : h[a] <= c.before + Overlap}, limit)

\* For a history of any length and any sizes of a page: a batch lies behind the cursor; the last one
\* holds all that is behind it, any other all that is between it and the cursor that follows.
THEOREM BatchFacts ==
    ASSUME NEW h \in Seq(Nat), NEW c \in Cursor, NEW n \in 0..Len(h), NEW limit \in Nat \ {0},
           NEW raw, raw = AnswerTo(h, n, c, limit)
    PROVE  /\ Batch(h, c, raw) \subseteq raw /\ raw \subseteq 1..n
           /\ \A a \in Batch(h, c, raw) : Behind(h, c, a)
           /\ ~More(h, c, raw, limit) => \A a \in 1..n : Behind(h, c, a) => a \in Batch(h, c, raw)
           /\ HasNext(h, c, raw, limit) =>
                /\ NextCursor(h, c, raw) \in Cursor
                /\ \A a \in DOMAIN h : Behind(h, NextCursor(h, c, raw), a) => Behind(h, c, a)
                /\ \A a \in Batch(h, c, raw) : ~Behind(h, NextCursor(h, c, raw), a)
                /\ \A a \in 1..n : Behind(h, c, a) /\ ~Behind(h, NextCursor(h, c, raw), a) => a \in Batch(h, c, raw)
<1> DEFINE D == {a \in 1..n : h[a] <= c.before + Overlap}
           C == Candidates(h, c, raw)
           B == Batch(h, c, raw)
<1>0. /\ Page \in Nat \ {0} /\ Overlap \in Nat /\ c.before \in Nat /\ c.id \in Nat /\ c.step \in Nat
      /\ 1..n \subseteq DOMAIN h /\ \A a \in DOMAIN h : a \in Nat /\ h[a] \in Nat
  BY SizeAssumption, AlertTypes DEF Cursor
<1>1. D \in SUBSET DOMAIN h /\ D \subseteq 1..n /\ \A a \in 1..n : Behind(h, c, a) => a \in D
  <2>1. D \in SUBSET DOMAIN h /\ D \subseteq 1..n
    BY <1>0
  <2>2. ASSUME NEW a \in 1..n, Behind(h, c, a) PROVE h[a] <= c.before + Overlap
    <3>1. h[a] \in Nat
      BY <1>0
    <3> QED
      BY <1>0, <2>2, <3>1 DEF Behind
  <2> QED
    BY <2>1, <2>2
<1>2. raw = Newest(h, D, limit)
  BY DEF AnswerTo
<1> HIDE DEF D
<1>3. /\ raw \subseteq D /\ \A a \in D, b \in raw : Newer(h, a, b) => a \in raw
      /\ (Cardinality(raw) # limit => raw = D)
  <2>1. /\ Newest(h, D, limit) \subseteq D
        /\ \A a \in D, b \in Newest(h, D, limit) : Newer(h, a, b) => a \in Newest(h, D, limit)
        /\ (Cardinality(Newest(h, D, limit)) # limit => Newest(h, D, limit) = D)
    BY <1>1, NewestFacts
  <2> QED
    BY <1>2, <2>1
<1>4. C \in SUBSET raw /\ \A a \in raw : a \in C <=> Behind(h, c, a)
  BY DEF Candidates
<1>5. C \in SUBSET DOMAIN h /\ B = Newest(h, C, Page)
  BY <1>1, <1>3, <1>4 DEF Batch
<1> HIDE DEF C, B
<1>6. /\ B \subseteq C /\ \A a \in C, b \in B : Newer(h, a, b) => a \in B
      /\ Cardinality(C) <= Page => B = C
      /\ Cardinality(C) \in Nat
  <2>1. Cardinality(C) \in Nat
    BY <1>5, NewestFacts, FS_CardinalityType
  <2> QED
    BY <1>0, <1>5, <2>1, NewestFacts
<1>7. B \subseteq raw /\ raw \subseteq 1..n /\ \A a \in B : Behind(h, c, a)
  BY <1>1, <1>3, <1>4, <1>6
<1>8. ASSUME ~More(h, c, raw, limit) PROVE \A a \in 1..n : Behind(h, c, a) => a \in B
  <2>1. Cardinality(C) <= Page /\ Cardinality(raw) # limit
    BY <1>0, <1>6, <1>8 DEF More, C
  <2> QED
    BY <1>1, <1>3, <1>4, <1>6, <2>1
<1>9. ASSUME HasNext(h, c, raw, limit)
      PROVE  LET d == NextCursor(h, c, raw)
             IN  /\ d \in Cursor
                 /\ \A a \in DOMAIN h : Behind(h, d, a) => Behind(h, c, a)
                 /\ \A a \in B : ~Behind(h, d, a)
                 /\ \A a \in 1..n : Behind(h, c, a) /\ ~Behind(h, d, a) => a \in B
  <2> DEFINE last == CHOOSE a \in B : \A b \in B : b = a \/ Newer(h, b, a)
             d == [before |-> h[last], id |-> last, step |-> c.step + 1]
  <2>1. B # {} /\ B \in SUBSET DOMAIN h
    BY <1>0, <1>7, <1>9 DEF HasNext, Blocked, B
  <2>2. last \in B /\ \A b \in B : b = last \/ Newer(h, b, last)
    <3>1. \E a \in B : \A b \in B : b = a \/ Newer(h, b, a)
      BY <2>1, OldestExists
    <3> QED
      BY <3>1
  <2>3. NextCursor(h, c, raw) = d
    BY DEF NextCursor, B
  <2> HIDE DEF last
  <2>4. d \in Cursor
    BY <1>0, <2>1, <2>2 DEF Cursor
  <2>5. \A a \in DOMAIN h : Behind(h, d, a) <=> Newer(h, last, a)
    BY <1>0, <2>1, <2>2 DEF Behind, Newer
  <2> HIDE DEF d
  <2>6. last \in DOMAIN h /\ Behind(h, c, last) /\ last \in raw /\ last \in C
    BY <1>6, <1>7, <2>1, <2>2
  <2>7. \A a \in DOMAIN h : Behind(h, d, a) => Behind(h, c, a)
    <3> SUFFICES ASSUME NEW a \in DOMAIN h, Newer(h, last, a) PROVE Behind(h, c, a)
      BY <2>5
    <3>1. h[a] \in Nat /\ h[last] \in Nat /\ a \in Nat /\ last \in Nat
      BY <1>0, <2>6
    <3> QED
      BY <1>0, <2>6, <3>1 DEF Newer, Behind
  <2>8. \A a \in B : ~Behind(h, d, a)
    BY <2>1, <2>2, <2>5, NewerOrder
  <2>9. ASSUME NEW a \in 1..n, Behind(h, c, a), ~Behind(h, d, a) PROVE a \in B
    <3>1. a = last \/ Newer(h, a, last)
      BY <1>0, <2>5, <2>6, <2>9, NewerOrder
    <3>2. a \in raw
      BY <1>1, <1>3, <2>6, <2>9, <3>1
    <3> QED
      BY <1>4, <1>6, <2>2, <2>9, <3>1, <3>2
  <2> QED
    BY <2>3, <2>4, <2>7, <2>8, <2>9
<1> QED
  BY <1>7, <1>8, <1>9 DEF B

-----------------------------------------------------------------------------
(* The calls to CrowdSec.                                                  *)

\* Whatever a request is about, what it does to the client is one of these.
Resets(r) ==
    /\ call' \in {[call EXCEPT ![r] = Begun(r)], [call EXCEPT ![r] = Quiet]}
    /\ UNCHANGED <<keyFile, lapi, cache>>
Passes(r) == ClientStep(r) \/ LapiAnswers(r)
Serves(r) == Serve(r) \/ \E how \in {"lost", "invalid"} : ServeAndLose(r, how)
LapiNext ==
    \/ World
    \/ \E r \in Req : Passes(r) \/ Serves(r) \/ Resets(r)
    \/ UNCHANGED <<keyFile, lapi, cache, call>>

\* No token has a number that has not been granted yet.
SerialInv ==
    /\ cache.serial <= lapi.granted
    /\ \A r \in Req : call[r].token.serial <= lapi.granted /\ call[r].refusal <= lapi.granted

\* A token that has been granted and not taken yet is nobody else's.
Unshared(r, n) ==
    /\ n # cache.serial
    /\ \A x \in Req : (x # r => call[x].token.serial # n) /\ call[x].refusal # n

FreshInv ==
    \A r \in Req : call[r].stage = "granted" =>
        /\ call[r].token.key = call[r].key /\ call[r].token.serial > 0
        /\ Unshared(r, call[r].token.serial)

\* The cache holds no token that a call under way has been refused with.
RefusedInv == \A r \in Req : call[r].retried /\ cache # NoToken => cache.serial # call[r].refusal

TokenInv == SerialInv /\ FreshInv /\ RefusedInv /\ TokensAreCurrent

LapiTypes == keyFile \in Key \cup {NoKey} /\ lapi \in [key : Key, run : Nat, granted : Nat]
             /\ cache \in Token \cup {NoToken} /\ call \in [Req -> Call]

LEMMA QuietType == Quiet \in Call /\ \A r \in Req : Begun(r) \in Call
BY DEF Quiet, Begun, Call, Stage

LEMMA SerialType ==
    ASSUME LapiTypes
    PROVE  /\ cache.serial \in Nat /\ lapi.granted \in Nat
           /\ \A r \in Req : call[r].token.serial \in Nat /\ call[r].refusal \in Nat
<1>1. \A t \in Token \cup {NoToken} : t.serial \in Nat
  BY DEF Token, NoToken
<1> QED
  BY <1>1 DEF LapiTypes, Call

\* The step of one call: what it becomes.
LEMMA CallStep ==
    ASSUME LapiTypes, NEW r \in Req, Passes(r) \/ Serves(r) \/ Resets(r)
    PROVE  /\ call'[r] \in Call
           /\ call' = [call EXCEPT ![r] = call'[r]]
           /\ lapi' \in [key : Key, run : Nat, granted : Nat] /\ cache' \in Token \cup {NoToken}
           /\ keyFile' = keyFile
<1> USE DEF LapiTypes
<1>0. call[r] \in Call
  OBVIOUS
<1>1. CASE ReadKey(r)
  BY <1>0, <1>1 DEF ReadKey, Failed, Call, Stage
<1>2. CASE UseCache(r)
  BY <1>0, <1>2 DEF UseCache, Call, Stage
<1>3. CASE AskToken(r)
  BY <1>0, <1>3 DEF AskToken, To, Call, Stage
<1>4. CASE TakeToken(r)
  <2>1. cache' = call[r].token /\ call' = [call EXCEPT ![r].stage = "send"] /\ UNCHANGED <<keyFile, lapi>>
    BY <1>4 DEF TakeToken, To
  <2> QED
    BY <1>0, <2>1 DEF Call, Stage
<1>5. CASE Retry(r)
  <2>1. call[r].token.serial \in Nat
    BY SerialType
  <2> QED
    BY <1>0, <1>5, <2>1 DEF Retry, Call, Stage
<1>6. CASE GiveUp(r)
  BY <1>0, <1>6 DEF GiveUp, Failed, Call, Stage
<1>7. CASE Return(r)
  BY <1>0, <1>7 DEF Return, Failed, Call, Stage
<1>8. CASE GrantToken(r)
  <2>1. [serial |-> lapi.granted + 1, key |-> lapi.key, run |-> lapi.run] \in Token
    BY DEF Token
  <2>2. call' = [call EXCEPT ![r].stage = "granted",
                     ![r].token = [serial |-> lapi.granted + 1, key |-> lapi.key, run |-> lapi.run]]
    BY <1>8 DEF GrantToken
  <2>3. lapi' \in [key : Key, run : Nat, granted : Nat] /\ UNCHANGED <<keyFile, cache>>
    BY <1>8 DEF GrantToken
  <2> QED
    BY <1>0, <2>1, <2>2, <2>3 DEF Call, Stage
<1>9. CASE DenyToken(r)
  BY <1>0, <1>9 DEF DenyToken, Failed, Call, Stage
<1>10. CASE Refuse(r)
  BY <1>0, <1>10 DEF Refuse, To, Call, Stage
<1>11. CASE Unreachable(r)
  BY <1>0, <1>11 DEF Unreachable, Failed, Call, Stage
<1>12. CASE Serve(r)
  BY <1>0, <1>12 DEF Serve, To, Call, Stage
<1>13. ASSUME NEW how \in {"lost", "invalid"}, ServeAndLose(r, how)
       PROVE  /\ call'[r] \in Call
              /\ call' = [call EXCEPT ![r] = call'[r]]
              /\ UNCHANGED <<keyFile, lapi, cache>>
  BY <1>0, <1>13 DEF ServeAndLose, To, Call, Stage
<1>14. CASE Resets(r)
  BY <1>14, QuietType DEF Resets
<1> QED
  BY <1>1, <1>2, <1>3, <1>4, <1>5, <1>6, <1>7, <1>8, <1>9, <1>10, <1>11, <1>12, <1>13, <1>14
     DEF Passes, Serves, ClientStep, LapiAnswers

LEMMA LapiTypeStep == ASSUME LapiTypes, LapiNext PROVE LapiTypes'
<1>1. CASE World
  BY <1>1 DEF World, ReplaceKeyFile, ReplaceKey, Restart, CacheExpires, LapiTypes
<1>2. ASSUME NEW r \in Req, Passes(r) \/ Serves(r) \/ Resets(r) PROVE LapiTypes'
  BY <1>2, CallStep DEF LapiTypes
<1>3. CASE UNCHANGED <<keyFile, lapi, cache, call>>
  BY <1>3 DEF LapiTypes
<1> QED
  BY <1>1, <1>2, <1>3 DEF LapiNext

\* A step that brings no token into play.
Plain(r) ==
    /\ cache' \in {cache, NoToken} /\ lapi'.granted = lapi.granted
    /\ \A x \in Req \ {r} : call'[x] = call[x]
    /\ call'[r].stage # "granted"
    /\ call'[r].token.serial \in {call[r].token.serial, 0}
    /\ call'[r].refusal \in {call[r].refusal, 0}
    /\ (call'[r].retried => call[r].retried /\ call'[r].refusal = call[r].refusal)
    /\ (call'[r].stage \in Holding =>
           call[r].stage \in Holding /\ call'[r].token = call[r].token /\ call'[r].key = call[r].key)

LEMMA PlainStep == ASSUME LapiTypes, TokenInv, NEW r \in Req, Plain(r) PROVE TokenInv'
<1>0. /\ cache.serial \in Nat /\ lapi.granted \in Nat
      /\ \A x \in Req : call[x].token.serial \in Nat /\ call[x].refusal \in Nat
  BY SerialType
<1>1. cache'.serial \in {cache.serial, 0} /\ (cache' # NoToken => cache' = cache)
  BY DEF Plain, NoToken
<1>2. \A x \in Req : /\ call'[x].token.serial \in {call[x].token.serial, 0}
                     /\ call'[x].refusal \in {call[x].refusal, 0}
                     /\ (call'[x].retried => call[x].retried /\ call'[x].refusal = call[x].refusal)
                     /\ (call'[x].stage = "granted" => x # r /\ call'[x] = call[x])
                     /\ (call'[x].stage \in Holding =>
                           call[x].stage \in Holding /\ call'[x].token = call[x].token /\ call'[x].key = call[x].key)
  BY DEF Plain
<1>3. SerialInv'
  BY <1>0, <1>1, <1>2 DEF TokenInv, SerialInv, Plain
<1>4. FreshInv'
  <2> SUFFICES ASSUME NEW y \in Req, call'[y].stage = "granted"
               PROVE  /\ call'[y].token.key = call'[y].key /\ call'[y].token.serial > 0
                      /\ Unshared(y, call[y].token.serial)'
    BY <1>2 DEF FreshInv
  <2>1. call'[y] = call[y]
    BY <1>2
  <2>2. /\ call[y].token.key = call[y].key /\ call[y].token.serial > 0
        /\ Unshared(y, call[y].token.serial)
    BY <2>1 DEF TokenInv, FreshInv
  <2> QED
    BY <1>0, <1>1, <1>2, <2>1, <2>2 DEF Unshared
<1>5. RefusedInv'
  BY <1>1, <1>2 DEF TokenInv, RefusedInv
<1>6. TokensAreCurrent'
  <2> SUFFICES ASSUME NEW x \in Req, call'[x].stage \in Holding
               PROVE  /\ call'[x].token.key = call'[x].key
                      /\ (call'[x].retried => call'[x].token.serial # call'[x].refusal)
    BY DEF TokensAreCurrent
  <2> QED
    BY <1>2 DEF TokenInv, TokensAreCurrent
<1> QED
  BY <1>3, <1>4, <1>5, <1>6 DEF TokenInv

LEMMA Plainly ==
    ASSUME LapiTypes, NEW r \in Req,
           \/ ReadKey(r) \/ AskToken(r) \/ GiveUp(r) \/ Return(r)
           \/ DenyToken(r) \/ Refuse(r) \/ Unreachable(r) \/ Serves(r) \/ Resets(r)
    PROVE  Plain(r)
<1>0. call[r] \in Call /\ Begun(r) \in Call /\ Quiet \in Call
  BY QuietType DEF LapiTypes
<1>1. CASE ReadKey(r)
  BY <1>0, <1>1 DEF ReadKey, Failed, LapiTypes, Call, Plain, Holding
<1>2. CASE AskToken(r)
  BY <1>0, <1>2 DEF AskToken, To, LapiTypes, Call, Plain, Holding
<1>3. CASE GiveUp(r)
  BY <1>0, <1>3 DEF GiveUp, Failed, LapiTypes, Call, Plain, Holding
<1>4. CASE Return(r)
  BY <1>0, <1>4 DEF Return, Failed, LapiTypes, Call, Plain, Holding
<1>5. CASE DenyToken(r)
  BY <1>0, <1>5 DEF DenyToken, Failed, LapiTypes, Call, Plain, Holding
<1>6. CASE Refuse(r)
  BY <1>0, <1>6 DEF Refuse, To, LapiTypes, Call, Plain, Holding
<1>7. CASE Unreachable(r)
  BY <1>0, <1>7 DEF Unreachable, Failed, LapiTypes, Call, Plain, Holding
<1>8. CASE Serve(r)
  BY <1>0, <1>8 DEF Serve, To, LapiTypes, Call, Plain, Holding
<1>9. ASSUME NEW how \in {"lost", "invalid"}, ServeAndLose(r, how) PROVE Plain(r)
  BY <1>0, <1>9 DEF ServeAndLose, To, LapiTypes, Call, Plain, Holding
<1>10. CASE Resets(r)
  BY <1>0, <1>10 DEF Resets, Begun, Quiet, NoToken, LapiTypes, Call, Plain, Holding
<1> QED
  BY <1>1, <1>2, <1>3, <1>4, <1>5, <1>6, <1>7, <1>8, <1>9, <1>10 DEF Serves

LEMMA TokenStep == ASSUME LapiTypes, TokenInv, LapiNext PROVE TokenInv'
<1>0. /\ cache.serial \in Nat /\ lapi.granted \in Nat
      /\ \A x \in Req : call[x].token.serial \in Nat /\ call[x].refusal \in Nat
  BY SerialType
<1>t. call \in [Req -> Call] /\ \A x \in Req : call[x] \in Call
  BY DEF LapiTypes
<1>1. CASE UNCHANGED <<keyFile, lapi, cache, call>>
  BY <1>1 DEF TokenInv, SerialInv, FreshInv, Unshared, RefusedInv, TokensAreCurrent
<1>2. CASE World
  <2>1. /\ lapi'.granted = lapi.granted /\ cache' \in {cache, NoToken} /\ call' = call
    BY <1>2 DEF World, ReplaceKeyFile, ReplaceKey, Restart, CacheExpires, LapiTypes
  <2>2. cache'.serial \in {cache.serial, 0} /\ (cache' # NoToken => cache' = cache)
    BY <2>1 DEF NoToken
  <2>3. SerialInv'
    BY <1>0, <2>1, <2>2 DEF TokenInv, SerialInv
  <2>4. FreshInv'
    <3> SUFFICES ASSUME NEW y \in Req, call[y].stage = "granted"
                 PROVE  /\ call[y].token.key = call[y].key /\ call[y].token.serial > 0
                        /\ Unshared(y, call[y].token.serial)'
      BY <2>1 DEF FreshInv
    <3>1. /\ call[y].token.key = call[y].key /\ call[y].token.serial > 0
          /\ Unshared(y, call[y].token.serial)
      BY DEF TokenInv, FreshInv
    <3> QED
      BY <1>0, <2>1, <2>2, <3>1 DEF Unshared
  <2> QED
    BY <2>1, <2>2, <2>3, <2>4 DEF TokenInv, RefusedInv, TokensAreCurrent
<1>3. ASSUME NEW r \in Req, UseCache(r) PROVE TokenInv'
  <2>0. call' = [call EXCEPT ![r].stage = "send", ![r].token = cache]
    BY <1>3 DEF UseCache
  <2>1. lapi' = lapi /\ cache' = cache
    BY <1>3 DEF UseCache
  <2>2. cache # NoToken /\ cache.key = call[r].key
    BY <1>3 DEF UseCache, Hit
  <2>3. \A x \in Req \ {r} : call'[x] = call[x]
    BY <1>t, <2>0
  <2>4. /\ call'[r].stage = "send" /\ call'[r].token = cache /\ call'[r].key = call[r].key
        /\ call'[r].retried = call[r].retried /\ call'[r].refusal = call[r].refusal
    BY <1>t, <2>0 DEF Call
  <2>5. SerialInv'
    BY <1>0, <2>1, <2>3, <2>4 DEF TokenInv, SerialInv
  <2>6. FreshInv'
    <3> SUFFICES ASSUME NEW y \in Req, call'[y].stage = "granted"
                 PROVE  /\ call'[y].token.key = call'[y].key /\ call'[y].token.serial > 0
                        /\ Unshared(y, call[y].token.serial)'
      BY DEF FreshInv
    <3>1. y # r /\ call'[y] = call[y]
      BY <2>3, <2>4
    <3>2. /\ call[y].token.key = call[y].key /\ call[y].token.serial > 0
          /\ Unshared(y, call[y].token.serial)
      BY <3>1 DEF TokenInv, FreshInv
    <3>3. Unshared(y, call[y].token.serial)'
      BY <2>1, <2>3, <2>4, <3>1, <3>2 DEF Unshared
    <3> QED
      BY <3>1, <3>2, <3>3
  <2>7. RefusedInv'
    BY <2>1, <2>3, <2>4 DEF TokenInv, RefusedInv
  <2>8. TokensAreCurrent'
    BY <2>1, <2>2, <2>3, <2>4 DEF TokenInv, TokensAreCurrent, RefusedInv
  <2> QED
    BY <2>5, <2>6, <2>7, <2>8 DEF TokenInv
<1>4. ASSUME NEW r \in Req, TakeToken(r) PROVE TokenInv'
  <2>0. call' = [call EXCEPT ![r].stage = "send"]
    BY <1>4 DEF TakeToken, To
  <2>1. call[r].stage = "granted" /\ cache' = call[r].token /\ lapi' = lapi
    BY <1>4 DEF TakeToken
  <2>2. \A x \in Req \ {r} : call'[x] = call[x]
    BY <1>t, <2>0
  <2>3. /\ call'[r].stage = "send" /\ call'[r].token = call[r].token /\ call'[r].key = call[r].key
        /\ call'[r].retried = call[r].retried /\ call'[r].refusal = call[r].refusal
    BY <1>t, <2>0 DEF Call
  <2>4. /\ call[r].token.key = call[r].key /\ call[r].token.serial > 0
        /\ Unshared(r, call[r].token.serial)
    BY <2>1 DEF TokenInv, FreshInv
  <2>5. SerialInv'
    BY <1>0, <2>1, <2>2, <2>3 DEF TokenInv, SerialInv
  <2>6. FreshInv'
    <3> SUFFICES ASSUME NEW y \in Req, call'[y].stage = "granted"
                 PROVE  /\ call'[y].token.key = call'[y].key /\ call'[y].token.serial > 0
                        /\ Unshared(y, call[y].token.serial)'
      BY DEF FreshInv
    <3>1. y # r /\ call'[y] = call[y]
      BY <2>2, <2>3
    <3>2. /\ call[y].token.key = call[y].key /\ call[y].token.serial > 0
          /\ Unshared(y, call[y].token.serial)
      BY <3>1 DEF TokenInv, FreshInv
    <3>3. Unshared(y, call[y].token.serial)'
      BY <2>1, <2>2, <2>3, <3>1, <3>2 DEF Unshared
    <3> QED
      BY <3>1, <3>2, <3>3
  <2>7. RefusedInv'
    BY <2>1, <2>2, <2>3, <2>4 DEF Unshared, RefusedInv
  <2>8. TokensAreCurrent'
    BY <2>1, <2>2, <2>3, <2>4 DEF TokenInv, TokensAreCurrent, Unshared
  <2> QED
    BY <2>5, <2>6, <2>7, <2>8 DEF TokenInv
<1>5. ASSUME NEW r \in Req, Retry(r) PROVE TokenInv'
  <2>0. call' = [call EXCEPT ![r].stage = "login", ![r].retried = TRUE, ![r].refusal = call[r].token.serial]
    BY <1>5 DEF Retry
  <2>1. call[r].stage = "refused" /\ cache' = NoToken /\ lapi' = lapi
    BY <1>5 DEF Retry
  <2>2. \A x \in Req \ {r} : call'[x] = call[x]
    BY <1>t, <2>0
  <2>3. /\ call'[r].stage = "login" /\ call'[r].token = call[r].token
        /\ call'[r].refusal = call[r].token.serial
    BY <1>t, <2>0 DEF Call
  <2>4. cache'.serial = 0
    BY <2>1 DEF NoToken
  <2>5. SerialInv'
    BY <1>0, <2>1, <2>2, <2>3, <2>4 DEF TokenInv, SerialInv
  <2>6. FreshInv'
    <3> SUFFICES ASSUME NEW y \in Req, call'[y].stage = "granted"
                 PROVE  /\ call'[y].token.key = call'[y].key /\ call'[y].token.serial > 0
                        /\ Unshared(y, call[y].token.serial)'
      BY DEF FreshInv
    <3>1. y # r /\ call'[y] = call[y]
      BY <2>2, <2>3
    <3>2. /\ call[y].token.key = call[y].key /\ call[y].token.serial > 0
          /\ Unshared(y, call[y].token.serial)
      BY <3>1 DEF TokenInv, FreshInv
    <3>3. Unshared(y, call[y].token.serial)'
      BY <1>0, <2>2, <2>3, <2>4, <3>1, <3>2 DEF Unshared
    <3> QED
      BY <3>1, <3>2, <3>3
  <2>7. RefusedInv'
    BY <2>1 DEF RefusedInv
  <2>8. TokensAreCurrent'
    BY <2>2, <2>3 DEF TokenInv, TokensAreCurrent, Holding
  <2> QED
    BY <2>5, <2>6, <2>7, <2>8 DEF TokenInv
<1>6. ASSUME NEW r \in Req, GrantToken(r) PROVE TokenInv'
  <2> DEFINE n == lapi.granted + 1
             token == [serial |-> n, key |-> lapi.key, run |-> lapi.run]
  <2>0. call' = [call EXCEPT ![r].stage = "granted", ![r].token = token]
    BY <1>6 DEF GrantToken
  <2>1. call[r].key = lapi.key /\ cache' = cache
    BY <1>6 DEF GrantToken
  <2>2. \A x \in Req \ {r} : call'[x] = call[x]
    BY <1>t, <2>0
  <2>3. /\ call'[r].stage = "granted" /\ call'[r].token = token /\ call'[r].key = call[r].key
        /\ call'[r].retried = call[r].retried /\ call'[r].refusal = call[r].refusal
    BY <1>t, <2>0 DEF Call
  <2>4. lapi'.granted = n
    BY <1>6 DEF GrantToken, LapiTypes
  <2>5. token.serial = n /\ token.key = lapi.key
    OBVIOUS
  <2> HIDE DEF token
  <2>6. /\ cache.serial # n
        /\ \A x \in Req : call[x].token.serial # n /\ call[x].refusal # n
    BY <1>0 DEF TokenInv, SerialInv
  <2>7. SerialInv'
    BY <1>0, <2>1, <2>2, <2>3, <2>4, <2>5 DEF TokenInv, SerialInv
  <2>8. FreshInv'
    <3> SUFFICES ASSUME NEW y \in Req, call'[y].stage = "granted"
                 PROVE  /\ call'[y].token.key = call'[y].key /\ call'[y].token.serial > 0
                        /\ Unshared(y, call[y].token.serial)'
      BY DEF FreshInv
    <3>1. CASE y = r
      BY <1>0, <2>1, <2>2, <2>3, <2>5, <2>6, <3>1 DEF Unshared
    <3>2. CASE y # r
      <4>1. call'[y] = call[y]
        BY <2>2, <3>2
      <4>2. /\ call[y].token.key = call[y].key /\ call[y].token.serial > 0
            /\ Unshared(y, call[y].token.serial)
        BY <4>1 DEF TokenInv, FreshInv
      <4>3. Unshared(y, call[y].token.serial)'
        BY <2>1, <2>2, <2>3, <2>5, <2>6, <4>1, <4>2 DEF Unshared
      <4> QED
        BY <4>1, <4>2, <4>3
    <3> QED
      BY <3>1, <3>2
  <2>9. RefusedInv'
    BY <2>1, <2>2, <2>3 DEF TokenInv, RefusedInv
  <2>10. TokensAreCurrent'
    BY <2>2, <2>3 DEF TokenInv, TokensAreCurrent, Holding
  <2> QED
    BY <2>7, <2>8, <2>9, <2>10 DEF TokenInv
<1> QED
  BY <1>1, <1>2, <1>3, <1>4, <1>5, <1>6, Plainly, PlainStep
     DEF LapiNext, Passes, ClientStep, LapiAnswers

-----------------------------------------------------------------------------
(* Types.                                                                  *)
SessionTypes ==
    /\ Cardinality(Live(sess)) <= MaxLive
    /\ clock \in Nat /\ time \in Seq(Nat) /\ Len(time) <= MaxAlerts
    /\ sess \in [Session -> SessionState] /\ opened \in 0..MaxSessions
OpTypes == op \in [Req -> Op] /\ reply \in [Req -> Reply]
AuditTypes ==
    /\ audit \in [Req -> {"none", "requested", "done", "failed"}]
    /\ changes \in [Req -> Nat]

LEMMA TypesAre ==
    TypeOK <=> LapiTypes /\ budget \in Budget /\ CrsTypeOK /\ SessionTypes /\ OpTypes /\ AuditTypes
BY DEF TypeOK, LapiTypeOK, LapiTypes, SessionTypes, OpTypes, AuditTypes

\* What a request does to the client.
LEMMA LapiStep == ASSUME [Next]_vars PROVE LapiNext
<1>1. ASSUME NEW r \in Req, Arrive(r) PROVE LapiNext
  BY <1>1 DEF Arrive, Open, Expire, Advance, Join, Change, ChangeRefused, Start, LapiNext, Resets
<1>2. ASSUME NEW r \in Req, Progress(r) PROVE LapiNext
  <2>1. CASE ClientStep(r) \/ LapiAnswers(r) \/ ServeScan(r) \/ LoseScan(r) \/ ServeChange(r) \/ LoseChange(r)
    BY <2>1 DEF ServeScan, LoseScan, ServeChange, LoseChange, LapiNext, Passes, Serves
  <2>2. CASE AskFewer(r) \/ NextBatch(r) \/ LastBatch(r) \/ ScanFails(r)
    BY <2>2 DEF AskFewer, NextBatch, LastBatch, ScanFails, Start, LapiNext, Resets
  <2>3. CASE ChangeMade(r) \/ ChangeFailed(r)
    BY <2>3 DEF ChangeMade, ChangeFailed, Finish, LapiNext, Resets
  <2> QED
    BY <1>2, <2>1, <2>2, <2>3 DEF Progress
<1>3. ASSUME NEW r \in Req, SwitchStep(r) PROVE LapiNext
  BY <1>3 DEF SwitchStep, Switch, Connect, Verb, VerbLost, GiveUpVerb, lapiVars, LapiNext
<1>4. CASE World
  BY <1>4 DEF LapiNext
<1>5. CASE \E t \in clock..clock + 1 : NewAlert(t)
  BY <1>5 DEF NewAlert, LapiNext
<1>6. CASE UNCHANGED lapiVars
  BY <1>6 DEF lapiVars, LapiNext
<1>7. CASE UNCHANGED vars
  BY <1>7 DEF vars, lapiVars, LapiNext
<1> QED
  BY <1>1, <1>2, <1>3, <1>4, <1>5, <1>6, <1>7 DEF Next

LEMMA LapiTypeInit == ASSUME Init PROVE LapiTypes /\ TokenInv
<1> DEFINE k == CHOOSE k \in Key : TRUE
<1>1. k \in Key
  BY KeyAssumption
<1>2. LapiInit(k)
  BY DEF Init
<1> HIDE DEF k
<1>3. LapiTypes
  BY <1>1, <1>2, QuietType DEF LapiInit, LapiTypes
<1>4. /\ cache.serial = 0 /\ lapi.granted = 0
      /\ \A r \in Req : /\ call[r].stage = "off" /\ call[r].token.serial = 0
                        /\ call[r].refusal = 0 /\ ~call[r].retried
  BY <1>2 DEF LapiInit, Quiet, NoToken
<1> QED
  BY <1>3, <1>4 DEF TokenInv, SerialInv, FreshInv, RefusedInv, TokensAreCurrent, Holding

\* A request goes out with a token of the very key its call has read, although the key may be
\* replaced and the shared token be that of other calls, and a call that was refused starts over
\* with another token than the refused one.
THEOREM TokensTheorem == Spec => []TokensAreCurrent
<1>1. Init => LapiTypes /\ TokenInv
  BY LapiTypeInit
<1>2. LapiTypes /\ TokenInv /\ [Next]_vars => (LapiTypes /\ TokenInv)'
  BY LapiStep, LapiTypeStep, TokenStep
<1>3. LapiTypes /\ TokenInv => TokensAreCurrent
  BY DEF TokenInv
<1> QED
  BY <1>1, <1>2, <1>3, PTL DEF Spec

LEMMA BudgetStep == ASSUME budget \in Budget, [Next]_vars PROVE budget' \in Budget
<1> USE DEF Budget
<1>1. ASSUME NEW r \in Req, Arrive(r) PROVE budget' \in Budget
  <2>1. Ask \/ (budget.asks > 0 /\ budget.faults > 0 /\ budget' = [budget EXCEPT !.asks = @ - 1, !.faults = @ - 1])
    BY <1>1 DEF Arrive, Open, Expire, Advance, Join, Change, ChangeRefused
  <2>2. CASE Ask
    BY <2>2 DEF Ask
  <2>3. CASE budget.faults > 0 /\ budget' = [budget EXCEPT !.asks = @ - 1, !.faults = @ - 1] /\ budget.asks > 0
    <3>1. budget.asks - 1 \in Nat /\ budget.faults - 1 \in Nat
      BY <2>3
    <3> QED
      BY <2>3, <3>1
  <2> QED
    BY <2>1, <2>2, <2>3
<1>2. ASSUME NEW r \in Req, Progress(r) PROVE budget' \in Budget
  <2>1. CASE ClientStep(r)
    BY <2>1 DEF ClientStep, ReadKey, UseCache, AskToken, TakeToken, Retry, GiveUp, Return
  <2>2. CASE LapiAnswers(r)
    BY <2>2 DEF LapiAnswers, GrantToken, DenyToken, Refuse, Unreachable
  <2>3. CASE ServeScan(r) \/ LoseScan(r) \/ ServeChange(r) \/ LoseChange(r)
    BY <2>3 DEF ServeScan, LoseScan, ServeChange, LoseChange, Serve, ServeAndLose
  <2>4. CASE AskFewer(r) \/ NextBatch(r) \/ LastBatch(r) \/ ScanFails(r)
    BY <2>4 DEF AskFewer, NextBatch, LastBatch, ScanFails
  <2>5. CASE ChangeMade(r) \/ ChangeFailed(r)
    BY <2>5 DEF ChangeMade, ChangeFailed, Finish
  <2> QED
    BY <1>2, <2>1, <2>2, <2>3, <2>4, <2>5 DEF Progress
<1>3. ASSUME NEW r \in Req, SwitchStep(r) PROVE budget' \in Budget
  BY <1>3 DEF SwitchStep, Switch, Connect, Verb, VerbLost, GiveUpVerb, lapiVars
<1>4. CASE World
  BY <1>4 DEF World, ReplaceKeyFile, ReplaceKey, Restart, CacheExpires
<1>5. CASE \E t \in clock..clock + 1 : NewAlert(t)
  BY <1>5 DEF NewAlert
<1>6. CASE UNCHANGED lapiVars
  BY <1>6 DEF lapiVars
<1>7. CASE UNCHANGED vars
  BY <1>7 DEF vars, lapiVars
<1> QED
  BY <1>1, <1>2, <1>3, <1>4, <1>5, <1>6, <1>7 DEF Next

-----------------------------------------------------------------------------
(* The scans of the catalogue.                                             *)

\* A session has counted what its cursor has passed, and once.
Sound(h, st) ==
    /\ st.known \subseteq DOMAIN h
    /\ \A a \in Alert : st.counted[a] <= 1 /\ (st.counted[a] # 0 => a \in DOMAIN h)
    /\ (~st.truncated /\ ~st.complete =>
           \A a \in Alert : st.counted[a] # 0 => ~Behind(h, st.cursor, a))
    /\ (~st.truncated =>
           \A a \in st.known \cap Attack :
               st.counted[a] = IF ~st.complete /\ Behind(h, st.cursor, a) THEN 0 ELSE 1)

\* The alerts a batch was served are those CrowdSec had at some moment since the session was opened.
Served(r) ==
    LET st == sess[op[r].session]
    IN  \E n \in 0..Len(time) :
           /\ st.known \subseteq 1..n
           /\ op[r].raw = AnswerTo(time, n, st.cursor, op[r].limit)

LEMMA OpFacts ==
    ASSUME op \in [Req -> Op], NEW r \in Req
    PROVE  /\ op[r] \in Op /\ op[r].session \in Session /\ op[r].limit \in Nat \ {0}
           /\ op[r].batch \in 0..Batches /\ op[r].raw \subseteq Alert
<1>1. Limit \in Nat \ {0} /\ Fallback \in Nat \ {0}
  BY SizeAssumption
<1> QED
  BY <1>1 DEF Op

LEMMA ScannedFacts ==
    ASSUME SessionTypes, OpTypes, NEW r \in Req, NEW s \in Session, op[r].session = s,
           Sound(time, sess[s]), ~sess[s].complete, ~sess[s].truncated, Served(r)
    PROVE  LET st == Scanned(r, s)
           IN  /\ st \in SessionState /\ Sound(time, st)
               /\ st.live = sess[s].live /\ st.told = sess[s].told /\ st.owner = sess[s].owner
               /\ st.known = sess[s].known
<1> DEFINE old == sess[s]
           c == old.cursor
           raw == op[r].raw
           limit == op[r].limit
           batch == Batch(time, c, raw)
           next == HasNext(time, c, raw, limit)
           blocked == Blocked(time, c, raw, limit)
           st == Scanned(r, s)
           counts == [a \in Alert |-> old.counted[a] + IF a \in batch \cap Attack THEN 1 ELSE 0]
           cur == IF next THEN NextCursor(time, c, raw) ELSE c
<1>1. /\ old \in SessionState /\ c \in Cursor /\ limit \in Nat \ {0} /\ time \in Seq(Nat)
      /\ old.counted \in [Alert -> Nat] /\ old.known \subseteq Alert /\ old.rev \in Nat
  BY OpFacts DEF SessionTypes, OpTypes, SessionState
<1>2. PICK n \in 0..Len(time) : old.known \subseteq 1..n /\ raw = AnswerTo(time, n, c, limit)
  BY DEF Served
<1>3. DOMAIN time \subseteq Alert /\ 1..n \subseteq DOMAIN time
  BY <1>1, BoundAssumption, AlertTypes DEF SessionTypes, Alert
<1>4. next \in BOOLEAN /\ blocked \in BOOLEAN
  BY DEF HasNext, Blocked, More
<1>5. /\ st.counted = counts /\ st.cursor = cur /\ st.truncated = blocked
      /\ st.complete = (~next /\ ~blocked) /\ st.rev = old.rev + 1
      /\ st.live = old.live /\ st.told = old.told /\ st.owner = old.owner /\ st.known = old.known
      /\ st = [live |-> old.live, told |-> old.told, owner |-> old.owner, rev |-> old.rev + 1,
               cursor |-> cur, known |-> old.known, counted |-> counts,
               complete |-> (~next /\ ~blocked), truncated |-> blocked]
  <2>1. st = [old EXCEPT !.counted = counts, !.cursor = cur, !.truncated = blocked,
                         !.complete = ~next /\ ~blocked, !.rev = @ + 1]
    BY DEF Scanned
  <2> HIDE DEF batch, next, blocked, st, counts, cur
  <2> QED
    BY <1>1, <2>1 DEF SessionState
<1>6. /\ batch \subseteq 1..n
      /\ \A a \in batch : Behind(time, c, a)
      /\ (~More(time, c, raw, limit) => \A a \in 1..n : Behind(time, c, a) => a \in batch)
  BY <1>1, <1>2, BatchFacts
<1>7. ASSUME next
      PROVE  /\ cur \in Cursor
             /\ \A a \in DOMAIN time : Behind(time, cur, a) => Behind(time, c, a)
             /\ \A a \in batch : ~Behind(time, cur, a)
             /\ \A a \in 1..n : Behind(time, c, a) /\ ~Behind(time, cur, a) => a \in batch
  BY <1>1, <1>2, <1>7, BatchFacts
<1>8. (next /\ ~blocked) \/ (~next /\ blocked) \/ (~next /\ ~blocked /\ ~More(time, c, raw, limit))
  BY DEF HasNext, Blocked
<1>9. \A a \in Alert : /\ counts[a] = IF a \in batch \cap Attack THEN old.counted[a] + 1 ELSE old.counted[a]
                       /\ old.counted[a] \in Nat
  BY <1>1
<1> HIDE DEF batch, next, blocked, st, counts, cur
<1>10. cur \in Cursor
  BY <1>1, <1>7 DEF cur
<1>11. counts \in [Alert -> Nat]
  BY <1>1 DEF counts
<1>12. st \in SessionState
  BY <1>1, <1>4, <1>5, <1>10, <1>11 DEF SessionState
<1>13. /\ old.known \subseteq DOMAIN time
       /\ \A a \in Alert : old.counted[a] <= 1 /\ (old.counted[a] # 0 => a \in DOMAIN time)
       /\ \A a \in Alert : old.counted[a] # 0 => ~Behind(time, c, a)
       /\ \A a \in old.known \cap Attack : old.counted[a] = IF Behind(time, c, a) THEN 0 ELSE 1
  BY DEF Sound
<1>14. \A a \in Alert : counts[a] <= 1 /\ (counts[a] # 0 => a \in DOMAIN time)
  <2> SUFFICES ASSUME NEW a \in Alert PROVE counts[a] <= 1 /\ (counts[a] # 0 => a \in DOMAIN time)
    OBVIOUS
  <2>1. CASE a \in batch \cap Attack
    <3>1. old.counted[a] = 0 /\ a \in DOMAIN time
      BY <1>3, <1>6, <1>13, <2>1
    <3> QED
      BY <1>9, <2>1, <3>1
  <2>2. CASE a \notin batch \cap Attack
    BY <1>9, <1>13, <2>2
  <2> QED
    BY <2>1, <2>2
<1>15. ASSUME ~blocked, next
       PROVE  /\ \A a \in Alert : counts[a] # 0 => ~Behind(time, cur, a)
              /\ \A a \in old.known \cap Attack : counts[a] = IF Behind(time, cur, a) THEN 0 ELSE 1
  <2>1. ASSUME NEW a \in Alert, counts[a] # 0 PROVE ~Behind(time, cur, a)
    BY <1>7, <1>9, <1>13, <1>14, <1>15, <2>1
  <2>2. ASSUME NEW a \in old.known \cap Attack PROVE counts[a] = IF Behind(time, cur, a) THEN 0 ELSE 1
    <3>1. a \in Alert /\ a \in 1..n /\ a \in DOMAIN time
      BY <1>1, <1>2, <1>3
    <3> QED
      BY <1>6, <1>7, <1>9, <1>13, <1>15, <3>1
  <2> QED
    BY <2>1, <2>2
<1>16. ASSUME ~blocked, ~next PROVE \A a \in old.known \cap Attack : counts[a] = 1
  <2> SUFFICES ASSUME NEW a \in old.known \cap Attack PROVE counts[a] = 1
    OBVIOUS
  <2>1. a \in Alert /\ a \in 1..n
    BY <1>1, <1>2
  <2> QED
    BY <1>6, <1>8, <1>9, <1>13, <1>16, <2>1
<1>17. Sound(time, st)
  <2>1. CASE blocked
    BY <1>4, <1>5, <1>13, <1>14, <2>1 DEF Sound
  <2>2. CASE ~blocked /\ next
    BY <1>4, <1>5, <1>13, <1>14, <1>15, <2>2 DEF Sound
  <2>3. CASE ~blocked /\ ~next
    BY <1>4, <1>5, <1>13, <1>14, <1>16, <2>3 DEF Sound
  <2> QED
    BY <2>1, <2>2, <2>3
<1> QED
  BY <1>5, <1>12, <1>17 DEF st

-----------------------------------------------------------------------------
(* The invariant of the catalogue.                                         *)

\* A session that is being scanned is scanned by one request, and the others wait for it.
OwnerInv ==
    /\ \A s \in Session : sess[s].owner # NoReq =>
           /\ ~sess[s].complete /\ ~sess[s].truncated
           /\ op[sess[s].owner].kind = "scan" /\ op[sess[s].owner].session = s
    /\ \A r \in Req : op[r].kind = "scan" => op[r].session <= opened /\ sess[op[r].session].owner = r
    /\ \A r \in Req : op[r].kind = "wait" => sess[op[r].session].owner # NoReq
    /\ \A s \in Session : sess[s].told => s <= opened

TimeInv == \A a \in DOMAIN time : time[a] <= clock
SoundInv == \A s \in Session : Sound(time, sess[s])
ServedInv == \A r \in Req : op[r].kind = "scan" /\ call[r].stage \in {"answered", "ok"} => Served(r)

CatInv == SessionTypes /\ OpTypes /\ OwnerInv /\ TimeInv /\ SoundInv /\ ServedInv

\* A step that is not about the catalogue, or not about its sessions.
Aside ==
    /\ UNCHANGED catVars
    /\ \A x \in Req : "scan" \in {op[x].kind, op'[x].kind} \/ "wait" \in {op[x].kind, op'[x].kind} =>
           op'[x].kind = op[x].kind /\ op'[x].session = op[x].session
    /\ \A x \in Req : op'[x].kind = "scan" /\ call'[x].stage \in {"answered", "ok"} =>
           op'[x] = op[x] /\ call[x].stage \in {"answered", "ok"}

LEMMA AsideStep == ASSUME CatInv, Aside, OpTypes' PROVE CatInv'
<1>1. UNCHANGED <<clock, time, sess, opened>>
  BY DEF Aside, catVars
<1>2. SessionTypes' /\ TimeInv' /\ SoundInv'
  BY <1>1 DEF CatInv, SessionTypes, TimeInv, SoundInv, Live, Sound
<1>3. OwnerInv'
  <2>0. \A s \in Session : sess[s].owner \in Req \cup {NoReq}
    BY DEF CatInv, SessionTypes, SessionState
  <2>1. \A s \in Session : sess[s].owner # NoReq =>
           /\ ~sess[s].complete /\ ~sess[s].truncated
           /\ op'[sess[s].owner].kind = "scan" /\ op'[sess[s].owner].session = s
    BY <2>0 DEF CatInv, OwnerInv, Aside
  <2>2. \A r \in Req : op'[r].kind = "scan" =>
            op'[r].session <= opened /\ sess[op'[r].session].owner = r
    BY DEF CatInv, OwnerInv, Aside
  <2>3. \A r \in Req : op'[r].kind = "wait" => sess[op'[r].session].owner # NoReq
    BY DEF CatInv, OwnerInv, Aside
  <2>4. \A s \in Session : sess[s].told => s <= opened
    BY DEF CatInv, OwnerInv
  <2> QED
    BY <1>1, <2>1, <2>2, <2>3, <2>4 DEF OwnerInv
<1>4. ServedInv'
  BY <1>1 DEF CatInv, ServedInv, Served, Aside
<1> QED
  BY <1>2, <1>3, <1>4 DEF CatInv

-----------------------------------------------------------------------------
(* Sessions are dropped, and answers told.                                 *)
LEMMA SoundSame ==
    ASSUME NEW h, NEW st, NEW new, Sound(h, st),
           new.known = st.known, new.counted = st.counted, new.cursor = st.cursor,
           new.complete = st.complete, new.truncated = st.truncated
    PROVE  Sound(h, new)
BY DEF Sound

\* What a session is after it has been dropped, or not.
Sleeps(st, new) ==
    /\ new \in SessionState
    /\ new.told = st.told /\ new.owner = st.owner /\ new.rev = st.rev /\ new.cursor = st.cursor
    /\ new.known = st.known /\ new.counted = st.counted
    /\ new.complete = st.complete /\ new.truncated = st.truncated
    /\ (new.live => st.live)

LEMMA SleepFacts ==
    ASSUME NEW st \in SessionState
    PROVE  Sleeps(st, st) /\ Sleeps(st, [st EXCEPT !.live = FALSE]) /\ ~[st EXCEPT !.live = FALSE].live
BY DEF SessionState, Sleeps

LEMMA LiveFacts ==
    ASSUME NEW ss
    PROVE  Live(ss) \in SUBSET Session /\ IsFiniteSet(Live(ss)) /\ Cardinality(Live(ss)) \in Nat
<1>1. IsFiniteSet(Session)
  BY BoundAssumption, FS_Interval DEF Session
<1>2. Live(ss) \in SUBSET Session
  BY DEF Live
<1> QED
  BY <1>1, <1>2, FS_Subset, FS_CardinalityType

LEMMA FewerLive ==
    ASSUME NEW ss, NEW new, Live(new) \subseteq Live(ss)
    PROVE  Cardinality(Live(new)) <= Cardinality(Live(ss))
BY LiveFacts, FS_Subset

LEMMA ExpiredFacts ==
    ASSUME SessionTypes, NEW n \in Nat
    PROVE  /\ Expired(sess, n) \in [Session -> SessionState]
           /\ \A s \in Session : Sleeps(sess[s], Expired(sess, n)[s])
           /\ Cardinality(Live(Expired(sess, n))) <= MaxLive
<1>1. \A s \in Session : Sleeps(sess[s], Expired(sess, n)[s])
  BY SleepFacts DEF Expired, SessionTypes
<1>2. Expired(sess, n) \in [Session -> SessionState]
  BY <1>1 DEF Expired, Sleeps
<1>3. Live(Expired(sess, n)) \subseteq Live(sess)
  BY <1>1 DEF Live, Sleeps
<1> QED
  BY <1>1, <1>2, <1>3, FewerLive, LiveFacts, BoundAssumption DEF SessionTypes

LEMMA EvictedFacts ==
    ASSUME NEW ss \in [Session -> SessionState], Cardinality(Live(ss)) <= MaxLive
    PROVE  /\ Evicted(ss) \in [Session -> SessionState]
           /\ \A s \in Session : Sleeps(ss[s], Evicted(ss)[s])
           /\ Cardinality(Live(Evicted(ss))) < MaxLive
<1>1. CASE Cardinality(Live(ss)) < MaxLive
  BY <1>1, SleepFacts DEF Evicted
<1>2. CASE ~(Cardinality(Live(ss)) < MaxLive)
  <2> DEFINE old == CHOOSE s \in Live(ss) : \A x \in Live(ss) : s <= x
             new == [ss EXCEPT ![old].live = FALSE]
  <2>1. Cardinality(Live(ss)) = MaxLive /\ Live(ss) # {}
    BY <1>2, LiveFacts, BoundAssumption, FS_EmptySet
  <2>2. old \in Live(ss)
    <3> DEFINE R == {p \in Live(ss) \X Live(ss) : p[1] < p[2]}
    <3>0. Live(ss) \subseteq Nat
      BY LiveFacts DEF Session
    <3>1. \A x, y \in Live(ss) : <<x, y>> \in R <=> x < y
      OBVIOUS
    <3> HIDE DEF R
    <3>2. (\A x \in Live(ss) : <<x, x>> \notin R)
          /\ (\A x, y, z \in Live(ss) : <<x, y>> \in R /\ <<y, z>> \in R => <<x, z>> \in R)
      BY <3>0, <3>1
    <3>3. PICK s \in Live(ss) : \A x \in Live(ss) : <<x, s>> \notin R
      BY <2>1, <3>2, LiveFacts, MinimalElement
    <3>4. \A x \in Live(ss) : ~(x < s)
      BY <3>1, <3>3
    <3>5. \A x \in Live(ss) : s <= x
      BY <3>0, <3>4
    <3> QED
      BY <3>5
  <2>3. Evicted(ss) = new
    BY <1>2 DEF Evicted
  <2> HIDE DEF old
  <2>4. old \in Session
    BY <2>2 DEF Live
  <2>5. \A s \in Session : new[s] = IF s = old THEN [ss[s] EXCEPT !.live = FALSE] ELSE ss[s]
    BY <2>4
  <2>6. new \in [Session -> SessionState] /\ \A s \in Session : Sleeps(ss[s], new[s])
    BY <2>4, <2>5, SleepFacts DEF Sleeps
  <2>7. Live(new) = Live(ss) \ {old}
    BY <2>2, <2>4, <2>5, SleepFacts DEF Live
  <2> HIDE DEF new
  <2>8. Cardinality(Live(new)) = Cardinality(Live(ss)) - 1
    BY <2>2, <2>7, LiveFacts, FS_RemoveElement
  <2> QED
    BY <2>1, <2>3, <2>6, <2>8, BoundAssumption
<1> QED
  BY <1>1, <1>2

LEMMA ReplyTypes ==
    /\ NoReply \in Reply /\ [NoReply EXCEPT !.status = "error"] \in Reply
    /\ [NoReply EXCEPT !.status = "expired"] \in Reply
    /\ \A s \in Session, st \in SessionState : Tell(s, st) \in Reply
<1>1. NoReply \in Reply
  BY BoundAssumption DEF NoReply, Reply, Session
<1> QED
  BY <1>1 DEF Reply, Tell, SessionState

LEMMA OpKinds ==
    /\ Idle \in Op /\ Idle.kind = "idle"
    /\ \A s \in Session : /\ ScanOf(s) \in Op /\ ScanOf(s).kind = "scan" /\ ScanOf(s).session = s
                          /\ ScanOf(s).batch = 0 /\ ScanOf(s).limit = Limit /\ ScanOf(s).raw = {}
                          /\ [Idle EXCEPT !.kind = "wait", !.session = s] \in Op
<1>1. Idle \in Op
  BY BoundAssumption DEF Idle, Op, Session
<1> QED
  BY <1>1 DEF Idle, ScanOf, Op

-----------------------------------------------------------------------------
(* The steps of the catalogue.                                             *)
LEMMA ServedSame ==
    ASSUME NEW x \in Req, op'[x] = op[x], time' = time, Served(x),
           sess'[op[x].session].known = sess[op[x].session].known,
           sess'[op[x].session].cursor = sess[op[x].session].cursor
    PROVE  Served(x)'
BY DEF Served

LEMMA BegunStage == \A r \in Req : Begun(r).stage = "login" /\ Quiet.stage = "off"
BY DEF Begun, Quiet

LEMMA OpenedFacts ==
    ASSUME SessionTypes, TimeInv, NEW r \in Req
    PROVE  /\ Opened(r) \in SessionState /\ Opened(r).owner = r
           /\ ~Opened(r).complete /\ ~Opened(r).truncated /\ Sound(time, Opened(r))
<1>0. time \in Seq(Nat) /\ clock \in Nat /\ Len(time) <= MaxAlerts /\ MaxAlerts \in Nat
  BY BoundAssumption DEF SessionTypes
<1> DEFINE c == [before |-> clock, id |-> MaxAlerts + 1, step |-> 0]
<1>1. /\ Opened(r).live = TRUE /\ Opened(r).told = FALSE /\ Opened(r).owner = r /\ Opened(r).rev = 0
      /\ Opened(r).cursor = c /\ Opened(r).known = DOMAIN time
      /\ Opened(r).counted = [a \in Alert |-> 0] /\ Opened(r).complete = FALSE /\ Opened(r).truncated = FALSE
      /\ Opened(r) = [live |-> TRUE, told |-> FALSE, owner |-> r, rev |-> 0, cursor |-> c, known |-> DOMAIN time,
                      counted |-> [a \in Alert |-> 0], complete |-> FALSE, truncated |-> FALSE]
  <2> DEFINE zero == [a \in Alert |-> 0]
             first == [before |-> 0, id |-> 0, step |-> 0]
  <2>1. Opened(r) = [NoSession EXCEPT !.live = TRUE, !.owner = r, !.known = DOMAIN time, !.cursor = c]
    BY DEF Opened
  <2>2. NoSession = [live |-> FALSE, told |-> FALSE, owner |-> NoReq, rev |-> 0, cursor |-> first, known |-> {},
                     counted |-> zero, complete |-> FALSE, truncated |-> FALSE]
    BY DEF NoSession
  <2> HIDE DEF c, zero, first
  <2>3. Opened(r) = [live |-> TRUE, told |-> FALSE, owner |-> r, rev |-> 0, cursor |-> c, known |-> DOMAIN time,
                     counted |-> zero, complete |-> FALSE, truncated |-> FALSE]
    BY <2>1, <2>2
  <2> QED
    BY <2>3 DEF zero
<1>2. c \in Cursor
  BY <1>0 DEF Cursor
<1>3. DOMAIN time \subseteq Alert
  BY <1>0, AlertTypes DEF Alert
<1>4. \A a \in DOMAIN time : Behind(time, c, a)
  <2> SUFFICES ASSUME NEW a \in DOMAIN time PROVE Behind(time, c, a)
    OBVIOUS
  <2>1. a \in Nat /\ a <= MaxAlerts /\ time[a] \in Nat /\ time[a] <= clock
    BY <1>0, AlertTypes DEF TimeInv
  <2> QED
    BY <1>0, <2>1 DEF Behind
<1> HIDE DEF c
<1>5. Opened(r) \in SessionState
  BY <1>1, <1>2, <1>3 DEF SessionState
<1>6. Sound(time, Opened(r))
  BY <1>1, <1>3, <1>4 DEF Sound
<1> QED
  BY <1>1, <1>5, <1>6

LEMMA SessionIsNat == SessionTypes => opened \in Nat
BY BoundAssumption DEF SessionTypes

LEMMA OpenStep == ASSUME LapiTypes, CatInv, NEW r \in Req, NEW n \in 0..opened, Open(r, n) PROVE CatInv'
<1> DEFINE t == opened + 1
           E == Evicted(Expired(sess, n))
<1>0. SessionTypes /\ OpTypes /\ OwnerInv /\ TimeInv /\ SoundInv /\ ServedInv
  BY DEF CatInv
<1>1. /\ op[r].kind = "idle" /\ t \in Session /\ t \in 0..MaxSessions /\ opened' = t
      /\ UNCHANGED <<clock, time, reply>>
  BY <1>0, BoundAssumption DEF Open, SessionTypes, Session
<1>2. sess' = [E EXCEPT ![t] = Opened(r)]
  BY DEF Open
<1>3. op' = [op EXCEPT ![r] = ScanOf(t)]
  BY DEF Open
<1>4. call' = [call EXCEPT ![r] = Begun(r)]
  BY DEF Open, Start
<1>5. /\ E \in [Session -> SessionState] /\ Cardinality(Live(E)) < MaxLive
      /\ \A s \in Session : Sleeps(sess[s], E[s])
  <2>1. n \in Nat
    BY <1>0, BoundAssumption DEF SessionTypes
  <2>2. /\ Expired(sess, n) \in [Session -> SessionState]
        /\ \A s \in Session : Sleeps(sess[s], Expired(sess, n)[s])
        /\ Cardinality(Live(Expired(sess, n))) <= MaxLive
    BY <1>0, <2>1, ExpiredFacts
  <2>3. /\ E \in [Session -> SessionState] /\ Cardinality(Live(E)) < MaxLive
        /\ \A s \in Session : Sleeps(Expired(sess, n)[s], E[s])
    BY <2>2, EvictedFacts
  <2> QED
    BY <2>2, <2>3 DEF Sleeps
<1> HIDE DEF E
<1>6. /\ Opened(r) \in SessionState /\ Opened(r).owner = r
      /\ ~Opened(r).complete /\ ~Opened(r).truncated /\ Sound(time, Opened(r))
  BY <1>0, OpenedFacts
<1> HIDE DEF t
<1>7. /\ sess' \in [Session -> SessionState] /\ sess'[t] = Opened(r)
      /\ \A s \in Session \ {t} : sess'[s] = E[s] /\ Sleeps(sess[s], sess'[s])
  BY <1>1, <1>2, <1>5, <1>6
<1>8. /\ op' \in [Req -> Op] /\ op'[r].kind = "scan" /\ op'[r].session = t
      /\ \A x \in Req \ {r} : op'[x] = op[x]
  BY <1>0, <1>1, <1>3, OpKinds DEF OpTypes
<1>9. call'[r].stage = "login" /\ \A x \in Req \ {r} : call'[x] = call[x]
  BY <1>4, BegunStage DEF LapiTypes
<1>10. SessionTypes'
  <2>1. Live(sess') \in SUBSET (Live(E) \cup {t})
    BY <1>7 DEF Live
  <2>2. Cardinality(Live(E) \cup {t}) = IF t \in Live(E) THEN Cardinality(Live(E)) ELSE Cardinality(Live(E)) + 1
    BY LiveFacts, FS_AddElement
  <2>3. IsFiniteSet(Live(E) \cup {t})
    BY LiveFacts, FS_AddElement
  <2>4. Cardinality(Live(sess')) <= Cardinality(Live(E) \cup {t})
    BY <2>1, <2>3, FS_Subset
  <2>5. Cardinality(Live(E)) \in Nat /\ Cardinality(Live(sess')) \in Nat
    BY LiveFacts
  <2>6. Cardinality(Live(sess')) <= MaxLive
    BY <1>5, <2>2, <2>4, <2>5, BoundAssumption
  <2>7. Cardinality(Live(sess)') <= MaxLive
    BY <2>6 DEF Live
  <2> QED
    BY <1>0, <1>1, <1>7, <2>7 DEF SessionTypes
<1>11. OpTypes' /\ TimeInv'
  BY <1>0, <1>1, <1>8 DEF OpTypes, TimeInv
<1>12. OwnerInv'
  <2>0. \A x \in Req : op[x] \in Op /\ op[x].session \in Session
    BY <1>0, OpFacts DEF OpTypes
  <2>1. ASSUME NEW s \in Session, sess'[s].owner # NoReq
        PROVE  /\ ~sess'[s].complete /\ ~sess'[s].truncated
               /\ op'[sess'[s].owner].kind = "scan" /\ op'[sess'[s].owner].session = s
    <3>1. CASE s = t
      BY <1>6, <1>7, <1>8, <3>1
    <3>2. CASE s # t
      <4>1. sess'[s].owner = sess[s].owner /\ sess[s].owner \in Req /\ sess[s].owner # r
            /\ op[sess[s].owner].kind = "scan" /\ op[sess[s].owner].session = s
            /\ ~sess'[s].complete /\ ~sess'[s].truncated
        <5>1. sess[s].owner \in Req \cup {NoReq}
          BY <1>0 DEF SessionTypes, SessionState
        <5> QED
          BY <1>0, <1>1, <1>7, <2>1, <3>2, <5>1 DEF OwnerInv, Sleeps
      <4> QED
        BY <1>8, <4>1
    <3> QED
      BY <3>1, <3>2
  <2>2. ASSUME NEW x \in Req, op'[x].kind = "scan"
        PROVE  op'[x].session <= t /\ sess'[op'[x].session].owner = x
    <3>1. CASE x = r
      BY <1>0, <1>1, <1>6, <1>7, <1>8, <3>1 DEF SessionTypes
    <3>2. CASE x # r
      <4>1. op'[x] = op[x] /\ op[x].session <= opened /\ sess[op[x].session].owner = x /\ op[x].session \in Session
        BY <1>0, <1>8, <2>0, <2>2, <3>2 DEF OwnerInv
      <4>2. op[x].session # t /\ op[x].session <= t
        BY <1>0, <4>1 DEF t, Session, SessionTypes
      <4> QED
        BY <1>7, <4>1, <4>2 DEF Sleeps
    <3> QED
      BY <3>1, <3>2
  <2>3. ASSUME NEW x \in Req, op'[x].kind = "wait" PROVE sess'[op'[x].session].owner # NoReq
    <3>1. op'[x] = op[x] /\ sess[op[x].session].owner # NoReq /\ op[x].session \in Session
      BY <1>0, <1>8, <2>0, <2>3 DEF OwnerInv
    <3>2. CASE op[x].session = t
      BY <1>6, <1>7, <3>1, <3>2, ReqAssumption
    <3>3. CASE op[x].session # t
      BY <1>7, <3>1, <3>3 DEF Sleeps
    <3> QED
      BY <3>2, <3>3
  <2>4. ASSUME NEW s \in Session, sess'[s].told PROVE s <= t
    <3>1. CASE s = t
      BY <1>0, <3>1 DEF t, SessionTypes
    <3>2. CASE s # t
      <4>1. s <= opened
        BY <1>0, <1>7, <2>4, <3>2 DEF OwnerInv, Sleeps
      <4> QED
        BY <1>0, <4>1, SessionIsNat DEF t, Session
    <3> QED
      BY <3>1, <3>2
  <2> QED
    BY <1>1, <2>1, <2>2, <2>3, <2>4 DEF OwnerInv
<1>13. SoundInv'
  <2> SUFFICES ASSUME NEW s \in Session PROVE Sound(time, sess'[s])
    BY <1>1 DEF SoundInv
  <2>1. CASE s = t
    BY <1>6, <1>7, <2>1
  <2>2. CASE s # t
    <3>1. Sound(time, sess[s]) /\ Sleeps(sess[s], sess'[s])
      BY <1>0, <1>7, <2>2 DEF SoundInv
    <3> QED
      BY <3>1, SoundSame DEF Sleeps
  <2> QED
    BY <2>1, <2>2
<1>14. ServedInv'
  <2> SUFFICES ASSUME NEW x \in Req, op'[x].kind = "scan", call'[x].stage \in {"answered", "ok"} PROVE Served(x)'
    BY DEF ServedInv
  <2>1. x # r /\ op'[x] = op[x] /\ call'[x] = call[x]
    BY <1>8, <1>9
  <2>2. Served(x) /\ op[x].session \in Session /\ op[x].session <= opened
    BY <1>0, <2>1, OpFacts DEF ServedInv, OpTypes, OwnerInv
  <2>3. op[x].session # t
    BY <1>0, <2>2 DEF t, Session, SessionTypes
  <2>4. Sleeps(sess[op[x].session], sess'[op[x].session])
    BY <1>7, <2>2, <2>3
  <2> QED
    BY <1>1, <2>1, <2>2, <2>4, ServedSame DEF Sleeps
<1> QED
  BY <1>10, <1>11, <1>12, <1>13, <1>14 DEF CatInv

LEMMA AdvanceStep ==
    ASSUME LapiTypes, CatInv, NEW r \in Req, NEW s \in Session, NEW adv, NEW n \in 0..opened,
           Advance(r, s, adv, n)
    PROVE  CatInv'
<1> DEFINE E == Expired(sess, n)
<1>0. SessionTypes /\ OpTypes /\ OwnerInv /\ TimeInv /\ SoundInv /\ ServedInv
  BY DEF CatInv
<1>1. /\ op[r].kind = "idle" /\ sess[s].told /\ sess[s].live /\ s > n
      /\ sess[s].owner = NoReq /\ ~sess[s].complete /\ ~sess[s].truncated
      /\ UNCHANGED <<clock, time, opened, reply>>
  BY DEF Advance, MayAdvance
<1>2. sess' = [E EXCEPT ![s].owner = r]
  BY DEF Advance
<1>3. op' = [op EXCEPT ![r] = ScanOf(s)]
  BY DEF Advance
<1>4. call' = [call EXCEPT ![r] = Begun(r)]
  BY DEF Advance, Start
<1>5. /\ E \in [Session -> SessionState] /\ Cardinality(Live(E)) <= MaxLive
      /\ \A x \in Session : Sleeps(sess[x], E[x])
  BY <1>0, SessionIsNat, ExpiredFacts
<1> HIDE DEF E
<1>6. /\ sess' \in [Session -> SessionState] /\ sess'[s] = [E[s] EXCEPT !.owner = r]
      /\ \A x \in Session \ {s} : sess'[x] = E[x] /\ Sleeps(sess[x], sess'[x])
  <2>1. [E[s] EXCEPT !.owner = r] \in SessionState
    BY <1>5 DEF SessionState
  <2> QED
    BY <1>2, <1>5, <2>1
<1>7. /\ sess'[s].owner = r /\ sess'[s].known = sess[s].known /\ sess'[s].counted = sess[s].counted
      /\ sess'[s].cursor = sess[s].cursor /\ ~sess'[s].complete /\ ~sess'[s].truncated
      /\ sess'[s].complete = sess[s].complete /\ sess'[s].truncated = sess[s].truncated
  <2>1. E[s] \in SessionState /\ Sleeps(sess[s], E[s])
    BY <1>5
  <2> QED
    BY <1>1, <1>6, <2>1 DEF SessionState, Sleeps
<1>8. /\ op' \in [Req -> Op] /\ op'[r].kind = "scan" /\ op'[r].session = s
      /\ \A x \in Req \ {r} : op'[x] = op[x]
  BY <1>0, <1>3, OpKinds DEF OpTypes
<1>9. call'[r].stage = "login" /\ \A x \in Req \ {r} : call'[x] = call[x]
  BY <1>4, BegunStage DEF LapiTypes
<1>10. SessionTypes'
  <2>1. Live(sess') = Live(E)
    <3>1. \A x \in Session : sess'[x].live = E[x].live
      BY <1>5, <1>6 DEF SessionState
    <3> QED
      BY <3>1 DEF Live
  <2>2. Cardinality(Live(sess)') <= MaxLive
    BY <1>5, <2>1 DEF Live
  <2> QED
    BY <1>0, <1>1, <1>6, <2>2 DEF SessionTypes
<1>11. OpTypes' /\ TimeInv'
  BY <1>0, <1>1, <1>8 DEF OpTypes, TimeInv
<1>a. \A x \in Req : op[x] \in Op /\ op[x].session \in Session
  BY <1>0, OpFacts DEF OpTypes
<1>b. \A x \in Req : op[x].kind = "scan" => op[x].session # s
  BY <1>0, <1>1, ReqAssumption DEF OwnerInv
<1>12. OwnerInv'
  <2>1. ASSUME NEW x \in Session, sess'[x].owner # NoReq
        PROVE  /\ ~sess'[x].complete /\ ~sess'[x].truncated
               /\ op'[sess'[x].owner].kind = "scan" /\ op'[sess'[x].owner].session = x
    <3>1. CASE x = s
      BY <1>7, <1>8, <3>1
    <3>2. CASE x # s
      <4>1. sess'[x].owner = sess[x].owner /\ sess[x].owner \in Req /\ sess[x].owner # r
            /\ op[sess[x].owner].kind = "scan" /\ op[sess[x].owner].session = x
            /\ ~sess'[x].complete /\ ~sess'[x].truncated
        <5>1. sess[x].owner \in Req \cup {NoReq}
          BY <1>0 DEF SessionTypes, SessionState
        <5> QED
          BY <1>0, <1>1, <1>6, <2>1, <3>2, <5>1 DEF OwnerInv, Sleeps
      <4> QED
        BY <1>8, <4>1
    <3> QED
      BY <3>1, <3>2
  <2>2. ASSUME NEW x \in Req, op'[x].kind = "scan"
        PROVE  op'[x].session <= opened /\ sess'[op'[x].session].owner = x
    <3>1. CASE x = r
      <4>1. s <= opened
        BY <1>0, <1>1 DEF OwnerInv
      <4> QED
        BY <1>7, <1>8, <3>1, <4>1
    <3>2. CASE x # r
      BY <1>0, <1>6, <1>8, <1>a, <1>b, <2>2, <3>2 DEF OwnerInv, Sleeps
    <3> QED
      BY <3>1, <3>2
  <2>3. ASSUME NEW x \in Req, op'[x].kind = "wait" PROVE sess'[op'[x].session].owner # NoReq
    <3>1. op'[x] = op[x] /\ sess[op[x].session].owner # NoReq /\ op[x].session \in Session
      BY <1>0, <1>8, <1>a, <2>3 DEF OwnerInv
    <3> QED
      BY <1>1, <1>6, <3>1 DEF Sleeps
  <2>4. ASSUME NEW x \in Session, sess'[x].told PROVE x <= opened
    BY <1>0, <1>1, <1>6, <2>4 DEF OwnerInv, Sleeps
  <2> QED
    BY <1>1, <2>1, <2>2, <2>3, <2>4 DEF OwnerInv
<1>13. SoundInv'
  <2> SUFFICES ASSUME NEW x \in Session PROVE Sound(time, sess'[x])
    BY <1>1 DEF SoundInv
  <2>1. Sound(time, sess[x])
    BY <1>0 DEF SoundInv
  <2>2. CASE x = s
    BY <1>7, <2>1, <2>2, SoundSame
  <2>3. CASE x # s
    <3>1. Sleeps(sess[x], sess'[x])
      BY <1>6, <2>3
    <3> QED
      BY <2>1, <3>1, SoundSame DEF Sleeps
  <2> QED
    BY <2>2, <2>3
<1>14. ServedInv'
  <2> SUFFICES ASSUME NEW x \in Req, op'[x].kind = "scan", call'[x].stage \in {"answered", "ok"} PROVE Served(x)'
    BY DEF ServedInv
  <2>1. x # r /\ op'[x] = op[x] /\ call'[x] = call[x]
    BY <1>8, <1>9
  <2>2. Served(x)
    BY <1>0, <2>1 DEF ServedInv
  <2>3. Sleeps(sess[op[x].session], sess'[op[x].session])
    BY <1>6, <1>a, <1>b, <2>1
  <2> QED
    BY <1>1, <2>1, <2>2, <2>3, ServedSame DEF Sleeps
<1> QED
  BY <1>10, <1>11, <1>12, <1>13, <1>14 DEF CatInv

\* Old sessions are dropped, and a request waits for a scan or is answered at once.
LEMMA WaitStep ==
    ASSUME LapiTypes, CatInv, NEW r \in Req, NEW n \in 0..opened, sess' = Expired(sess, n),
           UNCHANGED <<clock, time, opened, call>>,
           op[r].kind = "idle", op' \in [Req -> Op], \A x \in Req \ {r} : op'[x] = op[x],
           op'[r].kind = "idle" \/ (op'[r].kind = "wait" /\ sess[op'[r].session].owner # NoReq),
           reply' \in [Req -> Reply]
    PROVE  CatInv'
<1>0. SessionTypes /\ OpTypes /\ OwnerInv /\ TimeInv /\ SoundInv /\ ServedInv
  BY DEF CatInv
<1>1. /\ sess' \in [Session -> SessionState] /\ Cardinality(Live(sess')) <= MaxLive
      /\ \A x \in Session : Sleeps(sess[x], sess'[x])
  BY <1>0, SessionIsNat, ExpiredFacts
<1>2. \A x \in Req : op[x].session \in Session /\ op'[x].session \in Session
  BY <1>0, OpFacts DEF OpTypes, Op
<1>3. SessionTypes'
  <2>1. Cardinality(Live(sess)') <= MaxLive
    BY <1>1 DEF Live
  <2> QED
    BY <1>0, <1>1, <2>1 DEF SessionTypes
<1>4. OpTypes' /\ TimeInv'
  BY <1>0 DEF OpTypes, TimeInv
<1>5. OwnerInv'
  <2>1. ASSUME NEW x \in Session, sess'[x].owner # NoReq
        PROVE  /\ ~sess'[x].complete /\ ~sess'[x].truncated
               /\ op'[sess'[x].owner].kind = "scan" /\ op'[sess'[x].owner].session = x
    <3>1. sess[x].owner \in Req \cup {NoReq}
      BY <1>0 DEF SessionTypes, SessionState
    <3>2. sess'[x].owner = sess[x].owner /\ sess[x].owner \in Req /\ sess[x].owner # r
          /\ op[sess[x].owner].kind = "scan" /\ op[sess[x].owner].session = x
          /\ ~sess'[x].complete /\ ~sess'[x].truncated
      BY <1>0, <1>1, <2>1, <3>1 DEF OwnerInv, Sleeps
    <3> QED
      BY <3>2
  <2>2. ASSUME NEW x \in Req, op'[x].kind = "scan"
        PROVE  op'[x].session <= opened /\ sess'[op'[x].session].owner = x
    <3>1. x # r /\ op'[x] = op[x]
      BY <2>2
    <3> QED
      BY <1>0, <1>1, <1>2, <2>2, <3>1 DEF OwnerInv, Sleeps
  <2>3. ASSUME NEW x \in Req, op'[x].kind = "wait" PROVE sess'[op'[x].session].owner # NoReq
    BY <1>0, <1>1, <1>2, <2>3 DEF OwnerInv, Sleeps
  <2>4. ASSUME NEW x \in Session, sess'[x].told PROVE x <= opened
    BY <1>0, <1>1, <2>4 DEF OwnerInv, Sleeps
  <2> QED
    BY <2>1, <2>2, <2>3, <2>4 DEF OwnerInv
<1>6. SoundInv'
  <2> SUFFICES ASSUME NEW x \in Session PROVE Sound(time, sess'[x])
    BY DEF SoundInv
  <2>1. Sound(time, sess[x]) /\ Sleeps(sess[x], sess'[x])
    BY <1>0, <1>1 DEF SoundInv
  <2> QED
    BY <2>1, SoundSame DEF Sleeps
<1>7. ServedInv'
  <2> SUFFICES ASSUME NEW x \in Req, op'[x].kind = "scan", call[x].stage \in {"answered", "ok"} PROVE Served(x)'
    BY DEF ServedInv
  <2>1. op'[x] = op[x] /\ Served(x) /\ Sleeps(sess[op[x].session], sess'[op[x].session])
    BY <1>0, <1>1, <1>2 DEF ServedInv
  <2> QED
    BY <2>1, ServedSame DEF Sleeps
<1> QED
  BY <1>3, <1>4, <1>5, <1>6, <1>7 DEF CatInv

LEMMA JoinStep ==
    ASSUME LapiTypes, CatInv, NEW r \in Req, NEW s \in Session, NEW adv, NEW n \in 0..opened, Join(r, s, adv, n)
    PROVE  CatInv'
<1>0. OpTypes /\ SessionTypes
  BY DEF CatInv
<1>1. op[r].kind = "idle" /\ sess' = Expired(sess, n) /\ UNCHANGED <<clock, time, opened, call>>
  BY DEF Join
<1>2. CASE sess[s].owner = NoReq
  <2>1. op' = op /\ reply' = [reply EXCEPT ![r] = Tell(s, sess[s])]
    BY <1>2 DEF Join
  <2>2. Tell(s, sess[s]) \in Reply
    BY <1>0, ReplyTypes DEF SessionTypes
  <2>3. reply' \in [Req -> Reply] /\ op' \in [Req -> Op]
    BY <1>0, <2>1, <2>2 DEF OpTypes
  <2> QED
    BY <1>1, <2>1, <2>3, WaitStep
<1>3. CASE sess[s].owner # NoReq
  <2> DEFINE wait == [Idle EXCEPT !.kind = "wait", !.session = s]
  <2>1. op' = [op EXCEPT ![r] = wait] /\ reply' = reply
    BY <1>3 DEF Join
  <2>2. wait \in Op /\ wait.kind = "wait" /\ wait.session = s
    BY OpKinds DEF Idle, Op
  <2> HIDE DEF wait
  <2>3. /\ op' \in [Req -> Op] /\ op'[r].kind = "wait" /\ op'[r].session = s
        /\ \A x \in Req \ {r} : op'[x] = op[x]
    BY <1>0, <2>1, <2>2 DEF OpTypes
  <2>4. reply' \in [Req -> Reply]
    BY <1>0, <2>1 DEF OpTypes
  <2> QED
    BY <1>1, <1>3, <2>3, <2>4, WaitStep
<1> QED
  BY <1>2, <1>3

LEMMA ExpireStep ==
    ASSUME LapiTypes, CatInv, NEW r \in Req, NEW s \in Session, NEW n \in 0..opened, Expire(r, s, n)
    PROVE  CatInv'
<1>0. OpTypes
  BY DEF CatInv
<1>1. /\ op[r].kind = "idle" /\ sess' = Expired(sess, n) /\ UNCHANGED <<clock, time, opened, call, op>>
      /\ reply' = [reply EXCEPT ![r] = [NoReply EXCEPT !.status = "expired"]]
  BY DEF Expire
<1>2. reply' \in [Req -> Reply] /\ op' \in [Req -> Op]
  BY <1>0, <1>1, ReplyTypes DEF OpTypes
<1> QED
  BY <1>1, <1>2, WaitStep

\* What CrowdSec answers comes from the alerts it has now.
LEMMA ServeScanStep == ASSUME LapiTypes, CatInv, NEW r \in Req, ServeScan(r) PROVE CatInv'
<1> DEFINE c == sess[op[r].session].cursor
           raw == Answer(time, c, op[r].limit)
<1>0. SessionTypes /\ OpTypes /\ OwnerInv /\ TimeInv /\ SoundInv /\ ServedInv
  BY DEF CatInv
<1>1. op[r].kind = "scan" /\ UNCHANGED catVars /\ UNCHANGED reply
  BY DEF ServeScan
<1>2. op' = [op EXCEPT ![r].raw = raw]
  BY DEF ServeScan
<1>3. call' = [call EXCEPT ![r].stage = "answered"]
  BY DEF ServeScan, Serve, To
<1>4. /\ op[r] \in Op /\ op[r].session \in Session /\ op[r].limit \in Nat \ {0} /\ time \in Seq(Nat)
      /\ sess[op[r].session] \in SessionState /\ c \in Cursor /\ Len(time) <= MaxAlerts /\ MaxAlerts \in Nat
  BY <1>0, OpFacts, BoundAssumption DEF OpTypes, SessionTypes, SessionState
<1>5. raw = AnswerTo(time, Len(time), c, op[r].limit) /\ sess[op[r].session].known \subseteq 1..Len(time)
  <2>1. DOMAIN time = 1..Len(time)
    BY <1>4
  <2> QED
    BY <1>0, <1>4, <2>1 DEF Answer, AnswerTo, SoundInv, Sound
<1>6. raw \subseteq Alert
  <2> DEFINE S == {a \in DOMAIN time : time[a] <= c.before + Overlap}
  <2>1. S \in SUBSET DOMAIN time /\ raw = Newest(time, S, op[r].limit)
    BY DEF Answer
  <2>2. DOMAIN time \subseteq Alert
    BY <1>4, AlertTypes DEF Alert
  <2> HIDE DEF S, raw
  <2>3. Newest(time, S, op[r].limit) \subseteq S
    BY <1>4, <2>1, NewestFacts
  <2> QED
    BY <2>1, <2>2, <2>3
<1> HIDE DEF raw
<1>7. op' \in [Req -> Op] /\ \A x \in Req \ {r} : op'[x] = op[x]
  BY <1>0, <1>2, <1>4, <1>6 DEF OpTypes, Op
<1>8. /\ op'[r].kind = "scan" /\ op'[r].session = op[r].session /\ op'[r].limit = op[r].limit /\ op'[r].raw = raw
  BY <1>0, <1>1, <1>2, <1>4 DEF OpTypes, Op
<1>9. /\ UNCHANGED <<clock, time, sess, opened>> /\ \A x \in Req \ {r} : call'[x] = call[x]
  BY <1>1, <1>3 DEF catVars, LapiTypes
<1>10. SessionTypes' /\ TimeInv' /\ SoundInv' /\ OpTypes'
  BY <1>0, <1>1, <1>7, <1>9 DEF SessionTypes, TimeInv, SoundInv, Live, Sound, OpTypes
<1>11. OwnerInv'
  <2>0. \A s \in Session : sess[s].owner \in Req \cup {NoReq}
    BY <1>0 DEF SessionTypes, SessionState
  <2>1. \A x \in Req : op'[x].kind = op[x].kind /\ op'[x].session = op[x].session
    BY <1>1, <1>7, <1>8
  <2> QED
    BY <1>0, <1>9, <2>0, <2>1 DEF OwnerInv
<1>12. ServedInv'
  <2> SUFFICES ASSUME NEW x \in Req, op'[x].kind = "scan", call'[x].stage \in {"answered", "ok"} PROVE Served(x)'
    BY DEF ServedInv
  <2>1. CASE x = r
    <3>1. Len(time) \in 0..Len(time)
      BY <1>4
    <3> QED
      BY <1>5, <1>8, <1>9, <2>1, <3>1 DEF Served
  <2>2. CASE x # r
    <3>1. op'[x] = op[x] /\ Served(x)
      BY <1>0, <1>7, <1>9, <2>2 DEF ServedInv
    <3> QED
      BY <1>9, <3>1, ServedSame
  <2> QED
    BY <2>1, <2>2
<1> QED
  BY <1>10, <1>11, <1>12 DEF CatInv

\* The scanned session of a request, and what else scans or waits for it.
LEMMA ScanningFacts ==
    ASSUME CatInv, NEW r \in Req, op[r].kind = "scan"
    PROVE  LET s == op[r].session
           IN  /\ s \in Session /\ s <= opened /\ sess[s] \in SessionState /\ sess[s].owner = r
               /\ ~sess[s].complete /\ ~sess[s].truncated /\ Sound(time, sess[s])
               /\ \A x \in Req \ {r} : op[x].kind = "scan" => op[x].session # s
               /\ \A x \in Session \ {s} : sess[x].owner # r
<1> DEFINE s == op[r].session
<1>0. SessionTypes /\ OpTypes /\ OwnerInv /\ SoundInv
  BY DEF CatInv
<1>1. s \in Session /\ sess[s] \in SessionState
  BY <1>0, OpFacts DEF OpTypes, SessionTypes
<1>2. s <= opened /\ sess[s].owner = r
  BY <1>0 DEF OwnerInv
<1>3. ~sess[s].complete /\ ~sess[s].truncated
  BY <1>0, <1>1, <1>2, ReqAssumption DEF OwnerInv
<1>4. \A x \in Req \ {r} : op[x].kind = "scan" => op[x].session # s
  BY <1>0, <1>2 DEF OwnerInv
<1>5. \A x \in Session \ {s} : sess[x].owner # r
  BY <1>0, ReqAssumption DEF OwnerInv
<1> QED
  BY <1>0, <1>1, <1>2, <1>3, <1>4, <1>5 DEF SoundInv

\* One session changes, not whether it is kept.
LEMMA OneSession ==
    ASSUME SessionTypes, SoundInv, NEW s \in Session, NEW new \in SessionState,
           sess' = [sess EXCEPT ![s] = new], new.live = sess[s].live, Sound(time, new),
           UNCHANGED <<clock, time, opened>>
    PROVE  /\ SessionTypes' /\ SoundInv' /\ sess'[s] = new
           /\ \A x \in Session \ {s} : sess'[x] = sess[x]
<1>1. /\ sess' \in [Session -> SessionState] /\ sess'[s] = new
      /\ \A x \in Session \ {s} : sess'[x] = sess[x]
  BY DEF SessionTypes
<1>2. Live(sess)' = Live(sess)
  <2>1. \A x \in Session : sess'[x].live = sess[x].live
    BY <1>1
  <2> QED
    BY <2>1 DEF Live
<1>3. SessionTypes'
  BY <1>1, <1>2 DEF SessionTypes
<1>4. SoundInv'
  BY <1>1 DEF SoundInv
<1> QED
  BY <1>1, <1>3, <1>4

LEMMA ReleaseStep ==
    ASSUME LapiTypes, CatInv, NEW r \in Req, op[r].kind = "scan", NEW new \in SessionState,
           sess' = [sess EXCEPT ![op[r].session] = new], new.owner = NoReq,
           new.live = sess[op[r].session].live, Sound(time, new),
           op' = Release(r, op[r].session), call' = [call EXCEPT ![r] = Quiet],
           reply' \in [Req -> Reply], UNCHANGED <<clock, time, opened>>
    PROVE  CatInv'
<1> DEFINE s == op[r].session
<1>0. SessionTypes /\ OpTypes /\ OwnerInv /\ TimeInv /\ SoundInv /\ ServedInv
  BY DEF CatInv
<1>1. /\ s \in Session /\ s <= opened /\ sess[s].owner = r
      /\ \A x \in Req \ {r} : op[x].kind = "scan" => op[x].session # s
      /\ \A x \in Session \ {s} : sess[x].owner # r
  BY ScanningFacts
<1>2. /\ SessionTypes' /\ SoundInv' /\ sess'[s] = new
      /\ \A x \in Session \ {s} : sess'[x] = sess[x]
  BY <1>0, <1>1, OneSession
<1>3. /\ op' \in [Req -> Op] /\ op'[r].kind = "idle"
      /\ \A x \in Req : \/ op'[x] = op[x] /\ x # r /\ ~(op[x].kind = "wait" /\ op[x].session = s)
                        \/ op'[x].kind = "idle" /\ (x = r \/ op[x].kind = "wait")
  BY <1>0, OpKinds DEF Release, Waiting, OpTypes
<1>4. \A x \in Req \ {r} : call'[x] = call[x]
  BY DEF LapiTypes
<1>5. OpTypes' /\ TimeInv'
  BY <1>0, <1>3 DEF OpTypes, TimeInv
<1>a. \A x \in Req : op[x].session \in Session
  BY <1>0, OpFacts DEF OpTypes
<1>6. OwnerInv'
  <2>1. ASSUME NEW x \in Session, sess'[x].owner # NoReq
        PROVE  /\ ~sess'[x].complete /\ ~sess'[x].truncated
               /\ op'[sess'[x].owner].kind = "scan" /\ op'[sess'[x].owner].session = x
    <3>1. x # s /\ sess'[x] = sess[x] /\ sess[x].owner # r
      BY <1>1, <1>2, <2>1
    <3>2. sess[x].owner \in Req \cup {NoReq}
      BY <1>0 DEF SessionTypes, SessionState
    <3>3. /\ sess[x].owner \in Req /\ ~sess[x].complete /\ ~sess[x].truncated
          /\ op[sess[x].owner].kind = "scan" /\ op[sess[x].owner].session = x
      BY <1>0, <2>1, <3>1, <3>2 DEF OwnerInv
    <3>4. op'[sess[x].owner] = op[sess[x].owner]
      BY <1>3, <3>1, <3>3
    <3> QED
      BY <3>1, <3>3, <3>4
  <2>2. ASSUME NEW x \in Req, op'[x].kind = "scan"
        PROVE  op'[x].session <= opened /\ sess'[op'[x].session].owner = x
    <3>1. op'[x] = op[x] /\ x # r
      BY <1>3, <2>2
    <3> QED
      BY <1>0, <1>1, <1>2, <1>a, <2>2, <3>1 DEF OwnerInv
  <2>3. ASSUME NEW x \in Req, op'[x].kind = "wait" PROVE sess'[op'[x].session].owner # NoReq
    <3>1. op'[x] = op[x] /\ op[x].session # s
      BY <1>3, <2>3
    <3> QED
      BY <1>0, <1>2, <1>a, <2>3, <3>1 DEF OwnerInv
  <2>4. ASSUME NEW x \in Session, sess'[x].told PROVE x <= opened
    BY <1>0, <1>1, <1>2, <2>4 DEF OwnerInv
  <2> QED
    BY <2>1, <2>2, <2>3, <2>4 DEF OwnerInv
<1>7. ServedInv'
  <2> SUFFICES ASSUME NEW x \in Req, op'[x].kind = "scan", call'[x].stage \in {"answered", "ok"} PROVE Served(x)'
    BY DEF ServedInv
  <2>1. op'[x] = op[x] /\ x # r
    BY <1>3
  <2>2. Served(x) /\ op[x].session \in Session \ {s}
    BY <1>0, <1>1, <1>4, <1>a, <2>1 DEF ServedInv
  <2> QED
    BY <1>2, <2>1, <2>2, ServedSame
<1> QED
  BY <1>2, <1>5, <1>6, <1>7 DEF CatInv

LEMMA ScanFailsStep == ASSUME LapiTypes, CatInv, NEW r \in Req, ScanFails(r) PROVE CatInv'
<1> DEFINE s == op[r].session
           new == [sess[s] EXCEPT !.owner = NoReq]
<1>0. OpTypes
  BY DEF CatInv
<1>1. /\ op[r].kind = "scan" /\ op' = Release(r, s) /\ call' = [call EXCEPT ![r] = Quiet]
      /\ UNCHANGED <<clock, time, opened>>
  BY DEF ScanFails
<1>2. s \in Session /\ sess[s] \in SessionState /\ Sound(time, sess[s])
  BY <1>1, ScanningFacts
<1>3. sess' = [sess EXCEPT ![s] = new]
  BY DEF ScanFails
<1>4. /\ new \in SessionState /\ new.owner = NoReq /\ new.live = sess[s].live
      /\ new.known = sess[s].known /\ new.counted = sess[s].counted /\ new.cursor = sess[s].cursor
      /\ new.complete = sess[s].complete /\ new.truncated = sess[s].truncated
  BY <1>2 DEF SessionState
<1> HIDE DEF new
<1>5. Sound(time, new)
  BY <1>2, <1>4, SoundSame
<1>6. reply' \in [Req -> Reply]
  <2>1. reply' = [x \in Req |-> IF x = r \/ x \in Waiting(s) THEN [NoReply EXCEPT !.status = "error"] ELSE reply[x]]
    BY DEF ScanFails
  <2> QED
    BY <1>0, <2>1, ReplyTypes DEF OpTypes
<1> QED
  BY <1>1, <1>3, <1>4, <1>5, <1>6, ReleaseStep

LEMMA LastBatchStep == ASSUME LapiTypes, CatInv, NEW r \in Req, LastBatch(r) PROVE CatInv'
<1> DEFINE s == op[r].session
           st == Scanned(r, s)
           new == [st EXCEPT !.owner = NoReq, !.told = TRUE]
<1>0. SessionTypes /\ OpTypes /\ ServedInv
  BY DEF CatInv
<1>1. /\ op[r].kind = "scan" /\ call[r].stage = "ok" /\ op' = Release(r, s) /\ call' = [call EXCEPT ![r] = Quiet]
      /\ UNCHANGED <<clock, time, opened>>
  BY DEF LastBatch
<1>2. /\ s \in Session /\ sess[s] \in SessionState /\ Sound(time, sess[s])
      /\ ~sess[s].complete /\ ~sess[s].truncated
  BY <1>1, ScanningFacts
<1>3. sess' = [sess EXCEPT ![s] = new]
  BY DEF LastBatch
<1>4. st \in SessionState /\ Sound(time, st) /\ st.live = sess[s].live
  BY <1>0, <1>1, <1>2, ScannedFacts DEF ServedInv
<1>5. reply' \in [Req -> Reply]
  <2>1. reply' = [x \in Req |-> IF x = r \/ x \in Waiting(s) THEN Tell(s, st) ELSE reply[x]]
    BY DEF LastBatch
  <2> QED
    BY <1>0, <1>2, <1>4, <2>1, ReplyTypes DEF OpTypes
<1> HIDE DEF st
<1>6. /\ new \in SessionState /\ new.owner = NoReq /\ new.live = sess[s].live
      /\ new.known = st.known /\ new.counted = st.counted /\ new.cursor = st.cursor
      /\ new.complete = st.complete /\ new.truncated = st.truncated
  BY <1>4 DEF SessionState
<1> HIDE DEF new
<1>7. Sound(time, new)
  BY <1>4, <1>6, SoundSame
<1> QED
  BY <1>1, <1>3, <1>5, <1>6, <1>7, ReleaseStep

LEMMA NextBatchStep == ASSUME LapiTypes, CatInv, NEW r \in Req, NextBatch(r) PROVE CatInv'
<1> DEFINE s == op[r].session
           st == Scanned(r, s)
           o == [ScanOf(s) EXCEPT !.batch = op[r].batch + 1]
<1>0. SessionTypes /\ OpTypes /\ OwnerInv /\ TimeInv /\ SoundInv /\ ServedInv
  BY DEF CatInv
<1>1. /\ op[r].kind = "scan" /\ call[r].stage = "ok"
      /\ ~st.complete /\ ~st.truncated /\ op[r].batch + 1 < Batches
      /\ UNCHANGED <<clock, time, opened, reply>>
  BY DEF NextBatch
<1>2. /\ s \in Session /\ s <= opened /\ sess[s] \in SessionState /\ Sound(time, sess[s]) /\ sess[s].owner = r
      /\ ~sess[s].complete /\ ~sess[s].truncated
      /\ \A x \in Req \ {r} : op[x].kind = "scan" => op[x].session # s
  BY <1>1, ScanningFacts
<1>3. sess' = [sess EXCEPT ![s] = st] /\ op' = [op EXCEPT ![r] = o]
  BY DEF NextBatch
<1>4. call' = [call EXCEPT ![r] = Begun(r)]
  BY DEF NextBatch, Start
<1>5. /\ st \in SessionState /\ Sound(time, st) /\ st.live = sess[s].live /\ st.owner = sess[s].owner
      /\ st.told = sess[s].told
  BY <1>0, <1>1, <1>2, ScannedFacts DEF ServedInv
<1> HIDE DEF st
<1>6. /\ SessionTypes' /\ SoundInv' /\ sess'[s] = st /\ \A x \in Session \ {s} : sess'[x] = sess[x]
  BY <1>0, <1>1, <1>2, <1>3, <1>5, OneSession
<1>7. o \in Op /\ o.kind = "scan" /\ o.session = s
  <2>1. op[r].batch + 1 \in 0..Batches
    <3>1. op[r].batch \in 0..Batches /\ Batches \in Nat
      BY <1>0, OpFacts, BoundAssumption DEF OpTypes
    <3> QED
      BY <1>1, <3>1
  <2>2. ScanOf(s) \in Op /\ ScanOf(s).kind = "scan" /\ ScanOf(s).session = s
    BY <1>2, OpKinds
  <2> QED
    BY <2>1, <2>2 DEF Op
<1> HIDE DEF o
<1>8. /\ op' \in [Req -> Op] /\ op'[r].kind = "scan" /\ op'[r].session = s
      /\ \A x \in Req \ {r} : op'[x] = op[x]
  BY <1>0, <1>3, <1>7 DEF OpTypes
<1>9. call'[r].stage = "login" /\ \A x \in Req \ {r} : call'[x] = call[x]
  BY <1>4, BegunStage DEF LapiTypes
<1>10. OpTypes' /\ TimeInv'
  BY <1>0, <1>1, <1>8 DEF OpTypes, TimeInv
<1>a. \A x \in Req : op[x].session \in Session
  BY <1>0, OpFacts DEF OpTypes
<1>11. OwnerInv'
  <2>0. \A x \in Session : sess[x].owner \in Req \cup {NoReq}
    BY <1>0 DEF SessionTypes, SessionState
  <2>1. \A x \in Session : sess'[x].owner = sess[x].owner /\ sess'[x].told = sess[x].told
    BY <1>5, <1>6
  <2>2. ASSUME NEW x \in Session, sess'[x].owner # NoReq
        PROVE  /\ ~sess'[x].complete /\ ~sess'[x].truncated
               /\ op'[sess'[x].owner].kind = "scan" /\ op'[sess'[x].owner].session = x
    <3>1. CASE x = s
      BY <1>1, <1>2, <1>5, <1>6, <1>8, <3>1
    <3>2. CASE x # s
      <4>1. sess'[x] = sess[x] /\ sess[x].owner \in Req
        BY <1>6, <2>0, <2>2, <3>2
      <4>2. /\ ~sess[x].complete /\ ~sess[x].truncated
            /\ op[sess[x].owner].kind = "scan" /\ op[sess[x].owner].session = x
        BY <1>0, <2>2, <4>1 DEF OwnerInv
      <4> QED
        BY <1>8, <3>2, <4>1, <4>2
    <3> QED
      BY <3>1, <3>2
  <2>3. \A x \in Req : op'[x].kind = op[x].kind /\ op'[x].session = op[x].session
    BY <1>1, <1>8
  <2>4. \A x \in Req : op'[x].kind = "scan" => op'[x].session <= opened /\ sess'[op'[x].session].owner = x
    BY <1>0, <1>a, <2>1, <2>3 DEF OwnerInv
  <2>5. \A x \in Req : op'[x].kind = "wait" => sess'[op'[x].session].owner # NoReq
    BY <1>0, <1>a, <2>1, <2>3 DEF OwnerInv
  <2>6. \A x \in Session : sess'[x].told => x <= opened
    BY <1>0, <2>1 DEF OwnerInv
  <2> QED
    BY <1>1, <2>2, <2>4, <2>5, <2>6 DEF OwnerInv
<1>12. ServedInv'
  <2> SUFFICES ASSUME NEW x \in Req, op'[x].kind = "scan", call'[x].stage \in {"answered", "ok"} PROVE Served(x)'
    BY DEF ServedInv
  <2>1. x # r /\ op'[x] = op[x] /\ call'[x] = call[x]
    BY <1>8, <1>9
  <2>2. Served(x) /\ op[x].session \in Session \ {s}
    BY <1>0, <1>2, <1>a, <2>1 DEF ServedInv
  <2> QED
    BY <1>1, <1>6, <2>1, <2>2, ServedSame
<1> QED
  BY <1>6, <1>10, <1>11, <1>12 DEF CatInv

-----------------------------------------------------------------------------
(* New alerts.                                                             *)

\* A new alert changes nothing about those there were.
LEMMA AppendFacts ==
    ASSUME NEW h \in Seq(Nat), NEW t \in Nat, NEW g, g = Append(h, t)
    PROVE  /\ g \in Seq(Nat) /\ Len(g) = Len(h) + 1 /\ DOMAIN g = DOMAIN h \cup {Len(h) + 1}
           /\ g[Len(h) + 1] = t /\ \A a \in DOMAIN h : g[a] = h[a]
           /\ \A a \in DOMAIN h, c \in Cursor : Behind(g, c, a) <=> Behind(h, c, a)
<1>1. /\ g \in Seq(Nat) /\ Len(g) = Len(h) + 1 /\ DOMAIN g = DOMAIN h \cup {Len(h) + 1}
      /\ g[Len(h) + 1] = t /\ \A a \in DOMAIN h : g[a] = h[a]
  <2>1. Len(h) \in Nat /\ DOMAIN h = 1..Len(h)
    BY AlertTypes
  <2>2. g \in Seq(Nat) /\ Len(g) = Len(h) + 1
    OBVIOUS
  <2>3. DOMAIN g = 1..Len(g)
    BY <2>2
  <2>4. DOMAIN g = DOMAIN h \cup {Len(h) + 1}
    BY <2>1, <2>2, <2>3
  <2> QED
    BY <2>1, <2>2, <2>4
<1>2. \A a \in DOMAIN h, c \in Cursor : Behind(g, c, a) <=> Behind(h, c, a)
  BY <1>1 DEF Behind
<1> QED
  BY <1>1, <1>2

LEMMA AppendAnswer ==
    ASSUME NEW h \in Seq(Nat), NEW g \in Seq(Nat), \A a \in DOMAIN h : g[a] = h[a],
           NEW n \in 0..Len(h), NEW c, NEW limit
    PROVE  AnswerTo(g, n, c, limit) = AnswerTo(h, n, c, limit)
<1> DEFINE S == {a \in 1..n : h[a] <= c.before + Overlap}
<1>1. 1..n \subseteq DOMAIN h
  BY AlertTypes
<1>2. {a \in 1..n : g[a] <= c.before + Overlap} = S
  BY <1>1
<1>3. \A a, b \in S : Newer(g, a, b) <=> Newer(h, a, b)
  BY <1>1 DEF Newer
<1> HIDE DEF S
<1>4. \A a \in S : {b \in S : Newer(g, b, a)} = {b \in S : Newer(h, b, a)}
  BY <1>3
<1>5. Newest(g, S, limit) = Newest(h, S, limit)
  BY <1>4 DEF Newest
<1> QED
  BY <1>2, <1>5 DEF AnswerTo, S

LEMMA NewAlertStep == ASSUME LapiTypes, CatInv, NEW t \in clock..clock + 1, NewAlert(t) PROVE CatInv'
<1>0. SessionTypes /\ OpTypes /\ OwnerInv /\ TimeInv /\ SoundInv /\ ServedInv
  BY DEF CatInv
<1>1. /\ Len(time) < MaxAlerts /\ time' = Append(time, t) /\ clock' = t
      /\ UNCHANGED <<call, sess, opened, op, reply>>
  BY DEF NewAlert
<1>2. /\ time \in Seq(Nat) /\ clock \in Nat /\ t \in Nat /\ clock <= t /\ MaxAlerts \in Nat /\ Len(time) \in Nat
  BY <1>0, BoundAssumption, AlertTypes DEF SessionTypes
<1>3. /\ time' \in Seq(Nat) /\ Len(time') = Len(time) + 1 /\ DOMAIN time' = DOMAIN time \cup {Len(time) + 1}
      /\ time'[Len(time) + 1] = t /\ \A a \in DOMAIN time : time'[a] = time[a]
      /\ \A a \in DOMAIN time, c \in Cursor : Behind(time', c, a) <=> Behind(time, c, a)
  <2> DEFINE g == Append(time, t)
  <2>1. g = Append(time, t) /\ time' = g
    BY <1>1
  <2> HIDE DEF g
  <2>2. /\ g \in Seq(Nat) /\ Len(g) = Len(time) + 1 /\ DOMAIN g = DOMAIN time \cup {Len(time) + 1}
        /\ g[Len(time) + 1] = t /\ \A a \in DOMAIN time : g[a] = time[a]
    BY <1>2, <2>1, AppendFacts
  <2>3. \A a \in DOMAIN time, c \in Cursor : Behind(g, c, a) <=> Behind(time, c, a)
    BY <1>2, <2>1, AppendFacts
  <2> QED
    BY <2>1, <2>2, <2>3
<1>4. SessionTypes'
  BY <1>0, <1>1, <1>2, <1>3 DEF SessionTypes, Live
<1>5. OpTypes' /\ OwnerInv'
  BY <1>0, <1>1 DEF OpTypes, OwnerInv
<1>6. TimeInv'
  <2>1. \A a \in DOMAIN time : time[a] \in Nat
    BY <1>2, AlertTypes
  <2> QED
    BY <1>0, <1>1, <1>2, <1>3, <2>1 DEF TimeInv
<1>7. SoundInv'
  <2> SUFFICES ASSUME NEW s \in Session PROVE Sound(time', sess[s])
    BY <1>1 DEF SoundInv
  <2>1. Sound(time, sess[s]) /\ sess[s].cursor \in Cursor
    BY <1>0 DEF SoundInv, SessionTypes, SessionState
  <2> QED
    BY <1>3, <2>1 DEF Sound
<1>8. ServedInv'
  <2> SUFFICES ASSUME NEW x \in Req, op[x].kind = "scan", call[x].stage \in {"answered", "ok"} PROVE Served(x)'
    BY <1>1 DEF ServedInv
  <2>1. /\ op[x].session \in Session /\ op[x].limit \in Nat /\ sess[op[x].session].cursor \in Cursor
    BY <1>0, OpFacts DEF OpTypes, SessionTypes, SessionState
  <2>2. PICK n \in 0..Len(time) : /\ sess[op[x].session].known \subseteq 1..n
                                  /\ op[x].raw = AnswerTo(time, n, sess[op[x].session].cursor, op[x].limit)
    BY <1>0 DEF ServedInv, Served
  <2>3. AnswerTo(time', n, sess[op[x].session].cursor, op[x].limit) = AnswerTo(time, n, sess[op[x].session].cursor, op[x].limit)
    <3> DEFINE g == Append(time, t)
               c == sess[op[x].session].cursor
               limit == op[x].limit
    <3>1. time' = g
      BY <1>1
    <3>2. g \in Seq(Nat) /\ \A a \in DOMAIN time : g[a] = time[a]
      BY <1>3, <3>1
    <3> HIDE DEF g, c, limit
    <3>3. AnswerTo(g, n, c, limit) = AnswerTo(time, n, c, limit)
      BY <1>2, <2>2, <3>2, AppendAnswer
    <3> QED
      BY <3>1, <3>3 DEF c, limit
  <2>4. n \in 0..Len(time')
    BY <1>2, <1>3
  <2> QED
    BY <1>1, <2>2, <2>3, <2>4 DEF Served
<1> QED
  BY <1>4, <1>5, <1>6, <1>7, <1>8 DEF CatInv

-----------------------------------------------------------------------------
(* The other steps leave the catalogue alone.                              *)

\* Before CrowdSec has carried a request out, and after.
Sending == {"login", "keyed", "asked", "granted", "send", "refused"}
CarriedStages == {"answered", "lost", "invalid", "ok"}

\* What a step of the client does to the stage of a call.
StageStep(x) ==
    /\ (call'[x].stage \in {"answered", "ok"} => call[x].stage \in {"answered", "ok"})
    /\ (call'[x].stage \in Sending => call[x].stage \in Sending)
    /\ (call'[x].stage \in CarriedStages => call[x].stage \in CarriedStages)

LEMMA PassesStages ==
    ASSUME LapiTypes, NEW r \in Req, Passes(r)
    PROVE  \A x \in Req : StageStep(x)
<1>t. call \in [Req -> Call]
  BY DEF LapiTypes
<1>1. call' = [call EXCEPT ![r] = call'[r]]
  BY CallStep
<1>2. \A x \in Req \ {r} : call'[x] = call[x]
  BY <1>t, <1>1
<1> USE DEF StageStep, Sending, CarriedStages
<1>3. StageStep(r)
  <2>0. call[r] \in Call
    BY <1>t
  <2>1. CASE ReadKey(r)
    BY <1>t, <2>0, <2>1 DEF ReadKey, Failed, Call
  <2>2. CASE UseCache(r)
    BY <1>t, <2>0, <2>2 DEF UseCache, Call
  <2>3. CASE AskToken(r)
    BY <1>t, <2>0, <2>3 DEF AskToken, To, Call
  <2>4. CASE TakeToken(r)
    BY <1>t, <2>0, <2>4 DEF TakeToken, To, Call
  <2>5. CASE Retry(r)
    BY <1>t, <2>0, <2>5 DEF Retry, Call
  <2>6. CASE GiveUp(r)
    BY <1>t, <2>0, <2>6 DEF GiveUp, Failed, Call
  <2>7. CASE Return(r)
    BY <1>t, <2>0, <2>7 DEF Return, Failed, Call
  <2>8. CASE GrantToken(r)
    BY <1>t, <2>0, <2>8 DEF GrantToken, Call
  <2>9. CASE DenyToken(r)
    BY <1>t, <2>0, <2>9 DEF DenyToken, Failed, Call
  <2>10. CASE Refuse(r)
    BY <1>t, <2>0, <2>10 DEF Refuse, To, Call
  <2>11. CASE Unreachable(r)
    BY <1>t, <2>0, <2>11 DEF Unreachable, Failed, Call
  <2> QED
    BY <2>1, <2>2, <2>3, <2>4, <2>5, <2>6, <2>7, <2>8, <2>9, <2>10, <2>11 DEF Passes, ClientStep, LapiAnswers
<1> QED
  BY <1>2, <1>3

LEMMA ServesStages ==
    ASSUME LapiTypes, NEW r \in Req, Serves(r)
    PROVE  /\ call[r].stage = "send" /\ call'[r].stage \in CarriedStages
           /\ \A x \in Req \ {r} : call'[x] = call[x]
<1>t. call \in [Req -> Call]
  BY DEF LapiTypes
<1>1. call' = [call EXCEPT ![r] = call'[r]]
  BY CallStep
<1>2. \A x \in Req \ {r} : call'[x] = call[x]
  BY <1>t, <1>1
<1>3. call[r].stage = "send" /\ \E how \in {"answered", "lost", "invalid"} : call' = [call EXCEPT ![r].stage = how]
  BY DEF Serves, Serve, ServeAndLose, To
<1>4. call'[r].stage \in CarriedStages
  BY <1>t, <1>3 DEF Call, CarriedStages
<1> QED
  BY <1>2, <1>3, <1>4

LEMMA LosesStages ==
    ASSUME LapiTypes, NEW r \in Req, \E how \in {"lost", "invalid"} : ServeAndLose(r, how)
    PROVE  call'[r].stage \in {"lost", "invalid"}
BY DEF ServeAndLose, To, LapiTypes, Call

\* The operation of a request becomes another that is not about the catalogue.
OtherOp(r) ==
    /\ op' \in [Req -> Op] /\ \A x \in Req \ {r} : op'[x] = op[x] /\ call'[x] = call[x]
    /\ op[r].kind \notin {"scan", "wait"} /\ op'[r].kind \notin {"scan", "wait"}

LEMMA OtherOpAside ==
    ASSUME NEW r \in Req, OtherOp(r), UNCHANGED catVars
    PROVE  Aside
BY DEF OtherOp, Aside

\* A change of the kind of an operation alone.
LEMMA KindFacts ==
    ASSUME op \in [Req -> Op], NEW r \in Req,
           NEW kind \in {"idle", "scan", "wait", "change", "control", "served", "left"},
           op' = [op EXCEPT ![r].kind = kind]
    PROVE  op' \in [Req -> Op] /\ op'[r].kind = kind /\ \A x \in Req \ {r} : op'[x] = op[x]
BY DEF Op

LEMMA ReplyChange ==
    ASSUME reply \in [Req -> Reply], NEW r \in Req, NEW answer \in Reply, reply' = [reply EXCEPT ![r] = answer]
    PROVE  reply' \in [Req -> Reply] /\ reply'[r] = answer /\ \A x \in Req \ {r} : reply'[x] = reply[x]
OBVIOUS

LEMMA StatusTypes ==
    \A status \in {"none", "ok", "error", "expired"}, yes \in BOOLEAN :
        /\ [NoReply EXCEPT !.status = status] \in Reply
        /\ [NoReply EXCEPT !.status = status, !.logged = yes] \in Reply
BY ReplyTypes DEF Reply

LEMMA PassesAside ==
    ASSUME LapiTypes, NEW r \in Req, Passes(r), UNCHANGED Rest
    PROVE  Aside
BY PassesStages DEF Rest, Aside, StageStep

LEMMA LoseScanAside ==
    ASSUME LapiTypes, CatInv, NEW r \in Req, LoseScan(r)
    PROVE  Aside /\ OpTypes'
<1>1. /\ UNCHANGED <<catVars, op, reply>> /\ \E how \in {"lost", "invalid"} : ServeAndLose(r, how)
  BY DEF LoseScan
<1>2. /\ call'[r].stage \in {"lost", "invalid"} /\ \A x \in Req \ {r} : call'[x] = call[x]
  BY <1>1, LosesStages, ServesStages DEF Serves
<1>3. Aside
  BY <1>1, <1>2 DEF Aside
<1> QED
  BY <1>1, <1>3 DEF CatInv, OpTypes

LEMMA AskFewerAside ==
    ASSUME LapiTypes, CatInv, NEW r \in Req, AskFewer(r)
    PROVE  Aside /\ OpTypes'
<1>0. op \in [Req -> Op] /\ reply \in [Req -> Reply] /\ call \in [Req -> Call]
  BY DEF CatInv, OpTypes, LapiTypes
<1>1. /\ UNCHANGED <<catVars, reply>> /\ op' = [op EXCEPT ![r].limit = Fallback]
      /\ call' = [call EXCEPT ![r] = Begun(r)]
  BY DEF AskFewer, Start
<1>2. /\ op' \in [Req -> Op] /\ \A x \in Req \ {r} : op'[x] = op[x]
      /\ op'[r].kind = op[r].kind /\ op'[r].session = op[r].session
  BY <1>0, <1>1 DEF Op
<1>3. call'[r].stage = "login" /\ \A x \in Req \ {r} : call'[x] = call[x]
  BY <1>0, <1>1, BegunStage
<1>4. Aside
  BY <1>1, <1>2, <1>3 DEF Aside
<1> QED
  BY <1>0, <1>1, <1>2, <1>4 DEF OpTypes

LEMMA ChangeAside ==
    ASSUME LapiTypes, OpTypes, NEW r \in Req, Change(r)
    PROVE  OtherOp(r) /\ OpTypes' /\ UNCHANGED catVars /\ op'[r].kind = "change" /\ call'[r].stage = "login"
<1>0. op \in [Req -> Op] /\ reply \in [Req -> Reply] /\ call \in [Req -> Call]
  BY DEF OpTypes, LapiTypes
<1>1. /\ UNCHANGED <<catVars, reply>> /\ op' = [op EXCEPT ![r].kind = "change"] /\ op[r].kind = "idle"
      /\ call' = [call EXCEPT ![r] = Begun(r)]
  BY DEF Change, Start
<1>2. /\ op' \in [Req -> Op] /\ op'[r].kind = "change" /\ \A x \in Req \ {r} : op'[x] = op[x]
  BY <1>0, <1>1, KindFacts
<1>3. call'[r].stage = "login" /\ \A x \in Req \ {r} : call'[x] = call[x]
  BY <1>0, <1>1, BegunStage
<1> QED
  BY <1>0, <1>1, <1>2, <1>3 DEF OpTypes, OtherOp

LEMMA ChangeServedAside ==
    ASSUME LapiTypes, OpTypes, NEW r \in Req, ServeChange(r) \/ LoseChange(r)
    PROVE  OtherOp(r) /\ OpTypes' /\ UNCHANGED <<catVars, op, reply, audit>>
<1>1. /\ UNCHANGED <<catVars, op, reply, audit>> /\ op[r].kind = "change" /\ Serves(r)
  BY DEF ServeChange, LoseChange, Serves
<1>2. \A x \in Req \ {r} : call'[x] = call[x]
  BY <1>1, ServesStages
<1> QED
  BY <1>1, <1>2 DEF OpTypes, OtherOp

LEMMA FinishAside ==
    ASSUME LapiTypes, OpTypes, NEW r \in Req, op[r].kind = "change",
           NEW final \in {"done", "failed"}, NEW status \in {"ok", "error"}, Finish(r, final, status)
    PROVE  /\ OtherOp(r) /\ OpTypes' /\ UNCHANGED <<catVars, changes>> /\ op'[r].kind = "idle"
           /\ \A x \in Req \ {r} : reply'[x] = reply[x]
           /\ \/ audit' = [audit EXCEPT ![r] = final] /\ (reply'[r].logged <=> status = "ok")
              \/ audit' = audit /\ ~reply'[r].logged
<1>0. op \in [Req -> Op] /\ reply \in [Req -> Reply] /\ call \in [Req -> Call]
  BY DEF OpTypes, LapiTypes
<1>1. /\ UNCHANGED <<catVars, changes>> /\ op' = [op EXCEPT ![r] = Idle] /\ call' = [call EXCEPT ![r] = Quiet]
  BY DEF Finish
<1>2. /\ op' \in [Req -> Op] /\ op'[r].kind = "idle"
      /\ \A x \in Req \ {r} : op'[x] = op[x] /\ call'[x] = call[x]
  BY <1>0, <1>1, OpKinds
<1>3. \A s \in {"ok", "error"}, yes \in BOOLEAN :
          /\ [NoReply EXCEPT !.status = s] \in Reply /\ ~[NoReply EXCEPT !.status = s].logged
          /\ [NoReply EXCEPT !.status = s, !.logged = yes] \in Reply
          /\ [NoReply EXCEPT !.status = s, !.logged = yes].logged = yes
  BY StatusTypes DEF NoReply
<1>4. /\ reply' \in [Req -> Reply] /\ \A x \in Req \ {r} : reply'[x] = reply[x]
      /\ \/ audit' = [audit EXCEPT ![r] = final] /\ (reply'[r].logged <=> status = "ok")
         \/ audit' = audit /\ ~reply'[r].logged
  <2>1. CASE /\ audit' = [audit EXCEPT ![r] = final]
             /\ reply' = [reply EXCEPT ![r] = [NoReply EXCEPT !.status = status, !.logged = status = "ok"]]
    <3> DEFINE answer == [NoReply EXCEPT !.status = status, !.logged = status = "ok"]
    <3>1. answer \in Reply /\ answer.logged = (status = "ok")
      BY <1>3
    <3> HIDE DEF answer
    <3>2. reply' = [reply EXCEPT ![r] = answer]
      BY <2>1 DEF answer
    <3> QED
      BY <1>0, <2>1, <3>1, <3>2
  <2>2. CASE audit' = audit /\ reply' = [reply EXCEPT ![r] = [NoReply EXCEPT !.status = status]]
    <3> DEFINE answer == [NoReply EXCEPT !.status = status]
    <3>1. answer \in Reply /\ ~answer.logged
      BY <1>3
    <3> HIDE DEF answer
    <3>2. reply' = [reply EXCEPT ![r] = answer]
      BY <2>2 DEF answer
    <3> QED
      BY <1>0, <2>2, <3>1, <3>2
  <2> QED
    BY <2>1, <2>2 DEF Finish
<1> QED
  BY <1>0, <1>1, <1>2, <1>4 DEF OpTypes, OtherOp

-----------------------------------------------------------------------------
(* The switch, as a request sees it.                                       *)

\* The connection that is served is that of a request that has switched and has no answer yet.
PeerInv == \A r \in Req : peer.from = r => op[r].kind \in {"served", "left"}

LEMMA PlainReply ==
    ASSUME reply \in [Req -> Reply], NEW r \in Req, NEW status \in {"none", "ok", "error", "expired"},
           reply' = [reply EXCEPT ![r] = [NoReply EXCEPT !.status = status]]
    PROVE  reply' \in [Req -> Reply] /\ ~reply'[r].logged /\ \A x \in Req \ {r} : reply'[x] = reply[x]
<1> DEFINE answer == [NoReply EXCEPT !.status = status]
<1>1. answer \in Reply /\ ~answer.logged
  BY StatusTypes DEF NoReply
<1> HIDE DEF answer
<1>2. reply' = [reply EXCEPT ![r] = answer]
  BY DEF answer
<1> QED
  BY <1>1, <1>2, ReplyChange

\* A request goes on from one kind to another, and is told of nothing logged.
Goes(r, from, to) ==
    /\ op[r].kind \in from /\ op'[r].kind = to
    /\ OtherOp(r) /\ OpTypes' /\ UNCHANGED <<catVars, call>>
    /\ \A x \in Req : reply'[x].logged => reply[x].logged

LEMMA GoesOn ==
    ASSUME OpTypes, NEW r \in Req, NEW from \in SUBSET {"idle", "control", "served", "left"},
           NEW to \in {"idle", "control", "served", "left"},
           op[r].kind \in from, op' = [op EXCEPT ![r].kind = to],
           UNCHANGED <<catVars, call>>,
           UNCHANGED reply \/ \E status \in {"ok", "error"} :
               reply' = [reply EXCEPT ![r] = [NoReply EXCEPT !.status = status]]
    PROVE  Goes(r, from, to)
<1>1. op' \in [Req -> Op] /\ op'[r].kind = to /\ \A x \in Req \ {r} : op'[x] = op[x]
  BY KindFacts DEF OpTypes
<1>2. reply' \in [Req -> Reply] /\ \A x \in Req : reply'[x].logged => reply[x].logged
  <2>1. CASE UNCHANGED reply
    BY <2>1 DEF OpTypes
  <2>2. ASSUME NEW status \in {"ok", "error"}, reply' = [reply EXCEPT ![r] = [NoReply EXCEPT !.status = status]]
        PROVE  reply' \in [Req -> Reply] /\ \A x \in Req : reply'[x].logged => reply[x].logged
    BY <2>2, PlainReply DEF OpTypes
  <2> QED
    BY <2>1, <2>2
<1>3. OtherOp(r)
  BY <1>1 DEF OtherOp
<1> QED
  BY <1>1, <1>2, <1>3 DEF Goes, OpTypes

LEMMA SwitchGoes == ASSUME OpTypes, NEW r \in Req, Switch(r) PROVE Goes(r, {"idle"}, "control")
<1>1. /\ op[r].kind \in {"idle"} /\ op' = [op EXCEPT ![r].kind = "control"]
      /\ UNCHANGED <<catVars, call>> /\ UNCHANGED reply
  BY DEF Switch
<1> QED
  BY <1>1, GoesOn

LEMMA ConnectGoes == ASSUME OpTypes, NEW r \in Req, Connect(r) PROVE Goes(r, {"control"}, "served")
<1>1. /\ op[r].kind \in {"control"} /\ op' = [op EXCEPT ![r].kind = "served"]
      /\ UNCHANGED <<catVars, call>> /\ UNCHANGED reply
  BY DEF Connect, lapiVars
<1> QED
  BY <1>1, GoesOn

LEMMA VerbGoes ==
    ASSUME OpTypes, PeerInv, NEW r \in Req, Verb(r) \/ VerbLost(r)
    PROVE  Goes(r, {"served", "left"}, "idle")
<1>1. /\ op[r].kind \in {"served", "left"} /\ op' = [op EXCEPT ![r].kind = "idle"]
      /\ UNCHANGED <<catVars, call>>
      /\ UNCHANGED reply \/ \E status \in {"ok", "error"} :
            reply' = [reply EXCEPT ![r] = [NoReply EXCEPT !.status = status]]
  BY DEF PeerInv, Verb, VerbLost, AnswerWith, lapiVars
<1> QED
  BY <1>1, GoesOn

LEMMA GiveUpVerbGoes ==
    ASSUME OpTypes, NEW r \in Req, GiveUpVerb(r)
    PROVE  Goes(r, {"control"}, "idle") \/ Goes(r, {"served"}, "left")
<1>0. op[r].kind \in {"control", "served"} /\ op \in [Req -> Op]
  BY DEF GiveUpVerb, OpTypes
<1>1. op' = [op EXCEPT ![r].kind = IF op[r].kind = "served" THEN "left" ELSE "idle"]
  BY <1>0 DEF GiveUpVerb, Op
<1>2. /\ UNCHANGED <<catVars, call>>
      /\ reply' = [reply EXCEPT ![r] = [NoReply EXCEPT !.status = "error"]]
  BY DEF GiveUpVerb, lapiVars
<1>3. CASE op[r].kind = "control"
  <2>1. op' = [op EXCEPT ![r].kind = "idle"] /\ op[r].kind \in {"control"}
    BY <1>1, <1>3
  <2> QED
    BY <1>2, <2>1, GoesOn
<1>4. CASE op[r].kind = "served"
  <2>1. op' = [op EXCEPT ![r].kind = "left"] /\ op[r].kind \in {"served"}
    BY <1>1, <1>4
  <2> QED
    BY <1>2, <2>1, GoesOn
<1> QED
  BY <1>0, <1>3, <1>4

LEMMA SwitchStepGoes ==
    ASSUME OpTypes, PeerInv, NEW r \in Req, SwitchStep(r)
    PROVE  \E from \in SUBSET {"idle", "control", "served", "left"}, to \in {"idle", "control", "served", "left"} :
               Goes(r, from, to)
<1>1. {"idle"} \in SUBSET {"idle", "control", "served", "left"}
      /\ {"control"} \in SUBSET {"idle", "control", "served", "left"}
      /\ {"served"} \in SUBSET {"idle", "control", "served", "left"}
      /\ {"served", "left"} \in SUBSET {"idle", "control", "served", "left"}
  OBVIOUS
<1> QED
  BY <1>1, SwitchGoes, ConnectGoes, VerbGoes, GiveUpVerbGoes DEF SwitchStep

LEMMA ChangeRefusedFacts ==
    ASSUME OpTypes, NEW r \in Req, ChangeRefused(r)
    PROVE  /\ OpTypes' /\ UNCHANGED <<catVars, op, call>> /\ op[r].kind = "idle"
           /\ ~reply'[r].logged /\ \A x \in Req \ {r} : reply'[x] = reply[x]
<1>1. /\ UNCHANGED <<catVars, op, call>> /\ op[r].kind = "idle"
      /\ reply' = [reply EXCEPT ![r] = [NoReply EXCEPT !.status = "error"]]
  BY DEF ChangeRefused
<1> QED
  BY <1>1, PlainReply DEF OpTypes

-----------------------------------------------------------------------------
(* The catalogue.                                                          *)
LEMMA CatInit == ASSUME Init PROVE CatInv /\ PeerInv
<1>1. PICK scene \in Scenes : time = scene.time /\ CrsInit(scene.on, scene.luck)
  BY DEF Init
<1>2. time \in Seq(0..MaxTime) /\ Len(time) <= MaxAlerts
  BY <1>1, SceneAssumption
<1>3. time \in Seq(Nat) /\ \A a \in DOMAIN time : time[a] \in 0..MaxTime
  <2> DEFINE S == 0..MaxTime
  <2>1. time \in Seq(S) /\ S \subseteq Nat
    BY <1>2
  <2> HIDE DEF S
  <2>2. /\ Len(time) \in Nat /\ DOMAIN time = 1..Len(time) /\ time = [a \in 1..Len(time) |-> time[a]]
        /\ \A a \in 1..Len(time) : time[a] \in S
    BY <2>1
  <2>3. \A a \in 1..Len(time) : time[a] \in Nat
    BY <2>1, <2>2
  <2> QED
    BY <2>2, <2>3 DEF S
<1>4. /\ clock = MaxTime /\ sess = [s \in Session |-> NoSession] /\ opened = 0
      /\ op = [r \in Req |-> Idle] /\ reply = [r \in Req |-> NoReply]
  BY DEF Init
<1>5. /\ NoSession \in SessionState /\ NoSession.live = FALSE /\ NoSession.owner = NoReq /\ NoSession.told = FALSE
      /\ NoSession.known = {} /\ NoSession.counted = [a \in Alert |-> 0]
  BY DEF NoSession, SessionState, Cursor
<1>6. SessionTypes
  <2>1. Live(sess) = {}
    BY <1>4, <1>5 DEF Live
  <2>2. Cardinality({}) = 0
    BY FS_EmptySet
  <2>3. Cardinality(Live(sess)) <= MaxLive
    BY <2>1, <2>2, BoundAssumption
  <2>4. clock \in Nat /\ opened \in 0..MaxSessions
    BY <1>4, BoundAssumption
  <2>5. sess \in [Session -> SessionState]
    BY <1>4, <1>5
  <2> QED
    BY <1>2, <1>3, <2>3, <2>4, <2>5 DEF SessionTypes
<1>7. OpTypes
  BY <1>4, OpKinds, ReplyTypes DEF OpTypes
<1>8. TimeInv
  BY <1>3, <1>4, BoundAssumption DEF TimeInv
<1>9. SoundInv
  BY <1>4, <1>5 DEF SoundInv, Sound
<1>10. OwnerInv /\ ServedInv
  BY <1>4, <1>5, OpKinds DEF OwnerInv, ServedInv
<1>11. PeerInv
  BY <1>1, CallerAssumption, ReqAssumption DEF CrsInit, NoPeer, PeerInv
<1> QED
  BY <1>6, <1>7, <1>8, <1>9, <1>10, <1>11 DEF CatInv

LEMMA PeerSame ==
    ASSUME PeerInv, peer' = peer \/ peer'.from = Nobody,
           \A x \in Req : op[x].kind \in {"served", "left"} => op'[x].kind \in {"served", "left"}
    PROVE  PeerInv'
BY CallerAssumption, ReqAssumption DEF PeerInv

LEMMA HostPeer ==
    ASSUME Host
    PROVE  peer' = peer \/ peer'.from = Nobody
<1>1. CASE CrsStep
  BY <1>1 DEF CrsStep, WorkerStep, TakeRefused, Take, DropSnapshot, CopySnapshot, StoreText, SnapshotFails,
     ChangePolicy, ChangeList, TestConf, RestartCrowd, CheckSame, WriteMark, VerifyMark, SwitchFails,
     ClearConf, PutBack, Unmark, Revive, RecoverFails, Elapse, HealRead, HealReplace
<1>2. CASE KillService
  BY <1>2 DEF KillService, NoPeer
<1> QED
  BY <1>1, <1>2 DEF Host

\* The steps of the catalogue.
Reads(r) ==
    \/ \E n \in 0..opened : Open(r, n)
    \/ \E s \in Session, n \in 0..opened : Expire(r, s, n)
    \/ \E s \in Session, n \in 0..opened : \E adv \in 1..sess[s].rev : Advance(r, s, adv, n) \/ Join(r, s, adv, n)
    \/ ServeScan(r) \/ LoseScan(r) \/ AskFewer(r) \/ NextBatch(r) \/ LastBatch(r) \/ ScanFails(r)

Reading == {"idle", "scan", "wait"}

\* They are about requests that read, and answer nothing that was logged.
LEMMA ReadsOps ==
    ASSUME LapiTypes, OpTypes, SessionTypes, NEW r \in Req, Reads(r)
    PROVE  \A x \in Req : \/ op[x].kind \in Reading /\ op'[x].kind \in Reading
                          \/ op'[x] = op[x] /\ call'[x] = call[x]
<1>0. op \in [Req -> Op] /\ call \in [Req -> Call]
  BY DEF OpTypes, LapiTypes
<1>a. \A s \in Session : [Idle EXCEPT !.kind = "wait", !.session = s].kind = "wait"
  BY DEF Idle
<1>1. ASSUME NEW n \in 0..opened, Open(r, n)
      PROVE  op[r].kind \in Reading /\ op'[r].kind \in Reading /\ \A x \in Req \ {r} : op'[x] = op[x] /\ call'[x] = call[x]
  <2>1. /\ op[r].kind = "idle" /\ op' = [op EXCEPT ![r] = ScanOf(opened + 1)]
        /\ call' = [call EXCEPT ![r] = Begun(r)] /\ opened < MaxSessions
    BY <1>1 DEF Open, Start
  <2>2. opened + 1 \in Session
    BY <2>1, BoundAssumption DEF SessionTypes, Session
  <2> QED
    BY <1>0, <2>1, <2>2, OpKinds DEF Reading
<1>2. ASSUME NEW s \in Session, NEW adv, NEW n \in 0..opened, Advance(r, s, adv, n)
      PROVE  op[r].kind \in Reading /\ op'[r].kind \in Reading /\ \A x \in Req \ {r} : op'[x] = op[x] /\ call'[x] = call[x]
  <2>1. /\ op[r].kind = "idle" /\ op' = [op EXCEPT ![r] = ScanOf(s)]
        /\ call' = [call EXCEPT ![r] = Begun(r)]
    BY <1>2 DEF Advance, Start
  <2> QED
    BY <1>0, <2>1, OpKinds DEF Reading
<1>3. ASSUME NEW s \in Session, NEW adv, NEW n \in 0..opened, Join(r, s, adv, n)
      PROVE  op[r].kind \in Reading /\ op'[r].kind \in Reading /\ \A x \in Req \ {r} : op'[x] = op[x] /\ call'[x] = call[x]
  <2>1. /\ op[r].kind = "idle" /\ call' = call
        /\ op' = op \/ op' = [op EXCEPT ![r] = [Idle EXCEPT !.kind = "wait", !.session = s]]
    BY <1>3 DEF Join
  <2> QED
    BY <1>0, <1>a, <2>1 DEF Reading
<1>4. ASSUME NEW s \in Session, NEW n \in 0..opened, Expire(r, s, n)
      PROVE  UNCHANGED <<op, call>>
  BY <1>4 DEF Expire
<1>5. CASE ServeScan(r) \/ LoseScan(r)
  <2>1. op[r].kind = "scan" /\ Serves(r)
    BY <1>5 DEF ServeScan, LoseScan, Serves
  <2>2. op'[r].kind = "scan" /\ \A x \in Req \ {r} : op'[x] = op[x]
    BY <1>0, <1>5, <2>1 DEF ServeScan, LoseScan, Op
  <2> QED
    BY <2>1, <2>2, ServesStages DEF Reading
<1>6. CASE AskFewer(r)
  BY <1>0, <1>6 DEF AskFewer, Start, Reading, Op
<1>7. CASE NextBatch(r)
  <2>1. /\ op[r].kind = "scan" /\ op' = [op EXCEPT ![r] = [ScanOf(op[r].session) EXCEPT !.batch = op[r].batch + 1]]
        /\ call' = [call EXCEPT ![r] = Begun(r)]
    BY <1>7 DEF NextBatch, Start
  <2>2. [ScanOf(op[r].session) EXCEPT !.batch = op[r].batch + 1].kind = "scan"
    BY DEF ScanOf, Idle
  <2> QED
    BY <1>0, <2>1, <2>2 DEF Reading
<1>8. CASE LastBatch(r) \/ ScanFails(r)
  <2>1. /\ op[r].kind = "scan" /\ op' = Release(r, op[r].session) /\ call' = [call EXCEPT ![r] = Quiet]
    BY <1>8 DEF LastBatch, ScanFails
  <2> QED
    BY <1>0, <2>1, OpKinds DEF Release, Waiting, Reading
<1> QED
  BY <1>1, <1>2, <1>3, <1>4, <1>5, <1>6, <1>7, <1>8 DEF Reads

LEMMA NotLogged ==
    /\ \A s \in Session, st \in SessionState : ~Tell(s, st).logged
    /\ ~[NoReply EXCEPT !.status = "error"].logged /\ ~[NoReply EXCEPT !.status = "expired"].logged
BY DEF Tell, NoReply

LEMMA ReadsReplies ==
    ASSUME CatInv, NEW r \in Req, Reads(r)
    PROVE  UNCHANGED adminVars /\ \A x \in Req : reply'[x].logged => reply[x].logged
<1>0. reply \in [Req -> Reply] /\ SessionTypes /\ OpTypes /\ ServedInv
  BY DEF CatInv, OpTypes
<1>1. UNCHANGED adminVars
  BY DEF Reads, Open, Expire, Advance, Join, ServeScan, LoseScan, AskFewer, NextBatch, LastBatch, ScanFails
<1>2. ASSUME NEW s \in Session, NEW adv, NEW n \in 0..opened, Join(r, s, adv, n)
      PROVE  \A x \in Req : reply'[x].logged => reply[x].logged
  <2>1. reply' = reply \/ reply' = [reply EXCEPT ![r] = Tell(s, sess[s])]
    BY <1>2 DEF Join
  <2>2. sess[s] \in SessionState
    BY <1>0 DEF SessionTypes
  <2> QED
    BY <1>0, <2>1, <2>2, NotLogged
<1>3. ASSUME NEW s \in Session, NEW n \in 0..opened, Expire(r, s, n)
      PROVE  \A x \in Req : reply'[x].logged => reply[x].logged
  BY <1>0, <1>3, NotLogged DEF Expire
<1>4. CASE LastBatch(r)
  <2> DEFINE s == op[r].session
             st == Scanned(r, s)
  <2>1. /\ reply' = [x \in Req |-> IF x = r \/ x \in Waiting(s) THEN Tell(s, st) ELSE reply[x]]
        /\ op[r].kind = "scan" /\ call[r].stage = "ok"
    BY <1>4 DEF LastBatch
  <2>2. /\ s \in Session /\ sess[s] \in SessionState /\ Sound(time, sess[s])
        /\ ~sess[s].complete /\ ~sess[s].truncated
    BY <2>1, ScanningFacts
  <2>3. st \in SessionState
    BY <1>0, <2>1, <2>2, ScannedFacts DEF ServedInv
  <2> HIDE DEF st, s
  <2> QED
    BY <1>1, <2>1, <2>2, <2>3, NotLogged
<1>5. CASE ScanFails(r)
  BY <1>0, <1>5, NotLogged DEF ScanFails
<1>6. CASE AskFewer(r) \/ NextBatch(r) \/ ServeScan(r) \/ LoseScan(r)
           \/ (\E n \in 0..opened : Open(r, n)) \/ (\E s \in Session, n \in 0..opened : \E adv \in 1..sess[s].rev : Advance(r, s, adv, n))
  BY <1>6 DEF AskFewer, NextBatch, ServeScan, LoseScan, Open, Advance
<1> QED
  BY <1>1, <1>2, <1>3, <1>4, <1>5, <1>6 DEF Reads

LEMMA PeerStep == ASSUME LapiTypes, CatInv, PeerInv, [Next]_vars PROVE PeerInv'
<1>0. OpTypes /\ SessionTypes
  BY DEF CatInv
<1> USE DEF Reading
<1>1. ASSUME NEW r \in Req, Reads(r), UNCHANGED crsVars PROVE PeerInv'
  <2>1. peer' = peer
    BY <1>1 DEF crsVars
  <2>2. \A x \in Req : op[x].kind \in {"served", "left"} => op'[x].kind \in {"served", "left"}
    BY <1>0, <1>1, ReadsOps
  <2> QED
    BY <2>1, <2>2, PeerSame
<1>2. ASSUME NEW r \in Req, OtherOp(r), op[r].kind \notin {"served", "left"}, peer' = peer PROVE PeerInv'
  BY <1>2, PeerSame DEF OtherOp
<1>3. ASSUME UNCHANGED op, peer' = peer \/ peer'.from = Nobody PROVE PeerInv'
  BY <1>3, PeerSame
<1>4. ASSUME NEW r \in Req, Change(r) \/ ChangeMade(r) \/ ChangeFailed(r) \/ Switch(r), UNCHANGED peer PROVE PeerInv'
  <2>1. CASE Change(r)
    <3>1. OtherOp(r)
      BY <1>0, <2>1, ChangeAside
    <3>2. op[r].kind = "idle"
      BY <2>1 DEF Change
    <3> QED
      BY <1>2, <1>4, <3>1, <3>2
  <2>2. CASE ChangeMade(r)
    <3>1. op[r].kind = "change" /\ Finish(r, "done", "ok")
      BY <2>2 DEF ChangeMade
    <3>2. OtherOp(r)
      BY <1>0, <3>1, FinishAside
    <3> QED
      BY <1>2, <1>4, <3>1, <3>2
  <2>3. CASE ChangeFailed(r)
    <3>1. op[r].kind = "change" /\ Finish(r, "failed", "error")
      BY <2>3 DEF ChangeFailed
    <3>2. OtherOp(r)
      BY <1>0, <3>1, FinishAside
    <3> QED
      BY <1>2, <1>4, <3>1, <3>2
  <2>4. CASE Switch(r)
    <3>1. OtherOp(r) /\ op[r].kind \in {"idle"}
      BY <1>0, <2>4, SwitchGoes DEF Goes
    <3> QED
      BY <1>2, <1>4, <3>1
  <2> QED
    BY <1>4, <2>1, <2>2, <2>3, <2>4
<1>5. ASSUME NEW r \in Req, Connect(r) PROVE PeerInv'
  <2>1. OtherOp(r) /\ op'[r].kind = "served"
    BY <1>0, <1>5, ConnectGoes DEF Goes
  <2>2. peer.from = Nobody /\ peer'.from = r
    BY <1>5 DEF Connect, Look
  <2> QED
    BY <2>1, <2>2 DEF OtherOp, PeerInv
<1>6. ASSUME NEW r \in Req, Verb(r) \/ VerbLost(r) PROVE PeerInv'
  <2>1. peer'.from = Nobody
    BY <1>6 DEF Verb, VerbLost, Decide, Unsaved, KillService, NoPeer
  <2> QED
    BY <2>1, CallerAssumption, ReqAssumption DEF PeerInv
<1>7. ASSUME NEW r \in Req, GiveUpVerb(r) PROVE PeerInv'
  <2>1. peer' = peer
    BY <1>7 DEF GiveUpVerb, crsVars
  <2>2. Goes(r, {"control"}, "idle") \/ Goes(r, {"served"}, "left")
    BY <1>0, <1>7, GiveUpVerbGoes
  <2>3. \A x \in Req : op[x].kind \in {"served", "left"} => op'[x].kind \in {"served", "left"}
    BY <2>2 DEF Goes, OtherOp
  <2> QED
    BY <2>1, <2>3, PeerSame
<1>8. ASSUME NEW r \in Req, SwitchStep(r) PROVE PeerInv'
  <2>1. CASE Switch(r)
    BY <1>4, <2>1 DEF Switch, crsVars
  <2> QED
    BY <1>5, <1>6, <1>7, <1>8, <2>1 DEF SwitchStep
<1>9. ASSUME NEW r \in Req, Arrive(r) \/ Progress(r), UNCHANGED crsVars PROVE PeerInv'
  <2>0. UNCHANGED peer
    BY <1>9 DEF crsVars
  <2>1. CASE Reads(r)
    BY <1>1, <1>9, <2>1
  <2>2. CASE Change(r) \/ ChangeMade(r) \/ ChangeFailed(r)
    BY <1>4, <2>0, <2>2
  <2>3. CASE ChangeRefused(r) \/ ServeChange(r) \/ LoseChange(r)
    BY <1>3, <2>0, <2>3 DEF ChangeRefused, ServeChange, LoseChange
  <2>4. CASE UNCHANGED Rest
    BY <1>3, <2>0, <2>4 DEF Rest
  <2> QED
    BY <1>9, <2>1, <2>2, <2>3, <2>4 DEF Arrive, Progress, Reads
<1>10. CASE World /\ UNCHANGED <<Rest, crsVars>>
  BY <1>3, <1>10 DEF Rest, crsVars
<1>11. CASE (\E t \in clock..clock + 1 : NewAlert(t)) /\ UNCHANGED crsVars
  BY <1>3, <1>11 DEF NewAlert, crsVars
<1>12. CASE Host /\ UNCHANGED <<lapiVars, Rest>>
  BY <1>3, <1>12, HostPeer DEF Rest
<1>13. CASE UNCHANGED vars
  BY <1>3, <1>13 DEF vars, crsVars
<1> QED
  BY <1>8, <1>9, <1>10, <1>11, <1>12, <1>13 DEF Next

LEMMA CatStep == ASSUME LapiTypes, CatInv, PeerInv, [Next]_vars PROVE CatInv'
<1>0. OpTypes /\ SessionTypes
  BY DEF CatInv
<1>1. ASSUME UNCHANGED Rest, \A x \in Req : StageStep(x) PROVE CatInv'
  <2>1. Aside
    BY <1>1 DEF Rest, Aside, StageStep
  <2>2. OpTypes'
    BY <1>0, <1>1 DEF Rest, OpTypes
  <2> QED
    BY <2>1, <2>2, AsideStep
<1>2. ASSUME NEW r \in Req, OtherOp(r), OpTypes', UNCHANGED catVars PROVE CatInv'
  BY <1>2, OtherOpAside, AsideStep
<1>3. ASSUME NEW r \in Req, Reads(r) PROVE CatInv'
  <2>1. CASE ServeScan(r) \/ NextBatch(r) \/ LastBatch(r) \/ ScanFails(r)
    BY <2>1, ServeScanStep, NextBatchStep, LastBatchStep, ScanFailsStep
  <2>2. CASE LoseScan(r) \/ AskFewer(r)
    BY <2>2, LoseScanAside, AskFewerAside, AsideStep
  <2>3. CASE \E n \in 0..opened : Open(r, n)
    BY <2>3, OpenStep
  <2>4. CASE \E s \in Session, n \in 0..opened : Expire(r, s, n)
    BY <2>4, ExpireStep
  <2>5. CASE \E s \in Session, n \in 0..opened : \E adv \in 1..sess[s].rev : Advance(r, s, adv, n) \/ Join(r, s, adv, n)
    BY <2>5, AdvanceStep, JoinStep
  <2> QED
    BY <1>3, <2>1, <2>2, <2>3, <2>4, <2>5 DEF Reads
<1>4. ASSUME NEW r \in Req, Progress(r) \/ Arrive(r) PROVE CatInv'
  <2>1. CASE Passes(r) /\ UNCHANGED Rest
    BY <1>1, <2>1, PassesStages
  <2>2. CASE Reads(r)
    BY <1>3, <2>2
  <2>3. CASE ServeChange(r) \/ LoseChange(r)
    BY <1>0, <1>2, <2>3, ChangeServedAside
  <2>4. CASE ChangeMade(r)
    <3>1. op[r].kind = "change" /\ Finish(r, "done", "ok")
      BY <2>4 DEF ChangeMade
    <3>2. OtherOp(r) /\ OpTypes' /\ UNCHANGED catVars
      BY <1>0, <3>1, FinishAside
    <3> QED
      BY <1>2, <3>2
  <2>5. CASE ChangeFailed(r)
    <3>1. op[r].kind = "change" /\ Finish(r, "failed", "error")
      BY <2>5 DEF ChangeFailed
    <3>2. OtherOp(r) /\ OpTypes' /\ UNCHANGED catVars
      BY <1>0, <3>1, FinishAside
    <3> QED
      BY <1>2, <3>2
  <2>6. CASE Change(r)
    BY <1>0, <1>2, <2>6, ChangeAside
  <2>7. CASE ChangeRefused(r)
    <3>1. OpTypes' /\ UNCHANGED <<catVars, op, call>> /\ op[r].kind = "idle"
      BY <1>0, <2>7, ChangeRefusedFacts
    <3>2. OtherOp(r)
      BY <1>0, <3>1 DEF OtherOp, OpTypes
    <3> QED
      BY <1>2, <3>1, <3>2
  <2> QED
    BY <1>4, <2>1, <2>2, <2>3, <2>4, <2>5, <2>6, <2>7 DEF Arrive, Progress, Reads, Passes
<1>5. ASSUME NEW r \in Req, SwitchStep(r) PROVE CatInv'
  BY <1>0, <1>2, <1>5, SwitchStepGoes DEF Goes
<1>6. CASE World /\ UNCHANGED Rest
  <2>1. call' = call
    BY <1>6 DEF World, ReplaceKeyFile, ReplaceKey, Restart, CacheExpires
  <2> QED
    BY <1>1, <1>6, <2>1 DEF StageStep
<1>7. CASE UNCHANGED <<lapiVars, Rest>>
  <2>1. call' = call /\ UNCHANGED Rest
    BY <1>7 DEF lapiVars
  <2> QED
    BY <1>1, <2>1 DEF StageStep
<1>8. CASE UNCHANGED vars
  <2>1. UNCHANGED <<lapiVars, Rest>>
    BY <1>8 DEF vars, lapiVars, Rest, catVars, adminVars
  <2> QED
    BY <1>7, <2>1
<1>9. ASSUME NEW t \in clock..clock + 1, NewAlert(t) PROVE CatInv'
  BY <1>9, NewAlertStep
<1> QED
  BY <1>4, <1>5, <1>6, <1>7, <1>8, <1>9 DEF Next

LEMMA CountedFacts ==
    ASSUME CatInv
    PROVE  CountedOnce /\ WaitsForScan
<1>0. SessionTypes /\ OpTypes /\ OwnerInv /\ SoundInv
  BY DEF CatInv
<1>1. CountedOnce
  <2> SUFFICES ASSUME NEW s \in Session, NEW a \in Alert
               PROVE  /\ sess[s].counted[a] <= 1
                      /\ a \in sess[s].known \cap Attack /\ ~sess[s].truncated =>
                             sess[s].counted[a] = IF a \in ToCome(s) THEN 0 ELSE 1
    BY DEF CountedOnce
  <2>1. Sound(time, sess[s])
    BY <1>0 DEF SoundInv
  <2> QED
    BY <2>1 DEF Sound, ToCome
<1>2. WaitsForScan
  <2> SUFFICES ASSUME NEW r \in Req, op[r].kind = "wait"
               PROVE  LET owner == sess[op[r].session].owner
                      IN  owner # NoReq /\ op[owner].kind = "scan" /\ op[owner].session = op[r].session
    BY DEF WaitsForScan
  <2>1. op[r].session \in Session
    BY <1>0, OpFacts DEF OpTypes
  <2> QED
    BY <1>0, <2>1 DEF OwnerInv
<1> QED
  BY <1>1, <1>2

LEMMA CatInvariant == Spec => [](LapiTypes /\ CatInv /\ PeerInv)
<1>1. Init => LapiTypes /\ CatInv /\ PeerInv
  BY LapiTypeInit, CatInit
<1>2. (LapiTypes /\ CatInv /\ PeerInv) /\ [Next]_vars => (LapiTypes /\ CatInv /\ PeerInv)'
  BY LapiStep, LapiTypeStep, CatStep, PeerStep
<1> QED
  BY <1>1, <1>2, PTL DEF Spec

\* Whatever requests run together, wait, fail half way or lose their session, a session of the
\* catalogue has counted every attack its cursor has passed, and once.
THEOREM CountedOnceTheorem == Spec => []CountedOnce
<1>1. LapiTypes /\ CatInv /\ PeerInv => CountedOnce
  BY CountedFacts
<1> QED
  BY <1>1, CatInvariant, PTL

\* A request that waits for the scan of another is never left behind: the scan is under way.
THEOREM WaitsForScanTheorem == Spec => []WaitsForScan
<1>1. LapiTypes /\ CatInv /\ PeerInv => WaitsForScan
  BY CountedFacts
<1> QED
  BY <1>1, CatInvariant, PTL

-----------------------------------------------------------------------------
(* The changes and their entries.                                          *)
Changing == {"change", "control", "served", "left"}

\* While a request changes something its entry says so; whether the change has been carried out
\* shows in the stage of its call, and for a switch in whether it has been answered.
Audited(r) ==
    /\ changes[r] <= 1
    /\ (changes[r] = 1 => audit[r] # "none")
    /\ (audit[r] = "done" => changes[r] = 1)
    /\ (reply[r].logged => audit[r] \in {"done", "requested"})
    /\ (op[r].kind \in Changing => audit[r] = "requested")
    /\ (op[r].kind \in Changing \ {"change"} => changes[r] = 0)
    /\ (op[r].kind = "change" =>
           (call[r].stage \in Sending => changes[r] = 0) /\ (call[r].stage \in CarriedStages => changes[r] = 1))
AuditInv == AuditTypes /\ \A r \in Req : Audited(r)

\* A step that changes nothing for a request but, perhaps, ends it.
Quietly(x) ==
    /\ audit'[x] = audit[x] /\ changes'[x] = changes[x] /\ (reply'[x].logged => reply[x].logged)
    /\ (op'[x].kind \in Changing =>
           /\ op[x].kind \in Changing
           /\ (op'[x].kind = "change" <=> op[x].kind = "change"))
    /\ (op'[x].kind = "change" => StageStep(x))

LEMMA AuditSame == ASSUME NEW x \in Req, Audited(x), Quietly(x) PROVE Audited(x)'
BY DEF Audited, Quietly, StageStep, Changing

LEMMA StagesDiffer == Sending \cap CarriedStages = {} /\ "login" \in Sending /\ "send" \in Sending /\ "ok" \in CarriedStages
BY DEF Sending, CarriedStages

LEMMA AllQuietly ==
    ASSUME AuditInv, UNCHANGED adminVars, \A x \in Req : Quietly(x)
    PROVE  AuditInv'
<1>1. AuditTypes'
  BY DEF AuditInv, AuditTypes, adminVars
<1>2. \A x \in Req : Audited(x)'
  BY AuditSame DEF AuditInv
<1> QED
  BY <1>1, <1>2 DEF AuditInv

\* A step of one request that changes something.
LEMMA OneAudited ==
    ASSUME AuditInv, NEW r \in Req, AuditTypes', Audited(r)',
           \A x \in Req \ {r} : /\ op'[x] = op[x] /\ call'[x] = call[x]
                                /\ audit'[x] = audit[x] /\ changes'[x] = changes[x]
                                /\ (reply'[x].logged => reply[x].logged)
    PROVE  AuditInv'
<1>1. \A x \in Req \ {r} : Quietly(x)
  BY DEF Quietly, StageStep
<1>2. \A x \in Req : Audited(x)'
  BY <1>1, AuditSame DEF AuditInv
<1> QED
  BY <1>2 DEF AuditInv

LEMMA AuditInit == ASSUME Init PROVE AuditInv
<1>1. /\ op = [r \in Req |-> Idle] /\ reply = [r \in Req |-> NoReply]
      /\ audit = [r \in Req |-> "none"] /\ changes = [r \in Req |-> 0]
  BY DEF Init
<1>2. Idle.kind = "idle" /\ NoReply.logged = FALSE
  BY DEF Idle, NoReply
<1> QED
  BY <1>1, <1>2 DEF AuditInv, AuditTypes, Audited, Changing

LEMMA RequestAudited ==
    ASSUME LapiTypes, OpTypes, AuditInv, NEW r \in Req,
           Change(r) \/ Switch(r) \/ ServeChange(r) \/ LoseChange(r) \/ ChangeRefused(r)
    PROVE  AuditInv'
<1>0. /\ AuditTypes /\ Audited(r)
      /\ audit \in [Req -> {"none", "requested", "done", "failed"}] /\ changes \in [Req -> Nat]
  BY DEF AuditInv, AuditTypes
<1>1. CASE Change(r)
  <2>1. /\ audit' = [audit EXCEPT ![r] = "requested"] /\ changes' = [changes EXCEPT ![r] = 0] /\ reply' = reply
    BY <1>1 DEF Change
  <2>2. /\ OtherOp(r) /\ op'[r].kind = "change" /\ call'[r].stage = "login"
    BY <1>1, ChangeAside
  <2>3. AuditTypes'
    BY <1>0, <2>1 DEF AuditTypes
  <2>4. Audited(r)'
    BY <1>0, <2>1, <2>2, StagesDiffer DEF Audited, Changing
  <2>5. \A x \in Req \ {r} : /\ op'[x] = op[x] /\ call'[x] = call[x]
                             /\ audit'[x] = audit[x] /\ changes'[x] = changes[x]
                             /\ (reply'[x].logged => reply[x].logged)
    BY <1>0, <2>1, <2>2 DEF OtherOp
  <2> QED
    BY <2>3, <2>4, <2>5, OneAudited
<1>2. CASE Switch(r)
  <2>1. /\ audit' = [audit EXCEPT ![r] = "requested"] /\ changes' = [changes EXCEPT ![r] = 0] /\ reply' = reply
    BY <1>2 DEF Switch
  <2>2. /\ OtherOp(r) /\ op'[r].kind = "control"
    BY <1>2, SwitchGoes DEF Goes
  <2>3. AuditTypes'
    BY <1>0, <2>1 DEF AuditTypes
  <2>4. Audited(r)'
    BY <1>0, <2>1, <2>2 DEF Audited, Changing
  <2>5. \A x \in Req \ {r} : /\ op'[x] = op[x] /\ call'[x] = call[x]
                             /\ audit'[x] = audit[x] /\ changes'[x] = changes[x]
                             /\ (reply'[x].logged => reply[x].logged)
    BY <1>0, <2>1, <2>2 DEF OtherOp
  <2> QED
    BY <2>3, <2>4, <2>5, OneAudited
<1>3. CASE ServeChange(r) \/ LoseChange(r)
  <2>1. /\ op[r].kind = "change" /\ Serves(r) /\ changes' = [changes EXCEPT ![r] = @ + 1]
        /\ UNCHANGED <<op, audit, reply>>
    BY <1>3 DEF ServeChange, LoseChange, Serves, CarriedOut
  <2>2. /\ call[r].stage = "send" /\ call'[r].stage \in CarriedStages
        /\ \A x \in Req \ {r} : call'[x] = call[x]
    BY <2>1, ServesStages
  <2>3. changes[r] = 0 /\ changes'[r] = 1
    BY <1>0, <2>1, <2>2, StagesDiffer DEF Audited
  <2>4. AuditTypes'
    BY <1>0, <2>1, <2>3 DEF AuditTypes
  <2>5. Audited(r)'
    BY <1>0, <2>1, <2>2, <2>3, StagesDiffer DEF Audited, Changing
  <2>6. \A x \in Req \ {r} : changes'[x] = changes[x]
    BY <1>0, <2>1
  <2> QED
    BY <2>1, <2>2, <2>4, <2>5, <2>6, OneAudited
<1>4. CASE ChangeRefused(r)
  <2>1. /\ audit' = [audit EXCEPT ![r] = "none"] /\ changes' = [changes EXCEPT ![r] = 0]
    BY <1>4 DEF ChangeRefused
  <2>2. /\ UNCHANGED <<op, call>> /\ op[r].kind = "idle" /\ ~reply'[r].logged
        /\ \A x \in Req \ {r} : reply'[x] = reply[x]
    BY <1>4, ChangeRefusedFacts
  <2>3. AuditTypes'
    BY <1>0, <2>1 DEF AuditTypes
  <2>4. Audited(r)'
    BY <1>0, <2>1, <2>2 DEF Audited, Changing
  <2>5. \A x \in Req \ {r} : audit'[x] = audit[x] /\ changes'[x] = changes[x]
    BY <1>0, <2>1
  <2> QED
    BY <2>2, <2>3, <2>4, <2>5, OneAudited
<1> QED
  BY <1>1, <1>2, <1>3, <1>4

LEMMA FinishAudited ==
    ASSUME LapiTypes, OpTypes, AuditInv, NEW r \in Req, op[r].kind = "change",
           NEW final \in {"done", "failed"}, NEW status \in {"ok", "error"}, Finish(r, final, status),
           final = "done" => call[r].stage = "ok", status = "ok" => final = "done"
    PROVE  AuditInv'
<1>0. /\ AuditTypes /\ Audited(r)
      /\ audit \in [Req -> {"none", "requested", "done", "failed"}] /\ changes \in [Req -> Nat]
  BY DEF AuditInv, AuditTypes
<1>1. /\ OtherOp(r) /\ changes' = changes /\ op'[r].kind = "idle"
      /\ \A x \in Req \ {r} : reply'[x] = reply[x]
      /\ \/ audit' = [audit EXCEPT ![r] = final] /\ (reply'[r].logged <=> status = "ok")
         \/ audit' = audit /\ ~reply'[r].logged
  BY FinishAside
<1>2. final = "done" => changes[r] = 1
  BY <1>0, StagesDiffer DEF Audited
<1>3. AuditTypes' /\ \A x \in Req \ {r} : audit'[x] = audit[x]
  BY <1>0, <1>1 DEF AuditTypes
<1>4. Audited(r)'
  BY <1>0, <1>1, <1>2 DEF Audited, Changing
<1> QED
  BY <1>1, <1>3, <1>4, OneAudited DEF OtherOp

LEMMA VerbAudited ==
    ASSUME OpTypes, PeerInv, AuditInv, NEW r \in Req, Verb(r)
    PROVE  AuditInv'
<1>0. /\ AuditTypes /\ Audited(r)
      /\ audit \in [Req -> {"none", "requested", "done", "failed"}] /\ changes \in [Req -> Nat]
  BY DEF AuditInv, AuditTypes
<1>1. /\ op[r].kind \in {"served", "left"} /\ op'[r].kind = "idle" /\ OtherOp(r) /\ UNCHANGED call
      /\ \A x \in Req : reply'[x].logged => reply[x].logged
  BY VerbGoes DEF Goes
<1>2. audit' = audit /\ (changes' = changes \/ changes' = [changes EXCEPT ![r] = @ + 1])
  BY DEF Verb, CarriedOut
<1>3. audit[r] = "requested" /\ changes[r] = 0
  BY <1>0, <1>1 DEF Audited, Changing
<1>4. /\ AuditTypes' /\ changes'[r] \in {0, 1} /\ \A x \in Req \ {r} : changes'[x] = changes[x]
  BY <1>0, <1>2, <1>3 DEF AuditTypes
<1>5. Audited(r)'
  BY <1>0, <1>1, <1>2, <1>3, <1>4 DEF Audited, Changing
<1> QED
  BY <1>1, <1>2, <1>4, <1>5, OneAudited DEF OtherOp

LEMMA AuditStep ==
    ASSUME LapiTypes, CatInv, PeerInv, AuditInv, [Next]_vars
    PROVE  AuditInv'
<1>0. OpTypes /\ SessionTypes
  BY DEF CatInv
<1>1. ASSUME UNCHANGED Rest, \A x \in Req : StageStep(x) PROVE AuditInv'
  <2>1. \A x \in Req : Quietly(x)
    BY <1>1 DEF Rest, adminVars, Quietly
  <2> QED
    BY <1>1, <2>1, AllQuietly DEF Rest
<1>2. ASSUME NEW r \in Req, Reads(r) PROVE AuditInv'
  <2>1. \A x \in Req : \/ op[x].kind \in Reading /\ op'[x].kind \in Reading
                       \/ op'[x] = op[x] /\ call'[x] = call[x]
    BY <1>0, <1>2, ReadsOps
  <2>2. UNCHANGED adminVars /\ \A x \in Req : reply'[x].logged => reply[x].logged
    BY <1>2, ReadsReplies
  <2>3. \A x \in Req : Quietly(x)
    BY <2>1, <2>2 DEF Quietly, Reading, Changing, StageStep, adminVars
  <2> QED
    BY <2>2, <2>3, AllQuietly
<1>3. ASSUME NEW r \in Req, NEW from \in {{"control"}, {"served"}, {"served", "left"}}, NEW to \in {"served", "left", "idle"},
             Goes(r, from, to), UNCHANGED adminVars
      PROVE  AuditInv'
  <2>1. \A x \in Req : Quietly(x)
    BY <1>3 DEF Goes, OtherOp, Quietly, Changing, StageStep, adminVars
  <2> QED
    BY <1>3, <2>1, AllQuietly
<1>4. ASSUME NEW r \in Req, SwitchStep(r) PROVE AuditInv'
  <2>1. CASE Switch(r)
    BY <1>0, <2>1, RequestAudited
  <2>2. CASE Connect(r)
    BY <1>0, <1>3, <2>2, ConnectGoes DEF Connect
  <2>3. CASE VerbLost(r)
    BY <1>0, <1>3, <2>3, VerbGoes DEF VerbLost
  <2>4. CASE GiveUpVerb(r)
    BY <1>0, <1>3, <2>4, GiveUpVerbGoes DEF GiveUpVerb
  <2>5. CASE Verb(r)
    BY <1>0, <2>5, VerbAudited
  <2> QED
    BY <1>4, <2>1, <2>2, <2>3, <2>4, <2>5 DEF SwitchStep
<1>5. ASSUME NEW r \in Req, Progress(r) \/ Arrive(r) PROVE AuditInv'
  <2>1. CASE Passes(r) /\ UNCHANGED Rest
    BY <1>1, <2>1, PassesStages
  <2>2. CASE Reads(r)
    BY <1>2, <2>2
  <2>3. CASE ServeChange(r) \/ LoseChange(r) \/ Change(r) \/ ChangeRefused(r)
    BY <1>0, <2>3, RequestAudited
  <2>4. CASE ChangeMade(r)
    BY <1>0, <2>4, FinishAudited DEF ChangeMade
  <2>5. CASE ChangeFailed(r)
    BY <1>0, <2>5, FinishAudited DEF ChangeFailed
  <2> QED
    BY <1>5, <2>1, <2>2, <2>3, <2>4, <2>5 DEF Arrive, Progress, Reads, Passes
<1>6. CASE World /\ UNCHANGED Rest
  <2>1. call' = call
    BY <1>6 DEF World, ReplaceKeyFile, ReplaceKey, Restart, CacheExpires
  <2> QED
    BY <1>1, <1>6, <2>1 DEF StageStep
<1>7. CASE UNCHANGED <<lapiVars, Rest>>
  <2>1. call' = call /\ UNCHANGED Rest
    BY <1>7 DEF lapiVars
  <2> QED
    BY <1>1, <2>1 DEF StageStep
<1>8. CASE UNCHANGED vars
  <2>1. UNCHANGED <<lapiVars, Rest>>
    BY <1>8 DEF vars, lapiVars, Rest, catVars, adminVars
  <2> QED
    BY <1>7, <2>1
<1>9. ASSUME NEW t \in clock..clock + 1, NewAlert(t) PROVE AuditInv'
  <2>1. UNCHANGED <<call, op, reply, adminVars>>
    BY <1>9 DEF NewAlert
  <2>2. \A x \in Req : Quietly(x)
    BY <2>1 DEF Quietly, StageStep, adminVars
  <2> QED
    BY <2>1, <2>2, AllQuietly
<1> QED
  BY <1>4, <1>5, <1>6, <1>7, <1>8, <1>9 DEF Next

LEMMA AuditInvariant == Spec => [](LapiTypes /\ CatInv /\ PeerInv /\ AuditInv)
<1>1. Init => LapiTypes /\ CatInv /\ PeerInv /\ AuditInv
  BY LapiTypeInit, CatInit, AuditInit
<1>2. (LapiTypes /\ CatInv /\ PeerInv /\ AuditInv) /\ [Next]_vars => (LapiTypes /\ CatInv /\ PeerInv /\ AuditInv)'
  BY LapiStep, LapiTypeStep, CatStep, PeerStep, AuditStep
<1> QED
  BY <1>1, <1>2, PTL DEF Spec

\* A change is carried out at most once and only after its audit entry, and neither the entry nor
\* the answer says more than was done.
THEOREM ChangesAuditedTheorem == Spec => []ChangesAudited
<1>1. LapiTypes /\ CatInv /\ PeerInv /\ AuditInv => ChangesAudited
  BY DEF AuditInv, Audited, ChangesAudited
<1> QED
  BY <1>1, AuditInvariant, PTL

\* Every variable of the dashboard's CrowdSec keeps its type, and no more sessions are live than
\* the limit allows.
THEOREM CrowdsecTypeCorrect == Spec => []TypeOK
<1>1. Init => budget \in Budget
  BY SceneAssumption DEF Init
<1>2. budget \in Budget /\ [Next]_vars => (budget \in Budget)'
  BY BudgetStep
<1>3. Spec => [](budget \in Budget)
  BY <1>1, <1>2, PTL DEF Spec
<1>4. (LapiTypes /\ CatInv /\ PeerInv /\ AuditInv) /\ (CrsTypeOK /\ CrsInv) /\ budget \in Budget => TypeOK
  BY TypesAre DEF CatInv, AuditInv
<1> QED
  BY <1>3, <1>4, AuditInvariant, SwitchInvariant, PTL

-----------------------------------------------------------------------------
(* The invariant.                                                           *)

\* What lies before the saved position, and before that of a run, has been banned.
PassedInv ==
    /\ ~saved.known => saved.pos = 0
    /\ \A k \in 1..Len(saved.print) : saved.print[k] \in banned \cup Junk
    /\ \A k \in 1..bridge.pos : bridge.copy[k].ip \in banned \cup Junk
    /\ bridge.pc = "position" =>
          saved.known /\ saved.print = Text0(bridge.copy, bridge.pos)

\* The lines of a file are numbered upwards.
Numbered(s) ==
    /\ \A i \in 1..Len(s) : s[i].n \in 1..lines
    /\ \A i, j \in 1..Len(s) : i < j => s[i].n < s[j].n

\* The file still begins with the copy of a run, or was started anew after it was made.
Grown == Len(bridge.copy) <= Len(addrs) /\ \A k \in 1..Len(bridge.copy) : addrs[k] = bridge.copy[k]
Anew == \A i \in 1..Len(addrs), j \in 1..Len(bridge.copy) : bridge.copy[j].n < addrs[i].n
OrderInv == Numbered(addrs) /\ Numbered(bridge.copy) /\ (Grown \/ Anew)

\* A line that is still to be banned, and not for the first time, is so after a run that was cut.
Fresh(k) == commands[addrs[k].n] = 0
ReplayInv ==
    /\ \A n \in 1..lines : commands[n] <= 1 + cuts
    /\ bridge.pc = "idle" =>
          \A k \in 1..Len(addrs) : k > Resume(addrs) => commands[addrs[k].n] <= cuts
    /\ bridge.pc # "idle" =>
          /\ \A k \in 1..Len(bridge.copy) : k > bridge.pos => commands[bridge.copy[k].n] <= cuts
          /\ \A k \in 1..Len(addrs) : Anew \/ k > Len(bridge.copy) => Fresh(k)

\* The ledger is about the beginning of a text, or no line of the text has been recorded.
Recorded(l, events, t) ==
    /\ l.offset <= Len(t) /\ Text0(t, l.offset) = l.print
    /\ \A e \in events, k \in 1..Len(t) :
          e.n = t[k].n => e.gen = l.gen /\ e.at = k /\ k <= l.offset
Unknown(events, t) == \A e \in events, k \in 1..Len(t) : e.n # t[k].n
Meets(l, events, t) == Recorded(l, events, t) \/ Unknown(events, t)

\* The file still begins with what was read, or was started anew; what was written since is not
\* recorded.
Longer == Len(reader.text) <= Len(addrs) /\ \A k \in 1..Len(reader.text) : addrs[k] = reader.text[k]
Renewed == \A i \in 1..Len(addrs), j \in 1..Len(reader.text) : reader.text[j].n < addrs[i].n
LedgerInv ==
    /\ \A e \in observed :
          /\ e.n \in 1..lines /\ e.gen \in Nat /\ e.at \in Nat /\ e.gen <= ledger.gen
          /\ e.gen = ledger.gen => e.at <= ledger.offset
    /\ ledger.gen = 0 => ledger = NoLedger /\ observed = {}
    /\ Len(ledger.print) = ledger.offset
    /\ ObservedOnce
ReadInv ==
    /\ reader.pc = "idle" => Meets(ledger, observed, addrs)
    /\ reader.pc = "record" =>
          /\ Numbered(reader.text) /\ Meets(ledger, observed, reader.text)
          /\ Longer \/ Renewed
          /\ \A k \in 1..Len(addrs) : Renewed \/ k > Len(reader.text) =>
                \A e \in observed : e.n # addrs[k].n

PotInv == PassedInv /\ OrderInv /\ ReplayInv /\ LedgerInv /\ ReadInv

-----------------------------------------------------------------------------
(* Texts and positions.                                                     *)
LEMMA Elements ==
    ASSUME NEW S, NEW s \in Seq(S)
    PROVE  Len(s) \in Nat /\ \A i \in 1..Len(s) : s[i] \in S
  OBVIOUS

LEMMA TextFacts ==
    ASSUME NEW s \in Lines, NEW k \in Nat
    PROVE  /\ Text0(s, k) \in Printed
           /\ k <= Len(s) => Len(Text0(s, k)) = k
           /\ \A i \in 1..Len(Text0(s, k)) : i <= k /\ i <= Len(s) /\ Text0(s, k)[i] = s[i].ip
<1> DEFINE m == Min2(k, Len(s))
<1>1. m \in Nat /\ m <= k /\ m <= Len(s) /\ (k <= Len(s) => m = k)
  BY DEF Min2, Lines
<1>2. \A i \in 1..Len(s) : s[i].ip \in Addr \cup Junk
  <2>1. \A i \in 1..Len(s) : s[i] \in [ip : Addr \cup Junk, n : Nat]
    BY Elements DEF Lines
  <2> QED
    BY <2>1
<1>3. Text0(s, k) = [i \in 1..m |-> s[i].ip]
  BY DEF Text0
<1> HIDE DEF m
<1>4. Text0(s, k) \in Printed /\ Len(Text0(s, k)) = m
  BY <1>1, <1>2, <1>3 DEF Printed
<1> QED
  BY <1>1, <1>3, <1>4

LEMMA ResumeFacts ==
    ASSUME PotTypeOK, NEW s \in Lines
    PROVE  /\ Resume(s) \in 0..Len(s)
           /\ Resume(s) # 0 => /\ Resume(s) = saved.pos
                               /\ saved.known => Text0(s, saved.pos) = saved.print
  BY DEF Resume, PotTypeOK, Lines

\* What the next run would skip has been banned.
LEMMA SkippedIsBanned ==
    ASSUME PotTypeOK, PassedInv
    PROVE  \A k \in 1..Resume(addrs) : addrs[k].ip \in banned \cup Junk
<1> SUFFICES ASSUME NEW k \in 1..Resume(addrs) PROVE addrs[k].ip \in banned \cup Junk
  OBVIOUS
<1>1. addrs \in Lines /\ saved.pos \in Nat /\ saved.known \in BOOLEAN
  BY DEF PotTypeOK
<1>2. Resume(addrs) = saved.pos /\ saved.known /\ Text0(addrs, saved.pos) = saved.print
      /\ Resume(addrs) \in 0..Len(addrs)
  BY <1>1, ResumeFacts DEF PassedInv
<1>3. Len(saved.print) = saved.pos /\ saved.print[k] = addrs[k].ip
  BY <1>1, <1>2, TextFacts
<1> QED
  BY <1>2, <1>3 DEF PassedInv

-----------------------------------------------------------------------------
(* Types.                                                                   *)
BridgeTypes ==
    /\ addrs \in Lines /\ lines \in Nat
    /\ saved \in [pos : Nat, known : BOOLEAN, print : Printed]
    /\ bridge \in [pc : {"idle", "ban", "print", "position"}, copy : Lines, pos : Nat]
    /\ bridge.pos <= Len(bridge.copy)
    /\ banned \subseteq Addr /\ commands \in Seq(Nat) /\ Len(commands) = lines /\ cuts \in Nat
ReaderTypes ==
    /\ ledger \in [gen : Nat, offset : Nat, print : Printed, base : Nat]
    /\ reader \in [pc : {"idle", "record"}, text : Lines]

LEMMA TypesMeet == PotTypeOK <=> BridgeTypes /\ ReaderTypes
  BY DEF PotTypeOK, BridgeTypes, ReaderTypes

LEMMA PotTypeInit == ASSUME NEW bounds, PotInit(bounds) PROVE PotTypeOK
<1>1. <<>> \in Lines /\ <<>> \in Printed /\ <<>> \in Seq(Nat) /\ Len(<<>>) = 0
  BY DEF Lines, Printed
<1> QED
  BY <1>1 DEF PotInit, PotTypeOK, Quiet0, Unread, NoLedger

LEMMA CatchType ==
    ASSUME BridgeTypes, NEW ip \in Addr \cup Junk, Catch(ip)
    PROVE  BridgeTypes'
<1> DEFINE line == [ip |-> ip, n |-> lines + 1]
<1>1. line \in [ip : Addr \cup Junk, n : Nat]
  BY DEF BridgeTypes
<1>2. addrs' = Append(addrs, line) /\ lines' = lines + 1 /\ commands' = Append(commands, 0)
      /\ UNCHANGED <<saved, bridge, banned, cuts>>
  BY DEF Catch
<1> HIDE DEF line
<1>3. addrs' \in Lines
  BY <1>1, <1>2 DEF BridgeTypes, Lines
<1>4. commands' \in Seq(Nat) /\ Len(commands') = lines'
  BY <1>2 DEF BridgeTypes
<1> QED
  BY <1>2, <1>3, <1>4 DEF BridgeTypes

\* The accepted ban is counted for its line.
LEMMA AcceptFacts ==
    ASSUME BridgeTypes, Numbered(bridge.copy), MoreLines, Line.ip \in Addr, Accept,
           UNCHANGED lines
    PROVE  /\ banned' \subseteq Addr /\ banned \subseteq banned' /\ Line.ip \in banned'
           /\ commands' \in Seq(Nat) /\ Len(commands') = lines
           /\ Line.n \in 1..lines /\ commands'[Line.n] = commands[Line.n] + 1
           /\ \A n \in 1..lines : n # Line.n => commands'[n] = commands[n]
<1>1. Line.n \in 1..lines
  BY DEF BridgeTypes, Numbered, MoreLines, Line
<1>2. commands \in Seq(Nat) /\ Len(commands) = lines
      /\ commands' = [commands EXCEPT ![Line.n] = @ + 1]
  BY DEF BridgeTypes, Accept
<1>3. \A n \in 1..lines : commands[n] \in Nat
  BY <1>2
<1>4. commands' \in Seq(Nat) /\ Len(commands') = lines
  BY <1>1, <1>2, <1>3
<1>5. commands'[Line.n] = commands[Line.n] + 1
      /\ \A n \in 1..lines : n # Line.n => commands'[n] = commands[n]
  BY <1>1, <1>2
<1> QED
  BY <1>1, <1>4, <1>5 DEF Accept, BridgeTypes

LEMMA BridgeTypeStep ==
    ASSUME BridgeTypes, Numbered(bridge.copy), NEW up, PotNext(up)
    PROVE  BridgeTypes'
<1> USE DEF BridgeTypes
<1>0. <<>> \in Lines /\ Len(<<>>) = 0 /\ Len(bridge.copy) \in Nat /\ Len(addrs) \in Nat
  BY DEF Lines
<1>q. Quiet0 \in [pc : {"idle", "ban", "print", "position"}, copy : Lines, pos : Nat]
      /\ Quiet0.pos <= Len(Quiet0.copy)
  BY <1>0 DEF Quiet0
<1>1. ASSUME NEW ip \in Addr \cup Junk, Catch(ip) PROVE BridgeTypes'
  BY <1>1, CatchType
<1>2. CASE StartAnew
  BY <1>2, <1>0 DEF StartAnew
<1>3. CASE Run
  <2>1. Resume(addrs) \in 0..Len(addrs)
    BY DEF Resume, Lines
  <2> QED
    BY <1>0, <1>3, <2>1 DEF Run
<1>4. CASE Pass
  <2>1. bridge.pos \in Nat /\ bridge.pos < Len(bridge.copy) /\ Len(bridge.copy) \in Nat
    BY <1>0, <1>4, Elements DEF Pass, MoreLines, Lines
  <2>2. bridge'.copy = bridge.copy /\ bridge'.pos = bridge.pos + 1
        /\ bridge' \in [pc : {"idle", "ban", "print", "position"}, copy : Lines, pos : Nat]
    BY <1>0, <1>4, <2>1 DEF Pass
  <2>3. UNCHANGED <<addrs, lines, saved, banned, commands, cuts>>
    BY <1>4 DEF Pass
  <2>4. bridge'.pos <= Len(bridge'.copy)
    BY <2>1, <2>2
  <2> QED
    BY <2>2, <2>3, <2>4
<1>5. CASE Ban
  <2>1. banned' \subseteq Addr /\ commands' \in Seq(Nat) /\ Len(commands') = lines
    BY <1>5, AcceptFacts DEF Ban
  <2>2. UNCHANGED <<addrs, lines, saved, cuts>> /\ bridge' = [bridge EXCEPT !.pos = @ + 1]
        /\ bridge.pos < Len(bridge.copy)
    BY <1>5 DEF Ban, MoreLines
  <2>3. bridge'.pc = bridge.pc /\ bridge'.copy = bridge.copy /\ bridge'.pos \in Nat
        /\ bridge'.pos <= Len(bridge.copy)
    BY <1>0, <1>5, <2>2 DEF Ban, MoreLines
  <2> QED
    BY <2>1, <2>2, <2>3
<1>6. CASE BanFails
  BY <1>6 DEF BanFails, MoreLines
<1>7. CASE BanLost
  <2>1. banned' \subseteq Addr /\ commands' \in Seq(Nat) /\ Len(commands') = lines
    BY <1>7, AcceptFacts DEF BanLost
  <2> QED
    BY <1>7, <2>1 DEF BanLost, MoreLines
<1>8. CASE NoMore
  BY <1>8 DEF NoMore
<1>9. CASE SavePrint
  <2>1. Text0(bridge.copy, bridge.pos) \in Printed
    BY TextFacts
  <2> QED
    BY <1>9, <2>1 DEF SavePrint
<1>10. CASE SavePosition
  <2>1. saved' \in [pos : Nat, known : BOOLEAN, print : Printed]
    BY <1>10 DEF SavePosition
  <2>2. bridge' = Quiet0 /\ UNCHANGED <<addrs, lines, banned, commands, cuts>>
    BY <1>10 DEF SavePosition
  <2> QED
    BY <1>q, <2>1, <2>2
<1>11. CASE CutShort
  BY <1>11, <1>q DEF CutShort
<1>12. CASE ReadLog \/ Record \/ DropText
  BY <1>12 DEF ReadLog, Record, DropText
<1> QED
  BY <1>1, <1>2, <1>3, <1>4, <1>5, <1>6, <1>7, <1>8, <1>9, <1>10, <1>11, <1>12
     DEF PotNext, AskBan

LEMMA ReaderTypeStep ==
    ASSUME BridgeTypes, ReaderTypes, NEW up, PotNext(up)
    PROVE  ReaderTypes'
<1>1. CASE ReadLog
  BY <1>1 DEF ReadLog, BridgeTypes, ReaderTypes
<1>2. CASE Record
  <2> DEFINE text  == reader.text
             first == ledger = NoLedger
             new   == first \/ Reset(text)
             from  == IF first THEN Len(text) ELSE IF new THEN 0 ELSE ledger.offset
             to    == Min2(Len(text), from + Share)
  <2>1. Len(text) \in Nat /\ text \in Lines
    BY DEF ReaderTypes, Lines
  <2>2. from \in Nat /\ to \in Nat
    BY <2>1, LineAssumption DEF Min2, ReaderTypes
  <2>3. Text0(text, to) \in Printed
    BY <2>1, <2>2, TextFacts
  <2>4. Unread \in [pc : {"idle", "record"}, text : Lines]
    BY DEF Unread, Lines
  <2>5. /\ ledger' = [gen |-> IF new THEN ledger.gen + 1 ELSE ledger.gen, offset |-> to,
                      print |-> Text0(text, to), base |-> IF new THEN from ELSE ledger.base]
        /\ reader' = Unread
    BY <1>2 DEF Record
  <2> HIDE DEF to, from, new
  <2> QED
    BY <2>2, <2>3, <2>4, <2>5 DEF ReaderTypes
<1>3. CASE DropText
  <2>1. Unread \in [pc : {"idle", "record"}, text : Lines]
    BY DEF Unread, Lines
  <2> QED
    BY <1>3, <2>1 DEF DropText, ReaderTypes
<1>4. CASE UNCHANGED <<ledger, reader>>
  BY <1>4 DEF ReaderTypes
<1> QED
  BY <1>1, <1>2, <1>3, <1>4
     DEF PotNext, AskBan, Catch, StartAnew, Run, Pass, Ban, BanFails, BanLost, NoMore, SavePrint,
         SavePosition, CutShort

-----------------------------------------------------------------------------
(* What has been passed.                                                    *)
LEMMA PassedStep ==
    ASSUME PotTypeOK, PassedInv, Numbered(bridge.copy), NEW up, PotNext(up)
    PROVE  PassedInv'
<1>0. BridgeTypes /\ Len(bridge.copy) \in Nat
  BY TypesMeet DEF BridgeTypes, Lines
<1>1. CASE UNCHANGED <<saved, bridge, banned>>
  BY <1>1 DEF PassedInv
<1>2. CASE Run
  <2>1. \A k \in 1..Resume(addrs) : addrs[k].ip \in banned \cup Junk
    BY SkippedIsBanned
  <2>2. bridge' = [pc |-> "ban", copy |-> addrs, pos |-> Resume(addrs)]
        /\ UNCHANGED <<saved, banned>>
    BY <1>2 DEF Run
  <2> QED
    BY <2>1, <2>2 DEF PassedInv
<1>3. CASE Pass
  <2>1. bridge' = [bridge EXCEPT !.pos = @ + 1] /\ UNCHANGED <<saved, banned>>
        /\ bridge.copy[bridge.pos + 1].ip \in Junk /\ bridge.pc = "ban"
    BY <1>3 DEF Pass, MoreLines, Line
  <2>2. bridge'.copy = bridge.copy /\ bridge'.pos = bridge.pos + 1 /\ bridge'.pc = "ban"
        /\ bridge.pos \in Nat
    BY <1>0, <2>1 DEF BridgeTypes
  <2>3. \A k \in 1..bridge'.pos : k \in 1..bridge.pos \/ k = bridge.pos + 1
    BY <2>2
  <2> QED
    BY <2>1, <2>2, <2>3 DEF PassedInv
<1>4. CASE Ban
  <2>1. bridge' = [bridge EXCEPT !.pos = @ + 1] /\ UNCHANGED <<saved, lines>>
        /\ bridge.pc = "ban"
    BY <1>4 DEF Ban, MoreLines
  <2>2. bridge'.copy = bridge.copy /\ bridge'.pos = bridge.pos + 1 /\ bridge'.pc = "ban"
        /\ bridge.pos \in Nat
    BY <1>0, <2>1 DEF BridgeTypes
  <2>3. \A k \in 1..bridge'.pos : k \in 1..bridge.pos \/ k = bridge.pos + 1
    BY <2>2
  <2>4. banned \subseteq banned' /\ bridge.copy[bridge.pos + 1].ip \in banned'
    BY <1>4 DEF Ban, Accept, Line
  <2> QED
    BY <2>1, <2>2, <2>3, <2>4 DEF PassedInv
<1>5. CASE BanFails \/ BanLost \/ NoMore
  <2>1. bridge' = [bridge EXCEPT !.pc = "print"] /\ UNCHANGED saved /\ banned \subseteq banned'
    BY <1>5 DEF BanFails, BanLost, NoMore, Accept
  <2>2. bridge'.copy = bridge.copy /\ bridge'.pos = bridge.pos /\ bridge'.pc = "print"
    BY <1>0, <2>1 DEF BridgeTypes
  <2> QED
    BY <2>1, <2>2 DEF PassedInv
<1>6. CASE SavePrint
  <2> DEFINE text == Text0(bridge.copy, bridge.pos)
  <2>1. \A k \in 1..Len(text) : k \in 1..bridge.pos /\ text[k] = bridge.copy[k].ip
    <3>1. bridge.copy \in Lines /\ bridge.pos \in Nat
      BY <1>0 DEF BridgeTypes
    <3>2. text \in Printed
          /\ \A k \in 1..Len(text) : k <= bridge.pos /\ text[k] = bridge.copy[k].ip
      BY <3>1, TextFacts
    <3>3. Len(text) \in Nat
      BY <3>2, Elements DEF Printed
    <3> QED
      BY <3>1, <3>2, <3>3
  <2> HIDE DEF text
  <2>2. saved' = [saved EXCEPT !.known = TRUE, !.print = text] /\ UNCHANGED banned
        /\ bridge' = [bridge EXCEPT !.pc = "position"]
    BY <1>6 DEF SavePrint, text
  <2>3. saved'.known /\ saved'.print = text /\ bridge'.copy = bridge.copy
        /\ bridge'.pos = bridge.pos
    BY <1>0, <2>2 DEF BridgeTypes
  <2>4. \A k \in 1..Len(text) : text[k] \in banned \cup Junk
    BY <2>1 DEF PassedInv
  <2> QED
    BY <2>2, <2>3, <2>4 DEF PassedInv, text
<1>7. CASE SavePosition
  <2>1. saved' = [saved EXCEPT !.pos = bridge.pos] /\ UNCHANGED banned /\ bridge' = Quiet0
        /\ bridge.pc = "position"
    BY <1>7 DEF SavePosition
  <2>2. saved'.known /\ saved'.print = saved.print
    BY <1>0, <2>1 DEF PassedInv, BridgeTypes
  <2> QED
    BY <2>1, <2>2 DEF PassedInv, Quiet0
<1>8. CASE CutShort
  BY <1>8 DEF CutShort, PassedInv, Quiet0
<1> QED
  BY <1>1, <1>2, <1>3, <1>4, <1>5, <1>6, <1>7, <1>8
     DEF PotNext, AskBan, Catch, StartAnew, ReadLog, Record, DropText

-----------------------------------------------------------------------------
(* The order of the lines.                                                  *)
LEMMA NumberedLater ==
    ASSUME NEW s \in Lines, Numbered(s), lines \in Nat, lines' \in Nat, lines <= lines'
    PROVE  /\ \A i \in 1..Len(s) : s[i].n \in 1..lines'
           /\ \A i, j \in 1..Len(s) : i < j => s[i].n < s[j].n
  BY DEF Numbered

LEMMA OrderStep ==
    ASSUME PotTypeOK, OrderInv, NEW up, PotNext(up)
    PROVE  OrderInv'
<1>0. BridgeTypes /\ BridgeTypes' /\ Len(bridge.copy) \in Nat /\ Len(addrs) \in Nat
  <2>1. BridgeTypes /\ Numbered(bridge.copy)
    BY TypesMeet DEF OrderInv
  <2>2. BridgeTypes'
    BY <2>1, BridgeTypeStep
  <2>3. bridge.copy \in Lines /\ addrs \in Lines
    BY <2>1 DEF BridgeTypes
  <2> QED
    BY <2>1, <2>2, <2>3, Elements DEF Lines
<1>1. CASE UNCHANGED <<addrs, lines>> /\ bridge'.copy = bridge.copy
  BY <1>1 DEF OrderInv, Numbered, Grown, Anew
<1>2. CASE UNCHANGED <<addrs, lines>> /\ bridge' = Quiet0
  BY <1>0, <1>2 DEF OrderInv, Numbered, Grown, Anew, Quiet0
<1>3. ASSUME NEW ip \in Addr \cup Junk, Catch(ip) PROVE OrderInv'
  <2> DEFINE line == [ip |-> ip, n |-> lines + 1]
  <2>1. addrs' = Append(addrs, line) /\ lines' = lines + 1 /\ UNCHANGED bridge /\ line.n = lines + 1
    BY <1>3 DEF Catch
  <2> HIDE DEF line
  <2>2. Len(addrs') = Len(addrs) + 1 /\ addrs'[Len(addrs) + 1] = line
        /\ \A i \in 1..Len(addrs) : addrs'[i] = addrs[i]
    BY <1>0, <2>1 DEF BridgeTypes, Lines
  <2>3. \A i \in 1..Len(addrs') : i \in 1..Len(addrs) \/ i = Len(addrs) + 1
    BY <1>0, <2>2
  <2>4. lines \in Nat
    BY <1>0 DEF BridgeTypes
  <2>5. Numbered(addrs)'
    <3>1. \A i \in 1..Len(addrs) : addrs[i].n \in 1..lines
      BY DEF OrderInv, Numbered
    <3>2. \A i \in 1..Len(addrs') : addrs'[i].n \in 1..lines'
      BY <2>1, <2>2, <2>3, <2>4, <3>1
    <3>3. ASSUME NEW i \in 1..Len(addrs'), NEW j \in 1..Len(addrs'), i < j
          PROVE  addrs'[i].n < addrs'[j].n
      <4>1. i \in 1..Len(addrs)
        BY <1>0, <2>2, <3>3
      <4>2. CASE j \in 1..Len(addrs)
        BY <2>2, <3>3, <4>1, <4>2 DEF OrderInv, Numbered
      <4>3. CASE j = Len(addrs) + 1
        BY <2>1, <2>2, <2>4, <3>1, <4>1, <4>3
      <4> QED
        BY <2>3, <4>2, <4>3
    <3> QED
      BY <3>2, <3>3 DEF Numbered
  <2>6. Numbered(bridge.copy)'
    <3>1. lines' \in Nat /\ lines <= lines' /\ bridge.copy \in Lines /\ Numbered(bridge.copy)
      BY <1>0, <2>1, <2>4 DEF BridgeTypes, OrderInv
    <3> QED
      BY <2>1, <2>4, <3>1, NumberedLater DEF Numbered
  <2>7. CASE Grown
    <3>1. Len(bridge.copy) <= Len(addrs') /\ \A k \in 1..Len(bridge.copy) : addrs'[k] = bridge.copy[k]
      BY <1>0, <2>2, <2>7 DEF Grown
    <3> QED
      BY <2>1, <2>5, <2>6, <3>1 DEF OrderInv, Grown
  <2>8. CASE Anew
    <3>1. \A j \in 1..Len(bridge.copy) : bridge.copy[j].n \in 1..lines
      BY DEF OrderInv, Numbered
    <3>2. \A i \in 1..Len(addrs'), j \in 1..Len(bridge.copy) : bridge.copy[j].n < addrs'[i].n
      BY <2>1, <2>2, <2>3, <2>4, <2>8, <3>1 DEF Anew
    <3> QED
      BY <2>1, <2>5, <2>6, <3>2 DEF OrderInv, Anew
  <2> QED
    BY <2>7, <2>8 DEF OrderInv
<1>4. CASE StartAnew
  <2>1. addrs' = <<>> /\ UNCHANGED <<lines, bridge>>
    BY <1>4 DEF StartAnew
  <2> QED
    BY <2>1 DEF OrderInv, Numbered, Anew
<1>5. CASE Run
  <2>1. bridge'.copy = addrs /\ UNCHANGED <<addrs, lines>>
    BY <1>5 DEF Run
  <2> QED
    BY <1>0, <2>1 DEF OrderInv, Numbered, Grown
<1>6. bridge \in [pc : {"idle", "ban", "print", "position"}, copy : Lines, pos : Nat]
  BY <1>0 DEF BridgeTypes
<1>7. CASE Pass \/ Ban \/ BanFails \/ BanLost \/ NoMore \/ SavePrint
  <2>1. bridge'.copy = bridge.copy
    BY <1>6, <1>7 DEF Pass, Ban, BanFails, BanLost, NoMore, SavePrint
  <2>2. UNCHANGED <<addrs, lines>>
    BY <1>7 DEF Pass, Ban, BanFails, BanLost, NoMore, SavePrint
  <2> QED
    BY <1>1, <2>1, <2>2
<1>8. CASE SavePosition \/ CutShort
  BY <1>2, <1>8 DEF SavePosition, CutShort
<1>9. CASE ReadLog \/ Record \/ DropText
  BY <1>1, <1>9 DEF ReadLog, Record, DropText
<1> QED
  BY <1>3, <1>4, <1>5, <1>7, <1>8, <1>9 DEF PotNext, AskBan

-----------------------------------------------------------------------------
(* How often a line was banned.                                             *)
LEMMA SameText ==
    ASSUME NEW s \in Lines, NEW t \in Lines, NEW p \in Nat, p <= Len(s), p <= Len(t),
           \A k \in 1..p : s[k] = t[k]
    PROVE  Text0(s, p) = Text0(t, p)
<1>1. Len(s) \in Nat /\ Len(t) \in Nat
  BY Elements DEF Lines
<1>2. Min2(p, Len(s)) = p /\ Min2(p, Len(t)) = p
  BY <1>1 DEF Min2
<1> QED
  BY <1>2 DEF Text0

\* A file that grows is gone on with where it was.
LEMMA ResumeGrows ==
    ASSUME BridgeTypes, NEW s \in Lines, NEW t \in Lines, Len(s) <= Len(t),
           \A k \in 1..Len(s) : t[k] = s[k]
    PROVE  Resume(s) <= Resume(t)
<1>1. Len(s) \in Nat /\ Len(t) \in Nat /\ saved.pos \in Nat /\ saved.known \in BOOLEAN
  BY Elements DEF Lines, BridgeTypes
<1>2. Resume(t) \in Nat
  BY <1>1 DEF Resume
<1>3. CASE Resume(s) = 0
  BY <1>2, <1>3
<1>4. CASE Resume(s) # 0
  <2>1. saved.pos <= Len(s) /\ (saved.known => Text0(s, saved.pos) = saved.print)
        /\ Resume(s) = saved.pos
    BY <1>1, <1>4 DEF Resume
  <2>2. Text0(s, saved.pos) = Text0(t, saved.pos)
    <3>1. saved.pos <= Len(t) /\ \A k \in 1..saved.pos : s[k] = t[k]
      BY <1>1, <2>1
    <3> QED
      BY <1>1, <2>1, <3>1, SameText
  <2> QED
    BY <1>1, <2>1, <2>2 DEF Resume
<1> QED
  BY <1>3, <1>4

LEMMA CatchReplay ==
    ASSUME BridgeTypes, OrderInv, ReplayInv, NEW ip \in Addr \cup Junk, Catch(ip)
    PROVE  ReplayInv'
<1> DEFINE line == [ip |-> ip, n |-> lines + 1]
<1>1. addrs' = Append(addrs, line) /\ lines' = lines + 1 /\ commands' = Append(commands, 0)
      /\ UNCHANGED <<saved, bridge, cuts>> /\ line.n = lines + 1
  BY DEF Catch
<1> HIDE DEF line
<1>2. /\ addrs \in Lines /\ addrs' \in Lines /\ Len(addrs) \in Nat /\ Len(bridge.copy) \in Nat
      /\ lines \in Nat /\ cuts \in Nat /\ commands \in Seq(Nat) /\ Len(commands) = lines
  <2>1. BridgeTypes'
    BY CatchType
  <2> QED
    BY <2>1, Elements DEF BridgeTypes, Lines
<1>3. /\ Len(addrs') = Len(addrs) + 1 /\ addrs'[Len(addrs) + 1] = line
      /\ \A i \in 1..Len(addrs) : addrs'[i] = addrs[i]
  BY <1>1, <1>2 DEF Lines
<1>4. commands'[lines + 1] = 0 /\ \A n \in 1..lines : commands'[n] = commands[n]
  BY <1>1, <1>2
<1>5. \A k \in 1..Len(addrs') : k \in 1..Len(addrs) \/ k = Len(addrs) + 1
  BY <1>2, <1>3
<1>6. /\ \A k \in 1..Len(addrs) : addrs[k].n \in 1..lines
      /\ \A k \in 1..Len(bridge.copy) : bridge.copy[k].n \in 1..lines
  BY DEF OrderInv, Numbered
<1>7. \A n \in 1..lines' : commands'[n] <= 1 + cuts'
  BY <1>1, <1>2, <1>4 DEF ReplayInv
<1>8. ASSUME bridge.pc = "idle", NEW k \in 1..Len(addrs'), k > Resume(addrs)'
      PROVE  commands'[addrs'[k].n] <= cuts'
  <2>1. Resume(addrs)' = Resume(addrs')
    BY <1>1 DEF Resume
  <2>2. Resume(addrs) <= Resume(addrs')
    BY <1>2, <1>3, ResumeGrows
  <2>3. Resume(addrs) \in Nat /\ Resume(addrs') \in Nat
    BY DEF Resume, BridgeTypes
  <2>4. k > Resume(addrs)
    BY <1>8, <2>1, <2>2, <2>3
  <2>5. CASE k \in 1..Len(addrs)
    BY <1>1, <1>3, <1>4, <1>6, <1>8, <2>4, <2>5 DEF ReplayInv
  <2>6. CASE k = Len(addrs) + 1
    BY <1>1, <1>2, <1>3, <1>4, <2>6
  <2> QED
    BY <1>5, <2>5, <2>6
<1>9. ASSUME bridge.pc # "idle"
      PROVE  /\ \A k \in 1..Len(bridge.copy) :
                    k > bridge.pos => commands'[bridge.copy[k].n] <= cuts
             /\ \A k \in 1..Len(addrs') : Anew' \/ k > Len(bridge.copy) => Fresh(k)'
  <2>1. Anew' => Anew
    BY <1>1, <1>2, <1>3 DEF Anew
  <2>2. ASSUME NEW k \in 1..Len(addrs'), Anew' \/ k > Len(bridge.copy) PROVE Fresh(k)'
    <3>1. CASE k \in 1..Len(addrs)
      BY <1>3, <1>4, <1>6, <1>9, <2>1, <2>2, <3>1 DEF ReplayInv, Fresh
    <3>2. CASE k = Len(addrs) + 1
      BY <1>1, <1>3, <1>4, <3>2 DEF Fresh
    <3> QED
      BY <1>5, <3>1, <3>2
  <2>3. \A k \in 1..Len(bridge.copy) : k > bridge.pos => commands'[bridge.copy[k].n] <= cuts
    BY <1>4, <1>6, <1>9 DEF ReplayInv
  <2> QED
    BY <2>2, <2>3
<1> QED
  BY <1>1, <1>7, <1>8, <1>9 DEF ReplayInv

\* A ban, reported as such or not, is the first of its line but for the runs that were cut.
LEMMA AcceptReplay ==
    ASSUME BridgeTypes, OrderInv, ReplayInv, MoreLines, Line.ip \in Addr, Accept,
           UNCHANGED <<addrs, lines>>, bridge'.copy = bridge.copy
    PROVE  /\ \A n \in 1..lines : commands'[n] <= 1 + cuts
           /\ \A k \in 1..Len(bridge.copy) :
                 k > bridge.pos + 1 => commands'[bridge.copy[k].n] <= cuts
           /\ \A k \in 1..Len(addrs) : Anew' \/ k > Len(bridge.copy) => Fresh(k)'
<1>1. /\ Len(addrs) \in Nat /\ Len(bridge.copy) \in Nat /\ lines \in Nat /\ cuts \in Nat
      /\ bridge.pos \in Nat /\ commands \in Seq(Nat) /\ Len(commands) = lines
  BY Elements DEF BridgeTypes, Lines
<1>2. /\ Numbered(bridge.copy) /\ Numbered(addrs) /\ (Grown \/ Anew)
  BY DEF OrderInv
<1>3. /\ Line.n \in 1..lines /\ commands'[Line.n] = commands[Line.n] + 1
      /\ \A n \in 1..lines : n # Line.n => commands'[n] = commands[n]
  BY <1>2, AcceptFacts
<1>4. bridge.pos + 1 \in 1..Len(bridge.copy) /\ Line = bridge.copy[bridge.pos + 1]
      /\ bridge.pc = "ban"
  BY <1>1 DEF MoreLines, Line
<1>5. commands[Line.n] <= cuts
  <2>1. \A k \in 1..Len(bridge.copy) : k > bridge.pos => commands[bridge.copy[k].n] <= cuts
    BY <1>4 DEF ReplayInv
  <2>2. bridge.pos + 1 > bridge.pos
    BY <1>1
  <2> QED
    BY <1>4, <2>1, <2>2
<1>6. \A n \in 1..lines : commands[n] \in Nat /\ commands[n] <= 1 + cuts
  BY <1>1 DEF ReplayInv
<1>7. ASSUME NEW n \in 1..lines PROVE commands'[n] <= 1 + cuts
  <2>1. CASE n = Line.n
    <3>1. commands[n] \in Nat /\ commands[n] <= cuts /\ commands'[n] = commands[n] + 1
      BY <1>3, <1>5, <1>6, <2>1
    <3> QED
      BY <1>1, <3>1
  <2>2. CASE n # Line.n
    BY <1>3, <1>6, <2>2
  <2> QED
    BY <2>1, <2>2
<1>8. ASSUME NEW k \in 1..Len(bridge.copy), k > bridge.pos + 1
      PROVE  commands'[bridge.copy[k].n] <= cuts
  <2>1. bridge.copy[k].n \in 1..lines
    BY <1>2 DEF Numbered
  <2>2. Line.n < bridge.copy[k].n
    BY <1>2, <1>4, <1>8 DEF Numbered
  <2>3. commands'[bridge.copy[k].n] = commands[bridge.copy[k].n]
    BY <1>1, <1>3, <2>1, <2>2
  <2>4. k > bridge.pos
    BY <1>1, <1>8
  <2>5. commands[bridge.copy[k].n] <= cuts
    BY <1>4, <2>4 DEF ReplayInv
  <2> QED
    BY <2>3, <2>5
<1>9. ASSUME NEW k \in 1..Len(addrs), Anew' \/ k > Len(bridge.copy)
      PROVE  Fresh(k)'
  <2>1. Anew' <=> Anew
    BY DEF Anew
  <2>2. addrs[k].n \in 1..lines
    BY <1>2 DEF Numbered
  <2>3. Line.n < addrs[k].n
    <3>1. CASE Anew
      BY <1>4, <3>1 DEF Anew
    <3>2. CASE Grown /\ k > Len(bridge.copy)
      <4>1. bridge.pos + 1 \in 1..Len(addrs) /\ bridge.pos + 1 < k
            /\ addrs[bridge.pos + 1] = Line
        BY <1>1, <1>4, <3>2 DEF Grown
      <4> QED
        BY <1>2, <4>1 DEF Numbered
    <3> QED
      BY <1>2, <1>9, <2>1, <3>1, <3>2
  <2>4. commands'[addrs[k].n] = commands[addrs[k].n]
    BY <1>1, <1>3, <2>2, <2>3
  <2> QED
    BY <1>4, <1>9, <2>1, <2>4 DEF ReplayInv, Fresh
<1> QED
  BY <1>7, <1>8, <1>9

LEMMA ReplayStep ==
    ASSUME PotTypeOK, PotInv, NEW up, PotNext(up)
    PROVE  ReplayInv'
<1>0. BridgeTypes /\ OrderInv /\ ReplayInv /\ PassedInv
  BY TypesMeet DEF PotInv
<1>1. /\ addrs \in Lines /\ bridge.copy \in Lines /\ Len(addrs) \in Nat
      /\ Len(bridge.copy) \in Nat /\ lines \in Nat /\ cuts \in Nat /\ bridge.pos \in Nat
      /\ bridge.pos <= Len(bridge.copy) /\ commands \in Seq(Nat) /\ Len(commands) = lines
      /\ bridge \in [pc : {"idle", "ban", "print", "position"}, copy : Lines, pos : Nat]
      /\ saved \in [pos : Nat, known : BOOLEAN, print : Printed]
  BY <1>0, Elements DEF BridgeTypes, Lines
<1>2. \A n \in 1..lines : commands[n] \in Nat /\ commands[n] <= 1 + cuts
  BY <1>0, <1>1 DEF ReplayInv
<1>3. ASSUME NEW ip \in Addr \cup Junk, Catch(ip) PROVE ReplayInv'
  BY <1>0, <1>3, CatchReplay
<1>4. CASE StartAnew
  <2>1. addrs' = <<>> /\ UNCHANGED <<lines, saved, bridge, commands, cuts>>
    BY <1>4 DEF StartAnew
  <2> QED
    BY <1>0, <2>1 DEF ReplayInv
<1>5. CASE Run
  <2>1. bridge' = [pc |-> "ban", copy |-> addrs, pos |-> Resume(addrs)] /\ bridge.pc = "idle"
        /\ UNCHANGED <<addrs, lines, saved, commands, cuts>>
    BY <1>5 DEF Run
  <2>2. \A k \in 1..Len(addrs) : ~(Anew' \/ k > Len(addrs))
    <3>1. \A k \in 1..Len(addrs) : addrs[k].n \in 1..lines
      BY <1>0 DEF OrderInv, Numbered
    <3>2. ASSUME NEW k \in 1..Len(addrs), Anew' PROVE FALSE
      <4>1. addrs[k].n < addrs[k].n
        BY <2>1, <3>2 DEF Anew
      <4> QED
        BY <3>1, <4>1
    <3> QED
      BY <1>1, <3>2
  <2> QED
    BY <1>0, <2>1, <2>2 DEF ReplayInv
<1>6. CASE Pass
  <2>1. bridge'.copy = bridge.copy /\ bridge'.pos = bridge.pos + 1 /\ bridge'.pc = bridge.pc
        /\ UNCHANGED <<addrs, lines, commands, cuts>> /\ bridge.pc = "ban"
    BY <1>1, <1>6 DEF Pass, MoreLines
  <2>2. Anew' <=> Anew
    BY <2>1 DEF Anew
  <2> QED
    BY <1>0, <1>1, <2>1, <2>2 DEF ReplayInv, Fresh
<1>7. CASE Ban
  <2>1. bridge'.copy = bridge.copy /\ bridge'.pos = bridge.pos + 1 /\ bridge'.pc = "ban"
        /\ UNCHANGED <<addrs, lines, cuts>> /\ MoreLines /\ Line.ip \in Addr /\ Accept
    BY <1>1, <1>7 DEF Ban, MoreLines
  <2> QED
    BY <1>0, <2>1, AcceptReplay DEF ReplayInv
<1>8. CASE BanFails \/ NoMore \/ SavePrint
  <2>1. bridge'.copy = bridge.copy /\ bridge'.pos = bridge.pos /\ bridge'.pc # "idle"
        /\ UNCHANGED <<addrs, lines, commands, cuts>> /\ bridge.pc # "idle"
    BY <1>1, <1>8 DEF BanFails, NoMore, SavePrint, MoreLines
  <2>2. Anew' <=> Anew
    BY <2>1 DEF Anew
  <2> QED
    BY <1>0, <2>1, <2>2 DEF ReplayInv, Fresh
<1>9. CASE BanLost
  <2>1. bridge'.copy = bridge.copy /\ bridge'.pos = bridge.pos /\ bridge'.pc = "print"
        /\ UNCHANGED <<addrs, lines>> /\ cuts' = cuts + 1 /\ MoreLines /\ Line.ip \in Addr /\ Accept
    BY <1>1, <1>9 DEF BanLost, MoreLines
  <2>2. \A n \in 1..lines : commands'[n] <= 1 + cuts
    BY <1>0, <2>1, AcceptReplay
  <2>3. \A k \in 1..Len(addrs) : Anew' \/ k > Len(bridge.copy) => Fresh(k)'
    BY <1>0, <2>1, AcceptReplay
  <2>4. \A k \in 1..Len(bridge.copy) : bridge.copy[k].n \in 1..lines
    BY <1>0 DEF OrderInv, Numbered
  <2>5. commands' \in Seq(Nat) /\ Len(commands') = lines
    BY <1>0, <2>1, AcceptFacts DEF OrderInv
  <2>6. ASSUME NEW n \in 1..lines
        PROVE  commands'[n] \in Nat /\ commands'[n] <= cuts' /\ commands'[n] <= 1 + cuts'
    <3>1. commands'[n] \in Nat
      BY <1>1, <2>5
    <3>2. commands'[n] <= cuts + 1 /\ cuts' = cuts + 1
      BY <1>1, <2>1, <2>2
    <3> QED
      BY <1>1, <3>1, <3>2
  <2> QED
    BY <1>1, <2>1, <2>2, <2>3, <2>4, <2>6 DEF ReplayInv
<1>10. CASE SavePosition
  <2>1. saved'.pos = bridge.pos /\ saved'.known /\ saved'.print = saved.print /\ bridge' = Quiet0
        /\ UNCHANGED <<addrs, lines, commands, cuts>> /\ bridge.pc = "position"
        /\ saved.print = Text0(bridge.copy, bridge.pos)
    BY <1>0, <1>1, <1>10 DEF SavePosition, PassedInv
  <2>2. ASSUME NEW k \in 1..Len(addrs), k > Resume(addrs)'
        PROVE  commands[addrs[k].n] <= cuts
    <3>1. CASE Anew \/ k > Len(bridge.copy)
      BY <1>0, <1>1, <2>1, <3>1 DEF ReplayInv, Fresh
    <3>2. CASE Grown /\ k <= Len(bridge.copy)
      <4>1. Text0(addrs, bridge.pos) = Text0(bridge.copy, bridge.pos)
        BY <1>1, <3>2, SameText DEF Grown
      <4>2. Resume(addrs)' = bridge.pos
        BY <1>1, <2>1, <3>2, <4>1 DEF Resume, Grown
      <4>3. k \in 1..Len(bridge.copy) /\ addrs[k] = bridge.copy[k] /\ k > bridge.pos
        BY <1>1, <2>2, <3>2, <4>2 DEF Grown
      <4> QED
        BY <1>0, <2>1, <4>3 DEF ReplayInv
    <3> QED
      BY <1>0, <1>1, <3>1, <3>2 DEF OrderInv
  <2> QED
    BY <1>0, <2>1, <2>2 DEF ReplayInv, Quiet0
<1>11. CASE CutShort
  <2>1. bridge' = Quiet0 /\ cuts' = cuts + 1 /\ UNCHANGED <<addrs, lines, commands>>
    BY <1>11 DEF CutShort
  <2>2. \A k \in 1..Len(addrs) : addrs[k].n \in 1..lines
    BY <1>0 DEF OrderInv, Numbered
  <2> QED
    BY <1>1, <1>2, <2>1, <2>2 DEF ReplayInv, Quiet0
<1>12. CASE ReadLog \/ Record \/ DropText
  <2>1. UNCHANGED <<addrs, lines, saved, bridge, commands, cuts>>
    BY <1>12 DEF ReadLog, Record, DropText
  <2> QED
    BY <1>0, <2>1 DEF ReplayInv, Fresh, Anew, Resume
<1> QED
  BY <1>3, <1>4, <1>5, <1>6, <1>7, <1>8, <1>9, <1>10, <1>11, <1>12 DEF PotNext, AskBan

-----------------------------------------------------------------------------
(* What is recorded.                                                        *)
LEMMA RecordedGrows ==
    ASSUME NEW l, NEW events, l.offset \in Nat, NEW s \in Lines, NEW t \in Lines, Len(s) <= Len(t),
           \A k \in 1..Len(s) : t[k] = s[k],
           \A k \in 1..Len(t) : k > Len(s) => \A e \in events : e.n # t[k].n,
           Meets(l, events, s)
    PROVE  Meets(l, events, t)
<1>1. Len(s) \in Nat /\ Len(t) \in Nat
  BY Elements DEF Lines
<1>2. \A k \in 1..Len(t) : k \in 1..Len(s) \/ k > Len(s)
  BY <1>1
<1>3. CASE Recorded(l, events, s)
  <2>1. l.offset <= Len(s)
    BY <1>3 DEF Recorded
  <2>2. Text0(s, l.offset) = Text0(t, l.offset)
    <3>1. l.offset <= Len(t) /\ \A k \in 1..l.offset : s[k] = t[k]
      BY <1>1, <2>1
    <3> QED
      BY <1>1, <2>1, <3>1, SameText
  <2>3. ASSUME NEW e \in events, NEW k \in 1..Len(t), e.n = t[k].n
        PROVE  e.gen = l.gen /\ e.at = k /\ k <= l.offset
    BY <1>2, <1>3, <2>3 DEF Recorded
  <2>4. Recorded(l, events, t)
    BY <1>1, <1>3, <2>1, <2>2, <2>3 DEF Recorded
  <2> QED
    BY <2>4 DEF Meets
<1>4. CASE Unknown(events, s)
  BY <1>2, <1>4 DEF Unknown, Meets
<1> QED
  BY <1>3, <1>4 DEF Meets

LEMMA CatchRead ==
    ASSUME PotTypeOK, OrderInv, LedgerInv, ReadInv, NEW ip \in Addr \cup Junk, Catch(ip)
    PROVE  LedgerInv' /\ ReadInv'
<1> DEFINE line == [ip |-> ip, n |-> lines + 1]
<1>1. addrs' = Append(addrs, line) /\ lines' = lines + 1 /\ UNCHANGED <<ledger, observed, reader>>
      /\ line.n = lines + 1
  BY DEF Catch
<1> HIDE DEF line
<1>2. BridgeTypes /\ ReaderTypes /\ BridgeTypes'
  BY TypesMeet, CatchType
<1>3. addrs \in Lines /\ addrs' \in Lines /\ lines \in Nat /\ Len(addrs) \in Nat
      /\ reader.text \in Lines /\ Len(reader.text) \in Nat
  BY <1>2, Elements DEF BridgeTypes, ReaderTypes, Lines
<1>4. /\ Len(addrs') = Len(addrs) + 1 /\ addrs'[Len(addrs) + 1] = line
      /\ \A k \in 1..Len(addrs) : addrs'[k] = addrs[k]
  BY <1>1, <1>3 DEF Lines
<1>5. \A k \in 1..Len(addrs') : k \in 1..Len(addrs) \/ k = Len(addrs) + 1
  BY <1>3, <1>4
<1>6. ASSUME NEW e \in observed PROVE e.n \in 1..lines /\ e.n # lines + 1
  <2>1. e.n \in 1..lines
    BY DEF LedgerInv
  <2> QED
    BY <1>3, <2>1
<1>7. LedgerInv'
  <2>1. \A e \in observed : e.n \in 1..lines'
    BY <1>1, <1>3, <1>6
  <2>2. ObservedOnce'
    BY <1>1 DEF LedgerInv, ObservedOnce
  <2> QED
    BY <1>1, <2>1, <2>2 DEF LedgerInv
<1>8. ASSUME reader.pc = "idle" PROVE Meets(ledger, observed, addrs')
  <2>1. \A k \in 1..Len(addrs') : k > Len(addrs) => \A e \in observed : e.n # addrs'[k].n
    BY <1>1, <1>3, <1>4, <1>5, <1>6
  <2>2. Meets(ledger, observed, addrs)
    BY <1>8 DEF ReadInv
  <2>3. ledger.offset \in Nat /\ Len(addrs) <= Len(addrs')
    BY <1>2, <1>3, <1>4 DEF ReaderTypes
  <2> QED
    BY <1>3, <1>4, <2>1, <2>2, <2>3, RecordedGrows
<1>9. ASSUME reader.pc = "record"
      PROVE  /\ Numbered(reader.text)' /\ Meets(ledger, observed, reader.text)
             /\ (Longer \/ Renewed)'
             /\ \A k \in 1..Len(addrs') : Renewed' \/ k > Len(reader.text) =>
                   \A e \in observed : e.n # addrs'[k].n
  <2>1. Numbered(reader.text)'
    BY <1>1, <1>3, <1>9 DEF ReadInv, Numbered
  <2>2. Meets(ledger, observed, reader.text)
    BY <1>9 DEF ReadInv
  <2>3. ASSUME Longer PROVE Longer'
    <3>1. Len(reader.text) <= Len(addrs') /\ \A k \in 1..Len(reader.text) : addrs'[k] = reader.text[k]
      BY <1>3, <1>4, <2>3 DEF Longer
    <3> QED
      BY <1>1, <3>1 DEF Longer
  <2>4. ASSUME Renewed PROVE Renewed'
    <3>1. \A j \in 1..Len(reader.text) : reader.text[j].n \in 1..lines
      BY <1>9 DEF ReadInv, Numbered
    <3>2. ASSUME NEW i \in 1..Len(addrs'), NEW j \in 1..Len(reader.text)
          PROVE  reader.text[j].n < addrs'[i].n
      <4>1. CASE i \in 1..Len(addrs)
        BY <1>4, <2>4, <4>1 DEF Renewed
      <4>2. CASE i = Len(addrs) + 1
        <5>1. addrs'[i].n = lines + 1
          BY <1>1, <1>4, <4>2
        <5> QED
          BY <1>3, <3>1, <5>1
      <4> QED
        BY <1>5, <4>1, <4>2
    <3> QED
      BY <1>1, <3>2 DEF Renewed
  <2>5. Renewed' => Renewed
    BY <1>1, <1>3, <1>4 DEF Renewed
  <2>6. ASSUME NEW k \in 1..Len(addrs'), Renewed' \/ k > Len(reader.text), NEW e \in observed
        PROVE  e.n # addrs'[k].n
    BY <1>1, <1>4, <1>5, <1>6, <1>9, <2>5, <2>6 DEF ReadInv
  <2> QED
    BY <1>9, <2>1, <2>2, <2>3, <2>4, <2>6 DEF ReadInv
<1> QED
  BY <1>1, <1>7, <1>8, <1>9 DEF ReadInv

LEMMA RecordKeeps ==
    ASSUME PotTypeOK, OrderInv, LedgerInv, ReadInv, Record
    PROVE  LedgerInv' /\ Meets(ledger', observed', addrs)
<1> DEFINE text  == reader.text
           first == ledger = NoLedger
           new   == first \/ Reset(text)
           gen   == IF new THEN ledger.gen + 1 ELSE ledger.gen
           from  == IF first THEN Len(text) ELSE IF new THEN 0 ELSE ledger.offset
           to    == Min2(Len(text), from + Share)
           Ev(k) == [gen |-> gen, at |-> k, ip |-> text[k].ip, n |-> text[k].n]
<1>1. BridgeTypes /\ ReaderTypes
  BY TypesMeet
<1>2. /\ text \in Lines /\ addrs \in Lines /\ Len(text) \in Nat /\ Len(addrs) \in Nat
      /\ lines \in Nat /\ Share \in Nat
      /\ ledger.gen \in Nat /\ ledger.offset \in Nat /\ ledger.base \in Nat
  BY <1>1, Elements, LineAssumption DEF BridgeTypes, ReaderTypes, Lines
<1>3. reader.pc = "record" /\ Numbered(text) /\ Meets(ledger, observed, text)
  BY DEF Record, ReadInv
<1>4. first => ledger.gen = 0 /\ ledger.offset = 0 /\ observed = {}
  BY DEF LedgerInv, NoLedger
<1>5. ~new => ledger.offset <= Len(text) /\ Text0(text, ledger.offset) = ledger.print
  BY <1>2 DEF Reset
<1>6. new /\ ~first => Unknown(observed, text)
  BY <1>2, <1>3 DEF Meets, Recorded, Reset
<1>7. /\ from \in Nat /\ to \in Nat /\ from <= to /\ to <= Len(text)
      /\ gen \in Nat /\ ledger.gen <= gen /\ (new => gen > ledger.gen)
  BY <1>2, <1>5 DEF Min2
<1>8. ASSUME NEW e \in observed
      PROVE  /\ e.n \in 1..lines /\ e.gen \in Nat /\ e.at \in Nat /\ e.gen <= gen
             /\ e.gen = gen => ~new /\ e.at <= from
  BY <1>2, <1>4, <1>7 DEF LedgerInv
<1>9. ASSUME NEW e \in observed, NEW k \in from + 1..to
      PROVE  e.n # text[k].n
  BY <1>2, <1>3, <1>4, <1>6, <1>7 DEF Meets, Recorded, Unknown
<1>10. /\ observed' = observed \cup Events(text, gen, from, to)
       /\ ledger'.gen = gen /\ ledger'.offset = to /\ ledger'.print = Text0(text, to)
       /\ ledger'.base = (IF new THEN from ELSE ledger.base)
       /\ lines' = lines
  BY DEF Record
<1> HIDE DEF gen, from, to
<1>11. ASSUME NEW e \in observed', e \notin observed
       PROVE  \E k \in from + 1..to : k \in 1..Len(text) /\ e = Ev(k)
  BY <1>2, <1>7, <1>10, <1>11 DEF Events
<1>12. ASSUME NEW k \in from + 1..to, text[k].ip \in Addr
       PROVE  Ev(k) \in observed'
  <2>1. \A e \in observed : e.gen = gen => e.at # k
    BY <1>7, <1>8
  <2> QED
    BY <1>10, <1>12, <2>1 DEF Events
\* Each line is recorded once.
<1>13. ASSUME NEW e \in observed', NEW f \in observed', e.n = f.n PROVE e = f
  <2>1. CASE e \in observed /\ f \in observed
    BY <1>13, <2>1 DEF LedgerInv, ObservedOnce
  <2>2. CASE e \notin observed /\ f \notin observed
    <3>1. PICK i \in from + 1..to : i \in 1..Len(text) /\ e = Ev(i)
      BY <1>11, <2>2
    <3>2. PICK j \in from + 1..to : j \in 1..Len(text) /\ f = Ev(j)
      BY <1>11, <2>2
    <3>3. text[i].n = text[j].n
      BY <1>13, <3>1, <3>2
    <3>4. i = j
      BY <1>2, <1>3, <3>1, <3>2, <3>3 DEF Numbered
    <3> QED
      BY <3>1, <3>2, <3>4
  <2>3. CASE e \in observed /\ f \notin observed
    BY <1>9, <1>11, <1>13, <2>3
  <2>4. CASE e \notin observed /\ f \in observed
    BY <1>9, <1>11, <1>13, <2>4
  <2> QED
    BY <2>1, <2>2, <2>3, <2>4
\* None since the baseline is missing.
<1>14. Len(Text0(text, to)) = to /\ \A k \in 1..to : k \in 1..Len(text) /\ Text0(text, to)[k] = text[k].ip
  BY <1>2, <1>7, TextFacts
<1>15. ASSUME NEW k \in ledger'.base + 1..ledger'.offset, ledger'.print[k] \in Addr
       PROVE  \E e \in observed' : e.gen = ledger'.gen /\ e.at = k /\ e.ip = ledger'.print[k]
  <2>1. k \in 1..to /\ text[k].ip \in Addr /\ ledger'.print[k] = text[k].ip
    BY <1>2, <1>7, <1>10, <1>14, <1>15
  <2>2. CASE k > from
    <3>1. k \in from + 1..to
      BY <1>7, <2>1, <2>2
    <3> QED
      BY <1>10, <1>12, <2>1, <3>1
  <2>3. CASE k <= from
    <3>1. ~new /\ from = ledger.offset /\ gen = ledger.gen /\ k \in ledger.base + 1..ledger.offset
      BY <1>2, <1>7, <1>10, <1>15, <2>1, <2>3 DEF gen, from
    <3>2. ledger.print[k] = text[k].ip
      <4>1. ledger.print = Text0(text, ledger.offset) /\ ledger.offset <= Len(text)
        BY <1>5, <3>1
      <4>2. k \in 1..ledger.offset
        BY <1>2, <3>1
      <4>3. Len(ledger.print) = ledger.offset /\ ledger.print[k] = text[k].ip
        BY <1>2, <4>1, <4>2, TextFacts
      <4> QED
        BY <4>3
    <3>3. PICK e \in observed : e.gen = ledger.gen /\ e.at = k /\ e.ip = ledger.print[k]
      BY <2>1, <3>1, <3>2 DEF LedgerInv, ObservedOnce
    <3> QED
      BY <1>10, <2>1, <3>1, <3>2, <3>3
  <2> QED
    BY <1>7, <2>1, <2>2, <2>3
<1>16. ASSUME NEW e \in observed'
       PROVE  /\ e.n \in 1..lines' /\ e.gen \in Nat /\ e.at \in Nat /\ e.gen <= ledger'.gen
              /\ e.gen = ledger'.gen => e.at <= ledger'.offset
  <2>1. CASE e \in observed
    BY <1>7, <1>8, <1>10, <2>1
  <2>2. CASE e \notin observed
    <3>1. PICK k \in from + 1..to : k \in 1..Len(text) /\ e = Ev(k)
      BY <1>11, <2>2
    <3> QED
      BY <1>3, <1>7, <1>10, <3>1 DEF Numbered
  <2> QED
    BY <2>1, <2>2
<1>17. ledger'.gen # 0
  BY <1>2, <1>7, <1>10 DEF LedgerInv
<1>18. LedgerInv'
  BY <1>10, <1>13, <1>14, <1>15, <1>16, <1>17 DEF LedgerInv, ObservedOnce
\* The ledger is about the file, or knows none of its lines.
<1>19. ASSUME NEW e \in observed', NEW k \in 1..Len(text), e.n = text[k].n
       PROVE  e.gen = gen /\ e.at = k /\ k <= to
  <2>1. CASE e \in observed
    BY <1>2, <1>3, <1>4, <1>6, <1>7, <1>19, <2>1 DEF Meets, Recorded, Unknown, gen, from
  <2>2. CASE e \notin observed
    <3>1. PICK i \in from + 1..to : i \in 1..Len(text) /\ e = Ev(i)
      BY <1>11, <2>2
    <3>2. i = k
      BY <1>2, <1>3, <1>19, <3>1 DEF Numbered
    <3> QED
      BY <1>7, <3>1, <3>2
  <2> QED
    BY <2>1, <2>2
<1>20. Meets(ledger', observed', text)
  BY <1>7, <1>10, <1>19 DEF Meets, Recorded
<1>21. \A k \in 1..Len(addrs) : Renewed \/ k > Len(text) => \A e \in observed' : e.n # addrs[k].n
  <2> SUFFICES ASSUME NEW k \in 1..Len(addrs), Renewed \/ k > Len(text), NEW e \in observed'
               PROVE  e.n # addrs[k].n
    OBVIOUS
  <2>1. CASE e \in observed
    BY <1>3, <2>1 DEF ReadInv
  <2>2. CASE e \notin observed
    <3>1. PICK j \in from + 1..to : j \in 1..Len(text) /\ e = Ev(j)
      BY <1>11, <2>2
    <3>2. text[j].n < addrs[k].n
      <4>1. CASE Renewed
        BY <3>1, <4>1 DEF Renewed
      <4>2. CASE Longer /\ k > Len(text)
        <5>1. j \in 1..Len(addrs) /\ j < k /\ addrs[j] = text[j]
          BY <1>2, <3>1, <4>2 DEF Longer
        <5> QED
          BY <5>1 DEF OrderInv, Numbered
      <4> QED
        BY <1>3, <4>1, <4>2 DEF ReadInv
    <3>3. text[j].n \in Nat /\ addrs[k].n \in Nat
      BY <1>2, <1>3, <3>1 DEF Numbered, OrderInv
    <3> QED
      BY <3>1, <3>2, <3>3
  <2> QED
    BY <2>1, <2>2
<1>22. CASE Renewed
  BY <1>18, <1>21, <1>22 DEF Meets, Unknown
<1>23. CASE Longer
  BY <1>2, <1>7, <1>10, <1>18, <1>20, <1>21, <1>23, RecordedGrows DEF Longer
<1> QED
  BY <1>3, <1>22, <1>23 DEF ReadInv

\* What was read is dropped: the file it was read from has only grown, or is another.
LEMMA DropRead ==
    ASSUME PotTypeOK, ReadInv, reader.pc = "record"
    PROVE  Meets(ledger, observed, addrs)
<1>1. BridgeTypes /\ ReaderTypes
  BY TypesMeet
<1>2. addrs \in Lines /\ reader.text \in Lines /\ ledger.offset \in Nat
  BY <1>1 DEF BridgeTypes, ReaderTypes
<1>3. CASE Renewed
  BY <1>3 DEF ReadInv, Unknown, Meets
<1>4. CASE Longer
  BY <1>2, <1>4, RecordedGrows DEF ReadInv, Longer
<1> QED
  BY <1>3, <1>4 DEF ReadInv

LEMMA ReadStep ==
    ASSUME PotTypeOK, OrderInv, LedgerInv, ReadInv, NEW up, PotNext(up)
    PROVE  LedgerInv' /\ ReadInv'
<1>1. /\ addrs \in Lines /\ Len(addrs) \in Nat
      /\ reader \in [pc : {"idle", "record"}, text : Lines]
  BY TypesMeet, Elements DEF BridgeTypes, ReaderTypes, Lines
<1>2. ASSUME NEW ip \in Addr \cup Junk, Catch(ip) PROVE LedgerInv' /\ ReadInv'
  BY <1>2, CatchRead
<1>3. CASE StartAnew
  <2>1. addrs' = <<>> /\ UNCHANGED <<lines, ledger, observed, reader>>
    BY <1>3 DEF StartAnew
  <2>2. Meets(ledger, observed, addrs')
    BY <2>1 DEF Meets, Unknown
  <2>3. Renewed' /\ \A k \in 1..Len(addrs') : FALSE
    BY <2>1 DEF Renewed
  <2>4. LedgerInv'
    BY <2>1 DEF LedgerInv, ObservedOnce
  <2>5. Numbered(reader.text)' <=> Numbered(reader.text)
    BY <2>1 DEF Numbered
  <2> QED
    BY <2>1, <2>2, <2>3, <2>4, <2>5 DEF ReadInv
<1>4. CASE ReadLog
  <2>1. /\ reader' = [pc |-> "record", text |-> addrs] /\ reader.pc = "idle"
        /\ UNCHANGED <<addrs, lines, ledger, observed>>
    BY <1>4 DEF ReadLog
  <2>2. LedgerInv'
    BY <2>1 DEF LedgerInv, ObservedOnce
  <2>3. reader'.pc = "record" /\ reader'.text = addrs
    BY <2>1
  <2>4. Meets(ledger, observed, addrs) /\ Longer' /\ Numbered(addrs)' /\ Numbered(addrs)
    BY <1>1, <2>1, <2>3 DEF ReadInv, Longer, OrderInv, Numbered
  <2>5. \A k \in 1..Len(addrs) : ~(Renewed' \/ k > Len(addrs))
    <3>1. \A k \in 1..Len(addrs) : addrs[k].n \in 1..lines
      BY <2>4 DEF Numbered
    <3>2. ASSUME NEW k \in 1..Len(addrs), Renewed' PROVE FALSE
      <4>1. addrs[k].n < addrs[k].n
        BY <2>1, <2>3, <3>2 DEF Renewed
      <4> QED
        BY <3>1, <4>1
    <3> QED
      BY <1>1, <3>2
  <2> QED
    BY <2>1, <2>2, <2>3, <2>4, <2>5 DEF ReadInv, Numbered
<1>5. CASE Record
  <2>1. LedgerInv' /\ Meets(ledger', observed', addrs)
    BY <1>5, RecordKeeps
  <2>2. reader'.pc = "idle" /\ addrs' = addrs
    BY <1>5 DEF Record, Unread
  <2> QED
    BY <2>1, <2>2 DEF ReadInv
<1>6. CASE DropText
  <2>1. reader'.pc = "idle" /\ UNCHANGED <<addrs, lines, ledger, observed>> /\ reader.pc = "record"
    BY <1>6 DEF DropText, Unread
  <2>2. Meets(ledger, observed, addrs)
    BY <2>1, DropRead
  <2> QED
    BY <2>1, <2>2 DEF LedgerInv, ObservedOnce, ReadInv
<1>7. CASE Run \/ Pass \/ AskBan(up) \/ NoMore \/ SavePrint \/ SavePosition \/ CutShort
  <2>1. UNCHANGED <<addrs, lines, ledger, observed, reader>>
    BY <1>7 DEF Run, Pass, AskBan, Ban, BanFails, BanLost, NoMore, SavePrint, SavePosition, CutShort
  <2> QED
    BY <2>1 DEF LedgerInv, ObservedOnce, ReadInv, Longer, Renewed, Numbered
<1> QED
  BY <1>2, <1>3, <1>4, <1>5, <1>6, <1>7 DEF PotNext

-----------------------------------------------------------------------------
(* The theorems.                                                            *)
LEMMA PotInvInit == ASSUME NEW bounds, PotInit(bounds) PROVE PotInv
<1>1. PassedInv /\ OrderInv /\ ReplayInv
  BY DEF PotInit, PassedInv, OrderInv, ReplayInv, Numbered, Grown, Quiet0
<1>2. LedgerInv
  BY DEF PotInit, LedgerInv, ObservedOnce, NoLedger
<1>3. ReadInv
  BY DEF PotInit, ReadInv, Unread, Meets, Unknown
<1> QED
  BY <1>1, <1>2, <1>3 DEF PotInv

LEMMA HostStep ==
    ASSUME PotTypeOK, PotInv, [HostNext]_hostVars
    PROVE  PotTypeOK' /\ PotInv'
<1>1. CASE PotNext(crowd.up)
  <2>1. /\ BridgeTypes /\ ReaderTypes /\ PassedInv /\ OrderInv /\ Numbered(bridge.copy)
        /\ LedgerInv /\ ReadInv
    BY TypesMeet DEF PotInv, OrderInv
  <2>2. BridgeTypes' /\ ReaderTypes'
    BY <1>1, <2>1, BridgeTypeStep, ReaderTypeStep
  <2>3. PotTypeOK'
    BY <2>2 DEF PotTypeOK, BridgeTypes, ReaderTypes
  <2>4. PassedInv' /\ OrderInv' /\ ReplayInv'
    BY <1>1, <2>1, PassedStep, OrderStep, ReplayStep
  <2>5. LedgerInv' /\ ReadInv'
    BY <1>1, <2>1, ReadStep
  <2> QED
    BY <2>3, <2>4, <2>5 DEF PotInv
<1>2. CASE UNCHANGED potVars
  <2>1. UNCHANGED <<addrs, lines, saved, bridge, banned, commands, cuts, ledger, observed, reader>>
    BY <1>2 DEF potVars
  <2>2. PotTypeOK' /\ PassedInv' /\ OrderInv' /\ ReplayInv'
    BY <2>1 DEF PotTypeOK, PotInv, PassedInv, OrderInv, ReplayInv, Numbered, Grown, Anew, Fresh,
                Resume
  <2>3. LedgerInv' /\ ReadInv'
    BY <2>1 DEF PotInv, LedgerInv, ObservedOnce, ReadInv, Longer, Renewed, Numbered
  <2> QED
    BY <2>2, <2>3 DEF PotInv
<1> QED
  BY <1>1, <1>2 DEF HostNext, hostVars

LEMMA PotInvariant == HostSpec => [](PotTypeOK /\ PotInv)
<1>1. HostInit => PotTypeOK /\ PotInv
  BY PotTypeInit, PotInvInit DEF HostInit
<1>2. PotTypeOK /\ PotInv /\ [HostNext]_hostVars => (PotTypeOK /\ PotInv)'
  BY HostStep
<1> QED
  BY <1>1, <1>2, PTL DEF HostSpec

\* The file of caught addresses and what its two readers keep of it stay well-typed.
THEOREM PotTypeCorrect == HostSpec => []PotTypeOK
<1> QED
  BY PotInvariant, PTL

\* No address is passed over unbanned, and a line is replayed only after a run that was cut, however
\* often the file is started anew, bans are refused and runs are killed.
THEOREM BansKeptTheorem == HostSpec => []BansKept
<1>1. PotTypeOK /\ PotInv => BansKept
  BY SkippedIsBanned DEF PotInv, ReplayInv, BansKept
<1> QED
  BY <1>1, PotInvariant, PTL

\* However often the file is started anew, read late or cut off at the limit of a transaction, and
\* whatever is dropped between reading and recording, a line is recorded once, and none since the
\* baseline is missing.
THEOREM ObservedOnceTheorem == HostSpec => []ObservedOnce
<1>1. PotInv => ObservedOnce
  BY DEF PotInv, LedgerInv
<1> QED
  BY <1>1, PotInvariant, PTL

\* Beside the bridge CrowdSec and the dashboard do what they do alone, so that the theorems about
\* Crowdsec hold of the composition.
THEOREM HostImplementsCrowdsec == HostSpec => Spec
<1>1. HostInit => Init
  BY DEF HostInit
<1>2. [HostNext]_hostVars => [Next]_vars
  BY DEF HostNext, hostVars
<1> QED
  BY <1>1, <1>2, PTL DEF HostSpec, Spec
=============================================================================
