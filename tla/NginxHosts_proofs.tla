-------------------------- MODULE NginxHosts_proofs -------------------------
(* Proofs about NginxHosts, for any sets of hosts, requests and contents.   *)
EXTENDS NginxHosts, TLAPS

-----------------------------------------------------------------------------
(* Type correctness.                                                        *)

LEMMA InitType == Init => TypeOK
<1> SUFFICES ASSUME Init PROVE TypeOK
  OBVIOUS
<1>1. rows \in [Host -> Row] /\ \A h \in Host : rows[h] \in InitRow(h)
  BY DEF Init
<1>2. \A h \in Host : rows[h].content \in Text
  BY <1>1 DEF Row
<1>3. acl \in [Host -> Text]
  BY <1>2 DEF Init, Text
<1>4. conf \in [Host -> Text] /\ err \in [Host -> Text] /\ served \in [Host -> Text]
  BY <1>2 DEF Init, Text
<1>5. task \in [Req -> Task]
  BY DEF Init, Task, NoTask, Text
<1>6. snap \in [Req -> Row]
  BY DEF Init, Row, NewRow, Text
<1>7. faults \in 0..MaxFaults
  BY BoundsAssumption DEF Init
<1> QED
  BY <1>1, <1>3, <1>4, <1>5, <1>6, <1>7 DEF Init, TypeOK, TaskOK, Steps, Active

\* An exception only moves the request and marks it.
LEMMA ThrowMoves ==
  ASSUME TypeOK, NEW r \in Req, Throw(r)
  PROVE  /\ \E s \in Steps : Goto(r, s)
         /\ res' \in [Req -> {"ok", "refused", "error"}]
BY DEF TypeOK, Throw, Goto, Steps

\* A step moves one request in flight and leaves all tasks alone.
Moves(r) ==
  /\ Active(r)
  /\ \E s \in Steps : Goto(r, s)
  /\ task' = task
  /\ res' \in [Req -> {"ok", "refused", "error"}]

LEMMA StepMoves ==
  ASSUME TypeOK, NEW r \in Req, Step(r) \/ Fault(r) \/ ProbeFault(r)
  PROVE  Moves(r)
<1> USE DEF Moves, Active, Steps
<1> res \in [Req -> {"ok", "refused", "error"}]
  BY DEF TypeOK
<1>1. CASE CommitCreate(r) \/ CommitUpdate(r) \/ CommitEnable(r) \/ CommitDisable(r) \/ CommitDelete(r)
  BY <1>1 DEF CommitCreate, CommitUpdate, CommitEnable, CommitDisable, CommitDelete, mem
<1>2. CASE Fetch(r)
  <2>1. pc[r] = "fetch" /\ task' = task
    BY <1>2 DEF Fetch
  <2>2. CASE Throw(r)
    BY <2>1, <2>2, ThrowMoves
  <2>3. CASE ~Throw(r)
    <3>1. \E s \in Steps : Goto(r, s) /\ res' = res
      BY <1>2, <2>3 DEF Fetch, AfterConfigure
    <3> QED
      BY <2>1, <3>1
  <2> QED
    BY <2>2, <2>3
<1>3. CASE BuildAccess(r) \/ DropAccess(r) \/ Generate(r) \/ PatchOffline(r) \/ Probe(r)
  BY <1>3 DEF BuildAccess, DropAccess, Generate, PatchOffline, Probe, mem
<1>4. CASE RemoveConfig(r) \/ PatchOnline(r)
  BY <1>4 DEF RemoveConfig, PatchOnline, AfterConfigure, mem
<1>5. CASE Reload(r)
  <2>1. pc[r] \in {"reload", "reload2"} /\ task' = task
    BY <1>5 DEF Reload, mem
  <2>2. CASE Throw(r)
    BY <2>1, <2>2, ThrowMoves
  <2>3. CASE ~Throw(r)
    <3>1. \E s \in Steps : Goto(r, s) /\ res' = res
      BY <1>5, <2>3 DEF Reload, AfterConfigure
    <3> QED
      BY <2>1, <3>1
  <2> QED
    BY <2>2, <2>3
<1>6. CASE RenameAsError(r)
  BY <1>6, ThrowMoves DEF RenameAsError, mem
<1>7. CASE Audit(r)
  BY <1>7, ThrowMoves DEF Audit, mem
<1>8. CASE Fault(r)
  BY <1>8, ThrowMoves DEF Fault, mem
<1>9. CASE ProbeFault(r)
  BY <1>9 DEF ProbeFault, mem
<1> QED
  BY <1>1, <1>2, <1>3, <1>4, <1>5, <1>6, <1>7, <1>8, <1>9 DEF Step

\* A request that has begun does not go back.
LEMMA StepNotIdle ==
  ASSUME TypeOK, NEW r \in Req, Step(r)
  PROVE  pc'[r] # "idle"
BY DEF TypeOK, Step, CommitCreate, CommitUpdate, CommitEnable, CommitDisable, CommitDelete, Fetch,
       BuildAccess, RemoveConfig, DropAccess, Generate, Reload, PatchOnline, PatchOffline,
       RenameAsError, Probe, Audit, Throw, Goto, AfterConfigure

\* What is left of the type invariant once the move is known.
LEMMA MoveType ==
  ASSUME TypeOK, NEW r \in Req, Moves(r),
         rows' \in [Host -> Row], snap' \in [Req -> Row], log' \subseteq Req,
         acl' \in [Host -> Text], conf' \in [Host -> Text],
         err' \in [Host -> Text], served' \in [Host -> Text],
         faults' \in 0..MaxFaults
  PROVE  TypeOK'
<1>1. pc' \in [Req -> Steps]
  BY DEF TypeOK, Moves, Goto
<1>2. \A q \in Req : Active(q)' => Active(q)
  BY DEF TypeOK, Moves, Goto, Active
<1> QED
  BY <1>1, <1>2 DEF TypeOK, TaskOK, Moves

LEMMA NextType == TypeOK /\ [Next]_vars => TypeOK'
<1> SUFFICES ASSUME TypeOK, [Next]_vars PROVE TypeOK'
  OBVIOUS
<1>t. /\ rows \in [Host -> Row] /\ snap \in [Req -> Row] /\ log \subseteq Req
      /\ acl \in [Host -> Text] /\ conf \in [Host -> Text]
      /\ err \in [Host -> Text] /\ served \in [Host -> Text]
      /\ faults \in 0..MaxFaults
  BY DEF TypeOK
<1>1. CASE UNCHANGED vars
  BY <1>1 DEF vars, TypeOK, TaskOK, Active
<1>2. ASSUME NEW r \in Req, Accept(r) PROVE TypeOK'
  <2>1. PICK o \in Ops, h \in Host, c \in Text :
           /\ task' = [task EXCEPT ![r] = [op |-> o, host |-> h, data |-> c]]
           /\ snap' = [snap EXCEPT ![r] = rows[h]]
    BY <1>2 DEF Accept
  <2>2. task' \in [Req -> Task] /\ snap' \in [Req -> Row]
    BY <2>1 DEF Task, TypeOK
  <2>3. pc' \in [Req -> Steps] /\ TaskOK'
    BY <1>2, <2>1 DEF Accept, Goto, Steps, TypeOK, TaskOK, Active
  <2> QED
    BY <1>2, <2>2, <2>3 DEF Accept, TypeOK, db, files
<1>3. ASSUME NEW r \in Req, Refuse(r) PROVE TypeOK'
  BY <1>3 DEF Refuse, Goto, Steps, TypeOK, TaskOK, Active, db, files, mem
<1>4. ASSUME NEW r \in Req, Step(r) PROVE TypeOK'
  <2>m. Moves(r)
    BY <1>4, StepMoves
  <2>h. task[r].host \in Host /\ task[r].op \in Ops /\ task[r].data \in Text /\ snap[r] \in Row
    BY <2>m DEF Moves, TypeOK, TaskOK, Task
  <2> USE MoveType, <1>t, <2>m, <2>h DEF db, files, mem
  <2>1. CASE CommitCreate(r)
    <3>1. rows' \in [Host -> Row]
      BY <2>1 DEF CommitCreate, Row, Text
    <3> QED
      BY <2>1, <3>1 DEF CommitCreate
  <2>2. CASE CommitUpdate(r)
    <3>1. rows' \in [Host -> Row]
      BY <2>2 DEF CommitUpdate, MergedRow, Row
    <3> QED
      BY <2>2, <3>1 DEF CommitUpdate
  <2>3. CASE CommitEnable(r)
    <3>1. rows' \in [Host -> Row] /\ snap' \in [Req -> Row]
      BY <2>3 DEF CommitEnable, EnabledRow, Row
    <3> QED
      BY <2>3, <3>1 DEF CommitEnable
  <2>4. CASE CommitDisable(r) \/ CommitDelete(r)
    <3>1. rows' \in [Host -> Row]
      BY <2>4 DEF CommitDisable, CommitDelete, Row
    <3> QED
      BY <2>4, <3>1 DEF CommitDisable, CommitDelete
  <2>5. CASE Fetch(r)
    <3>1. snap' \in [Req -> Row]
      BY <2>5 DEF Fetch
    <3> QED
      BY <2>5, <3>1 DEF Fetch
  <2>6. CASE BuildAccess(r)
    <3>1. acl' \in [Host -> Text]
      BY <2>6 DEF BuildAccess, Row
    <3> QED
      BY <2>6, <3>1 DEF BuildAccess
  <2>7. CASE RemoveConfig(r)
    <3>1. conf' \in [Host -> Text] /\ err' \in [Host -> Text]
      BY <2>7 DEF RemoveConfig, Text
    <3> QED
      BY <2>7, <3>1 DEF RemoveConfig
  <2>8. CASE DropAccess(r)
    <3>1. acl' \in [Host -> Text]
      BY <2>8 DEF DropAccess, Text
    <3> QED
      BY <2>8, <3>1 DEF DropAccess
  <2>9. CASE Generate(r)
    <3>1. conf' \in [Host -> Text]
      BY <2>9 DEF Generate, Row
    <3> QED
      BY <2>9, <3>1 DEF Generate
  <2>10. CASE Reload(r)
    BY <2>10 DEF Reload
  <2>11. CASE PatchOnline(r) \/ PatchOffline(r)
    <3>1. rows' \in [Host -> Row]
      <4>1. PICK b \in BOOLEAN : SetOnline(task[r].host, b)
        BY <2>11 DEF PatchOnline, PatchOffline
      <4>2. [rows[task[r].host] EXCEPT !.online = b] \in Row
        BY DEF Row
      <4> QED
        BY <4>1, <4>2 DEF SetOnline
    <3> QED
      BY <2>11, <3>1 DEF PatchOnline, PatchOffline
  <2>12. CASE RenameAsError(r)
    <3>1. conf' \in [Host -> Text] /\ err' \in [Host -> Text]
      BY <2>12 DEF RenameAsError, Text
    <3> QED
      BY <2>12, <3>1 DEF RenameAsError
  <2>13. CASE Probe(r)
    <3>1. rows' \in [Host -> Row]
      BY <2>13 DEF Probe, Row
    <3> QED
      BY <2>13, <3>1 DEF Probe
  <2>14. CASE Audit(r)
    <3>1. log' \subseteq Req
      BY <2>14 DEF Audit
    <3> QED
      BY <2>14, <3>1 DEF Audit
  <2> QED
    BY <1>4, <2>1, <2>2, <2>3, <2>4, <2>5, <2>6, <2>7, <2>8, <2>9, <2>10,
       <2>11, <2>12, <2>13, <2>14 DEF Step
<1>5. ASSUME NEW r \in Req, Fault(r) \/ ProbeFault(r) PROVE TypeOK'
  <2>1. Moves(r)
    BY <1>5, StepMoves
  <2>2. faults' \in 0..MaxFaults
    BY <1>5, <1>t, BoundsAssumption DEF Fault, ProbeFault
  <2>3. rows' = rows \/ rows' = [rows EXCEPT ![task[r].host].reach = None]
    BY <1>5 DEF Fault, ProbeFault, db
  <2>4. rows' \in [Host -> Row]
    <3>1. task[r].host \in Host
      BY <2>1 DEF Moves, TypeOK, TaskOK
    <3>2. [rows[task[r].host] EXCEPT !.reach = None] \in Row
      <4>1. rows[task[r].host] \in Row
        BY <1>t, <3>1
      <4>2. None \in Text
        BY DEF Text
      <4> QED
        BY <4>1, <4>2 DEF Row
    <3> QED
      BY <1>t, <2>3, <3>2
  <2> QED
    BY <1>5, <1>t, <2>1, <2>2, <2>4, MoveType DEF Fault, ProbeFault, db, files, mem
<1> QED
  BY <1>1, <1>2, <1>3, <1>4, <1>5 DEF Next

\* Every state of the model is well-typed.
THEOREM TypeCorrect == Spec => []TypeOK
<1>1. Init => TypeOK
  BY InitType
<1>2. TypeOK /\ [Next]_vars => TypeOK'
  BY NextType
<1> QED
  BY <1>1, <1>2, PTL DEF Spec

-----------------------------------------------------------------------------
(* Requests on different hosts, any awaits failing.  The inductive invariant *)
(* says at every await what the request has made of its own host so far.     *)

Disjoint == Overlap = FALSE

Exclusive ==
    \A q, r \in Req :
        Active(q) /\ Active(r) /\ task[q].host = task[r].host => q = r

\* Which operations come to which await.
StepOp(r) ==
    /\ pc[r] = "fetch" => task[r].op \in {"create", "update"}
    /\ pc[r] \in {"access", "generate", "online", "offline", "rename", "reload2", "probe"} =>
          Configures(r)
    /\ pc[r] = "dropaccess" => task[r].op = "delete"

Fresh == {"commit", "fetch", "access", "remove", "dropaccess", "generate", "reload",
          "online", "offline", "rename", "reload2", "probe"}

\* The row, as the request left it.
RowStep(r) ==
    LET row == rows[task[r].host] IN
    /\ pc[r] \in Fresh \cup {"idle"} => res[r] = "ok"
    /\ pc[r] = "commit" =>
          CASE task[r].op = "create"  -> row.state = "new"
            [] task[r].op = "update"  -> Live(task[r].host) /\ snap[r] = row
            [] task[r].op = "enable"  -> row.state = "disabled" /\ snap[r] = row
            [] task[r].op = "disable" -> row.state = "enabled"
            [] OTHER                  -> Live(task[r].host)
    /\ pc[r] = "fetch" => Live(task[r].host) /\ (task[r].op = "create" => row.state = "enabled")
    /\ pc[r] \in Fresh \ {"commit", "fetch"} /\ Configures(r) =>
          row.state = "enabled" /\ snap[r].content = row.content
    /\ pc[r] \in Fresh \ {"commit", "fetch"} /\ ~Configures(r) =>
          row.state = (IF task[r].op = "delete" THEN "deleted" ELSE "disabled")
    /\ pc[r] \in Fresh \ {"commit", "probe"} /\ task[r].op = "enable" => ~row.online
    /\ pc[r] \in {"rename", "reload2"} => ~row.online
    /\ pc[r] = "audit" /\ task[r].op = "enable" /\ res[r] = "error" => ~row.online

\* The files of the host and what nginx serves, as the request left them.
FileStep(r) ==
    LET h == task[r].host
        c == rows[h].content IN
    /\ pc[r] \in {"generate", "dropaccess"} => conf[h] = None /\ err[h] = None
    /\ pc[r] = "reload" => conf[h] = (IF Configures(r) THEN c ELSE None) /\ err[h] = None
    /\ pc[r] \in {"online", "offline", "rename"} => conf[h] = c /\ err[h] = None
    /\ pc[r] = "online" => served[h] = c
    /\ pc[r] = "reload2" => conf[h] = None /\ err[h] = c
    /\ pc[r] = "probe" => Settled(h)
    /\ pc[r] = "audit" /\ res[r] = "ok" =>
          (task[r].op = "update" /\ rows[h].state # "enabled") \/ Settled(h)

HostInv ==
    /\ TypeOK
    /\ Exclusive
    /\ \A r \in Req : StepOp(r) /\ RowStep(r) /\ FileStep(r)

LEMMA HostInvImplies == HostInv => SuccessIsConsistent /\ EnableForgetsOnline
BY DEF HostInv, FileStep, RowStep, SuccessIsConsistent, EnableForgetsOnline

\* A step changes the row and the files of its own host only; a reload makes
\* nginx serve what the files say.
Local(r) ==
    /\ \A h \in Host : h # task[r].host =>
          rows'[h] = rows[h] /\ acl'[h] = acl[h] /\ conf'[h] = conf[h] /\ err'[h] = err[h]
    /\ served' = served \/ served' = conf
    /\ \A q \in Req : q # r => pc'[q] = pc[q] /\ snap'[q] = snap[q] /\ res'[q] = res[q]

LEMMA ThrowLocal ==
  ASSUME TypeOK, NEW r \in Req, Throw(r)
  PROVE  \A q \in Req : q # r => pc'[q] = pc[q] /\ res'[q] = res[q]
BY DEF TypeOK, Throw, Goto

LEMMA StepLocal ==
  ASSUME TypeOK, NEW r \in Req, Step(r) \/ Fault(r) \/ ProbeFault(r)
  PROVE  Local(r)
<1>t. /\ rows \in [Host -> Row] /\ snap \in [Req -> Row]
      /\ acl \in [Host -> Text] /\ conf \in [Host -> Text]
      /\ err \in [Host -> Text] /\ served \in [Host -> Text]
      /\ pc \in [Req -> Steps] /\ res \in [Req -> {"ok", "refused", "error"}]
  BY DEF TypeOK
<1> USE <1>t, ThrowLocal DEF Local, Goto, db, files, mem
<1>1. CASE CommitCreate(r)
  BY <1>1 DEF CommitCreate
<1>2. CASE CommitUpdate(r)
  BY <1>2 DEF CommitUpdate
<1>3. CASE CommitEnable(r)
  BY <1>3 DEF CommitEnable
<1>4. CASE CommitDisable(r)
  BY <1>4 DEF CommitDisable
<1>5. CASE CommitDelete(r)
  BY <1>5 DEF CommitDelete
<1>6. CASE Fetch(r)
  BY <1>6 DEF Fetch
<1>7. CASE BuildAccess(r)
  BY <1>7 DEF BuildAccess
<1>8. CASE RemoveConfig(r)
  BY <1>8 DEF RemoveConfig
<1>9. CASE DropAccess(r)
  BY <1>9 DEF DropAccess
<1>10. CASE Generate(r)
  BY <1>10 DEF Generate
<1>11. CASE Reload(r)
  BY <1>11 DEF Reload
<1>12. CASE PatchOnline(r)
  BY <1>12 DEF PatchOnline, SetOnline
<1>13. CASE PatchOffline(r)
  BY <1>13 DEF PatchOffline, SetOnline
<1>14. CASE RenameAsError(r)
  BY <1>14 DEF RenameAsError
<1>15. CASE Probe(r)
  BY <1>15 DEF Probe
<1>16. CASE Audit(r)
  BY <1>16 DEF Audit
<1>17. CASE Fault(r)
  BY <1>17 DEF Fault
<1>18. CASE ProbeFault(r)
  BY <1>18 DEF ProbeFault
<1> QED
  BY <1>1, <1>2, <1>3, <1>4, <1>5, <1>6, <1>7, <1>8, <1>9, <1>10, <1>11, <1>12,
     <1>13, <1>14, <1>15, <1>16, <1>17, <1>18 DEF Step

\* What holds of a request survives the steps of the others.
LEMMA OthersKept ==
  ASSUME HostInv, NEW r \in Req, Local(r), Moves(r), NEW q \in Req, q # r
  PROVE  StepOp(q)' /\ RowStep(q)' /\ FileStep(q)'
<1>1. pc'[q] = pc[q] /\ snap'[q] = snap[q] /\ res'[q] = res[q] /\ task' = task
  BY DEF Local, Moves
<1>2. StepOp(q)'
  BY <1>1 DEF HostInv, StepOp, Configures
<1>3. CASE ~Active(q)
  BY <1>1, <1>2, <1>3 DEF HostInv, Active, RowStep, FileStep, Fresh
<1>4. CASE Active(q)
  <2> DEFINE h == task[q].host
  <2>1. h \in Host /\ h # task[r].host
    BY <1>4 DEF HostInv, TypeOK, TaskOK, Exclusive, Moves
  <2>2. rows'[h] = rows[h] /\ conf'[h] = conf[h] /\ err'[h] = err[h]
    BY <2>1 DEF Local
  <2>3. served'[h] = served[h] \/ served'[h] = conf[h]
    BY <2>1 DEF Local
  <2>4. RowStep(q)'
    BY <1>1, <2>2 DEF HostInv, RowStep, Configures, Live
  <2>5. Settled(h) => Settled(h)'
    BY <1>1, <2>2, <2>3 DEF Settled
  <2>6. FileStep(q)'
    BY <1>1, <2>2, <2>3, <2>5 DEF HostInv, FileStep, Configures
  <2> QED
    BY <1>2, <2>4, <2>6
<1> QED
  BY <1>3, <1>4

\* An exception leaves the request in its offline branch, in its catch, or done.
LEMMA ThrowOwn ==
  ASSUME HostInv, NEW r \in Req, Active(r), pc[r] # "probe", Throw(r), task' = task,
         UNCHANGED <<rows, conf, err, served, snap>>
  PROVE  StepOp(r)' /\ RowStep(r)' /\ FileStep(r)'
<1>t. pc \in [Req -> Steps] /\ res \in [Req -> {"ok", "refused", "error"}]
  BY DEF HostInv, TypeOK
<1>1. CASE pc[r] \in {"reload", "online"} /\ Configures(r)
  <2>1. pc'[r] = "offline" /\ res' = res
    BY <1>t, <1>1 DEF Throw, Goto
  <2> QED
    BY <1>1, <2>1 DEF HostInv, StepOp, RowStep, FileStep, Configures, Fresh, Live
<1>2. CASE ~(pc[r] \in {"reload", "online"} /\ Configures(r)) /\ pc[r] \in {"commit", "audit"}
  <2>1. pc'[r] = "done"
    BY <1>t, <1>2 DEF Throw, Goto
  <2> QED
    BY <1>2, <2>1 DEF StepOp, RowStep, FileStep, Fresh
<1>3. CASE ~(pc[r] \in {"reload", "online"} /\ Configures(r)) /\ pc[r] \notin {"commit", "audit"}
  <2>1. pc'[r] = "audit" /\ res'[r] = "error"
    BY <1>t, <1>3 DEF Throw, Goto
  <2>2. pc[r] \in Fresh \ {"commit", "probe"}
    BY <1>t, <1>3 DEF Active, Steps, Fresh
  <2>3. task[r].op = "enable" => ~rows[task[r].host].online
    BY <2>2 DEF HostInv, RowStep
  <2> QED
    BY <2>1, <2>3 DEF StepOp, RowStep, FileStep, Fresh
<1> QED
  BY <1>1, <1>2, <1>3

\* What a request makes of its own host, one await after the other.
LEMMA OwnStep ==
  ASSUME HostInv, NEW r \in Req, Step(r), Moves(r)
  PROVE  StepOp(r)' /\ RowStep(r)' /\ FileStep(r)'
<1> DEFINE h == task[r].host
<1>t. /\ rows \in [Host -> Row] /\ snap \in [Req -> Row]
      /\ conf \in [Host -> Text] /\ err \in [Host -> Text] /\ served \in [Host -> Text]
      /\ pc \in [Req -> Steps] /\ res \in [Req -> {"ok", "refused", "error"}]
      /\ task \in [Req -> Task]
  BY DEF HostInv, TypeOK
<1>h. h \in Host /\ task[r].op \in Ops /\ Active(r) /\ task' = task
  BY DEF HostInv, TypeOK, TaskOK, Moves
<1>i. StepOp(r) /\ RowStep(r) /\ FileStep(r)
  BY DEF HostInv
<1> USE DEF db, files, mem, Goto, StepOp, RowStep, FileStep, Fresh, Configures, Live
<1>1. CASE CommitCreate(r)
  <2>1. pc'[r] = "fetch" /\ rows'[h].state = "enabled" /\ res' = res
    BY <1>t, <1>h, <1>1 DEF CommitCreate
  <2> QED
    BY <1>h, <1>i, <1>1, <2>1 DEF CommitCreate
<1>2. CASE CommitUpdate(r)
  <2>1. pc'[r] = "fetch" /\ res' = res /\ task[r].op = "update" /\ Live(h) /\ snap[r] = rows[h]
    BY <1>t, <1>h, <1>i, <1>2 DEF CommitUpdate
  <2>2. rows'[h] = [rows[h] EXCEPT !.content = task[r].data]
    BY <1>t, <1>h, <1>2, <2>1 DEF CommitUpdate, MergedRow
  <2>3. rows'[h].state = rows[h].state
    BY <1>t, <1>h, <2>2 DEF Row
  <2> QED
    BY <1>h, <1>i, <1>2, <2>1, <2>3 DEF CommitUpdate
<1>3. CASE CommitEnable(r)
  <2>1. pc'[r] = "access" /\ res' = res /\ pc[r] = "commit" /\ task[r].op = "enable" /\ rows[h].state = "disabled"
        /\ snap[r] = rows[h] /\ UNCHANGED <<conf, err, served>>
    BY <1>t, <1>h, <1>i, <1>3 DEF CommitEnable
  <2>2. rows'[h] = EnabledRow(rows[h]) /\ snap'[r] = [snap[r] EXCEPT !.state = "enabled"]
    BY <1>t, <1>h, <1>3, <2>1 DEF CommitEnable
  <2>3. rows'[h].state = "enabled" /\ ~rows'[h].online /\ rows'[h].content = rows[h].content
    BY <1>t, <1>h, <2>2 DEF EnabledRow, Row
  <2>4. snap'[r].content = snap[r].content
    BY <1>t, <2>2 DEF Row
  <2> QED
    BY <1>h, <1>i, <2>1, <2>3, <2>4
<1>4. CASE CommitDisable(r)
  <2>1. pc'[r] = "remove" /\ res' = res /\ pc[r] = "commit" /\ task[r].op = "disable" /\ rows'[h].state = "disabled"
    BY <1>t, <1>h, <1>i, <1>4 DEF CommitDisable, Row
  <2> QED
    BY <1>h, <1>i, <1>4, <2>1 DEF CommitDisable
<1>5. CASE CommitDelete(r)
  <2>1. pc'[r] = "remove" /\ res' = res /\ pc[r] = "commit" /\ task[r].op = "delete" /\ rows'[h].state = "deleted"
    BY <1>t, <1>h, <1>i, <1>5 DEF CommitDelete, Row
  <2> QED
    BY <1>h, <1>i, <1>5, <2>1 DEF CommitDelete
<1>6. CASE Fetch(r)
  <2>1. pc[r] = "fetch" /\ Live(h) /\ UNCHANGED <<rows, conf, err, served>>
    BY <1>i, <1>6 DEF Fetch
  <2>2. snap'[r] = rows[h] /\ res' = res
    BY <1>t, <1>6, <2>1 DEF Fetch
  <2>3. CASE rows[h].state = "enabled"
    <3>1. pc'[r] = "access"
      BY <1>t, <1>6, <2>1, <2>3 DEF Fetch
    <3> QED
      BY <1>h, <1>i, <2>1, <2>2, <2>3, <3>1
  <2>4. CASE rows[h].state # "enabled"
    <3>1. pc'[r] = "audit" /\ task[r].op = "update"
      BY <1>t, <1>i, <1>6, <2>1, <2>4 DEF Fetch
    <3> QED
      BY <1>h, <1>i, <2>1, <2>2, <2>4, <3>1
  <2> QED
    BY <2>3, <2>4
<1>7. CASE BuildAccess(r)
  <2>1. pc[r] = "access" /\ pc'[r] = "remove" /\ UNCHANGED <<rows, conf, err, served, snap, res>>
    BY <1>t, <1>7 DEF BuildAccess
  <2> QED
    BY <1>h, <1>i, <2>1
<1>8. CASE RemoveConfig(r)
  <2>1. /\ pc[r] = "remove" /\ UNCHANGED <<rows, served, snap, res>>
        /\ conf'[h] = None /\ err'[h] = None
    BY <1>t, <1>h, <1>8 DEF RemoveConfig
  <2>2. CASE Configures(r)
    <3>1. pc'[r] = "generate"
      BY <1>t, <1>8, <2>2 DEF RemoveConfig
    <3> QED
      BY <1>h, <1>i, <2>1, <2>2, <3>1
  <2>3. CASE ~Configures(r)
    <3>1. pc'[r] = "reload" \/ (pc'[r] = "dropaccess" /\ task[r].op = "delete")
      BY <1>t, <1>8, <2>3 DEF RemoveConfig
    <3> QED
      BY <1>h, <1>i, <2>1, <2>3, <3>1
  <2> QED
    BY <2>2, <2>3
<1>9. CASE DropAccess(r)
  <2>1. pc[r] = "dropaccess" /\ pc'[r] = "reload" /\ UNCHANGED <<rows, conf, err, served, snap, res>>
    BY <1>t, <1>9 DEF DropAccess
  <2> QED
    BY <1>h, <1>i, <2>1
<1>10. CASE Generate(r)
  <2>1. pc[r] = "generate" /\ pc'[r] = "reload" /\ UNCHANGED <<rows, err, served, snap, res>>
    BY <1>t, <1>10 DEF Generate
  <2>2. conf'[h] = snap[r].content
    BY <1>t, <1>h, <1>10 DEF Generate
  <2> QED
    BY <1>h, <1>i, <2>1, <2>2
<1>11. CASE Reload(r)
  <2>1. pc[r] \in {"reload", "reload2"} /\ UNCHANGED <<rows, conf, err, snap>>
    BY <1>11 DEF Reload
  <2>2. CASE ~ConfigOK
    <3>1. Throw(r) /\ served' = served
      BY <1>11, <2>2 DEF Reload
    <3> QED
      BY ThrowOwn, <1>h, <2>1, <3>1
  <2>3. CASE ConfigOK
    <3>1. served'[h] = conf[h] /\ res' = res
      BY <1>11, <2>3 DEF Reload
    <3>2. CASE ~Configures(r)
      <4>1. pc'[r] = "audit"
        BY <1>t, <1>11, <2>1, <2>3, <3>2 DEF Reload
      <4>2. Settled(h)'
        BY <1>h, <1>i, <2>1, <3>1, <3>2 DEF Settled
      <4> QED
        BY <1>h, <1>i, <2>1, <3>1, <4>1, <4>2
    <3>3. CASE Configures(r) /\ pc[r] = "reload"
      <4>1. pc'[r] = "online"
        BY <1>t, <1>11, <2>3, <3>3 DEF Reload
      <4> QED
        BY <1>h, <1>i, <2>1, <3>1, <3>3, <4>1
    <3>4. CASE Configures(r) /\ pc[r] = "reload2"
      <4>1. pc'[r] \in {"probe", "audit"}
        BY <1>t, <1>11, <2>3, <3>4 DEF Reload, AfterConfigure
      <4>2. Settled(h)'
        BY <1>h, <1>i, <2>1, <3>1, <3>4 DEF Settled
      <4> QED
        BY <1>h, <1>i, <2>1, <3>1, <3>4, <4>1, <4>2
    <3> QED
      BY <2>1, <3>2, <3>3, <3>4
  <2> QED
    BY <2>2, <2>3
<1>12. CASE PatchOnline(r)
  <2>1. pc[r] = "online" /\ UNCHANGED <<conf, err, served, snap, res>>
    BY <1>12 DEF PatchOnline
  <2>2. pc'[r] \in {"probe", "audit"}
    BY <1>t, <1>12 DEF PatchOnline, AfterConfigure
  <2>3. rows'[h] = [rows[h] EXCEPT !.online = TRUE]
    BY <1>t, <1>h, <1>i, <1>12, <2>1 DEF PatchOnline, SetOnline
  <2>4. rows'[h].state = "enabled" /\ rows'[h].online /\ rows'[h].content = rows[h].content
    BY <1>t, <1>h, <1>i, <2>1, <2>3 DEF Row
  <2>5. Settled(h)'
    BY <1>h, <1>i, <2>1, <2>4 DEF Settled
  <2> QED
    BY <1>h, <1>i, <2>1, <2>2, <2>4, <2>5
<1>13. CASE PatchOffline(r)
  <2>1. pc[r] = "offline" /\ pc'[r] = "rename" /\ UNCHANGED <<conf, err, served, snap, res>>
    BY <1>t, <1>13 DEF PatchOffline
  <2>2. rows'[h] = [rows[h] EXCEPT !.online = FALSE]
    BY <1>t, <1>h, <1>i, <1>13, <2>1 DEF PatchOffline, SetOnline
  <2>3. rows'[h].state = "enabled" /\ ~rows'[h].online /\ rows'[h].content = rows[h].content
    BY <1>t, <1>h, <1>i, <2>1, <2>2 DEF Row
  <2> QED
    BY <1>h, <1>i, <2>1, <2>3
<1>14. CASE RenameAsError(r)
  <2>1. pc[r] = "rename" /\ UNCHANGED <<rows, served, snap>>
    BY <1>14 DEF RenameAsError
  <2>2. CASE conf[h] = None
    <3>1. Throw(r) /\ UNCHANGED <<conf, err>>
      BY <1>14, <2>2 DEF RenameAsError
    <3> QED
      BY ThrowOwn, <1>h, <2>1, <3>1
  <2>3. CASE conf[h] # None
    <3>1. pc'[r] = "reload2" /\ res' = res /\ err'[h] = conf[h] /\ conf'[h] = None
      BY <1>t, <1>h, <1>14, <2>3 DEF RenameAsError
    <3> QED
      BY <1>h, <1>i, <2>1, <3>1
  <2> QED
    BY <2>2, <2>3
<1>15. CASE Probe(r)
  <2>1. pc[r] = "probe" /\ pc'[r] = "audit" /\ UNCHANGED <<conf, err, served, snap, res>>
    BY <1>t, <1>15 DEF Probe
  <2>2. rows'[h] = [rows[h] EXCEPT !.reach = snap[r].content]
    BY <1>t, <1>h, <1>i, <1>15, <2>1 DEF Probe
  <2>3. /\ rows'[h].state = rows[h].state /\ rows'[h].online = rows[h].online
        /\ rows'[h].content = rows[h].content
    BY <1>t, <1>h, <2>2 DEF Row
  <2>4. Settled(h)'
    BY <1>h, <1>i, <2>1, <2>3 DEF Settled
  <2> QED
    BY <1>h, <1>i, <2>1, <2>3, <2>4
<1>16. CASE Audit(r)
  <2>1. pc[r] = "audit" /\ UNCHANGED <<rows, conf, err, served, snap>>
    BY <1>16 DEF Audit
  <2>2. pc'[r] = "done"
    BY <1>t, <1>16 DEF Audit, Throw
  <2> QED
    BY <2>2
<1> QED
  BY <1>1, <1>2, <1>3, <1>4, <1>5, <1>6, <1>7, <1>8, <1>9, <1>10, <1>11, <1>12,
     <1>13, <1>14, <1>15, <1>16 DEF Step

LEMMA ProbeFaultOwn ==
  ASSUME HostInv, NEW r \in Req, ProbeFault(r), Moves(r)
  PROVE  StepOp(r)' /\ RowStep(r)' /\ FileStep(r)'
<1> DEFINE h == task[r].host
<1>1. /\ rows \in [Host -> Row] /\ pc \in [Req -> Steps] /\ h \in Host
      /\ task' = task /\ pc[r] = "probe" /\ UNCHANGED <<conf, err, served, snap, res>>
  BY DEF HostInv, TypeOK, TaskOK, Moves, ProbeFault, files, mem
<1>2. pc'[r] = "audit" /\ res[r] = "ok" /\ Settled(h)
  BY <1>1 DEF HostInv, RowStep, FileStep, Fresh, ProbeFault, Goto
<1>3. rows' = rows \/ rows' = [rows EXCEPT ![h].reach = None]
  BY DEF ProbeFault
<1>4. /\ rows'[h].state = rows[h].state /\ rows'[h].online = rows[h].online
      /\ rows'[h].content = rows[h].content
  BY <1>1, <1>3 DEF Row
<1>5. Settled(h)'
  BY <1>1, <1>2, <1>4 DEF Settled
<1> QED
  BY <1>1, <1>2, <1>5 DEF StepOp, RowStep, FileStep, Fresh

LEMMA InitHost == Init => HostInv
<1> SUFFICES ASSUME Init PROVE HostInv
  OBVIOUS
<1>1. \A r \in Req : pc[r] = "idle" /\ res[r] = "ok"
  BY DEF Init
<1> QED
  BY <1>1, InitType DEF HostInv, Exclusive, Active, StepOp, RowStep, FileStep, Fresh

LEMMA AcceptHost ==
  ASSUME Disjoint, HostInv, TypeOK', NEW r \in Req, Accept(r)
  PROVE  HostInv'
<1>1. PICK o \in Ops, h \in Host, c \in Text :
         /\ \A q \in Req : Active(q) => task[q].host # h
         /\ Admissible(o, h, c)
         /\ task' = [task EXCEPT ![r] = [op |-> o, host |-> h, data |-> c]]
         /\ snap' = [snap EXCEPT ![r] = rows[h]]
  BY DEF Accept, Disjoint
<1>2. /\ pc \in [Req -> Steps] /\ task \in [Req -> Task] /\ snap \in [Req -> Row]
      /\ pc[r] = "idle" /\ pc'[r] = "commit" /\ ~Active(r)
      /\ \A q \in Req : q # r => pc'[q] = pc[q]
      /\ UNCHANGED <<rows, conf, err, served, res>>
  BY DEF Accept, Goto, HostInv, TypeOK, Active, db, files
<1>3. \A q \in Req : q # r => task'[q] = task[q] /\ snap'[q] = snap[q]
  BY <1>1, <1>2
<1>4. task'[r] = [op |-> o, host |-> h, data |-> c] /\ snap'[r] = rows[h]
  BY <1>1, <1>2
<1>5. Exclusive'
  BY <1>1, <1>2, <1>3, <1>4 DEF HostInv, Exclusive, Active
<1>6. ASSUME NEW q \in Req, q # r PROVE StepOp(q)' /\ RowStep(q)' /\ FileStep(q)'
  BY <1>2, <1>3, <1>6 DEF HostInv, StepOp, RowStep, FileStep, Configures, Live, Settled
<1>7. res[r] = "ok"
  BY <1>2 DEF HostInv, RowStep
<1>8. StepOp(r)' /\ RowStep(r)' /\ FileStep(r)'
  BY <1>1, <1>2, <1>4, <1>7 DEF StepOp, RowStep, FileStep, Configures, Live, Admissible, CreateChecks, UpdateChecks, EnableChecks, Fresh
<1> QED
  BY <1>5, <1>6, <1>8 DEF HostInv

LEMMA NextHost == ASSUME Disjoint PROVE HostInv /\ [Next]_vars => HostInv'
<1> SUFFICES ASSUME HostInv, [Next]_vars PROVE HostInv'
  OBVIOUS
<1>t. TypeOK'
  BY NextType DEF HostInv
<1>1. CASE UNCHANGED vars
  BY <1>1, <1>t DEF HostInv, vars, Exclusive, StepOp, RowStep, FileStep, Active, Configures,
                    Live, Settled
<1>2. ASSUME NEW r \in Req, Accept(r) PROVE HostInv'
  BY <1>t, <1>2, AcceptHost
<1>3. ASSUME NEW r \in Req, Refuse(r) PROVE HostInv'
  <2>1. /\ UNCHANGED <<rows, conf, err, served, task, snap>> /\ pc'[r] = "done"
        /\ \A q \in Req : q # r => pc'[q] = pc[q] /\ res'[q] = res[q]
    BY <1>3 DEF Refuse, Goto, HostInv, TypeOK, db, files, mem
  <2>2. Exclusive'
    BY <2>1 DEF HostInv, Exclusive, Active
  <2>3. ASSUME NEW q \in Req PROVE StepOp(q)' /\ RowStep(q)' /\ FileStep(q)'
    <3>1. CASE q = r
      BY <2>1, <3>1 DEF StepOp, RowStep, FileStep, Fresh
    <3>2. CASE q # r
      BY <2>1, <3>2 DEF HostInv, StepOp, RowStep, FileStep, Configures, Live, Settled
    <3> QED
      BY <3>1, <3>2
  <2> QED
    BY <1>t, <2>2, <2>3 DEF HostInv
<1>4. ASSUME NEW r \in Req, Step(r) \/ Fault(r) \/ ProbeFault(r) PROVE HostInv'
  <2>1. Moves(r) /\ Local(r)
    BY <1>4, StepMoves, StepLocal DEF HostInv
  <2>2. Exclusive'
    <3>1. \A q \in Req : Active(q)' => Active(q)
      BY <2>1 DEF Moves, Local, Active
    <3> QED
      BY <2>1, <3>1 DEF HostInv, Exclusive, Moves
  <2>3. StepOp(r)' /\ RowStep(r)' /\ FileStep(r)'
    <3>1. CASE Step(r)
      BY <2>1, <3>1, OwnStep
    <3>2. CASE Fault(r)
      <4>1. /\ Active(r) /\ pc[r] # "probe" /\ Throw(r) /\ task' = task
            /\ UNCHANGED <<rows, conf, err, served, snap>>
        BY <3>2 DEF Fault, db, files, mem
      <4> QED
        BY <4>1, ThrowOwn
    <3>3. CASE ProbeFault(r)
      BY <2>1, <3>3, ProbeFaultOwn
    <3> QED
      BY <1>4, <3>1, <3>2, <3>3
  <2>4. \A q \in Req : q # r => StepOp(q)' /\ RowStep(q)' /\ FileStep(q)'
    BY <2>1, OthersKept
  <2> QED
    BY <1>t, <2>2, <2>3, <2>4 DEF HostInv
<1> QED
  BY <1>1, <1>2, <1>3, <1>4 DEF Next

\* With requests on different hosts, whatever fails, a request that answers
\* success has left its host consistent.
THEOREM SuccessTheorem == ASSUME Disjoint PROVE Spec => []SuccessIsConsistent
<1>1. Init => HostInv
  BY InitHost
<1>2. HostInv /\ [Next]_vars => HostInv'
  BY NextHost
<1>3. HostInv => SuccessIsConsistent
  BY HostInvImplies
<1> QED
  BY <1>1, <1>2, <1>3, PTL DEF Spec

\* ... and an enable that failed has not left the row online.
THEOREM EnableTheorem == ASSUME Disjoint PROVE Spec => []EnableForgetsOnline
<1>1. Init => HostInv
  BY InitHost
<1>2. HostInv /\ [Next]_vars => HostInv'
  BY NextHost
<1>3. HostInv => EnableForgetsOnline
  BY HostInvImplies
<1> QED
  BY <1>1, <1>2, <1>3, PTL DEF Spec

-----------------------------------------------------------------------------
(* Requests on different hosts and, so far, no failing await but a refused    *)
(* reload: the row, the files and nginx agree again whenever no request is in *)
(* flight.                                                                    *)

\* Settled, without what nginx serves, and with the access files.
FilesSettled(h) ==
    LET row == rows[h] IN
    /\ row.state = "enabled" /\ row.online =>
          conf[h] = row.content /\ err[h] = None /\ row.content \notin Bad
    /\ row.state = "enabled" /\ ~row.online => conf[h] = None /\ err[h] = row.content
    /\ row.state # "enabled" => conf[h] = None /\ err[h] = None
    /\ h \in ProxyHost /\ row.state = "enabled" => acl[h] = row.content
    /\ row.state = "deleted" => acl[h] = None

Untouched(h) == \A r \in Req : Active(r) => task[r].host # h

\* A request here has changed a file and will still ask for a reload.
Pending == {"dropaccess", "generate", "reload", "offline", "rename", "reload2"}

TidyStep(r) ==
    LET h == task[r].host
        c == rows[h].content IN
    /\ pc[r] = "commit" => FilesSettled(h)
    /\ pc[r] = "commit" /\ task[r].op \in {"create", "update"} => task[r].data \in Content
    /\ pc[r] \in {"fetch", "access", "remove"} => conf[h] \notin Bad
    /\ pc[r] = "fetch" /\ rows[h].state # "enabled" => conf[h] = None /\ err[h] = None
    /\ pc[r] \in {"remove", "generate", "reload", "online", "offline", "rename", "reload2"}
          /\ Configures(r) /\ h \in ProxyHost => acl[h] = c
    /\ pc[r] = "reload" /\ task[r].op = "delete" => acl[h] = None
    /\ pc[r] = "online" => c \notin Bad
    /\ pc[r] \in {"probe", "audit"} => FilesSettled(h)

RowContent == \A h \in Host : rows[h].state # "new" => rows[h].content \in Content
OnlyProxyAccess == \A h \in Host : h \notin ProxyHost => acl[h] = None
RestSettled == \A h \in Host : Untouched(h) => FilesSettled(h)
ServedInSync == (\A r \in Req : pc[r] \notin Pending) => \A h \in Host : served[h] = conf[h]

TidyInv ==
    /\ HostInv
    /\ RowContent
    /\ OnlyProxyAccess
    /\ RestSettled
    /\ \A r \in Req : TidyStep(r)
    /\ ServedInSync

LEMMA TidyImplies == TidyInv => SettledConsistent
<1> SUFFICES ASSUME TidyInv, Idle, NEW h \in Host
             PROVE  /\ Settled(h)
                    /\ h \in ProxyHost /\ rows[h].state = "enabled" => acl[h] = rows[h].content
                    /\ rows[h].state = "deleted" => acl[h] = None
  BY DEF SettledConsistent
<1>1. FilesSettled(h)
  BY DEF TidyInv, RestSettled, Untouched, Idle
<1>2. served[h] = conf[h]
  BY DEF TidyInv, ServedInSync, Idle, Active, Pending
<1> QED
  BY <1>1, <1>2 DEF FilesSettled, Settled

\* A file nginx refuses belongs to a request that is about to set it aside.
LEMMA BadHasOwner ==
  ASSUME TidyInv, NEW h \in Host, conf[h] \in Bad
  PROVE  \E r \in Req : /\ pc[r] \in {"reload", "offline", "rename"} /\ Configures(r)
                        /\ task[r].host = h
<1>1. None \notin Bad
  BY ContentAssumption
<1>2. ~FilesSettled(h)
  BY <1>1 DEF FilesSettled
<1>3. PICK r \in Req : Active(r) /\ task[r].host = h
  BY <1>2 DEF TidyInv, RestSettled, Untouched
<1>4. pc[r] \notin {"commit", "probe", "audit", "fetch", "access", "remove", "generate",
                    "dropaccess", "reload2"}
  BY <1>1, <1>2, <1>3 DEF TidyInv, TidyStep, HostInv, FileStep
<1>5. pc[r] # "online"
  BY <1>3 DEF TidyInv, TidyStep, HostInv, FileStep
<1>6. pc[r] = "reload" => Configures(r)
  BY <1>1, <1>3 DEF TidyInv, HostInv, FileStep
<1>7. pc[r] \in {"offline", "rename"} => Configures(r)
  BY DEF TidyInv, HostInv, StepOp
<1> QED
  BY <1>3, <1>4, <1>5, <1>6, <1>7 DEF TidyInv, HostInv, TypeOK, Steps, Active

LEMMA InitTidy == Init => TidyInv
<1> SUFFICES ASSUME Init PROVE TidyInv
  OBVIOUS
<1>1. \A r \in Req : pc[r] = "idle"
  BY DEF Init
<1>2. \A h \in Host : rows[h] \in InitRow(h)
  BY DEF Init
<1>3. \A h \in Host : \/ rows[h] = NewRow
                      \/ rows[h].state \in {"enabled", "disabled"} /\ rows[h].content \in Content
  BY <1>2 DEF InitRow
<1>4. RowContent
  BY <1>3 DEF RowContent, NewRow
<1>5. OnlyProxyAccess
  BY DEF Init, OnlyProxyAccess
<1>6. RestSettled
  BY <1>3 DEF Init, RestSettled, FilesSettled, NewRow
<1>7. \A r \in Req : TidyStep(r)
  BY <1>1 DEF TidyStep
<1>8. ServedInSync
  BY DEF Init, ServedInSync
<1> QED
  BY <1>4, <1>5, <1>6, <1>7, <1>8, InitHost DEF TidyInv

\* What a request leaves of its host after one more await.
TidyHost(r) ==
    LET h == task[r].host IN
    /\ TidyStep(r)
    /\ rows[h].state # "new" => rows[h].content \in Content
    /\ h \notin ProxyHost => acl[h] = None
    /\ pc[r] = "done" => FilesSettled(h)

LEMMA TidyOwn ==
  ASSUME TidyInv, NEW r \in Req, Step(r), Moves(r)
  PROVE  TidyHost(r)'
<1> DEFINE h == task[r].host
<1>t. /\ rows \in [Host -> Row] /\ snap \in [Req -> Row] /\ acl \in [Host -> Text]
      /\ conf \in [Host -> Text] /\ err \in [Host -> Text]
      /\ pc \in [Req -> Steps] /\ task \in [Req -> Task] /\ None \notin Bad
  BY ContentAssumption DEF TidyInv, HostInv, TypeOK
<1>h. h \in Host /\ task[r].op \in Ops /\ Active(r) /\ task' = task
  BY DEF TidyInv, HostInv, TypeOK, TaskOK, Moves
<1>i. StepOp(r) /\ RowStep(r) /\ FileStep(r) /\ TidyStep(r)
  BY DEF TidyInv, HostInv
<1>c. /\ rows[h].state # "new" => rows[h].content \in Content
      /\ h \notin ProxyHost => acl[h] = None
  BY <1>h DEF TidyInv, RowContent, OnlyProxyAccess
<1> USE DEF db, files, mem, Goto, StepOp, RowStep, FileStep, TidyStep, Fresh, Configures, Live, TidyHost
<1>1. CASE CommitCreate(r)
  <2>1. /\ pc[r] = "commit" /\ pc'[r] = "fetch" /\ UNCHANGED <<acl, conf, err>>
        /\ rows'[h].state = "enabled" /\ rows'[h].content = task[r].data
    BY <1>t, <1>h, <1>1 DEF CommitCreate
  <2>2. task[r].data \in Content /\ conf[h] = None
    BY <1>h, <1>i, <1>1, <2>1 DEF CommitCreate, FilesSettled
  <2> QED
    BY <1>t, <1>h, <1>c, <2>1, <2>2
<1>2. CASE CommitUpdate(r)
  <2>1. /\ pc[r] = "commit" /\ pc'[r] = "fetch" /\ UNCHANGED <<acl, conf, err>>
        /\ task[r].op = "update" /\ Live(h) /\ snap[r] = rows[h]
    BY <1>t, <1>h, <1>i, <1>2 DEF CommitUpdate
  <2>2. rows'[h] = [rows[h] EXCEPT !.content = task[r].data]
    BY <1>t, <1>h, <1>2, <2>1 DEF CommitUpdate, MergedRow
  <2>3. rows'[h].state = rows[h].state /\ rows'[h].content = task[r].data /\ task[r].data \in Content
    BY <1>t, <1>h, <1>i, <2>1, <2>2 DEF Row
  <2>4. FilesSettled(h)
    BY <1>i, <2>1
  <2>5. conf[h] \notin Bad /\ (rows[h].state # "enabled" => conf[h] = None /\ err[h] = None)
    BY <1>t, <2>4 DEF FilesSettled
  <2> QED
    BY <1>h, <1>c, <2>1, <2>3, <2>5
<1>3. CASE CommitEnable(r)
  <2>1. /\ pc[r] = "commit" /\ pc'[r] = "access" /\ UNCHANGED <<acl, conf, err>>
        /\ task[r].op = "enable" /\ rows[h].state = "disabled"
    BY <1>t, <1>h, <1>i, <1>3 DEF CommitEnable
  <2>2. rows'[h] = EnabledRow(rows[h])
    BY <1>t, <1>h, <1>3, <2>1 DEF CommitEnable
  <2>3. rows'[h].content = rows[h].content
    BY <1>t, <1>h, <2>2 DEF EnabledRow, Row
  <2>4. conf[h] = None
    BY <1>i, <2>1 DEF FilesSettled
  <2> QED
    BY <1>t, <1>h, <1>c, <2>1, <2>3, <2>4
<1>4. CASE CommitDisable(r) \/ CommitDelete(r)
  <2>1. /\ pc[r] = "commit" /\ pc'[r] = "remove" /\ UNCHANGED <<acl, conf, err>>
        /\ task[r].op \in {"disable", "delete"} /\ rows'[h].content = rows[h].content
        /\ rows[h].state # "new"
    BY <1>t, <1>h, <1>i, <1>4 DEF CommitDisable, CommitDelete, Row
  <2>2. conf[h] \notin Bad
    BY <1>t, <1>i, <2>1 DEF FilesSettled
  <2> QED
    BY <1>h, <1>c, <2>1, <2>2
<1>5. CASE Fetch(r)
  <2>1. pc[r] = "fetch" /\ Live(h) /\ UNCHANGED <<rows, acl, conf, err>>
    BY <1>i, <1>5 DEF Fetch
  <2>2. CASE rows[h].state = "enabled"
    <3>1. pc'[r] = "access"
      BY <1>t, <1>5, <2>1, <2>2 DEF Fetch
    <3> QED
      BY <1>h, <1>i, <1>c, <2>1, <3>1
  <2>3. CASE rows[h].state = "disabled"
    <3>1. pc'[r] = "audit"
      BY <1>t, <1>i, <1>5, <2>1, <2>3 DEF Fetch
    <3>2. FilesSettled(h)'
      BY <1>h, <1>i, <2>1, <2>3 DEF FilesSettled
    <3> QED
      BY <1>h, <1>c, <2>1, <3>1, <3>2
  <2> QED
    BY <2>1, <2>2, <2>3
<1>6. CASE BuildAccess(r)
  <2>1. /\ pc[r] = "access" /\ pc'[r] = "remove" /\ UNCHANGED <<rows, conf, err>>
        /\ h \in ProxyHost => acl'[h] = snap[r].content
        /\ h \notin ProxyHost => acl' = acl
    BY <1>t, <1>h, <1>6 DEF BuildAccess
  <2> QED
    BY <1>h, <1>i, <1>c, <2>1
<1>7. CASE RemoveConfig(r)
  <2>1. /\ pc[r] = "remove" /\ UNCHANGED <<rows, acl>>
        /\ conf'[h] = None /\ err'[h] = None
    BY <1>t, <1>h, <1>7 DEF RemoveConfig
  <2>2. CASE Configures(r)
    <3>1. pc'[r] = "generate"
      BY <1>t, <1>7, <2>2 DEF RemoveConfig
    <3> QED
      BY <1>h, <1>i, <1>c, <2>1, <2>2, <3>1
  <2>3. CASE ~Configures(r)
    <3>1. \/ pc'[r] = "dropaccess"
          \/ pc'[r] = "reload" /\ (task[r].op = "delete" => h \notin ProxyHost)
      BY <1>t, <1>7, <2>3 DEF RemoveConfig
    <3> QED
      BY <1>h, <1>i, <1>c, <2>1, <2>3, <3>1
  <2> QED
    BY <2>2, <2>3
<1>8. CASE DropAccess(r)
  <2>1. /\ pc[r] = "dropaccess" /\ pc'[r] = "reload" /\ UNCHANGED <<rows, conf, err>>
        /\ acl'[h] = None
    BY <1>t, <1>h, <1>8 DEF DropAccess
  <2> QED
    BY <1>h, <1>i, <1>c, <2>1
<1>9. CASE Generate(r)
  <2>1. pc[r] = "generate" /\ pc'[r] = "reload" /\ UNCHANGED <<rows, acl>>
    BY <1>t, <1>9 DEF Generate
  <2> QED
    BY <1>h, <1>i, <1>c, <2>1
<1>10. CASE Reload(r)
  <2>1. pc[r] \in {"reload", "reload2"} /\ UNCHANGED <<rows, acl, conf, err>>
    BY <1>10 DEF Reload
  <2>2. CASE Configures(r) /\ pc[r] = "reload"
    <3>1. CASE ConfigOK
      <4>1. pc'[r] = "online"
        BY <1>t, <1>10, <2>2, <3>1 DEF Reload
      <4>2. rows[h].content \notin Bad
        BY <1>h, <1>i, <2>2, <3>1 DEF ConfigOK
      <4> QED
        BY <1>h, <1>i, <1>c, <2>1, <2>2, <4>1, <4>2
    <3>2. CASE ~ConfigOK
      <4>1. pc'[r] = "offline"
        BY <1>t, <1>10, <2>2, <3>2 DEF Reload, Throw
      <4> QED
        BY <1>h, <1>i, <1>c, <2>1, <2>2, <4>1
    <3> QED
      BY <3>1, <3>2
  <2>3. CASE ~(Configures(r) /\ pc[r] = "reload")
    <3>1. pc'[r] \in {"probe", "audit"}
      BY <1>t, <1>i, <1>10, <2>1, <2>3 DEF Reload, Throw, AfterConfigure
    <3>2. FilesSettled(h)'
      <4>1. CASE pc[r] = "reload2"
        <5>1. /\ rows[h].state = "enabled" /\ ~rows[h].online
              /\ conf[h] = None /\ err[h] = rows[h].content
              /\ h \in ProxyHost => acl[h] = rows[h].content
          BY <1>i, <4>1
        <5> QED
          BY <1>h, <2>1, <5>1 DEF FilesSettled
      <4>2. CASE pc[r] = "reload" /\ ~Configures(r)
        <5>1. /\ rows[h].state = (IF task[r].op = "delete" THEN "deleted" ELSE "disabled")
              /\ conf[h] = None /\ err[h] = None
              /\ task[r].op = "delete" => acl[h] = None
          BY <1>i, <4>2
        <5>2. rows[h].state = "deleted" => acl[h] = None
          BY <1>i, <4>2, <5>1
        <5> QED
          BY <1>h, <2>1, <5>1, <5>2 DEF FilesSettled
      <4> QED
        BY <2>1, <2>3, <4>1, <4>2
    <3> QED
      BY <1>h, <1>c, <2>1, <3>1, <3>2
  <2> QED
    BY <2>2, <2>3
<1>11. CASE PatchOnline(r)
  <2>1. pc[r] = "online" /\ pc'[r] \in {"probe", "audit"} /\ UNCHANGED <<acl, conf, err>>
    BY <1>t, <1>11 DEF PatchOnline, AfterConfigure
  <2>2. rows'[h] = [rows[h] EXCEPT !.online = TRUE]
    BY <1>t, <1>h, <1>i, <1>11, <2>1 DEF PatchOnline, SetOnline
  <2>3. rows'[h].state = "enabled" /\ rows'[h].online /\ rows'[h].content = rows[h].content
    BY <1>t, <1>h, <1>i, <2>1, <2>2 DEF Row
  <2>4. FilesSettled(h)'
    BY <1>h, <1>i, <2>1, <2>3 DEF FilesSettled
  <2> QED
    BY <1>h, <1>i, <1>c, <2>1, <2>3, <2>4
<1>12. CASE PatchOffline(r)
  <2>1. pc[r] = "offline" /\ pc'[r] = "rename" /\ UNCHANGED <<acl, conf, err>>
    BY <1>t, <1>12 DEF PatchOffline
  <2>2. rows'[h] = [rows[h] EXCEPT !.online = FALSE]
    BY <1>t, <1>h, <1>i, <1>12, <2>1 DEF PatchOffline, SetOnline
  <2>3. rows'[h].state = rows[h].state /\ rows'[h].content = rows[h].content
    BY <1>t, <1>h, <2>2 DEF Row
  <2> QED
    BY <1>h, <1>i, <1>c, <2>1, <2>3
<1>13. CASE RenameAsError(r)
  <2>1. pc[r] = "rename" /\ UNCHANGED <<rows, acl>> /\ conf[h] # None
    BY <1>h, <1>i, <1>c, <1>13, ContentAssumption DEF RenameAsError
  <2>2. pc'[r] = "reload2"
    BY <1>t, <1>13, <2>1 DEF RenameAsError
  <2> QED
    BY <1>h, <1>i, <1>c, <2>1, <2>2
<1>14. CASE Probe(r)
  <2>1. pc[r] = "probe" /\ pc'[r] = "audit" /\ UNCHANGED <<acl, conf, err>>
    BY <1>t, <1>14 DEF Probe
  <2>2. rows'[h] = [rows[h] EXCEPT !.reach = snap[r].content]
    BY <1>t, <1>h, <1>i, <1>14, <2>1 DEF Probe
  <2>3. /\ rows'[h].state = rows[h].state /\ rows'[h].online = rows[h].online
        /\ rows'[h].content = rows[h].content
    BY <1>t, <1>h, <2>2 DEF Row
  <2>4. FilesSettled(h)'
    BY <1>h, <1>i, <2>1, <2>3 DEF FilesSettled
  <2> QED
    BY <1>h, <1>c, <2>1, <2>3, <2>4
<1>15. CASE Audit(r)
  <2>1. pc[r] = "audit" /\ pc'[r] = "done" /\ UNCHANGED <<rows, acl, conf, err>>
    BY <1>t, <1>15 DEF Audit, Throw
  <2>2. FilesSettled(h)'
    BY <1>h, <1>i, <2>1 DEF FilesSettled
  <2> QED
    BY <1>h, <1>c, <2>1, <2>2
<1> QED
  BY <1>1, <1>2, <1>3, <1>4, <1>5, <1>6, <1>7, <1>8, <1>9, <1>10, <1>11, <1>12,
     <1>13, <1>14, <1>15 DEF Step

\* nginx and the files agree once no request has a reload to make.
LEMMA SyncKept ==
  ASSUME TidyInv, NEW r \in Req, Step(r), Moves(r), Local(r)
  PROVE  ServedInSync'
<1>t. /\ pc \in [Req -> Steps] /\ pc' \in [Req -> Steps]
      /\ \A q \in Req : q # r => pc'[q] = pc[q]
  BY DEF TidyInv, HostInv, TypeOK, Moves, Goto, Local
<1>i. StepOp(r) /\ FileStep(r)
  BY DEF TidyInv, HostInv
<1>h. task[r].host \in Host
  BY DEF TidyInv, HostInv, TypeOK, TaskOK, Moves
<1> USE DEF db, files, mem, Goto, Pending
<1>1. CASE /\ pc[r] \notin Pending /\ UNCHANGED <<conf, served>>
  BY <1>t, <1>1 DEF TidyInv, ServedInSync
<1>2. CASE pc'[r] \in Pending
  BY <1>2 DEF ServedInSync
<1>3. CASE CommitCreate(r) \/ CommitUpdate(r) \/ CommitEnable(r) \/ CommitDisable(r) \/ CommitDelete(r)
  BY <1>1, <1>3 DEF CommitCreate, CommitUpdate, CommitEnable, CommitDisable, CommitDelete
<1>4. CASE Fetch(r) \/ BuildAccess(r) \/ PatchOnline(r) \/ Probe(r) \/ Audit(r)
  BY <1>1, <1>4 DEF Fetch, BuildAccess, PatchOnline, Probe, Audit
<1>5. CASE RemoveConfig(r)
  BY <1>t, <1>2, <1>5 DEF RemoveConfig
<1>6. CASE DropAccess(r) \/ Generate(r) \/ PatchOffline(r)
  BY <1>t, <1>2, <1>6 DEF DropAccess, Generate, PatchOffline
<1>7. CASE RenameAsError(r)
  <2>1. conf[task[r].host] # None
    <3>1. pc[r] = "rename"
      BY <1>7 DEF RenameAsError
    <3>2. rows[task[r].host].state = "enabled"
      BY <1>i, <3>1 DEF TidyInv, HostInv, RowStep, Fresh, StepOp
    <3> QED
      BY <1>h, <1>i, <3>1, <3>2, ContentAssumption DEF TidyInv, RowContent, FileStep
  <2> QED
    BY <1>t, <1>2, <1>7, <2>1 DEF RenameAsError
<1>8. CASE Reload(r)
  <2>1. CASE ConfigOK
    BY <1>8, <2>1 DEF Reload, ServedInSync
  <2>2. CASE ~ConfigOK /\ Configures(r) /\ pc[r] = "reload"
    BY <1>t, <1>2, <1>8, <2>2 DEF Reload, Throw
  <2>3. CASE ~ConfigOK /\ ~(Configures(r) /\ pc[r] = "reload")
    <3>1. PICK g \in Host : conf[g] \in Bad
      BY <2>3 DEF ConfigOK
    <3>2. PICK q \in Req : /\ pc[q] \in {"reload", "offline", "rename"} /\ Configures(q)
                           /\ task[q].host = g
      BY <3>1, BadHasOwner
    <3>3. q # r
      BY <1>8, <2>3, <3>2 DEF Reload
    <3> QED
      BY <1>t, <3>2, <3>3 DEF ServedInSync
  <2> QED
    BY <2>1, <2>2, <2>3
<1> QED
  BY <1>3, <1>4, <1>5, <1>6, <1>7, <1>8 DEF Step

LEMMA StepTidy ==
  ASSUME TidyInv, HostInv', NEW r \in Req, Step(r), Moves(r), Local(r)
  PROVE  TidyInv'
<1>1. TidyHost(r)'
  BY TidyOwn
<1>2. task' = task /\ Active(r) /\ task[r].host \in Host
  BY DEF Moves, TidyInv, HostInv, TypeOK, TaskOK
<1>3. RowContent'
  BY <1>1, <1>2 DEF TidyInv, RowContent, Local, TidyHost
<1>4. OnlyProxyAccess'
  BY <1>1, <1>2 DEF TidyInv, OnlyProxyAccess, Local, TidyHost
<1>5. ASSUME NEW q \in Req PROVE TidyStep(q)'
  <2>1. CASE q = r
    BY <1>1, <2>1 DEF TidyHost
  <2>2. CASE q # r /\ Active(q)
    <3> DEFINE h == task[q].host
    <3>1. h \in Host /\ h # task[r].host
      BY <1>2, <2>2 DEF TidyInv, HostInv, TypeOK, TaskOK, Exclusive
    <3>2. /\ rows'[h] = rows[h] /\ acl'[h] = acl[h] /\ conf'[h] = conf[h] /\ err'[h] = err[h]
          /\ pc'[q] = pc[q]
      BY <2>2, <3>1 DEF Local
    <3>3. FilesSettled(h) => FilesSettled(h)'
      BY <1>2, <3>2 DEF FilesSettled
    <3> QED
      BY <1>2, <3>2, <3>3 DEF TidyInv, TidyStep, Configures
  <2>3. CASE q # r /\ ~Active(q)
    BY <2>3 DEF TidyStep, Local, Active
  <2> QED
    BY <2>1, <2>2, <2>3
<1>6. ASSUME NEW h \in Host, Untouched(h)' PROVE FilesSettled(h)'
  <2>1. CASE h = task[r].host
    <3>1. pc'[r] = "idle" \/ pc'[r] = "done"
      BY <1>2, <1>6, <2>1 DEF Untouched, Active
    <3>2. pc'[r] # "idle"
      BY StepNotIdle DEF TidyInv, HostInv
    <3> QED
      BY <1>1, <1>2, <2>1, <3>1, <3>2 DEF TidyHost
  <2>2. CASE h # task[r].host
    <3>1. Untouched(h)
      BY <1>2, <1>6, <2>2 DEF Untouched, Active, Local
    <3>2. rows'[h] = rows[h] /\ acl'[h] = acl[h] /\ conf'[h] = conf[h] /\ err'[h] = err[h]
      BY <2>2 DEF Local
    <3> QED
      BY <3>1, <3>2 DEF TidyInv, RestSettled, FilesSettled
  <2> QED
    BY <2>1, <2>2
<1>7. ServedInSync'
  BY SyncKept
<1> QED
  BY <1>3, <1>4, <1>5, <1>6, <1>7 DEF TidyInv, RestSettled

LEMMA NextTidy == ASSUME Disjoint PROVE TidyInv /\ faults = 0 /\ faults' = 0 /\ [Next]_vars => TidyInv'
<1> SUFFICES ASSUME TidyInv, faults = 0, faults' = 0, [Next]_vars PROVE TidyInv'
  OBVIOUS
<1>i. HostInv'
  BY NextHost DEF TidyInv
<1>1. CASE UNCHANGED vars
  BY <1>1, <1>i DEF TidyInv, vars, RowContent, OnlyProxyAccess, RestSettled, TidyStep, ServedInSync,
                    Untouched, FilesSettled, Configures, Active
<1>2. ASSUME NEW r \in Req, Accept(r) PROVE TidyInv'
  <2>1. PICK o \in Ops, g \in Host, c \in Text :
           /\ \A q \in Req : Active(q) => task[q].host # g
           /\ Admissible(o, g, c)
           /\ task' = [task EXCEPT ![r] = [op |-> o, host |-> g, data |-> c]]
    BY <1>2 DEF Accept, Disjoint
  <2>2. /\ pc \in [Req -> Steps] /\ task \in [Req -> Task]
        /\ pc[r] = "idle" /\ pc'[r] = "commit"
        /\ \A q \in Req : q # r => pc'[q] = pc[q]
        /\ UNCHANGED <<rows, acl, conf, err, served>>
    BY <1>2 DEF Accept, Goto, TidyInv, HostInv, TypeOK, db, files
  <2>3. task'[r] = [op |-> o, host |-> g, data |-> c] /\ \A q \in Req : q # r => task'[q] = task[q]
    BY <2>1, <2>2
  <2>4. \A h \in Host : FilesSettled(h) => FilesSettled(h)'
    BY <2>2 DEF FilesSettled
  <2>5. FilesSettled(g)'
    BY <2>1, <2>4 DEF TidyInv, RestSettled, Untouched
  <2>6. ASSUME NEW q \in Req PROVE TidyStep(q)'
    <3>1. CASE q = r
      BY <2>1, <2>2, <2>3, <2>5, <3>1 DEF TidyStep, Admissible, CreateChecks, UpdateChecks
    <3>2. CASE q # r
      <4>1. pc'[q] = pc[q] /\ task'[q] = task[q]
        BY <2>2, <2>3, <3>2
      <4>2. FilesSettled(task[q].host) => FilesSettled(task[q].host)'
        BY <2>2, <4>1 DEF FilesSettled
      <4> QED
        BY <2>2, <4>1, <4>2 DEF TidyInv, TidyStep, Configures
    <3> QED
      BY <3>1, <3>2
  <2>7. ASSUME NEW h \in Host, Untouched(h)' PROVE Untouched(h)
    BY <2>2, <2>3, <2>7 DEF Untouched, Active
  <2>8. RowContent' /\ OnlyProxyAccess' /\ RestSettled'
    BY <2>2, <2>4, <2>7 DEF TidyInv, RowContent, OnlyProxyAccess, RestSettled
  <2>9. ServedInSync'
    BY <2>2 DEF TidyInv, ServedInSync, Pending
  <2> QED
    BY <1>i, <2>6, <2>8, <2>9 DEF TidyInv
<1>3. ASSUME NEW r \in Req, Refuse(r) PROVE TidyInv'
  <2>1. /\ UNCHANGED <<rows, acl, conf, err, served, task>> /\ pc[r] = "idle" /\ pc'[r] = "done"
        /\ \A q \in Req : q # r => pc'[q] = pc[q]
    BY <1>3 DEF Refuse, Goto, TidyInv, HostInv, TypeOK, db, files, mem
  <2>2. \A h \in Host : Untouched(h)' => Untouched(h)
    BY <2>1 DEF Untouched, Active
  <2>3. RowContent' /\ OnlyProxyAccess' /\ RestSettled'
    BY <2>1, <2>2 DEF TidyInv, RowContent, OnlyProxyAccess, RestSettled, FilesSettled
  <2>4. ASSUME NEW q \in Req PROVE TidyStep(q)'
    BY <2>1 DEF TidyInv, TidyStep, Configures, FilesSettled
  <2>5. ServedInSync'
    BY <2>1 DEF TidyInv, ServedInSync, Pending
  <2> QED
    BY <1>i, <2>3, <2>4, <2>5 DEF TidyInv
<1>4. ASSUME NEW r \in Req, Step(r) PROVE TidyInv'
  <2>1. Moves(r) /\ Local(r)
    BY <1>4, StepMoves, StepLocal DEF TidyInv, HostInv
  <2> QED
    BY <1>i, <1>4, <2>1, StepTidy
<1>5. ASSUME NEW r \in Req PROVE ~Fault(r) /\ ~ProbeFault(r)
  BY DEF Fault, ProbeFault
<1> QED
  BY <1>1, <1>2, <1>3, <1>4, <1>5 DEF Next

\* Faults are counted: there is no way back to none.
LEMMA FaultsGrow == ASSUME HostInv, [Next]_vars, faults' = 0 PROVE faults = 0
<1>1. faults \in Nat
  BY BoundsAssumption DEF HostInv, TypeOK
<1>2. CASE UNCHANGED vars
  BY <1>2 DEF vars
<1>3. ASSUME NEW r \in Req, Accept(r) \/ Refuse(r) PROVE faults = 0
  BY <1>3 DEF Accept, Refuse
<1>4. ASSUME NEW r \in Req, Step(r) PROVE faults = 0
  BY <1>4 DEF Step, CommitCreate, CommitUpdate, CommitEnable, CommitDisable, CommitDelete, Fetch,
     BuildAccess, RemoveConfig, DropAccess, Generate, Reload, SetOnline, PatchOnline, PatchOffline,
     RenameAsError, Probe, Audit
<1>5. ASSUME NEW r \in Req, Fault(r) \/ ProbeFault(r) PROVE FALSE
  BY <1>1, <1>5 DEF Fault, ProbeFault
<1> QED
  BY <1>2, <1>3, <1>4, <1>5 DEF Next

\* With requests on different hosts and no fault but refused files, every host is
\* consistent whenever no request is in flight: however many requests there are,
\* however their awaits interleave and whichever files nginx refuses.
THEOREM SettledTheorem == ASSUME Disjoint PROVE Spec => []SettledConsistent
<1> DEFINE Inv == HostInv /\ (faults = 0 => TidyInv)
<1>1. Init => Inv
  BY InitTidy DEF TidyInv
<1>2. Inv /\ [Next]_vars => Inv'
  BY NextHost, NextTidy, FaultsGrow
<1>3. Inv => SettledConsistent
  BY TidyImplies DEF SettledConsistent
<1> QED
  BY <1>1, <1>2, <1>3, PTL DEF Spec

-----------------------------------------------------------------------------
(* The reachability of a proxy host.                                        *)

\* A request comes to the end of a success on an enabled proxy host through its probe only.
LEMMA ReachOwn ==
  ASSUME HostInv, NEW r \in Req, Step(r), Moves(r), task[r].host \in ProxyHost,
         pc'[r] = "audit", res'[r] = "ok", rows'[task[r].host].state = "enabled"
  PROVE  rows'[task[r].host].reach = rows'[task[r].host].content
<1> DEFINE h == task[r].host
<1>t. /\ rows \in [Host -> Row] /\ pc \in [Req -> Steps] /\ res \in [Req -> {"ok", "refused", "error"}]
      /\ h \in Host /\ task[r].op \in Ops
  BY DEF HostInv, TypeOK, TaskOK, Moves
<1>o. StepOp(r) /\ RowStep(r)
  BY DEF HostInv
<1>0. ~Throw(r) \/ pc[r] \in {"commit", "audit"}
  BY <1>t DEF Throw, Goto
<1>1. CASE CommitCreate(r) \/ CommitUpdate(r) \/ CommitEnable(r) \/ CommitDisable(r) \/ CommitDelete(r)
           \/ BuildAccess(r) \/ DropAccess(r) \/ Generate(r) \/ PatchOffline(r)
  BY <1>t, <1>1 DEF CommitCreate, CommitUpdate, CommitEnable, CommitDisable, CommitDelete,
     BuildAccess, DropAccess, Generate, PatchOffline, Goto
<1>2. CASE Fetch(r)
  <2>1. pc[r] = "fetch" /\ rows' = rows
    BY <1>2 DEF Fetch, db
  <2>2. Goto(r, "access")
    BY <1>0, <1>2, <2>1 DEF Fetch
  <2> QED
    BY <1>t, <2>2 DEF Goto
<1>3. CASE RemoveConfig(r)
  BY <1>t, <1>3 DEF RemoveConfig, Goto
<1>4. CASE Reload(r)
  <2>1. pc[r] \in {"reload", "reload2"} /\ rows' = rows
    BY <1>4 DEF Reload, db
  <2>2. ~Configures(r)
    <3>1. Goto(r, CASE ~Configures(r) -> "audit"
                    [] Configures(r) /\ pc[r] = "reload" -> "online"
                    [] OTHER -> AfterConfigure(h))
      BY <1>0, <1>4, <2>1 DEF Reload
    <3> QED
      BY <1>t, <3>1 DEF Goto, AfterConfigure
  <2> QED
    BY <1>o, <2>1, <2>2 DEF RowStep, Fresh
<1>5. CASE PatchOnline(r)
  BY <1>t, <1>5 DEF PatchOnline, Goto, AfterConfigure
<1>6. CASE RenameAsError(r)
  <2>1. pc[r] = "rename" /\ Goto(r, "reload2")
    BY <1>0, <1>6 DEF RenameAsError
  <2> QED
    BY <1>t, <2>1 DEF Goto
<1>7. CASE Probe(r)
  <2>1. pc[r] = "probe" /\ Configures(r)
    BY <1>o, <1>7 DEF Probe, StepOp
  <2>2. rows[h].state = "enabled" /\ snap[r].content = rows[h].content
    BY <1>o, <2>1 DEF RowStep, Fresh
  <2>3. rows' = [rows EXCEPT ![h].reach = snap[r].content]
    BY <1>7, <2>2 DEF Probe, Live
  <2> QED
    BY <1>t, <2>2, <2>3 DEF Row
<1>8. CASE Audit(r)
  <2>1. pc[r] = "audit" /\ (Throw(r) \/ Goto(r, "done"))
    BY <1>8 DEF Audit
  <2> QED
    BY <1>t, <2>1 DEF Throw, Goto
<1> QED
  BY <1>1, <1>2, <1>3, <1>4, <1>5, <1>6, <1>7, <1>8 DEF Step

\* What a request that is about to answer has stored.
ReachStep(r) ==
    pc[r] = "audit" /\ res[r] = "ok" /\ task[r].host \in ProxyHost =>
        LET row == rows[task[r].host] IN
        row.state = "enabled" => row.reach = row.content

LEMMA ReachOthers ==
  ASSUME HostInv, NEW r \in Req, Local(r), Moves(r), NEW q \in Req, q # r, ReachStep(q)
  PROVE  ReachStep(q)'
<1>1. pc'[q] = pc[q] /\ res'[q] = res[q] /\ task' = task
  BY DEF Local, Moves
<1>2. CASE pc[q] # "audit"
  BY <1>1, <1>2 DEF ReachStep
<1>3. CASE pc[q] = "audit"
  <2>1. task[q].host \in Host /\ task[q].host # task[r].host
    BY <1>3 DEF HostInv, TypeOK, TaskOK, Exclusive, Moves, Active
  <2>2. rows'[task[q].host] = rows[task[q].host]
    BY <2>1 DEF Local
  <2> QED
    BY <1>1, <2>2 DEF ReachStep
<1> QED
  BY <1>2, <1>3

LEMMA ReachNext ==
  ASSUME HostInv, [Next]_vars, faults' = 0, \A q \in Req : ReachStep(q)
  PROVE  \A q \in Req : ReachStep(q)'
<1>1. CASE UNCHANGED vars
  BY <1>1 DEF vars, ReachStep
<1>2. ASSUME NEW r \in Req, Accept(r) \/ Refuse(r), NEW q \in Req PROVE ReachStep(q)'
  <2>1. /\ pc \in [Req -> Steps] /\ task \in [Req -> Task] /\ res \in [Req -> {"ok", "refused", "error"}]
    BY DEF HostInv, TypeOK
  <2>2. /\ rows' = rows /\ pc'[r] \in {"commit", "done"}
        /\ (q # r => pc'[q] = pc[q] /\ task'[q] = task[q] /\ res'[q] = res[q])
    BY <1>2, <2>1 DEF Accept, Refuse, Goto, db, mem
  <2> QED
    BY <2>2 DEF ReachStep
<1>3. ASSUME NEW r \in Req, Step(r), NEW q \in Req PROVE ReachStep(q)'
  <2>1. Moves(r) /\ Local(r)
    BY <1>3, StepMoves, StepLocal DEF HostInv
  <2>2. CASE q = r
    <3> SUFFICES ASSUME pc'[r] = "audit", res'[r] = "ok", task'[r].host \in ProxyHost,
                        rows'[task'[r].host].state = "enabled"
                 PROVE  rows'[task'[r].host].reach = rows'[task'[r].host].content
      BY <2>2 DEF ReachStep
    <3>1. task' = task
      BY <2>1 DEF Moves
    <3> QED
      BY <1>3, <2>1, <3>1, ReachOwn
  <2> QED
    BY <2>1, <2>2, ReachOthers
<1>4. ASSUME NEW r \in Req, Fault(r) \/ ProbeFault(r) PROVE FALSE
  <2>1. faults \in Nat
    BY BoundsAssumption DEF HostInv, TypeOK
  <2> QED
    BY <1>4, <2>1 DEF Fault, ProbeFault
<1> QED
  BY <1>1, <1>2, <1>3, <1>4 DEF Next

\* With requests on different hosts and no fault but refused files, a request that is about to
\* answer success has stored the reachability of the very destination it has stored.
THEOREM ReachTheorem == ASSUME Disjoint PROVE Spec => []ReachIsCurrent
<1> DEFINE Inv == HostInv /\ (faults = 0 => \A r \in Req : ReachStep(r))
<1>1. Init => Inv
  <2>1. Init => \A r \in Req : pc[r] = "idle"
    BY DEF Init
  <2> QED
    BY <2>1, InitHost DEF ReachStep
<1>2. Inv /\ [Next]_vars => Inv'
  <2> SUFFICES ASSUME Inv, [Next]_vars PROVE Inv'
    OBVIOUS
  <2>1. HostInv'
    BY NextHost
  <2>2. ASSUME faults' = 0 PROVE \A r \in Req : ReachStep(r)'
    BY <2>2, FaultsGrow, ReachNext
  <2> QED
    BY <2>1, <2>2
<1>3. Inv => ReachIsCurrent
  BY DEF ReachStep, ReachIsCurrent
<1> QED
  BY <1>1, <1>2, <1>3, PTL DEF Spec
=============================================================================
