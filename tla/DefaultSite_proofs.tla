------------------------- MODULE DefaultSite_proofs -------------------------
(* Proofs about DefaultSite, for any requests, values, pages and bounds.    *)
EXTENDS DefaultSite, TLAPS

-----------------------------------------------------------------------------
(* Type correctness.                                                        *)

LEMMA MergedType ==
  ASSUME NEW s \in Setting, NEW p \in Payload
  PROVE  Merged(s, p) \in Setting
BY DEF Setting, Payload, Merged

LEMMA AskedType ==
  ASSUME TypeOK, NEW r \in Req, ask[r] # None
  PROVE  Merged(row, ask[r]) \in Setting
BY MergedType DEF TypeOK

LEMMA InitType == Init => TypeOK
<1> SUFFICES ASSUME Init PROVE TypeOK
  OBVIOUS
<1>1. row \in Setting /\ row.value \in Value /\ row.page \in Page \cup {None}
  BY DEF Init, Setting
<1>2. faults \in 0 .. MaxFaults /\ crashes \in 0 .. MaxCrashes
  BY BoundsAssumption DEF Init
<1> QED
  BY <1>1, <1>2 DEF Init, TypeOK, ConfText, PageText, NoFiles, Steps

\* The bookkeeping that goes with the chain: a running update is its head.
BookInv ==
  /\ \A r \in Req :
       /\ ask[r] = None <=> pc[r] = "idle"
       /\ answer[r] = "none" <=> pc[r] # "done"
       /\ Running(r) => chain # <<>> /\ Head(chain) = r
       /\ node # "up" => pc[r] \in {"idle", "done"}

LEMMA TailType == ASSUME NEW S, NEW s \in Seq(S), s # <<>> PROVE Tail(s) \in Seq(S)
OBVIOUS

\* A settling update is the head of the chain, and no other is running.
LEMMA SettleBook ==
  ASSUME TypeOK, BookInv, NEW r \in Req, NEW a,
         a \in {"ok", "rejected", "failed", "error"},
         Running(r) \/ (pc[r] = "queued" /\ MyTurn(r)),
         Settle(r, a)
  PROVE  /\ pc' \in [Req -> Steps]
         /\ answer' \in [Req -> {"none", "ok", "rejected", "failed", "error", "lost"}]
         /\ chain' \in Seq(Req)
         /\ \A q \in Req : ~Running(q)'
         /\ ask' = ask /\ node' = node => BookInv'
<1>1. chain # <<>> /\ Head(chain) = r
  BY DEF BookInv, MyTurn
<1>2. chain' \in Seq(Req)
  BY <1>1, TailType DEF TypeOK, Settle
<1>3. pc' = [pc EXCEPT ![r] = "done"] /\ answer' = [answer EXCEPT ![r] = a]
  BY DEF Settle, GoTo
<1>4. \A q \in Req : ~Running(q)'
  BY <1>1, <1>3 DEF BookInv, Running, TypeOK
<1>5. ASSUME ask' = ask, node' = node PROVE BookInv'
  BY <1>1, <1>3, <1>4, <1>5 DEF BookInv, Running, TypeOK
<1> QED
  BY <1>2, <1>3, <1>4, <1>5 DEF TypeOK, Steps

\* A step that keeps the chain keeps the running update at its head.
LEMMA GoToBook ==
  ASSUME TypeOK, BookInv, NEW r \in Req, NEW step \in Steps \ {"idle", "queued", "done"},
         Running(r) \/ (pc[r] = "queued" /\ MyTurn(r)),
         GoTo(r, step), chain' = chain, ask' = ask, answer' = answer, node' = node
  PROVE  /\ pc' \in [Req -> Steps]
         /\ BookInv'
<1>1. chain # <<>> /\ Head(chain) = r
  BY DEF BookInv, MyTurn
<1>2. pc' = [pc EXCEPT ![r] = step] /\ step \in Steps
  BY DEF GoTo
<1>3. pc' \in [Req -> Steps]
  BY <1>2 DEF TypeOK
<1>4. node = "up"
  BY DEF BookInv, Running
<1>5. BookInv'
  BY <1>1, <1>2, <1>4 DEF BookInv, Running, TypeOK
<1> QED
  BY <1>3, <1>5

\* The data an update writes has its type.
LEMMA UpdateData ==
  ASSUME TypeOK, BookInv, NEW r \in Req, Update(r) \/ UpdateFault(r)
  PROVE  /\ row' \in Setting /\ conf' \in ConfText /\ html' \in PageText /\ served' \in Value
         /\ log' \subseteq Req /\ candidate' \in [Req -> Setting]
         /\ snap' \in [Req -> [conf : ConfText, html : PageText]]
         /\ faults' \in 0 .. MaxFaults /\ stale' \subseteq {"conf", "page"}
         /\ ask' = ask /\ crashes' = crashes /\ node' = node
<1>1. snap[r].conf \in ConfText /\ snap[r].html \in PageText
  BY DEF TypeOK
<1>2. candidate[r].value \in Value /\ candidate[r].page \in Page \cup {None}
  BY DEF TypeOK, Setting
<1>3. CanFail => faults' \in 0 .. MaxFaults
  BY BoundsAssumption DEF TypeOK, CanFail
<1>4. Accepted(conf) => conf \in Value
  BY DEF Accepted
<1>5. pc[r] # "idle" => Merged(row, ask[r]) \in Setting
  BY AskedType DEF BookInv
<1> USE DEF TypeOK, ConfText, PageText, files, process
<1>6. CASE Read(r)
  BY <1>5, <1>6 DEF Read
<1>7. CASE Snapshot(r)
  BY <1>7 DEF Snapshot
<1>8. CASE Generate(r) \/ Test(r) \/ WritePage(r)
  BY <1>2, <1>8 DEF Generate, Test, WritePage
<1>9. CASE Reload(r) \/ ReloadBack(r)
  BY <1>4, <1>9 DEF Reload, ReloadBack, GiveUp
<1>10. CASE Commit(r)
  BY <1>5, <1>10 DEF Commit
<1>11. CASE Restore(r)
  BY <1>1, <1>11 DEF Restore
<1>12. CASE FaultBefore(r) \/ FaultWithin(r)
  BY <1>3, <1>4, <1>12 DEF FaultBefore, FaultWithin
<1>13. CASE FaultRestore(r) \/ FaultReloadBack(r)
  BY <1>1, <1>3, <1>4, <1>13 DEF FaultRestore, FaultReloadBack, GiveUp
<1> QED
  BY <1>6, <1>7, <1>8, <1>9, <1>10, <1>11, <1>12, <1>13 DEF Update, UpdateFault

\* An update either goes on to its next step or settles.
LEMMA UpdateMoves ==
  ASSUME TypeOK, BookInv, NEW r \in Req, Update(r) \/ UpdateFault(r)
  PROVE  /\ Running(r) \/ (pc[r] = "queued" /\ MyTurn(r))
         /\ \/ /\ \E step \in Steps \ {"idle", "queued", "done"} : GoTo(r, step)
               /\ chain' = chain /\ answer' = answer
            \/ \E a \in {"ok", "rejected", "failed", "error"} : Settle(r, a)
<1> USE DEF Running, Steps
<1>1. CASE Read(r) \/ Snapshot(r) \/ Generate(r)
  BY <1>1 DEF Read, Snapshot, Generate
<1>2. CASE Test(r) \/ WritePage(r) \/ Reload(r) \/ Restore(r)
  BY <1>2 DEF Test, WritePage, Reload, Restore, AfterTest
<1>3. CASE Commit(r) \/ ReloadBack(r)
  BY <1>3 DEF Commit, ReloadBack, GiveUp
<1>4. CASE UpdateFault(r)
  BY <1>4 DEF UpdateFault, FaultBefore, FaultWithin, FaultRestore, FaultReloadBack, GiveUp
<1> QED
  BY <1>1, <1>2, <1>3, <1>4 DEF Update

LEMMA UpdateBook ==
  ASSUME TypeOK, BookInv, NEW r \in Req, Update(r) \/ UpdateFault(r)
  PROVE  TypeOK' /\ BookInv'
<1> USE UpdateData
<1>1. CASE \E step \in Steps \ {"idle", "queued", "done"} : GoTo(r, step) /\ chain' = chain /\ answer' = answer
  <2>1. pc' \in [Req -> Steps] /\ BookInv'
    BY <1>1, UpdateMoves, GoToBook
  <2> QED
    BY <1>1, <2>1 DEF TypeOK
<1>2. CASE \E a \in {"ok", "rejected", "failed", "error"} : Settle(r, a)
  <2>1. /\ pc' \in [Req -> Steps] /\ chain' \in Seq(Req) /\ BookInv'
        /\ answer' \in [Req -> {"none", "ok", "rejected", "failed", "error", "lost"}]
    BY <1>2, UpdateMoves, SettleBook
  <2> QED
    BY <2>1 DEF TypeOK
<1> QED
  BY <1>1, <1>2, UpdateMoves

LEMMA ArriveBook ==
  ASSUME TypeOK, BookInv, NEW r \in Req, Arrive(r)
  PROVE  TypeOK' /\ BookInv'
<1>1. PICK p \in Payload : ask' = [ask EXCEPT ![r] = p]
  BY DEF Arrive
<1>2. p # None
  BY NoneIsNoPayload
<1>3. chain' = Append(chain, r) /\ chain' \in Seq(Req) /\ chain' # <<>>
  BY DEF Arrive, TypeOK
<1>4. chain # <<>> => Head(chain') = Head(chain)
  BY <1>3 DEF TypeOK
<1>5. pc' = [pc EXCEPT ![r] = "queued"] /\ node = "up" /\ node' = node /\ answer' = answer /\ pc[r] = "idle"
  BY DEF Arrive, GoTo, process
<1>6. TypeOK'
  BY <1>1, <1>3, <1>5 DEF TypeOK, Arrive, files, process, Steps
<1>7. BookInv'
  BY <1>1, <1>2, <1>3, <1>4, <1>5 DEF BookInv, Running, TypeOK
<1> QED
  BY <1>6, <1>7

LEMMA InitBook == Init => BookInv
BY DEF Init, BookInv, Running

LEMMA NextBook == TypeOK /\ BookInv /\ [Next]_vars => TypeOK' /\ BookInv'
<1> SUFFICES ASSUME TypeOK, BookInv, [Next]_vars PROVE TypeOK' /\ BookInv'
  OBVIOUS
<1>1. ASSUME NEW r \in Req, Arrive(r) PROVE TypeOK' /\ BookInv'
  BY <1>1, ArriveBook
<1>2. ASSUME NEW r \in Req, Update(r) \/ UpdateFault(r) PROVE TypeOK' /\ BookInv'
  BY <1>2, UpdateBook
<1>3. CASE OtherReload
  <2>1. conf \in Value
    BY <1>3 DEF OtherReload, Accepted
  <2> QED
    BY <1>3, <2>1 DEF OtherReload, TypeOK, BookInv, Running, request, process
<1>4. CASE Crash
  <2>1. crashes' \in 0 .. MaxCrashes
    BY <1>4, BoundsAssumption DEF Crash, TypeOK
  <2>2. TypeOK'
    BY <1>4, <2>1 DEF Crash, TypeOK, files, Steps
  <2>3. BookInv'
    BY <1>4 DEF Crash, TypeOK, BookInv, Running
  <2> QED
    BY <2>2, <2>3
<1>5. CASE BootGenerate
  <2>1. row.value \in Value
    BY DEF TypeOK, Setting
  <2> QED
    BY <1>5, <2>1 DEF BootGenerate, TypeOK, ConfText, BookInv, Running, request
<1>6. CASE BootReload
  <2>1. conf \in Value
    BY <1>6 DEF BootReload, Accepted
  <2> QED
    BY <1>6, <2>1 DEF BootReload, TypeOK, BookInv, Running, request
<1>7. CASE BootFault
  <2>1. faults' \in 0 .. MaxFaults
    BY <1>7, BoundsAssumption DEF BootFault, CanFail, TypeOK
  <2> QED
    BY <1>7, <2>1 DEF BootFault, TypeOK, ConfText, BookInv, Running, request
<1>8. CASE UNCHANGED vars
  BY <1>8 DEF vars, TypeOK, BookInv, Running
<1> QED
  BY <1>1, <1>2, <1>3, <1>4, <1>5, <1>6, <1>7, <1>8 DEF Next, Boot

\* Every reachable state of the default-site update is well-typed.
THEOREM SiteTypeCorrect == Spec => []TypeOK
<1> QED
  BY InitType, InitBook, NextBook, PTL DEF Spec

-----------------------------------------------------------------------------
(* An update is given up untried only by itself or with the process.         *)

\* A step of one update moves no other.
LEMMA OthersStay ==
  ASSUME TypeOK, BookInv, NEW q \in Req, NEW r \in Req, Update(q) \/ UpdateFault(q), q # r
  PROVE  pc'[r] = pc[r]
<1>1. \E step \in Steps : GoTo(q, step)
  BY UpdateMoves DEF Settle, Steps
<1> QED
  BY <1>1 DEF GoTo, TypeOK

LEMMA NextUntried ==
  ASSUME TypeOK, BookInv, [Next]_vars, NEW r \in Req, pc[r] = "queued", pc'[r] = "done"
  PROVE  (MyTurn(r) /\ faults' = faults + 1) \/ crashes' = crashes + 1
<1> USE DEF TypeOK
<1>1. ASSUME NEW q \in Req, Arrive(q) PROVE FALSE
  BY <1>1 DEF Arrive, GoTo
<1>2. ASSUME NEW q \in Req, Update(q) \/ UpdateFault(q) PROVE MyTurn(r) /\ faults' = faults + 1
  <2>1. q = r
    BY <1>2, OthersStay
  <2>2. CASE FaultBefore(r)
    BY <2>2 DEF FaultBefore, CanFail
  <2>3. CASE ~FaultBefore(r)
    BY <1>2, <2>1, <2>3 DEF Update, UpdateFault, Read, Snapshot, Generate, Test, WritePage, Reload,
       Commit, Restore, ReloadBack, FaultWithin, FaultRestore, FaultReloadBack, GoTo
  <2> QED
    BY <2>2, <2>3
<1>3. CASE Crash
  BY <1>3 DEF Crash
<1>4. CASE OtherReload \/ Boot \/ BootFault \/ UNCHANGED vars
  BY <1>4 DEF OtherReload, Boot, BootGenerate, BootReload, BootFault, request, vars
<1> QED
  BY <1>1, <1>2, <1>3, <1>4 DEF Next

\* The failure of an update never answers one that waits behind it: an update that
\* ends untried could not read the setting, or ended with the process.
THEOREM UntriedTheorem == Spec => UntriedByItself
<1>1. TypeOK /\ BookInv /\ [Next]_vars =>
        [\A r \in Req : pc[r] = "queued" /\ pc'[r] = "done" =>
            \/ MyTurn(r) /\ faults' = faults + 1
            \/ crashes' = crashes + 1]_vars
  BY NextUntried
<1> QED
  BY <1>1, InitType, InitBook, NextBook, PTL DEF Spec, UntriedByItself

-----------------------------------------------------------------------------
(* What the files hold at each step of an update.                           *)

ConfOK(c) == "conf" \notin stale => c = row.value
PageOK(h) == "page" \notin stale /\ row.value = Html => h = row.page

\* No update runs: all is as stored, but for the conf of a starting process.
QuietInv ==
  (\A r \in Req : ~Running(r)) =>
    /\ ConfOK(served) /\ PageOK(html)
    /\ node = "up" => ConfOK(conf)
    /\ conf # Torn => ConfOK(conf)
    /\ node = "reload" => conf = row.value

\* An update runs: its snapshot is what was there, the files are on the way
\* from the snapshot to the candidate or back.
RunInv(r) ==
  /\ candidate[r] = Merged(row, ask[r])
  /\ ConfOK(served) \/ served = candidate[r].value
  /\ pc[r] = "snapshot" => ConfOK(conf) /\ PageOK(html)
  /\ pc[r] # "snapshot" =>
       /\ ConfOK(snap[r].conf) /\ PageOK(snap[r].html)
       /\ conf \in {snap[r].conf, candidate[r].value, Torn}
  /\ pc[r] \in {"snapshot", "generate"} => ConfOK(served)
  /\ pc[r] \in {"generate", "reload2"} => conf = snap[r].conf /\ html = snap[r].html
  /\ pc[r] \in {"test", "page", "reload", "commit"} => conf = candidate[r].value
  /\ pc[r] \in {"page", "reload", "commit"} => candidate[r].value \notin Refused
  /\ pc[r] = "page" => candidate[r].value = Html
  /\ pc[r] \in {"reload", "commit"} /\ candidate[r].value = Html =>
       candidate[r].page # None /\ html = candidate[r].page
  /\ pc[r] = "commit" => served = candidate[r].value

RowInv == row.value \notin Refused /\ (row.value = Html => row.page # None)

SiteInv ==
  /\ TypeOK /\ BookInv /\ RowInv /\ QuietInv
  /\ \A r \in Req : Running(r) => RunInv(r)

LEMMA InitSite == Init => SiteInv
<1> SUFFICES ASSUME Init PROVE SiteInv
  OBVIOUS
<1>1. \A r \in Req : ~Running(r)
  BY DEF Init, Running
<1>2. TypeOK /\ BookInv
  BY InitType, InitBook
<1>3. RowInv /\ QuietInv
  BY DEF Init, RowInv, QuietInv, ConfOK, PageOK
<1> QED
  BY <1>1, <1>2, <1>3 DEF SiteInv

\* Only one update runs at a time.
LEMMA OneRuns ==
  ASSUME BookInv, NEW q \in Req, NEW r \in Req,
         Running(q), Running(r) \/ (pc[r] = "queued" /\ MyTurn(r))
  PROVE  q = r
BY DEF BookInv, MyTurn, Running

\* A step that keeps the update running leads to its next phase.
LEMMA RunStep ==
  ASSUME SiteInv, NEW r \in Req, Update(r) \/ UpdateFault(r), Running(r)'
  PROVE  RunInv(r)' /\ row' = row
<1> USE DEF Running, GoTo
<1>1. TypeOK /\ BookInv /\ QuietInv
  BY DEF SiteInv
<1>2. /\ pc \in [Req -> Steps] /\ candidate \in [Req -> Setting] /\ ask' = ask
      /\ snap \in [Req -> [conf : ConfText, html : PageText]]
  BY <1>1, UpdateData DEF TypeOK
<1>3. CASE Read(r)
  <2>1. \A q \in Req : ~Running(q)
    BY <1>1, <1>3, OneRuns DEF Read, Running
  <2>2. node = "up"
    BY <1>1, <1>3 DEF Read, BookInv
  <2>3. ConfOK(conf) /\ ConfOK(served) /\ PageOK(html)
    BY <1>1, <2>1, <2>2 DEF QuietInv
  <2> QED
    BY <1>2, <1>3, <2>3 DEF Read, RunInv, ConfOK, PageOK, files
<1>4. CASE ~Read(r)
  <2>1. Running(r)
    BY <1>2, <1>4 DEF Update, UpdateFault, Snapshot, Generate, Test, WritePage, Reload, Commit,
       Restore, ReloadBack, FaultBefore, FaultWithin, FaultRestore, FaultReloadBack, Settle,
       GiveUp
  <2>2. RunInv(r)
    BY <2>1 DEF SiteInv
  <2>3. CASE Snapshot(r) \/ Generate(r)
    BY <1>2, <2>2, <2>3 DEF Snapshot, Generate, RunInv, ConfOK, PageOK, files
  <2>4. CASE Test(r)
    BY <1>2, <2>2, <2>4 DEF Test, AfterTest, Accepted, RunInv, ConfOK, PageOK, files
  <2>5. CASE WritePage(r)
    BY <1>2, <2>2, <2>5 DEF WritePage, RunInv, ConfOK, PageOK
  <2>6. CASE Reload(r)
    BY <1>2, <2>2, <2>6 DEF Reload, RunInv, ConfOK, PageOK
  <2>7. CASE Restore(r)
    BY <1>2, <2>2, <2>7 DEF Restore, RunInv, ConfOK, PageOK
  <2>8. CASE FaultWithin(r)
    BY <1>2, <2>2, <2>8 DEF FaultWithin, RunInv, ConfOK, PageOK
  <2>9. CASE Commit(r) \/ ReloadBack(r) \/ FaultBefore(r) \/ FaultRestore(r) \/ FaultReloadBack(r)
    BY <1>2, <2>9 DEF Commit, ReloadBack, FaultBefore, FaultRestore, FaultReloadBack, Settle, GiveUp
  <2> QED
    BY <1>4, <2>3, <2>4, <2>5, <2>6, <2>7, <2>8, <2>9 DEF Update, UpdateFault
<1> QED
  BY <1>3, <1>4

\* A step that settles leaves the files as stored, or marks them stale.
LEMMA SettleStep ==
  ASSUME SiteInv, NEW r \in Req, Update(r) \/ UpdateFault(r), ~Running(r)'
  PROVE  QuietInv' /\ RowInv'
<1>1. TypeOK /\ BookInv /\ QuietInv /\ RowInv
  BY DEF SiteInv
<1>2. /\ pc \in [Req -> Steps] /\ candidate \in [Req -> Setting]
      /\ snap \in [Req -> [conf : ConfText, html : PageText]]
      /\ node' = node
  BY <1>1, UpdateData DEF TypeOK
<1>3. node = "up"
  BY <1>1, UpdateMoves DEF BookInv, Running
<1>4. CASE FaultBefore(r)
  <2>1. CASE pc[r] = "snapshot"
    <3>1. RunInv(r)
      BY <2>1 DEF SiteInv, Running
    <3> QED
      BY <1>1, <1>2, <1>3, <1>4, <2>1, <3>1 DEF FaultBefore, RunInv, QuietInv, RowInv, ConfOK, PageOK, files
  <2>2. CASE pc[r] = "queued"
    <3>1. \A q \in Req : ~Running(q)
      BY <1>1, <1>4, <2>2, OneRuns DEF FaultBefore, Running
    <3> QED
      BY <1>1, <1>2, <1>3, <1>4, <3>1 DEF FaultBefore, QuietInv, RowInv, ConfOK, PageOK, files
  <2> QED
    BY <1>4, <2>1, <2>2 DEF FaultBefore
<1>5. CASE Commit(r)
  <2>1. RunInv(r) /\ pc[r] = "commit"
    BY <1>5 DEF SiteInv, Running, Commit
  <2>2. row' = candidate[r] /\ stale' = {} /\ UNCHANGED files
    BY <1>5, <2>1 DEF Commit, RunInv
  <2> QED
    BY <1>2, <1>3, <2>1, <2>2 DEF RunInv, QuietInv, RowInv, ConfOK, PageOK, files
<1>6. CASE ReloadBack(r)
  <2>1. RunInv(r) /\ pc[r] = "reload2"
    BY <1>6 DEF SiteInv, Running, ReloadBack
  <2> QED
    BY <1>1, <1>2, <1>3, <1>6, <2>1 DEF ReloadBack, GiveUp, RunInv, QuietInv, RowInv, ConfOK, PageOK
<1>7. CASE FaultRestore(r) \/ FaultReloadBack(r)
  <2>1. row' = row /\ stale' = {"conf", "page"}
    BY <1>7 DEF FaultRestore, FaultReloadBack, GiveUp
  <2> QED
    BY <1>1, <1>2, <1>3, <2>1 DEF QuietInv, RowInv, ConfOK, PageOK
<1>8. CASE Read(r) \/ Snapshot(r) \/ Generate(r) \/ Test(r) \/ WritePage(r) \/ Reload(r) \/ Restore(r) \/ FaultWithin(r)
  BY <1>2, <1>8 DEF Read, Snapshot, Generate, Test, WritePage, Reload, Restore, FaultWithin,
     AfterTest, GoTo, Running
<1> QED
  BY <1>4, <1>5, <1>6, <1>7, <1>8 DEF Update, UpdateFault

LEMMA UpdateSite ==
  ASSUME SiteInv, NEW r \in Req, Update(r) \/ UpdateFault(r)
  PROVE  SiteInv'
<1>1. TypeOK /\ BookInv /\ TypeOK' /\ BookInv' /\ RowInv
  BY UpdateBook DEF SiteInv
<1>2. Running(r) \/ (pc[r] = "queued" /\ MyTurn(r))
  BY <1>1, UpdateMoves
<1>3. \A q \in Req \ {r} : ~Running(q) /\ ~Running(q)'
  <2>1. \A q \in Req \ {r} : ~Running(q)
    BY <1>1, <1>2, OneRuns
  <2>2. \E step \in Steps : GoTo(r, step)
    BY <1>1, UpdateMoves DEF Settle, Steps
  <2>3. \A q \in Req \ {r} : pc'[q] = pc[q]
    BY <1>1, <2>2 DEF GoTo, TypeOK
  <2> QED
    BY <2>1, <2>3 DEF Running
<1>4. CASE Running(r)'
  <2>1. RunInv(r)' /\ RowInv'
    BY <1>1, <1>4, RunStep DEF RowInv
  <2> QED
    BY <1>1, <1>3, <1>4, <2>1 DEF SiteInv, QuietInv
<1>5. CASE ~Running(r)'
  <2>1. QuietInv' /\ RowInv'
    BY <1>5, SettleStep
  <2> QED
    BY <1>1, <1>3, <1>5, <2>1 DEF SiteInv
<1> QED
  BY <1>4, <1>5

LEMMA NextSite == SiteInv /\ [Next]_vars => SiteInv'
<1> SUFFICES ASSUME SiteInv, [Next]_vars PROVE SiteInv'
  OBVIOUS
<1>1. TypeOK /\ BookInv /\ RowInv /\ QuietInv /\ TypeOK' /\ BookInv'
  BY NextBook DEF SiteInv
<1> USE DEF ConfOK, PageOK
<1>2. ASSUME NEW r \in Req, Arrive(r) PROVE SiteInv'
  <2>1. \A q \in Req : Running(q)' <=> Running(q)
    BY <1>1, <1>2 DEF Arrive, GoTo, Running, TypeOK
  <2>2. \A q \in Req : Running(q) => pc'[q] = pc[q] /\ ask'[q] = ask[q]
    BY <1>1, <1>2 DEF Arrive, GoTo, Running, TypeOK
  <2>3. \A q \in Req : Running(q) => RunInv(q)'
    BY <1>2, <2>2 DEF SiteInv, Arrive, files, RunInv
  <2>4. QuietInv' /\ RowInv'
    BY <1>1, <1>2, <2>1 DEF Arrive, files, process, QuietInv, RowInv
  <2> QED
    BY <1>1, <2>1, <2>3, <2>4 DEF SiteInv
<1>3. ASSUME NEW r \in Req, Update(r) \/ UpdateFault(r) PROVE SiteInv'
  BY <1>3, UpdateSite
<1>4. CASE OtherReload
  <2>1. conf # Torn
    BY <1>4, TornAssumption, RefusedAssumption DEF OtherReload, Accepted
  <2>2. \A q \in Req : Running(q) => RunInv(q)'
    BY <1>4, <2>1 DEF SiteInv, OtherReload, request, RunInv
  <2>3. QuietInv' /\ RowInv'
    BY <1>1, <1>4, <2>1 DEF OtherReload, request, process, QuietInv, RowInv, Running
  <2> QED
    BY <1>1, <1>4, <2>2, <2>3 DEF SiteInv, OtherReload, request, Running
<1>5. CASE Crash
  <2>1. \A q \in Req : ~Running(q)'
    BY <1>1, <1>5 DEF Crash, Running, TypeOK
  <2>2. CASE \E q \in Req : Running(q)
    BY <1>1, <1>5, <2>1, <2>2 DEF SiteInv, Crash, files, QuietInv, RowInv
  <2>3. CASE ~ \E q \in Req : Running(q)
    BY <1>1, <1>5, <2>1, <2>3 DEF SiteInv, Crash, files, QuietInv, RowInv
  <2> QED
    BY <2>2, <2>3
<1>6. CASE Boot \/ BootFault
  <2>1. \A q \in Req : ~Running(q) /\ ~Running(q)'
    BY <1>1, <1>6 DEF Boot, BootGenerate, BootReload, BootFault, BookInv, Running, request
  <2>2. QuietInv' /\ RowInv'
    BY <1>1, <1>6, <2>1 DEF Boot, BootGenerate, BootReload, BootFault, QuietInv, RowInv
  <2> QED
    BY <1>1, <2>1, <2>2 DEF SiteInv
<1>7. CASE UNCHANGED vars
  <2>1. \A q \in Req : (Running(q)' <=> Running(q)) /\ (Running(q) => RunInv(q)')
    BY <1>7 DEF SiteInv, vars, RunInv, Running
  <2>2. QuietInv' /\ RowInv'
    BY <1>1, <1>7 DEF vars, QuietInv, RowInv, Running
  <2> QED
    BY <1>1, <2>1, <2>2 DEF SiteInv
<1> QED
  BY <1>2, <1>3, <1>4, <1>5, <1>6, <1>7 DEF Next

LEMMA SiteInvImplies == SiteInv => SiteMatchesSetting /\ ServesStoredOrCandidate /\ StoredHtmlHasPage
<1> SUFFICES ASSUME SiteInv PROVE SiteMatchesSetting /\ ServesStoredOrCandidate /\ StoredHtmlHasPage
  OBVIOUS
<1>1. SiteMatchesSetting
  BY DEF SiteInv, SiteMatchesSetting, NoTrial, QuietInv, ConfOK, PageOK
<1>2. ServesStoredOrCandidate
  <2>1. CASE \E r \in Req : Running(r)
    BY <2>1 DEF SiteInv, ServesStoredOrCandidate, RunInv, ConfOK
  <2>2. CASE ~ \E r \in Req : Running(r)
    BY <2>2 DEF SiteInv, ServesStoredOrCandidate, QuietInv, ConfOK
  <2> QED
    BY <2>1, <2>2
<1>3. StoredHtmlHasPage
  BY DEF SiteInv, RowInv, StoredHtmlHasPage
<1> QED
  BY <1>1, <1>2, <1>3

LEMMA SiteInvariant == Spec => []SiteInv
<1> QED
  BY InitSite, NextSite, PTL DEF Spec

\* Whatever awaits fail and however updates, reloads and restarts interleave,
\* the files and the running nginx are those of the stored setting between
\* updates, unless a recovery itself failed or a crash cut an update short.
THEOREM SiteMatchesTheorem == Spec => []SiteMatchesSetting
<1> QED
  BY SiteInvariant, SiteInvImplies, PTL

\* nginx never serves a default site that is neither stored nor on trial.
THEOREM ServesTheorem == Spec => []ServesStoredOrCandidate
<1> QED
  BY SiteInvariant, SiteInvImplies, PTL

\* The value html is never stored without a page.
THEOREM HtmlPageTheorem == Spec => []StoredHtmlHasPage
<1> QED
  BY SiteInvariant, SiteInvImplies, PTL

-----------------------------------------------------------------------------
(* Refinement: the update implements AtomicSetting.                         *)

LEMMA TrialIsRunning ==
  ASSUME BookInv, NEW r \in Req, Running(r)
  PROVE  Trial = r
BY DEF BookInv, Trial

LEMMA NoTrialIsQuiet ==
  ASSUME TypeOK, \A r \in Req : ~Running(r)
  PROVE  Trial = None
<1>1. chain # <<>> => Head(chain) \in Req
  BY DEF TypeOK
<1> QED
  BY <1>1 DEF Trial

LEMMA UpdateRefines ==
  ASSUME SiteInv, NEW r \in Req, Update(r) \/ UpdateFault(r)
  PROVE  Atomic!Next \/ UNCHANGED Atomic!vars
<1>1. TypeOK /\ BookInv /\ TypeOK' /\ BookInv'
  BY UpdateBook DEF SiteInv
<1>2. ask[r] # None /\ answer[r] = "none" /\ ask' = ask
  BY <1>1, UpdateMoves, UpdateData DEF BookInv, Running
<1>3. CASE Running(r)'
  <2>1. row' = row /\ log' = log /\ answer' = answer
    <3>1. ~Commit(r) /\ ~ReloadBack(r) /\ ~FaultBefore(r) /\ ~FaultRestore(r) /\ ~FaultReloadBack(r)
      BY <1>1, <1>3 DEF TypeOK, Running, Commit, ReloadBack, FaultBefore, FaultRestore,
         FaultReloadBack, GiveUp, Settle, GoTo
    <3> QED
      BY <3>1 DEF Update, UpdateFault, Read, Snapshot, Generate, Test, WritePage, Reload,
         Restore, FaultWithin
  <2>2. Trial' = r
    BY <1>1, <1>3 DEF BookInv, Trial
  <2>3. CASE Running(r)
    <3>1. Trial = r
      BY <1>1, <2>3, TrialIsRunning
    <3> QED
      BY <1>2, <2>1, <2>2, <3>1 DEF Atomic!vars
  <2>4. CASE ~Running(r)
    <3>1. \A q \in Req : ~Running(q)
      BY <1>1, <2>4, UpdateMoves, OneRuns
    <3>2. Trial = None
      BY <1>1, <3>1, NoTrialIsQuiet
    <3>3. Atomic!Try(r)
      BY <1>2, <2>1, <2>2, <3>2 DEF Atomic!Try
    <3> QED
      BY <3>3 DEF Atomic!Next
  <2> QED
    BY <2>3, <2>4
<1>4. CASE ~Running(r)'
  <2>1. PICK a \in {"ok", "rejected", "failed", "error"} : Settle(r, a)
    BY <1>4, UpdateMoves DEF Running, GoTo, Steps, TypeOK, SiteInv
  <2>2. \A q \in Req : ~Running(q)'
    BY <1>1, <2>1, UpdateMoves, SettleBook
  <2>3. Trial' = None
    <3>1. chain' # <<>> => Head(chain') \in Req
      BY <1>1 DEF TypeOK
    <3> QED
      BY <2>2, <3>1 DEF Trial
  <2>4. answer' = [answer EXCEPT ![r] = a]
    BY <2>1 DEF Settle
  <2>5. CASE Commit(r)
    <3>1. Running(r)
      BY <2>5 DEF Commit, Running
    <3>2. Trial = r
      BY <1>1, <3>1, TrialIsRunning
    <3>3. /\ row' = Merged(row, ask[r]) /\ log' = log \cup {r}
          /\ answer' = [answer EXCEPT ![r] = "ok"]
      BY <2>5 DEF Commit, Settle
    <3>4. Atomic!Apply(r)
      BY <1>2, <2>3, <3>2, <3>3 DEF Atomic!Apply, Atomic!Merged, Merged
    <3> QED
      BY <3>4 DEF Atomic!Next
  <2>6. CASE ~Commit(r)
    <3>1. row' = row /\ log' = log
      BY <2>6 DEF Update, UpdateFault, Read, Snapshot, Generate, Test, WritePage, Reload,
         Restore, ReloadBack, FaultBefore, FaultWithin, FaultRestore, FaultReloadBack
    <3>2. a # "ok"
      BY <1>1, <1>4, <2>4, <2>6 DEF Update, UpdateFault, Read, Snapshot, Generate, Test, WritePage,
         Reload, Restore, ReloadBack, FaultBefore, FaultWithin, FaultRestore, FaultReloadBack,
         GiveUp, Settle, GoTo, AfterTest, Running, TypeOK
    <3>3. CASE Running(r)
      <4>1. Trial = r
        BY <1>1, <3>3, TrialIsRunning
      <4>2. Atomic!Drop(r)
        BY <1>2, <2>3, <2>4, <3>1, <3>2, <4>1 DEF Atomic!Drop
      <4> QED
        BY <4>2 DEF Atomic!Next
    <3>4. CASE ~Running(r)
      <4>1. \A q \in Req : ~Running(q)
        BY <1>1, <3>4, UpdateMoves, OneRuns
      <4>2. Trial = None
        BY <1>1, <4>1, NoTrialIsQuiet
      <4>3. answer' = [answer EXCEPT ![r] = "error"]
        BY <1>1, <1>4, <3>4, <2>6 DEF Update, UpdateFault, Read, Snapshot, Generate, Test, WritePage,
           Reload, Restore, ReloadBack, FaultBefore, FaultWithin, FaultRestore, FaultReloadBack,
           Settle, GoTo, AfterTest, Running, TypeOK
      <4>4. Atomic!Skip(r)
        BY <1>2, <2>3, <3>1, <4>2, <4>3 DEF Atomic!Skip
      <4> QED
        BY <4>4 DEF Atomic!Next
    <3> QED
      BY <3>3, <3>4
  <2> QED
    BY <2>5, <2>6
<1> QED
  BY <1>3, <1>4

LEMMA NextRefines == SiteInv /\ [Next]_vars => [Atomic!Next]_(Atomic!vars)
<1> SUFFICES ASSUME SiteInv, [Next]_vars PROVE Atomic!Next \/ UNCHANGED Atomic!vars
  OBVIOUS
<1>1. TypeOK /\ BookInv /\ TypeOK'
  BY NextBook DEF SiteInv
<1>2. ASSUME NEW r \in Req, Arrive(r) PROVE Atomic!Next
  <2>1. PICK p \in Payload : ask' = [ask EXCEPT ![r] = p]
    BY <1>2 DEF Arrive
  <2>2. ask[r] = None
    BY <1>1, <1>2 DEF Arrive, BookInv
  <2>3. p \in Atomic!Payload
    BY DEF Payload, Atomic!Payload
  <2>4. chain' = Append(chain, r) /\ chain' # <<>> /\ (chain # <<>> => Head(chain') = Head(chain))
    BY <1>1, <1>2 DEF Arrive, TypeOK
  <2>5. pc' = [pc EXCEPT ![r] = "queued"] /\ pc[r] = "idle"
    BY <1>2 DEF Arrive, GoTo
  <2>6. \A q \in Req : Running(q)' <=> Running(q)
    BY <1>1, <2>5 DEF Running, TypeOK
  <2>7. Trial' = Trial
    <3>1. CASE chain # <<>>
      <4>1. Head(chain) \in Req
        BY <1>1, <3>1 DEF TypeOK
      <4>2. (Running(Head(chain)))' <=> Running(Head(chain))
        BY <1>1, <2>4, <2>5, <3>1, <4>1 DEF Running, TypeOK
      <4> QED
        BY <2>4, <3>1, <4>2 DEF Trial
    <3>2. CASE chain = <<>>
      <4>1. Head(chain') = r
        BY <2>4, <3>2
      <4> QED
        BY <1>1, <2>4, <2>5, <3>2, <4>1 DEF Trial, Running, TypeOK
    <3> QED
      BY <3>1, <3>2
  <2>8. Atomic!Ask(r)
    BY <1>2, <2>1, <2>2, <2>3, <2>7 DEF Arrive, Atomic!Ask
  <2> QED
    BY <2>8 DEF Atomic!Next
<1>3. ASSUME NEW r \in Req, Update(r) \/ UpdateFault(r) PROVE Atomic!Next \/ UNCHANGED Atomic!vars
  BY <1>3, UpdateRefines
<1>4. CASE OtherReload \/ Boot \/ BootFault \/ UNCHANGED vars
  BY <1>4 DEF OtherReload, Boot, BootGenerate, BootReload, BootFault, vars, request,
     Atomic!vars, Trial, Running
<1>5. CASE Crash
  <2>1. chain' = <<>> /\ Trial' = None
    BY <1>5 DEF Crash, Trial
  <2>2. \A r \in Req : pc[r] \notin {"idle", "done"} <=> ask[r] # None /\ answer[r] = "none"
    BY <1>1 DEF BookInv
  <2>3. answer' = [r \in Req |-> IF ask[r] # None /\ answer[r] = "none" THEN "lost" ELSE answer[r]]
    BY <1>5, <2>2 DEF Crash
  <2>4. Atomic!Crash
    BY <1>5, <2>1, <2>3 DEF Crash, Atomic!Crash
  <2> QED
    BY <2>4 DEF Atomic!Next
<1> QED
  BY <1>2, <1>3, <1>4, <1>5 DEF Next

\* Every behaviour of the default-site update is one of the atomic setting:
\* chained, snapshotted and restored updates look like updates applied one by
\* one, each to the setting stored at that moment, and audited if applied.
THEOREM AtomicTheorem == Spec => ImplementsAtomicSetting
<1>1. Init => Atomic!Init
  <2> SUFFICES ASSUME Init PROVE Atomic!Init
    OBVIOUS
  <2>1. row \in Atomic!Setting
    BY DEF Init, Setting, Atomic!Setting
  <2>2. Trial = None
    BY DEF Init, Trial
  <2> QED
    BY <2>1, <2>2 DEF Init, Atomic!Init
<1> QED
  BY <1>1, SiteInvariant, NextRefines, PTL DEF Spec, ImplementsAtomicSetting, Atomic!Spec
=============================================================================
