---------------------------- MODULE DefaultSite ----------------------------
(***************************************************************************)
(* The update of the default site (internal/setting.js): the candidate is  *)
(* written over the files nginx uses, tested and reloaded before the row   *)
(* is patched; a failure on the way puts the files back from a snapshot    *)
(* and reloads again.  Updates are chained on one promise, so that each    *)
(* runs when the one before has settled.  Requests of other components     *)
(* reload nginx at any time, and the process may die and start again       *)
(* (setup.js setupDefaultSettings and index.js appStart).                  *)
(***************************************************************************)
EXTENDS SettingData, Naturals, Sequences

CONSTANTS
    Req,
    Refused,     \* the values whose rendered configuration nginx refuses
    Torn,        \* what a failed write leaves in a file; nginx refuses it
    MaxFaults,   \* failing awaits
    MaxCrashes

ASSUME RefusedAssumption == Refused \subseteq Value
ASSUME TornAssumption == Torn \notin Value \cup Page \cup {None}
ASSUME NoRequestIsNone == None \notin Req
ASSUME BoundsAssumption == MaxFaults \in Nat /\ MaxCrashes \in Nat

Steps == {"idle", "queued", "snapshot", "generate", "test", "page", "reload",
          "commit", "restore", "reload2", "done"}

VARIABLES
    row,         \* the stored setting
    conf, html,  \* conf.d/default.conf, by the value it renders, and index.html
    served,      \* the default.conf nginx loaded last
    log,         \* audit log: the requests that have an entry
    chain,       \* pendingDefaultUpdate: the updates not yet settled, in order
    pc, ask,     \* per request: the next step, the payload
    candidate, snap,
    answer,
    node,        \* the process: "up", or starting: "generate", "reload"
    faults, crashes,
    stale        \* history: the files an unrepaired failure may have left wrong

request == <<chain, pc, ask, candidate, snap, answer>>
files   == <<conf, html, served>>
process == <<node, crashes>>
vars == <<row, conf, html, served, log, chain, pc, ask, candidate, snap, answer,
          node, faults, crashes, stale>>

ConfText == Value \cup {Torn}
PageText == Page \cup {None, Torn}
NoFiles == [conf |-> Torn, html |-> None]  \* before a snapshot is taken
Accepted(text) == text \in Value \ Refused

Running(r) == pc[r] \notin {"idle", "queued", "done"}

Init ==
    /\ row \in {s \in Setting : s.value \notin Refused /\ (s.value = Html => s.page # None)}
    /\ conf = row.value /\ html = row.page /\ served = row.value
    /\ log = {} /\ chain = <<>> /\ stale = {}
    /\ pc = [r \in Req |-> "idle"] /\ ask = [r \in Req |-> None]
    /\ candidate = [r \in Req |-> row] /\ snap = [r \in Req |-> NoFiles]
    /\ answer = [r \in Req |-> "none"]
    /\ node = "up" /\ faults = 0 /\ crashes = 0

GoTo(r, step) == pc' = [pc EXCEPT ![r] = step]

\* The update settles, with any outcome: the next one of the chain may run.
Settle(r, a) ==
    /\ GoTo(r, "done")
    /\ answer' = [answer EXCEPT ![r] = a]
    /\ chain' = Tail(chain)

CanFail == faults < MaxFaults /\ faults' = faults + 1

-----------------------------------------------------------------------------
(* One update, one action per await.                                       *)

Arrive(r) ==
    /\ node = "up" /\ pc[r] = "idle"
    /\ \E p \in Payload : ask' = [ask EXCEPT ![r] = p]
    /\ chain' = Append(chain, r)
    /\ GoTo(r, "queued")
    /\ UNCHANGED <<row, files, log, candidate, snap, answer, process, faults, stale>>

\* Mutant: updates are not chained.
Unchained(r) == chain # <<>>

MyTurn(r) == chain # <<>> /\ Head(chain) = r

\* Mutant: the chain is not caught.  Once an update of this process has failed the
\* promise stays rejected, and all later ones are answered with that error at once.
ReadUncaught(r) ==
    /\ pc[r] = "queued" /\ MyTurn(r)
    /\ IF crashes = 0 /\ \E q \in Req : answer[q] \in {"rejected", "failed", "error"}
       THEN Settle(r, "error") /\ UNCHANGED candidate
       ELSE /\ candidate' = [candidate EXCEPT ![r] = Merged(row, ask[r])]
            /\ GoTo(r, "snapshot")
            /\ UNCHANGED <<chain, answer>>
    /\ UNCHANGED <<row, files, log, ask, snap, process, faults, stale>>

Read(r) ==
    /\ pc[r] = "queued" /\ MyTurn(r)
    /\ candidate' = [candidate EXCEPT ![r] = Merged(row, ask[r])]
    /\ GoTo(r, "snapshot")
    /\ UNCHANGED <<row, files, log, chain, ask, snap, answer, process, faults, stale>>

Snapshot(r) ==
    /\ pc[r] = "snapshot"
    /\ snap' = [snap EXCEPT ![r] = [conf |-> conf, html |-> html]]
    /\ GoTo(r, "generate")
    /\ UNCHANGED <<row, files, log, chain, ask, candidate, answer, process, faults, stale>>

Generate(r) ==
    /\ pc[r] = "generate"
    /\ conf' = candidate[r].value
    /\ GoTo(r, "test")
    /\ UNCHANGED <<row, html, served, log, chain, ask, candidate, snap, answer, process, faults, stale>>

AfterTest(r) == IF candidate[r].value = Html THEN "page" ELSE "reload"

Test(r) ==
    /\ pc[r] = "test"
    /\ GoTo(r, IF Accepted(conf) THEN AfterTest(r) ELSE "restore")
    /\ UNCHANGED <<row, files, log, chain, ask, candidate, snap, answer, process, faults, stale>>

\* Writing a meta that has no page throws.
WritePage(r) ==
    /\ pc[r] = "page"
    /\ IF candidate[r].page = None
       THEN GoTo(r, "restore") /\ UNCHANGED html
       ELSE GoTo(r, "reload") /\ html' = candidate[r].page
    /\ UNCHANGED <<row, conf, served, log, chain, ask, candidate, snap, answer, process, faults, stale>>

Reload(r) ==
    /\ pc[r] = "reload"
    /\ IF Accepted(conf)
       THEN GoTo(r, "commit") /\ served' = conf
       ELSE GoTo(r, "restore") /\ UNCHANGED served
    /\ UNCHANGED <<row, conf, html, log, chain, ask, candidate, snap, answer, process, faults, stale>>

Commit(r) ==
    /\ pc[r] = "commit"
    /\ row' = Merged(row, ask[r])
    /\ log' = log \cup {r}
    /\ Settle(r, "ok")
    /\ stale' = {}
    /\ UNCHANGED <<files, ask, candidate, snap, process, faults>>

\* Mutant: only the configuration is restored.
RestoreConfOnly(r) ==
    /\ pc[r] = "restore"
    /\ conf' = snap[r].conf
    /\ GoTo(r, "reload2")
    /\ UNCHANGED <<row, html, served, log, chain, ask, candidate, snap, answer, process, faults, stale>>

\* The two files are restored in parallel.
Restore(r) ==
    /\ pc[r] = "restore"
    /\ conf' = snap[r].conf /\ html' = snap[r].html
    /\ GoTo(r, "reload2")
    /\ UNCHANGED <<row, served, log, chain, ask, candidate, snap, answer, process, faults, stale>>

GiveUp(r) == Settle(r, "failed") /\ stale' = {"conf", "page"}

\* Mutant: nginx is not reloaded after the restore.
RestoredOnly(r) ==
    /\ pc[r] = "reload2"
    /\ Settle(r, "rejected")
    /\ UNCHANGED <<row, files, log, ask, candidate, snap, process, faults, stale>>

ReloadBack(r) ==
    /\ pc[r] = "reload2"
    /\ IF Accepted(conf)
       THEN served' = conf /\ Settle(r, "rejected") /\ UNCHANGED stale
       ELSE GiveUp(r) /\ UNCHANGED served
    /\ UNCHANGED <<row, conf, html, log, ask, candidate, snap, process, faults>>

-----------------------------------------------------------------------------
(* Failing awaits.                                                         *)

\* Outside the try block: nothing has been touched.
FaultBefore(r) ==
    /\ CanFail /\ pc[r] \in {"queued", "snapshot"} /\ MyTurn(r)
    /\ Settle(r, "error")
    /\ UNCHANGED <<row, files, log, ask, candidate, snap, process, stale>>

\* A write may leave a torn file, a reload may succeed and its answer be lost.
FaultWithin(r) ==
    /\ CanFail /\ pc[r] \in {"generate", "test", "page", "reload", "commit"}
    /\ conf' \in {conf} \cup {t \in {Torn} : pc[r] = "generate"}
    /\ html' \in {html} \cup {t \in {Torn} : pc[r] = "page"}
    /\ served' \in {served} \cup {c \in {conf} : pc[r] = "reload" /\ Accepted(c)}
    /\ GoTo(r, "restore")
    /\ UNCHANGED <<row, log, chain, ask, candidate, snap, answer, process, stale>>

\* At least one of the two files is not restored.
FaultRestore(r) ==
    /\ CanFail /\ pc[r] = "restore"
    /\ \/ conf' \in {conf, Torn} /\ html' \in {html, Torn, snap[r].html}
       \/ conf' = snap[r].conf /\ html' \in {html, Torn}
    /\ GiveUp(r)
    /\ UNCHANGED <<row, served, log, ask, candidate, snap, process>>

FaultReloadBack(r) ==
    /\ CanFail /\ pc[r] = "reload2"
    /\ served' \in {served} \cup {c \in {conf} : Accepted(c)}
    /\ GiveUp(r)
    /\ UNCHANGED <<row, conf, html, log, ask, candidate, snap, process>>

-----------------------------------------------------------------------------
(* The rest of the system.                                                 *)

\* Any host request reloads nginx; nginx may also have been started anew.
OtherReload ==
    /\ Accepted(conf) /\ served # conf
    /\ served' = conf
    /\ UNCHANGED <<row, conf, html, log, request, process, faults, stale>>

Crash ==
    /\ crashes < MaxCrashes /\ crashes' = crashes + 1
    /\ node' = "generate"
    /\ pc' = [r \in Req |-> IF pc[r] = "idle" THEN "idle" ELSE "done"]
    /\ answer' = [r \in Req |-> IF pc[r] \notin {"idle", "done"} THEN "lost" ELSE answer[r]]
    /\ chain' = <<>>
    /\ stale' = IF \E r \in Req : Running(r) THEN {"conf", "page"} ELSE stale
    /\ UNCHANGED <<row, files, log, ask, candidate, snap, faults>>

\* setupDefaultSettings renders the stored setting; index.html is left alone.
BootGenerate ==
    /\ node = "generate"
    /\ conf' = row.value
    /\ node' = "reload"
    /\ UNCHANGED <<row, html, served, log, request, crashes, faults, stale>>

BootReload ==
    /\ node = "reload" /\ Accepted(conf)
    /\ served' = conf
    /\ stale' = stale \ {"conf"}
    /\ node' = "up"
    /\ UNCHANGED <<row, conf, html, log, request, crashes, faults>>

\* appStart begins again when anything of it throws.
BootFault ==
    /\ CanFail /\ node # "up"
    /\ conf' \in {conf} \cup {t \in {Torn} : node = "generate"}
    /\ node' = "generate"
    /\ UNCHANGED <<row, html, served, log, request, crashes, stale>>

-----------------------------------------------------------------------------
Update(r) ==
    \/ Read(r) \/ Snapshot(r) \/ Generate(r) \/ Test(r) \/ WritePage(r)
    \/ Reload(r) \/ Commit(r) \/ Restore(r) \/ ReloadBack(r)

UpdateFault(r) ==
    FaultBefore(r) \/ FaultWithin(r) \/ FaultRestore(r) \/ FaultReloadBack(r)

Boot == BootGenerate \/ BootReload

Next ==
    \/ \E r \in Req : Arrive(r) \/ Update(r) \/ UpdateFault(r)
    \/ OtherReload \/ Crash \/ Boot \/ BootFault

Spec == Init /\ [][Next]_vars

\* Every await ends, and a started process finishes its start.
Fairness == WF_vars(Boot) /\ \A r \in Req : WF_vars(Update(r))

FairSpec == Spec /\ Fairness

-----------------------------------------------------------------------------
TypeOK ==
    /\ row \in Setting
    /\ conf \in ConfText /\ html \in PageText /\ served \in Value
    /\ log \subseteq Req
    /\ chain \in Seq(Req)
    /\ pc \in [Req -> Steps]
    /\ ask \in [Req -> Payload \cup {None}]
    /\ candidate \in [Req -> Setting]
    /\ snap \in [Req -> [conf : ConfText, html : PageText]]
    /\ answer \in [Req -> {"none", "ok", "rejected", "failed", "error", "lost"}]
    /\ node \in {"up", "generate", "reload"}
    /\ faults \in 0 .. MaxFaults /\ crashes \in 0 .. MaxCrashes
    /\ stale \subseteq {"conf", "page"}

NoTrial == node = "up" /\ \A r \in Req : ~Running(r)

\* Between updates the file, the running nginx and the page are those of the
\* stored setting, unless a failed recovery or a crash left them unrepaired:
\* a rejected update restores everything it touched (setting.js:21-27, 48-51).
SiteMatchesSetting ==
    NoTrial =>
        /\ "conf" \notin stale => conf = row.value /\ served = row.value
        /\ "page" \notin stale /\ row.value = Html => html = row.page

\* At any moment nginx serves the stored setting or the candidate of the one
\* update under way, also when another component reloads it in between.
ServesStoredOrCandidate ==
    "conf" \notin stale =>
        served \in {row.value} \cup {candidate[r].value : r \in {q \in Req : Running(q)}}

\* No sequence of partial updates stores the value html without a page, even
\* when value and page are changed by different requests.
StoredHtmlHasPage == row.value = Html => row.page # None

\* An update ends untried only when it cannot read the setting itself, or with the
\* process: the failure of the update before it is not its own.
UntriedByItself ==
    [][\A r \in Req : pc[r] = "queued" /\ pc'[r] = "done" =>
          \/ MyTurn(r) /\ faults' = faults + 1
          \/ crashes' = crashes + 1]_vars

\* Every update is tried in the end, against the setting stored then, however many
\* before it were rejected, failed to recover or could not be tried (setting.js:73
\* catches them for the chain only); those that are not have failed by themselves.
EveryUpdateTried ==
    /\ \A r \in Req : pc[r] = "queued" ~> Running(r) \/ answer[r] \in {"error", "lost"}
    /\ UntriedByItself

\* The update implements the atomic setting: the trial is the update that
\* has read the row and not settled.
Trial == IF chain # <<>> /\ Running(Head(chain)) THEN Head(chain) ELSE None
Atomic == INSTANCE AtomicSetting WITH stored <- row, trial <- Trial
ImplementsAtomicSetting == Atomic!Spec
=============================================================================
