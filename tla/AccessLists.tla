---------------------------- MODULE AccessLists ----------------------------
(***************************************************************************)
(* Access lists: an update of a list rewrites the list's password file and *)
(* the files of every enabled proxy host it is attached to, has nginx test *)
(* and load them, and commits the rows last, all inside one database       *)
(* transaction; a failure rolls the transaction back and puts the files    *)
(* back from a snapshot.  Updates are chained on one promise; deletions    *)
(* are not.                                                                *)
(*                                                                         *)
(* Sources: internal/access-list.js (update, delete, build),               *)
(* lib/access-list-recovery.js, internal/proxy-host-access-list.js         *)
(* (build, buildAclFile).                                                  *)
(*                                                                         *)
(* Abstraction: the users, clients and flags of a list are one Rules       *)
(* value, nginx refuses those in Bad; the generated files of a host (its   *)
(* password files and its nginx configuration) are one value, the rules of *)
(* the lists they merge; hosts are enabled proxy hosts.  The database is   *)
(* SQLite, whose pool has one connection: while a transaction is open all  *)
(* other statements wait.                                                  *)
(***************************************************************************)
EXTENDS Naturals, Sequences

CONSTANTS
    List, Host, Req,
    Rules, Bad,
    None,            \* no rules: a list that is deleted, or not attached; no file
    DeleteOverlaps,  \* may a deletion overlap another request?
    MaxSaves,        \* proxy host saves that attach or detach lists
    MaxFaults        \* failing awaits

ASSUME RulesAssumption == Bad \subseteq Rules /\ None \notin Rules
ASSUME RequestAssumption == None \notin Req
ASSUME BoundsAssumption == MaxSaves \in Nat /\ MaxFaults \in Nat /\ DeleteOverlaps \in BOOLEAN

Text == Rules \cup {None}
Merged == [List -> Text]
Empty == [l \in List |-> None]

Task == [op : {"none", "update", "delete"}, list : List \cup {None}, rules : Text]
NoTask == [op |-> "none", list |-> None, rules |-> None]

Steps == {"idle", "queued", "begin", "snapshot", "list", "hosts", "reload",
          "commit", "restore", "reload2", "read", "remove", "configure", "done"}

VARIABLES
    policy,    \* committed rules of each list, None when it does not exist
    attached,  \* committed: the lists of each host
    listFile,  \* /data/access/<list>
    hostFile,  \* /data/access/host-<id>* and /data/nginx/proxy_host/<id>.conf
    served,    \* the configuration of each host nginx loaded last
    chain,     \* pendingUpdate: the updates not yet settled, in order
    trx,       \* the request whose transaction holds the connection
    pc, task,
    graph,     \* what a request has read: the merged rules it will write
    todo,      \* the hosts it has still to write
    snap,      \* files as they were: list and hosts
    answer,
    saves, faults,
    stale      \* history: a failure has left files that do not match the rows

db    == <<policy, attached>>
files == <<listFile, hostFile, served>>
mem   == <<task, graph, snap>>
vars  == <<policy, attached, listFile, hostFile, served, chain, trx, pc, task,
           graph, todo, snap, answer, saves, faults, stale>>

Merge(lists, rules) == [l \in List |-> IF l \in lists THEN rules[l] ELSE None]

UsersOf(l) == {h \in Host : l \in attached[h]}
Loadable(hf) == \A h \in Host, l \in List : hf[h][l] \notin Bad
ConfigOK == Loadable(hostFile)
ConnFree == trx = None

InFlight(r) == pc[r] \notin {"idle", "done"}
Quiet == \A r \in Req : ~InFlight(r)

Init ==
    /\ policy \in [List -> Text] /\ \A l \in List : policy[l] \notin Bad
    /\ attached \in [Host -> SUBSET {l \in List : policy[l] # None}]
    /\ listFile = policy
    /\ hostFile = [h \in Host |-> Merge(attached[h], policy)]
    /\ served = hostFile
    /\ chain = <<>> /\ trx = None
    /\ pc = [r \in Req |-> "idle"] /\ task = [r \in Req |-> NoTask]
    /\ graph = [r \in Req |-> [h \in Host |-> Empty]]
    /\ todo = [r \in Req |-> {}]
    /\ snap = [r \in Req |-> [list |-> None, hosts |-> hostFile, of |-> {}]]
    /\ answer = [r \in Req |-> "none"]
    /\ saves = 0 /\ faults = 0 /\ stale = FALSE

GoTo(r, step) == pc' = [pc EXCEPT ![r] = step]
Answer(r, a) == GoTo(r, "done") /\ answer' = [answer EXCEPT ![r] = a]
Settle(r, a) == Answer(r, a) /\ chain' = Tail(chain)
CanFail == faults < MaxFaults /\ faults' = faults + 1

-----------------------------------------------------------------------------
(* Update: one action per await that another request can observe.          *)

ArriveUpdate(r) ==
    /\ pc[r] = "idle"
    /\ ~DeleteOverlaps => \A q \in Req : InFlight(q) => task[q].op = "update"
    /\ \E l \in List, v \in Rules :
           task' = [task EXCEPT ![r] = [op |-> "update", list |-> l, rules |-> v]]
    /\ chain' = Append(chain, r)
    /\ GoTo(r, "queued")
    /\ UNCHANGED <<db, files, trx, graph, todo, snap, answer, saves, faults, stale>>

MyTurn(r) == chain # <<>> /\ Head(chain) = r

Validate(r) ==
    /\ pc[r] = "queued" /\ MyTurn(r) /\ ConnFree
    /\ IF policy[task[r].list] = None
       THEN Settle(r, "refused")
       ELSE GoTo(r, "begin") /\ UNCHANGED <<chain, answer>>
    /\ UNCHANGED <<db, files, trx, mem, todo, saves, faults, stale>>

\* The rows are written and the list and its hosts read again, in the transaction.
Begin(r) ==
    /\ pc[r] = "begin" /\ ConnFree
    /\ LET l == task[r].list
           draft == [policy EXCEPT ![l] = task[r].rules]
       IN  IF policy[l] = None
           THEN Settle(r, "refused") /\ UNCHANGED <<trx, graph, todo>>
           ELSE /\ trx' = r
                /\ graph' = [graph EXCEPT ![r] = [h \in Host |-> Merge(attached[h], draft)]]
                /\ todo' = [todo EXCEPT ![r] = UsersOf(l)]
                /\ GoTo(r, "snapshot") /\ UNCHANGED <<chain, answer>>
    /\ UNCHANGED <<db, files, task, snap, saves, faults, stale>>

Snapshot(r) ==
    /\ pc[r] = "snapshot"
    /\ snap' = [snap EXCEPT ![r] = [list |-> listFile[task[r].list], hosts |-> hostFile, of |-> todo[r]]]
    /\ GoTo(r, "list")
    /\ UNCHANGED <<db, files, chain, trx, task, graph, todo, answer, saves, faults, stale>>

WriteList(r) ==
    /\ pc[r] = "list"
    /\ listFile' = [listFile EXCEPT ![task[r].list] = task[r].rules]
    /\ GoTo(r, "hosts")
    /\ UNCHANGED <<db, hostFile, served, chain, trx, mem, todo, answer, saves, faults, stale>>

WriteHost(r) ==
    /\ pc[r] = "hosts"
    /\ \E h \in todo[r] :
           /\ hostFile' = [hostFile EXCEPT ![h] = graph[r][h]]
           /\ todo' = [todo EXCEPT ![r] = @ \ {h}]
    /\ UNCHANGED <<db, listFile, served, chain, trx, pc, mem, answer, saves, faults, stale>>

\* The transaction's function throws: the rows are rolled back.
Rollback(r, step) == trx' = None /\ GoTo(r, step)

\* Mutant: the transaction commits once the test has passed.
TestOnly(r) ==
    /\ pc[r] = "hosts" /\ todo[r] = {}
    /\ IF ConfigOK THEN GoTo(r, "commit") /\ UNCHANGED trx ELSE Rollback(r, "restore")
    /\ UNCHANGED <<db, files, chain, mem, todo, answer, saves, faults, stale>>

Test(r) ==
    /\ pc[r] = "hosts" /\ todo[r] = {}
    /\ IF ConfigOK THEN GoTo(r, "reload") /\ UNCHANGED trx ELSE Rollback(r, "restore")
    /\ UNCHANGED <<db, files, chain, mem, todo, answer, saves, faults, stale>>

Reload(r) ==
    /\ pc[r] = "reload"
    /\ IF ConfigOK
       THEN GoTo(r, "commit") /\ served' = hostFile /\ UNCHANGED trx
       ELSE Rollback(r, "restore") /\ UNCHANGED served
    /\ UNCHANGED <<db, listFile, hostFile, chain, mem, todo, answer, saves, faults, stale>>

\* Mutant: the audit entry is written through a connection of its own.
CommitAuditApart(r) ==
    /\ pc[r] = "commit" /\ ConnFree
    /\ policy' = [policy EXCEPT ![task[r].list] = task[r].rules]
    /\ trx' = None
    /\ Settle(r, "ok")
    /\ UNCHANGED <<attached, files, mem, todo, saves, faults, stale>>

\* The audit entry is written through the same transaction.
Commit(r) ==
    /\ pc[r] = "commit"
    /\ policy' = [policy EXCEPT ![task[r].list] = task[r].rules]
    /\ trx' = None
    /\ Settle(r, "ok")
    /\ UNCHANGED <<attached, files, mem, todo, saves, faults, stale>>

\* Mutant: the files of the hosts are left as they are.
RestoreList(r) ==
    /\ pc[r] = "restore"
    /\ listFile' = [listFile EXCEPT ![task[r].list] = snap[r].list]
    /\ GoTo(r, "reload2")
    /\ UNCHANGED <<db, hostFile, served, chain, trx, mem, todo, answer, saves, faults, stale>>

Restore(r) ==
    /\ pc[r] = "restore"
    /\ listFile' = [listFile EXCEPT ![task[r].list] = snap[r].list]
    /\ hostFile' = [h \in Host |-> IF h \in snap[r].of THEN snap[r].hosts[h] ELSE hostFile[h]]
    /\ GoTo(r, "reload2")
    /\ UNCHANGED <<db, served, chain, trx, mem, todo, answer, saves, faults, stale>>

ReloadBack(r) ==
    /\ pc[r] = "reload2"
    /\ IF ConfigOK
       THEN served' = hostFile /\ Settle(r, "rejected") /\ UNCHANGED stale
       ELSE UNCHANGED served /\ Settle(r, "failed") /\ stale' = TRUE
    /\ UNCHANGED <<db, listFile, hostFile, trx, mem, todo, saves, faults>>

-----------------------------------------------------------------------------
(* Delete: it reads the list and its hosts, deletes the rows in one        *)
(* transaction, and configures the hosts from what it read.                *)

ArriveDelete(r) ==
    /\ pc[r] = "idle"
    /\ ~DeleteOverlaps => Quiet
    /\ \E l \in List : task' = [task EXCEPT ![r] = [op |-> "delete", list |-> l, rules |-> None]]
    /\ GoTo(r, "read")
    /\ UNCHANGED <<db, files, chain, trx, graph, todo, snap, answer, saves, faults, stale>>

DeleteRead(r) ==
    /\ pc[r] = "read" /\ ConnFree
    /\ LET l == task[r].list
       IN  IF policy[l] = None
           THEN Answer(r, "refused") /\ UNCHANGED <<graph, todo>>
           ELSE /\ graph' = [graph EXCEPT ![r] = [h \in Host |-> Merge(attached[h] \ {l}, policy)]]
                /\ todo' = [todo EXCEPT ![r] = UsersOf(l)]
                /\ GoTo(r, "remove") /\ UNCHANGED answer
    /\ UNCHANGED <<db, files, chain, trx, task, snap, saves, faults, stale>>

DeleteRows(r) ==
    /\ pc[r] = "remove" /\ ConnFree
    /\ policy' = [policy EXCEPT ![task[r].list] = None]
    /\ attached' = [h \in Host |-> attached[h] \ {task[r].list}]
    /\ GoTo(r, "configure")
    /\ UNCHANGED <<files, chain, trx, mem, todo, answer, saves, faults, stale>>

\* configure writes and reloads host by host, and sets a refused file aside.
ConfigureHost(r) ==
    /\ pc[r] = "configure" /\ ConnFree
    /\ \E h \in todo[r] :
           LET written == [hostFile EXCEPT ![h] = graph[r][h]]
               aside == [hostFile EXCEPT ![h] = Empty]
           IN  /\ hostFile' = IF Loadable(written) THEN written ELSE aside
               /\ served' = IF Loadable(hostFile') THEN hostFile' ELSE served
               /\ stale' = (stale \/ ~Loadable(written))
           /\ todo' = [todo EXCEPT ![r] = @ \ {h}]
    /\ UNCHANGED <<db, listFile, chain, trx, pc, mem, answer, saves, faults>>

DeleteFile(r) ==
    /\ pc[r] = "configure" /\ todo[r] = {} /\ ConnFree
    /\ IF ConfigOK
       THEN /\ served' = hostFile /\ listFile' = [listFile EXCEPT ![task[r].list] = None]
            /\ Answer(r, "ok") /\ UNCHANGED stale
       ELSE Answer(r, "failed") /\ stale' = TRUE /\ UNCHANGED <<served, listFile>>
    /\ UNCHANGED <<db, hostFile, chain, trx, mem, todo, saves, faults>>

-----------------------------------------------------------------------------
(* Failing awaits.                                                         *)

\* Before the first file is touched.
FaultBefore(r) ==
    /\ CanFail
    /\ \/ pc[r] \in {"queued", "begin"} /\ MyTurn(r) /\ Settle(r, "rejected") /\ UNCHANGED trx
       \/ pc[r] = "snapshot" /\ Settle(r, "rejected") /\ trx' = None
       \/ pc[r] \in {"read", "remove"} /\ Answer(r, "rejected") /\ UNCHANGED <<chain, trx>>
    /\ UNCHANGED <<db, files, mem, todo, saves, stale>>

\* A file may have been removed and not written, a reload have been done.
FaultWithin(r) ==
    /\ CanFail /\ pc[r] \in {"list", "hosts", "reload", "commit"}
    /\ listFile' \in {listFile} \cup
           {[listFile EXCEPT ![task[r].list] = None] : s \in {pc[r]} \cap {"list"}}
    /\ hostFile' \in {hostFile} \cup
           {[hostFile EXCEPT ![h] = Empty] : h \in {g \in todo[r] : pc[r] = "hosts"}}
    /\ served' \in {served} \cup {hf \in {hostFile} : pc[r] = "reload" /\ ConfigOK}
    /\ Rollback(r, "restore")
    /\ UNCHANGED <<db, chain, mem, todo, answer, saves, stale>>

\* The recovery fails at its first file, somewhere in between, or at the reload.
FaultRecovery(r) ==
    /\ CanFail /\ pc[r] \in {"restore", "reload2"}
    /\ \E hs \in SUBSET snap[r].of :
           hostFile' = [h \in Host |-> IF h \in hs /\ pc[r] = "restore"
                                       THEN snap[r].hosts[h] ELSE hostFile[h]]
    /\ Settle(r, "failed") /\ stale' = TRUE
    /\ UNCHANGED <<db, listFile, served, trx, mem, todo, saves>>

FaultConfigure(r) ==
    /\ CanFail /\ pc[r] = "configure"
    /\ Answer(r, "failed") /\ stale' = TRUE
    /\ UNCHANGED <<db, files, chain, trx, mem, todo, saves>>

-----------------------------------------------------------------------------
(* Saving a proxy host attaches other lists to it.  The request is taken   *)
(* as a whole, at a moment when no transaction, recovery or deletion is    *)
(* under way, and nginx accepts it: a host it refuses goes offline.        *)

SaveWindow ==
    ConnFree /\ \A r \in Req : pc[r] \notin {"restore", "reload2", "remove", "configure"}

SaveHost(h) ==
    /\ saves < MaxSaves /\ saves' = saves + 1
    /\ SaveWindow /\ ~stale
    /\ \E ls \in SUBSET {l \in List : policy[l] # None} :
           /\ attached' = [attached EXCEPT ![h] = ls]
           /\ hostFile' = [hostFile EXCEPT ![h] = Merge(ls, policy)]
    /\ Loadable(hostFile') /\ served' = hostFile'
    /\ UNCHANGED <<policy, listFile, chain, trx, pc, mem, todo, answer, faults, stale>>

-----------------------------------------------------------------------------
Update(r) ==
    \/ Validate(r) \/ Begin(r) \/ Snapshot(r) \/ WriteList(r) \/ WriteHost(r) \/ Test(r)
    \/ Reload(r) \/ Commit(r) \/ Restore(r) \/ ReloadBack(r)

Delete(r) == DeleteRead(r) \/ DeleteRows(r) \/ ConfigureHost(r) \/ DeleteFile(r)

Fault(r) == FaultBefore(r) \/ FaultWithin(r) \/ FaultRecovery(r) \/ FaultConfigure(r)

Next ==
    \/ \E r \in Req : ArriveUpdate(r) \/ ArriveDelete(r) \/ Update(r) \/ Delete(r) \/ Fault(r)
    \/ \E h \in Host : SaveHost(h)

Spec == Init /\ [][Next]_vars

\* Every await ends.
Fairness == \A r \in Req : WF_vars(Update(r)) /\ WF_vars(Delete(r))

-----------------------------------------------------------------------------
TypeOK ==
    /\ policy \in [List -> Text]
    /\ attached \in [Host -> SUBSET List]
    /\ listFile \in [List -> Text]
    /\ hostFile \in [Host -> Merged] /\ served \in [Host -> Merged]
    /\ chain \in Seq(Req) /\ trx \in Req \cup {None}
    /\ pc \in [Req -> Steps] /\ task \in [Req -> Task]
    /\ graph \in [Req -> [Host -> Merged]]
    /\ todo \in [Req -> SUBSET Host]
    /\ snap \in [Req -> [list : Text, hosts : [Host -> Merged], of : SUBSET Host]]
    /\ answer \in [Req -> {"none", "ok", "refused", "rejected", "failed"}]
    /\ saves \in 0 .. MaxSaves /\ faults \in 0 .. MaxFaults /\ stale \in BOOLEAN

\* Updates of different lists, which can share a host, leave its files with
\* the committed rules of all of them (access-list-recovery.js:3).
SharedFilesCurrent ==
    Quiet /\ ~stale => \A h \in Host : hostFile[h] = Merge(attached[h], policy)

\* When no request is in flight, the password file of every list, the files
\* of every host and what nginx has loaded are those of the committed rows,
\* whichever updates were rejected, unless a recovery has failed.
FilesMatchRows ==
    /\ SharedFilesCurrent
    /\ Quiet /\ ~stale => listFile = policy /\ served = hostFile

\* Rules are committed only when nginx has loaded them for every host of the
\* list: "Validation and reload must succeed before either the policy or
\* audit commits" (access-list.js:198).
CommitAfterReload ==
    [][\A l \in List : policy'[l] # policy[l] /\ policy'[l] # None =>
           \A h \in UsersOf(l) : served[h][l] = policy'[l]]_vars

\* No host has rules loaded that are neither committed nor of an update under
\* way, except those of a list that is being deleted.
NoUnknownRules ==
    ~stale => \A h \in Host, l \in List :
        LET here == {q \in Req : InFlight(q) /\ task[q].list = l}
        IN  \/ served[h][l] \in {None, policy[l]} \cup {task[q].rules : q \in here}
            \/ \E q \in here : task[q].op = "delete"

\* Every request is answered: a failed update does not hold up the chain, and
\* none waits for the connection it holds.
EveryRequestAnswered == \A r \in Req : InFlight(r) ~> pc[r] = "done"
=============================================================================
