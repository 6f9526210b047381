----------------------------- MODULE NginxHosts -----------------------------
(***************************************************************************)
(* Proxy hosts, redirection hosts, 404 hosts and streams: every one is a   *)
(* database row and a file that nginx loads.  A request changes the row,   *)
(* rewrites the file, asks nginx to reload, records what nginx said of it  *)
(* and writes the audit log.  Node runs one handler at a time, but every   *)
(* `await` lets another request in: each action below is one such segment  *)
(* (a database statement, a file operation, a reload).                     *)
(*                                                                         *)
(* Sources: internal/nginx.js (configure, reload, deleteConfig,            *)
(* renameConfigAsError), internal/proxy-host.js, dead-host.js,             *)
(* redirection-host.js, stream.js (create, update, enable, disable,        *)
(* delete), internal/host.js (isHostnameTaken).                            *)
(*                                                                         *)
(* Abstraction: the settings of a host are one Content; Bad is the set of  *)
(* those whose rendered file nginx refuses; Name[c] is the domain name (or *)
(* the incoming port of a stream) the content asks for.                    *)
(***************************************************************************)
EXTENDS Naturals, FiniteSets

CONSTANTS
    ProxyHost, WebHost, StreamHost, \* ids per table; WebHost: redirection and 404 hosts
    Req,                            \* requests, each used once
    Content, Bad, Name,
    None,                           \* no file, no value
    MaxActive,                      \* requests in flight at a time
    Overlap,                        \* may two requests in flight name the same host?
    MaxFaults                       \* failing awaits (I/O, database, control socket)

Host == ProxyHost \cup WebHost \cup StreamHost

ASSUME ContentAssumption == Bad \subseteq Content /\ None \notin Content
ASSUME TablesDisjoint ==
    /\ ProxyHost \cap WebHost = {}
    /\ ProxyHost \cap StreamHost = {}
    /\ WebHost \cap StreamHost = {}
ASSUME BoundsAssumption == MaxFaults \in Nat /\ Overlap \in BOOLEAN

Text == Content \cup {None}
Ops == {"create", "update", "enable", "disable", "delete"}

\* A row; ids are never reused, hence "new" (not yet inserted) and "deleted".
Row == [state : {"new", "enabled", "disabled", "deleted"},
        content : Text, online : BOOLEAN, reach : Text]

\* What a request is asked to do; data is the payload of create and update.
Task == [op : Ops \cup {"none"}, host : Host \cup {None}, data : Text]
NoTask == [op |-> "none", host |-> None, data |-> None]

\* Where a request stands: the await it is about to perform.
Steps == {"idle", "commit", "fetch", "access", "remove", "generate", "reload",
          "online", "offline", "rename", "reload2", "dropaccess", "probe",
          "audit", "done"}

VARIABLES
    rows,    \* the database
    acl,     \* htpasswd files of a proxy host, by the content they were built from
    conf,    \* /data/nginx/<type>/<id>.conf
    err,     \* /data/nginx/<type>/<id>.conf.err
    served,  \* what the running nginx loaded at its last successful reload
    log,     \* audit log: the requests that have an entry
    pc, task,
    snap,    \* the row object a handler holds in memory
    res,     \* "ok" so far, "refused" before any change, "error" after
    faults

db    == <<rows, log>>
files == <<acl, conf, err>>
mem   == <<task, snap>>
vars  == <<rows, acl, conf, err, served, log, pc, task, snap, res, faults>>

Live(h) == rows[h].state \in {"enabled", "disabled"}
Active(r) == pc[r] \notin {"idle", "done"}
Configures(r) == task[r].op \in {"create", "update", "enable"}

\* nginx validates all files together (the reload is all or nothing).
ConfigOK == \A h \in Host : conf[h] \notin Bad

(***************************************************************************)
(* Hostnames are compared with the enabled rows of the three web tables,   *)
(* stream ports with all streams; a host never collides with itself.       *)
(***************************************************************************)
HostnameTaken(h, c) ==
    \E g \in (ProxyHost \cup WebHost) \ {h} :
        rows[g].state = "enabled" /\ Name[rows[g].content] = Name[c]

PortTaken(h, c) ==
    \E g \in StreamHost \ {h} : Live(g) /\ Name[rows[g].content] = Name[c]

Taken(h, c) == IF h \in StreamHost THEN PortTaken(h, c) ELSE HostnameTaken(h, c)

(***************************************************************************)
(* The checks each handler makes before its first write.  The handlers of  *)
(* the four tables are copies of each other.                               *)
(***************************************************************************)
CreateChecks(h, c) == rows[h].state = "new" /\ c \in Content /\ ~Taken(h, c)

\* A web host is not checked when the payload leaves its names alone.
UpdateChecks(h, c) ==
    /\ Live(h) /\ c \in Content
    /\ ~Taken(h, c) \/ (h \notin StreamHost /\ Name[c] = Name[rows[h].content])

\* Enabling a stream checks nothing: the ports of disabled streams stay taken.
EnableChecks(h) ==
    rows[h].state = "disabled" /\ (h \notin StreamHost => ~HostnameTaken(h, rows[h].content))

Admissible(o, h, c) ==
    \/ o = "create" /\ CreateChecks(h, c)
    \/ o = "update" /\ UpdateChecks(h, c)
    \/ o = "enable" /\ EnableChecks(h) /\ c = None
    \/ o = "disable" /\ rows[h].state = "enabled" /\ c = None
    \/ o = "delete" /\ Live(h) /\ c = None

\* Every host is in the state its last successful request left it in.
Settled(h) ==
    LET row == rows[h] IN
    /\ row.state = "enabled" /\ row.online =>
          conf[h] = row.content /\ err[h] = None /\ served[h] = row.content
    /\ row.state = "enabled" /\ ~row.online =>
          conf[h] = None /\ err[h] = row.content /\ served[h] = None
    /\ row.state # "enabled" =>
          conf[h] = None /\ err[h] = None /\ served[h] = None

NewRow == [state |-> "new", content |-> None, online |-> FALSE, reach |-> None]

InitRow(h) ==
    {NewRow} \cup
    {[state |-> s, content |-> c, online |-> o,
      reach |-> IF h \in ProxyHost THEN c ELSE None] :
        s \in {"enabled", "disabled"}, c \in Content, o \in BOOLEAN}

Init ==
    /\ rows \in {f \in [Host -> Row] : \A h \in Host : f[h] \in InitRow(h)}
    /\ \A h \in Host : rows[h].online => rows[h].content \notin Bad
    /\ \A h \in Host : rows[h].state = "enabled" => ~Taken(h, rows[h].content)
    /\ \A h \in StreamHost : Live(h) => ~Taken(h, rows[h].content)
    /\ acl = [h \in Host |-> IF h \in ProxyHost THEN rows[h].content ELSE None]
    /\ conf = [h \in Host |-> IF rows[h].state = "enabled" /\ rows[h].online
                              THEN rows[h].content ELSE None]
    /\ err = [h \in Host |-> IF rows[h].state = "enabled" /\ ~rows[h].online
                             THEN rows[h].content ELSE None]
    /\ served = conf
    /\ log = {}
    /\ pc = [r \in Req |-> "idle"]
    /\ task = [r \in Req |-> NoTask]
    /\ snap = [r \in Req |-> NewRow]
    /\ res = [r \in Req |-> "ok"]
    /\ faults = 0

-----------------------------------------------------------------------------
(* A request arrives and makes its checks.                                 *)

Goto(r, step) == pc' = [pc EXCEPT ![r] = step]

Accept(r) ==
    /\ pc[r] = "idle"
    /\ Cardinality({q \in Req : Active(q)}) < MaxActive
    /\ \E o \in Ops, h \in Host, c \in Text :
          /\ Overlap \/ \A q \in Req : Active(q) => task[q].host # h
          /\ Admissible(o, h, c)
          /\ task' = [task EXCEPT ![r] = [op |-> o, host |-> h, data |-> c]]
          /\ snap' = [snap EXCEPT ![r] = rows[h]]
    /\ Goto(r, "commit")
    /\ UNCHANGED <<db, files, served, res, faults>>

Refuse(r) ==
    /\ pc[r] = "idle"
    /\ \E o \in Ops, h \in Host, c \in Text : ~Admissible(o, h, c)
    /\ res' = [res EXCEPT ![r] = "refused"]
    /\ Goto(r, "done")
    /\ UNCHANGED <<db, files, served, mem, faults>>

-----------------------------------------------------------------------------
(* The database write.  An UPDATE whose row is gone changes no row and the *)
(* handler goes on.                                                        *)

CommitCreate(r) ==
    LET h == task[r].host IN
    /\ pc[r] = "commit" /\ task[r].op = "create"
    /\ rows' = [rows EXCEPT ![h] = [state |-> "enabled", content |-> task[r].data,
                                    online |-> FALSE, reach |-> None]]
    /\ Goto(r, "fetch")
    /\ UNCHANGED <<log, files, served, mem, res, faults>>

\* The payload is merged over the row read before the checks (cleanSslHstsData,
\* cleanStreamData) and the merge is written back: every column, not only the
\* changed ones.
MergedRow(row, c) == [row EXCEPT !.content = c]

CommitUpdate(r) ==
    LET h == task[r].host IN
    /\ pc[r] = "commit" /\ task[r].op = "update"
    /\ rows' = IF Live(h)
               THEN [rows EXCEPT ![h] = MergedRow(snap[r], task[r].data)]
               ELSE rows
    /\ Goto(r, "fetch")
    /\ UNCHANGED <<log, files, served, mem, res, faults>>

\* enable goes on with the row it read before the checks.
EnabledRow(row) == [row EXCEPT !.state = "enabled", !.online = FALSE]

CommitEnable(r) ==
    LET h == task[r].host IN
    /\ pc[r] = "commit" /\ task[r].op = "enable"
    /\ rows' = IF Live(h) THEN [rows EXCEPT ![h] = EnabledRow(@)] ELSE rows
    /\ snap' = [snap EXCEPT ![r].state = "enabled"]
    /\ Goto(r, "access")
    /\ UNCHANGED <<log, files, served, task, res, faults>>

CommitDisable(r) ==
    LET h == task[r].host IN
    /\ pc[r] = "commit" /\ task[r].op = "disable"
    /\ rows' = IF Live(h) THEN [rows EXCEPT ![h].state = "disabled"] ELSE rows
    /\ Goto(r, "remove")
    /\ UNCHANGED <<log, files, served, mem, res, faults>>

CommitDelete(r) ==
    LET h == task[r].host IN
    /\ pc[r] = "commit" /\ task[r].op = "delete"
    /\ rows' = [rows EXCEPT ![h].state = "deleted"]
    /\ Goto(r, "remove")
    /\ UNCHANGED <<log, files, served, mem, res, faults>>

-----------------------------------------------------------------------------
(* Exceptions.  Inside the try of configure an exception leads to the      *)
(* offline branch; elsewhere to the handler's catch, which still audits.   *)

\* Mutant: the destination is never probed.
NoProbe(h) == "audit"

AfterConfigure(h) == IF h \in ProxyHost THEN "probe" ELSE "audit"

\* Mutant: the error of the operation is logged and not thrown again.
ThrowSwallowed(r) ==
    IF pc[r] \in {"reload", "online"} /\ Configures(r)
    THEN Goto(r, "offline") /\ UNCHANGED res
    ELSE /\ Goto(r, IF pc[r] \in {"commit", "audit"} THEN "done" ELSE "audit")
         /\ UNCHANGED res

Throw(r) ==
    IF pc[r] \in {"reload", "online"} /\ Configures(r)
    THEN Goto(r, "offline") /\ UNCHANGED res
    ELSE /\ Goto(r, IF pc[r] \in {"commit", "audit"} THEN "done" ELSE "audit")
         /\ res' = [res EXCEPT ![r] = IF pc[r] = "commit" THEN "refused" ELSE "error"]

-----------------------------------------------------------------------------
(* The handler's try block.                                                *)

\* create and update read the row again; it may have been deleted, or
\* disabled (update stops there, configure skips it).
Fetch(r) ==
    LET h == task[r].host IN
    /\ pc[r] = "fetch"
    /\ IF rows[h].state = "deleted"
       THEN Throw(r) /\ UNCHANGED snap
       ELSE /\ snap' = [snap EXCEPT ![r] = rows[h]]
            /\ Goto(r, CASE rows[h].state = "enabled" -> "access"
                          [] rows[h].state = "disabled" /\ task[r].op = "create" ->
                                AfterConfigure(h)
                          [] OTHER -> "audit")
            /\ UNCHANGED res
    /\ UNCHANGED <<db, files, served, task, faults>>

BuildAccess(r) ==
    LET h == task[r].host IN
    /\ pc[r] = "access"
    /\ acl' = IF h \in ProxyHost THEN [acl EXCEPT ![h] = snap[r].content] ELSE acl
    /\ Goto(r, "remove")
    /\ UNCHANGED <<db, conf, err, served, mem, res, faults>>

RemoveConfig(r) ==
    LET h == task[r].host IN
    /\ pc[r] = "remove"
    /\ conf' = [conf EXCEPT ![h] = None]
    /\ err' = [err EXCEPT ![h] = None]
    /\ Goto(r, CASE Configures(r) -> "generate"
                  [] task[r].op = "delete" /\ h \in ProxyHost -> "dropaccess"
                  [] OTHER -> "reload")
    /\ UNCHANGED <<db, acl, served, mem, res, faults>>

DropAccess(r) ==
    /\ pc[r] = "dropaccess"
    /\ acl' = [acl EXCEPT ![task[r].host] = None]
    /\ Goto(r, "reload")
    /\ UNCHANGED <<db, conf, err, served, mem, res, faults>>

Generate(r) ==
    /\ pc[r] = "generate"
    /\ conf' = [conf EXCEPT ![task[r].host] = snap[r].content]
    /\ Goto(r, "reload")
    /\ UNCHANGED <<db, acl, err, served, mem, res, faults>>

Reload(r) ==
    LET h == task[r].host IN
    /\ pc[r] \in {"reload", "reload2"}
    /\ IF ConfigOK
       THEN /\ served' = conf
            /\ Goto(r, CASE ~Configures(r) -> "audit"
                          [] Configures(r) /\ pc[r] = "reload" -> "online"
                          [] OTHER -> AfterConfigure(h))
            /\ UNCHANGED res
       ELSE Throw(r) /\ UNCHANGED served
    /\ UNCHANGED <<db, files, mem, faults>>

SetOnline(h, b) == rows' = IF Live(h) THEN [rows EXCEPT ![h].online = b] ELSE rows

PatchOnline(r) ==
    /\ pc[r] = "online"
    /\ SetOnline(task[r].host, TRUE)
    /\ Goto(r, AfterConfigure(task[r].host))
    /\ UNCHANGED <<log, files, served, mem, res, faults>>

PatchOffline(r) ==
    /\ pc[r] = "offline"
    /\ SetOnline(task[r].host, FALSE)
    /\ Goto(r, "rename")
    /\ UNCHANGED <<log, files, served, mem, res, faults>>

\* Mutant: no reload after the file was set aside.
RenameWithoutReload(r) ==
    LET h == task[r].host IN
    /\ pc[r] = "rename"
    /\ err' = [err EXCEPT ![h] = conf[h]]
    /\ conf' = [conf EXCEPT ![h] = None]
    /\ Goto(r, AfterConfigure(h))
    /\ UNCHANGED <<db, acl, served, mem, res, faults>>

\* rename fails when another request has taken the file away.
RenameAsError(r) ==
    LET h == task[r].host IN
    /\ pc[r] = "rename"
    /\ IF conf[h] = None
       THEN Throw(r) /\ UNCHANGED <<conf, err>>
       ELSE /\ err' = [err EXCEPT ![h] = conf[h]]
            /\ conf' = [conf EXCEPT ![h] = None]
            /\ Goto(r, "reload2")
            /\ UNCHANGED res
    /\ UNCHANGED <<db, acl, served, mem, faults>>

\* The probe's verdict is about the destination the handler configured; a probe
\* that fails is recorded as "probe failed" and never fails the request.
Probe(r) ==
    LET h == task[r].host IN
    /\ pc[r] = "probe"
    /\ rows' = IF Live(h) THEN [rows EXCEPT ![h].reach = snap[r].content] ELSE rows
    /\ Goto(r, "audit")
    /\ UNCHANGED <<log, files, served, mem, res, faults>>

\* finalize: every operation but delete reads the row again, and that read
\* fails when the row is gone.
Audit(r) ==
    /\ pc[r] = "audit"
    /\ IF task[r].op # "delete" /\ rows[task[r].host].state = "deleted"
       THEN Throw(r) /\ UNCHANGED log
       ELSE log' = log \cup {r} /\ Goto(r, "done") /\ UNCHANGED res
    /\ UNCHANGED <<rows, files, served, mem, faults>>

\* Any await may fail.
Fault(r) ==
    /\ faults < MaxFaults
    /\ Active(r) /\ pc[r] # "probe"
    /\ faults' = faults + 1
    /\ Throw(r)
    /\ UNCHANGED <<db, files, served, mem>>

ProbeFault(r) ==
    LET h == task[r].host IN
    /\ faults < MaxFaults
    /\ pc[r] = "probe"
    /\ faults' = faults + 1
    /\ rows' \in {rows, IF Live(h) THEN [rows EXCEPT ![h].reach = None] ELSE rows}
    /\ Goto(r, "audit")
    /\ UNCHANGED <<log, files, served, mem, res>>

-----------------------------------------------------------------------------
Step(r) ==
    \/ CommitCreate(r) \/ CommitUpdate(r) \/ CommitEnable(r)
    \/ CommitDisable(r) \/ CommitDelete(r)
    \/ Fetch(r) \/ BuildAccess(r) \/ RemoveConfig(r) \/ DropAccess(r)
    \/ Generate(r) \/ Reload(r) \/ PatchOnline(r) \/ PatchOffline(r)
    \/ RenameAsError(r) \/ Probe(r) \/ Audit(r)

Next == \E r \in Req : Accept(r) \/ Refuse(r) \/ Step(r) \/ Fault(r) \/ ProbeFault(r)

Spec == Init /\ [][Next]_vars

-----------------------------------------------------------------------------
Idle == \A r \in Req : ~Active(r)

\* A request in flight knows what it is to do.
TaskOK == \A r \in Req : Active(r) => task[r].op \in Ops /\ task[r].host \in Host

TypeOK ==
    /\ rows \in [Host -> Row]
    /\ acl \in [Host -> Text]
    /\ conf \in [Host -> Text]
    /\ err \in [Host -> Text]
    /\ served \in [Host -> Text]
    /\ log \subseteq Req
    /\ pc \in [Req -> Steps]
    /\ task \in [Req -> Task]
    /\ snap \in [Req -> Row]
    /\ res \in [Req -> {"ok", "refused", "error"}]
    /\ faults \in 0..MaxFaults
    /\ TaskOK

\* When no request is in flight the row, the files and the running nginx agree:
\* an online host is served with the content of its row, an offline one has only
\* its .err file, a disabled or deleted one has left nothing in nginx; access
\* files are those of the enabled row and gone with a deleted one.  Requests on
\* different hosts share every reload, so the one may run into the other's
\* refused file (configure and reload in nginx.js).  An await that fails for any
\* other reason may leave them apart: the answer is an error then.
SettledConsistent ==
    Idle /\ faults = 0 => \A h \in Host :
        /\ Settled(h)
        /\ h \in ProxyHost /\ rows[h].state = "enabled" => acl[h] = rows[h].content
        /\ rows[h].state = "deleted" => acl[h] = None

\* A request about to answer success has left its own host consistent, whatever
\* awaits failed on the way (here or in other requests) and whatever became of the
\* host before.  An update of a disabled host does not touch nginx.
SuccessIsConsistent ==
    \A r \in Req :
        pc[r] = "audit" /\ res[r] = "ok" =>
            \/ task[r].op = "update" /\ rows[task[r].host].state # "enabled"
            \/ Settled(task[r].host)

\* "a failed enable must not leave the previous online state on an enabled row"
\* (proxy-host.js, dead-host.js, redirection-host.js and stream.js, enable).
EnableForgetsOnline ==
    \A r \in Req :
        pc[r] = "audit" /\ task[r].op = "enable" /\ res[r] = "error" =>
            ~rows[task[r].host].online

\* A request on a proxy host that is about to answer success has stored the
\* reachability of the destination it has stored ("a non-tcp destination clears
\* stale reach state from whatever the previous destination probed",
\* configureWithReachability in proxy-host.js), also when requests on other hosts
\* make its reload fail.  Only a failing await leaves the previous verdict.
ReachIsCurrent ==
    faults = 0 => \A r \in Req :
        pc[r] = "audit" /\ res[r] = "ok" /\ task[r].host \in ProxyHost =>
            LET row == rows[task[r].host] IN
            row.state = "enabled" => row.reach = row.content

-----------------------------------------------------------------------------
(* What the comments of the code say and requests in flight together break. *)

\* nginx.js:33 "skip disabled hosts": a disabled host is never configured, so once
\* the requests are over nginx does not serve it.
DisabledNotServed ==
    Idle => \A h \in Host : rows[h].state = "disabled" => served[h] = None
=============================================================================
