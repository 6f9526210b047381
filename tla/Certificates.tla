--------------------------- MODULE Certificates ---------------------------
(* The certificates in the database, on disk and in nginx: requests that make, *)
(* renew, upload, attach and delete them, the timer that renews what is close  *)
(* to its expiry, and the timer that fetches the trusted address ranges        *)
(* (internal/certificate.js, internal/ip_ranges.js; the save of a host as far  *)
(* as it attaches a certificate, internal/proxy-host.js).  Requests and timers *)
(* share one certbot, which runs once at a time, and one nginx, which loads    *)
(* the files of all hosts or of none.                                          *)
(*                                                                             *)
(* A version stands for the content of a certificate and for its expiry: each  *)
(* renewal is one more.                                                        *)
EXTENDS Integers, Sequences, FiniteSets

CONSTANTS
    Requests,    \* the requests that may be made, positive numbers
    Certs,       \* ids of certificates: numbers, none is given twice
    LetsEncrypt, \* those of provider letsencrypt; the others are uploaded
    Hosts,       \* the hosts
    ModelOf,     \* the table of each host
    MaxVersion,  \* bound: what the timer's renewals reach
    Scenes       \* bound: the requests made, the start, the awaits that fail and how
                 \* often the published ranges change

ASSUME CertAssumption == Certs \subseteq Nat \ {0} /\ LetsEncrypt \subseteq Certs
ASSUME RequestAssumption == Requests \subseteq Nat \ {0}

Kinds == {"create", "hostnew", "renew", "upload", "attach", "delete"}
Models == <<"proxy_host", "redirection_host", "dead_host", "stream">>
NoCert == 0

\* Every host is in one of the tables.
ASSUME ModelAssumption == ModelOf \in [Hosts -> {Models[i] : i \in 1..Len(Models)}]

\* The database gives every certificate it makes an id of its own, and the paths of
\* the requests about a certificate name one.
ASSUME SceneAssumption ==
    \A s \in Scenes :
        /\ s.made \subseteq Certs /\ s.uses \in [Hosts -> s.made \cup {NoCert}]
        /\ s.kinds \in [Requests -> Kinds] /\ s.hosts \in [Requests -> Hosts]
        /\ s.certs \in [Requests -> Certs \cup {NoCert}]
        /\ s.faults \in Nat /\ s.ranges \in Nat
        /\ \A r \in Requests : s.kinds[r] # "attach" => s.certs[r] # NoCert
        /\ \A r \in Requests : s.kinds[r] \in {"create", "hostnew"} =>
               /\ s.certs[r] \notin s.made
               /\ \A q \in Requests \ {r} :
                     s.kinds[q] \in {"create", "hostnew"} => s.certs[q] # s.certs[r]

VARIABLES
    rows,    \* certificate: state and expires_on
    files,   \* /data/tls: chain and key of each certificate, 0 when missing
    hosts,   \* the hosts: their certificate, and whether nginx has their file
    served,  \* the version nginx has loaded for each host
    ranges,  \* the published ranges, the file, what nginx has loaded, the timer
    certbot, \* who holds certbot's lock
    timer,   \* processExpiringHosts: where it is and what it has read
    req,     \* the requests
    faults,  \* bound: awaits that may still fail
    raced    \* history: certificates attached while they were deleted or made

vars == <<rows, files, hosts, served, ranges, certbot, timer, req, faults, raced>>

Nobody == 0
Timer == -1

At(r, pc) == req[r].pc = pc
Goto(r, pc) == req' = [req EXCEPT ![r].pc = pc]
InFlight(r) == req[r].pc \notin {"todo", "done", "refused", "failed", "dropFailed"}
Cert(r) == req[r].cert
Live(c) == rows[c].state = "live"

Init ==
    \E s \in Scenes :
        /\ rows = [c \in Certs |-> [state |-> IF c \in s.made THEN "live" ELSE "none",
                                    expires |-> IF c \in s.made THEN 1 ELSE 0]]
        /\ files = [c \in Certs |-> IF c \in s.made THEN [chain |-> 1, key |-> 1]
                                                    ELSE [chain |-> 0, key |-> 0]]
        /\ hosts = [h \in Hosts |-> [cert |-> s.uses[h], online |-> TRUE]]
        /\ served = [h \in Hosts |-> IF s.uses[h] = NoCert THEN 0 ELSE 1]
        /\ ranges = [published |-> 0, left |-> s.ranges, file |-> 0, loaded |-> 0, pc |-> "idle"]
        /\ certbot = Nobody
        /\ timer = [pc |-> "idle", todo |-> {}, read |-> [c \in Certs |-> 0]]
        /\ req = [r \in Requests |-> [kind |-> s.kinds[r], pc |-> "todo", cert |-> s.certs[r],
                                      host |-> s.hosts[r], checked |-> 0, version |-> 0]]
        /\ faults = s.faults
        /\ raced = {}

-----------------------------------------------------------------------------
\* nginx reads the certificate of every host it has a file of; one that is
\* missing or does not fit its key makes it refuse the whole configuration.
Good(f) == f.chain > 0 /\ f.chain = f.key
Accepted(hs, fs) == \A h \in Hosts : hs[h].online /\ hs[h].cert # NoCert => Good(fs[hs[h].cert])
Loaded(hs, fs) == [h \in Hosts |-> IF hs[h].online /\ hs[h].cert # NoCert THEN fs[hs[h].cert].chain ELSE 0]

Reload(ok) ==
    IF ok THEN /\ served' = Loaded(hosts, files)
               /\ ranges' = [ranges EXCEPT !.loaded = ranges.file]
          ELSE UNCHANGED <<served, ranges>>

\* An await fails, within the bound.
MayFail == faults > 0
CountFault(fails) == faults' = faults - (IF fails THEN 1 ELSE 0)

-----------------------------------------------------------------------------
\* Every handler begins with the row it is about; create makes it.
AfterGet(kind) ==
    CASE kind = "delete" -> "count"
      [] kind = "renew" -> "supersede"
      [] kind = "upload" -> "update"
      [] kind = "attach" -> "commit"

Get(r) ==
    /\ At(r, "todo") /\ req[r].kind \in {"delete", "renew", "upload", "attach"}
    /\ Goto(r, IF Cert(r) = NoCert \/ Live(Cert(r)) THEN AfterGet(req[r].kind) ELSE "refused")
    /\ UNCHANGED <<rows, files, hosts, served, ranges, certbot, timer, faults, raced>>

Insert(r) ==
    /\ At(r, "todo") /\ req[r].kind \in {"create", "hostnew"}
    /\ rows' = [rows EXCEPT ![Cert(r)] = [state |-> "live", expires |-> 0]]
    /\ Goto(r, IF Cert(r) \in LetsEncrypt THEN "request" ELSE "audit")
    /\ UNCHANGED <<files, hosts, served, ranges, certbot, timer, faults, raced>>

\* certbot refuses to run twice.  A request for a certificate that fails drops
\* the row again, a failing renewal fails its request, and the revocations
\* before a renewal and after a deletion are only tried.
WithoutCertbot(pc) ==
    CASE pc = "request" -> "drop"
      [] pc = "supersede" -> "renew"
      [] pc = "renew" -> "failed"
      [] pc = "remove" -> "done"

WithCertbot(pc) ==
    CASE pc = "request" -> "read"
      [] pc = "supersede" -> "renew"
      [] pc = "renew" -> "read"
      [] pc = "remove" -> "done"

CertbotPcs == {"request", "supersede", "renew", "remove"}

StartCertbot(r) ==
    /\ req[r].pc \in CertbotPcs /\ certbot # r
    /\ IF certbot = Nobody THEN certbot' = r /\ UNCHANGED req
                           ELSE Goto(r, WithoutCertbot(req[r].pc)) /\ UNCHANGED certbot
    /\ UNCHANGED <<rows, files, hosts, served, ranges, timer, faults, raced>>

Renewed(f) == [chain |-> f.chain + 1, key |-> f.chain + 1]
Worked(pc, f) ==
    CASE pc = "request" -> [chain |-> 1, key |-> 1]
      [] pc = "supersede" -> f
      [] pc = "renew" -> Renewed(f)
      [] pc = "remove" -> [chain |-> 0, key |-> 0]

EndCertbot(r, fails) ==
    LET f == files[Cert(r)]
        pc == req[r].pc
        ok == ~fails /\ (pc = "request" \/ f.chain > 0) IN
    /\ certbot = r
    /\ files' = IF ok THEN [files EXCEPT ![Cert(r)] = Worked(pc, f)] ELSE files
    /\ Goto(r, IF ok THEN WithCertbot(pc) ELSE WithoutCertbot(pc))
    /\ certbot' = Nobody
    /\ CountFault(fails)
    /\ UNCHANGED <<rows, hosts, served, ranges, timer, raced>>

\* getCertificateInfoFromFile, and the patch of the row with what it found.
VersionRead(f) == f.chain

ReadFile(r, fails) ==
    LET f == files[Cert(r)]
        ok == ~fails /\ f.chain > 0 IN
    /\ At(r, "read")
    /\ req' = [req EXCEPT ![r].pc = IF ok THEN "patch"
                                    ELSE IF req[r].kind = "renew" THEN "failed" ELSE "drop",
                          ![r].version = IF ok THEN VersionRead(f) ELSE @]
    /\ CountFault(fails)
    /\ UNCHANGED <<rows, files, hosts, served, ranges, certbot, timer, raced>>

Patch(r, fails) ==
    /\ At(r, "patch")
    /\ rows' = IF fails THEN rows ELSE [rows EXCEPT ![Cert(r)].expires = req[r].version]
    /\ Goto(r, CASE ~fails -> IF req[r].kind = "renew" THEN "reload" ELSE "audit"
                 [] fails -> IF req[r].kind = "renew" THEN "failed" ELSE "drop")
    /\ CountFault(fails)
    /\ UNCHANGED <<files, hosts, served, ranges, certbot, timer, raced>>

\* A host that will use the certificate of a request is not saved yet: its
\* certificate has been read, or is being made for it.
Attaching(r) ==
    \E s \in Requests \ {r} :
        /\ Cert(s) = Cert(r)
        /\ At(s, "commit") \/ (req[s].kind = "hostnew" /\ req[s].pc \in {"request", "read", "patch", "audit"})

\* create: what could not be made is deleted for good.
Drop(r, fails) ==
    /\ At(r, "drop")
    /\ raced' = raced \cup (IF Attaching(r) THEN {Cert(r)} ELSE {})
    /\ rows' = IF fails THEN rows ELSE [rows EXCEPT ![Cert(r)] = [state |-> "none", expires |-> 0]]
    /\ Goto(r, IF fails THEN "dropFailed" ELSE "failed")
    /\ CountFault(fails)
    /\ UNCHANGED <<files, hosts, served, ranges, certbot, timer>>

\* The audit entry: of a certificate that was made (a failure drops the row of
\* one requested from certbot), before the files of a deleted one are removed,
\* and after the reload of a renewal.
AfterAudit(r) ==
    CASE req[r].kind = "create" -> "done"
      [] req[r].kind = "hostnew" -> "commit"
      [] req[r].kind = "upload" -> "writeChain"
      [] req[r].kind = "renew" -> "done"
      [] req[r].kind = "delete" -> IF Cert(r) \in LetsEncrypt THEN "remove" ELSE "rm"

Audit(r, fails) ==
    /\ At(r, "audit")
    /\ Goto(r, CASE ~fails -> AfterAudit(r)
                 [] fails -> IF req[r].kind \in {"create", "hostnew"} /\ Cert(r) \in LetsEncrypt
                               THEN "drop" ELSE "failed")
    /\ CountFault(fails)
    /\ UNCHANGED <<rows, files, hosts, served, ranges, certbot, timer, raced>>

\* A renewal whose reload failed is audited as well; the answer is the error of the
\* reload, and that of the entry is only logged.
AuditFailed(r) ==
    /\ At(r, "auditFailed")
    /\ Goto(r, "failed")
    /\ UNCHANGED <<rows, files, hosts, served, ranges, certbot, timer, faults, raced>>

-----------------------------------------------------------------------------
\* delete: the four tables are counted one after another ...
\* A defect to detect: one of the tables is forgotten.
AllButLast == Len(Models) - 1
Counted == Len(Models)

Uses(model, c) == \E h \in Hosts : ModelOf[h] = model /\ hosts[h].cert = c

Count(r) ==
    LET next == req[r].checked + 1 IN
    /\ At(r, "count")
    /\ req' = [req EXCEPT ![r].checked = next,
                          ![r].pc = IF Uses(Models[next], Cert(r)) THEN "refused"
                                    ELSE IF next = Counted THEN "mark" ELSE "count"]
    /\ UNCHANGED <<rows, files, hosts, served, ranges, certbot, timer, faults, raced>>

\* ... then the row is marked, the deletion audited, and the files removed.
\* A defect to detect: the row is marked last, after its files have gone.
MarkLate(r, fails) ==
    /\ At(r, "mark")
    /\ files' = [files EXCEPT ![Cert(r)] = [chain |-> 0, key |-> 0]]
    /\ rows' = IF fails THEN rows ELSE [rows EXCEPT ![Cert(r)].state = "deleted"]
    /\ raced' = raced \cup (IF Attaching(r) THEN {Cert(r)} ELSE {})
    /\ Goto(r, IF fails THEN "failed" ELSE "audit")
    /\ CountFault(fails)
    /\ UNCHANGED <<hosts, served, ranges, certbot, timer>>
Mark(r, fails) ==
    /\ At(r, "mark")
    /\ rows' = IF fails THEN rows ELSE [rows EXCEPT ![Cert(r)].state = "deleted"]
    /\ raced' = raced \cup (IF Attaching(r) THEN {Cert(r)} ELSE {})
    /\ Goto(r, IF fails THEN "failed" ELSE "audit")
    /\ CountFault(fails)
    /\ UNCHANGED <<files, hosts, served, ranges, certbot, timer>>

Remove(r) ==
    /\ At(r, "rm")
    /\ files' = [files EXCEPT ![Cert(r)] = [chain |-> 0, key |-> 0]]
    /\ Goto(r, "done")
    /\ UNCHANGED <<rows, hosts, served, ranges, certbot, timer, faults, raced>>

\* upload: the row first, then the two files one after the other.
Update(r) ==
    /\ At(r, "update")
    /\ IF Live(Cert(r))
         THEN /\ rows' = [rows EXCEPT ![Cert(r)].expires = 1 + r]
              /\ Goto(r, "audit")
         ELSE Goto(r, "refused") /\ UNCHANGED rows
    /\ UNCHANGED <<files, hosts, served, ranges, certbot, timer, faults, raced>>

WriteChain(r) ==
    /\ At(r, "writeChain")
    /\ files' = [files EXCEPT ![Cert(r)].chain = 1 + r]
    /\ Goto(r, "writeKey")
    /\ UNCHANGED <<rows, hosts, served, ranges, certbot, timer, faults, raced>>

WriteKey(r, fails) ==
    /\ At(r, "writeKey")
    /\ files' = IF fails THEN files ELSE [files EXCEPT ![Cert(r)].key = 1 + r]
    /\ Goto(r, IF fails THEN "failed" ELSE "reload")
    /\ CountFault(fails)
    /\ UNCHANGED <<rows, hosts, served, ranges, certbot, timer, raced>>

\* The reload of an upload and of a renewal.
ReloadFor(r, fails) ==
    LET ok == ~fails /\ Accepted(hosts, files) IN
    /\ At(r, "reload")
    /\ Reload(ok)
    /\ Goto(r, CASE req[r].kind = "renew" -> IF ok THEN "audit" ELSE "auditFailed"
                 [] req[r].kind = "upload" -> IF ok THEN "done" ELSE "failed")
    /\ CountFault(fails)
    /\ UNCHANGED <<rows, files, hosts, certbot, timer, raced>>

\* The save of a host: its row, then its file and nginx (NginxHosts has the
\* steps of that).  A refused file is set aside.
MadeOrDeleted(r, c) ==
    \E s \in Requests \ {r} : InFlight(s) /\ Cert(s) = c /\ req[s].kind \in {"delete", "create", "hostnew"}

Commit(r) ==
    /\ At(r, "commit")
    /\ hosts' = [hosts EXCEPT ![req[r].host] = [cert |-> Cert(r), online |-> FALSE]]
    /\ raced' = raced \cup (IF MadeOrDeleted(r, Cert(r)) THEN {Cert(r)} ELSE {})
    /\ Goto(r, "configure")
    /\ UNCHANGED <<rows, files, served, ranges, certbot, timer, faults>>

Configure(r) ==
    LET h == req[r].host
        with == [hosts EXCEPT ![h].online = TRUE]
        without == [hosts EXCEPT ![h].online = FALSE]
        hs == IF Accepted(with, files) THEN with ELSE without IN
    /\ At(r, "configure")
    /\ hosts' = hs
    /\ IF Accepted(hs, files)
         THEN served' = Loaded(hs, files) /\ ranges' = [ranges EXCEPT !.loaded = ranges.file]
         ELSE UNCHANGED <<served, ranges>>
    /\ Goto(r, "done")
    /\ UNCHANGED <<rows, files, certbot, timer, faults, raced>>

-----------------------------------------------------------------------------
\* processExpiringHosts: certbot renews what is due, also what no row is left
\* of; its errors and those of the reload are logged and passed over.
TimerStart ==
    /\ timer.pc = "idle"
    /\ timer' = [timer EXCEPT !.pc = IF certbot = Nobody THEN "certbot" ELSE "reload"]
    /\ certbot' = IF certbot = Nobody THEN Timer ELSE certbot
    /\ UNCHANGED <<rows, files, hosts, served, ranges, req, faults, raced>>

TimerCertbot(due) ==
    /\ timer.pc = "certbot"
    /\ \A c \in due : c \in LetsEncrypt /\ files[c].chain \in 1..(MaxVersion - 1)
    /\ files' = [c \in Certs |-> IF c \in due THEN Renewed(files[c]) ELSE files[c]]
    /\ timer' = [timer EXCEPT !.pc = "reload"]
    /\ certbot' = Nobody
    /\ UNCHANGED <<rows, hosts, served, ranges, req, faults, raced>>

\* A defect to detect: nginx is not told of the renewed files.
TimerReloadLater(fails) ==
    /\ timer.pc = "reload"
    /\ timer' = [timer EXCEPT !.pc = "rows"]
    /\ CountFault(fails)
    /\ UNCHANGED <<rows, files, hosts, served, ranges, certbot, req, raced>>
TimerReload(fails) ==
    /\ timer.pc = "reload"
    /\ Reload(~fails /\ Accepted(hosts, files))
    /\ timer' = [timer EXCEPT !.pc = "rows"]
    /\ CountFault(fails)
    /\ UNCHANGED <<rows, files, hosts, certbot, req, raced>>

\* A defect to detect: only rows that have no expiry yet are looked at.
Unset(c) == Live(c) /\ rows[c].expires = 0
Renewable(c) == Live(c)

TimerRows ==
    /\ timer.pc = "rows"
    /\ timer' = [timer EXCEPT !.todo = {c \in LetsEncrypt : Renewable(c)}, !.pc = "update"]
    /\ UNCHANGED <<rows, files, hosts, served, ranges, certbot, req, faults, raced>>

\* The rows are updated in parallel, each with what its file said.
TimerReadFile(c) ==
    /\ timer.pc = "update" /\ c \in timer.todo /\ timer.read[c] = 0
    /\ timer' = IF files[c].chain > 0 THEN [timer EXCEPT !.read[c] = files[c].chain]
                                      ELSE [timer EXCEPT !.todo = @ \ {c}]
    /\ UNCHANGED <<rows, files, hosts, served, ranges, certbot, req, faults, raced>>

TimerPatch(c, fails) ==
    /\ timer.pc = "update" /\ timer.read[c] > 0
    /\ rows' = IF fails \/ rows[c].state = "none" THEN rows
               ELSE [rows EXCEPT ![c].expires = timer.read[c]]
    /\ timer' = [timer EXCEPT !.todo = @ \ {c}, !.read[c] = 0]
    /\ CountFault(fails)
    /\ UNCHANGED <<files, hosts, served, ranges, certbot, req, raced>>

TimerEnd ==
    /\ timer.pc = "update" /\ timer.todo = {}
    /\ timer' = [timer EXCEPT !.pc = "idle"]
    /\ UNCHANGED <<rows, files, hosts, served, ranges, certbot, req, faults, raced>>

-----------------------------------------------------------------------------
\* ip_ranges.fetch: the file is written when it differs from what is published,
\* and only then is nginx reloaded.  Nothing else reads or writes the file
\* between the awaits of a fetch, which does not run twice at once.
Publish ==
    /\ ranges.left > 0
    /\ ranges' = [ranges EXCEPT !.published = @ + 1, !.left = @ - 1]
    /\ UNCHANGED <<rows, files, hosts, served, certbot, timer, req, faults, raced>>

Fetch ==
    /\ ranges.pc = "idle" /\ ranges.file # ranges.published
    /\ ranges' = [ranges EXCEPT !.file = ranges.published, !.pc = "reload"]
    /\ UNCHANGED <<rows, files, hosts, served, certbot, timer, req, faults, raced>>

ReloadRanges(fails) ==
    LET ok == ~fails /\ Accepted(hosts, files) IN
    /\ ranges.pc = "reload"
    /\ served' = IF ok THEN Loaded(hosts, files) ELSE served
    /\ ranges' = [ranges EXCEPT !.pc = "idle", !.loaded = IF ok THEN ranges.file ELSE @]
    /\ CountFault(fails)
    /\ UNCHANGED <<rows, files, hosts, certbot, timer, req, raced>>

-----------------------------------------------------------------------------
Steps(r) ==
    \/ StartCertbot(r) \/ AuditFailed(r) \/ Count(r) \/ Remove(r) \/ Update(r) \/ WriteChain(r)
    \/ Commit(r) \/ Configure(r)
    \/ \E fails \in {FALSE, MayFail} :
          \/ EndCertbot(r, fails) \/ ReadFile(r, fails) \/ Patch(r, fails) \/ Drop(r, fails)
          \/ Audit(r, fails) \/ Mark(r, fails) \/ WriteKey(r, fails) \/ ReloadFor(r, fails)

TimerSteps ==
    \/ TimerStart \/ TimerRows \/ TimerEnd
    \/ \E due \in SUBSET Certs : TimerCertbot(due)
    \/ \E c \in Certs : TimerReadFile(c)
    \/ \E fails \in {FALSE, MayFail} : TimerReload(fails) \/ \E c \in Certs : TimerPatch(c, fails)

RangesSteps ==
    \/ Fetch
    \/ \E fails \in {FALSE, MayFail} : ReloadRanges(fails)

Next ==
    \/ \E r \in Requests : Get(r) \/ Insert(r) \/ Steps(r)
    \/ TimerSteps
    \/ RangesSteps
    \/ Publish

\* What was begun goes on, and the intervals of both timers pass.
Fairness == WF_vars(TimerSteps) /\ WF_vars(RangesSteps) /\ \A r \in Requests : WF_vars(Steps(r))
Spec == Init /\ [][Next]_vars /\ Fairness

-----------------------------------------------------------------------------
Pcs == {"todo", "count", "supersede", "update", "commit", "request", "read", "patch", "drop", "audit",
        "mark", "remove", "rm", "renew", "writeChain", "writeKey", "reload", "configure",
        "auditFailed", "done", "refused", "failed", "dropFailed"}

RequestType == [kind : Kinds, pc : Pcs, cert : Certs \cup {NoCert}, host : Hosts,
                checked : 0..Counted, version : Nat]

\* The types of rows, files and requests; certbot is held by who runs it.
TypeOK ==
    /\ rows \in [Certs -> [state : {"none", "live", "deleted"}, expires : Nat]]
    /\ files \in [Certs -> [chain : Nat, key : Nat]]
    /\ hosts \in [Hosts -> [cert : Certs \cup {NoCert}, online : BOOLEAN]]
    /\ served \in [Hosts -> Nat]
    /\ ranges \in [published : Nat, left : Nat, file : Nat, loaded : Nat, pc : {"idle", "reload"}]
    /\ certbot \in Requests \cup {Nobody, Timer}
    /\ \A r \in Requests : certbot = r => req[r].pc \in CertbotPcs
    /\ certbot = Timer <=> timer.pc = "certbot"
    /\ timer \in [pc : {"idle", "certbot", "reload", "rows", "update"}, todo : SUBSET Certs,
                  read : [Certs -> Nat]]
    /\ req \in [Requests -> RequestType]
    /\ faults \in Nat /\ raced \subseteq Certs

\* A certificate that is not deleted and has been made has its files, whichever
\* await of its making or of its deletion fails (certificate.js 150-160,
\* 325-346), unless deleting the row of a failed request failed as well.
Making(c) == \E r \in Requests : Cert(r) = c /\ req[r].kind \in {"create", "hostnew"}
                                   /\ req[r].pc \in {"request", "drop", "dropFailed"}
LiveHasFiles == \A c \in LetsEncrypt : Live(c) /\ ~Making(c) => files[c].chain > 0

\* A certificate in use by a host of any kind is not deleted, unless it was
\* attached while its deletion, or its making, was under way (certificate.js
\* 313-323: "Certificate is still in use").
InUseIsKept == \A h \in Hosts : hosts[h].cert \notin raced \cup {NoCert} => Live(hosts[h].cert)

\* In the end nginx serves the files there are and knows the ranges that were
\* written, also after a reload that failed: the renewal timer reloads whatever
\* it renewed (certificate.js 71-75).
Agree ==
    Accepted(hosts, files) => served = Loaded(hosts, files) /\ ranges.loaded = ranges.file
NginxCatchesUp == <>[]Agree

\* In the end every row shows the expiry of its file, also when the timer has
\* written back an expiry it had read before a renewal (certificate.js 82-102).
ExpiryCatchesUp ==
    <>[](\A c \in LetsEncrypt : Live(c) /\ files[c].chain > 0 => rows[c].expires = files[c].chain)
=============================================================================
