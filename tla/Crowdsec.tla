------------------------------ MODULE Crowdsec ------------------------------
(***************************************************************************)
(* The requests of the dashboard that reach CrowdSec: the catalogue of     *)
(* attackers, whose sessions scan the alert history a few batches at a     *)
(* time, and the changes an administrator makes (a ban, the deletion of a  *)
(* decision, a switch of the rule set), each recorded before it is made.   *)
(* All but the switch, which CrsControl makes on the host, share the       *)
(* machine token of LapiClient.                                            *)
(*                                                                         *)
(* Sources: internal/crowdsec-attackers.js, routes/crowdsec.js,            *)
(* internal/crs-control.js.                                                *)
(*                                                                         *)
(* Abstraction: search, sorting and pages of an answer are left out; a     *)
(* group of attackers is the alerts counted for it.  CrowdSec keeps every  *)
(* alert while a session lives.                                            *)
(***************************************************************************)
EXTENDS LapiClient, AlertHistory, CrsControl, Sequences

CONSTANTS
    MaxLive,      \* sessions kept: 8
    MaxSessions,  \* bound: sessions that are ever opened
    MaxAlerts,    \* bound: alerts that are ever created
    MaxTime,      \* the time at first; the alerts there are may be as old as 0
    Batches,      \* batches of one request: 4
    Scenes        \* bounds: the alerts there are at first, the mode, and the budgets of a behaviour

Alert == 1..MaxAlerts
Session == 1..MaxSessions
NoReq == "none"

ASSUME ReqAssumption == Req \subseteq Caller /\ NoReq \notin Req
ASSUME BoundAssumption ==
    /\ MaxLive \in Nat \ {0} /\ MaxSessions \in Nat \ {0} /\ Batches \in Nat \ {0}
    /\ MaxAlerts \in Nat /\ MaxTime \in Nat
ASSUME SceneAssumption ==
    \A scene \in Scenes :
        /\ scene.on \in BOOLEAN /\ scene.luck \in [faults : Nat, kills : Nat, heals : Nat]
        /\ scene.budget \in Budget
        /\ scene.time \in Seq(0..MaxTime) /\ Len(scene.time) <= MaxAlerts

VARIABLES
    clock, time,  \* the alerts of CrowdSec: time[a] of the alerts there are
    sess,         \* the catalogue's sessions
    opened,       \* how many have been opened
    op,           \* what each request is doing
    audit,        \* the audit entry of the change a request makes
    changes,      \* history: how often that change was carried out
    reply         \* the last answer of each request

adminVars == <<audit, changes>>
catVars == <<clock, time, sess, opened>>
vars == <<lapiVars, clock, time, sess, opened, op, audit, changes, reply, crsVars>>

NoSession ==
    [live |-> FALSE, told |-> FALSE, owner |-> NoReq, rev |-> 0,
     cursor |-> [before |-> 0, id |-> 0, step |-> 0], known |-> {},
     counted |-> [a \in Alert |-> 0], complete |-> FALSE, truncated |-> FALSE]
SessionState ==
    [live : BOOLEAN, told : BOOLEAN, owner : Req \cup {NoReq}, rev : Nat, cursor : Cursor,
     known : SUBSET Alert, counted : [Alert -> Nat], complete : BOOLEAN, truncated : BOOLEAN]

Idle == [kind |-> "idle", session |-> 1, limit |-> Limit, batch |-> 0, raw |-> {}]
Op == [kind : {"idle", "scan", "wait", "change", "control", "served", "left"}, session : Session,
       limit : {Limit, Fallback}, batch : 0..Batches, raw : SUBSET Alert]

NoReply == [status |-> "none", session |-> 1, rev |-> 0, counted |-> [a \in Alert |-> 0], logged |-> FALSE]
Reply == [status : {"none", "ok", "error", "expired"}, session : Session, rev : Nat,
          counted : [Alert -> Nat], logged : BOOLEAN]

Init ==
    /\ LapiInit(CHOOSE k \in Key : TRUE)
    /\ \E scene \in Scenes :
          /\ budget = scene.budget /\ time = scene.time
          /\ CrsInit(scene.on, scene.luck)
    /\ clock = MaxTime
    /\ sess = [s \in Session |-> NoSession] /\ opened = 0
    /\ op = [r \in Req |-> Idle]
    /\ audit = [r \in Req |-> "none"] /\ changes = [r \in Req |-> 0]
    /\ reply = [r \in Req |-> NoReply]

Live(ss) == {s \in Session : ss[s].live}
Ask == budget.asks > 0 /\ budget' = [budget EXCEPT !.asks = @ - 1]
Start(r) == call' = [call EXCEPT ![r] = Begun(r)]

-----------------------------------------------------------------------------
(* CrowdSec gets a new alert, in the same instant as the last event or later. *)

NewAlert(t) ==
    /\ budget.alerts > 0 /\ Len(time) < MaxAlerts
    /\ budget' = [budget EXCEPT !.alerts = @ - 1]
    /\ time' = Append(time, t) /\ clock' = t
    /\ UNCHANGED <<keyFile, lapi, cache, call, sess, opened, op, adminVars, reply>>

-----------------------------------------------------------------------------
(* The catalogue.                                                          *)

\* Sessions older than ten minutes are dropped first; the oldest are the ones opened first.
Expired(ss, n) == [s \in Session |-> IF s <= n THEN [ss[s] EXCEPT !.live = FALSE] ELSE ss[s]]

Evicted(ss) ==
    IF Cardinality(Live(ss)) < MaxLive THEN ss
    ELSE [ss EXCEPT ![CHOOSE s \in Live(ss) : \A x \in Live(ss) : s <= x].live = FALSE]

Opened(r) ==
    [NoSession EXCEPT !.live = TRUE, !.owner = r, !.known = DOMAIN time,
        !.cursor = [before |-> clock, id |-> MaxAlerts + 1, step |-> 0]]

ScanOf(s) == [Idle EXCEPT !.kind = "scan", !.session = s]

\* A request without a session opens one and scans.
Open(r, n) ==
    /\ op[r].kind = "idle" /\ Ask /\ opened < MaxSessions
    /\ opened' = opened + 1
    /\ sess' = [Evicted(Expired(sess, n)) EXCEPT ![opened'] = Opened(r)]
    /\ op' = [op EXCEPT ![r] = ScanOf(opened')]
    /\ Start(r)
    /\ UNCHANGED <<keyFile, lapi, cache, clock, time, adminVars, reply>>

MayAdvance(s, adv) ==
    /\ sess[s].owner = NoReq /\ ~sess[s].complete /\ ~sess[s].truncated
    /\ adv = sess[s].rev

Tell(s, st) == [NoReply EXCEPT !.status = "ok", !.session = s, !.rev = st.rev, !.counted = st.counted]

\* A request with a session it was told of and the revision it has seen.
Advance(r, s, adv, n) ==
    /\ op[r].kind = "idle" /\ Ask /\ sess[s].told /\ adv \in 1..sess[s].rev
    /\ sess[s].live /\ s > n /\ MayAdvance(s, adv)
    /\ sess' = [Expired(sess, n) EXCEPT ![s].owner = r]
    /\ op' = [op EXCEPT ![r] = ScanOf(s)]
    /\ Start(r)
    /\ UNCHANGED <<keyFile, lapi, cache, clock, time, opened, adminVars, reply>>

Join(r, s, adv, n) ==
    /\ op[r].kind = "idle" /\ Ask /\ sess[s].told /\ adv \in 1..sess[s].rev
    /\ sess[s].live /\ s > n /\ ~MayAdvance(s, adv)
    /\ sess' = Expired(sess, n)
    /\ IF sess[s].owner = NoReq
       THEN reply' = [reply EXCEPT ![r] = Tell(s, sess[s])] /\ UNCHANGED op
       ELSE op' = [op EXCEPT ![r] = [Idle EXCEPT !.kind = "wait", !.session = s]] /\ UNCHANGED reply
    /\ UNCHANGED <<keyFile, lapi, cache, call, clock, time, opened, adminVars>>

Expire(r, s, n) ==
    /\ op[r].kind = "idle" /\ Ask /\ sess[s].told
    /\ ~sess[s].live \/ s <= n
    /\ sess' = Expired(sess, n)
    /\ reply' = [reply EXCEPT ![r] = [NoReply EXCEPT !.status = "expired"]]
    /\ UNCHANGED <<keyFile, lapi, cache, call, clock, time, opened, op, adminVars>>

ServeScan(r) ==
    /\ op[r].kind = "scan" /\ Serve(r)
    /\ op' = [op EXCEPT ![r].raw = Answer(time, sess[op[r].session].cursor, op[r].limit)]
    /\ UNCHANGED <<catVars, adminVars, reply>>

LoseScan(r) ==
    /\ op[r].kind = "scan" /\ \E how \in {"lost", "invalid"} : ServeAndLose(r, how)
    /\ UNCHANGED <<catVars, op, adminVars, reply>>

\* The answer was too long to be read: the same batch again with fewer alerts.
AskFewer(r) ==
    /\ op[r].kind = "scan" /\ call[r].error = "invalid" /\ op[r].limit = Limit
    /\ op' = [op EXCEPT ![r].limit = Fallback]
    /\ Start(r)
    /\ UNCHANGED <<keyFile, lapi, cache, budget, catVars, adminVars, reply>>

Scanned(r, s) ==
    LET c       == sess[s].cursor
        raw     == op[r].raw
        batch   == Batch(time, c, raw)
        next    == HasNext(time, c, raw, op[r].limit)
        blocked == Blocked(time, c, raw, op[r].limit)
        counted == [a \in Alert |-> sess[s].counted[a] + IF a \in batch \cap Attack THEN 1 ELSE 0]
    IN  [sess[s] EXCEPT
            !.counted = counted, !.cursor = IF next THEN NextCursor(time, c, raw) ELSE c,
            !.truncated = blocked, !.complete = ~next /\ ~blocked, !.rev = @ + 1]

Waiting(s) == {r \in Req : op[r].kind = "wait" /\ op[r].session = s}
Release(r, s) == [x \in Req |-> IF x = r \/ x \in Waiting(s) THEN Idle ELSE op[x]]

\* A batch in the middle of a request: the next one follows.
NextBatch(r) ==
    LET s == op[r].session
        st == Scanned(r, s)
    IN  /\ op[r].kind = "scan" /\ call[r].stage = "ok"
        /\ ~st.complete /\ ~st.truncated /\ op[r].batch + 1 < Batches
        /\ sess' = [sess EXCEPT ![s] = st]
        /\ op' = [op EXCEPT ![r] = [ScanOf(s) EXCEPT !.batch = op[r].batch + 1]]
        /\ Start(r)
        /\ UNCHANGED <<keyFile, lapi, cache, budget, clock, time, opened, adminVars, reply>>

\* The last one: the request and all that waited for its scan are answered.
LastBatch(r) ==
    LET s == op[r].session
        st == Scanned(r, s)
    IN  /\ op[r].kind = "scan" /\ call[r].stage = "ok"
        /\ st.complete \/ st.truncated \/ op[r].batch + 1 = Batches
        /\ sess' = [sess EXCEPT ![s] = [st EXCEPT !.owner = NoReq, !.told = TRUE]]
        /\ op' = Release(r, s)
        /\ reply' = [x \in Req |-> IF x = r \/ x \in Waiting(s) THEN Tell(s, st) ELSE reply[x]]
        /\ call' = [call EXCEPT ![r] = Quiet]
        /\ UNCHANGED <<keyFile, lapi, cache, budget, clock, time, opened, adminVars>>

\* Mutant: the pending mark outlives a scan that failed.
ScanFailsPending(r) ==
    LET s == op[r].session
    IN  /\ op[r].kind = "scan" /\ call[r].stage = "error"
        /\ ~(call[r].error = "invalid" /\ op[r].limit = Limit)
        /\ op' = [op EXCEPT ![r] = Idle]
        /\ reply' = [reply EXCEPT ![r] = [NoReply EXCEPT !.status = "error"]]
        /\ call' = [call EXCEPT ![r] = Quiet]
        /\ UNCHANGED <<keyFile, lapi, cache, budget, catVars, adminVars>>

\* A batch fails: what earlier batches counted stays, with the cursor that goes with it.
ScanFails(r) ==
    LET s == op[r].session
    IN  /\ op[r].kind = "scan" /\ call[r].stage = "error"
        /\ ~(call[r].error = "invalid" /\ op[r].limit = Limit)
        /\ sess' = [sess EXCEPT ![s].owner = NoReq]
        /\ op' = Release(r, s)
        /\ reply' = [x \in Req |-> IF x = r \/ x \in Waiting(s)
                                   THEN [NoReply EXCEPT !.status = "error"] ELSE reply[x]]
        /\ call' = [call EXCEPT ![r] = Quiet]
        /\ UNCHANGED <<keyFile, lapi, cache, budget, clock, time, opened, adminVars>>

-----------------------------------------------------------------------------
(* The changes: an audit entry, the change, and what became of it.         *)

Change(r) ==
    /\ op[r].kind = "idle" /\ Ask
    /\ audit' = [audit EXCEPT ![r] = "requested"] /\ changes' = [changes EXCEPT ![r] = 0]
    /\ op' = [op EXCEPT ![r].kind = "change"]
    /\ Start(r)
    /\ UNCHANGED <<keyFile, lapi, cache, catVars, reply>>

\* The entry cannot be written: the change is not made.
ChangeRefused(r) ==
    /\ op[r].kind = "idle" /\ budget.asks > 0 /\ budget.faults > 0
    /\ budget' = [budget EXCEPT !.asks = @ - 1, !.faults = @ - 1]
    /\ audit' = [audit EXCEPT ![r] = "none"] /\ changes' = [changes EXCEPT ![r] = 0]
    /\ reply' = [reply EXCEPT ![r] = [NoReply EXCEPT !.status = "error"]]
    /\ UNCHANGED <<keyFile, lapi, cache, call, catVars, op>>

CarriedOut(r) == changes' = [changes EXCEPT ![r] = @ + 1]

ServeChange(r) ==
    /\ op[r].kind = "change" /\ Serve(r) /\ CarriedOut(r)
    /\ UNCHANGED <<catVars, op, audit, reply>>

LoseChange(r) ==
    /\ op[r].kind = "change" /\ \E how \in {"lost", "invalid"} : ServeAndLose(r, how)
    /\ CarriedOut(r)
    /\ UNCHANGED <<catVars, op, audit, reply>>

\* The entry is completed; when that fails the answer says so, or the entry stays "requested".
Finish(r, final, status) ==
    /\ op' = [op EXCEPT ![r] = Idle] /\ call' = [call EXCEPT ![r] = Quiet]
    /\ \/ /\ audit' = [audit EXCEPT ![r] = final]
          /\ reply' = [reply EXCEPT ![r] = [NoReply EXCEPT !.status = status, !.logged = status = "ok"]]
          /\ UNCHANGED budget
       \/ /\ budget.faults > 0 /\ budget' = [budget EXCEPT !.faults = @ - 1]
          /\ reply' = [reply EXCEPT ![r] = [NoReply EXCEPT !.status = status]]
          /\ UNCHANGED audit
    /\ UNCHANGED <<keyFile, lapi, cache, catVars, changes>>

ChangeMade(r) ==
    /\ op[r].kind = "change" /\ call[r].stage = "ok"
    /\ Finish(r, "done", "ok")

ChangeFailed(r) ==
    /\ op[r].kind = "change" /\ call[r].stage = "error"
    /\ Finish(r, "failed", "error")

-----------------------------------------------------------------------------
(* The switch of the rule set: an audit entry, and a verb to the host.     *)

Switch(r) ==
    /\ op[r].kind = "idle" /\ budget.controls > 0
    /\ budget' = [budget EXCEPT !.controls = @ - 1]
    /\ audit' = [audit EXCEPT ![r] = "requested"] /\ changes' = [changes EXCEPT ![r] = 0]
    /\ op' = [op EXCEPT ![r].kind = "control"]
    /\ UNCHANGED <<keyFile, lapi, cache, call, catVars, reply, crsVars>>

Connect(r) ==
    /\ op[r].kind = "control" /\ \E verb \in Verbs : Look(r, verb)
    /\ op' = [op EXCEPT ![r].kind = "served"]
    /\ UNCHANGED <<lapiVars, catVars, adminVars, reply>>

AnswerWith(r, status) ==
    /\ op' = [op EXCEPT ![r].kind = "idle"]
    /\ reply' = IF op[r].kind = "left" THEN reply ELSE [reply EXCEPT ![r] = [NoReply EXCEPT !.status = status]]

\* The host has decided; a change that it accepts goes on after the answer.
Verb(r) ==
    /\ peer.from = r /\ Decide
    /\ AnswerWith(r, IF Accepted THEN "ok" ELSE "error")
    /\ IF Verdict = "start" THEN CarriedOut(r) ELSE UNCHANGED changes
    /\ UNCHANGED <<lapiVars, catVars, audit>>

\* The connection ends without an answer.
VerbLost(r) ==
    /\ peer.from = r /\ (Unsaved \/ KillService)
    /\ AnswerWith(r, "error")
    /\ UNCHANGED <<lapiVars, catVars, adminVars>>

\* Three seconds are over, or there is no service: the host may still go on with the verb.
GiveUpVerb(r) ==
    /\ op[r].kind \in {"control", "served"}
    /\ op' = [op EXCEPT ![r].kind = IF @ = "served" THEN "left" ELSE "idle"]
    /\ reply' = [reply EXCEPT ![r] = [NoReply EXCEPT !.status = "error"]]
    /\ UNCHANGED <<lapiVars, catVars, adminVars, crsVars>>

-----------------------------------------------------------------------------
Rest == <<catVars, op, adminVars, reply>>

\* What the backend and CrowdSec do for a request that is under way.
Progress(r) ==
    \/ ClientStep(r) /\ UNCHANGED Rest
    \/ LapiAnswers(r) /\ UNCHANGED Rest
    \/ ServeScan(r) \/ LoseScan(r) \/ AskFewer(r) \/ NextBatch(r) \/ LastBatch(r) \/ ScanFails(r)
    \/ ServeChange(r) \/ LoseChange(r) \/ ChangeMade(r) \/ ChangeFailed(r)

Arrive(r) ==
    \/ \E n \in 0..opened : Open(r, n)
    \/ \E s \in Session, n \in 0..opened : Expire(r, s, n)
    \/ \E s \in Session, n \in 0..opened : \E adv \in 1..sess[s].rev : Advance(r, s, adv, n) \/ Join(r, s, adv, n)
    \/ Change(r) \/ ChangeRefused(r)

SwitchStep(r) == Switch(r) \/ Connect(r) \/ Verb(r) \/ VerbLost(r) \/ GiveUpVerb(r)

\* The service of the host, its worker and what goes on around them.
Host == CrsStep \/ (peer.from = Nobody /\ KillService)

Next ==
    \/ World /\ UNCHANGED <<Rest, crsVars>>
    \/ (\E t \in clock..clock + 1 : NewAlert(t)) /\ UNCHANGED crsVars
    \/ \E r \in Req : (Arrive(r) \/ Progress(r)) /\ UNCHANGED crsVars
    \/ \E r \in Req : SwitchStep(r)
    \/ Host /\ UNCHANGED <<lapiVars, Rest>>

Spec == Init /\ [][Next]_vars

-----------------------------------------------------------------------------
\* The state is well-typed, and no more sessions are kept than the limit allows.
TypeOK ==
    /\ LapiTypeOK /\ CrsTypeOK /\ Cardinality(Live(sess)) <= MaxLive
    /\ clock \in Nat /\ time \in Seq(Nat) /\ Len(time) <= MaxAlerts
    /\ sess \in [Session -> SessionState] /\ opened \in 0..MaxSessions
    /\ op \in [Req -> Op] /\ reply \in [Req -> Reply]
    /\ audit \in [Req -> {"none", "requested", "done", "failed"}]
    /\ changes \in [Req -> Nat]

\* The alerts a session still has to look at; none when its scan is complete.
ToCome(s) == IF sess[s].complete THEN {}
             ELSE {a \in sess[s].known : Behind(time, sess[s].cursor, a)}

\* Whatever requests run together, wait, fail half way or lose their session, a session has
\* counted every attack it has passed, and once: none is skipped at a tie of two times or at
\* the seam of two batches, and a complete scan has counted all alerts there were at its start.
\* A truncated scan has no cursor any more; it has counted none twice.
CountedOnce ==
    \A s \in Session : \A a \in Alert :
        /\ sess[s].counted[a] <= 1
        /\ a \in sess[s].known \cap Attack /\ ~sess[s].truncated =>
               sess[s].counted[a] = IF a \in ToCome(s) THEN 0 ELSE 1

\* A change is carried out at most once, only after an entry of the audit log announced it; an
\* entry that says it was made and an answer that says it was logged are true.
ChangesAudited ==
    \A r \in Req :
        /\ changes[r] <= 1
        /\ changes[r] = 1 => audit[r] # "none"
        /\ audit[r] = "done" => changes[r] = 1
        /\ reply[r].logged => audit[r] \in {"done", "requested"}

\* A request that waits for the scan of another is never left behind: the scan is under way, even
\* when its session has been dropped or a batch fails, and its end answers all that wait.
WaitsForScan ==
    \A r \in Req : op[r].kind = "wait" =>
        LET owner == sess[op[r].session].owner
        IN  owner # NoReq /\ op[owner].kind = "scan" /\ op[owner].session = op[r].session
=============================================================================
