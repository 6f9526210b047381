--------------------------- MODULE TokenSessions ---------------------------
(* The signed tokens a browser holds, the table of sessions behind them and    *)
(* the checks every request makes of both (internal/token-session.js,          *)
(* internal/token.js, lib/access.js, lib/token-time.js, DELETE and GET         *)
(* /tokens).  A request is a process: every await of its handler ends a step,  *)
(* and the steps of several requests interleave.                               *)
(*                                                                             *)
(* Sessions, secrets, passwords and sets of backup codes are named after the   *)
(* request that made them, First after the state the account starts in: random *)
(* identities never meet.  One account is modelled; administrators act on it.  *)
EXTENDS Integers

CONSTANTS
    Requests,       \* the requests that may be made, a set of positive numbers
    SessionLife,    \* the hour a session lasts, in ticks of the clock
    ChallengeLife,  \* the three minutes a challenge lasts
    MaxTime         \* bound: the clock stops here

ASSUME TimeAssumption == {SessionLife, ChallengeLife} \subseteq Nat /\ MaxTime \in Nat \ {0}
ASSUME RequestAssumption == Requests \subseteq Nat \ {0}

First == 0
Makers == Requests \cup {First}

VARIABLES
    now,       \* the wall clock, in the seconds every time is rounded to
    sessions,  \* npmplus_token_session: the expiry of every session, 0 if none
    held,      \* the tokens handed to browsers, including those they forgot
    account,   \* the user row, its password row and who last set the password
    req,       \* the requests: where each one is and what it has read
    ended,     \* history: the sessions a logout has deleted
    closed     \* history: the tokens browsers held when all were revoked

\* Each request issues at most two sessions (a change of one's own password
\* logs in to check the current one, and once more afterwards).
Sids == Makers \X {1, 2}

Token(sid, iat, scope) == [sid |-> sid, iat |-> iat, scope |-> scope]
Tokens == [sid : Sids, iat : 0..MaxTime, scope : {"user", "mfa-challenge"}]
NoToken == Token(<<First, 2>>, 0, "user")

Lifetime(scope) == IF scope = "user" THEN SessionLife ELSE ChallengeLife

\* Token.load: the signature holds for every token that was issued.
Loads(t) == t # NoToken /\ now < t.iat + Lifetime(t.scope)

Usable(sid) == sessions[sid] > now

At(r, pc) == req[r].pc = pc
Goto(r, pc) == req' = [req EXCEPT ![r].pc = pc]
InFlight(r) == req[r].pc \notin {"todo", "done", "refused", "failed"}

ActiveUser == account.enabled /\ ~account.deleted

-----------------------------------------------------------------------------
\* jwt-decode, access.js init: the token, then its session ...
CheckSession(r) ==
    /\ At(r, "session")
    /\ Goto(r, IF ~Loads(req[r].token) \/ ~Usable(req[r].token.sid) THEN "refused"
               ELSE IF req[r].kind = "second" THEN "readUser"
               ELSE "user")
    /\ UNCHANGED <<now, sessions, held, account, ended, closed>>

\* ... then the user, who must exist and not have revoked the token.
Admits(t) == ActiveUser /\ t.iat > account.validAfter

CheckUser(r, then) ==
    /\ At(r, "user")
    /\ Goto(r, IF Admits(req[r].token) THEN then ELSE "refused")
    /\ UNCHANGED <<now, sessions, held, account, ended, closed>>

\* getFreshToken, GET /tokens: signed now, for the session it came with.
Sign(r) ==
    /\ At(r, "sign")
    /\ req' = [req EXCEPT ![r].pc = "extend", ![r].iat = now]
    /\ UNCHANGED <<now, sessions, held, account, ended, closed>>

\* issueSessionToken with a sid: the row is extended, never created again.
\* A defect to detect: an upsert.
ExtendsAny(sid) == TRUE
Extends(sid) == Usable(sid)

Extend(r) ==
    LET sid == req[r].token.sid IN
    /\ At(r, "extend")
    /\ IF Extends(sid)
         THEN /\ sessions' = [sessions EXCEPT ![sid] = req[r].iat + SessionLife]
              /\ held' = held \cup {Token(sid, req[r].iat, "user")}
              /\ Goto(r, "done")
         ELSE Goto(r, "refused") /\ UNCHANGED <<sessions, held>>
    /\ UNCHANGED <<now, account, ended, closed>>

\* issuedAfter: sleep past the cutoff, then take the time of the clock.
\* A defect to detect: dated past the cutoff without the sleep.
IssueTimeAhead(cutoff) == IF now > cutoff THEN {now} ELSE {t \in 0..MaxTime : t = cutoff + 1}
IssueTime(cutoff) == {t \in {now} : t > cutoff}

Issue(r) ==
    /\ At(r, "issue")
    /\ \E iat \in IssueTime(req[r].cutoff) :
          req' = [req EXCEPT ![r].pc = "insert", ![r].iat = iat]
    /\ UNCHANGED <<now, sessions, held, account, ended, closed>>

\* issueSessionToken without a sid: expired rows go, the new session comes.
\* The login inside a change of password leaves a session nobody holds.
Insert(r) ==
    LET inner == req[r].kind = "password" /\ req[r].nth = 1
        sid == <<r, req[r].nth>>
        live == [s \in Sids |-> IF Usable(s) THEN sessions[s] ELSE 0] IN
    /\ At(r, "insert")
    /\ sessions' = [live EXCEPT ![sid] = req[r].iat + Lifetime(req[r].scope)]
    /\ held' = IF inner THEN held ELSE held \cup {Token(sid, req[r].iat, req[r].scope)}
    /\ req' = [req EXCEPT ![r].pc = IF inner THEN "setPassword" ELSE "done",
                          ![r].nth = IF inner THEN 2 ELSE 1,
                          ![r].scope = IF inner THEN "user" ELSE @]
    /\ UNCHANGED <<now, account, ended, closed>>

\* consumeChallengeSession: only the request that deletes the row goes on.
\* A defect to detect: the count of deleted rows is not looked at.
ConsumedAny(sid) == TRUE
Consumed(sid) == Usable(sid)

Consume(r) ==
    LET sid == req[r].token.sid IN
    /\ At(r, "consume")
    /\ Goto(r, IF Consumed(sid) THEN "issue" ELSE "refused")
    /\ sessions' = IF Usable(sid) THEN [sessions EXCEPT ![sid] = 0] ELSE sessions
    /\ UNCHANGED <<now, held, account, ended, closed>>

\* revokeTokenSession, once for each of the two cookies of DELETE /tokens.
DropCookie(r, pc, t, then) ==
    /\ At(r, pc)
    /\ Goto(r, then)
    /\ IF Loads(t)
         THEN sessions' = [sessions EXCEPT ![t.sid] = 0] /\ ended' = ended \cup {t.sid}
         ELSE UNCHANGED <<sessions, ended>>
    /\ UNCHANGED <<now, held, account, closed>>

Logout(r) ==
    \/ DropCookie(r, "drop", req[r].token, "dropChallenge")
    \/ DropCookie(r, "dropChallenge", req[r].other, "done")

\* npmplus_token_valid_after: every token issued until now is refused from here on.
Stamp(r, then) ==
    /\ At(r, "stamp")
    /\ account' = [account EXCEPT !.validAfter = now]
    /\ closed' = closed \cup held
    /\ req' = [req EXCEPT ![r].pc = then]
    /\ UNCHANGED <<now, sessions, held, ended>>

\* getFreshToken(access, true): the cutoff is the clock, not the row.
CutoffNow(r) ==
    /\ At(r, "cutoff")
    /\ req' = [req EXCEPT ![r].pc = "issue", ![r].cutoff = now, ![r].scope = "user"]
    /\ UNCHANGED <<now, sessions, held, account, ended, closed>>

Tick ==
    /\ now < MaxTime
    /\ now' = now + 1
    /\ UNCHANGED <<sessions, held, account, req, ended, closed>>

\* The database fails or the connection drops: the handler stops where it is.
Fail(r) ==
    /\ InFlight(r)
    /\ Goto(r, "failed")
    /\ UNCHANGED <<now, sessions, held, account, ended, closed>>
=============================================================================
